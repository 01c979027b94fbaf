-------------------------- MODULE HasPresetsProofs --------------------------
(* Proofs about the list of presets, for any number of presets and any      *)
(* bounds: the types, that the list stays sorted, that it keeps no preset   *)
(* that the aid has not got once the notifications are in, and that a read  *)
(* of the list brings in every preset that fits.                            *)
EXTENDS HasPresets, SequenceTheorems, FiniteSetTheorems, TLAPS

\* The used entries of l come first, by ascending index.
Ascending(l) ==
    \A p, q \in Positions :
        p < q /\ l[q].index # 0 => l[p].index # 0 /\ l[p].index < l[q].index

\* A list of records.
Lists == [Positions -> Record]

\* What the indices of records are.
LEMMA RecordIndex ==
    /\ \A r \in Record : r.index \in Nat
    /\ \A r \in Preset : r \in Record /\ r.index \in Nat \ {0}
    /\ Empty \in Record /\ Empty.index = 0
    /\ MaxRecords \in Nat \ {0}
BY PresetsAssumption DEF Record, Preset, Empty

\* Deleting records keeps the list sorted.
LEMMA DeletedSorted ==
    ASSUME NEW l \in Lists, Ascending(l), NEW from \in 0 .. MaxRecords,
           NEW to \in 0 .. MaxRecords
    PROVE  Deleted(l, from, to) \in Lists /\ Ascending(Deleted(l, from, to))
<1>1. CASE from < 1 \/ to > MaxRecords \/ from > to
    BY <1>1 DEF Deleted
<1>2. CASE ~(from < 1 \/ to > MaxRecords \/ from > to)
    <2> DEFINE n == to - from + 1
               d == [p \in Positions |-> IF p < from THEN l[p]
                                         ELSE IF p + n <= MaxRecords THEN l[p + n]
                                         ELSE Empty]
    <2>1. Deleted(l, from, to) = d BY <1>2 DEF Deleted
    <2>2. n \in Nat /\ n >= 1 BY <1>2, RecordIndex
    <2> HIDE DEF n
    <2>3. \A p \in Positions : /\ p < from => d[p] = l[p]
                               /\ p >= from /\ p + n <= MaxRecords =>
                                     p + n \in Positions /\ d[p] = l[p + n]
                               /\ p >= from /\ p + n > MaxRecords => d[p] = Empty
        BY <2>2, RecordIndex DEF Positions
    <2>4. d \in Lists
        BY <2>2, <2>3, RecordIndex DEF Lists, Positions
    <2> HIDE DEF d
    <2>5. ASSUME NEW p \in Positions, NEW q \in Positions, p < q, d[q].index # 0
          PROVE  d[p].index # 0 /\ d[p].index < d[q].index
        <3>1. CASE q < from
            BY <2>3, <2>5, <3>1, RecordIndex DEF Ascending, Positions
        <3>2. CASE q >= from
            <4>1. q + n <= MaxRecords /\ q + n \in Positions /\ d[q] = l[q + n]
                BY <2>2, <2>3, <2>5, <3>2, RecordIndex DEF Positions
            <4>2. CASE p < from
                <5>1. d[p] = l[p] /\ p < q + n
                    BY <2>2, <2>3, <2>5, <4>2 DEF Positions
                <5>2. QED BY <2>5, <4>1, <5>1 DEF Ascending
            <4>3. CASE p >= from
                <5>1. p + n \in Positions /\ d[p] = l[p + n] /\ p + n < q + n
                    BY <2>2, <2>3, <2>5, <4>1, <4>3, RecordIndex DEF Positions
                <5>2. QED BY <2>5, <4>1, <5>1 DEF Ascending
            <4>4. QED BY <4>2, <4>3, RecordIndex DEF Positions
        <3>3. QED BY <3>1, <3>2, RecordIndex DEF Positions
    <2>6. Ascending(d) BY <2>5 DEF Ascending
    <2>7. QED BY <2>1, <2>4, <2>6
<1>3. QED BY <1>1, <1>2

\* Adding a record at a position before which all indices are lower, or that
\* has its index.
LEMMA AddSorted ==
    ASSUME list \in Lists, Sorted, NEW pos \in 0 .. MaxRecords, NEW rec \in Preset,
           pos # 0 => \/ list[pos].index = rec.index
                      \/ \A q \in 1 .. pos - 1 :
                            list[q].index # 0 /\ list[q].index < rec.index,
           Add(pos, rec)
    PROVE  list' \in Lists /\ Ascending(list')
<1>1. CASE pos = 0
    BY <1>1 DEF Add, Sorted, Ascending
<1>2. CASE pos # 0 /\ rec.index = list[pos].index
    <2>1. pos \in Positions /\ list' = [list EXCEPT ![pos] = rec]
        BY <1>2, RecordIndex DEF Add, AddAt, Positions
    <2>2. list' \in Lists BY <2>1, RecordIndex DEF Lists
    <2>3. \A p \in Positions : list'[p].index = list[p].index
        BY <1>2, <2>1 DEF Lists
    <2>4. QED BY <2>2, <2>3 DEF Sorted, Ascending
<1>3. CASE pos # 0 /\ rec.index # list[pos].index
    <2>1. pos \in Positions /\ AddAt(pos, rec)
        BY <1>3, RecordIndex DEF Add, Positions
    <2>2. \A q \in Positions : q < pos =>
              /\ list[q].index \in Nat /\ list[q].index # 0
              /\ list[q].index < rec.index
        BY <1>3, <2>1, RecordIndex DEF Positions, Lists
    <2>3. rec.index \in Nat /\ rec.index > 0 /\ rec \in Record
        BY RecordIndex
    \* It is enough that what comes after pos is unused or higher, and sorted.
    <2>4. ASSUME list' \in Lists, list'[pos] = rec,
                 \A q \in Positions : q < pos => list'[q] = list[q],
                 \A q \in Positions : pos < q /\ list'[q].index # 0
                     => list'[q].index \in Nat /\ rec.index < list'[q].index,
                 \A p, q \in Positions : pos < p /\ p < q /\ list'[q].index # 0
                     => list'[p].index # 0 /\ list'[p].index < list'[q].index
          PROVE  Ascending(list')
        <3> SUFFICES ASSUME NEW p \in Positions, NEW q \in Positions, p < q,
                            list'[q].index # 0
                     PROVE  list'[p].index # 0 /\ list'[p].index < list'[q].index
            BY DEF Ascending
        <3>1. p \in Nat /\ q \in Nat /\ pos \in Nat
            BY <2>1, RecordIndex DEF Positions
        <3>2. CASE q < pos
            BY <2>4, <3>1, <3>2 DEF Sorted
        <3>3. CASE q = pos
            BY <2>2, <2>4, <3>1, <3>3
        <3>4. CASE q > pos /\ p <= pos
            <4>1. list'[q].index \in Nat /\ rec.index < list'[q].index
                BY <2>4, <3>1, <3>4
            <4>2. CASE p = pos BY <2>3, <2>4, <4>1, <4>2
            <4>3. CASE p < pos BY <2>2, <2>3, <2>4, <4>1, <4>3
            <4>4. QED BY <3>1, <3>4, <4>2, <4>3
        <3>5. CASE p > pos
            BY <2>4, <3>1, <3>5
        <3>6. QED BY <3>1, <3>2, <3>3, <3>4, <3>5
    <2>5. CASE pos = MaxRecords
        <3>1. list' = [list EXCEPT ![pos] = rec] BY <2>1, <2>5 DEF AddAt
        <3>2. list' \in Lists /\ list'[pos] = rec
            BY <2>1, <2>3, <3>1 DEF Lists
        <3>3. \A q \in Positions : q < pos => list'[q] = list[q]
            BY <3>1 DEF Lists, Positions
        <3>4. \A q \in Positions : ~(pos < q)
            BY <2>5, RecordIndex DEF Positions
        <3>5. QED BY <2>4, <3>2, <3>3, <3>4
    <2>6. CASE pos # MaxRecords
        <3>1. PICK n \in Positions \union {MaxRecords + 1} :
                /\ NextHigher(pos, rec, n)
                /\ list' =
                     IF n = MaxRecords + 1
                     THEN [p \in Positions |-> IF p < pos THEN list[p] ELSE IF p = pos THEN rec ELSE Empty]
                     ELSE IF n > pos
                     THEN [Deleted(list, pos, n - 1) EXCEPT ![pos] = rec]
                     ELSE [p \in Positions |-> IF p < pos THEN list[p] ELSE IF p = pos THEN rec
                                               ELSE list[p - 1]]
            BY <1>3, <2>1, <2>6 DEF AddAt
        <3>2. CASE n = MaxRecords + 1
            <4>1. list' = [p \in Positions |-> IF p < pos THEN list[p]
                              ELSE IF p = pos THEN rec ELSE Empty]
                BY <3>1, <3>2
            <4>2. list' \in Lists BY <2>3, <4>1, RecordIndex DEF Lists
            <4>3. list'[pos] = rec /\ \A q \in Positions :
                     (q < pos => list'[q] = list[q]) /\ (pos < q => list'[q] = Empty)
                BY <2>1, <4>1 DEF Positions
            <4>4. \A q \in Positions : pos < q => list'[q].index = 0
                BY <4>3, RecordIndex
            <4>5. \A p, q \in Positions : pos < p /\ p < q => list'[q].index = 0
                BY <2>1, <4>4 DEF Positions
            <4>6. QED BY <2>4, <4>2, <4>3, <4>4, <4>5
        <3>3. CASE n # MaxRecords + 1 /\ n > pos
            <4> DEFINE m == n - pos
            <4>1. /\ n \in Positions /\ m \in Nat /\ m >= 1
                  /\ list[n].index >= rec.index
                <5>1. n \in Positions BY <3>1, <3>3
                <5>2. list[n].index \in Nat BY <5>1, RecordIndex DEF Lists
                <5>3. ~(rec.index > list[n].index) BY <3>1, <5>1 DEF NextHigher
                <5>4. QED BY <2>1, <2>3, <3>3, <5>1, <5>2, <5>3 DEF Positions
            <4>2. Deleted(list, pos, n - 1)
                    = [p \in Positions |-> IF p < pos THEN list[p]
                                           ELSE IF p + m <= MaxRecords THEN list[p + m]
                                           ELSE Empty]
                <5>1. ~(pos < 1 \/ n - 1 > MaxRecords \/ pos > n - 1) /\ n - 1 - pos + 1 = m
                    BY <2>1, <3>3, <4>1, RecordIndex DEF Positions
                <5>2. QED BY <5>1 DEF Deleted
            <4>3. list' = [Deleted(list, pos, n - 1) EXCEPT ![pos] = rec]
                BY <3>1, <3>3
            <4> HIDE DEF m
            <4>4. list'[pos] = rec /\ \A q \in Positions :
                    /\ q < pos => list'[q] = list[q]
                    /\ pos < q /\ q + m <= MaxRecords
                          => list'[q] = list[q + m] /\ q + m \in Positions
                    /\ pos < q /\ q + m > MaxRecords => list'[q] = Empty
                BY <2>1, <4>1, <4>2, <4>3, RecordIndex DEF Positions
            <4>5. list' \in Lists
                <5>1. DOMAIN list' = Positions /\ list' = [p \in Positions |-> list'[p]]
                    BY <4>2, <4>3
                <5>2. \A p \in Positions : list'[p] \in Record
                    BY <2>1, <2>3, <4>1, <4>4, RecordIndex DEF Lists, Positions
                <5>3. QED BY <5>1, <5>2 DEF Lists
            <4>6. ASSUME NEW q \in Positions, pos < q, list'[q].index # 0
                  PROVE  /\ list'[q].index \in Nat /\ rec.index < list'[q].index
                         /\ q + m \in Positions /\ list'[q] = list[q + m]
                <5>1. q + m \in Positions /\ list'[q] = list[q + m]
                    BY <2>1, <4>1, <4>4, <4>6, RecordIndex DEF Positions
                <5>2. n < q + m BY <2>1, <4>1, <4>6 DEF m, Positions
                <5>3. list[n].index < list[q + m].index
                    BY <4>1, <4>6, <5>1, <5>2 DEF Sorted
                <5>4. list[n].index \in Nat /\ list[q + m].index \in Nat
                    BY <4>1, <5>1, RecordIndex DEF Lists
                <5>5. QED BY <2>3, <4>1, <5>1, <5>3, <5>4
            <4>7. ASSUME NEW p \in Positions, NEW q \in Positions, pos < p, p < q,
                         list'[q].index # 0
                  PROVE  list'[p].index # 0 /\ list'[p].index < list'[q].index
                <5>1. pos < q BY <2>1, <4>7 DEF Positions
                <5>2. q + m \in Positions /\ list'[q] = list[q + m]
                    BY <4>6, <4>7, <5>1
                <5>3. p + m \in Positions /\ list'[p] = list[p + m] /\ p + m < q + m
                    BY <4>1, <4>4, <4>7, <5>2, RecordIndex DEF Positions
                <5>4. QED BY <4>7, <5>2, <5>3 DEF Sorted
            <4>8. QED BY <2>4, <4>4, <4>5, <4>6, <4>7
        <3>4. CASE n # MaxRecords + 1 /\ ~(n > pos)
            <4>1. n = pos
                BY <2>1, <3>1, <3>4, RecordIndex DEF NextHigher, Positions
            <4>2. rec.index < list[pos].index /\ list[pos].index \in Nat
                <5>1. list[pos].index \in Nat BY <2>1, RecordIndex DEF Lists
                <5>2. QED BY <1>3, <2>1, <2>3, <3>1, <4>1, <5>1 DEF NextHigher
            <4>3. list' = [p \in Positions |-> IF p < pos THEN list[p]
                              ELSE IF p = pos THEN rec ELSE list[p - 1]]
                BY <3>1, <3>4
            <4>4. list'[pos] = rec /\ \A q \in Positions :
                    /\ q < pos => list'[q] = list[q]
                    /\ pos < q => list'[q] = list[q - 1] /\ q - 1 \in Positions
                BY <2>1, <4>3, RecordIndex DEF Positions
            <4>5. list' \in Lists
                BY <2>1, <2>3, <4>3, <4>4, RecordIndex DEF Lists, Positions
            <4>6. ASSUME NEW q \in Positions, pos < q, list'[q].index # 0
                  PROVE  list'[q].index \in Nat /\ rec.index < list'[q].index
                <5>1. q - 1 \in Positions /\ list'[q] = list[q - 1] BY <4>4, <4>6
                <5>2. list[q - 1].index \in Nat BY <5>1, RecordIndex DEF Lists
                <5>3. CASE q - 1 = pos BY <4>2, <5>1, <5>3
                <5>4. CASE pos < q - 1
                    <6>1. list[pos].index < list[q - 1].index
                        BY <2>1, <4>6, <5>1, <5>4 DEF Sorted
                    <6>2. QED BY <2>3, <4>2, <5>1, <5>2, <6>1
                <5>5. QED BY <2>1, <4>6, <5>3, <5>4 DEF Positions
            <4>7. ASSUME NEW p \in Positions, NEW q \in Positions, pos < p, p < q,
                         list'[q].index # 0
                  PROVE  list'[p].index # 0 /\ list'[p].index < list'[q].index
                <5>1. /\ pos < q /\ p - 1 < q - 1
                    BY <2>1, <4>7 DEF Positions
                <5>2. QED BY <4>4, <4>7, <5>1 DEF Sorted
            <4>8. QED BY <2>4, <4>4, <4>5, <4>6, <4>7
        <3>5. QED BY <3>2, <3>3, <3>4
    <2>7. QED BY <2>5, <2>6
<1>4. QED BY <1>1, <1>2, <1>3

\* The inductive invariant.
ListInv == TypeOK /\ Sorted

\* The head of the indications under way.
LEMMA Heads ==
    ASSUME TypeOK, Received
    PROVE  /\ Head(ind) \in Indication /\ ind' \in Seq(Indication)
           /\ Head(ind).t = "RESPONSE" => Head(ind).rec \in Preset /\ Head(ind).upto \in 0 .. MaxIndex
           /\ Head(ind).t = "UPDATE" => /\ Head(ind).rec \in Preset
                                        /\ Head(ind).prev \in Nat
                                        /\ Head(ind).prev < Head(ind).rec.index
           /\ Head(ind).t = "ACTIVE" => Head(ind).index \in 0 .. MaxIndex
<1>1. Head(ind) \in Indication /\ ind' \in Seq(Indication)
    BY DEF TypeOK, Received
<1>2. \A x \in Indication :
         /\ x.t = "RESPONSE" => x.rec \in Preset /\ x.upto \in 0 .. MaxIndex
         /\ x.t = "UPDATE" => x.rec \in Preset /\ x.prev \in Nat /\ x.prev < x.rec.index
         /\ x.t = "ACTIVE" => x.index \in 0 .. MaxIndex
    BY DEF Indication
<1>3. QED BY <1>1, <1>2

\* The positions that the searches of the code find.
LEMMA Places ==
    ASSUME TypeOK, NEW i \in Nat, NEW rec \in Preset, i <= rec.index,
           NEW p \in 0 .. MaxRecords, Predicts(i, p) \/ (i = rec.index /\ ~Finds(i, 0) /\ Finds(i, p))
    PROVE  p # 0 => \/ list[p].index = rec.index
                    \/ \A q \in 1 .. p - 1 :
                          list[q].index # 0 /\ list[q].index < rec.index
<1> SUFFICES ASSUME p # 0
             PROVE  \/ list[p].index = rec.index
                    \/ \A q \in 1 .. p - 1 :
                          list[q].index # 0 /\ list[q].index < rec.index
    OBVIOUS
<1>1. CASE Predicts(i, p)
    <2> SUFFICES ASSUME NEW q \in 1 .. p - 1
                 PROVE  list[q].index # 0 /\ list[q].index < rec.index
        OBVIOUS
    <2>1. q \in Positions BY RecordIndex DEF Positions
    <2>2. list[q].index \in Nat /\ rec.index \in Nat
        BY <2>1, RecordIndex DEF TypeOK
    <2>3. ~Fits(i, q) BY <1>1 DEF Predicts
    <2>4. QED BY <2>2, <2>3 DEF Fits
<1>2. CASE i = rec.index /\ Finds(i, p)
    BY <1>2 DEF Finds
<1>3. QED BY <1>1, <1>2

\* The indications that change the list.
LEMMA IndicationStep ==
    ASSUME ListInv, ReadResponse \/ GenericUpdate \/ RecordDeleted \/ RecordAvailable
    PROVE  ListInv'
<1>1. TypeOK /\ list \in Lists /\ Ascending(list) /\ Sorted
    BY DEF ListInv, TypeOK, Lists, Sorted, Ascending
<1>2. CASE ReadResponse
    <2>1. Received /\ Head(ind).t = "RESPONSE" /\ UNCHANGED <<act, presets, active, req, reading, used>>
        BY <1>2 DEF ReadResponse
    <2>2. Head(ind).rec \in Preset /\ Head(ind).upto \in 0 .. MaxIndex /\ ind' \in Seq(Indication)
        BY <1>1, <2>1, Heads
    <2> DEFINE rec == Head(ind).rec
    <2>3. PICK p \in 0 .. MaxRecords :
             /\ IF Finds(rec.index, 0) THEN Predicts(rec.index, p) ELSE Finds(rec.index, p)
             /\ Add(p, rec)
        BY <1>2 DEF ReadResponse
    <2>4. upto' \in 0 .. MaxIndex BY <1>1, <1>2, <2>2 DEF ReadResponse, TypeOK
    <2>5. rec \in Preset /\ rec.index \in Nat /\ rec.index <= rec.index
        BY <2>2, RecordIndex
    <2> HIDE DEF rec
    <2>6. list' \in Lists /\ Ascending(list')
        BY <1>1, <2>3, <2>5, Places, AddSorted
    <2>7. QED BY <1>1, <2>1, <2>2, <2>4, <2>6 DEF ListInv, TypeOK, Lists, Sorted, Ascending
<1>3. CASE GenericUpdate
    <2>1. /\ Received /\ Head(ind).t = "UPDATE" /\ upto' = 0
          /\ UNCHANGED <<act, presets, active, req, reading, used>>
        BY <1>3 DEF GenericUpdate
    <2> DEFINE rec == Head(ind).rec
               i   == Head(ind).prev
    <2>2. /\ rec \in Preset /\ ind' \in Seq(Indication) /\ i \in Nat /\ i < rec.index
        BY <1>1, <2>1, Heads
    <2>3. PICK p \in 0 .. MaxRecords : Predicts(i, p) /\ Add(p, rec)
        BY <1>3 DEF GenericUpdate
    <2> HIDE DEF rec, i
    <2>4. i <= rec.index BY <2>2, RecordIndex
    <2>5. list' \in Lists /\ Ascending(list')
        BY <1>1, <2>2, <2>3, <2>4, Places, AddSorted
    <2>6. upto' \in 0 .. MaxIndex BY <2>1, PresetsAssumption
    <2>7. QED BY <1>1, <2>1, <2>2, <2>5, <2>6 DEF ListInv, TypeOK, Lists, Sorted, Ascending
<1>4. CASE RecordDeleted
    <2>1. /\ Received
          /\ UNCHANGED <<act, presets, active, req, reading, upto, used>>
          /\ \E p \in 0 .. MaxRecords : list' = Deleted(list, p, p)
        BY <1>4 DEF RecordDeleted
    <2>2. ind' \in Seq(Indication) BY <1>1, <2>1, Heads
    <2>3. list' \in Lists /\ Ascending(list')
        BY <1>1, <2>1, DeletedSorted
    <2>4. QED BY <1>1, <2>1, <2>2, <2>3 DEF ListInv, TypeOK, Lists, Sorted, Ascending
<1>5. CASE RecordAvailable
    <2>1. /\ Received
          /\ UNCHANGED <<act, presets, active, req, reading, upto, used>>
        BY <1>5 DEF RecordAvailable
    <2>2. ind' \in Seq(Indication) BY <1>1, <2>1, Heads
    <2>3. PICK p \in 0 .. MaxRecords, v \in BOOLEAN :
             list' = IF p = 0 THEN list ELSE [list EXCEPT ![p].available = v]
        BY <1>5 DEF RecordAvailable
    <2>4. list' \in Lists BY <1>1, <2>3 DEF Lists, Record, Positions
    <2>5. \A q \in Positions : list'[q].index = list[q].index
        BY <1>1, <2>3 DEF Lists, Record, Positions
    <2>6. QED BY <1>1, <2>1, <2>2, <2>4, <2>5 DEF ListInv, TypeOK, Lists, Sorted
<1>6. QED BY <1>2, <1>3, <1>4, <1>5

\* Kinds of indications.
LEMMA Indications ==
    /\ \A r \in Preset, u \in 0 .. MaxIndex :
          [t |-> "RESPONSE", rec |-> r, upto |-> u] \in Indication
    /\ \A r \in Preset : \A p \in 0 .. r.index - 1 :
          [t |-> "UPDATE", prev |-> p, rec |-> r] \in Indication
    /\ \A i \in 0 .. MaxIndex, k \in {"DELETED", "AVAILABLE", "UNAVAILABLE", "ACTIVE"} :
          [t |-> k, index |-> i] \in Indication
<1>1. ASSUME NEW r \in Preset, NEW p \in 0 .. r.index - 1
      PROVE  [t |-> "UPDATE", prev |-> p, rec |-> r] \in Indication
    <2>1. r.index \in 0 .. MaxIndex BY DEF Preset, Record
    <2>2. p \in 0 .. MaxIndex /\ p < r.index BY <2>1, PresetsAssumption
    <2>3. QED BY <2>2 DEF Indication
<1>2. QED BY <1>1 DEF Indication

\* A request of the host.
LEMMA AskStep ==
    ASSUME ListInv, \/ ReadPresets
                    \/ \E op \in {"SET", "NEXT", "PREVIOUS"}, i \in 0 .. MaxIndex : SetActive(op, i)
                    \/ \E i \in Indices : SetName(i)
    PROVE  ListInv'
<1>1. /\ CanAsk
      /\ UNCHANGED <<list, act, presets, active, reading, ind, upto>>
      /\ \E op \in {"READ", "NAME", "SET", "NEXT", "PREVIOUS"}, i \in 0 .. MaxIndex :
            req' = Append(req, [op |-> op, index |-> i])
    <2>1. 0 \in 0 .. MaxIndex /\ Indices \subseteq 0 .. MaxIndex
        BY PresetsAssumption DEF Indices
    <2>2. CASE ReadPresets BY <2>1, <2>2 DEF ReadPresets
    <2>3. CASE \E op \in {"SET", "NEXT", "PREVIOUS"}, i \in 0 .. MaxIndex : SetActive(op, i)
        BY <2>3 DEF SetActive
    <2>4. CASE \E i \in Indices : SetName(i) BY <2>1, <2>4 DEF SetName
    <2>5. QED BY <2>2, <2>3, <2>4
<1>2. used' \in [req : 0 .. MaxRequests, chg : 0 .. MaxChanges]
    <2>1. used \in [req : 0 .. MaxRequests, chg : 0 .. MaxChanges]
        BY DEF ListInv, TypeOK
    <2>2. used.req < MaxRequests /\ used' = [used EXCEPT !.req = used.req + 1]
        BY <1>1 DEF CanAsk
    <2>3. used.req + 1 \in 0 .. MaxRequests BY <2>1, <2>2, PresetsAssumption
    <2>4. QED BY <2>1, <2>2, <2>3
<1>3. req' \in Seq(Requests)
    BY <1>1 DEF ListInv, TypeOK, Requests
<1>4. QED BY <1>1, <1>2, <1>3 DEF ListInv, TypeOK, Sorted

\* A change by the user of the hearing aid.
LEMMA UserStep ==
    ASSUME ListInv, \/ \E i \in Indices : UserAdds(i)
                    \/ \E r \in presets : UserRemoves(r) \/ UserToggles(r)
                    \/ \E i \in Usable : UserChooses(i)
    PROVE  ListInv'
<1>1. /\ presets \subseteq Preset /\ ind \in Seq(Indication)
      /\ used \in [req : 0 .. MaxRequests, chg : 0 .. MaxChanges]
    BY DEF ListInv, TypeOK
<1>2. CanChange => used' \in [req : 0 .. MaxRequests, chg : 0 .. MaxChanges]
    BY <1>1, PresetsAssumption DEF CanChange
<1>3. ASSUME NEW i \in Indices, UserAdds(i) PROVE ListInv'
    <2> DEFINE n == [index |-> i, writable |-> FALSE, available |-> TRUE, name |-> "old"]
    <2>1. /\ CanChange /\ presets' = presets \union {n} /\ Updates(n)
          /\ UNCHANGED <<list, act, active, req, upto>>
        BY <1>3 DEF UserAdds
    <2>2. n \in Preset BY PresetsAssumption DEF Preset, Record, Indices
    <2> HIDE DEF n
    <2>3. ind' \in Seq(Indication)
        BY <1>1, <2>1, <2>2, Indications DEF Updates
    <2>4. reading' \in [next : Nat, left : 0 .. MaxRecords, calm : BOOLEAN]
        BY <2>1 DEF Updates, ListInv, TypeOK
    <2>5. QED BY <1>1, <1>2, <2>1, <2>2, <2>3, <2>4 DEF ListInv, TypeOK, Sorted
<1>4. ASSUME NEW r \in presets, UserRemoves(r) PROVE ListInv'
    <2>1. r.index \in 0 .. MaxIndex BY <1>1 DEF Preset, Record
    <2>2. ind' \in Seq(Indication)
        <3> DEFINE x == [t |-> "DELETED", index |-> r.index]
        <3>1. x \in Indication BY <2>1, Indications
        <3>2. ind' = Append(ind, x) BY <1>4 DEF UserRemoves
        <3> HIDE DEF x
        <3>3. QED BY <1>1, <3>1, <3>2
    <2>3. QED BY <1>1, <1>2, <1>4, <2>2 DEF UserRemoves, ListInv, TypeOK, Sorted
<1>5. ASSUME NEW r \in presets, UserToggles(r) PROVE ListInv'
    <2> DEFINE n == [r EXCEPT !.available = ~r.available]
    <2>1. r \in Preset /\ r.index \in 0 .. MaxIndex BY <1>1 DEF Preset, Record
    <2>2. n \in Preset BY <2>1 DEF Preset, Record
    <2>3. CanChange /\ presets' = (presets \ {r}) \union {n}
          /\ UNCHANGED <<list, act, active, req, reading, upto>>
        BY <1>5 DEF UserToggles
    <2>4. ind' \in Seq(Indication)
        <3> DEFINE k == IF r.available THEN "UNAVAILABLE" ELSE "AVAILABLE"
                   x == [t |-> k, index |-> r.index]
        <3>1. k \in {"DELETED", "AVAILABLE", "UNAVAILABLE", "ACTIVE"} OBVIOUS
        <3>2. ind' = Append(ind, x) BY <1>5 DEF UserToggles
        <3> HIDE DEF k
        <3>3. x \in Indication BY <2>1, <3>1, Indications
        <3> HIDE DEF x
        <3>4. QED BY <1>1, <3>2, <3>3
    <2> HIDE DEF n
    <2>5. QED BY <1>1, <1>2, <2>2, <2>3, <2>4 DEF ListInv, TypeOK, Sorted
<1>6. ASSUME NEW i \in Usable, UserChooses(i) PROVE ListInv'
    <2>1. i \in 0 .. MaxIndex BY <1>1 DEF Usable, Preset, Record
    <2>2. ind' \in Seq(Indication)
        <3> DEFINE x == [t |-> "ACTIVE", index |-> i]
        <3>1. x \in Indication BY <2>1, Indications
        <3>2. ind' = Append(ind, x) BY <1>6 DEF UserChooses
        <3> HIDE DEF x
        <3>3. QED BY <1>1, <3>1, <3>2
    <2>3. QED BY <1>2, <1>6, <2>1, <2>2 DEF UserChooses, ListInv, TypeOK, Sorted
<1>7. QED BY <1>3, <1>4, <1>5, <1>6

\* The hearing aid serves a request.
LEMMA ServeStep ==
    ASSUME ListInv, Serve
    PROVE  ListInv'
<1>1. /\ presets \subseteq Preset /\ ind \in Seq(Indication) /\ req \in Seq(Requests)
      /\ active \in 0 .. MaxIndex /\ req # << >> /\ req' = Tail(req)
      /\ reading \in [next : Nat, left : 0 .. MaxRecords, calm : BOOLEAN]
      /\ UNCHANGED <<list, act, upto, used>>
    BY DEF ListInv, TypeOK, Serve
<1>2. req' \in Seq(Requests) BY <1>1
<1>3. SUFFICES /\ ind' \in Seq(Indication) /\ presets' \subseteq Preset /\ active' \in 0 .. MaxIndex
               /\ reading' \in [next : Nat, left : 0 .. MaxRecords, calm : BOOLEAN]
    BY <1>1, <1>2 DEF ListInv, TypeOK, Sorted
<1>4. CASE Head(req).op = "READ"
    <2>1. MaxRecords \in 0 .. MaxRecords BY PresetsAssumption
    <2>2. /\ UNCHANGED <<presets, active, ind>>
          /\ reading' = [next |-> 1, left |-> MaxRecords, calm |-> TRUE]
        BY <1>4 DEF Serve
    <2>3. QED BY <1>1, <2>1, <2>2
<1>5. CASE Head(req).op \in {"SET", "NEXT", "PREVIOUS"}
    <2>1. presets' = presets /\ reading' = reading BY <1>5 DEF Serve
    <2>2. PICK i \in 0 .. MaxIndex :
             /\ active' = i
             /\ ind' = IF i = active THEN ind ELSE Append(ind, [t |-> "ACTIVE", index |-> i])
        BY <1>5 DEF Serve
    <2> DEFINE x == [t |-> "ACTIVE", index |-> i]
    <2>3. x \in Indication BY Indications
    <2>4. ind' = ind \/ ind' = Append(ind, x) BY <2>2
    <2> HIDE DEF x
    <2>5. QED BY <1>1, <2>1, <2>2, <2>3, <2>4
<1>6. CASE Head(req).op = "NAME"
    <2>1. active' = active BY <1>6 DEF Serve
    <2>2. CASE UNCHANGED <<presets, reading, ind>> BY <1>1, <2>1, <2>2
    <2>3. ASSUME NEW r \in presets, presets' = (presets \ {r}) \union {[r EXCEPT !.name = "new"]},
                 Updates([r EXCEPT !.name = "new"])
          PROVE  /\ ind' \in Seq(Indication) /\ presets' \subseteq Preset
                 /\ reading' \in [next : Nat, left : 0 .. MaxRecords, calm : BOOLEAN]
        <3> DEFINE n == [r EXCEPT !.name = "new"]
        <3>1. r \in Preset BY <1>1
        <3>2. n \in Preset BY <3>1 DEF Preset, Record
        <3>3. presets' = (presets \ {r}) \union {n} /\ Updates(n) BY <2>3
        <3> HIDE DEF n
        <3>4. PICK p \in 0 .. n.index - 1 :
                 ind' = Append(ind, [t |-> "UPDATE", prev |-> p, rec |-> n])
            BY <3>3 DEF Updates
        <3> DEFINE x == [t |-> "UPDATE", prev |-> p, rec |-> n]
        <3>5. x \in Indication BY <3>2, Indications
        <3>6. ind' = Append(ind, x) BY <3>4
        <3> HIDE DEF x
        <3>7. ind' \in Seq(Indication) BY <1>1, <3>5, <3>6
        <3>8. presets' \subseteq Preset BY <1>1, <3>2, <3>3
        <3>9. reading' \in [next : Nat, left : 0 .. MaxRecords, calm : BOOLEAN]
            BY <1>1, <3>3 DEF Updates
        <3>10. QED BY <3>7, <3>8, <3>9
    <2>4. active' \in 0 .. MaxIndex BY <1>1, <2>1
    <2>5. \/ \E r \in presets : /\ presets' = (presets \ {r}) \union {[r EXCEPT !.name = "new"]}
                               /\ Updates([r EXCEPT !.name = "new"])
          \/ UNCHANGED <<presets, reading, ind>>
        BY <1>6 DEF Serve
    <2>6. QED BY <2>2, <2>3, <2>4, <2>5
<1>7. QED BY <1>4, <1>5, <1>6 DEF Serve

\* The index that a response claims.
LEMMA ToldType ==
    ASSUME ListInv, NEW r \in presets
    PROVE  /\ Told(r) \in 0 .. MaxIndex
           /\ Told(r) # 0 => reading.calm
           /\ reading.calm => Told(r) \in Nat /\ Told(r) >= r.index
<1>1. r.index \in 0 .. MaxIndex /\ MaxIndex \in Nat BY PresetsAssumption DEF ListInv, TypeOK, Preset, Record
<1>2. QED BY <1>1 DEF Told

\* The hearing aid answers a reading.
LEMMA RespondStep ==
    ASSUME ListInv, Respond
    PROVE  ListInv'
<1>1. /\ presets \subseteq Preset /\ ind \in Seq(Indication)
      /\ reading \in [next : Nat, left : 0 .. MaxRecords, calm : BOOLEAN] /\ reading.left > 0
      /\ UNCHANGED <<list, act, presets, active, req, upto, used>>
    BY DEF ListInv, TypeOK, Respond
<1>2. SUFFICES /\ ind' \in Seq(Indication)
               /\ reading' \in [next : Nat, left : 0 .. MaxRecords, calm : BOOLEAN]
    BY <1>1 DEF ListInv, TypeOK, Sorted
<1>3. ASSUME NEW r \in presets, ind' = Append(ind, [t |-> "RESPONSE", rec |-> r, upto |-> Told(r)]),
             reading' = [reading EXCEPT !.next = r.index + 1, !.left = reading.left - 1]
      PROVE  /\ ind' \in Seq(Indication)
             /\ reading' \in [next : Nat, left : 0 .. MaxRecords, calm : BOOLEAN]
    <2> DEFINE x == [t |-> "RESPONSE", rec |-> r, upto |-> Told(r)]
    <2>1. r \in Preset /\ r.index + 1 \in Nat BY <1>1, RecordIndex
    <2>2. x \in Indication BY <2>1, ToldType, Indications
    <2>3. ind' = Append(ind, x) BY <1>3
    <2> HIDE DEF x
    <2>4. ind' \in Seq(Indication) BY <1>1, <2>2, <2>3
    <2>5. reading.left - 1 \in 0 .. MaxRecords BY <1>1, PresetsAssumption
    <2>6. QED BY <1>1, <1>3, <2>1, <2>4, <2>5
<1>4. CASE UNCHANGED ind /\ reading' = [reading EXCEPT !.left = 0]
    <2>1. 0 \in 0 .. MaxRecords BY PresetsAssumption
    <2>2. QED BY <1>1, <1>4, <2>1
<1>5. QED BY <1>3, <1>4 DEF Respond, NextToTell

\* Every step keeps the list sorted.
LEMMA ListKept == ListInv /\ [Next]_vars => ListInv'
<1> SUFFICES ASSUME ListInv, [Next]_vars PROVE ListInv' OBVIOUS
<1>1. CASE UNCHANGED vars
    BY <1>1 DEF ListInv, vars, TypeOK, Sorted
<1>2. CASE ActivePresetIndex
    <2>1. Received /\ Head(ind).t = "ACTIVE" /\ act' = Head(ind).index
          /\ UNCHANGED <<list, presets, active, req, reading, upto, used>>
        BY <1>2 DEF ActivePresetIndex
    <2>2. act' \in 0 .. MaxIndex /\ ind' \in Seq(Indication)
        BY <2>1, Heads DEF ListInv
    <2>3. QED BY <2>1, <2>2 DEF ListInv, TypeOK, Sorted
<1>3. QED
    BY <1>1, <1>2, IndicationStep, AskStep, ServeStep, RespondStep, UserStep DEF Next

\* The first state.
LEMMA ListStarts == Init => ListInv
<1> SUFFICES ASSUME Init PROVE ListInv OBVIOUS
<1>1. list \in [Positions -> Record] /\ \A p \in Positions : list[p].index = 0
    BY RecordIndex DEF Init
<1>2. presets \subseteq Preset
    <2>1. \A i \in Indices : [index |-> i, writable |-> TRUE, available |-> TRUE,
                              name |-> "old"] \in Preset
        BY PresetsAssumption DEF Preset, Record, Indices
    <2>2. QED BY <2>1 DEF Init
<1>3. active \in 0 .. MaxIndex /\ act \in 0 .. MaxIndex
    BY PresetsAssumption DEF Init
<1>4. req \in Seq(Requests) /\ ind \in Seq(Indication)
    BY DEF Init
<1>5. /\ upto \in 0 .. MaxIndex /\ used \in [req : 0 .. MaxRequests, chg : 0 .. MaxChanges]
      /\ reading \in [next : Nat, left : 0 .. MaxRecords, calm : BOOLEAN]
    <2>1. /\ upto = 0 /\ used = [req |-> 0, chg |-> 0]
          /\ reading = [next |-> 1, left |-> 0, calm |-> FALSE]
        BY DEF Init
    <2>2. 0 \in 0 .. MaxRequests /\ 0 \in 0 .. MaxChanges /\ 0 \in 0 .. MaxIndex /\ 0 \in 0 .. MaxRecords
        BY PresetsAssumption
    <2>3. QED BY <2>1, <2>2
<1>6. QED BY <1>1, <1>2, <1>3, <1>4, <1>5 DEF ListInv, TypeOK, Sorted

\* The invariant holds in every state.
LEMMA Invariance == Spec => []ListInv
BY ListStarts, ListKept, PTL DEF Spec

(* The variables of the hearing aid client keep their types.                *)
THEOREM TypeCorrect == Spec => []TypeOK
<1>1. ListInv => TypeOK BY DEF ListInv
<1>2. QED BY <1>1, Invariance, PTL

(* No order of responses, updates, deletions and property changes breaks    *)
(* the order of the list of presets.                                        *)
THEOREM StaysSorted == Spec => []Sorted
<1>1. ListInv => Sorted BY DEF ListInv
<1>2. QED BY <1>1, Invariance, PTL
(***************************************************************************)
(* The list is faithful: what is listed, and what is under way              *)
(***************************************************************************)

\* Indication x reports all of preset i, or that it is gone.
Settles(x, i) ==
    \/ x.t \in {"RESPONSE", "UPDATE"} /\ x.rec.index = i
    \/ x.t = "DELETED" /\ x.index = i

\* Indication x reports whether preset i is available.
Toggles(x, i) == x.t \in {"AVAILABLE", "UNAVAILABLE"} /\ x.index = i

\* Record r, known before the indications after position k of q, will be a
\* preset of ps, or will be settled.
Matches(r, k, q, ps) ==
    \/ \E j \in k + 1 .. Len(q) : Settles(q[j], r.index)
    \/ \E s \in ps :
         /\ s.index = r.index /\ s.writable = r.writable /\ s.name = r.name
         /\ \/ /\ \A j \in k + 1 .. Len(q) : ~Toggles(q[j], r.index)
               /\ s.available = r.available
            \/ \E j \in k + 1 .. Len(q) :
                  /\ Toggles(q[j], r.index) /\ s.available = (q[j].t = "AVAILABLE")
                  /\ \A l \in j + 1 .. Len(q) : ~Toggles(q[l], r.index)

\* The hearing aid has one preset of an index.
Unique == \A r, s \in presets : r.index = s.index => r = s

\* An entry of the list: unused, or a record that will match.
Held(r, q, ps) == r = Empty \/ (r.index # 0 /\ Matches(r, 0, q, ps))

\* Every listed record, and every record under way.
Faithful ==
    /\ \A p \in Positions : Held(list[p], ind, presets)
    /\ \A k \in 1 .. Len(ind) :
          ind[k].t \in {"RESPONSE", "UPDATE"} => Matches(ind[k].rec, k, ind, presets)

\* The last report of the active preset is right.
ActiveTold ==
    \/ act = active /\ \A j \in 1 .. Len(ind) : ind[j].t # "ACTIVE"
    \/ \E j \in 1 .. Len(ind) :
          /\ ind[j].t = "ACTIVE" /\ ind[j].index = active
          /\ \A l \in j + 1 .. Len(ind) : ind[l].t # "ACTIVE"

\* The inductive invariant of NoGhosts.
GhostInv == ListInv /\ Unique /\ Faithful /\ ActiveTold

\* Received indications move up by one place.
LEMMA MatchTail ==
    ASSUME NEW q \in Seq(Indication), q # << >>, NEW k \in 1 .. Len(q), NEW r, NEW ps,
           Matches(r, k, q, ps)
    PROVE  Matches(r, k - 1, Tail(q), ps)
<1> DEFINE t == Tail(q)
<1>1. Len(q) \in Nat /\ Len(t) = Len(q) - 1 /\ \A j \in 1 .. Len(t) : t[j] = q[j + 1]
    BY HeadTailProperties, LenProperties
<1> HIDE DEF t
<1>2. \A j \in k + 1 .. Len(q) : j - 1 \in k - 1 + 1 .. Len(t) /\ t[j - 1] = q[j]
    BY <1>1
<1>3. \A j \in k - 1 + 1 .. Len(t) : j + 1 \in k + 1 .. Len(q) /\ t[j] = q[j + 1]
    BY <1>1
<1>4. CASE \E j \in k + 1 .. Len(q) : Settles(q[j], r.index)
    <2>1. \E j \in k - 1 + 1 .. Len(t) : Settles(t[j], r.index) BY <1>2, <1>4
    <2>2. QED BY <2>1 DEF Matches, t
<1>5. ASSUME NEW s \in ps,
             s.index = r.index /\ s.writable = r.writable /\ s.name = r.name,
             \/ /\ \A j \in k + 1 .. Len(q) : ~Toggles(q[j], r.index)
                /\ s.available = r.available
             \/ \E j \in k + 1 .. Len(q) :
                   /\ Toggles(q[j], r.index) /\ s.available = (q[j].t = "AVAILABLE")
                   /\ \A l \in j + 1 .. Len(q) : ~Toggles(q[l], r.index)
      PROVE  Matches(r, k - 1, t, ps)
    <2>1. CASE \A j \in k + 1 .. Len(q) : ~Toggles(q[j], r.index)
        <3>1. \A j \in k - 1 + 1 .. Len(t) : ~Toggles(t[j], r.index) BY <1>3, <2>1
        <3>2. s.available = r.available BY <1>5, <2>1
        <3>3. QED BY <1>5, <3>1, <3>2 DEF Matches
    <2>2. ASSUME NEW j \in k + 1 .. Len(q),
                 Toggles(q[j], r.index) /\ s.available = (q[j].t = "AVAILABLE"),
                 \A l \in j + 1 .. Len(q) : ~Toggles(q[l], r.index)
          PROVE  Matches(r, k - 1, t, ps)
        <3>1. j - 1 \in k - 1 + 1 .. Len(t) /\ t[j - 1] = q[j] BY <1>2
        <3>2. \A l \in j - 1 + 1 .. Len(t) : l + 1 \in j + 1 .. Len(q) /\ t[l] = q[l + 1]
            BY <1>1
        <3>3. \A l \in j - 1 + 1 .. Len(t) : ~Toggles(t[l], r.index) BY <2>2, <3>2
        <3>4. QED BY <1>5, <2>2, <3>1, <3>3 DEF Matches
    <2>3. QED BY <1>5, <2>1, <2>2
<1>6. Matches(r, k - 1, t, ps) BY <1>4, <1>5 DEF Matches, t
<1>7. QED BY <1>6 DEF t

\* The head of the queue is received: what is known of a record that it does
\* not settle is r2.
LEMMA MatchHead ==
    ASSUME NEW q \in Seq(Indication), q # << >>, NEW r, NEW r2, NEW ps,
           Matches(r, 0, q, ps), ~Settles(Head(q), r.index),
           r2.index = r.index /\ r2.writable = r.writable /\ r2.name = r.name,
           IF Toggles(Head(q), r.index) THEN r2.available = (Head(q).t = "AVAILABLE")
           ELSE r2.available = r.available
    PROVE  Matches(r2, 0, Tail(q), ps)
<1>0. Len(q) \in Nat /\ Len(q) >= 1 /\ Head(q) = q[1] BY EmptySeq
<1>1. SUFFICES Matches(r2, 1, q, ps)
    <2>1. 1 \in 1 .. Len(q) BY <1>0
    <2>2. Matches(r2, 1 - 1, Tail(q), ps) BY <1>1, <2>1, MatchTail
    <2>3. QED BY <2>2
<1>2. \A j \in 0 + 1 .. Len(q) : j = 1 \/ j \in 1 + 1 .. Len(q) BY <1>0
<1>3. \A j \in 1 + 1 .. Len(q) : j \in 0 + 1 .. Len(q) BY <1>0
<1>4. CASE \E j \in 0 + 1 .. Len(q) : Settles(q[j], r.index)
    <2>1. \E j \in 1 + 1 .. Len(q) : Settles(q[j], r2.index) BY <1>0, <1>2, <1>4
    <2>2. QED BY <2>1 DEF Matches
<1>5. ASSUME NEW s \in ps,
             s.index = r.index /\ s.writable = r.writable /\ s.name = r.name,
             \/ /\ \A j \in 0 + 1 .. Len(q) : ~Toggles(q[j], r.index)
                /\ s.available = r.available
             \/ \E j \in 0 + 1 .. Len(q) :
                   /\ Toggles(q[j], r.index) /\ s.available = (q[j].t = "AVAILABLE")
                   /\ \A l \in j + 1 .. Len(q) : ~Toggles(q[l], r.index)
      PROVE  Matches(r2, 1, q, ps)
    <2>1. CASE \A j \in 0 + 1 .. Len(q) : ~Toggles(q[j], r.index)
        <3>1. \A j \in 1 + 1 .. Len(q) : ~Toggles(q[j], r2.index) BY <1>3, <2>1
        <3>2. s.available = r.available BY <1>5, <2>1
        <3>3. 1 \in 0 + 1 .. Len(q) BY <1>0
        <3>4. s.available = r2.available BY <1>0, <2>1, <3>2, <3>3
        <3>5. QED BY <1>5, <3>1, <3>4 DEF Matches
    <2>2. ASSUME NEW j \in 0 + 1 .. Len(q),
                 Toggles(q[j], r.index) /\ s.available = (q[j].t = "AVAILABLE"),
                 \A l \in j + 1 .. Len(q) : ~Toggles(q[l], r.index)
          PROVE  Matches(r2, 1, q, ps)
        <3>1. CASE j = 1
            <4>1. \A l \in 1 + 1 .. Len(q) : ~Toggles(q[l], r2.index) BY <2>2, <3>1
            <4>2. s.available = r2.available BY <1>0, <2>2, <3>1
            <4>3. QED BY <1>5, <4>1, <4>2 DEF Matches
        <3>2. CASE j \in 1 + 1 .. Len(q)
            BY <1>5, <2>2, <3>2 DEF Matches
        <3>3. QED BY <1>2, <3>1, <3>2
    <2>3. QED BY <1>5, <2>1, <2>2
<1>6. QED BY <1>4, <1>5 DEF Matches

\* Without reports of availability a preset stays what it is.
LEMMA MatchSelf ==
    ASSUME NEW ps, NEW s \in ps, NEW k, NEW e,
           \A j \in k + 1 .. Len(e) : ~Toggles(e[j], s.index)
    PROVE  Matches(s, k, e, ps)
BY DEF Matches

\* More indications: what the old ones lead to, the new ones lead on.
LEMMA MatchMore ==
    ASSUME NEW q \in Seq(Indication), NEW e \in Seq(Indication), NEW k \in 0 .. Len(q),
           NEW r, NEW ps, NEW ps2,
           Matches(r, k, q, ps), \A s \in ps : Matches(s, 0, e, ps2)
    PROVE  Matches(r, k, q \o e, ps2)
<1> DEFINE c == q \o e
           m == Len(q)
<1>1. /\ m \in Nat /\ Len(e) \in Nat /\ Len(c) = m + Len(e)
      /\ \A i \in 1 .. m + Len(e) : c[i] = IF i <= m THEN q[i] ELSE e[i - m]
    BY ConcatProperties, LenProperties
<1> HIDE DEF c, m
<1>2. \A j \in k + 1 .. m : j \in k + 1 .. Len(c) /\ c[j] = q[j]
    BY <1>1 DEF m
<1>3. \A j \in 0 + 1 .. Len(e) : j + m \in k + 1 .. Len(c) /\ c[j + m] = e[j]
    BY <1>1 DEF m
<1>4. \A j \in k + 1 .. Len(c) : \/ j \in k + 1 .. m /\ c[j] = q[j]
                                 \/ j - m \in 0 + 1 .. Len(e) /\ c[j] = e[j - m]
    BY <1>1 DEF m
<1>5. CASE \E j \in k + 1 .. m : Settles(q[j], r.index)
    <2>1. \E j \in k + 1 .. Len(c) : Settles(c[j], r.index) BY <1>2, <1>5
    <2>2. QED BY <2>1 DEF Matches, c
<1>6. ASSUME NEW s \in ps,
             s.index = r.index /\ s.writable = r.writable /\ s.name = r.name,
             \/ /\ \A j \in k + 1 .. m : ~Toggles(q[j], r.index)
                /\ s.available = r.available
             \/ \E j \in k + 1 .. m :
                   /\ Toggles(q[j], r.index) /\ s.available = (q[j].t = "AVAILABLE")
                   /\ \A l \in j + 1 .. m : ~Toggles(q[l], r.index)
      PROVE  Matches(r, k, c, ps2)
    <2>1. Matches(s, 0, e, ps2) OBVIOUS
    <2>2. CASE \E j \in 0 + 1 .. Len(e) : Settles(e[j], s.index)
        <3>1. \E j \in k + 1 .. Len(c) : Settles(c[j], r.index) BY <1>3, <1>6, <2>2
        <3>2. QED BY <3>1 DEF Matches
    <2>3. ASSUME NEW u \in ps2,
                 u.index = s.index /\ u.writable = s.writable /\ u.name = s.name,
                 \A j \in 0 + 1 .. Len(e) : ~Toggles(e[j], s.index),
                 u.available = s.available
          PROVE  Matches(r, k, c, ps2)
        <3>1. CASE (\A j \in k + 1 .. m : ~Toggles(q[j], r.index)) /\ s.available = r.available
            <4>1. \A j \in k + 1 .. Len(c) : ~Toggles(c[j], r.index) BY <1>4, <1>6, <2>3, <3>1
            <4>2. QED BY <1>6, <2>3, <3>1, <4>1 DEF Matches
        <3>2. ASSUME NEW j \in k + 1 .. m,
                     Toggles(q[j], r.index) /\ s.available = (q[j].t = "AVAILABLE"),
                     \A l \in j + 1 .. m : ~Toggles(q[l], r.index)
              PROVE  Matches(r, k, c, ps2)
            <4>1. j \in k + 1 .. Len(c) /\ c[j] = q[j] BY <1>2
            <4>2. \A l \in j + 1 .. Len(c) : \/ l \in j + 1 .. m /\ c[l] = q[l]
                                             \/ l - m \in 0 + 1 .. Len(e) /\ c[l] = e[l - m]
                BY <1>1 DEF m
            <4>3. \A l \in j + 1 .. Len(c) : ~Toggles(c[l], r.index) BY <1>6, <2>3, <3>2, <4>2
            <4>4. u.available = (c[j].t = "AVAILABLE") /\ Toggles(c[j], r.index)
                BY <2>3, <3>2, <4>1
            <4>5. u.index = r.index /\ u.writable = r.writable /\ u.name = r.name BY <1>6, <2>3
            <4>6. QED BY <4>1, <4>3, <4>4, <4>5 DEF Matches
        <3>3. QED BY <1>6, <3>1, <3>2
    <2>4. ASSUME NEW u \in ps2,
                 u.index = s.index /\ u.writable = s.writable /\ u.name = s.name,
                 NEW j \in 0 + 1 .. Len(e),
                 Toggles(e[j], s.index) /\ u.available = (e[j].t = "AVAILABLE"),
                 \A l \in j + 1 .. Len(e) : ~Toggles(e[l], s.index)
          PROVE  Matches(r, k, c, ps2)
        <3>1. j + m \in k + 1 .. Len(c) /\ c[j + m] = e[j] BY <1>3
        <3>2. \A l \in j + m + 1 .. Len(c) : l - m \in j + 1 .. Len(e) /\ c[l] = e[l - m]
            BY <1>1 DEF m
        <3>3. \A l \in j + m + 1 .. Len(c) : ~Toggles(c[l], r.index) BY <1>6, <2>4, <3>2
        <3>4. Toggles(c[j + m], r.index) /\ u.available = (c[j + m].t = "AVAILABLE")
            BY <1>6, <2>4, <3>1
        <3>5. u.index = r.index /\ u.writable = r.writable /\ u.name = r.name BY <1>6, <2>4
        <3>6. QED BY <3>1, <3>3, <3>4, <3>5 DEF Matches
    <2>5. QED BY <2>1, <2>2, <2>3, <2>4 DEF Matches
<1>7. Matches(r, k, c, ps2) BY <1>5, <1>6 DEF Matches, m, c
<1>8. QED BY <1>7 DEF c

\* The new indications among them.
LEMMA MatchLater ==
    ASSUME NEW q \in Seq(Indication), NEW e \in Seq(Indication), NEW k \in 1 .. Len(e),
           NEW r, NEW ps, Matches(r, k, e, ps)
    PROVE  Matches(r, Len(q) + k, q \o e, ps)
<1> DEFINE c == q \o e
           m == Len(q)
<1>1. /\ m \in Nat /\ Len(e) \in Nat /\ Len(c) = m + Len(e)
      /\ \A i \in 1 .. m + Len(e) : c[i] = IF i <= m THEN q[i] ELSE e[i - m]
    BY ConcatProperties, LenProperties
<1> HIDE DEF c, m
<1>2. \A n \in Nat : \A j \in n + 1 .. Len(e) : j + m \in m + n + 1 .. Len(c) /\ c[j + m] = e[j]
    BY <1>1
<1>3. \A n \in Nat : \A j \in m + n + 1 .. Len(c) : j - m \in n + 1 .. Len(e) /\ c[j] = e[j - m]
    BY <1>1
<1>4. k \in Nat BY <1>1
<1>5. CASE \E j \in k + 1 .. Len(e) : Settles(e[j], r.index)
    <2>1. \E j \in m + k + 1 .. Len(c) : Settles(c[j], r.index) BY <1>2, <1>4, <1>5
    <2>2. QED BY <2>1 DEF Matches, c, m
<1>6. ASSUME NEW s \in ps,
             s.index = r.index /\ s.writable = r.writable /\ s.name = r.name,
             \/ /\ \A j \in k + 1 .. Len(e) : ~Toggles(e[j], r.index)
                /\ s.available = r.available
             \/ \E j \in k + 1 .. Len(e) :
                   /\ Toggles(e[j], r.index) /\ s.available = (e[j].t = "AVAILABLE")
                   /\ \A l \in j + 1 .. Len(e) : ~Toggles(e[l], r.index)
      PROVE  Matches(r, m + k, c, ps)
    <2>1. CASE (\A j \in k + 1 .. Len(e) : ~Toggles(e[j], r.index)) /\ s.available = r.available
        <3>1. \A j \in m + k + 1 .. Len(c) : ~Toggles(c[j], r.index) BY <1>3, <1>4, <2>1
        <3>2. QED BY <1>6, <2>1, <3>1 DEF Matches
    <2>2. ASSUME NEW j \in k + 1 .. Len(e),
                 Toggles(e[j], r.index) /\ s.available = (e[j].t = "AVAILABLE"),
                 \A l \in j + 1 .. Len(e) : ~Toggles(e[l], r.index)
          PROVE  Matches(r, m + k, c, ps)
        <3>1. j + m \in m + k + 1 .. Len(c) /\ c[j + m] = e[j] BY <1>2, <1>4
        <3>2. \A l \in j + m + 1 .. Len(c) : l - m \in j + 1 .. Len(e) /\ c[l] = e[l - m]
            BY <1>1
        <3>3. \A l \in j + m + 1 .. Len(c) : ~Toggles(c[l], r.index) BY <2>2, <3>2
        <3>4. QED BY <1>6, <2>2, <3>1, <3>3 DEF Matches
    <2>3. QED BY <1>6, <2>1, <2>2
<1>7. Matches(r, m + k, c, ps) BY <1>5, <1>6 DEF Matches, m, c
<1>8. QED BY <1>7 DEF c, m

\* No two entries have the same index.
LEMMA OneEntry ==
    ASSUME NEW l \in Lists, Ascending(l), NEW p \in Positions, NEW q \in Positions,
           l[p].index = l[q].index, l[p].index # 0
    PROVE  p = q
<1>1. p \in Nat /\ q \in Nat /\ l[p].index \in Nat /\ l[q].index \in Nat
    BY RecordIndex DEF Positions, Lists
<1>2. QED BY <1>1 DEF Ascending

\* What the list holds after a deletion.
LEMMA DeletedHolds ==
    ASSUME NEW l \in Lists, NEW p \in 1 .. MaxRecords, NEW to \in p .. MaxRecords,
           NEW q \in Positions
    PROVE  \/ Deleted(l, p, to)[q] = Empty
           \/ \E o \in Positions : Deleted(l, p, to)[q] = l[o] /\ o \notin p .. to
<1> DEFINE n == to - p + 1
<1>1. n \in Nat /\ n >= 1 /\ p + n = to + 1 BY RecordIndex
<1>2. Deleted(l, p, to)[q] = IF q < p THEN l[q]
                             ELSE IF q + n <= MaxRecords THEN l[q + n] ELSE Empty
    BY RecordIndex DEF Deleted
<1> HIDE DEF n
<1>3. CASE q < p BY <1>2, <1>3 DEF Positions
<1>4. CASE ~(q < p) /\ q + n <= MaxRecords
    <2>1. q + n \in Positions /\ q + n \notin p .. to BY <1>1, <1>4 DEF Positions
    <2>2. QED BY <1>2, <1>4, <2>1
<1>5. QED BY <1>2, <1>3, <1>4

\* What the list holds after an addition.
LEMMA AddHolds ==
    ASSUME list \in Lists, NEW pos \in Positions, NEW rec \in Preset, Add(pos, rec)
    PROVE  /\ list'[pos] = rec
           /\ \A q \in Positions :
                list'[q] = Empty \/ list'[q] = rec \/ \E o \in Positions : list'[q] = list[o]
<1>0. pos \in 1 .. MaxRecords /\ pos # 0 /\ AddAt(pos, rec) BY DEF Positions, Add
<1>1. CASE rec.index = list[pos].index \/ pos = MaxRecords
    BY <1>0, <1>1 DEF AddAt, Lists
<1>2. CASE ~(rec.index = list[pos].index \/ pos = MaxRecords)
    <2>1. PICK n \in Positions \union {MaxRecords + 1} :
            /\ NextHigher(pos, rec, n)
            /\ list' =
                 IF n = MaxRecords + 1
                 THEN [p \in Positions |-> IF p < pos THEN list[p] ELSE IF p = pos THEN rec ELSE Empty]
                 ELSE IF n > pos
                 THEN [Deleted(list, pos, n - 1) EXCEPT ![pos] = rec]
                 ELSE [p \in Positions |-> IF p < pos THEN list[p] ELSE IF p = pos THEN rec
                                           ELSE list[p - 1]]
        BY <1>0, <1>2 DEF AddAt
    <2>2. CASE n = MaxRecords + 1
        BY <1>0, <2>1, <2>2 DEF Positions
    <2>3. CASE n # MaxRecords + 1 /\ n > pos
        <3> DEFINE d == Deleted(list, pos, n - 1)
        <3>1. n - 1 \in pos .. MaxRecords BY <1>0, <2>1, <2>3, RecordIndex DEF Positions
        <3>2. d = [q \in Positions |-> d[q]]
            <4>1. ~(pos < 1 \/ n - 1 > MaxRecords \/ pos > n - 1) BY <1>0, <3>1, RecordIndex
            <4>2. QED BY <4>1 DEF Deleted
        <3>3. list' = [d EXCEPT ![pos] = rec] BY <2>1, <2>3
        <3>4. \A q \in Positions : d[q] = Empty \/ \E o \in Positions : d[q] = list[o]
            <4>1. \A to \in pos .. MaxRecords : \A q \in Positions :
                    \/ Deleted(list, pos, to)[q] = Empty
                    \/ \E o \in Positions : Deleted(list, pos, to)[q] = list[o]
                BY <1>0, DeletedHolds
            <4>2. QED BY <3>1, <4>1
        <3> HIDE DEF d
        <3>5. \A q \in Positions : list'[q] = IF q = pos THEN rec ELSE d[q] BY <3>2, <3>3
        <3>6. list'[pos] = rec BY <3>5
        <3>7. \A q \in Positions :
                list'[q] = Empty \/ list'[q] = rec \/ \E o \in Positions : list'[q] = list[o]
            BY <3>4, <3>5
        <3>8. QED BY <3>6, <3>7
    <2>4. CASE n # MaxRecords + 1 /\ ~(n > pos)
        <3>1. list' = [p \in Positions |-> IF p < pos THEN list[p] ELSE IF p = pos THEN rec
                                           ELSE list[p - 1]]
            BY <2>1, <2>4
        <3>2. list'[pos] = rec BY <1>0, <3>1 DEF Positions
        <3>3. ASSUME NEW q \in Positions PROVE list'[q] = rec \/ \E o \in Positions : list'[q] = list[o]
            <4>1. CASE q < pos BY <3>1, <4>1
            <4>2. CASE q = pos BY <3>2, <4>2
            <4>3. CASE q > pos
                <5>1. q - 1 \in Positions /\ list'[q] = list[q - 1]
                    BY <1>0, <3>1, <4>3, RecordIndex DEF Positions
                <5>2. QED BY <5>1
            <4>4. QED BY <1>0, <4>1, <4>2, <4>3 DEF Positions
        <3>4. QED BY <3>2, <3>3
    <2>5. QED BY <2>2, <2>3, <2>4
<1>3. QED BY <1>1, <1>2

\* The head is received: it is enough to look at the list.
LEMMA FaithfulTail ==
    ASSUME ListInv, Faithful, Received, presets' = presets,
           \A p \in Positions : Held(list'[p], ind', presets)
    PROVE  Faithful'
<1>1. ind \in Seq(Indication) /\ ind # << >> /\ ind' = Tail(ind)
    BY DEF ListInv, TypeOK, Received
<1>2. /\ Len(ind) \in Nat /\ Len(ind') = Len(ind) - 1
      /\ \A k \in 1 .. Len(ind') : ind'[k] = ind[k + 1]
    BY <1>1, HeadTailProperties, LenProperties
<1>3. ASSUME NEW k \in 1 .. Len(ind'), ind'[k].t \in {"RESPONSE", "UPDATE"}
      PROVE  Matches(ind'[k].rec, k, ind', presets)
    <2>1. k + 1 \in 1 .. Len(ind) /\ ind'[k] = ind[k + 1] BY <1>2
    <2>2. Matches(ind[k + 1].rec, k + 1, ind, presets) BY <1>3, <2>1 DEF Faithful
    <2>3. Matches(ind[k + 1].rec, k + 1 - 1, Tail(ind), presets) BY <1>1, <2>1, <2>2, MatchTail
    <2>4. k + 1 - 1 = k BY <1>2
    <2>5. QED BY <1>1, <2>1, <2>3, <2>4
<1>4. QED BY <1>3 DEF Faithful

\* A record that the head says nothing of.
LEMMA Untouched ==
    ASSUME ListInv, Faithful, Received, NEW p \in Positions, list[p] # Empty,
           ~Settles(Head(ind), list[p].index), ~Toggles(Head(ind), list[p].index)
    PROVE  Held(list[p], ind', presets)
<1>1. ind \in Seq(Indication) /\ ind # << >> /\ ind' = Tail(ind)
    BY DEF ListInv, TypeOK, Received
<1>2. list[p].index # 0 /\ Matches(list[p], 0, ind, presets) BY DEF Faithful, Held
<1>3. Matches(list[p], 0, ind', presets) BY <1>1, <1>2, MatchHead
<1>4. QED BY <1>2, <1>3 DEF Held

\* A response or an update.
LEMMA AddFaithful ==
    ASSUME ListInv, Faithful, Received, NEW pos \in 0 .. MaxRecords,
           Head(ind).t \in {"RESPONSE", "UPDATE"},
           pos = 0 => \A q \in Positions : list[q].index # Head(ind).rec.index,
           Add(pos, Head(ind).rec), presets' = presets, ListInv'
    PROVE  Faithful'
<1> DEFINE rec == Head(ind).rec
<1>1. ind \in Seq(Indication) /\ ind # << >> /\ ind' = Tail(ind) /\ rec \in Preset
    BY Heads DEF ListInv, TypeOK, Received
<1>2. list \in Lists /\ list' \in Lists /\ Ascending(list')
    BY DEF ListInv, TypeOK, Lists, Sorted, Ascending
<1>3. rec.index # 0 BY <1>1, RecordIndex
<1>4. Matches(rec, 0, ind', presets)
    <2>1. Len(ind) \in Nat /\ Len(ind) >= 1 /\ Head(ind) = ind[1] BY <1>1, EmptySeq
    <2>2. 1 \in 1 .. Len(ind) BY <2>1
    <2>3. Matches(rec, 1, ind, presets) BY <2>1, <2>2 DEF Faithful
    <2>4. Matches(rec, 1 - 1, Tail(ind), presets) BY <1>1, <2>2, <2>3, MatchTail
    <2>5. QED BY <1>1, <2>4
<1>5. \A i : i # rec.index => ~Settles(Head(ind), i) /\ ~Toggles(Head(ind), i)
    BY DEF Settles, Toggles
<1>6. ASSUME NEW o \in Positions, list[o] # Empty, list[o].index # rec.index
      PROVE  Held(list[o], ind', presets)
    BY <1>5, <1>6, Untouched
<1>7. CASE pos = 0
    <2>1. list' = list BY <1>7 DEF Add
    <2>2. \A p \in Positions : Held(list'[p], ind', presets)
        BY <1>6, <1>7, <2>1 DEF Held
    <2>3. QED BY <2>2, FaithfulTail
<1>8. CASE pos # 0
    <2>1. pos \in Positions BY <1>8, RecordIndex DEF Positions
    <2>2. list'[pos] = rec /\ \A q \in Positions :
             list'[q] = Empty \/ list'[q] = rec \/ \E o \in Positions : list'[q] = list[o]
        BY <1>1, <1>2, <2>1, AddHolds
    <2> HIDE DEF rec
    <2>3. ASSUME NEW q \in Positions PROVE Held(list'[q], ind', presets)
        <3>1. CASE list'[q].index = rec.index
            <4>1. q = pos BY <1>2, <1>3, <2>1, <2>2, <3>1, OneEntry
            <4>2. QED BY <1>3, <1>4, <2>2, <4>1 DEF Held
        <3>2. CASE list'[q].index # rec.index /\ list'[q] # Empty
            <4>1. PICK o \in Positions : list'[q] = list[o] BY <2>2, <3>2
            <4>2. QED BY <1>6, <3>2, <4>1
        <3>3. QED BY <3>1, <3>2 DEF Held
    <2>4. QED BY <2>3, FaithfulTail
<1>9. QED BY <1>7, <1>8

\* The indications keep what is listed faithful.
LEMMA ReceiveFaithful ==
    ASSUME ListInv, Faithful, ListInv',
           ReadResponse \/ GenericUpdate \/ RecordDeleted \/ RecordAvailable \/ ActivePresetIndex
    PROVE  Faithful'
<1>1. Received /\ presets' = presets
    BY DEF ReadResponse, GenericUpdate, RecordDeleted, RecordAvailable, ActivePresetIndex
<1>2. list \in Lists /\ Ascending(list)
    BY DEF ListInv, TypeOK, Lists, Sorted, Ascending
<1>3. \A q \in Positions : list[q] \in Record /\ list[q].index \in Nat
    BY <1>2, RecordIndex DEF Lists
<1>4. CASE ReadResponse
    <2> DEFINE rec == Head(ind).rec
    <2>1. Head(ind).t = "RESPONSE" BY <1>4 DEF ReadResponse
    <2>2. rec \in Preset BY <1>1, <2>1, Heads DEF ListInv
    <2>3. rec.index \in Nat \ {0} BY <2>2, RecordIndex
    <2>4. PICK p \in 0 .. MaxRecords :
             /\ IF Finds(rec.index, 0) THEN Predicts(rec.index, p) ELSE Finds(rec.index, p)
             /\ Add(p, rec)
        BY <1>4 DEF ReadResponse
    <2>5. p = 0 => \A q \in Positions : list[q].index # rec.index
        BY <2>3, <2>4 DEF Finds
    <2>6. QED BY <1>1, <2>1, <2>4, <2>5, AddFaithful
<1>5. CASE GenericUpdate
    <2> DEFINE rec == Head(ind).rec
    <2>1. Head(ind).t = "UPDATE" BY <1>5 DEF GenericUpdate
    <2>2. rec \in Preset /\ Head(ind).prev \in Nat /\ Head(ind).prev < rec.index
        BY <1>1, <2>1, Heads DEF ListInv
    <2>3. rec.index \in Nat \ {0} BY <2>2, RecordIndex
    <2>4. PICK p \in 0 .. MaxRecords : Predicts(Head(ind).prev, p) /\ Add(p, rec)
        BY <1>5 DEF GenericUpdate
    <2>5. p = 0 => \A q \in Positions : list[q].index # rec.index
        <3> SUFFICES ASSUME p = 0, NEW q \in Positions PROVE list[q].index # rec.index
            OBVIOUS
        <3>1. ~(list[q].index >= Head(ind).prev) BY <2>4 DEF Predicts, Fits
        <3>2. list[q].index \in Nat BY <1>3
        <3>3. QED BY <2>2, <2>3, <3>1, <3>2
    <2>6. QED BY <1>1, <2>1, <2>4, <2>5, AddFaithful
<1>6. CASE RecordDeleted
    <2>1. PICK p \in 0 .. MaxRecords : Finds(Head(ind).index, p) /\ list' = Deleted(list, p, p)
        BY <1>6 DEF RecordDeleted
    <2>2. Head(ind).t = "DELETED" BY <1>6 DEF RecordDeleted
    <2>3. \A i : i # Head(ind).index => ~Settles(Head(ind), i) /\ ~Toggles(Head(ind), i)
        BY <2>2 DEF Settles, Toggles
    <2>4. ASSUME NEW o \in Positions, list[o] # Empty, list[o].index # Head(ind).index
          PROVE  Held(list[o], ind', presets)
        BY <1>1, <2>3, <2>4, Untouched
    <2>5. CASE p = 0
        <3>1. list' = list BY <2>1, <2>5 DEF Deleted
        <3>2. \A q \in Positions : list[q] # Empty => list[q].index # Head(ind).index
            BY <2>1, <2>5 DEF Finds, Faithful, Held
        <3>3. \A q \in Positions : Held(list'[q], ind', presets)
            BY <2>4, <3>1, <3>2 DEF Held
        <3>4. QED BY <1>1, <3>3, FaithfulTail
    <2>6. CASE p # 0
        <3>1. p \in Positions /\ p \in 1 .. MaxRecords /\ p \in p .. MaxRecords
            BY <2>6, RecordIndex DEF Positions
        <3>2. list[p].index = Head(ind).index /\ Head(ind).index # 0
            BY <2>1, <2>6 DEF Finds
        <3>3. ASSUME NEW q \in Positions, list'[q] # Empty
              PROVE  Held(list'[q], ind', presets)
            <4>1. PICK o \in Positions : list'[q] = list[o] /\ o \notin p .. p
                BY <1>2, <2>1, <3>1, <3>3, DeletedHolds
            <4>2. o # p BY <3>1, <4>1
            <4>3. list[o].index # Head(ind).index BY <1>2, <3>1, <3>2, <4>2, OneEntry
            <4>4. QED BY <2>4, <3>3, <4>1, <4>3
        <3>4. \A q \in Positions : Held(list'[q], ind', presets) BY <3>3 DEF Held
        <3>5. QED BY <1>1, <3>4, FaithfulTail
    <2>7. QED BY <2>5, <2>6
<1>7. CASE RecordAvailable
    <2> DEFINE v == Head(ind).t = "AVAILABLE"
    <2>1. PICK p \in 0 .. MaxRecords :
             /\ Finds(Head(ind).index, p)
             /\ list' = IF p = 0 THEN list ELSE [list EXCEPT ![p].available = v]
        BY <1>7 DEF RecordAvailable
    <2>2. Head(ind).t \in {"AVAILABLE", "UNAVAILABLE"} BY <1>7 DEF RecordAvailable
    <2>3. /\ \A i : ~Settles(Head(ind), i)
          /\ \A i : Toggles(Head(ind), i) <=> i = Head(ind).index
        BY <2>2 DEF Settles, Toggles
    <2>4. ASSUME NEW o \in Positions, list[o] # Empty, list[o].index # Head(ind).index
          PROVE  Held(list[o], ind', presets)
        BY <1>1, <2>3, <2>4, Untouched
    <2>5. CASE p = 0
        <3>1. \A q \in Positions : list[q] # Empty => list[q].index # Head(ind).index
            BY <2>1, <2>5 DEF Finds, Faithful, Held
        <3>2. \A q \in Positions : Held(list'[q], ind', presets)
            BY <2>1, <2>4, <2>5, <3>1 DEF Held
        <3>3. QED BY <1>1, <3>2, FaithfulTail
    <2>6. CASE p # 0
        <3>1. p \in Positions BY <2>6, RecordIndex DEF Positions
        <3>2. list[p].index = Head(ind).index /\ Head(ind).index # 0
            BY <2>1, <2>6 DEF Finds
        <3>3. \A q \in Positions : q # p => list'[q] = list[q] /\ list[q].index # Head(ind).index
            <4> SUFFICES ASSUME NEW q \in Positions, q # p
                         PROVE  list'[q] = list[q] /\ list[q].index # Head(ind).index
                OBVIOUS
            <4>1. list'[q] = list[q] BY <1>2, <2>1, <2>6 DEF Lists
            <4>2. list[q].index # Head(ind).index BY <1>2, <3>1, <3>2, OneEntry
            <4>3. QED BY <4>1, <4>2
        <3>4. Held(list'[p], ind', presets)
            <4>1. list'[p] = [list[p] EXCEPT !.available = v] BY <1>2, <2>1, <2>6, <3>1 DEF Lists
            <4>2. /\ list'[p].index = list[p].index /\ list'[p].writable = list[p].writable
                  /\ list'[p].name = list[p].name /\ list'[p].available = v
                BY <1>3, <3>1, <4>1 DEF Record
            <4>3. ind \in Seq(Indication) /\ ind # << >> /\ ind' = Tail(ind)
                BY <1>1 DEF ListInv, TypeOK, Received
            <4>4. list[p] # Empty BY <3>2, RecordIndex
            <4>5. Matches(list[p], 0, ind, presets) BY <3>1, <4>4 DEF Faithful, Held
            <4>6. Toggles(Head(ind), list[p].index) /\ ~Settles(Head(ind), list[p].index)
                BY <2>3, <3>2
            <4>7. Matches(list'[p], 0, ind', presets)
                BY <4>2, <4>3, <4>5, <4>6, MatchHead
            <4>8. QED BY <3>2, <4>2, <4>7 DEF Held
        <3>5. \A q \in Positions : Held(list'[q], ind', presets)
            BY <2>4, <3>3, <3>4 DEF Held
        <3>6. QED BY <1>1, <3>5, FaithfulTail
    <2>7. QED BY <2>5, <2>6
<1>8. CASE ActivePresetIndex
    <2>1. Head(ind).t = "ACTIVE" /\ list' = list BY <1>8 DEF ActivePresetIndex
    <2>2. \A i : ~Settles(Head(ind), i) /\ ~Toggles(Head(ind), i)
        BY <2>1 DEF Settles, Toggles
    <2>3. \A o \in Positions : list[o] # Empty => Held(list[o], ind', presets)
        BY <1>1, <2>2, Untouched
    <2>4. \A q \in Positions : Held(list'[q], ind', presets) BY <2>1, <2>3 DEF Held
    <2>5. QED BY <1>1, <2>4, FaithfulTail
<1>9. QED BY <1>4, <1>5, <1>6, <1>7, <1>8

\* The indices of the presets in ps.
Idx(ps) == {r.index : r \in ps}

(***************************************************************************)
(* Reading completes the list                                               *)
(***************************************************************************)

\* The indications of q after position k.
After(k, q) == {q[j] : j \in k + 1 .. Len(q)}

\* The presets of ps, and those whose deletion is among the indications A.
Due(A, ps) == Idx(ps) \union {i \in Indices : \E x \in A : x.t = "DELETED" /\ x.index = i}

Updated(A) == \E x \in A : x.t = "UPDATE"
IsListed(i, l) == \E p \in Positions : l[p].index = i
NoUpdate(j, k, q) == \A l \in j .. k : q[l].t # "UPDATE"

\* Index i is covered after position k of the indications q: no update follows
\* the reading that has told it, which the client has received (u) or which is
\* in q.
Covered(i, k, q, u) ==
    \/ u >= i /\ NoUpdate(1, k, q)
    \/ \E j \in 1 .. k : q[j].t = "RESPONSE" /\ q[j].upto >= i /\ NoUpdate(j, k, q)

\* The indices of D up to i.
To(i, D) == {d \in D : d <= i}

\* Response x covers what it claims, D being the presets that are due: there
\* is none between its record and its claim, the ones before its record are
\* covered, and the list has room for them.
WellTold(x, D, k, q, u) ==
    /\ \A i \in D : i <= x.upto => i <= x.rec.index
    /\ \A i \in D : i < x.rec.index => Covered(i, k, q, u)
    /\ Cardinality(To(x.rec.index, D)) <= MaxRecords

\* What is listed, or reported, is there or its deletion is under way.
Alive ==
    /\ \A p \in Positions : list[p].index # 0 => list[p].index \in Due(After(0, ind), presets)
    /\ \A k \in 1 .. Len(ind) :
          ind[k].t \in {"RESPONSE", "UPDATE"} => ind[k].rec.index \in Due(After(k, ind), presets)

\* A preset whose deletion is under way comes back with an update only.
Gone ==
    \A k \in 1 .. Len(ind) :
        ind[k].t = "DELETED" =>
            Updated(After(k, ind)) \/ ind[k].index \notin Due(After(k, ind), presets)

\* The responses under way that no update follows cover what they claim.
Telling ==
    \A k \in 1 .. Len(ind) :
        ind[k].t = "RESPONSE" /\ ind[k].upto # 0 /\ ~Updated(After(k, ind)) =>
            WellTold(ind[k], Due(After(k, ind), presets), k - 1, ind, upto)

\* So do those of the reading that is being answered, and the list has room
\* for what it has still to tell.
Underway ==
    reading.calm =>
        /\ \A i \in Idx(presets) : i < reading.next => Covered(i, Len(ind), ind, upto)
        /\ Cardinality(To(reading.next - 1, Idx(presets))) + reading.left <= MaxRecords

\* What the client was told is listed, and stays so until an update.
Complete ==
    ~Updated(After(0, ind)) =>
        \A i \in Due(After(0, ind), presets) : i <= upto => IsListed(i, list)

\* The inductive invariant of ReadCompletes.
ReadInv == GhostInv /\ Alive /\ Gone /\ Telling /\ Underway /\ Complete

(***************************************************************************)
(* The steps of the hearing aid                                             *)
(***************************************************************************)

\* The hearing aid takes a step: e is what it has to tell, and it tells all
\* that changes.
Tells(e) ==
    /\ e \in Seq(Indication) /\ ind' = ind \o e
    /\ UNCHANGED <<list, act, upto>>
    /\ \A s \in presets : Matches(s, 0, e, presets')
    /\ \A j \in 1 .. Len(e) :
          e[j].t \in {"RESPONSE", "UPDATE"} =>
              Matches(e[j].rec, j, e, presets') /\ e[j].rec.index \in Idx(presets')
    /\ \/ active' = active /\ \A j \in 1 .. Len(e) : e[j].t # "ACTIVE"
       \/ Len(e) = 1 /\ e[1].t = "ACTIVE" /\ e[1].index = active'

\* What it tells accounts for its presets: e reports deletions, unless a
\* preset is new e reports no more than was there, and a response covers what
\* it claims when the ones before it did.
Accounts(e) ==
    /\ Idx(presets) \subseteq Due(After(0, e), presets')
    /\ Updated(After(0, e)) \/ Due(After(0, e), presets') \subseteq Idx(presets)
    /\ \A j \in 1 .. Len(e) : e[j].t = "DELETED" => Len(e) = 1 /\ e[j].index \notin Idx(presets')
    /\ \A j \in 1 .. Len(e) :
          e[j].t = "RESPONSE" /\ e[j].upto # 0 =>
              Len(e) = 1 /\ (Underway => WellTold(e[j], Idx(presets'), Len(ind), ind, upto))

\* The hearing aid's step leaves the list faithful.
LEMMA TellsFaithful ==
    ASSUME ListInv, Faithful, ActiveTold, NEW e, Tells(e)
    PROVE  Faithful' /\ ActiveTold'
<1> DEFINE m == Len(ind)
<1>1. ind \in Seq(Indication) /\ e \in Seq(Indication) /\ ind' = ind \o e /\ list' = list
    BY DEF ListInv, TypeOK, Tells
<1>2. /\ m \in Nat /\ Len(e) \in Nat /\ Len(ind') = m + Len(e)
      /\ \A i \in 1 .. m + Len(e) : ind'[i] = IF i <= m THEN ind[i] ELSE e[i - m]
    BY <1>1, ConcatProperties, LenProperties
<1>3. \A s \in presets : Matches(s, 0, e, presets') BY DEF Tells
<1>4. ASSUME NEW p \in Positions PROVE Held(list'[p], ind', presets')
    <2>1. 0 \in 0 .. Len(ind) BY <1>2
    <2>2. CASE list[p] = Empty BY <1>1, <2>2 DEF Held
    <2>3. CASE list[p] # Empty
        <3>1. list[p].index # 0 /\ Matches(list[p], 0, ind, presets) BY <2>3 DEF Faithful, Held
        <3>2. Matches(list[p], 0, ind \o e, presets') BY <1>1, <1>3, <2>1, <3>1, MatchMore
        <3>3. QED BY <1>1, <3>1, <3>2 DEF Held
    <2>4. QED BY <2>2, <2>3
<1>5. ASSUME NEW k \in 1 .. Len(ind'), ind'[k].t \in {"RESPONSE", "UPDATE"}
      PROVE  Matches(ind'[k].rec, k, ind', presets')
    <2>1. CASE k <= m
        <3>1. k \in 1 .. Len(ind) /\ k \in 0 .. Len(ind) /\ ind'[k] = ind[k] BY <1>2, <2>1
        <3>2. Matches(ind[k].rec, k, ind, presets) BY <1>5, <3>1 DEF Faithful
        <3>3. Matches(ind[k].rec, k, ind \o e, presets') BY <1>1, <1>3, <3>1, <3>2, MatchMore
        <3>4. QED BY <1>1, <3>1, <3>3
    <2>2. CASE k > m
        <3>1. k - m \in 1 .. Len(e) /\ ind'[k] = e[k - m] /\ m + (k - m) = k BY <1>2, <2>2
        <3>2. Matches(e[k - m].rec, k - m, e, presets') BY <1>5, <3>1 DEF Tells
        <3>3. Matches(e[k - m].rec, Len(ind) + (k - m), ind \o e, presets')
            BY <1>1, <3>1, <3>2, MatchLater
        <3>4. QED BY <1>1, <3>1, <3>3
    <2>3. QED BY <1>2, <2>1, <2>2
<1>6. Faithful' BY <1>4, <1>5 DEF Faithful
<1>7. ActiveTold'
    <2> HIDE DEF m
    <2>1. CASE active' = active /\ \A j \in 1 .. Len(e) : e[j].t # "ACTIVE"
        <3>0. act' = act BY DEF Tells
        <3>1. \A j \in 1 .. m : j \in 1 .. Len(ind') /\ ind'[j] = ind[j] BY <1>2
        <3>2. \A j \in 1 .. Len(ind') : \/ j \in 1 .. m /\ ind'[j] = ind[j]
                                        \/ j - m \in 1 .. Len(e) /\ ind'[j] = e[j - m]
            BY <1>2
        <3>3. CASE act = active /\ \A j \in 1 .. m : ind[j].t # "ACTIVE"
            <4>1. \A j \in 1 .. Len(ind') : ind'[j].t # "ACTIVE" BY <2>1, <3>2, <3>3
            <4>2. QED BY <2>1, <3>0, <3>3, <4>1 DEF ActiveTold
        <3>4. ASSUME NEW j \in 1 .. m, ind[j].t = "ACTIVE", ind[j].index = active,
                     \A l \in j + 1 .. m : ind[l].t # "ACTIVE"
              PROVE  ActiveTold'
            <4>1. \A l \in j + 1 .. Len(ind') : \/ l \in j + 1 .. m /\ ind'[l] = ind[l]
                                                \/ l - m \in 1 .. Len(e) /\ ind'[l] = e[l - m]
                BY <1>2
            <4>2. \A l \in j + 1 .. Len(ind') : ind'[l].t # "ACTIVE" BY <2>1, <3>4, <4>1
            <4>3. j \in 1 .. Len(ind') /\ ind'[j].t = "ACTIVE" /\ ind'[j].index = active'
                BY <2>1, <3>1, <3>4
            <4>4. QED BY <4>2, <4>3 DEF ActiveTold
        <3>5. QED BY <3>3, <3>4 DEF ActiveTold, m
    <2>2. CASE Len(e) = 1 /\ e[1].t = "ACTIVE" /\ e[1].index = active'
        <3>1. m + 1 \in 1 .. Len(ind') /\ ind'[m + 1] = e[1] BY <1>2, <2>2
        <3>2. \A l : l \notin m + 1 + 1 .. Len(ind') BY <1>2, <2>2
        <3>3. QED BY <2>2, <3>1, <3>2 DEF ActiveTold
    <2>3. QED BY <2>1, <2>2 DEF Tells
<1>8. QED BY <1>6, <1>7

\* One indication.
LEMMA Single ==
    ASSUME NEW x \in Indication
    PROVE  /\ << x >> \in Seq(Indication) /\ Len(<< x >>) = 1 /\ << x >>[1] = x
           /\ \A q \in Seq(Indication) : Append(q, x) = q \o << x >>
           /\ \A k \in 1 .. Len(<< x >>) : k = 1
OBVIOUS

\* A step that replaces preset r, or adds one, and reports the new record n.
LEMMA UpdateTells ==
    ASSUME ListInv, NEW n \in Preset, presets' \subseteq Preset, n \in presets',
           \A s \in presets : s \in presets' \/ s.index = n.index,
           Updates(n), UNCHANGED <<list, act, upto, active>>
    PROVE  \E e : Tells(e) /\ Accounts(e)
<1>1. PICK p \in 0 .. n.index - 1 :
          ind' = Append(ind, [t |-> "UPDATE", prev |-> p, rec |-> n])
    BY DEF Updates
<1> DEFINE x == [t |-> "UPDATE", prev |-> p, rec |-> n]
<1>2. x \in Indication /\ x.t = "UPDATE" /\ x.rec = n BY Indications
<1>3. ind \in Seq(Indication) BY DEF ListInv, TypeOK
<1>4. ind' = Append(ind, x) BY <1>1
<1> HIDE DEF x
<1>5. /\ << x >> \in Seq(Indication) /\ Len(<< x >>) = 1 /\ << x >>[1] = x
      /\ ind' = ind \o << x >> /\ \A k \in 1 .. Len(<< x >>) : k = 1
    BY <1>2, <1>3, <1>4, Single
<1>6. \A i : ~Toggles(x, i) /\ (Settles(x, i) <=> i = n.index)
    BY <1>2 DEF Toggles, Settles
<1> DEFINE e == << x >>
<1> HIDE DEF e
<1>7. \A k : \A j \in k + 1 .. Len(e) : \A i : j \in 1 .. Len(e) => ~Toggles(e[j], i)
    BY <1>5, <1>6 DEF e
<1>8. ASSUME NEW s \in presets PROVE Matches(s, 0, e, presets')
    <2>1. CASE s \in presets'
        <3>1. \A j \in 0 + 1 .. Len(e) : ~Toggles(e[j], s.index) BY <1>5, <1>6 DEF e
        <3>2. QED BY <2>1, <3>1, MatchSelf
    <2>2. CASE s.index = n.index
        <3>1. 1 \in 0 + 1 .. Len(e) /\ Settles(e[1], s.index) BY <1>5, <1>6, <2>2 DEF e
        <3>2. QED BY <3>1 DEF Matches
    <2>3. QED BY <2>1, <2>2
<1>9. Matches(n, 1, e, presets')
    <2>1. \A j \in 1 + 1 .. Len(e) : ~Toggles(e[j], n.index) BY <1>5 DEF e
    <2>2. QED BY <2>1, MatchSelf
<1>10. ASSUME NEW j \in 1 .. Len(e), e[j].t \in {"RESPONSE", "UPDATE"}
       PROVE  Matches(e[j].rec, j, e, presets') /\ e[j].rec.index \in Idx(presets')
    <2>1. j = 1 /\ e[j].rec = n BY <1>2, <1>5 DEF e
    <2>2. QED BY <1>9, <2>1 DEF Idx
<1>11. \A j \in 1 .. Len(e) : e[j].t # "ACTIVE" BY <1>2, <1>5 DEF e
<1>12. Tells(e) BY <1>5, <1>8, <1>10, <1>11 DEF Tells, e
<1>13. Accounts(e)
    <2>1. After(0, e) = {x} BY <1>5, Single DEF e, After
    <2>2. Updated(After(0, e)) BY <1>2, <2>1 DEF Updated
    <2>3. Idx(presets) \subseteq Idx(presets') BY DEF Idx
    <2>4. \A j \in 1 .. Len(e) : e[j].t = "UPDATE" BY <1>2, <1>5 DEF e
    <2>5. QED BY <2>2, <2>3, <2>4 DEF Accounts, Due
<1>14. QED BY <1>12, <1>13

\* A step that reports with one indication x that carries no record.
LEMMA ShortTells ==
    ASSUME ListInv, NEW x \in Indication, x.t \in {"DELETED", "AVAILABLE", "UNAVAILABLE", "ACTIVE"},
           ind' = Append(ind, x), UNCHANGED <<list, act, upto>>,
           \A s \in presets :
              \/ s \in presets' /\ ~Toggles(x, s.index)
              \/ Settles(x, s.index)
              \/ \E u \in presets' :
                    /\ u.index = s.index /\ u.writable = s.writable /\ u.name = s.name
                    /\ Toggles(x, s.index) /\ u.available = (x.t = "AVAILABLE"),
           IF x.t = "ACTIVE" THEN x.index = active' ELSE active' = active,
           IF x.t = "DELETED"
           THEN Idx(presets) = Idx(presets') \union {x.index} /\ x.index \notin Idx(presets')
           ELSE Idx(presets') = Idx(presets)
    PROVE  \E e : Tells(e) /\ Accounts(e)
<1> DEFINE e == << x >>
<1>1. ind \in Seq(Indication) BY DEF ListInv, TypeOK
<1>2. /\ e \in Seq(Indication) /\ Len(e) = 1 /\ e[1] = x
      /\ ind' = ind \o e /\ \A k \in 1 .. Len(e) : k = 1
    BY <1>1, Single
<1> HIDE DEF e
<1>3. ASSUME NEW s \in presets PROVE Matches(s, 0, e, presets')
    <2>1. CASE s \in presets' /\ ~Toggles(x, s.index)
        <3>1. \A j \in 0 + 1 .. Len(e) : ~Toggles(e[j], s.index) BY <1>2, <2>1
        <3>2. QED BY <2>1, <3>1, MatchSelf
    <2>2. CASE Settles(x, s.index)
        <3>1. 1 \in 0 + 1 .. Len(e) /\ Settles(e[1], s.index) BY <1>2, <2>2
        <3>2. QED BY <3>1 DEF Matches
    <2>3. ASSUME NEW u \in presets',
                 u.index = s.index /\ u.writable = s.writable /\ u.name = s.name,
                 Toggles(x, s.index) /\ u.available = (x.t = "AVAILABLE")
          PROVE  Matches(s, 0, e, presets')
        <3>1. 1 \in 0 + 1 .. Len(e) /\ \A l \in 1 + 1 .. Len(e) : ~Toggles(e[l], s.index)
            BY <1>2
        <3>2. QED BY <1>2, <2>3, <3>1 DEF Matches
    <2>4. QED BY <2>1, <2>2, <2>3
<1>4. \A j \in 1 .. Len(e) : e[j].t \notin {"RESPONSE", "UPDATE"} BY <1>2
<1>5. \/ active' = active /\ \A j \in 1 .. Len(e) : e[j].t # "ACTIVE"
      \/ Len(e) = 1 /\ e[1].t = "ACTIVE" /\ e[1].index = active'
    BY <1>2
<1>6. Tells(e) BY <1>2, <1>3, <1>4, <1>5 DEF Tells
<1>7. Accounts(e)
    <2>1. After(0, e) = {x} BY <1>2 DEF After
    <2>2. presets \subseteq Preset BY DEF ListInv, TypeOK
    <2>3. Idx(presets) \subseteq Indices
        BY <2>2, PresetsAssumption DEF Idx, Preset, Record, Indices
    <2>4. CASE x.t = "DELETED"
        <3>1. x.index \in Indices BY <2>3, <2>4
        <3>2. Due(After(0, e), presets') = Idx(presets') \union {x.index}
            BY <2>1, <2>4, <3>1 DEF Due
        <3>3. QED BY <1>2, <2>4, <3>2 DEF Accounts
    <2>5. CASE x.t # "DELETED"
        <3>1. Due(After(0, e), presets') = Idx(presets') BY <2>1, <2>5 DEF Due
        <3>2. QED BY <1>2, <2>5, <3>1 DEF Accounts
    <2>6. QED BY <2>4, <2>5
<1>8. QED BY <1>6, <1>7

\* What is due is a finite set of indices.
LEMMA DueFinite ==
    ASSUME ListInv, NEW A
    PROVE  /\ Due(A, presets) \subseteq Indices /\ IsFiniteSet(Due(A, presets))
           /\ Cardinality(Due(A, presets)) \in Nat
<1>1. presets \subseteq Preset BY DEF ListInv, TypeOK
<1>2. Due(A, presets) \subseteq Indices
    BY <1>1, PresetsAssumption DEF Due, Idx, Preset, Record, Indices
<1>3. IsFiniteSet(Indices) BY FS_Interval, PresetsAssumption DEF Indices
<1>4. QED BY <1>2, <1>3, FS_Subset, FS_CardinalityType

\* A response to a reading.
LEMMA RespondTells ==
    ASSUME ListInv, Unique, NEW r \in presets, NextToTell(r), reading.left > 0,
           ind' = Append(ind, [t |-> "RESPONSE", rec |-> r, upto |-> Told(r)]),
           UNCHANGED <<presets, active, list, act, upto>>
    PROVE  \E e : Tells(e) /\ Accounts(e)
<1> DEFINE x == [t |-> "RESPONSE", rec |-> r, upto |-> Told(r)]
<1>1. /\ r \in Preset /\ presets \subseteq Preset /\ ind \in Seq(Indication) /\ r.index \in Nat
      /\ reading \in [next : Nat, left : 0 .. MaxRecords, calm : BOOLEAN]
    BY RecordIndex DEF ListInv, TypeOK
<1>2. x \in Indication /\ x.t = "RESPONSE" /\ x.rec = r /\ x.upto = Told(r)
    BY <1>1, ToldType, Indications
<1>3. ind' = Append(ind, x) OBVIOUS
<1> HIDE DEF x
<1> DEFINE e == << x >>
<1>4. /\ e \in Seq(Indication) /\ Len(e) = 1 /\ e[1] = x
      /\ ind' = ind \o e /\ \A k \in 1 .. Len(e) : k = 1
    BY <1>1, <1>2, <1>3, Single
<1> HIDE DEF e
<1>5. \A i : ~Toggles(x, i) BY <1>2 DEF Toggles
<1>6. ASSUME NEW s \in presets PROVE Matches(s, 0, e, presets') /\ Matches(s, 1, e, presets')
    <2>1. \A j \in 0 + 1 .. Len(e) : ~Toggles(e[j], s.index) BY <1>4, <1>5
    <2>2. \A j \in 1 + 1 .. Len(e) : ~Toggles(e[j], s.index) BY <1>4
    <2>3. s \in presets' OBVIOUS
    <2>4. QED BY <2>1, <2>2, <2>3, MatchSelf
<1>7. \A j \in 1 .. Len(e) : Matches(e[j].rec, j, e, presets') /\ e[j].rec.index \in Idx(presets')
    BY <1>2, <1>4, <1>6 DEF Idx
<1>8. Tells(e) BY <1>2, <1>4, <1>6, <1>7 DEF Tells
<1>9. After(0, e) = {x} BY <1>4 DEF After
<1>10. Due(After(0, e), presets') = Idx(presets) BY <1>2, <1>9 DEF Due
<1>11. ASSUME x.upto # 0, Underway PROVE WellTold(x, Idx(presets'), Len(ind), ind, upto)
    <2> DEFINE D == Idx(presets)
               n == reading.next
    <2>1. reading.calm /\ Told(r) \in Nat /\ Told(r) >= r.index BY <1>2, <1>11, ToldType
    <2>2. \A i \in D : i \in Nat /\ (i >= n => r.index <= i) BY <1>1, RecordIndex DEF Idx, NextToTell
    <2>3. \A i \in D : i <= Told(r) => i <= r.index
        <3>1. CASE \E s \in presets : s.index > r.index
            <4>1. Told(r) = r.index BY <2>1, <3>1 DEF Told
            <4>2. QED BY <4>1
        <3>2. CASE ~\E s \in presets : s.index > r.index
            <4>1. \A s \in presets : s.index \in Nat BY <1>1, RecordIndex
            <4>2. \A s \in presets : s.index <= r.index BY <1>1, <3>2, <4>1
            <4>3. QED BY <4>2 DEF Idx
        <3>3. QED BY <3>1, <3>2
    <2>4. \A i \in D : i < n => Covered(i, Len(ind), ind, upto) BY <1>11, <2>1 DEF Underway
    <2>5. \A i \in D : i < r.index => i < n BY <1>1, <2>2
    <2>6. Cardinality(To(n - 1, D)) + reading.left <= MaxRecords BY <1>11, <2>1 DEF Underway
    <2>7. To(r.index, D) = To(n - 1, D) \union {r.index} /\ r.index \notin To(n - 1, D)
        <3>1. r.index \in D /\ r.index >= n BY DEF Idx, NextToTell
        <3>2. \A i \in D : i <= r.index <=> i <= n - 1 \/ i = r.index BY <1>1, <2>2, <3>1
        <3>3. ~(r.index <= n - 1) BY <1>1, <3>1
        <3> HIDE DEF D, n
        <3>4. QED BY <3>1, <3>2, <3>3 DEF To
    <2>8. IsFiniteSet(D)
        <3>1. IsFiniteSet(Due({}, presets)) BY DueFinite
        <3>2. D \subseteq Due({}, presets) BY DEF Due
        <3>3. QED BY <3>1, <3>2, FS_Subset
    <2>9. IsFiniteSet(To(n - 1, D)) /\ Cardinality(To(n - 1, D)) \in Nat
        <3>1. To(n - 1, D) \subseteq D BY DEF To
        <3> HIDE DEF D, n
        <3>2. QED BY <2>8, <3>1, FS_Subset, FS_CardinalityType
    <2>10. Cardinality(To(r.index, D)) = Cardinality(To(n - 1, D)) + 1
        <3> HIDE DEF D, n
        <3>1. QED BY <2>7, <2>9, FS_AddElement
    <2>11. Cardinality(To(r.index, D)) <= MaxRecords BY <1>1, <2>6, <2>9, <2>10, RecordIndex
    <2>12. Idx(presets') = D OBVIOUS
    <2> HIDE DEF D, n
    <2>13. \A i \in D : i < r.index => Covered(i, Len(ind), ind, upto) BY <2>4, <2>5
    <2>14. QED BY <1>2, <2>3, <2>11, <2>12, <2>13 DEF WellTold
<1>12. Accounts(e) BY <1>2, <1>4, <1>10, <1>11 DEF Accounts
<1>13. QED BY <1>8, <1>12

\* A renamed preset and one that is made available or not keep their index.
LEMMA Variants ==
    ASSUME NEW r \in Preset
    PROVE  /\ [r EXCEPT !.name = "new"] \in Preset
           /\ [r EXCEPT !.name = "new"].index = r.index
           /\ [r EXCEPT !.available = ~r.available] \in Preset
           /\ [r EXCEPT !.available = ~r.available].index = r.index
           /\ [r EXCEPT !.available = ~r.available].writable = r.writable
           /\ [r EXCEPT !.available = ~r.available].name = r.name
           /\ [r EXCEPT !.available = ~r.available].available = ~r.available
BY DEF Preset, Record

\* Replacing a preset by one of its index keeps the presets unique.
LEMMA UniqueKept ==
    ASSUME Unique, NEW r \in presets, NEW n, n.index = r.index,
           presets' = (presets \ {r}) \union {n}
    PROVE  Unique'
BY DEF Unique

\* The steps of the hearing aid.
LEMMA AidTells ==
    ASSUME ListInv, ListInv', Unique,
           \/ Serve \/ Respond
           \/ \E i \in Indices : UserAdds(i)
           \/ \E r \in presets : UserRemoves(r) \/ UserToggles(r)
           \/ \E i \in Usable : UserChooses(i)
    PROVE  Unique' /\ \E e : Tells(e) /\ Accounts(e)
<1>1. /\ presets \subseteq Preset /\ presets' \subseteq Preset /\ active \in 0 .. MaxIndex
      /\ ind \in Seq(Indication) /\ active' \in 0 .. MaxIndex
    BY DEF ListInv, TypeOK
<1>2. ASSUME UNCHANGED <<list, act, upto, presets, active, ind>> PROVE Unique' /\ \E e : Tells(e) /\ Accounts(e)
    <2>1. << >> \in Seq(Indication) /\ Len(<< >>) = 0 OBVIOUS
    <2>2. ind' = ind \o << >> BY <1>1, <1>2
    <2> DEFINE e == << >>
    <2> HIDE DEF e
    <2>3. \A k \in {0} : \A j \in k + 1 .. Len(e) : FALSE BY <2>1 DEF e
    <2>4. \A s \in presets : Matches(s, 0, e, presets') BY <1>2, <2>3, MatchSelf
    <2>5. \A j \in 1 .. Len(e) : FALSE BY <2>1 DEF e
    <2>6. Tells(e) BY <1>2, <2>1, <2>2, <2>4, <2>5 DEF Tells, e
    <2>7. After(0, e) = {} BY <2>5 DEF After
    <2>8. Due(After(0, e), presets') = Idx(presets') BY <2>7 DEF Due
    <2>9. Accounts(e) BY <1>2, <2>5, <2>8 DEF Accounts
    <2>10. QED BY <1>2, <2>6, <2>9 DEF Unique
<1>3. ASSUME NEW i \in 0 .. MaxIndex, active' = i, ind' = Append(ind, [t |-> "ACTIVE", index |-> i]),
             UNCHANGED <<list, act, upto, presets>>
      PROVE  Unique' /\ \E e : Tells(e) /\ Accounts(e)
    <2> DEFINE x == [t |-> "ACTIVE", index |-> i]
    <2>1. x \in Indication /\ x.t = "ACTIVE" /\ x.index = i BY Indications
    <2>2. ind' = Append(ind, x) BY <1>3
    <2> HIDE DEF x
    <2>3. \A s \in presets : ~Toggles(x, s.index) BY <2>1 DEF Toggles
    <2>4. \E e : Tells(e) /\ Accounts(e) BY <1>3, <2>1, <2>2, <2>3, ShortTells
    <2>5. QED BY <1>3, <2>4 DEF Unique
<1>4. CASE Serve
    <2>0. UNCHANGED <<list, act, upto>> BY <1>4 DEF Serve
    <2>1. CASE Head(req).op = "READ"
        <3>1. UNCHANGED <<presets, active, ind>> BY <1>4, <2>1 DEF Serve
        <3>2. QED BY <1>2, <2>0, <3>1
    <2>2. CASE Head(req).op \in {"SET", "NEXT", "PREVIOUS"}
        <3>1. presets' = presets BY <1>4, <2>2 DEF Serve
        <3>2. PICK i \in 0 .. MaxIndex :
                 /\ active' = i
                 /\ ind' = IF i = active THEN ind ELSE Append(ind, [t |-> "ACTIVE", index |-> i])
            BY <1>4, <2>2 DEF Serve
        <3>3. CASE i = active BY <1>2, <2>0, <3>1, <3>2, <3>3
        <3>4. CASE i # active BY <1>3, <2>0, <3>1, <3>2, <3>4
        <3>5. QED BY <3>3, <3>4
    <2>3. CASE Head(req).op = "NAME"
        <3>1. active' = active BY <1>4, <2>3 DEF Serve
        <3>2. CASE UNCHANGED <<presets, ind>> BY <1>2, <2>0, <3>1, <3>2
        <3>3. ASSUME NEW r \in presets, presets' = (presets \ {r}) \union {[r EXCEPT !.name = "new"]},
                     Updates([r EXCEPT !.name = "new"])
              PROVE  Unique' /\ \E e : Tells(e) /\ Accounts(e)
            <4> DEFINE n == [r EXCEPT !.name = "new"]
            <4>1. n \in Preset /\ n.index = r.index BY <1>1, Variants
            <4>2. presets' = (presets \ {r}) \union {n} /\ Updates(n) BY <3>3
            <4> HIDE DEF n
            <4>3. Unique' BY <4>1, <4>2, UniqueKept
            <4>4. n \in presets' /\ \A s \in presets : s \in presets' \/ s.index = n.index
                BY <4>1, <4>2
            <4>5. \E e : Tells(e) /\ Accounts(e)
                BY <1>1, <2>0, <3>1, <4>1, <4>2, <4>4, UpdateTells
            <4>6. QED BY <4>3, <4>5
        <3>4. \/ \E r \in presets : /\ presets' = (presets \ {r}) \union {[r EXCEPT !.name = "new"]}
                                   /\ Updates([r EXCEPT !.name = "new"])
              \/ UNCHANGED <<presets, ind>>
            BY <1>4, <2>3 DEF Serve
        <3>5. QED BY <3>2, <3>3, <3>4
    <2>4. QED BY <1>4, <2>1, <2>2, <2>3 DEF Serve
<1>5. ASSUME NEW i \in Indices, UserAdds(i) PROVE Unique' /\ \E e : Tells(e) /\ Accounts(e)
    <2> DEFINE n == [index |-> i, writable |-> FALSE, available |-> TRUE, name |-> "old"]
    <2>1. /\ presets' = presets \union {n} /\ Updates(n) /\ \A r \in presets : r.index # i
          /\ UNCHANGED <<list, act, active, upto>>
        BY <1>5 DEF UserAdds
    <2>2. n \in Preset /\ n.index = i BY PresetsAssumption DEF Preset, Record, Indices
    <2> HIDE DEF n
    <2>3. Unique' BY <2>1, <2>2 DEF Unique
    <2>4. \E e : Tells(e) /\ Accounts(e)
        BY <1>1, <2>1, <2>2, UpdateTells
    <2>5. QED BY <2>3, <2>4
<1>6. ASSUME NEW r \in presets, UserRemoves(r) PROVE Unique' /\ \E e : Tells(e) /\ Accounts(e)
    <2> DEFINE x == [t |-> "DELETED", index |-> r.index]
    <2>1. r.index \in 0 .. MaxIndex BY <1>1 DEF Preset, Record
    <2>2. x \in Indication /\ x.t = "DELETED" /\ x.index = r.index BY <2>1, Indications
    <2>3. /\ ind' = Append(ind, x) /\ presets' = presets \ {r}
          /\ UNCHANGED <<list, act, active, upto>>
        BY <1>6 DEF UserRemoves
    <2> HIDE DEF x
    <2>4. \A i : ~Toggles(x, i) /\ (Settles(x, i) <=> i = r.index) BY <2>2 DEF Toggles, Settles
    <2>5. Unique' BY <2>3 DEF Unique
    <2>6. \A s \in presets : (s \in presets' /\ ~Toggles(x, s.index)) \/ Settles(x, s.index)
        BY <2>3, <2>4
    <2>7. Idx(presets) = Idx(presets') \union {x.index} /\ x.index \notin Idx(presets')
        BY <2>2, <2>3 DEF Idx, Unique
    <2>9. \E e : Tells(e) /\ Accounts(e) BY <2>2, <2>3, <2>6, <2>7, ShortTells
    <2>10. QED BY <2>5, <2>9
<1>7. ASSUME NEW r \in presets, UserToggles(r) PROVE Unique' /\ \E e : Tells(e) /\ Accounts(e)
    <2> DEFINE k == IF r.available THEN "UNAVAILABLE" ELSE "AVAILABLE"
               x == [t |-> k, index |-> r.index]
               n == [r EXCEPT !.available = ~r.available]
    <2>1. r \in Preset /\ r.index \in 0 .. MaxIndex /\ r.available \in BOOLEAN
        BY <1>1 DEF Preset, Record
    <2>2. k \in {"AVAILABLE", "UNAVAILABLE"} /\ (k = "AVAILABLE") = ~r.available
        BY <2>1
    <2>3. /\ ind' = Append(ind, x) /\ presets' = (presets \ {r}) \union {n}
          /\ UNCHANGED <<list, act, active, upto>>
        BY <1>7 DEF UserToggles
    <2>4. /\ n.index = r.index /\ n.writable = r.writable /\ n.name = r.name
          /\ n.available = ~r.available
        BY <2>1, Variants
    <2> HIDE DEF k, n
    <2>5. x \in Indication /\ x.t = k /\ x.index = r.index BY <2>1, <2>2, Indications
    <2> HIDE DEF x
    <2>6. \A i : Toggles(x, i) <=> i = r.index BY <2>2, <2>5 DEF Toggles
    <2>7. Unique' BY <2>3, <2>4, UniqueKept
    <2>8. ASSUME NEW s \in presets
          PROVE  \/ s \in presets' /\ ~Toggles(x, s.index)
                 \/ \E u \in presets' :
                      /\ u.index = s.index /\ u.writable = s.writable /\ u.name = s.name
                      /\ Toggles(x, s.index) /\ u.available = (x.t = "AVAILABLE")
        <3>1. CASE s = r
            <4>1. n \in presets' /\ n.available = (x.t = "AVAILABLE") BY <2>2, <2>3, <2>4, <2>5
            <4>2. QED BY <2>4, <2>6, <3>1, <4>1
        <3>2. CASE s # r
            <4>1. s.index # r.index BY <3>2 DEF Unique
            <4>2. QED BY <2>3, <2>6, <3>2, <4>1
        <3>3. QED BY <3>1, <3>2
    <2>9. Idx(presets') = Idx(presets) BY <2>3, <2>4 DEF Idx
    <2>10. \E e : Tells(e) /\ Accounts(e) BY <2>2, <2>3, <2>5, <2>8, <2>9, ShortTells
    <2>11. QED BY <2>7, <2>10
<1>8. ASSUME NEW i \in Usable, UserChooses(i) PROVE Unique' /\ \E e : Tells(e) /\ Accounts(e)
    <2>1. i \in 0 .. MaxIndex BY <1>1 DEF Usable, Preset, Record
    <2>2. /\ active' = i /\ ind' = Append(ind, [t |-> "ACTIVE", index |-> i])
          /\ UNCHANGED <<list, act, upto, presets>>
        BY <1>8 DEF UserChooses
    <2>3. QED BY <1>3, <2>1, <2>2
<1>9. CASE Respond
    <2>1. reading.left > 0 /\ UNCHANGED <<list, act, presets, active, upto>> BY <1>9 DEF Respond
    <2>2. ASSUME NEW r \in presets, NextToTell(r),
                 ind' = Append(ind, [t |-> "RESPONSE", rec |-> r, upto |-> Told(r)])
          PROVE  Unique' /\ \E e : Tells(e) /\ Accounts(e)
        <3>1. \E e : Tells(e) /\ Accounts(e) BY <2>1, <2>2, RespondTells
        <3>2. QED BY <2>1, <3>1 DEF Unique
    <2>3. CASE ind' = ind BY <1>2, <2>1, <2>3
    <2>4. QED BY <1>9, <2>2, <2>3 DEF Respond
<1>10. QED BY <1>4, <1>5, <1>6, <1>7, <1>8, <1>9

\* The report of the active preset, when an indication is received.
LEMMA ActiveReceived ==
    ASSUME ListInv, ActiveTold, Received, active' = active,
           act' = IF Head(ind).t = "ACTIVE" THEN Head(ind).index ELSE act
    PROVE  ActiveTold'
<1>1. ind \in Seq(Indication) /\ ind # << >> /\ ind' = Tail(ind)
    BY DEF ListInv, TypeOK, Received
<1>2. /\ Len(ind) \in Nat /\ Len(ind) >= 1 /\ Head(ind) = ind[1] /\ Len(ind') = Len(ind) - 1
      /\ \A k \in 1 .. Len(ind') : ind'[k] = ind[k + 1]
    BY <1>1, HeadTailProperties, EmptySeq
<1>3. CASE act = active /\ \A j \in 1 .. Len(ind) : ind[j].t # "ACTIVE"
    <2>1. \A k \in 1 .. Len(ind') : k + 1 \in 1 .. Len(ind) /\ ind'[k] = ind[k + 1] BY <1>2
    <2>2. \A k \in 1 .. Len(ind') : ind'[k].t # "ACTIVE" BY <1>3, <2>1
    <2>3. 1 \in 1 .. Len(ind) BY <1>2
    <2>4. act' = active' BY <1>2, <1>3, <2>3
    <2>5. QED BY <2>2, <2>4 DEF ActiveTold
<1>4. ASSUME NEW j \in 1 .. Len(ind), ind[j].t = "ACTIVE", ind[j].index = active,
             \A l \in j + 1 .. Len(ind) : ind[l].t # "ACTIVE"
      PROVE  ActiveTold'
    <2>1. CASE j = 1
        <3>1. \A k \in 1 .. Len(ind') : k + 1 \in j + 1 .. Len(ind) /\ ind'[k] = ind[k + 1]
            BY <1>2, <2>1
        <3>2. \A k \in 1 .. Len(ind') : ind'[k].t # "ACTIVE" BY <1>4, <3>1
        <3>3. act' = active' BY <1>2, <1>4, <2>1
        <3>4. QED BY <3>2, <3>3 DEF ActiveTold
    <2>2. CASE j # 1
        <3>1. j - 1 \in 1 .. Len(ind') /\ ind'[j - 1] = ind[j] BY <1>2, <2>2
        <3>2. \A l \in j - 1 + 1 .. Len(ind') : l + 1 \in j + 1 .. Len(ind) /\ ind'[l] = ind[l + 1]
            BY <1>2
        <3>3. \A l \in j - 1 + 1 .. Len(ind') : ind'[l].t # "ACTIVE" BY <1>4, <3>2
        <3>4. QED BY <1>4, <3>1, <3>3 DEF ActiveTold
    <2>3. QED BY <2>1, <2>2
<1>5. QED BY <1>3, <1>4 DEF ActiveTold


\* The first state.
LEMMA GhostStarts == Init => GhostInv
<1> SUFFICES ASSUME Init PROVE GhostInv OBVIOUS
<1>1. ListInv BY ListStarts
<1>2. ind = << >> /\ act = active /\ list = [p \in Positions |-> Empty] BY DEF Init
<1>3. Len(ind) = 0 BY <1>2
<1>4. Unique
    <2> SUFFICES ASSUME NEW r \in presets, NEW s \in presets, r.index = s.index PROVE r = s
        BY DEF Unique
    <2> DEFINE new(i) == [index |-> i, writable |-> TRUE, available |-> TRUE, name |-> "old"]
    <2>1. presets = {new(i) : i \in Indices \ {2}} BY DEF Init
    <2>2. \A i : new(i).index = i OBVIOUS
    <2> HIDE DEF new
    <2>3. QED BY <2>1, <2>2
<1>5. Faithful BY <1>2, <1>3 DEF Faithful, Held
<1>6. ActiveTold BY <1>2, <1>3 DEF ActiveTold
<1>7. QED BY <1>1, <1>4, <1>5, <1>6 DEF GhostInv

\* Every step keeps the list faithful.
LEMMA GhostKept == GhostInv /\ [Next]_vars => GhostInv'
<1> SUFFICES ASSUME GhostInv, [Next]_vars PROVE GhostInv' OBVIOUS
<1>1. ListInv /\ Unique /\ Faithful /\ ActiveTold /\ ListInv' BY ListKept DEF GhostInv
<1>2. CASE UNCHANGED <<list, act, presets, active, ind>>
    BY <1>1, <1>2 DEF GhostInv, Unique, Faithful, ActiveTold
<1>3. CASE ReadResponse \/ GenericUpdate \/ RecordDeleted \/ RecordAvailable \/ ActivePresetIndex
    <2>1. Faithful' BY <1>1, <1>3, ReceiveFaithful
    <2>2. /\ Received /\ UNCHANGED <<presets, active>>
          /\ act' = IF Head(ind).t = "ACTIVE" THEN Head(ind).index ELSE act
        BY <1>3 DEF ReadResponse, GenericUpdate, RecordDeleted, RecordAvailable, ActivePresetIndex
    <2>3. ActiveTold' BY <1>1, <2>2, ActiveReceived
    <2>4. Unique' BY <1>1, <2>2 DEF Unique
    <2>5. QED BY <1>1, <2>1, <2>3, <2>4 DEF GhostInv
<1>4. CASE \/ Serve \/ Respond
           \/ \E i \in Indices : UserAdds(i)
           \/ \E r \in presets : UserRemoves(r) \/ UserToggles(r)
           \/ \E i \in Usable : UserChooses(i)
    <2>1. Unique' /\ \E e : Tells(e) BY <1>1, <1>4, AidTells, Zenon
    <2>2. Faithful' /\ ActiveTold' BY <1>1, <2>1, TellsFaithful
    <2>3. QED BY <1>1, <2>1, <2>2 DEF GhostInv
<1>5. CASE \/ ReadPresets
           \/ \E op \in {"SET", "NEXT", "PREVIOUS"}, i \in 0 .. MaxIndex : SetActive(op, i)
           \/ \E i \in Indices : SetName(i)
    <2>1. UNCHANGED <<list, act, presets, active, ind>>
        BY <1>5 DEF ReadPresets, SetActive, SetName
    <2>2. QED BY <1>2, <2>1
<1>6. CASE UNCHANGED vars BY <1>2, <1>6 DEF vars
<1>7. QED BY <1>3, <1>4, <1>5, <1>6 DEF Next

\* What the invariant says when nothing is under way.
LEMMA GhostExplained == GhostInv => NoGhosts
<1> SUFFICES ASSUME GhostInv, ind = << >> 
             PROVE  /\ \A p \in Positions : list[p] = Empty \/ list[p] \in presets
                    /\ act = active
    BY DEF NoGhosts
<1>1. Len(ind) = 0 OBVIOUS
<1>2. act = active BY <1>1 DEF GhostInv, ActiveTold
<1>3. ASSUME NEW p \in Positions, list[p] # Empty PROVE list[p] \in presets
    <2>1. Matches(list[p], 0, ind, presets) BY <1>3 DEF GhostInv, Faithful, Held
    <2>2. PICK s \in presets : /\ s.index = list[p].index /\ s.writable = list[p].writable
                               /\ s.name = list[p].name /\ s.available = list[p].available
        BY <1>1, <2>1 DEF Matches
    <2>3. s \in Record /\ list[p] \in Record
        BY RecordIndex DEF GhostInv, ListInv, TypeOK
    <2>4. s = list[p] BY <2>2, <2>3 DEF Record
    <2>5. QED BY <2>4
<1>4. QED BY <1>2, <1>3

(* When nothing is under way, the list of the client holds presets of the   *)
(* hearing aid only, each with its properties and name, and the client      *)
(* knows the active one: no order of responses, updates, deletions and      *)
(* property changes (lepl_has.c) leaves it with a record that is not there. *)
THEOREM NoGhostsStay == Spec => []NoGhosts
<1>1. Spec => []GhostInv BY GhostStarts, GhostKept, PTL DEF Spec
<1>2. QED BY <1>1, GhostExplained, PTL

\* The indications after a position, in the queue and in its tail.
LEMMA AfterTail ==
    ASSUME NEW q \in Seq(Indication), q # << >>
    PROVE  /\ Len(q) \in Nat /\ Len(q) >= 1 /\ Head(q) = q[1] /\ Len(Tail(q)) = Len(q) - 1
           /\ \A k \in 1 .. Len(Tail(q)) : k + 1 \in 1 .. Len(q) /\ Tail(q)[k] = q[k + 1]
           /\ \A k \in 0 .. Len(Tail(q)) : After(k, Tail(q)) = After(k + 1, q)
           /\ After(0, q) = After(1, q) \union {Head(q)}
<1> DEFINE t == Tail(q)
<1>1. /\ Len(q) \in Nat /\ Len(q) >= 1 /\ Head(q) = q[1] /\ Len(t) = Len(q) - 1
      /\ \A j \in 1 .. Len(t) : t[j] = q[j + 1]
    BY HeadTailProperties, EmptySeq
<1> HIDE DEF t
<1>2. \A k \in 1 .. Len(t) : k + 1 \in 1 .. Len(q) /\ t[k] = q[k + 1] BY <1>1
<1>3. ASSUME NEW k \in 0 .. Len(t) PROVE After(k, t) = After(k + 1, q)
    <2>1. \A j \in k + 1 .. Len(t) : j + 1 \in k + 1 + 1 .. Len(q) /\ t[j] = q[j + 1] BY <1>1
    <2>2. \A j \in k + 1 + 1 .. Len(q) : j - 1 \in k + 1 .. Len(t) /\ t[j - 1] = q[j] BY <1>1
    <2>3. ASSUME NEW x \in After(k, t) PROVE x \in After(k + 1, q)
        <3>1. PICK j \in k + 1 .. Len(t) : x = t[j] BY <2>3 DEF After
        <3>2. QED BY <2>1, <3>1 DEF After
    <2>4. ASSUME NEW x \in After(k + 1, q) PROVE x \in After(k, t)
        <3>1. PICK j \in k + 1 + 1 .. Len(q) : x = q[j] BY <2>4 DEF After
        <3>2. QED BY <2>2, <3>1 DEF After
    <2>5. QED BY <2>3, <2>4
<1>4. After(0, q) = After(1, q) \union {Head(q)}
    <2>1. \A j \in 0 + 1 .. Len(q) : j = 1 \/ j \in 1 + 1 .. Len(q) BY <1>1
    <2>2. 1 \in 0 + 1 .. Len(q) /\ \A j \in 1 + 1 .. Len(q) : j \in 0 + 1 .. Len(q) BY <1>1
    <2>3. QED BY <1>1, <2>1, <2>2 DEF After
<1>5. QED BY <1>1, <1>2, <1>3, <1>4 DEF t

\* The same with more indications.
LEMMA AfterMore ==
    ASSUME NEW q \in Seq(Indication), NEW e \in Seq(Indication)
    PROVE  /\ Len(q) \in Nat /\ Len(e) \in Nat /\ Len(q \o e) = Len(q) + Len(e)
           /\ \A i \in 1 .. Len(q) + Len(e) :
                 (q \o e)[i] = IF i <= Len(q) THEN q[i] ELSE e[i - Len(q)]
           /\ \A k \in 0 .. Len(q) : After(k, q \o e) = After(k, q) \union After(0, e)
           /\ \A k \in 0 .. Len(e) : After(Len(q) + k, q \o e) = After(k, e)
<1> DEFINE c == q \o e
           m == Len(q)
<1>1. /\ m \in Nat /\ Len(e) \in Nat /\ Len(c) = m + Len(e)
      /\ \A i \in 1 .. m + Len(e) : c[i] = IF i <= m THEN q[i] ELSE e[i - m]
    BY ConcatProperties, LenProperties
<1> HIDE DEF c, m
<1>2. ASSUME NEW k \in 0 .. m PROVE After(k, c) = After(k, q) \union After(0, e)
    <2>1. \A j \in k + 1 .. m : j \in k + 1 .. Len(c) /\ c[j] = q[j] BY <1>1
    <2>2. \A j \in 0 + 1 .. Len(e) : j + m \in k + 1 .. Len(c) /\ c[j + m] = e[j] BY <1>1
    <2>3. \A j \in k + 1 .. Len(c) : \/ j \in k + 1 .. m /\ c[j] = q[j]
                                     \/ j - m \in 0 + 1 .. Len(e) /\ c[j] = e[j - m]
        BY <1>1
    <2>4. ASSUME NEW x \in After(k, c) PROVE x \in After(k, q) \union After(0, e)
        <3>1. PICK j \in k + 1 .. Len(c) : x = c[j] BY <2>4 DEF After
        <3>2. CASE j \in k + 1 .. m /\ c[j] = q[j] BY <3>1, <3>2 DEF After, m
        <3>3. CASE j - m \in 0 + 1 .. Len(e) /\ c[j] = e[j - m] BY <3>1, <3>3 DEF After
        <3>4. QED BY <2>3, <3>2, <3>3
    <2>5. ASSUME NEW x \in After(k, q) PROVE x \in After(k, c)
        <3>1. PICK j \in k + 1 .. m : x = q[j] BY <2>5 DEF After, m
        <3>2. QED BY <2>1, <3>1 DEF After
    <2>6. ASSUME NEW x \in After(0, e) PROVE x \in After(k, c)
        <3>1. PICK j \in 0 + 1 .. Len(e) : x = e[j] BY <2>6 DEF After
        <3>2. QED BY <2>2, <3>1 DEF After
    <2>7. QED BY <2>4, <2>5, <2>6
<1>3. ASSUME NEW k \in 0 .. Len(e) PROVE After(m + k, c) = After(k, e)
    <2>1. \A j \in k + 1 .. Len(e) : j + m \in m + k + 1 .. Len(c) /\ c[j + m] = e[j] BY <1>1
    <2>2. \A j \in m + k + 1 .. Len(c) : j - m \in k + 1 .. Len(e) /\ c[j] = e[j - m] BY <1>1
    <2>3. ASSUME NEW x \in After(m + k, c) PROVE x \in After(k, e)
        <3>1. PICK j \in m + k + 1 .. Len(c) : x = c[j] BY <2>3 DEF After
        <3>2. QED BY <2>2, <3>1 DEF After
    <2>4. ASSUME NEW x \in After(k, e) PROVE x \in After(m + k, c)
        <3>1. PICK j \in k + 1 .. Len(e) : x = e[j] BY <2>4 DEF After
        <3>2. QED BY <2>1, <3>1 DEF After
    <2>5. QED BY <2>3, <2>4
<1>4. QED BY <1>1, <1>2, <1>3 DEF c, m

\* What is covered after position k depends on the indications up to k.
LEMMA CoveredSame ==
    ASSUME NEW i, NEW k, NEW q, NEW r, NEW u, \A l \in 1 .. k : r[l] = q[l], Covered(i, k, q, u)
    PROVE  Covered(i, k, r, u)
<1>1. \A j \in 1 .. k : NoUpdate(j, k, q) => NoUpdate(j, k, r)
    <2> SUFFICES ASSUME NEW j \in 1 .. k, NoUpdate(j, k, q) PROVE NoUpdate(j, k, r)
        OBVIOUS
    <2>1. \A l \in j .. k : l \in 1 .. k OBVIOUS
    <2>2. QED BY <2>1 DEF NoUpdate
<1>2. NoUpdate(1, k, q) => NoUpdate(1, k, r) BY DEF NoUpdate
<1>3. QED BY <1>1, <1>2 DEF Covered

\* Fewer presets are told as well.
LEMMA FewerTold ==
    ASSUME NEW x, NEW D, NEW E, D \subseteq E, IsFiniteSet(E), NEW k, NEW q, NEW r, NEW u, NEW v,
           \A i : Covered(i, k, q, u) => Covered(i, k, r, v),
           WellTold(x, E, k, q, u)
    PROVE  WellTold(x, D, k, r, v)
<1> DEFINE A == To(x.rec.index, D)
           B == To(x.rec.index, E)
<1>1. A \subseteq B /\ B \subseteq E BY DEF To
<1>2. Cardinality(B) <= MaxRecords BY DEF WellTold
<1> HIDE DEF A, B
<1>3. Cardinality(A) <= Cardinality(B) /\ Cardinality(A) \in Nat /\ Cardinality(B) \in Nat
    BY <1>1, FS_Subset, FS_CardinalityType
<1>4. Cardinality(A) <= MaxRecords BY <1>2, <1>3, RecordIndex
<1>5. QED BY <1>4 DEF A, WellTold

\* The presets of the hearing aid are finitely many.
LEMMA IdxFinite ==
    ASSUME NEW ps, ps \subseteq Preset
    PROVE  IsFiniteSet(Idx(ps))
<1>1. Idx(ps) \subseteq Indices
    BY PresetsAssumption DEF Idx, Preset, Record, Indices
<1>2. IsFiniteSet(Indices) BY FS_Interval, PresetsAssumption DEF Indices
<1>3. QED BY <1>1, <1>2, FS_Subset

\* The hearing aid's step keeps a reading on its way to complete the list.
LEMMA TellsRead ==
    ASSUME ListInv, ListInv', Alive, Gone, Telling, Underway, Complete, NEW e, Tells(e), Accounts(e)
    PROVE  Alive' /\ Gone' /\ Telling' /\ Complete'
<1> DEFINE m == Len(ind)
           D(k) == Due(After(k, ind), presets)
           D2(k) == Due(After(k, ind'), presets')
<1>1. ind \in Seq(Indication) /\ e \in Seq(Indication) /\ ind' = ind \o e
      /\ list' = list /\ upto' = upto
    BY DEF ListInv, TypeOK, Tells
<1>2. /\ m \in Nat /\ Len(e) \in Nat /\ Len(ind') = m + Len(e)
      /\ \A i \in 1 .. m + Len(e) : ind'[i] = IF i <= m THEN ind[i] ELSE e[i - m]
      /\ \A k \in 0 .. m : After(k, ind') = After(k, ind) \union After(0, e)
      /\ \A k \in 0 .. Len(e) : After(m + k, ind') = After(k, e)
    BY <1>1, AfterMore
<1>3. ASSUME NEW k \in 0 .. m
      PROVE  /\ D(k) \subseteq D2(k)
             /\ Updated(After(0, e)) \/ D2(k) \subseteq D(k)
             /\ Updated(After(k, ind')) <=> Updated(After(k, ind)) \/ Updated(After(0, e))
    <2>1. After(k, ind') = After(k, ind) \union After(0, e) BY <1>2
    <2>2. D(k) \subseteq D2(k) BY <2>1 DEF Accounts, Due
    <2>3. Updated(After(0, e)) \/ D2(k) \subseteq D(k) BY <2>1 DEF Accounts, Due
    <2>4. QED BY <2>1, <2>2, <2>3 DEF Updated
<1>4. 0 \in 0 .. m /\ \A k \in 1 .. m : k \in 0 .. m /\ k \in 1 .. Len(ind') /\ ind'[k] = ind[k]
    BY <1>2
<1>5. \A k \in 1 .. Len(ind') : k > m =>
         k - m \in 1 .. Len(e) /\ k - m \in 0 .. Len(e) /\ ind'[k] = e[k - m] /\ m + (k - m) = k
    BY <1>2
<1>6. \A k \in 1 .. Len(ind') : k \in 1 .. m \/ k > m BY <1>2
<1>7. \A k \in 1 .. Len(ind') : k > m => After(k, ind') = After(k - m, e)
    BY <1>2, <1>5
<1> HIDE DEF m
<1>8. Alive'
    <2>1. \A p \in Positions : list'[p].index # 0 => list'[p].index \in D2(0)
        BY <1>1, <1>3, <1>4 DEF Alive
    <2>2. ASSUME NEW k \in 1 .. Len(ind'), ind'[k].t \in {"RESPONSE", "UPDATE"}
          PROVE  ind'[k].rec.index \in D2(k)
        <3>1. CASE k \in 1 .. m BY <1>3, <1>4, <2>2, <3>1 DEF Alive, m
        <3>2. CASE k > m
            <4>1. ind'[k].rec.index \in Idx(presets') BY <1>5, <2>2, <3>2 DEF Tells
            <4>2. QED BY <4>1 DEF Due
        <3>3. QED BY <1>6, <3>1, <3>2
    <2>3. QED BY <2>1, <2>2 DEF Alive
<1>9. Gone'
    <2>1. ASSUME NEW k \in 1 .. Len(ind'), ind'[k].t = "DELETED"
          PROVE  Updated(After(k, ind')) \/ ind'[k].index \notin D2(k)
        <3>1. CASE k \in 1 .. m BY <1>3, <1>4, <2>1, <3>1 DEF Gone, m
        <3>2. CASE k > m
            <4>1. /\ ind'[k].index \notin Idx(presets') /\ Len(e) = 1
                BY <1>5, <2>1, <3>2 DEF Accounts
            <4>2. k - m = 1 BY <1>5, <3>2, <4>1
            <4>3. After(k, ind') = After(1, e) BY <1>7, <3>2, <4>2
            <4>4. After(1, e) = {} BY <4>1 DEF After
            <4>5. QED BY <4>1, <4>3, <4>4 DEF Due
        <3>3. QED BY <1>6, <3>1, <3>2
    <2>2. QED BY <2>1 DEF Gone
<1>10. Telling'
    <2>1. ASSUME NEW k \in 1 .. Len(ind'), ind'[k].t = "RESPONSE", ind'[k].upto # 0,
                 ~Updated(After(k, ind'))
          PROVE  WellTold(ind'[k], D2(k), k - 1, ind', upto')
        <3>1. CASE k \in 1 .. m
            <4>1. /\ D2(k) \subseteq D(k) /\ ~Updated(After(k, ind))
                  /\ ind[k].t = "RESPONSE" /\ ind[k].upto # 0 /\ ind'[k] = ind[k]
                BY <1>3, <1>4, <2>1, <3>1
            <4>2. WellTold(ind[k], D(k), k - 1, ind, upto) BY <3>1, <4>1 DEF Telling, m
            <4>3. IsFiniteSet(D(k)) BY DueFinite
            <4>4. \A l \in 1 .. k - 1 : ind'[l] = ind[l]
                <5>1. \A l \in 1 .. k - 1 : l \in 1 .. m BY <1>2, <3>1 DEF m
                <5>2. QED BY <1>4, <5>1
            <4> HIDE DEF D, D2
            <4>5. \A i : Covered(i, k - 1, ind, upto) => Covered(i, k - 1, ind', upto')
                BY <1>1, <4>4, CoveredSame
            <4>6. QED BY <4>1, <4>2, <4>3, <4>5, FewerTold
        <3>2. CASE k > m
            <4>1. k - m \in 1 .. Len(e) /\ ind'[k] = e[k - m] /\ After(k, ind') = After(k - m, e)
                BY <1>5, <1>7, <3>2
            <4>2. Len(e) = 1 /\ WellTold(e[k - m], Idx(presets'), Len(ind), ind, upto)
                BY <2>1, <4>1 DEF Accounts
            <4>3. k - m = 1 /\ k - 1 = m BY <1>2, <3>2, <4>1, <4>2
            <4>4. After(1, e) = {} BY <4>2 DEF After
            <4>5. D2(k) = Idx(presets') BY <4>1, <4>3, <4>4 DEF Due
            <4>6. \A l \in 1 .. k - 1 : ind'[l] = ind[l] BY <1>4, <4>3
            <4>7. IsFiniteSet(Idx(presets')) BY IdxFinite DEF ListInv, TypeOK
            <4> HIDE DEF D, D2
            <4>8. \A i : Covered(i, k - 1, ind, upto) => Covered(i, k - 1, ind', upto')
                BY <1>1, <4>6, CoveredSame
            <4>9. WellTold(ind'[k], Idx(presets'), k - 1, ind, upto) BY <4>1, <4>2, <4>3 DEF m
            <4>10. QED BY <4>5, <4>7, <4>8, <4>9, FewerTold
        <3>3. QED BY <1>6, <3>1, <3>2
    <2>2. QED BY <2>1 DEF Telling
<1>11. Complete'
    <2>1. ASSUME ~Updated(After(0, ind')), NEW i \in D2(0), i <= upto PROVE IsListed(i, list)
        <3>1. i \in D(0) /\ ~Updated(After(0, ind)) BY <1>3, <1>4, <2>1
        <3>2. QED BY <2>1, <3>1 DEF Complete
    <2>2. QED BY <1>1, <2>1 DEF Complete
<1>12. QED BY <1>8, <1>9, <1>10, <1>11

\* A list with an index left out has room, when all that is due fits.
LEMMA Room ==
    ASSUME NEW l \in Lists, Ascending(l), NEW D, IsFiniteSet(D), Cardinality(D) <= MaxRecords,
           \A p \in Positions : l[p].index # 0 => l[p].index \in D,
           NEW i \in D, ~IsListed(i, l)
    PROVE  l[MaxRecords].index = 0
<1> SUFFICES ASSUME l[MaxRecords].index # 0 PROVE FALSE
    OBVIOUS
<1>1. MaxRecords \in Positions /\ \A p \in Positions : p <= MaxRecords
    BY RecordIndex DEF Positions
<1>2. \A p \in Positions : l[p].index # 0
    <2> SUFFICES ASSUME NEW p \in Positions PROVE l[p].index # 0 OBVIOUS
    <2>1. p = MaxRecords \/ p < MaxRecords BY <1>1, RecordIndex DEF Positions
    <2>2. QED BY <1>1, <2>1 DEF Ascending
<1> DEFINE f == [p \in Positions |-> l[p].index]
           E == D \ {i}
<1>3. f \in Injection(Positions, E)
    <2>1. \A p \in Positions : l[p].index \in E BY <1>2 DEF IsListed
    <2>2. \A p, q \in Positions : l[p].index = l[q].index => p = q BY <1>2, OneEntry
    <2> HIDE DEF E
    <2>3. f \in [Positions -> E] BY <2>1
    <2>4. \A p, q \in Positions : f[p] = f[q] => p = q BY <2>2
    <2> HIDE DEF f
    <2>5. QED BY <2>3, <2>4 DEF Injection, IsInjective
<1>4. IsFiniteSet(E) /\ Cardinality(E) = Cardinality(D) - 1 BY FS_RemoveElement
<1> HIDE DEF f, E
<1>5. Cardinality(Positions) <= Cardinality(E) BY <1>3, <1>4, FS_Injection
<1>6. Cardinality(Positions) = MaxRecords
    <2>1. MaxRecords \in Nat \ {0} BY RecordIndex
    <2>2. QED BY <2>1, FS_Interval DEF Positions
<1>7. Cardinality(D) \in Nat BY FS_CardinalityType
<1>8. QED BY <1>4, <1>5, <1>6, <1>7, RecordIndex

\* A response leaves the lower indices listed, all of them when its own one is,
\* and it is listed unless the list is full of lower ones.
LEMMA AddKeeps ==
    ASSUME list \in Lists, Ascending(list), NEW rec \in Preset, NEW p \in 0 .. MaxRecords,
           IF Finds(rec.index, 0) THEN Predicts(rec.index, p) ELSE Finds(rec.index, p),
           Add(p, rec)
    PROVE  /\ \A i \in Indices : IsListed(i, list) /\ (i <= rec.index \/ IsListed(rec.index, list))
                   => IsListed(i, list')
           /\ \/ IsListed(rec.index, list')
              \/ \A q \in Positions : list[q].index # 0 /\ list[q].index < rec.index
<1>1. /\ rec.index \in Nat \ {0} /\ MaxRecords \in Positions
      /\ \A q \in Positions : q \in Nat /\ list[q].index \in Nat
    BY RecordIndex DEF Positions, Lists
<1>2. CASE IsListed(rec.index, list)
    <2>1. ~Finds(rec.index, 0) BY <1>1, <1>2 DEF IsListed, Finds
    <2>2. p # 0 /\ Finds(rec.index, p) BY <2>1
    <2>3. p \in Positions BY <2>2, RecordIndex DEF Positions
    <2>4. list[p].index = rec.index BY <2>2 DEF Finds
    <2>5. list' = [list EXCEPT ![p] = rec] BY <2>2, <2>4 DEF Add, AddAt
    <2>6. \A q \in Positions : list'[q].index = list[q].index BY <2>3, <2>4, <2>5 DEF Lists
    <2>7. QED BY <1>2, <2>6 DEF IsListed
<1>3. CASE ~IsListed(rec.index, list)
    <2>1. Finds(rec.index, 0) BY <1>3 DEF IsListed, Finds
    <2>2. Predicts(rec.index, p) BY <2>1
    <2>3. CASE p = 0
        <3>1. list' = list BY <2>3 DEF Add
        <3>2. \A q \in Positions : ~Fits(rec.index, q) BY <2>2, <2>3 DEF Predicts
        <3>3. \A q \in Positions : list[q].index # 0 /\ list[q].index < rec.index
            BY <1>1, <3>2 DEF Fits
        <3>4. QED BY <3>1, <3>3
    <2>4. CASE p # 0
        <3>1. p \in Positions /\ p \in Nat /\ p >= 1 BY <2>4, RecordIndex DEF Positions
        <3>2. list[p].index = 0 \/ list[p].index >= rec.index BY <2>2, <2>4 DEF Predicts, Fits
        <3>3. list[p].index # rec.index BY <1>3, <3>1 DEF IsListed
        <3>4. list'[p] = rec BY <3>1, AddHolds
        <3>5. ASSUME NEW o \in Positions, list[o].index # 0, list[o].index <= rec.index
              PROVE  list'[o] = list[o]
            <4>1. list[o].index < rec.index
                <5>1. list[o].index # rec.index BY <1>3, <3>5 DEF IsListed
                <5>2. QED BY <1>1, <3>5, <5>1
            <4>2. o < p
                <5>1. o # p BY <1>1, <3>1, <3>2, <3>5, <4>1
                <5>2. ~(p < o)
                    <6> SUFFICES ASSUME p < o PROVE FALSE OBVIOUS
                    <6>1. list[p].index # 0 /\ list[p].index < list[o].index
                        BY <3>1, <3>5 DEF Ascending
                    <6>2. QED BY <1>1, <3>1, <3>2, <4>1, <6>1
                <5>3. QED BY <1>1, <3>1, <5>1, <5>2
            <4>3. AddAt(p, rec) BY <2>4 DEF Add
            <4>4. CASE p = MaxRecords
                <5>1. list' = [list EXCEPT ![p] = rec] BY <4>3, <4>4 DEF AddAt
                <5>2. QED BY <1>1, <3>1, <4>2, <5>1 DEF Lists
            <4>5. CASE p # MaxRecords
                <5>1. PICK n \in Positions \union {MaxRecords + 1} :
                        list' =
                          IF n = MaxRecords + 1
                          THEN [x \in Positions |-> IF x < p THEN list[x] ELSE IF x = p THEN rec ELSE Empty]
                          ELSE IF n > p
                          THEN [Deleted(list, p, n - 1) EXCEPT ![p] = rec]
                          ELSE [x \in Positions |-> IF x < p THEN list[x] ELSE IF x = p THEN rec
                                                    ELSE list[x - 1]]
                    BY <3>3, <4>3, <4>5 DEF AddAt
                <5>2. CASE n = MaxRecords + 1 \/ ~(n > p) BY <4>2, <5>1, <5>2
                <5>3. CASE n # MaxRecords + 1 /\ n > p
                    <6> DEFINE d == Deleted(list, p, n - 1)
                    <6>1. list' = [d EXCEPT ![p] = rec] BY <5>1, <5>3
                    <6>2. DOMAIN d = Positions /\ d[o] = list[o]
                        BY <4>2 DEF Deleted, Lists
                    <6> HIDE DEF d
                    <6>3. QED BY <1>1, <3>1, <4>2, <6>1, <6>2
                <5>4. QED BY <5>2, <5>3
            <4>6. QED BY <4>4, <4>5
        <3>6. \A i \in Indices : i # 0 BY PresetsAssumption DEF Indices
        <3>7. IsListed(rec.index, list') BY <3>1, <3>4 DEF IsListed
        <3>8. ASSUME NEW i \in Indices, IsListed(i, list), i <= rec.index PROVE IsListed(i, list')
            <4>1. PICK o \in Positions : list[o].index = i BY <3>8 DEF IsListed
            <4>2. list'[o] = list[o] BY <3>5, <3>6, <3>8, <4>1
            <4>3. QED BY <4>1, <4>2 DEF IsListed
        <3>9. QED BY <1>3, <3>7, <3>8
    <2>5. QED BY <2>3, <2>4
<1>4. QED BY <1>2, <1>3

\* A deletion removes one entry only.
LEMMA DeletedKeeps ==
    ASSUME NEW l \in Lists, NEW p \in Positions, NEW o \in Positions, o # p
    PROVE  IsListed(l[o].index, Deleted(l, p, p))
<1> DEFINE d == Deleted(l, p, p)
<1>1. p \in 1 .. MaxRecords /\ o \in 1 .. MaxRecords BY DEF Positions
<1>2. d = [q \in Positions |-> IF q < p THEN l[q]
                               ELSE IF q + (p - p + 1) <= MaxRecords THEN l[q + (p - p + 1)]
                               ELSE Empty]
    BY <1>1, RecordIndex DEF Deleted
<1> HIDE DEF d
<1>3. CASE o < p
    <2>1. d[o] = l[o] BY <1>2, <1>3
    <2>2. IsListed(l[o].index, d) BY <2>1 DEF IsListed
    <2>3. QED BY <2>2 DEF d
<1>4. CASE ~(o < p)
    <2> DEFINE u == o - 1
    <2>1. u \in Positions /\ ~(u < p) /\ u + (p - p + 1) = o /\ o <= MaxRecords
        BY <1>1, <1>4, RecordIndex DEF Positions
    <2> HIDE DEF u
    <2>2. d[u] = l[u + (p - p + 1)] BY <1>2, <2>1
    <2>3. u \in Positions /\ d[u].index = l[o].index BY <2>1, <2>2
    <2>4. IsListed(l[o].index, d) BY <2>3 DEF IsListed
    <2>5. QED BY <2>4 DEF d
<1>5. QED BY <1>3, <1>4

\* The head is received: what is said of the indications that follow it.
LEMMA TailRead ==
    ASSUME ListInv, Alive, Gone, Received, presets' = presets
    PROVE  /\ \A k \in 1 .. Len(ind') :
                 ind'[k].t \in {"RESPONSE", "UPDATE"} =>
                     ind'[k].rec.index \in Due(After(k, ind'), presets')
           /\ Gone'
<1>1. ind \in Seq(Indication) /\ ind # << >> /\ ind' = Tail(ind)
    BY DEF ListInv, TypeOK, Received
<1>2. \A k \in 1 .. Len(ind') : k + 1 \in 1 .. Len(ind) /\ ind'[k] = ind[k + 1]
                                /\ After(k, ind') = After(k + 1, ind)
    <2>1. Len(ind) \in Nat /\ Len(ind') = Len(ind) - 1 BY <1>1, AfterTail
    <2>2. \A k \in 1 .. Len(ind') : k \in 0 .. Len(ind') BY <2>1
    <2>3. QED BY <1>1, <2>2, AfterTail
<1>3. QED BY <1>2 DEF Alive, Gone

\* What was covered stays covered when the head is received.
LEMMA CoveredTail ==
    ASSUME ListInv, Received,
           Head(ind).t = "UPDATE" \/ (upto' \in Nat /\ upto' >= upto),
           Head(ind).t = "RESPONSE" => upto' >= Head(ind).upto,
           NEW k \in 1 .. Len(ind), NEW i \in Nat, Covered(i, k, ind, upto)
    PROVE  Covered(i, k - 1, ind', upto')
<1>1. /\ ind \in Seq(Indication) /\ ind # << >> /\ ind' = Tail(ind) /\ upto \in Nat
      /\ Head(ind) \in Indication
    BY PresetsAssumption, Heads DEF ListInv, TypeOK, Received
<1>2. /\ Len(ind) \in Nat /\ Len(ind') = Len(ind) - 1 /\ Head(ind) = ind[1]
      /\ \A l \in 1 .. Len(ind') : ind'[l] = ind[l + 1]
    BY <1>1, AfterTail
<1>3. \A l \in 1 .. k - 1 : l \in 1 .. Len(ind') /\ ind'[l] = ind[l + 1] /\ l + 1 \in 1 .. k BY <1>2
<1>4. ASSUME NEW j \in 2 .. k, NoUpdate(j, k, ind) PROVE NoUpdate(j - 1, k - 1, ind')
    <2>1. \A l \in j - 1 .. k - 1 : l \in 1 .. k - 1 /\ l + 1 \in j .. k OBVIOUS
    <2>2. QED BY <1>3, <1>4, <2>1 DEF NoUpdate
<1>5. ASSUME NoUpdate(1, k, ind) PROVE Head(ind).t # "UPDATE" /\ NoUpdate(1, k - 1, ind')
    <2>1. 1 \in 1 .. k OBVIOUS
    <2>2. QED BY <1>2, <1>3, <1>5, <2>1 DEF NoUpdate
<1>6. CASE upto >= i /\ NoUpdate(1, k, ind)
    <2>1. upto' >= i BY <1>1, <1>5, <1>6
    <2>2. QED BY <1>5, <1>6, <2>1 DEF Covered
<1>7. ASSUME NEW j \in 1 .. k, ind[j].t = "RESPONSE", ind[j].upto >= i, NoUpdate(j, k, ind)
      PROVE  Covered(i, k - 1, ind', upto')
    <2>1. CASE j = 1
        <3>1. Head(ind).t = "RESPONSE" /\ Head(ind).upto >= i /\ NoUpdate(1, k, ind)
            BY <1>2, <1>7, <2>1
        <3>2. upto' \in Nat /\ Head(ind).upto \in Nat BY <3>1, PresetsAssumption, Heads DEF ListInv
        <3>3. upto' >= i BY <3>1, <3>2
        <3>4. QED BY <1>5, <3>1, <3>3 DEF Covered
    <2>2. CASE j # 1
        <3> DEFINE h == j - 1
        <3>1. h \in 1 .. k - 1 /\ h + 1 = j /\ j \in 2 .. k BY <2>2
        <3>2. NoUpdate(h, k - 1, ind') BY <1>4, <1>7, <3>1
        <3> HIDE DEF h
        <3>3. ind'[h] = ind[j] BY <1>3, <3>1
        <3>4. QED BY <1>7, <3>1, <3>2, <3>3 DEF Covered
    <2>3. QED BY <2>1, <2>2
<1>8. QED BY <1>6, <1>7 DEF Covered

\* The head is received: the responses that follow cover what they claim, and
\* so do those of the reading that is being answered.
LEMMA TailTelling ==
    ASSUME ListInv, Telling, Underway, Received, presets' = presets, reading' = reading,
           Head(ind).t = "UPDATE" \/ (upto' \in Nat /\ upto' >= upto),
           Head(ind).t = "RESPONSE" => upto' >= Head(ind).upto
    PROVE  Telling' /\ Underway'
<1>1. ind \in Seq(Indication) /\ ind # << >> /\ ind' = Tail(ind) /\ presets \subseteq Preset
    BY DEF ListInv, TypeOK, Received
<1>2. /\ Len(ind) \in Nat /\ Len(ind) >= 1 /\ Len(ind') = Len(ind) - 1
      /\ \A k \in 1 .. Len(ind') : k + 1 \in 1 .. Len(ind) /\ ind'[k] = ind[k + 1]
      /\ \A k \in 0 .. Len(ind') : After(k, ind') = After(k + 1, ind)
    BY <1>1, AfterTail
<1>3. ASSUME NEW k \in 1 .. Len(ind'), ind'[k].t = "RESPONSE", ind'[k].upto # 0,
             ~Updated(After(k, ind'))
      PROVE  WellTold(ind'[k], Due(After(k, ind'), presets'), k - 1, ind', upto')
    <2> DEFINE n == k + 1
               D == Due(After(n, ind), presets)
    <2>1. /\ n \in 1 .. Len(ind) /\ n - 1 = k /\ k \in 1 .. Len(ind)
          /\ ind'[k] = ind[n] /\ After(k, ind') = After(n, ind)
        <3>1. k \in 0 .. Len(ind') BY <1>2
        <3>2. QED BY <1>2, <3>1
    <2>2. WellTold(ind[n], D, n - 1, ind, upto) BY <1>3, <2>1 DEF Telling
    <2>3. D \subseteq Indices BY DueFinite
    <2>4. D \subseteq Nat BY <2>3, PresetsAssumption DEF Indices
    <2>5. ASSUME NEW i \in D, Covered(i, k, ind, upto) PROVE Covered(i, k - 1, ind', upto')
        <3>1. i \in Nat BY <2>4
        <3>2. QED BY <2>1, <2>5, <3>1, CoveredTail
    <2>6. Due(After(k, ind'), presets') = D BY <2>1
    <2> HIDE DEF n, D
    <2>7. QED BY <2>1, <2>2, <2>5, <2>6 DEF WellTold
<1>4. Telling' BY <1>3 DEF Telling
<1>5. Underway'
    <2>1. Len(ind) \in 1 .. Len(ind) /\ Len(ind') = Len(ind) - 1 BY <1>2
    <2>2. \A i \in Idx(presets) : i \in Nat BY <1>1, RecordIndex DEF Idx
    <2>3. \A i \in Idx(presets) : Covered(i, Len(ind), ind, upto) => Covered(i, Len(ind'), ind', upto')
        BY <2>1, <2>2, CoveredTail
    <2>4. QED BY <2>3 DEF Underway
<1>6. QED BY <1>4, <1>5

\* A response that covers what it claims leaves what is told listed.
LEMMA ResponseKeeps ==
    ASSUME ListInv, Alive, Telling, Complete, ReadResponse,
           ~Updated(After(1, ind)), NEW i \in Due(After(1, ind), presets), i <= upto'
    PROVE  IsListed(i, list')
<1> DEFINE D == Due(After(1, ind), presets)
           rec == Head(ind).rec
           r == rec.index
<1>1. /\ ind \in Seq(Indication) /\ ind # << >> /\ list \in Lists /\ Ascending(list)
      /\ Received /\ Head(ind).t = "RESPONSE" /\ upto \in Nat
    BY PresetsAssumption DEF ReadResponse, ListInv, TypeOK, Received, Lists, Sorted, Ascending
<1>2. rec \in Preset /\ r \in Nat \ {0} /\ Head(ind).upto \in Nat
    BY <1>1, Heads, RecordIndex, PresetsAssumption DEF ListInv
<1>3. /\ Len(ind) \in Nat /\ Len(ind) >= 1 /\ Head(ind) = ind[1] /\ 1 \in 1 .. Len(ind)
      /\ After(0, ind) = After(1, ind) \union {Head(ind)}
    BY <1>1, AfterTail
<1>4. Due(After(0, ind), presets) = D /\ ~Updated(After(0, ind)) BY <1>1, <1>3 DEF Due, Updated
<1>5. D \subseteq Indices /\ IsFiniteSet(D) BY DueFinite
<1>6. i \in Indices /\ i \in Nat \ {0} BY <1>5, PresetsAssumption DEF Indices
<1>7. r \in D BY <1>1, <1>3 DEF Alive
<1>8. \A p \in Positions : list[p].index # 0 => list[p].index \in D BY <1>4 DEF Alive
<1>9. \A j \in D : j <= upto => IsListed(j, list) BY <1>4 DEF Complete
<1>10. PICK p \in 0 .. MaxRecords :
          /\ IF Finds(rec.index, 0) THEN Predicts(rec.index, p) ELSE Finds(rec.index, p)
          /\ Add(p, rec)
    BY DEF ReadResponse
<1>11. upto' = IF Head(ind).upto > upto THEN Head(ind).upto ELSE upto BY DEF ReadResponse
<1>12. i \in D OBVIOUS
<1> HIDE DEF D, rec
<1>13. /\ \A j \in Indices : IsListed(j, list) /\ (j <= r \/ IsListed(r, list)) => IsListed(j, list')
       /\ IsListed(r, list') \/ \A q \in Positions : list[q].index # 0 /\ list[q].index < r
    BY <1>1, <1>2, <1>10, AddKeeps
<1> HIDE DEF r
<1>14. CASE i <= upto
    <2>1. IsListed(i, list) BY <1>9, <1>12, <1>14
    <2>2. CASE i <= r BY <1>6, <1>13, <2>1, <2>2
    <2>3. CASE r <= upto
        <3>1. IsListed(r, list) BY <1>7, <1>9, <2>3
        <3>2. QED BY <1>6, <1>13, <2>1, <3>1
    <2>4. QED BY <1>1, <1>2, <1>6, <1>14, <2>2, <2>3
<1>15. CASE ~(i <= upto)
    <2>1. i <= Head(ind).upto /\ Head(ind).upto # 0 BY <1>1, <1>2, <1>6, <1>11, <1>15
    <2>2. WellTold(Head(ind), D, 1 - 1, ind, upto) BY <1>1, <1>3, <2>1 DEF Telling, D
    <2>3. i <= r BY <1>12, <2>1, <2>2 DEF WellTold, r, rec
    <2>4. ~Covered(i, 1 - 1, ind, upto) BY <1>15 DEF Covered
    <2>5. i = r
        <3>1. i < r => Covered(i, 1 - 1, ind, upto) BY <1>12, <2>2 DEF WellTold, r, rec
        <3>2. QED BY <1>2, <1>6, <2>3, <2>4, <3>1
    <2>6. SUFFICES ASSUME ~IsListed(r, list'),
                          \A q \in Positions : list[q].index # 0 /\ list[q].index < r
                   PROVE  FALSE
        BY <1>13, <2>5
    <2> DEFINE T == To(r, D)
    <2>7. Cardinality(T) <= MaxRecords BY <2>2 DEF WellTold, r, rec
    <2>8. T \subseteq D /\ r \in T BY <1>2, <1>7 DEF To
    <2>9. \A q \in Positions : list[q].index \in Nat BY RecordIndex, <1>1 DEF Lists
    <2>10. \A q \in Positions : list[q].index \in T
        BY <1>2, <1>8, <2>6, <2>9 DEF To
    <2> HIDE DEF T
    <2>11. IsFiniteSet(T) BY <1>5, <2>8, FS_Subset
    <2>12. ~IsListed(r, list) BY <1>2, <2>6, <2>9 DEF IsListed
    <2>13. list[MaxRecords].index = 0 BY <1>1, <2>7, <2>8, <2>10, <2>11, <2>12, Room
    <2>14. MaxRecords \in Positions BY RecordIndex DEF Positions
    <2>15. QED BY <2>6, <2>13, <2>14
<1>16. QED BY <1>14, <1>15

\* The indications keep a reading on its way to complete the list.
LEMMA ReceiveRead ==
    ASSUME ListInv, ListInv', Alive, Gone, Telling, Underway, Complete,
           ReadResponse \/ GenericUpdate \/ RecordDeleted \/ RecordAvailable \/ ActivePresetIndex
    PROVE  Alive' /\ Gone' /\ Telling' /\ Underway' /\ Complete'
<1> DEFINE D == Due(After(1, ind), presets)
<1>1. Received /\ presets' = presets /\ reading' = reading
    BY DEF ReadResponse, GenericUpdate, RecordDeleted, RecordAvailable, ActivePresetIndex
<1>2. /\ ind \in Seq(Indication) /\ ind # << >> /\ ind' = Tail(ind)
      /\ list \in Lists /\ Ascending(list) /\ list' \in Lists
    BY <1>1 DEF ListInv, TypeOK, Received, Lists, Sorted, Ascending
<1>3. /\ Len(ind) \in Nat /\ Len(ind) >= 1 /\ Head(ind) = ind[1] /\ 1 \in 1 .. Len(ind)
      /\ After(0, ind) = After(1, ind) \union {Head(ind)}
      /\ After(0, ind') = After(1, ind)
    <2>1. Len(ind) \in Nat /\ Len(ind) >= 1 /\ Len(ind') = Len(ind) - 1 BY <1>2, AfterTail
    <2>2. 0 \in 0 .. Len(ind') /\ 1 \in 1 .. Len(ind) BY <2>1
    <2>3. After(0, ind') = After(0 + 1, ind) BY <1>2, <2>2, AfterTail
    <2>4. QED BY <1>2, <2>1, <2>2, <2>3, AfterTail
<1>4. /\ Gone'
      /\ \A k \in 1 .. Len(ind') : ind'[k].t \in {"RESPONSE", "UPDATE"} =>
            ind'[k].rec.index \in Due(After(k, ind'), presets')
    BY <1>1, TailRead
<1>5. Due(After(0, ind'), presets') = D BY <1>1, <1>3
<1>6. ASSUME \A p \in Positions : list'[p].index # 0 => list'[p].index \in D PROVE Alive'
    BY <1>4, <1>5, <1>6 DEF Alive
<1>7. Head(ind).t # "DELETED" => Due(After(0, ind), presets) = D BY <1>3 DEF Due
<1>8. Head(ind).t # "UPDATE" => (Updated(After(0, ind)) <=> Updated(After(1, ind)))
    BY <1>3 DEF Updated
<1>9. upto \in Nat /\ upto' \in Nat BY PresetsAssumption DEF ListInv, TypeOK
<1>10. /\ Head(ind).t = "UPDATE" \/ upto' >= upto
       /\ Head(ind).t = "RESPONSE" => upto' >= Head(ind).upto
    <2>1. CASE ReadResponse
        <3>1. Head(ind).upto \in Nat BY <1>1, <2>1, Heads, PresetsAssumption DEF ReadResponse, ListInv
        <3>2. Head(ind).t = "RESPONSE" /\ upto' = IF Head(ind).upto > upto THEN Head(ind).upto ELSE upto
            BY <2>1 DEF ReadResponse
        <3>3. QED BY <1>9, <3>1, <3>2
    <2>2. CASE GenericUpdate BY <2>2 DEF GenericUpdate
    <2>3. CASE RecordDeleted \/ RecordAvailable \/ ActivePresetIndex
        <3>1. upto' = upto /\ Head(ind).t # "RESPONSE"
            BY <2>3 DEF RecordDeleted, RecordAvailable, ActivePresetIndex
        <3>2. QED BY <1>9, <3>1
    <2>4. QED BY <2>1, <2>2, <2>3
<1>10a. Telling' /\ Underway' BY <1>1, <1>9, <1>10, TailTelling
<1>11. D \subseteq Indices BY DueFinite
<1>12. ASSUME NEW p \in 0 .. MaxRecords, Add(p, Head(ind).rec), Head(ind).t \in {"RESPONSE", "UPDATE"}
       PROVE  Alive'
    <2> DEFINE rec == Head(ind).rec
    <2>1. rec \in Preset BY <1>1, <1>12, Heads DEF ListInv
    <2>2. rec.index \in D BY <1>3, <1>12 DEF Alive
    <2>3. \A o \in Positions : list[o].index # 0 => list[o].index \in D
        BY <1>7, <1>12 DEF Alive
    <2>4. CASE p = 0
        <3>1. list' = list BY <1>12, <2>4 DEF Add
        <3>2. QED BY <1>6, <2>3, <3>1
    <2>5. CASE p # 0
        <3>1. p \in Positions BY <2>5, RecordIndex DEF Positions
        <3>2. \A q \in Positions :
                 list'[q] = Empty \/ list'[q] = rec \/ \E o \in Positions : list'[q] = list[o]
            BY <1>2, <1>12, <2>1, <3>1, AddHolds
        <3> HIDE DEF D, rec
        <3>3. \A q \in Positions : list'[q].index # 0 => list'[q].index \in D
            BY <2>2, <2>3, <3>2, RecordIndex
        <3>4. QED BY <1>6, <3>3
    <2>6. QED BY <2>4, <2>5
<1>13. CASE ReadResponse
    <2>1. Head(ind).t = "RESPONSE" BY <1>13 DEF ReadResponse
    <2>2. PICK p \in 0 .. MaxRecords : Add(p, Head(ind).rec) BY <1>13 DEF ReadResponse
    <2>3. Alive' BY <1>12, <2>1, <2>2
    <2>4. ASSUME ~Updated(After(1, ind)), NEW i \in D, i <= upto' PROVE IsListed(i, list')
        BY <1>13, <2>4, ResponseKeeps
    <2>5. Complete' BY <1>3, <1>5, <2>4 DEF Complete
    <2>6. QED BY <1>4, <1>10a, <2>3, <2>5
<1>14. CASE GenericUpdate
    <2>1. Head(ind).t = "UPDATE" /\ upto' = 0 BY <1>14 DEF GenericUpdate
    <2>2. PICK p \in 0 .. MaxRecords : Add(p, Head(ind).rec) BY <1>14 DEF GenericUpdate
    <2>3. Alive' BY <1>12, <2>1, <2>2
    <2>4. \A i \in D : ~(i <= 0) BY <1>11, PresetsAssumption DEF Indices
    <2>5. Complete' BY <1>5, <2>1, <2>4 DEF Complete
    <2>6. QED BY <1>4, <1>10a, <2>3, <2>5
<1>15. CASE RecordDeleted
    <2>1. Head(ind).t = "DELETED" /\ upto' = upto BY <1>15 DEF RecordDeleted
    <2>2. PICK p \in 0 .. MaxRecords : Finds(Head(ind).index, p) /\ list' = Deleted(list, p, p)
        BY <1>15 DEF RecordDeleted
    <2>3. ASSUME NEW i \in Due(After(0, ind), presets), i # Head(ind).index PROVE i \in D
        BY <1>3, <2>1, <2>3 DEF Due
    <2>4. Telling' /\ Underway' BY <1>10a
    <2>5. CASE p = 0
        <3>1. list' = list BY <2>2, <2>5 DEF Deleted
        <3>2. \A q \in Positions : list[q].index # 0 => list[q].index # Head(ind).index
            BY <2>2, <2>5 DEF Finds
        <3>3. Alive' BY <1>6, <2>3, <3>1, <3>2 DEF Alive
        <3>4. ASSUME ~Updated(After(1, ind)), NEW i \in D, i <= upto PROVE IsListed(i, list)
            <4>1. ~Updated(After(0, ind)) BY <1>8, <2>1, <3>4
            <4>2. D \subseteq Due(After(0, ind), presets) BY <1>3 DEF Due
            <4>3. QED BY <3>4, <4>1, <4>2 DEF Complete
        <3>5. Complete' BY <1>3, <1>5, <2>1, <3>1, <3>4 DEF Complete
        <3>6. QED BY <1>4, <2>4, <3>3, <3>5
    <2>6. CASE p # 0
        <3>1. p \in Positions /\ p \in 1 .. MaxRecords /\ p \in p .. MaxRecords
            BY <2>6, RecordIndex DEF Positions
        <3>2. list[p].index = Head(ind).index /\ Head(ind).index # 0
            BY <2>2, <2>6 DEF Finds
        <3>3. \A o \in Positions : o # p => list[o].index # Head(ind).index
            BY <1>2, <3>1, <3>2, OneEntry
        <3>4. ASSUME NEW q \in Positions, list'[q].index # 0 PROVE list'[q].index \in D
            <4>1. list'[q] # Empty BY <3>4, RecordIndex
            <4>2. PICK o \in Positions : list'[q] = list[o] /\ o \notin p .. p
                BY <1>2, <2>2, <3>1, <4>1, DeletedHolds
            <4>3. o # p BY <3>1, <4>2
            <4>4. list[o].index # Head(ind).index BY <3>3, <4>3
            <4>5. list[o].index \in Due(After(0, ind), presets) BY <3>4, <4>2 DEF Alive
            <4>6. QED BY <2>3, <4>2, <4>4, <4>5
        <3>5. Alive' BY <1>6, <3>4
        <3>6. ASSUME ~Updated(After(1, ind)), NEW i \in D, i <= upto PROVE IsListed(i, list')
            <4>1. ~Updated(After(0, ind)) BY <1>8, <2>1, <3>6
            <4>2. D \subseteq Due(After(0, ind), presets) BY <1>3 DEF Due
            <4>3. IsListed(i, list) BY <3>6, <4>1, <4>2 DEF Complete
            <4>4. i # Head(ind).index BY <1>3, <2>1, <3>6 DEF Gone
            <4>5. PICK o \in Positions : list[o].index = i BY <4>3 DEF IsListed
            <4>6. o # p BY <3>2, <4>4, <4>5
            <4>7. QED BY <1>2, <2>2, <3>1, <4>5, <4>6, DeletedKeeps
        <3>7. Complete' BY <1>3, <1>5, <2>1, <3>6 DEF Complete
        <3>8. QED BY <1>4, <2>4, <3>5, <3>7
    <2>7. QED BY <2>5, <2>6
<1>16. CASE RecordAvailable \/ ActivePresetIndex
    <2>1. Head(ind).t \in {"AVAILABLE", "UNAVAILABLE", "ACTIVE"} /\ upto' = upto
        BY <1>16 DEF RecordAvailable, ActivePresetIndex
    <2>2. \A q \in Positions : list'[q].index = list[q].index
        <3>1. CASE list' = list BY <3>1
        <3>2. ASSUME NEW p \in Positions, NEW v, list' = [list EXCEPT ![p].available = v]
              PROVE  \A q \in Positions : list'[q].index = list[q].index
            BY <1>2, <3>2 DEF Lists, Record
        <3>3. list' = list \/ \E p \in Positions, v \in BOOLEAN : list' = [list EXCEPT ![p].available = v]
            <4>1. CASE ActivePresetIndex BY <4>1 DEF ActivePresetIndex
            <4>2. CASE RecordAvailable
                <5>1. PICK p \in 0 .. MaxRecords :
                         list' = IF p = 0 THEN list
                                 ELSE [list EXCEPT ![p].available = (Head(ind).t = "AVAILABLE")]
                    BY <4>2 DEF RecordAvailable
                <5>2. p # 0 => p \in Positions BY RecordIndex DEF Positions
                <5>3. QED BY <5>1, <5>2
            <4>3. QED BY <1>16, <4>1, <4>2
        <3>4. QED BY <3>1, <3>2, <3>3
    <2>3. Alive' BY <1>6, <1>7, <2>1, <2>2 DEF Alive
    <2>4. Telling' /\ Underway' BY <1>10a
    <2>5. \A i : IsListed(i, list) => IsListed(i, list') BY <2>2 DEF IsListed
    <2>6. ASSUME ~Updated(After(1, ind)), NEW i \in D, i <= upto PROVE IsListed(i, list')
        BY <1>7, <1>8, <2>1, <2>5, <2>6 DEF Complete
    <2>7. Complete' BY <1>3, <1>5, <2>1, <2>6 DEF Complete
    <2>8. QED BY <1>4, <2>3, <2>4, <2>7
<1>17. QED BY <1>13, <1>14, <1>15, <1>16

\* What is covered stays covered when another indication than an update is sent.
LEMMA CoveredMore ==
    ASSUME ind \in Seq(Indication), upto' = upto, NEW i, Covered(i, Len(ind), ind, upto),
           ind' = ind \/ \E x \in Indication : x.t # "UPDATE" /\ ind' = Append(ind, x)
    PROVE  Covered(i, Len(ind'), ind', upto')
<1>1. CASE ind' = ind BY <1>1
<1>2. ASSUME NEW x \in Indication, x.t # "UPDATE", ind' = Append(ind, x)
      PROVE  Covered(i, Len(ind'), ind', upto')
    <2> DEFINE m == Len(ind)
               n == Len(ind')
    <2>1. /\ m \in Nat /\ n = m + 1 /\ ind'[n] = x
          /\ \A l \in 1 .. m : ind'[l] = ind[l]
        BY <1>2, AppendProperties, LenProperties
    <2> HIDE DEF n
    <2>2. ASSUME NEW j \in Nat \ {0}, NoUpdate(j, m, ind) PROVE NoUpdate(j, n, ind')
        <3>1. \A l \in j .. n : l = n \/ (l \in j .. m /\ l \in 1 .. m) BY <2>1
        <3>2. QED BY <1>2, <2>1, <2>2, <3>1 DEF NoUpdate
    <2>3. \A j \in 1 .. m : j \in 1 .. n /\ j \in Nat \ {0} BY <2>1
    <2>4. 1 \in Nat \ {0} OBVIOUS
    <2>5. Covered(i, m, ind, upto) OBVIOUS
    <2> HIDE DEF m
    <2>6. Covered(i, n, ind', upto') BY <2>1, <2>2, <2>3, <2>4, <2>5 DEF Covered
    <2>7. QED BY <2>6 DEF n
<1>3. QED BY <1>1, <1>2

\* A response covers what it claims from then on.
LEMMA UnderwayResponds ==
    ASSUME ListInv, ListInv', Underway, NEW r \in presets, NextToTell(r), reading.left > 0,
           UNCHANGED <<presets, upto>>,
           ind' = Append(ind, [t |-> "RESPONSE", rec |-> r, upto |-> Told(r)]),
           reading' = [reading EXCEPT !.next = r.index + 1, !.left = reading.left - 1]
    PROVE  Underway'
<1> DEFINE x == [t |-> "RESPONSE", rec |-> r, upto |-> Told(r)]
           n == reading.next
           D == Idx(presets)
<1>1. /\ r \in Preset /\ presets \subseteq Preset /\ ind \in Seq(Indication) /\ r.index \in Nat
      /\ reading \in [next : Nat, left : 0 .. MaxRecords, calm : BOOLEAN]
    BY RecordIndex DEF ListInv, TypeOK
<1>2. reading'.calm = reading.calm /\ reading'.next = r.index + 1 /\ reading'.left = reading.left - 1
    BY <1>1
<1> SUFFICES ASSUME reading'.calm
             PROVE  /\ \A i \in Idx(presets') : i < reading'.next => Covered(i, Len(ind'), ind', upto')
                    /\ Cardinality(To(reading'.next - 1, Idx(presets'))) + reading'.left <= MaxRecords
    BY DEF Underway
<1>3. x \in Indication /\ x.t = "RESPONSE" /\ x.rec = r /\ x.upto = Told(r)
    BY <1>1, ToldType, Indications
<1>4. ind' = Append(ind, x) OBVIOUS
<1> HIDE DEF x
<1>5. Told(r) \in Nat /\ Told(r) >= r.index BY <1>2, ToldType
<1>6. /\ Len(ind) \in Nat /\ Len(ind') = Len(ind) + 1 /\ ind'[Len(ind')] = x
    BY <1>1, <1>3, <1>4, AppendProperties, LenProperties
<1>7. ASSUME NEW i \in D, i < r.index + 1 PROVE Covered(i, Len(ind'), ind', upto')
    <2>1. i \in Nat BY <1>1, RecordIndex DEF Idx
    <2>2. x.upto >= i BY <1>1, <1>3, <1>5, <1>7, <2>1
    <2> DEFINE k == Len(ind')
    <2>3. k \in 1 .. k /\ \A l \in k .. k : l = k BY <1>6
    <2>4. ind'[k] = x BY <1>6
    <2> HIDE DEF k
    <2>5. NoUpdate(k, k, ind') BY <1>3, <2>3, <2>4 DEF NoUpdate
    <2>6. Covered(i, k, ind', upto') BY <1>3, <2>2, <2>3, <2>4, <2>5 DEF Covered
    <2>7. QED BY <2>6 DEF k
<1>8. Cardinality(To(r.index, D)) + (reading.left - 1) <= MaxRecords
    <2>1. \A i \in D : i \in Nat /\ (i >= n => r.index <= i) BY <1>1, RecordIndex DEF Idx, NextToTell
    <2>2. r.index \in D /\ r.index >= n BY DEF Idx, NextToTell
    <2>3. \A i \in D : i <= r.index <=> i <= n - 1 \/ i = r.index BY <1>1, <2>1, <2>2
    <2>4. ~(r.index <= n - 1) BY <1>1, <2>2
    <2>5. Cardinality(To(n - 1, D)) + reading.left <= MaxRecords BY <1>2 DEF Underway
    <2>6. IsFiniteSet(D) BY <1>1, IdxFinite
    <2> HIDE DEF D, n
    <2>7. To(r.index, D) = To(n - 1, D) \union {r.index} /\ r.index \notin To(n - 1, D)
        BY <2>2, <2>3, <2>4 DEF To
    <2>8. To(n - 1, D) \subseteq D BY DEF To
    <2>9. IsFiniteSet(To(n - 1, D)) /\ Cardinality(To(n - 1, D)) \in Nat
        BY <2>6, <2>8, FS_Subset, FS_CardinalityType
    <2>10. Cardinality(To(r.index, D)) = Cardinality(To(n - 1, D)) + 1
        BY <2>7, <2>9, FS_AddElement
    <2>11. QED BY <1>1, <2>5, <2>9, <2>10, RecordIndex
<1>10. Idx(presets') = D OBVIOUS
<1> HIDE DEF D
<1>11. \A i \in Idx(presets') : i < reading'.next => Covered(i, Len(ind'), ind', upto')
    BY <1>2, <1>7, <1>10
<1>12. To(reading'.next - 1, Idx(presets')) = To(r.index, D)
    <2>1. reading'.next = r.index + 1 BY <1>2
    <2>1a. r.index \in Nat BY <1>1
    <2>1b. reading'.next - 1 = r.index BY <2>1, <2>1a
    <2>2. QED BY <1>10, <2>1b
<1>13. Cardinality(To(reading'.next - 1, Idx(presets'))) + reading'.left <= MaxRecords
    <2>1. reading'.left = reading.left - 1 BY <1>2
    <2>2. QED BY <1>8, <1>12, <2>1
<1>14. QED BY <1>11, <1>13

\* A step of the hearing aid that sends no update and adds no preset.
LEMMA UnderwayStays ==
    ASSUME ListInv, ListInv', Underway, Idx(presets') \subseteq Idx(presets), upto' = upto,
           reading'.next = reading.next, reading'.left <= reading.left, reading'.calm = reading.calm,
           ind' = ind \/ \E x \in Indication : x.t # "UPDATE" /\ ind' = Append(ind, x)
    PROVE  Underway'
<1> SUFFICES ASSUME reading'.calm
             PROVE  /\ \A i \in Idx(presets') : i < reading'.next => Covered(i, Len(ind'), ind', upto')
                    /\ Cardinality(To(reading'.next - 1, Idx(presets'))) + reading'.left <= MaxRecords
    BY DEF Underway
<1>1. \A i : Covered(i, Len(ind), ind, upto) => Covered(i, Len(ind'), ind', upto')
    BY CoveredMore DEF ListInv, TypeOK
<1>2. \A i \in Idx(presets') : i < reading'.next => Covered(i, Len(ind'), ind', upto')
    BY <1>1 DEF Underway
<1> DEFINE A == To(reading.next - 1, Idx(presets))
           B == To(reading.next - 1, Idx(presets'))
<1>3. B \subseteq A /\ A \subseteq Idx(presets) BY DEF To
<1>4. IsFiniteSet(Idx(presets)) BY IdxFinite DEF ListInv, TypeOK
<1> HIDE DEF A, B
<1>5. Cardinality(B) <= Cardinality(A) /\ Cardinality(A) \in Nat /\ Cardinality(B) \in Nat
    BY <1>3, <1>4, FS_Subset, FS_CardinalityType
<1>6. Cardinality(A) + reading.left <= MaxRecords BY DEF Underway, A
<1>7. reading.left \in Nat /\ reading'.left \in Nat BY PresetsAssumption DEF ListInv, TypeOK
<1>8. Cardinality(B) + reading'.left <= MaxRecords BY <1>5, <1>6, <1>7, RecordIndex
<1>9. QED BY <1>2, <1>8 DEF B

\* The steps of the hearing aid keep the reading that it answers.
LEMMA UnderwayKept ==
    ASSUME ListInv, ListInv', Unique, Underway,
           \/ Serve \/ Respond
           \/ \E i \in Indices : UserAdds(i)
           \/ \E r \in presets : UserRemoves(r) \/ UserToggles(r)
           \/ \E i \in Usable : UserChooses(i)
    PROVE  Underway'
<1>1. /\ presets \subseteq Preset /\ ind \in Seq(Indication)
      /\ reading \in [next : Nat, left : 0 .. MaxRecords, calm : BOOLEAN]
    BY DEF ListInv, TypeOK
<1>2. ASSUME UNCHANGED <<presets, reading, ind, upto>> PROVE Underway'
    BY <1>2 DEF Underway
<1>3. ASSUME NEW n, Updates(n) PROVE Underway'
    <2>1. ~reading'.calm BY <1>1, <1>3 DEF Updates
    <2>2. QED BY <2>1 DEF Underway
<1>4. ASSUME NEW i \in 0 .. MaxIndex, NEW k \in {"DELETED", "AVAILABLE", "UNAVAILABLE", "ACTIVE"},
             ind' = Append(ind, [t |-> k, index |-> i]), Idx(presets') \subseteq Idx(presets),
             UNCHANGED <<reading, upto>>
      PROVE  Underway'
    <2> DEFINE x == [t |-> k, index |-> i]
    <2>1. x \in Indication /\ x.t = k BY Indications
    <2>2. ind' = Append(ind, x) BY <1>4
    <2> HIDE DEF x
    <2>3. x.t # "UPDATE" BY <2>1
    <2>4. reading'.left <= reading.left BY <1>1, <1>4
    <2>5. QED BY <1>4, <2>1, <2>2, <2>3, <2>4, UnderwayStays
<1>5. CASE Serve
    <2>1. CASE Head(req).op = "READ"
        <3>1. /\ reading' = [next |-> 1, left |-> MaxRecords, calm |-> TRUE]
              /\ UNCHANGED <<presets, ind, upto>>
            BY <1>5, <2>1 DEF Serve
        <3>2. \A i \in Idx(presets) : i \in Nat \ {0} BY <1>1, RecordIndex DEF Idx
        <3>3. To(reading'.next - 1, Idx(presets')) = {} /\ \A i \in Idx(presets') : ~(i < reading'.next)
            <4>1. reading'.next = 1 /\ Idx(presets') = Idx(presets) BY <3>1
            <4>2. \A i \in Idx(presets) : ~(i < 1) /\ ~(i <= 1 - 1) BY <3>2
            <4>3. To(1 - 1, Idx(presets)) = {} BY <4>2 DEF To
            <4>4. QED BY <4>1, <4>2, <4>3
        <3>4. Cardinality({}) = 0 BY FS_EmptySet
        <3>5. reading'.left = MaxRecords BY <3>1
        <3>6. SUFFICES Cardinality(To(reading'.next - 1, Idx(presets'))) + reading'.left <= MaxRecords
            BY <3>3 DEF Underway
        <3>7. QED BY <3>3, <3>4, <3>5, RecordIndex
    <2>2. CASE Head(req).op \in {"SET", "NEXT", "PREVIOUS"}
        <3>1. UNCHANGED <<presets, reading, upto>> BY <1>5, <2>2 DEF Serve
        <3>2. PICK i \in 0 .. MaxIndex :
                 ind' = IF i = active THEN ind ELSE Append(ind, [t |-> "ACTIVE", index |-> i])
            BY <1>5, <2>2 DEF Serve
        <3>3. CASE i = active BY <1>2, <3>1, <3>2, <3>3
        <3>4. CASE i # active
            <4>1. ind' = Append(ind, [t |-> "ACTIVE", index |-> i]) BY <3>2, <3>4
            <4>2. QED BY <1>4, <3>1, <4>1
        <3>5. QED BY <3>3, <3>4
    <2>3. CASE Head(req).op = "NAME"
        <3>1. \/ \E n : Updates(n)
              \/ UNCHANGED <<presets, reading, ind, upto>>
            BY <1>5, <2>3 DEF Serve
        <3>2. QED BY <1>2, <1>3, <3>1
    <2>4. QED BY <1>5, <2>1, <2>2, <2>3 DEF Serve
<1>6. ASSUME NEW i \in Indices, UserAdds(i) PROVE Underway'
    BY <1>3, <1>6 DEF UserAdds
<1>7. ASSUME NEW r \in presets, UserRemoves(r) PROVE Underway'
    <2>1. r.index \in 0 .. MaxIndex BY <1>1 DEF Preset, Record
    <2>2. Idx(presets') \subseteq Idx(presets) BY <1>7 DEF UserRemoves, Idx
    <2>3. QED BY <1>4, <1>7, <2>1, <2>2 DEF UserRemoves
<1>8. ASSUME NEW r \in presets, UserToggles(r) PROVE Underway'
    <2> DEFINE k == IF r.available THEN "UNAVAILABLE" ELSE "AVAILABLE"
               n == [r EXCEPT !.available = ~r.available]
    <2>1. r \in Preset /\ r.index \in 0 .. MaxIndex BY <1>1 DEF Preset, Record
    <2>2. n.index = r.index BY <2>1, Variants
    <2>3. k \in {"DELETED", "AVAILABLE", "UNAVAILABLE", "ACTIVE"} OBVIOUS
    <2>4. presets' = (presets \ {r}) \union {n} /\ ind' = Append(ind, [t |-> k, index |-> r.index])
          /\ UNCHANGED <<reading, upto>>
        BY <1>8 DEF UserToggles
    <2> HIDE DEF k, n
    <2>5. Idx(presets') \subseteq Idx(presets) BY <2>2, <2>4 DEF Idx
    <2>6. QED BY <1>4, <2>1, <2>3, <2>4, <2>5
<1>9. ASSUME NEW i \in Usable, UserChooses(i) PROVE Underway'
    <2>1. i \in 0 .. MaxIndex BY <1>1 DEF Usable, Preset, Record
    <2>2. QED BY <1>4, <1>9, <2>1 DEF UserChooses
<1>10. CASE Respond
    <2>1. reading.left > 0 /\ UNCHANGED <<presets, upto>> BY <1>10 DEF Respond
    <2>2. ASSUME NEW r \in presets, NextToTell(r),
                 ind' = Append(ind, [t |-> "RESPONSE", rec |-> r, upto |-> Told(r)]),
                 reading' = [reading EXCEPT !.next = r.index + 1, !.left = reading.left - 1]
          PROVE  Underway'
        BY <1>1, <2>1, <2>2, UnderwayResponds
    <2>3. CASE UNCHANGED ind /\ reading' = [reading EXCEPT !.left = 0]
        <3>1. /\ reading'.next = reading.next /\ reading'.left <= reading.left
              /\ reading'.calm = reading.calm
            BY <1>1, <2>1, <2>3
        <3>2. QED BY <2>1, <2>3, <3>1, UnderwayStays
    <2>4. QED BY <1>10, <2>2, <2>3 DEF Respond, NextToTell
<1>11. QED BY <1>5, <1>6, <1>7, <1>8, <1>9, <1>10

\* Every step keeps the invariant.
LEMMA ReadKept == ReadInv /\ [Next]_vars => ReadInv'
<1> SUFFICES ASSUME ReadInv, [Next]_vars PROVE ReadInv' OBVIOUS
<1>1. GhostInv /\ GhostInv' /\ Alive /\ Gone /\ Telling /\ Underway /\ Complete BY GhostKept DEF ReadInv
<1>2. ListInv /\ ListInv' /\ Unique BY <1>1 DEF GhostInv
<1>3. CASE UNCHANGED <<list, presets, reading, ind, upto>>
    <2>1. Alive' /\ Gone' BY <1>1, <1>3 DEF Alive, Gone
    <2>2. Telling' /\ Underway' BY <1>1, <1>3 DEF Telling, Underway
    <2>3. Complete' BY <1>1, <1>3 DEF Complete
    <2>4. QED BY <1>1, <2>1, <2>2, <2>3 DEF ReadInv
<1>4. CASE ReadResponse \/ GenericUpdate \/ RecordDeleted \/ RecordAvailable \/ ActivePresetIndex
    BY <1>1, <1>2, <1>4, ReceiveRead DEF ReadInv
<1>5. CASE \/ Serve \/ Respond
           \/ \E i \in Indices : UserAdds(i)
           \/ \E r \in presets : UserRemoves(r) \/ UserToggles(r)
           \/ \E i \in Usable : UserChooses(i)
    <2>1. \E e : Tells(e) /\ Accounts(e) BY <1>2, <1>5, AidTells, Zenon
    <2>2. Alive' /\ Gone' /\ Telling' /\ Complete' BY <1>1, <1>2, <2>1, TellsRead
    <2>3. Underway' BY <1>1, <1>2, <1>5, UnderwayKept
    <2>4. QED BY <1>1, <2>2, <2>3 DEF ReadInv
<1>6. CASE \/ ReadPresets
           \/ \E op \in {"SET", "NEXT", "PREVIOUS"}, i \in 0 .. MaxIndex : SetActive(op, i)
           \/ \E i \in Indices : SetName(i)
    <2>1. UNCHANGED <<list, presets, reading, ind, upto>>
        BY <1>6 DEF ReadPresets, SetActive, SetName
    <2>2. QED BY <1>3, <2>1
<1>7. CASE UNCHANGED vars BY <1>3, <1>7 DEF vars
<1>8. QED BY <1>4, <1>5, <1>6, <1>7 DEF Next

(* When nothing is under way, every preset up to the one that a reading has *)
(* told since the last update is listed, as the hearing aid has it: a full   *)
(* list, records that earlier updates pushed out, and deletions and changes  *)
(* of properties between two answers (lepl_has.c) leave none of them out.    *)
THEOREM ReadingCompletes == Spec => []ReadCompletes
<1>1. Init => ReadInv
    <2> SUFFICES ASSUME Init PROVE ReadInv OBVIOUS
    <2>1. GhostInv BY GhostStarts
    <2>2. ind = << >> /\ upto = 0 /\ list = [p \in Positions |-> Empty] /\ ~reading.calm BY DEF Init
    <2>3. Len(ind) = 0 BY <2>2
    <2>4. \A k \in 1 .. Len(ind) : FALSE BY <2>3
    <2>5. \A p \in Positions : list[p].index = 0 BY <2>2, RecordIndex
    <2>6. \A i \in Due(After(0, ind), presets) : ~(i <= upto)
        <3>1. ListInv BY <2>1 DEF GhostInv
        <3>2. Due(After(0, ind), presets) \subseteq Indices BY <3>1, DueFinite
        <3>3. QED BY <2>2, <3>2, PresetsAssumption DEF Indices
    <2>7. QED BY <2>1, <2>2, <2>4, <2>5, <2>6 DEF ReadInv, Alive, Gone, Telling, Underway, Complete
<1>2. ReadInv => ReadCompletes
    <2> SUFFICES ASSUME ReadInv, ind = << >>, NEW r \in presets, r.index <= upto
                 PROVE  \E p \in Positions : list[p] = r
        BY DEF ReadCompletes
    <2>1. Len(ind) = 0 OBVIOUS
    <2>2. After(0, ind) = {} BY <2>1 DEF After
    <2>3. r.index \in Due(After(0, ind), presets) BY DEF Due, Idx
    <2>4. ~Updated(After(0, ind)) BY <2>2 DEF Updated
    <2>5. PICK p \in Positions : list[p].index = r.index
        BY <2>3, <2>4 DEF ReadInv, Complete, IsListed
    <2>6. r.index # 0 BY RecordIndex DEF ReadInv, GhostInv, ListInv, TypeOK
    <2>7. list[p] # Empty BY <2>5, <2>6, RecordIndex
    <2>8. list[p] \in presets
        <3>1. NoGhosts BY GhostExplained DEF ReadInv
        <3>2. QED BY <2>7, <3>1 DEF NoGhosts
    <2>9. list[p] = r BY <2>5, <2>8 DEF ReadInv, GhostInv, Unique
    <2>10. QED BY <2>9
<1>3. Spec => []ReadInv BY <1>1, ReadKept, PTL DEF Spec
<1>4. QED BY <1>2, <1>3, PTL
=============================================================================
