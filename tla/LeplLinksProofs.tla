-------------------------- MODULE LeplLinksProofs --------------------------
(* Proofs about links, sets and bonds, for any devices, sets and bounds: the *)
(* state keeps its types, the BLE activity the player believes in is one the *)
(* stack is engaged in, a set counts the members that it lists and lists the *)
(* members that are connected, a link that the player closes is up, and      *)
(* every stored bond is known to the host.                                   *)
EXTENDS LeplLinks, FiniteSetTheorems, WellFoundedInduction, TLAPS

\* An activity record that is well formed and backed by the stack.
Backed(r) ==
    /\ r \in Radio
    /\ r.act = "CONNECTING" => r.create = r.peer /\ r.peer # NoDev
    /\ r.act = "SCANNING" => r.scan # "OFF"
    /\ r.act = "ADVERTISING" => r.adv

\* The inductive invariant.
RadioInv == Backed(radio)

\* Starting and stopping a scan keep the activity backed.
LEMMA ScanBacked ==
    ASSUME NEW r, Backed(r), NEW cb \in {"GATT", "CSIS"}
    PROVE  Backed(ScanOn(r, cb)) /\ Backed(ScanOff(r))
<1>1. ScanOn(r, cb) \in Radio /\ ScanOff(r) \in Radio
    BY DEF Backed, ScanOn, ScanOff, Radio, Activities
<1>2. ScanOn(r, cb).act = "SCANNING" /\ ScanOn(r, cb).scan = cb
    BY DEF Backed, ScanOn, Radio
<1>3. ScanOff(r).act = "NONE"
    BY DEF Backed, ScanOff, Radio
<1>4. QED
    BY <1>1, <1>2, <1>3 DEF Backed

\* A connection attempt of app_create_connection keeps it backed.
LEMMA CreateBacked ==
    ASSUME NEW r, Backed(r), NEW d \in Devices
    PROVE  Backed(CreateConnection(r, d))
<1> DEFINE c == [r EXCEPT !.create = d, !.peer = d, !.act = "CONNECTING"]
<1>1. c \in Radio
    BY DEF Backed, Radio, Activities, Addr
<1>2. c.act = "CONNECTING" /\ c.create = d /\ c.peer = d
    BY DEF Backed, Radio
<1>3. Backed(c)
    <2> HIDE DEF c
    <2> QED BY <1>1, <1>2, LinksAssumption DEF Backed
<1>4. QED
    BY <1>3 DEF CreateConnection

\* A connection event and a disconnection event keep it backed.
LEMMA EventBacked ==
    ASSUME NEW r, Backed(r), NEW d
    PROVE  Backed(RadioConnected(r)) /\ Backed(RadioDisconnected(r, d))
<1>1. Backed(RadioConnected(r))
    <2>1. RadioConnected(r) \in Radio /\ RadioConnected(r).act = "NONE"
        BY DEF Backed, RadioConnected, Radio, Activities, Addr
    <2>2. QED BY <2>1 DEF Backed
<1>2. Backed(RadioDisconnected(r, d))
    <2> DEFINE c == [r EXCEPT !.peer = NoDev, !.act = "NONE"]
    <2>1. c \in Radio /\ c.act = "NONE"
        BY DEF Backed, Radio, Activities, Addr
    <2>2. Backed(c)
        <3> HIDE DEF c
        <3> QED BY <2>1 DEF Backed
    <2>3. QED BY <2>2 DEF RadioDisconnected
<1>3. QED BY <1>1, <1>2

\* The stack's own changes: an attempt that has ended is forgotten after the
\* player's record of it, and advertising may stop when a device connects.
LEMMA AttemptBacked ==
    ASSUME NEW r, Backed(r), NEW d, r.create = d
    PROVE  /\ Backed(RadioConnected([r EXCEPT !.create = NoDev]))
           /\ Backed(RadioConnected([r EXCEPT !.adv = FALSE]))
           /\ Backed(RadioDisconnected([r EXCEPT !.create = NoDev], d))
<1> DEFINE c == [r EXCEPT !.create = NoDev]
           a == [r EXCEPT !.adv = FALSE]
<1>1. c \in Radio /\ a \in Radio
    BY DEF Backed, Radio, Addr
<1>2. c.act = r.act /\ c.peer = r.peer /\ c.scan = r.scan /\ c.adv = r.adv
    BY DEF Backed, Radio
<1>3. Backed(RadioConnected(c)) /\ Backed(RadioConnected(a))
    <2> HIDE DEF c, a
    <2>1. RadioConnected(c) \in Radio /\ RadioConnected(c).act = "NONE"
        BY <1>1 DEF RadioConnected, Radio, Activities, Addr
    <2>2. RadioConnected(a) \in Radio /\ RadioConnected(a).act = "NONE"
        BY <1>1 DEF RadioConnected, Radio, Activities, Addr
    <2>3. QED BY <2>1, <2>2 DEF Backed
<1>4. Backed(RadioDisconnected(c, d))
    <2> HIDE DEF c
    <2> DEFINE e == [c EXCEPT !.peer = NoDev, !.act = "NONE"]
    <2>1. e \in Radio /\ e.act = "NONE"
        BY <1>1 DEF Radio, Activities, Addr
    <2>2. Backed(e)
        <3> HIDE DEF e
        <3> QED BY <2>1 DEF Backed
    <2>3. CASE c.peer = d
        BY <2>2, <2>3 DEF RadioDisconnected
    <2>4. CASE c.peer # d
        <3>1. r.act # "CONNECTING"
            BY <2>4, <1>2 DEF Backed
        <3>2. Backed(c)
            BY <3>1, <1>1, <1>2 DEF Backed
        <3>3. QED BY <3>2, <2>4 DEF RadioDisconnected
    <2>5. QED BY <2>3, <2>4
<1>5. QED BY <1>3, <1>4

\* Starting or stopping the search for a set member keeps it backed.
LEMMA SearchBacked ==
    ASSUME NEW r, Backed(r), NEW p, NEW start
    PROVE  Backed(SearchRadio(r, p, start))
BY ScanBacked DEF SearchRadio

\* The departure of a set member keeps it backed.
LEMMA LeaveBacked ==
    ASSUME NEW r, Backed(r), NEW p, NEW d, NEW disc
    PROVE  Backed(LeaveRadio(r, p, d, disc))
BY SearchBacked DEF LeaveRadio

\* The connection to the other member of a bonded set keeps it backed.
LEMMA PairBacked ==
    ASSUME NEW r, Backed(r), NEW k
    PROVE  Backed(ConnectPair(r, k))
<1> DEFINE pair == nvram[First(KeySlots(k.dev))].pair
           q == IF r.act = "SCANNING" THEN ScanOff(r) ELSE r
<1>1. Backed(q)
    BY ScanBacked
<1>2. ASSUME pair \in Devices PROVE Backed(CreateConnection(q, pair))
    <2> HIDE DEF q, pair
    <2> QED BY <1>1, <1>2, CreateBacked
<1>3. QED
    BY <1>2 DEF ConnectPair

\* Every step of the player, the host and the stack keeps the activity backed.
LEMMA StepBacked == Backed(radio) /\ [Next]_vars => Backed(radio')
<1> SUFFICES ASSUME Backed(radio), [Next]_vars PROVE Backed(radio')
    OBVIOUS
<1>1. CASE UNCHANGED vars
    BY <1>1 DEF vars
<1>2. CASE RpcScanStart \/ RpcScanStop
    BY <1>2, ScanBacked DEF RpcScanStart, RpcScanStop
<1>3. CASE Restart
    <2>1. IdleRadio \in Radio /\ IdleRadio.act = "NONE"
        BY DEF IdleRadio, Radio, Activities, Addr
    <2>2. QED BY <1>3, <2>1 DEF Restart, Backed
<1>4. ASSUME NEW on \in BOOLEAN, RpcAdv(on) PROVE Backed(radio')
    <2>1. radio' = [radio EXCEPT !.adv = on, !.act = IF on THEN "ADVERTISING" ELSE "NONE"]
        BY <1>4 DEF RpcAdv
    <2>2. radio' \in Radio
        BY <2>1 DEF Backed, Radio, Activities
    <2>3. radio'.adv = on /\ radio'.act = IF on THEN "ADVERTISING" ELSE "NONE"
        BY <2>1 DEF Backed, Radio
    <2>4. CASE on = TRUE
        BY <2>2, <2>3, <2>4 DEF Backed
    <2>5. CASE on = FALSE
        BY <2>2, <2>3, <2>5 DEF Backed
    <2>6. QED BY <2>4, <2>5
<1>5. ASSUME NEW d \in Devices, RpcConnect(d) PROVE Backed(radio')
    <2> DEFINE q == IF radio.act = "SCANNING" THEN ScanOff(radio) ELSE radio
    <2>1. Backed(q)
        BY ScanBacked
    <2>2. radio' = CreateConnection(q, d)
        BY <1>5 DEF RpcConnect
    <2> HIDE DEF q
    <2>3. QED BY <2>1, <2>2, CreateBacked
<1>6. ASSUME NEW d \in Devices, RpcCancel(d) \/ AttemptFails(d) PROVE Backed(radio')
    <2>1. radio.create = d
        BY <1>6 DEF RpcCancel, AttemptFails, AttemptEnds
    <2>2. radio' = RadioDisconnected([radio EXCEPT !.create = NoDev], d)
        BY <1>6 DEF RpcCancel, AttemptFails, AttemptEnds
    <2>3. QED BY <2>1, <2>2, AttemptBacked
<1>7. ASSUME NEW d \in Devices, RpcDisconnect(d) PROVE Backed(radio')
    BY <1>7 DEF RpcDisconnect
<1>8. ASSUME NEW k \in 1..NvSlots, RpcUnbond(k) \/ Restore(k) PROVE Backed(radio')
    BY <1>8 DEF RpcUnbond, Restore
<1>9. ASSUME NEW i \in Blocks, ScanTimeout(i) PROVE Backed(radio')
    BY <1>9, SearchBacked DEF ScanTimeout
<1>10. ASSUME NEW d \in Devices, ScanResult(d) PROVE Backed(radio')
    <2>1. \E p : radio' = SearchRadio(radio, p, FALSE)
                 \/ radio' = CreateConnection(SearchRadio(radio, p, FALSE), d)
        BY <1>10 DEF ScanResult
    <2>2. QED BY <2>1, SearchBacked, CreateBacked
<1>11. ASSUME NEW d \in Devices, Connected(d) PROVE Backed(radio')
    <2>1. radio.create = d
        BY <1>11 DEF Connected
    <2>2. \E k : radio' = ConnectPair(RadioConnected([radio EXCEPT !.create = NoDev]), k)
        BY <1>11 DEF Connected, HandleConnection
    <2>3. Backed(RadioConnected([radio EXCEPT !.create = NoDev]))
        BY <2>1, AttemptBacked
    <2>4. QED BY <2>2, <2>3, PairBacked
<1>12. ASSUME NEW d \in Devices, Incoming(d) PROVE Backed(radio')
    <2>1. \E k : radio' = ConnectPair(RadioConnected([radio EXCEPT !.adv = FALSE]), k)
        BY <1>12 DEF Incoming, HandleConnection
    <2>2. Backed(RadioConnected([radio EXCEPT !.adv = FALSE]))
        BY AttemptBacked
    <2>3. QED BY <2>1, <2>2, PairBacked
<1>13. ASSUME NEW d \in Devices, Disconnected(d) PROVE Backed(radio')
    <2>1. Backed(RadioDisconnected(radio, d))
        BY EventBacked
    <2>2. \/ radio' = RadioDisconnected(radio, d)
          \/ \E p, disc : radio' = LeaveRadio(RadioDisconnected(radio, d), p, d, disc)
        BY <1>13 DEF Disconnected, HandleDisconnection
    <2>3. QED BY <2>1, <2>2, LeaveBacked
<1>14. ASSUME NEW d \in Devices,
              Secure(d) \/ KeyUpdate(d) \/ PairingComplete(d) \/ Encrypted(d)
                \/ Discovered(d) \/ SirkRead(d)
       PROVE  Backed(radio')
    BY <1>14 DEF Secure, KeyUpdate, PairingComplete, Encrypted, Discovered, SirkRead
<1>15. ASSUME NEW d \in Devices, ReadsComplete(d) PROVE Backed(radio')
    <2>1. \/ radio' = radio
          \/ \E p, start : radio' = SearchRadio(radio, p, start)
        BY <1>15 DEF ReadsComplete
    <2>2. QED BY <2>1, SearchBacked
<1>16. QED
    BY <1>1, <1>2, <1>3, <1>4, <1>5, <1>6, <1>7, <1>8, <1>9, <1>10, <1>11,
       <1>12, <1>13, <1>14, <1>15
    DEF Next, Host, Stack

\* The player never waits for a connection attempt, a scan or an
\* advertisement that has ended (ble_activity of lepl_gatt.c), whatever the
\* devices, their sets, their bonds and the commands of the host are.
THEOREM ActivityIsBacked == Spec => []ActivityBacked
<1>1. Init => RadioInv
    <2>1. IdleRadio \in Radio /\ IdleRadio.act = "NONE"
        BY DEF IdleRadio, Radio, Activities, Addr
    <2>2. QED BY <2>1 DEF Init, Backed, RadioInv
<1>2. RadioInv /\ [Next]_vars => RadioInv'
    BY StepBacked DEF RadioInv
<1>3. RadioInv => ActivityBacked
    BY DEF Backed, ActivityBacked, RadioInv
<1>4. QED
    BY <1>1, <1>2, <1>3, PTL DEF Spec

(***************************************************************************)
(* Lookups                                                                 *)
(***************************************************************************)

\* The first of a set of positions is one of them.
LEMMA FirstIn ==
    ASSUME NEW S \in SUBSET Nat, S # {}
    PROVE  First(S) \in S
<1> DEFINE R == {ss \in Nat \X Nat : ss[1] < ss[2]}
<1>1. IsWellFoundedOn(R, Nat)
    BY NatLessThanWellFounded DEF OpToRel
<1>2. \E x \in S : \A y \in S : ~(<<y, x>> \in R)
    <2> HIDE DEF R
    <2> QED BY <1>1, WFMin
<1>3. PICK x \in S : \A y \in S : ~(<<y, x>> \in R) BY <1>2
<1>4. ASSUME NEW y \in S PROVE x <= y
    <2>1. x \in Nat /\ y \in Nat OBVIOUS
    <2>2. ~(<<y, x>> \in R) BY <1>3
    <2>3. ~(y < x) BY <2>1, <2>2
    <2>4. QED BY <2>1, <2>3
<1>5. QED BY <1>4 DEF First

\* The control block of a device.
LEMMA BlockOf ==
    ASSUME NEW d, HasBlock(d)
    PROVE  Block(d) \in Blocks /\ clcb[Block(d)].dev = d
<1> DEFINE S == {b \in Blocks : clcb[b].dev = d}
<1>1. S \in SUBSET Nat /\ S # {} BY DEF HasBlock, Blocks
<1>2. First(S) \in S
    <2> HIDE DEF S
    <2> QED BY <1>1, FirstIn
<1>3. QED BY <1>2 DEF Block

\* The slot of the keys of a device.
LEMMA SlotOf ==
    ASSUME NEW d, KeySlots(d) # {}
    PROVE  /\ First(KeySlots(d)) \in 1..NvSlots /\ d # NoDev
           /\ nvram[First(KeySlots(d))].dev = d
<1>1. KeySlots(d) \in SUBSET Nat BY LinksAssumption DEF KeySlots
<1>2. First(KeySlots(d)) \in KeySlots(d) BY <1>1, FirstIn
<1>3. QED BY <1>2 DEF KeySlots

\* The slot for a new bond: a free one, or the memory after the array.
LEMMA SlotFor ==
    /\ AllocSlot \in 1..(NvSlots + 1)
    /\ AllocSlot \in 1..NvSlots => nvram[AllocSlot].dev = NoDev
<1> DEFINE S == {k \in 1..NvSlots : nvram[k].dev = NoDev}
<1>1. S \in SUBSET Nat /\ NvSlots \in Nat BY LinksAssumption
<1>2. CASE S = {}
    <2>1. AllocSlot = NvSlots + 1 BY <1>2 DEF AllocSlot
    <2>2. QED BY <1>1, <2>1
<1>3. CASE S # {}
    <2>1. AllocSlot = First(S) BY <1>3 DEF AllocSlot
    <2>2. First(S) \in S
        <3> HIDE DEF S
        <3> QED BY <1>1, <1>3, FirstIn
    <2>3. QED BY <1>1, <2>1, <2>2
<1>4. QED BY <1>2, <1>3

\* The block for a new link: a free one, or the last.
LEMMA BlockFor ==
    /\ AllocBlock \in Blocks
    /\ (\E b \in Blocks : clcb[b].dev = NoDev) => clcb[AllocBlock].dev = NoDev
<1> DEFINE S == {b \in Blocks : clcb[b].dev = NoDev}
<1>1. S \in SUBSET Nat BY DEF Blocks
<1>2. CASE S = {}
    BY <1>2 DEF AllocBlock, Blocks
<1>3. CASE S # {}
    <2>1. AllocBlock = First(S) BY <1>3 DEF AllocBlock
    <2>2. First(S) \in S
        <3> HIDE DEF S
        <3> QED BY <1>1, <1>3, FirstIn
    <2>3. QED BY <2>1, <2>2
<1>4. QED BY <1>2, <1>3

\* The coordinated set of a SIRK.
LEMMA SetOfSirk ==
    ASSUME NEW s, SetsOf(s) # {}
    PROVE  First(SetsOf(s)) \in Blocks /\ sets[First(SetsOf(s))].sirk = s
<1>1. SetsOf(s) \in SUBSET Nat BY DEF SetsOf, Blocks
<1>2. First(SetsOf(s)) \in SetsOf(s) BY <1>1, FirstIn
<1>3. QED BY <1>2 DEF SetsOf

(***************************************************************************)
(* A coordinated set                                                       *)
(***************************************************************************)

\* The number of entries in use.
Bit(b) == IF b THEN 1 ELSE 0
InUse(p) == Bit(p.mem[1].used) + Bit(p.mem[2].used)

\* A set is free, or it counts its entries in use, at least one.
SetOk(p) ==
    /\ p \in CsisSet
    /\ p.sirk = 0 => p = FreeSet
    /\ p.sirk # 0 => p.size = 2 /\ 1 <= p.num /\ p.num = InUse(p)

\* The entries: a connection id is that of the device and of a member in use,
\* and no device has two entries.
EntryOk(p) ==
    /\ \A j \in Blocks : /\ p.mem[j].conn = NoDev \/ p.mem[j].conn = p.mem[j].dev
                         /\ ~p.mem[j].used => p.mem[j].conn = NoDev
    /\ p.mem[1].dev = p.mem[2].dev => p.mem[1].dev = NoDev

\* InUse is the cardinality that MembersOnRecord speaks of.
LEMMA UsedCount ==
    ASSUME NEW p \in CsisSet, p.size = 2
    PROVE  Cardinality({j \in 1..p.size : p.mem[j].used}) = InUse(p)
<1> DEFINE S == {j \in 1..p.size : p.mem[j].used}
<1>1. p.mem[1].used \in BOOLEAN /\ p.mem[2].used \in BOOLEAN
    BY DEF CsisSet, Member, Blocks
<1>2. CASE p.mem[1].used /\ p.mem[2].used
    <2>1. S = {1} \cup {2} /\ InUse(p) = 2 BY <1>2 DEF InUse, Bit
    <2>2. IsFiniteSet({1}) /\ Cardinality({1}) = 1 BY FS_Singleton
    <2>3. 2 \notin {1} OBVIOUS
    <2>4. Cardinality({1} \cup {2}) = Cardinality({1}) + 1
        BY <2>2, <2>3, FS_AddElement, Zenon
    <2> HIDE DEF S
    <2>5. Cardinality(S) = InUse(p) BY <2>1, <2>2, <2>4
    <2>6. QED BY <2>5 DEF S
<1>3. CASE p.mem[1].used /\ ~p.mem[2].used
    <2>1. S = {1} /\ InUse(p) = 1 BY <1>3 DEF InUse, Bit
    <2>2. Cardinality({1}) = 1 BY FS_Singleton
    <2> HIDE DEF S
    <2>3. Cardinality(S) = InUse(p) BY <2>1, <2>2
    <2>4. QED BY <2>3 DEF S
<1>4. CASE ~p.mem[1].used /\ p.mem[2].used
    <2>1. S = {2} /\ InUse(p) = 1 BY <1>4 DEF InUse, Bit
    <2>2. Cardinality({2}) = 1 BY FS_Singleton
    <2> HIDE DEF S
    <2>3. Cardinality(S) = InUse(p) BY <2>1, <2>2
    <2>4. QED BY <2>3 DEF S
<1>5. CASE ~p.mem[1].used /\ ~p.mem[2].used
    <2>1. S = {} /\ InUse(p) = 0 BY <1>5 DEF InUse, Bit
    <2>2. Cardinality({}) = 0 BY FS_EmptySet
    <2> HIDE DEF S
    <2>3. Cardinality(S) = InUse(p) BY <2>1, <2>2
    <2>4. QED BY <2>3 DEF S
<1>6. QED BY <1>1, <1>2, <1>3, <1>4, <1>5

\* A free set.
LEMMA FreeSetOk == SetOk(FreeSet) /\ EntryOk(FreeSet) /\ FreeSet.sirk = 0 /\ FreeSet.size = 0
<1>1. NoMember \in Member BY DEF NoMember, Member, Addr
<1>2. [i \in Blocks |-> NoMember] \in [Blocks -> Member] BY <1>1
<1>3. FreeSet \in CsisSet BY <1>2 DEF FreeSet, CsisSet, SetSize
<1>4. FreeSet.sirk = 0 /\ FreeSet.size = 0 BY DEF FreeSet
<1>5. EntryOk(FreeSet) BY DEF EntryOk, FreeSet, NoMember, Blocks
<1>6. QED BY <1>3, <1>4, <1>5 DEF SetOk

\* Set p with entry j replaced by m and the count by n.
WithEntry(p, j, m, n) == [p EXCEPT !.mem[j] = m, !.num = n]

\* A change of one entry and of the count.
LEMMA EntryShape ==
    ASSUME NEW p \in CsisSet, NEW j \in Blocks, NEW m \in Member, NEW n, n \in 0..255
    PROVE  LET q == WithEntry(p, j, m, n) IN
             /\ q \in CsisSet /\ q.sirk = p.sirk /\ q.size = p.size /\ q.num = n
             /\ q.timer = p.timer /\ q.mem[j] = m
             /\ \A l \in Blocks \ {j} : q.mem[l] = p.mem[l]
<1> DEFINE q == WithEntry(p, j, m, n)
<1> DEFINE e == [p.mem EXCEPT ![j] = m]
<1>1. /\ e \in [Blocks -> Member] /\ e[j] = m
      /\ \A l \in Blocks \ {j} : e[l] = p.mem[l]
    BY DEF CsisSet
<1>2. q = [p EXCEPT !.mem = e, !.num = n] BY DEF CsisSet, WithEntry
<1> HIDE DEF e
<1>3. QED BY <1>1, <1>2 DEF CsisSet

\* The search timer changes nothing else, and a free set has none to stop.
LEMMA TimerShape ==
    ASSUME NEW r, NEW p \in CsisSet, NEW start \in BOOLEAN
    PROVE  LET q == SearchTimer(r, p, start) IN
             /\ q \in CsisSet /\ q.sirk = p.sirk /\ q.size = p.size /\ q.num = p.num
             /\ q.mem = p.mem
             /\ p = FreeSet /\ ~start => q = p
<1> DEFINE q == SearchTimer(r, p, start)
<1>1. q = p \/ q = [p EXCEPT !.timer = TRUE] \/ q = [p EXCEPT !.timer = FALSE]
    BY DEF SearchTimer
<1> HIDE DEF q
<1>2. /\ q \in CsisSet /\ q.sirk = p.sirk /\ q.size = p.size /\ q.num = p.num
      /\ q.mem = p.mem
    <2>1. PICK b \in BOOLEAN : q = p \/ q = [p EXCEPT !.timer = b] BY <1>1
    <2>2. CASE q = p BY <2>2
    <2>3. CASE q = [p EXCEPT !.timer = b]
        BY <2>3 DEF CsisSet
    <2>4. QED BY <2>1, <2>2, <2>3
<1>3. ~FreeSet.timer BY DEF FreeSet
<1>4. p = FreeSet /\ ~start => q = p BY <1>3 DEF SearchTimer, SearchStops, q
<1>5. QED BY <1>2, <1>4 DEF q

\* What EntryOk says of one entry.
EntryFits(e) == (e.conn = NoDev \/ e.conn = e.dev) /\ (~e.used => e.conn = NoDev)

\* Entries that are right one by one and of different devices are right.
LEMMA TwoEntries ==
    ASSUME NEW p, EntryFits(p.mem[1]), EntryFits(p.mem[2]), p.mem[1].dev # p.mem[2].dev
    PROVE  EntryOk(p)
<1>1. \A j \in Blocks : j = 1 \/ j = 2 BY DEF Blocks
<1>2. QED BY <1>1 DEF EntryOk, EntryFits

\* The set that a change of one entry leaves: entry j becomes that of d, in
\* use, and is counted if it was not.
LEMMA EnterShape ==
    ASSUME NEW p \in CsisSet, p.sirk # 0, p.size = 2, p.num = InUse(p), EntryOk(p),
           NEW d \in Devices, NEW j \in Blocks, \A l \in Blocks \ {j} : p.mem[l].dev # d,
           NEW m \in Member, m.used, m.dev = d, m.conn \in {NoDev, d},
           NEW n, n \in 0..255, n = IF p.mem[j].used THEN p.num ELSE p.num + 1, 1 <= n
    PROVE  LET q == WithEntry(p, j, m, n) IN
             /\ SetOk(q) /\ EntryOk(q) /\ q.sirk = p.sirk /\ q.mem[j] = m
             /\ \A l \in Blocks \ {j} : q.mem[l] = p.mem[l]
<1> DEFINE q == WithEntry(p, j, m, n)
<1>1. /\ q \in CsisSet /\ q.sirk = p.sirk /\ q.size = p.size /\ q.num = n /\ q.mem[j] = m
      /\ \A l \in Blocks \ {j} : q.mem[l] = p.mem[l]
    BY EntryShape
<1>2. p.num \in Nat /\ \A l \in Blocks : p.mem[l].used \in BOOLEAN
    BY DEF CsisSet, Member
<1>3. EntryFits(m) BY DEF EntryFits
<1>4. EntryFits(p.mem[1]) /\ EntryFits(p.mem[2]) BY DEF EntryOk, EntryFits, Blocks
<1>5. CASE j = 1
    <2>1. q.mem[1] = m /\ q.mem[2] = p.mem[2] /\ p.mem[2].dev # d
        BY <1>1, <1>5 DEF Blocks
    <2>2. n = InUse(q) BY <1>2, <1>5, <2>1 DEF InUse, Bit, Blocks
    <2>3. EntryFits(q.mem[1]) /\ EntryFits(q.mem[2]) BY <1>3, <1>4, <2>1
    <2>4. q.mem[1].dev # q.mem[2].dev BY <2>1
    <2>5. EntryOk(q) BY <2>3, <2>4, TwoEntries
    <2>6. QED BY <1>1, <2>2, <2>5 DEF SetOk
<1>6. CASE j = 2
    <2>1. q.mem[2] = m /\ q.mem[1] = p.mem[1] /\ p.mem[1].dev # d
        BY <1>1, <1>6 DEF Blocks
    <2>2. n = InUse(q) BY <1>2, <1>6, <2>1 DEF InUse, Bit, Blocks
    <2>3. EntryFits(q.mem[1]) /\ EntryFits(q.mem[2]) BY <1>3, <1>4, <2>1
    <2>4. q.mem[1].dev # q.mem[2].dev BY <2>1
    <2>5. EntryOk(q) BY <2>3, <2>4, TwoEntries
    <2>6. QED BY <1>1, <2>2, <2>5 DEF SetOk
<1>7. QED BY <1>5, <1>6 DEF Blocks

\* The entries of a set for a device and the unused ones.
LEMMA EntriesIn ==
    ASSUME NEW p \in CsisSet, p.size = 2, NEW d
    PROVE  /\ Entries(p, d) = {j \in Blocks : p.mem[j].dev = d}
           /\ Unused(p) = {j \in Blocks : ~p.mem[j].used}
           /\ Entries(p, d) # {} => /\ First(Entries(p, d)) \in Blocks
                                    /\ p.mem[First(Entries(p, d))].dev = d
           /\ Unused(p) # {} => /\ First(Unused(p)) \in Blocks
                                /\ ~p.mem[First(Unused(p))].used
<1>1. Entries(p, d) = {j \in Blocks : p.mem[j].dev = d} BY DEF Entries, Blocks
<1>2. Unused(p) = {j \in Blocks : ~p.mem[j].used} BY DEF Unused, Blocks
<1>3. Entries(p, d) \in SUBSET Nat /\ Unused(p) \in SUBSET Nat
    BY <1>1, <1>2 DEF Blocks
<1>4. Entries(p, d) # {} => First(Entries(p, d)) \in Entries(p, d) BY <1>3, FirstIn
<1>5. Unused(p) # {} => First(Unused(p)) \in Unused(p) BY <1>3, FirstIn
<1>6. QED BY <1>1, <1>2, <1>4, <1>5

\* A member that the search has found.
LEMMA FoundShape ==
    ASSUME NEW p, SetOk(p), EntryOk(p), p.sirk # 0, NEW d \in Devices,
           NEW j \in Blocks, ~p.mem[j].used, \A l \in Blocks \ {j} : p.mem[l].dev # d
    PROVE  LET q == FoundMember(p, j, d) IN
             /\ SetOk(q) /\ EntryOk(q) /\ q.sirk = p.sirk
             /\ \A l \in Blocks : q.mem[l].conn = p.mem[l].conn
             /\ q.mem[j].used /\ q.mem[j].dev = d
             /\ \A l \in Blocks \ {j} : q.mem[l] = p.mem[l]
<1> DEFINE q == FoundMember(p, j, d)
<1> DEFINE m == [p.mem[j] EXCEPT !.used = TRUE, !.dev = d]
           n == p.num + 1
<1>1. /\ p \in CsisSet /\ p.size = 2 /\ p.num = InUse(p) /\ 1 <= p.num
      /\ p.mem[j] \in Member /\ p.num \in Nat
    BY DEF SetOk, CsisSet
<1>2. p.mem[j].conn = NoDev BY DEF EntryOk
<1>3. m \in Member /\ m.used /\ m.dev = d /\ m.conn = NoDev
    BY <1>1, <1>2 DEF Member, Addr
<1>4. InUse(p) <= 2 BY DEF InUse, Bit
<1>5. n \in 0..255 /\ n = (p.num + 1) % 256 /\ 1 <= n BY <1>1, <1>4 DEF InUse, Bit
<1>6. q = WithEntry(p, j, m, n)
    BY <1>1, <1>5 DEF FoundMember, WithEntry
<1>7. n = IF p.mem[j].used THEN p.num ELSE p.num + 1 OBVIOUS
<1> HIDE DEF m, n
<1>8. /\ SetOk(q) /\ EntryOk(q) /\ q.sirk = p.sirk /\ q.mem[j] = m
      /\ \A l \in Blocks \ {j} : q.mem[l] = p.mem[l]
    BY <1>1, <1>3, <1>5, <1>6, <1>7, EnterShape
<1>9. QED BY <1>2, <1>3, <1>8

\* The entry of a member that has joined.
Joined(d) == [used |-> TRUE, dev |-> d, conn |-> d]

\* In set q device d has joined set p, by its own entry or an unused one; or
\* both entries of p are those of other devices.
EntersAt(p, q, d) ==
    \/ \E j \in Blocks : /\ p.mem[j].dev = d \/ ~p.mem[j].used
                         /\ q.mem[j] = Joined(d)
                         /\ \A l \in Blocks \ {j} : q.mem[l] = p.mem[l]
    \/ q.mem = p.mem /\ \A l \in Blocks : p.mem[l].used /\ p.mem[l].dev # d

\* A member that joins its set.
LEMMA CurrentShape ==
    ASSUME NEW p \in CsisSet, p.sirk # 0, p.size = 2, p.num = InUse(p), EntryOk(p),
           1 <= p.num \/ p.mem = [j \in Blocks |-> NoMember],
           NEW d \in Devices
    PROVE  LET q == SetCurrentDevice(p, d) IN
             /\ SetOk(q) /\ EntryOk(q) /\ q.sirk = p.sirk
             /\ \A l \in Blocks : q.mem[l].conn \in {p.mem[l].conn, d}
             /\ EntersAt(p, q, d)
<1> DEFINE q == SetCurrentDevice(p, d)
<1> DEFINE m == [used |-> TRUE, dev |-> d, conn |-> d]
<1>1. m \in Member /\ m.used /\ m.dev = d /\ m.conn = d BY DEF Member, Addr
<1>2. p.num \in Nat /\ InUse(p) <= 2 /\ d # NoDev /\ \A l \in Blocks : p.mem[l].used \in BOOLEAN
    BY LinksAssumption DEF CsisSet, InUse, Bit, Member
<1>3. p.num + 1 \in 0..255 /\ (p.num + 1) % 256 = p.num + 1 /\ p.num \in 0..255
    BY <1>2 DEF InUse, Bit
<1> HIDE DEF m
<1>4. ASSUME NEW j \in Blocks, NEW n, n \in 0..255, \A l \in Blocks \ {j} : p.mem[l].dev # d,
             n = IF p.mem[j].used THEN p.num ELSE p.num + 1, 1 <= n,
             q = WithEntry(p, j, m, n)
      PROVE  /\ SetOk(q) /\ EntryOk(q) /\ q.sirk = p.sirk
             /\ \A l \in Blocks : q.mem[l].conn \in {p.mem[l].conn, d}
             /\ q.mem[j] = m /\ \A l \in Blocks \ {j} : q.mem[l] = p.mem[l]
    <2>1. m.conn \in {NoDev, d} BY <1>1
    <2>2. /\ SetOk(q) /\ EntryOk(q) /\ q.sirk = p.sirk /\ q.mem[j] = m
          /\ \A l \in Blocks \ {j} : q.mem[l] = p.mem[l]
        BY <1>1, <1>4, <2>1, EnterShape
    <2>3. QED BY <1>1, <2>2
<1>5. CASE Entries(p, d) = {} /\ p.num < p.size /\ Unused(p) # {}
    <2> DEFINE j == First(Unused(p))
    <2>1. j \in Blocks /\ ~p.mem[j].used /\ \A l \in Blocks : p.mem[l].dev # d
        BY <1>5, EntriesIn
    <2>2. q = WithEntry(p, j, m, p.num + 1)
        BY <1>3, <1>5 DEF SetCurrentDevice, CsisSet, WithEntry, m
    <2> HIDE DEF j
    <2>3. p.num + 1 = IF p.mem[j].used THEN p.num ELSE p.num + 1 BY <2>1
    <2>4. 1 <= p.num + 1 BY <1>2
    <2>5. /\ SetOk(q) /\ EntryOk(q) /\ q.sirk = p.sirk
          /\ \A l \in Blocks : q.mem[l].conn \in {p.mem[l].conn, d}
          /\ q.mem[j] = m /\ \A l \in Blocks \ {j} : q.mem[l] = p.mem[l]
        BY <1>3, <1>4, <2>1, <2>2, <2>3, <2>4
    <2> HIDE DEF q
    <2>6. EntersAt(p, q, d) BY <2>1, <2>5 DEF EntersAt, Joined, m
    <2>7. QED BY <2>5, <2>6 DEF q
<1>6. CASE Entries(p, d) = {} /\ ~(p.num < p.size /\ Unused(p) # {})
    <2>1. q = p BY <1>6 DEF SetCurrentDevice
    <2>2. 1 <= p.num
        <3>1. ASSUME p.mem = [j \in Blocks |-> NoMember] PROVE 1 <= p.num
            <4>1. ~p.mem[1].used BY <3>1 DEF NoMember, Blocks
            <4>2. 1 \in Unused(p) BY <4>1, EntriesIn DEF Blocks
            <4>3. QED BY <1>2, <1>6, <4>2
        <3>2. QED BY <3>1
    <2>3. \A l \in Blocks : p.mem[l].used /\ p.mem[l].dev # d
        <3>1. Unused(p) = {} \/ ~(p.num < 2) BY <1>6
        <3>2. \A l \in Blocks : p.mem[l].dev # d BY <1>6, EntriesIn
        <3>3. CASE Unused(p) = {} BY <1>2, <3>2, <3>3, EntriesIn
        <3>4. CASE ~(p.num < 2) BY <1>2, <3>2, <3>4 DEF InUse, Bit, Blocks
        <3>5. QED BY <3>1, <3>3, <3>4
    <2>4. EntersAt(p, q, d) BY <2>1, <2>3 DEF EntersAt
    <2>5. QED BY <2>1, <2>2, <2>4 DEF SetOk
<1>7. CASE Entries(p, d) # {}
    <2> DEFINE j == First(Entries(p, d))
               n == IF p.mem[j].used THEN p.num ELSE p.num + 1
    <2>1. j \in Blocks /\ p.mem[j].dev = d
        BY <1>7, EntriesIn
    <2>2. q = WithEntry(p, j, m, n)
        BY <1>3, <1>7 DEF SetCurrentDevice, CsisSet, WithEntry, m
    <2> HIDE DEF j
    <2>3. n \in 0..255 BY <1>3
    <2>4. p.mem # [i \in Blocks |-> NoMember] BY <1>2, <2>1 DEF NoMember
    <2>5. 1 <= n BY <1>2, <2>4
    <2>6. \A l \in Blocks \ {j} : p.mem[l].dev # d
        BY <1>2, <2>1 DEF EntryOk, Blocks
    <2>7. n = IF p.mem[j].used THEN p.num ELSE p.num + 1 OBVIOUS
    <2> HIDE DEF n
    <2>8. /\ SetOk(q) /\ EntryOk(q) /\ q.sirk = p.sirk
          /\ \A l \in Blocks : q.mem[l].conn \in {p.mem[l].conn, d}
          /\ q.mem[j] = m /\ \A l \in Blocks \ {j} : q.mem[l] = p.mem[l]
        BY <1>4, <2>1, <2>2, <2>3, <2>5, <2>6, <2>7
    <2> HIDE DEF q
    <2>9. EntersAt(p, q, d) BY <2>1, <2>8 DEF EntersAt, Joined, m
    <2>10. QED BY <2>8, <2>9 DEF q
<1>8. QED BY <1>5, <1>6, <1>7

\* In set q device d has left set p: its entry is not in use any more, or the
\* set is cleared because it counts no device.
LeavesAt(p, q, d) ==
    \E j \in Blocks :
        /\ p.mem[j].dev = d
        /\ \/ Left(p, d).num = 0 /\ q = FreeSet
           \/ /\ Left(p, d).num # 0 /\ q.sirk = p.sirk
              /\ ~q.mem[j].used /\ q.mem[j].dev = d
              /\ \A l \in Blocks \ {j} : q.mem[l] = p.mem[l]

\* A set that a member has left keeps no connection id of it.
LEMMA LeaveShape ==
    ASSUME NEW p, SetOk(p), EntryOk(p), NEW d \in Devices, Entries(p, d) # {},
           NEW r, NEW disc
    PROVE  LET q == LeaveSet(r, p, d, disc) IN
             /\ SetOk(q) /\ EntryOk(q) /\ p.sirk # 0
             /\ q.sirk = p.sirk \/ q = FreeSet
             /\ \A l \in Blocks : q.mem[l].conn = NoDev \/ (q.mem[l].conn = p.mem[l].conn /\ q.mem[l].conn # d)
             /\ LeavesAt(p, q, d)
<1> DEFINE q == LeaveSet(r, p, d, disc)
<1> DEFINE j == First(Entries(p, d))
           m == [p.mem[j] EXCEPT !.used = FALSE, !.conn = NoDev]
           n == p.num - 1
           f == Left(p, d)
<1>1. p.sirk # 0
    <2>1. 1..0 = {} OBVIOUS
    <2>2. Entries(FreeSet, d) = {} BY <2>1, FreeSetOk DEF Entries
    <2>3. QED BY <2>2 DEF SetOk
<1>2. /\ p \in CsisSet /\ p.size = 2 /\ p.num = InUse(p) /\ 1 <= p.num /\ p.num \in 0..255
    BY <1>1 DEF SetOk, CsisSet
<1>3. j \in Blocks /\ p.mem[j].dev = d BY <1>2, EntriesIn
<1>4. n \in 0..255 /\ (p.num + 255) % 256 = n BY <1>2
<1>5. f = WithEntry(p, j, m, n)
    BY <1>2, <1>4, ZenonT(30) DEF Left, CsisSet, WithEntry
<1> HIDE DEF j
<1>6. p.mem[j] \in Member /\ d # NoDev BY <1>2, <1>3, LinksAssumption DEF CsisSet
<1>7. m \in Member /\ ~m.used /\ m.conn = NoDev /\ m.dev = d
    BY <1>3, <1>6 DEF Member, Addr
<1> HIDE DEF m, n, f
<1>8. /\ f \in CsisSet /\ f.sirk = p.sirk /\ f.size = 2 /\ f.num = n /\ f.mem[j] = m
      /\ \A l \in Blocks \ {j} : f.mem[l] = p.mem[l]
    BY <1>2, <1>3, <1>4, <1>5, <1>7, EntryShape
<1>9. \A l \in Blocks \ {j} : p.mem[l].dev # d
    BY <1>3, <1>6 DEF EntryOk, Blocks
<1>10. \A l \in Blocks : f.mem[l].conn = NoDev \/ (f.mem[l].conn = p.mem[l].conn /\ f.mem[l].conn # d)
    BY <1>3, <1>6, <1>7, <1>8, <1>9 DEF EntryOk
<1>11. EntryOk(f)
    <2>1. CASE j = 1 BY <1>3, <1>7, <1>8, <2>1 DEF EntryOk, Blocks
    <2>2. CASE j = 2 BY <1>3, <1>7, <1>8, <2>2 DEF EntryOk, Blocks
    <2>3. QED BY <1>3, <2>1, <2>2 DEF Blocks
<1>12. n # 0 => n = InUse(f)
    <2>1. CASE j = 1 BY <1>2, <1>7, <1>8, <2>1 DEF InUse, Bit, Blocks, n
    <2>2. CASE j = 2 BY <1>2, <1>7, <1>8, <2>2 DEF InUse, Bit, Blocks, n
    <2>3. QED BY <1>3, <2>1, <2>2 DEF Blocks
<1>13. CASE f.num = 0
    <2>1. q = FreeSet BY <1>13 DEF LeaveSet, f
    <2>2. \A l \in Blocks : FreeSet.mem[l].conn = NoDev BY DEF FreeSet, NoMember
    <2>3. LeavesAt(p, q, d) BY <1>3, <1>13, <2>1 DEF LeavesAt, f
    <2>4. QED BY <1>1, <2>1, <2>2, <2>3, FreeSetOk
<1>14. CASE f.num # 0
    <2>1. q = f \/ q = SearchTimer(r, f, TRUE) BY <1>14 DEF LeaveSet, f
    <2>2. /\ q \in CsisSet /\ q.sirk = f.sirk /\ q.size = f.size /\ q.num = f.num
          /\ q.mem = f.mem
        <3> DEFINE yes == TRUE
                   t == SearchTimer(r, f, yes)
        <3>1. yes \in BOOLEAN /\ (q = f \/ q = t) BY <2>1
        <3> HIDE DEF yes
        <3>2. /\ t \in CsisSet /\ t.sirk = f.sirk /\ t.size = f.size /\ t.num = f.num
              /\ t.mem = f.mem
            BY <1>8, <3>1, TimerShape
        <3> HIDE DEF t, q
        <3>3. QED BY <1>8, <3>1, <3>2
    <2>3. EntryOk(q) BY <1>11, <2>2 DEF EntryOk
    <2>4. 1 <= q.num /\ q.num = InUse(q)
        BY <1>4, <1>8, <1>12, <1>14, <2>2 DEF InUse
    <2>5. SetOk(q) BY <1>1, <1>8, <2>2, <2>4 DEF SetOk
    <2>6. LeavesAt(p, q, d)
        <3>1. ~q.mem[j].used /\ q.mem[j].dev = d /\ \A l \in Blocks \ {j} : q.mem[l] = p.mem[l]
            BY <1>7, <1>8, <2>2
        <3>2. Left(p, d).num # 0 BY <1>14 DEF f
        <3> HIDE DEF q
        <3>3. QED BY <1>3, <1>8, <2>2, <3>1, <3>2 DEF LeavesAt
    <2>7. QED BY <1>1, <1>8, <1>10, <2>2, <2>3, <2>5, <2>6
<1>15. QED BY <1>13, <1>14

(***************************************************************************)
(* The coordinated sets                                                    *)
(***************************************************************************)

\* Every set is in order, and no two have the same SIRK.
SetsOk(s) ==
    /\ s \in [Blocks -> CsisSet]
    /\ \A i \in Blocks : SetOk(s[i]) /\ EntryOk(s[i])
    /\ s[1].sirk = s[2].sirk => s[1].sirk = 0

\* Every connection id in t was in s already, in the same set.
ConnsKept(s, t) ==
    \A i, l \in Blocks : \/ t[i].mem[l].conn = NoDev
                         \/ t[i].mem[l].conn = s[i].mem[l].conn /\ t[i].sirk = s[i].sirk

\* An entry is the same in s and in t, and in a set of the same SIRK.
EntryKept(s, t, x, l) == t[x].mem[l] = s[x].mem[l] /\ t[x].sirk = s[x].sirk

\* A set is replaced by another one with the same SIRK, or by a free one.
LEMMA ReplaceSet ==
    ASSUME NEW s, SetsOk(s), NEW i \in Blocks, NEW q, SetOk(q), EntryOk(q),
           q.sirk = s[i].sirk \/ q = FreeSet,
           \A l \in Blocks : q.mem[l].conn \in {NoDev, s[i].mem[l].conn}
    PROVE  SetsOk([s EXCEPT ![i] = q]) /\ ConnsKept(s, [s EXCEPT ![i] = q])
<1> DEFINE t == [s EXCEPT ![i] = q]
<1>1. /\ t \in [Blocks -> CsisSet] /\ t[i] = q
      /\ \A j \in Blocks \ {i} : t[j] = s[j]
    BY DEF SetsOk, SetOk
<1>2. q.sirk = s[i].sirk \/ (q.sirk = 0 /\ \A l \in Blocks : q.mem[l].conn = NoDev)
    BY FreeSetOk DEF FreeSet, NoMember
<1> HIDE DEF t
<1>3. \A j \in Blocks : SetOk(t[j]) /\ EntryOk(t[j]) BY <1>1 DEF SetsOk
<1>4. t[1].sirk = t[2].sirk => t[1].sirk = 0
    <2>1. CASE i = 1 BY <1>1, <1>2, <2>1 DEF SetsOk, Blocks
    <2>2. CASE i = 2 BY <1>1, <1>2, <2>2 DEF SetsOk, Blocks
    <2>3. QED BY <2>1, <2>2 DEF Blocks
<1>5. ConnsKept(s, t)
    <2> SUFFICES ASSUME NEW j \in Blocks, NEW l \in Blocks
                 PROVE  \/ t[j].mem[l].conn = NoDev
                        \/ t[j].mem[l].conn = s[j].mem[l].conn /\ t[j].sirk = s[j].sirk
        BY DEF ConnsKept
    <2>1. CASE j = i BY <1>1, <1>2, <2>1
    <2>2. CASE j # i BY <1>1, <2>2
    <2>3. QED BY <2>1, <2>2
<1>6. SetsOk(t) BY <1>1, <1>3, <1>4 DEF SetsOk
<1>7. QED BY <1>5, <1>6 DEF t

\* The search timer of a set keeps the sets in order.
LEMMA TimerKeeps ==
    ASSUME NEW p, SetOk(p), EntryOk(p), NEW r, NEW start \in BOOLEAN,
           p.sirk # 0 \/ ~start
    PROVE  LET q == SearchTimer(r, p, start) IN
             /\ SetOk(q) /\ EntryOk(q) /\ q.sirk = p.sirk /\ q.mem = p.mem
<1> DEFINE q == SearchTimer(r, p, start)
<1>1. /\ q \in CsisSet /\ q.sirk = p.sirk /\ q.size = p.size /\ q.num = p.num
      /\ q.mem = p.mem
      /\ p = FreeSet /\ ~start => q = p
    BY TimerShape DEF SetOk
<1> HIDE DEF q
<1>2. EntryOk(q) BY <1>1 DEF EntryOk
<1>3. CASE p.sirk # 0
    <2>1. InUse(q) = InUse(p) BY <1>1 DEF InUse
    <2>2. SetOk(q) BY <1>1, <1>3, <2>1 DEF SetOk
    <2>3. QED BY <1>1, <1>2, <2>2 DEF q
<1>4. CASE p.sirk = 0 BY <1>1, <1>2, <1>4 DEF SetOk, q
<1>5. QED BY <1>3, <1>4

\* csis_scan_timeout
LEMMA TimeoutSets ==
    ASSUME SetsOk(sets), NEW i \in Blocks, ScanTimeout(i)
    PROVE  /\ SetsOk(sets') /\ ConnsKept(sets, sets')
           /\ \A x, l \in Blocks : EntryKept(sets, sets', x, l)
<1> DEFINE no == FALSE
           q == SearchTimer(radio, sets[i], no)
<1>1. sets' = [sets EXCEPT ![i] = q] /\ no \in BOOLEAN /\ ~no BY DEF ScanTimeout
<1> HIDE DEF no
<1>2. SetOk(sets[i]) /\ EntryOk(sets[i]) BY DEF SetsOk
<1>3. SetOk(q) /\ EntryOk(q) /\ q.sirk = sets[i].sirk /\ q.mem = sets[i].mem
    BY <1>1, <1>2, TimerKeeps
<1> HIDE DEF q
<1>4. \A l \in Blocks : q.mem[l].conn \in {NoDev, sets[i].mem[l].conn} BY <1>3
<1>5. SetsOk(sets') /\ ConnsKept(sets, sets') BY <1>1, <1>3, <1>4, ReplaceSet
<1>6. sets'[i] = q /\ \A x \in Blocks \ {i} : sets'[x] = sets[x] BY <1>1 DEF SetsOk
<1>7. \A x, l \in Blocks : EntryKept(sets, sets', x, l) BY <1>3, <1>6 DEF EntryKept
<1>8. QED BY <1>5, <1>7

\* csis_scan_result_cback
LEMMA ResultSets ==
    ASSUME SetsOk(sets), NEW d \in Devices, ScanResult(d)
    PROVE  /\ SetsOk(sets') /\ ConnsKept(sets, sets')
           /\ \A x, l \in Blocks :
                \/ EntryKept(sets, sets', x, l)
                \/ /\ sets[x].sirk = Sirk[d] /\ sets'[x].sirk = Sirk[d] /\ Sirk[d] # 0
                   /\ ~sets[x].mem[l].used
                   /\ sets'[x].mem[l].used /\ sets'[x].mem[l].dev = d
<1> DEFINE i == First(SetsOf(Sirk[d]))
           p == sets[i]
           free == IF Entries(p, d) # {} THEN {First(Entries(p, d))} ELSE Unused(p)
           j == First(free)
           f == FoundMember(p, j, d)
           no == FALSE
           q == SearchTimer(radio, f, no)
<1>1. /\ sets' = [sets EXCEPT ![i] = q] /\ Sirk[d] # 0 /\ SetsOf(Sirk[d]) # {}
      /\ \E l \in free : ~p.mem[l].used
    BY DEF ScanResult
<1>2. i \in Blocks /\ p.sirk = Sirk[d] BY <1>1, SetOfSirk
<1>3. no \in BOOLEAN /\ ~no OBVIOUS
<1> HIDE DEF i, no
<1>4. SetOk(p) /\ EntryOk(p) BY <1>2 DEF SetsOk
<1>5. p \in CsisSet /\ p.size = 2 /\ p.sirk # 0 BY <1>1, <1>2, <1>4 DEF SetOk
<1>6. d # NoDev BY LinksAssumption
<1> HIDE DEF p
<1>7. j \in Blocks /\ ~p.mem[j].used /\ \A l \in Blocks \ {j} : p.mem[l].dev # d
    <2>1. CASE Entries(p, d) # {}
        <3> DEFINE e == First(Entries(p, d))
        <3>1. e \in Blocks /\ p.mem[e].dev = d BY <1>5, <2>1, EntriesIn
        <3>2. free = {e} BY <2>1
        <3> HIDE DEF e, free
        <3>3. {e} \in SUBSET Nat /\ {e} # {} BY <3>1 DEF Blocks
        <3>4. First({e}) \in {e} BY <3>3, FirstIn
        <3>5. j = e BY <3>2, <3>4
        <3>6. QED BY <1>1, <1>4, <1>6, <3>1, <3>2, <3>5 DEF EntryOk, Blocks
    <2>2. CASE Entries(p, d) = {}
        <3>1. free = Unused(p) /\ Unused(p) # {} BY <1>1, <2>2
        <3> HIDE DEF free
        <3>2. j \in Blocks /\ ~p.mem[j].used BY <1>5, <3>1, EntriesIn
        <3>3. \A l \in Blocks : p.mem[l].dev # d BY <1>5, <2>2, EntriesIn
        <3>4. QED BY <3>2, <3>3
    <2>3. QED BY <2>1, <2>2
<1> HIDE DEF j
<1>8. /\ SetOk(f) /\ EntryOk(f) /\ f.sirk = p.sirk
      /\ \A l \in Blocks : f.mem[l].conn = p.mem[l].conn
      /\ f.mem[j].used /\ f.mem[j].dev = d /\ \A l \in Blocks \ {j} : f.mem[l] = p.mem[l]
    BY <1>4, <1>5, <1>7, FoundShape
<1> HIDE DEF f
<1>9. SetOk(q) /\ EntryOk(q) /\ q.sirk = f.sirk /\ q.mem = f.mem
    BY <1>3, <1>8, TimerKeeps
<1> HIDE DEF q
<1>10. \A l \in Blocks : q.mem[l].conn \in {NoDev, sets[i].mem[l].conn} BY <1>8, <1>9 DEF p
<1>11. q.sirk = sets[i].sirk BY <1>8, <1>9 DEF p
<1>12. SetsOk(sets') /\ ConnsKept(sets, sets')
    BY <1>1, <1>2, <1>9, <1>10, <1>11, ReplaceSet
<1>13. sets'[i] = q /\ \A x \in Blocks \ {i} : sets'[x] = sets[x]
    BY <1>1, <1>2 DEF SetsOk
<1>14. ASSUME NEW x \in Blocks, NEW l \in Blocks
       PROVE  \/ EntryKept(sets, sets', x, l)
              \/ /\ sets[x].sirk = Sirk[d] /\ sets'[x].sirk = Sirk[d] /\ Sirk[d] # 0
                 /\ ~sets[x].mem[l].used
                 /\ sets'[x].mem[l].used /\ sets'[x].mem[l].dev = d
    <2>1. CASE x # i BY <1>13, <2>1 DEF EntryKept
    <2>2. CASE x = i /\ l = j
        <3>1. sets[x].sirk = Sirk[d] /\ ~sets[x].mem[l].used BY <1>2, <1>7, <2>2 DEF p
        <3>2. sets'[x].sirk = Sirk[d] /\ sets'[x].mem[l].used /\ sets'[x].mem[l].dev = d
            BY <1>2, <1>8, <1>9, <1>13, <2>2
        <3>3. QED BY <1>1, <3>1, <3>2
    <2>3. CASE x = i /\ l # j BY <1>8, <1>9, <1>13, <2>3 DEF EntryKept, p
    <2>4. QED BY <2>1, <2>2, <2>3
<1>15. QED BY <1>12, <1>14

\* lepl_csis_handle_gatt_disconnection
LEMMA LeaveSets ==
    ASSUME SetsOk(sets), NEW d \in Devices, NEW r, HandleDisconnection(d, r)
    PROVE  /\ SetsOk(sets') /\ ConnsKept(sets, sets')
           /\ clcb[Block(d)].csis =>
                \A i, l \in Blocks : sets[i].sirk = clcb[Block(d)].sirk /\ sets[i].sirk # 0
                                        => sets'[i].mem[l].conn # d
           /\ \/ sets' = sets /\ amiss' = AmissLost(d)
              \/ \E i \in Blocks :
                    /\ sets[i].sirk # 0 /\ sets[i].sirk = clcb[Block(d)].sirk
                    /\ \A x \in Blocks \ {i} : sets'[x] = sets[x]
                    /\ LeavesAt(sets[i], sets'[i], d)
                    /\ amiss' = AmissLeft(sets[i], d)
<1> DEFINE k == clcb[Block(d)]
           s == SetsOf(k.sirk)
           i == First(s)
<1>0. d # NoDev BY LinksAssumption
<1>1. CASE k.csis /\ s # {} /\ Entries(sets[i], d) # {}
    <2> DEFINE q == LeaveSet(r, sets[i], d, k.disc)
    <2>1. sets' = [sets EXCEPT ![i] = q] /\ amiss' = AmissLeft(sets[i], d)
        BY <1>1 DEF HandleDisconnection
    <2>2. i \in Blocks /\ sets[i].sirk = k.sirk BY <1>1, SetOfSirk
    <2>3. SetOk(sets[i]) /\ EntryOk(sets[i]) BY <2>2 DEF SetsOk
    <2> HIDE DEF i, k
    <2>4. /\ SetOk(q) /\ EntryOk(q) /\ sets[i].sirk # 0
          /\ q.sirk = sets[i].sirk \/ q = FreeSet
          /\ \A l \in Blocks : \/ q.mem[l].conn = NoDev
                               \/ q.mem[l].conn = sets[i].mem[l].conn /\ q.mem[l].conn # d
          /\ LeavesAt(sets[i], q, d)
        BY <1>1, <2>3, LeaveShape
    <2> HIDE DEF q
    <2>5. \A l \in Blocks : q.mem[l].conn \in {NoDev, sets[i].mem[l].conn} BY <2>4
    <2>6. SetsOk(sets') /\ ConnsKept(sets, sets') BY <2>1, <2>2, <2>4, <2>5, ReplaceSet
    <2>7. sets'[i] = q /\ \A x \in Blocks \ {i} : sets'[x] = sets[x] BY <2>1, <2>2 DEF SetsOk
    <2>8. \A j \in Blocks : sets[j].sirk = k.sirk => j = i
        BY <2>2, <2>4 DEF SetsOk, Blocks
    <2>9. \A l \in Blocks : sets'[i].mem[l].conn # d BY <1>0, <2>4, <2>7
    <2>10. \A j, l \in Blocks : sets[j].sirk = k.sirk => sets'[j].mem[l].conn # d
        BY <2>8, <2>9
    <2>11. \E x \in Blocks :
             /\ sets[x].sirk # 0 /\ sets[x].sirk = clcb[Block(d)].sirk
             /\ \A y \in Blocks \ {x} : sets'[y] = sets[y]
             /\ LeavesAt(sets[x], sets'[x], d)
             /\ amiss' = AmissLeft(sets[x], d)
        BY <2>1, <2>2, <2>4, <2>7 DEF k
    <2>12. QED BY <2>6, <2>10, <2>11 DEF k
<1>2. CASE ~(k.csis /\ s # {} /\ Entries(sets[i], d) # {})
    <2>1. sets' = sets /\ amiss' = AmissLost(d) BY <1>2 DEF HandleDisconnection
    <2>2. ConnsKept(sets, sets') BY <2>1 DEF ConnsKept
    <2>3. ASSUME k.csis, NEW j \in Blocks, NEW l \in Blocks, sets[j].sirk = k.sirk, sets[j].sirk # 0
          PROVE  sets[j].mem[l].conn # d
        <3>1. s # {} BY <2>3 DEF SetsOf
        <3>2. i \in Blocks /\ sets[i].sirk = k.sirk BY <3>1, SetOfSirk
        <3>3. i = j BY <2>3, <3>2 DEF SetsOk, Blocks
        <3>4. Entries(sets[j], d) = {} BY <1>2, <2>3, <3>1, <3>3
        <3>5. SetOk(sets[j]) /\ EntryOk(sets[j]) BY <2>3 DEF SetsOk
        <3>6. sets[j] \in CsisSet /\ sets[j].size = 2 BY <2>3, <3>5 DEF SetOk
        <3>7. sets[j].mem[l].dev # d BY <2>3, <3>4, <3>6, EntriesIn
        <3>8. QED BY <1>0, <2>3, <3>5, <3>7 DEF EntryOk
    <2>4. QED BY <2>1, <2>2, <2>3
<1>3. QED BY <1>1, <1>2

\* The set that a device with a SIRK joins: one on record, or a new one.
LEMMA JoinShape ==
    ASSUME SetsOk(sets), NEW s \in Nat, s # 0, JoinIndex(s) # {}
    PROVE  LET i == First(JoinIndex(s))
               p == JoinSets(s)[i]
           IN  /\ i \in Blocks /\ p \in CsisSet /\ p.sirk = s /\ p.size = 2
               /\ p.num = InUse(p) /\ EntryOk(p)
               /\ 1 <= p.num \/ p.mem = [j \in Blocks |-> NoMember]
               /\ JoinSets(s) \in [Blocks -> CsisSet]
               /\ \A j \in Blocks \ {i} : JoinSets(s)[j] = sets[j] /\ sets[j].sirk # s
               /\ \A l \in Blocks : \/ p.mem[l].conn = NoDev
                                    \/ p.mem[l].conn = sets[i].mem[l].conn /\ sets[i].sirk = s
               /\ p = sets[i] \/ (sets[i] = FreeSet /\ p.mem = [j \in Blocks |-> NoMember])
<1> DEFINE t == JoinSets(s)
           i == First(JoinIndex(s))
           p == t[i]
<1>1. i \in Blocks /\ p.sirk = s
    <2>1. JoinIndex(s) \in SUBSET Nat BY DEF JoinIndex, Blocks
    <2>2. First(JoinIndex(s)) \in JoinIndex(s) BY <2>1, FirstIn
    <2>3. QED BY <2>2 DEF JoinIndex
<1>2. CASE SetsOf(s) # {}
    <2>1. t = sets BY <1>2 DEF JoinSets
    <2>2. SetOk(sets[i]) /\ EntryOk(sets[i]) BY <1>1 DEF SetsOk
    <2>3. sets[i].sirk = s BY <1>1, <2>1
    <2> HIDE DEF i
    <2>4. sets[i] \in CsisSet /\ sets[i].size = 2 /\ 1 <= sets[i].num /\ sets[i].num = InUse(sets[i])
        BY <2>2, <2>3 DEF SetOk
    <2>5. \A j \in Blocks \ {i} : sets[j].sirk # s
        BY <1>1, <2>3 DEF SetsOk, Blocks
    <2>6. sets \in [Blocks -> CsisSet] BY DEF SetsOk
    <2>7. QED BY <1>1, <2>1, <2>2, <2>3, <2>4, <2>5, <2>6 DEF i
<1>3. CASE SetsOf(s) = {}
    <2> DEFINE free == {j \in Blocks : sets[j].num = 0}
               none == [j \in Blocks |-> NoMember]
               f == First(free)
               q == [sets[f] EXCEPT !.sirk = s, !.size = SetSize, !.mem = none]
    <2>1. \A j \in Blocks : sets[j].sirk # s BY <1>3 DEF SetsOf
    <2>2. t = AllocSet(s) BY <1>3 DEF JoinSets
    <2>3. free # {}
        <3>1. ASSUME free = {} PROVE FALSE
            <4>1. t = sets BY <2>2, <3>1 DEF AllocSet
            <4>2. QED BY <1>1, <2>1, <4>1
        <3>2. QED BY <3>1
    <2>4. t = [sets EXCEPT ![f] = q] BY <2>2, <2>3 DEF AllocSet
    <2>5. f \in free
        <3>1. free \in SUBSET Nat BY DEF Blocks
        <3> HIDE DEF free
        <3>2. QED BY <2>3, <3>1, FirstIn
    <2>6. f \in Blocks /\ sets[f].num = 0 BY <2>5
    <2> HIDE DEF free, f
    <2>7. SetOk(sets[f]) /\ sets[f] \in CsisSet BY <2>6 DEF SetsOk, SetOk
    <2>8. sets[f].mem \in [Blocks -> Member] BY <2>7 DEF CsisSet
    <2>9. none \in [Blocks -> Member]
        <3>1. NoMember \in Member BY DEF NoMember, Member, Addr
        <3>2. QED BY <3>1
    <2>10. \A l \in Blocks : none[l] = NoMember OBVIOUS
    <2> HIDE DEF none
    <2>11. q \in CsisSet /\ q.sirk = s /\ q.size = 2 /\ q.num = 0 /\ q.mem = none
        BY <2>6, <2>7, <2>9, ZenonT(30) DEF CsisSet, SetSize
    <2> HIDE DEF q
    <2>12. /\ t \in [Blocks -> CsisSet] /\ t[f] = q
           /\ \A j \in Blocks \ {f} : t[j] = sets[j]
        BY <2>4, <2>6, <2>11 DEF SetsOk
    <2> HIDE DEF t
    <2>13. i = f BY <1>1, <2>1, <2>12
    <2>14. NoMember.conn = NoDev /\ NoMember.dev = NoDev /\ NoMember.used = FALSE BY DEF NoMember
    <2>15. EntryOk(q) BY <2>10, <2>11, <2>14 DEF EntryOk, Blocks
    <2>16. q.num = InUse(q) BY <2>10, <2>11, <2>14 DEF InUse, Bit, Blocks
    <2>17. \A l \in Blocks : q.mem[l].conn = NoDev BY <2>10, <2>11, <2>14
    <2> HIDE DEF i
    <2>18. p = q BY <2>12, <2>13
    <2>19. sets[f] = FreeSet BY <2>6, <2>7 DEF SetOk
    <2>20. QED BY <1>1, <2>1, <2>11, <2>12, <2>13, <2>15, <2>16, <2>17, <2>18, <2>19 DEF none, t, i
<1>4. QED BY <1>2, <1>3

\* Device d has joined the set of SIRK s, set i of t: one that was on record, or
\* a free one.  Nothing else changes.
JoinsAt(old, t, i, d, s) ==
    /\ t[i].sirk = s
    /\ \A x \in Blocks \ {i} : t[x] = old[x] /\ old[x].sirk # s
    /\ \E p :
        /\ \/ p.mem = old[i].mem /\ old[i].sirk = s
           \/ old[i] = FreeSet /\ p.mem = FreeSet.mem
        /\ EntersAt(p, t[i], d)

\* on_read_remote_cmpl
LEMMA JoinedSets ==
    ASSUME SetsOk(sets), clcb \in [Blocks -> Clcb], NEW d \in Devices, ReadsComplete(d)
    PROVE  LET k == clcb[Block(d)] IN
           /\ SetsOk(sets')
           /\ \A i, l \in Blocks :
                \/ sets'[i].mem[l].conn = NoDev
                \/ sets'[i].mem[l].conn = sets[i].mem[l].conn /\ sets'[i].sirk = sets[i].sirk
                \/ sets'[i].mem[l].conn = d /\ k.csis /\ sets'[i].sirk = k.sirk
           /\ \/ sets' = sets
              \/ /\ k.csis /\ k.sirk # 0
                 /\ \E i \in Blocks : JoinsAt(sets, sets', i, d, k.sirk)
           /\ k.csis /\ k.sirk # 0 /\ JoinIndex(k.sirk) # {} =>
                \E i \in Blocks : JoinsAt(sets, sets', i, d, k.sirk)
<1> DEFINE k == clcb[Block(d)]
           t == JoinSets(k.sirk)
           i == First(JoinIndex(k.sirk))
           p == SetCurrentDevice(t[i], d)
           start == p.num < p.size
           q == SearchTimer(radio, p, start)
<1>1. k.sirk \in Nat BY BlockOf DEF ReadsComplete, Clcb
<1>2. CASE ~k.csis \/ JoinIndex(k.sirk) = {}
    <2>1. sets' = sets BY <1>2 DEF ReadsComplete
    <2> HIDE DEF k
    <2>2. ~(k.csis /\ k.sirk # 0 /\ JoinIndex(k.sirk) # {}) BY <1>2
    <2>3. QED BY <2>1, <2>2 DEF k
<1>3. CASE k.csis /\ JoinIndex(k.sirk) # {} /\ k.sirk = 0
    <2>1. sets' = [t EXCEPT ![i] = q] BY <1>3 DEF ReadsComplete
    <2>2. i \in Blocks /\ t[i].sirk = 0
        <3>1. JoinIndex(0) \in SUBSET Nat BY DEF JoinIndex, Blocks
        <3>2. First(JoinIndex(0)) \in JoinIndex(0) BY <1>3, <3>1, FirstIn
        <3>3. QED BY <1>3, <3>2 DEF JoinIndex
    <2>3. t = sets
        <3>1. CASE SetsOf(0) # {} BY <1>3, <3>1 DEF JoinSets
        <3>2. CASE SetsOf(0) = {}
            <4>1. \A j \in Blocks : sets[j].sirk # 0 BY <3>2 DEF SetsOf
            <4>2. \A j \in Blocks : sets[j].num # 0 BY <4>1 DEF SetsOk, SetOk
            <4>3. {j \in Blocks : sets[j].num = 0} = {} BY <4>2
            <4>4. t = AllocSet(0) BY <1>3, <3>2 DEF JoinSets
            <4>5. QED BY <4>3, <4>4 DEF AllocSet
        <3>3. QED BY <3>1, <3>2
    <2> HIDE DEF i, t
    <2>4. t[i] = FreeSet BY <2>2, <2>3 DEF SetsOk, SetOk
    <2>5. Entries(FreeSet, d) = {}
        <3>1. 1..0 = {} OBVIOUS
        <3>2. QED BY <3>1, FreeSetOk DEF Entries
    <2>6. FreeSet.num = 0 /\ FreeSet.size = 0 /\ FreeSet \in CsisSet
        BY FreeSetOk DEF FreeSet, SetOk
    <2>7. p = FreeSet BY <2>4, <2>5, <2>6 DEF SetCurrentDevice
    <2>8. start \in BOOLEAN /\ ~start BY <2>6, <2>7
    <2> HIDE DEF p, start
    <2>9. q = FreeSet BY <2>6, <2>7, <2>8, TimerShape
    <2>10. sets' = sets BY <2>1, <2>3, <2>4, <2>9 DEF SetsOk
    <2>11. QED BY <1>3, <2>10
<1>4. CASE k.csis /\ JoinIndex(k.sirk) # {} /\ k.sirk # 0
    <2>1. sets' = [t EXCEPT ![i] = q] BY <1>4 DEF ReadsComplete
    <2>2. /\ i \in Blocks /\ t[i] \in CsisSet /\ t[i].sirk = k.sirk /\ t[i].size = 2
          /\ t[i].num = InUse(t[i]) /\ EntryOk(t[i])
          /\ 1 <= t[i].num \/ t[i].mem = [j \in Blocks |-> NoMember]
          /\ t \in [Blocks -> CsisSet]
          /\ \A j \in Blocks \ {i} : t[j] = sets[j] /\ sets[j].sirk # k.sirk
          /\ \A l \in Blocks : \/ t[i].mem[l].conn = NoDev
                               \/ t[i].mem[l].conn = sets[i].mem[l].conn /\ sets[i].sirk = k.sirk
          /\ t[i] = sets[i] \/ (sets[i] = FreeSet /\ t[i].mem = [j \in Blocks |-> NoMember])
        BY <1>1, <1>4, JoinShape
    <2> HIDE DEF i, t, k
    <2>3. t[i].sirk # 0 BY <1>4, <2>2
    <2>4. /\ SetOk(p) /\ EntryOk(p) /\ p.sirk = t[i].sirk
          /\ \A l \in Blocks : p.mem[l].conn \in {t[i].mem[l].conn, d}
        BY <2>2, <2>3, CurrentShape
    <2> HIDE DEF p
    <2>5. start \in BOOLEAN OBVIOUS
    <2> HIDE DEF start
    <2>6. SetOk(q) /\ EntryOk(q) /\ q.sirk = p.sirk /\ q.mem = p.mem
        BY <2>3, <2>4, <2>5, TimerKeeps
    <2> HIDE DEF q
    <2>7. /\ sets' \in [Blocks -> CsisSet] /\ sets'[i] = q
          /\ \A j \in Blocks \ {i} : sets'[j] = sets[j]
        BY <2>1, <2>2, <2>6 DEF SetOk
    <2>8. \A j \in Blocks : SetOk(sets'[j]) /\ EntryOk(sets'[j])
        BY <2>6, <2>7 DEF SetsOk
    <2>9. sets'[1].sirk # sets'[2].sirk
        <3>1. CASE i = 1 BY <2>2, <2>4, <2>6, <2>7, <3>1 DEF Blocks
        <3>2. CASE i = 2 BY <2>2, <2>4, <2>6, <2>7, <3>2 DEF Blocks
        <3>3. QED BY <2>2, <3>1, <3>2 DEF Blocks
    <2>10. SetsOk(sets') BY <2>7, <2>8, <2>9 DEF SetsOk
    <2>11. ASSUME NEW j \in Blocks, NEW l \in Blocks
           PROVE  \/ sets'[j].mem[l].conn = NoDev
                  \/ sets'[j].mem[l].conn = sets[j].mem[l].conn /\ sets'[j].sirk = sets[j].sirk
                  \/ sets'[j].mem[l].conn = d /\ k.csis /\ sets'[j].sirk = k.sirk
        <3>1. CASE j = i BY <1>4, <2>2, <2>4, <2>6, <2>7, <3>1
        <3>2. CASE j # i BY <2>7, <3>2
        <3>3. QED BY <3>1, <3>2
    <2>12. JoinsAt(sets, sets', i, d, k.sirk)
        <3>1. sets'[i].sirk = k.sirk BY <2>2, <2>4, <2>6, <2>7
        <3>2. EntersAt(t[i], p, d) BY <2>2, <2>3, CurrentShape DEF p
        <3>3. EntersAt(t[i], sets'[i], d)
            <4>1. CASE p.mem = t[i].mem /\ \A l \in Blocks : t[i].mem[l].used /\ t[i].mem[l].dev # d
                <5>1. QED BY <2>6, <2>7, <4>1 DEF EntersAt
            <4>2. CASE \E j \in Blocks : /\ t[i].mem[j].dev = d \/ ~t[i].mem[j].used
                                        /\ p.mem[j] = Joined(d)
                                        /\ \A l \in Blocks \ {j} : p.mem[l] = t[i].mem[l]
                BY <2>6, <2>7, <4>2 DEF EntersAt
            <4>3. QED BY <3>2, <4>1, <4>2 DEF EntersAt
        <3>4. FreeSet.mem = [j \in Blocks |-> NoMember] BY DEF FreeSet
        <3>5. \/ t[i].mem = sets[i].mem /\ sets[i].sirk = k.sirk
              \/ sets[i] = FreeSet /\ t[i].mem = FreeSet.mem
            BY <2>2, <3>4
        <3>6. QED BY <2>2, <2>7, <3>1, <3>3, <3>5 DEF JoinsAt
    <2>13. \E x \in Blocks : JoinsAt(sets, sets', x, d, k.sirk) BY <2>2, <2>12
    <2>14. QED BY <1>4, <2>10, <2>11, <2>13 DEF k
<1>5. QED BY <1>2, <1>3, <1>4

(***************************************************************************)
(* Types, links and control blocks                                         *)
(***************************************************************************)

\* The control blocks: in use for a link that is up, no two for one device,
\* and a pairing under way only once the link is being secured.
BlocksOk(c, u) ==
    /\ c \in [Blocks -> Clcb]
    /\ \A b \in Blocks : c[b].dev \in u \cup {NoDev}
    /\ c[1].dev = c[2].dev => c[1].dev = NoDev
    /\ \A b \in Blocks : c[b].pend # "NO" => c[b].phase # "UP"

\* Links and the attempt to connect another device.
UpOk == /\ up \subseteq Devices /\ IsFiniteSet(up)
        /\ radio.create \notin up

\* The simulated NVRAM and the copy of the host.
Stored == nvram \in [1..(NvSlots + 1) -> Slot] /\ host \in [1..NvSlots -> Slot]

\* The inductive invariant.
LinkInv ==
    /\ Backed(radio) /\ UpOk /\ BlocksOk(clcb, up) /\ SetsOk(sets) /\ Stored
    /\ closing \subseteq Devices /\ amiss \in Amiss /\ used \in Budget

\* The device that the stack is asked to connect to.
LEMMA CreateShape ==
    ASSUME NEW r \in Radio, NEW d
    PROVE  /\ \A cb : ScanOn(r, cb).create = r.create
           /\ ScanOff(r).create = r.create /\ ScanOff(r) \in Radio
           /\ RadioConnected(r).create = r.create /\ RadioConnected(r) \in Radio
           /\ RadioDisconnected(r, d).create = r.create
           /\ RadioDisconnected(r, d) \in Radio
           /\ \/ CreateConnection(r, d).create = r.create
              \/ r.create = NoDev /\ CreateConnection(r, d).create = d /\ d \notin up
<1>1. \A cb : ScanOn(r, cb).create = r.create BY DEF ScanOn, Radio
<1>2. ScanOff(r).create = r.create /\ ScanOff(r) \in Radio BY DEF ScanOff, Radio, Activities
<1>3. RadioConnected(r).create = r.create /\ RadioConnected(r) \in Radio
    BY DEF RadioConnected, Radio, Activities, Addr
<1>4. RadioDisconnected(r, d).create = r.create /\ RadioDisconnected(r, d) \in Radio
    <2>1. CASE r.peer = d BY <2>1 DEF RadioDisconnected, Radio, Activities, Addr
    <2>2. CASE r.peer # d BY <2>2 DEF RadioDisconnected
    <2>3. QED BY <2>1, <2>2
<1>5. \/ CreateConnection(r, d).create = r.create
      \/ r.create = NoDev /\ CreateConnection(r, d).create = d /\ d \notin up
    <2>1. CASE r.create # NoDev \/ d \in up BY <2>1 DEF CreateConnection
    <2>2. CASE ~(r.create # NoDev \/ d \in up) BY <2>2 DEF CreateConnection, Radio
    <2>3. QED BY <2>1, <2>2
<1>6. QED BY <1>1, <1>2, <1>3, <1>4, <1>5

\* An attempt that has ended is no attempt any more.
LEMMA AttemptOver ==
    ASSUME radio \in Radio, up \subseteq Devices, NEW d,
           radio' = RadioDisconnected([radio EXCEPT !.create = NoDev], d)
    PROVE  radio'.create \notin up
<1> DEFINE r == [radio EXCEPT !.create = NoDev]
<1>1. r \in Radio /\ r.create = NoDev BY DEF Radio, Addr
<1> HIDE DEF r
<1>2. RadioDisconnected(r, d).create = NoDev BY <1>1, CreateShape
<1>3. QED BY <1>2, LinksAssumption DEF r

\* The search for a member leaves the connection attempt alone.
LEMMA SearchCreate ==
    ASSUME NEW r \in Radio, NEW p, NEW start, NEW d, NEW disc
    PROVE  /\ SearchRadio(r, p, start).create = r.create
           /\ LeaveRadio(r, p, d, disc).create = r.create
<1>1. \A x, y : SearchRadio(r, x, y).create = r.create
    BY CreateShape DEF SearchRadio
<1>2. QED BY <1>1 DEF LeaveRadio

\* The connection to the other member is one to a device without a link.
LEMMA PairCreate ==
    ASSUME NEW r \in Radio, NEW k
    PROVE  \/ ConnectPair(r, k).create = r.create
           \/ r.create = NoDev /\ ConnectPair(r, k).create \in Devices \ (up \cup {k.acl})
<1> DEFINE pair == nvram[First(KeySlots(k.dev))].pair
           q == IF r.act = "SCANNING" THEN ScanOff(r) ELSE r
<1>1. q \in Radio /\ q.create = r.create BY CreateShape
<1>2. \/ ConnectPair(r, k) = r
      \/ ConnectPair(r, k) = CreateConnection(q, pair) /\ pair \in Devices \ {k.dev, k.acl}
    BY DEF ConnectPair
<1> HIDE DEF q, pair
<1>3. \/ CreateConnection(q, pair).create = q.create
      \/ /\ q.create = NoDev /\ CreateConnection(q, pair).create = pair
         /\ pair \notin up
    BY <1>1, CreateShape
<1>4. QED BY <1>1, <1>2, <1>3

\* Steps in the life of a link: the block of the device changes, its device
\* does not, and a pairing that is nearly complete stays so until it is.
LEMMA PhaseShape ==
    ASSUME LinkInv, NEW d \in Devices,
           Secure(d) \/ KeyUpdate(d) \/ PairingComplete(d) \/ Encrypted(d)
             \/ Discovered(d) \/ SirkRead(d) \/ ReadsComplete(d)
    PROVE  LET B == Block(d) IN
           /\ HasBlock(d) /\ B \in Blocks /\ clcb[B].dev = d
           /\ clcb' \in [Blocks -> Clcb]
           /\ \A b \in Blocks \ {B} : clcb'[b] = clcb[b]
           /\ clcb'[B].dev = d
           /\ clcb'[B].pend # "NO" => clcb'[B].phase # "UP"
           /\ clcb'[B].sirk \in {clcb[B].sirk, Sirk[d]}
           /\ clcb'[B].phase = "READY" => clcb[B].phase = "READY" \/ ReadsComplete(d)
           /\ clcb[B].pend = "COMPLETE" => clcb'[B].pend = "COMPLETE" \/ PairingComplete(d)
           /\ \/ clcb[B].phase # "READY"
              \/ clcb'[B].phase = clcb[B].phase /\ clcb'[B].csis = clcb[B].csis
                    /\ clcb'[B].sirk = clcb[B].sirk
<1> DEFINE B == Block(d)
<1>1. HasBlock(d)
    BY DEF Secure, KeyUpdate, PairingComplete, Encrypted, Discovered, SirkRead, ReadsComplete
<1>2. B \in Blocks /\ clcb[B].dev = d BY <1>1, BlockOf
<1>3. clcb \in [Blocks -> Clcb] /\ clcb[B] \in Clcb BY <1>2 DEF LinkInv, BlocksOk
<1>4. clcb[B].pend # "NO" => clcb[B].phase # "UP" BY <1>2 DEF LinkInv, BlocksOk
<1>5. Sirk[d] \in Nat BY LinksAssumption
<1>6. CASE Secure(d)
    <2>1. PICK x \in {"KEYS", "NO"} :
            /\ clcb' = [clcb EXCEPT ![B].phase = "SEC", ![B].pend = x]
            /\ clcb[B].phase = "UP"
        BY <1>6 DEF Secure
    <2> HIDE DEF B
    <2>2. QED BY <1>1, <1>2, <1>3, <1>4, <2>1 DEF Clcb, Phases, B
<1>7. CASE KeyUpdate(d)
    <2>1. clcb' = [clcb EXCEPT ![B].pend = "COMPLETE"] /\ clcb[B].pend = "KEYS"
        BY <1>7 DEF KeyUpdate
    <2> HIDE DEF B
    <2>2. QED BY <1>1, <1>2, <1>3, <1>4, <2>1 DEF Clcb, Phases, B
<1>8. CASE PairingComplete(d)
    <2>1. clcb' = [clcb EXCEPT ![B].pend = "NO"] BY <1>8 DEF PairingComplete
    <2> HIDE DEF B
    <2>2. QED BY <1>1, <1>2, <1>3, <1>4, <1>8, <2>1 DEF Clcb, Phases, B
<1>9. CASE Encrypted(d)
    <2>1. PICK x \in {"FOUND", "ENC"} : clcb' = [clcb EXCEPT ![B].phase = x] /\ clcb[B].phase = "SEC"
        BY <1>9 DEF Encrypted
    <2> HIDE DEF B
    <2>2. QED BY <1>1, <1>2, <1>3, <1>4, <2>1 DEF Clcb, Phases, B
<1>10. CASE Discovered(d)
    <2>1. PICK x \in BOOLEAN :
            /\ clcb' = [clcb EXCEPT ![B].phase = "FOUND", ![B].csis = x]
            /\ clcb[B].phase = "ENC"
        BY <1>10 DEF Discovered
    <2> HIDE DEF B
    <2>2. QED BY <1>1, <1>2, <1>3, <1>4, <2>1 DEF Clcb, Phases, B
<1>11. CASE SirkRead(d)
    <2>1. /\ clcb' = [clcb EXCEPT ![B].phase = "SIRK", ![B].sirk = Sirk[d]]
          /\ clcb[B].phase = "FOUND"
        BY <1>11 DEF SirkRead
    <2> HIDE DEF B
    <2>2. QED BY <1>1, <1>2, <1>3, <1>4, <1>5, <2>1 DEF Clcb, Phases, B
<1>12. CASE ReadsComplete(d)
    <2>1. /\ clcb' = [clcb EXCEPT ![B].phase = "READY", ![B].hash = TRUE]
          /\ clcb[B].phase \in {"SIRK", "FOUND"}
        BY <1>12 DEF ReadsComplete
    <2> HIDE DEF B
    <2>2. QED BY <1>1, <1>2, <1>3, <1>4, <1>12, <2>1 DEF Clcb, Phases, B
<1>13. QED BY <1>6, <1>7, <1>8, <1>9, <1>10, <1>11, <1>12

\* A free control block.
LEMMA FreeClcbOk == FreeClcb \in Clcb /\ FreeClcb.dev = NoDev /\ FreeClcb.pend = "NO"
BY DEF FreeClcb, Clcb, Phases, Addr

\* The block that a new link takes: a free one, or the last one, which then
\* keeps its device, its phase and its pairing.
LEMMA ConnectShape ==
    ASSUME LinkInv, NEW d \in Devices, NEW r, HandleConnection(d, r)
    PROVE  LET A == AllocBlock IN
           /\ A \in Blocks /\ clcb' \in [Blocks -> Clcb] /\ up' = up \cup {d}
           /\ \A b \in Blocks \ {A} : clcb'[b] = clcb[b]
           /\ \/ clcb[A].dev = NoDev /\ clcb'[A].dev = d /\ clcb'[A].pend = "NO"
              \/ /\ \A b \in Blocks : clcb[b].dev # NoDev
                 /\ clcb'[A].dev = clcb[A].dev /\ clcb'[A].pend = clcb[A].pend
                 /\ clcb'[A].phase = clcb[A].phase
           /\ clcb[A].dev = NoDev => clcb'[A].phase = "UP" /\ clcb'[A].sirk = 0
           /\ \E k : k.acl = d /\ radio' = ConnectPair(RadioConnected(r), k)
<1> DEFINE A == AllocBlock
           k == NewClcb(clcb[A], d)
           n == nvram[First(KeySlots(k.dev))]
<1>1. A \in Blocks /\ ((\E b \in Blocks : clcb[b].dev = NoDev) => clcb[A].dev = NoDev)
    BY BlockFor
<1>2. /\ clcb' = [clcb EXCEPT ![A] = Cached(k)] /\ up' = up \cup {d}
      /\ radio' = ConnectPair(RadioConnected(r), k)
    BY DEF HandleConnection
<1>3. clcb \in [Blocks -> Clcb] /\ clcb[A] \in Clcb BY <1>1 DEF LinkInv, BlocksOk
<1> HIDE DEF A
<1>4. /\ k \in Clcb /\ k.acl = d
      /\ clcb[A].dev = NoDev => k.dev = d /\ k.pend = "NO" /\ k.phase = "UP" /\ k.sirk = 0
      /\ clcb[A].dev # NoDev => k.dev = clcb[A].dev /\ k.pend = clcb[A].pend /\ k.phase = clcb[A].phase
    <2>1. CASE clcb[A].dev = NoDev
        <3>1. k = [FreeClcb EXCEPT !.dev = d, !.acl = d] BY <2>1 DEF NewClcb
        <3> HIDE DEF k
        <3>2. FreeClcb.phase = "UP" /\ FreeClcb.sirk = 0 BY DEF FreeClcb
        <3>3. QED BY <2>1, <3>1, <3>2, FreeClcbOk DEF Clcb, Addr
    <2>2. CASE clcb[A].dev # NoDev
        <3>1. k = [clcb[A] EXCEPT !.acl = d] BY <2>2 DEF NewClcb
        <3> HIDE DEF k
        <3>2. QED BY <1>3, <2>2, <3>1 DEF Clcb, Addr
    <2>3. QED BY <2>1, <2>2
<1> HIDE DEF k
<1>5. /\ Cached(k) \in Clcb /\ Cached(k).dev = k.dev /\ Cached(k).pend = k.pend
      /\ Cached(k).phase = k.phase /\ Cached(k).sirk = k.sirk
    <2>1. CASE KeySlots(k.dev) = {} BY <1>4, <2>1 DEF Cached
    <2>2. CASE KeySlots(k.dev) # {}
        <3>1. First(KeySlots(k.dev)) \in 1..(NvSlots + 1)
            BY <2>2, SlotOf, LinksAssumption
        <3>2. n \in Slot BY <3>1 DEF LinkInv, Stored
        <3>3. n.csis \in BOOLEAN /\ n.hash \in BOOLEAN BY <3>2 DEF Slot
        <3>4. Cached(k) = [k EXCEPT !.csis = n.csis, !.hash = n.hash] BY <2>2 DEF Cached
        <3> HIDE DEF n
        <3>5. QED BY <1>4, <3>3, <3>4 DEF Clcb
    <2>3. QED BY <2>1, <2>2
<1>6. QED BY <1>1, <1>2, <1>3, <1>4, <1>5 DEF A

\* A disconnect command flags the blocks in use.
LEMMA FlagShape ==
    ASSUME LinkInv, NEW d, DisconnectDevice(d)
    PROVE  /\ clcb' \in [Blocks -> Clcb]
           /\ \A b \in Blocks : /\ clcb'[b].dev = clcb[b].dev /\ clcb'[b].pend = clcb[b].pend
                                /\ clcb'[b].phase = clcb[b].phase /\ clcb'[b].csis = clcb[b].csis
                                /\ clcb'[b].sirk = clcb[b].sirk
<1>1. clcb \in [Blocks -> Clcb] BY DEF LinkInv, BlocksOk
<1>2. \A b \in Blocks : \/ clcb'[b] = clcb[b]
                        \/ clcb'[b] = [clcb[b] EXCEPT !.disc = TRUE]
    BY DEF DisconnectDevice
<1>3. \E f : clcb' = [b \in Blocks |-> f[b]]
    <2>1. clcb' = [b \in Blocks |-> IF clcb[b].dev = NoDev THEN clcb[b]
                                     ELSE [clcb[b] EXCEPT !.disc = TRUE]]
        BY DEF DisconnectDevice
    <2>2. clcb' = [b \in Blocks |-> clcb'[b]] BY <2>1
    <2>3. QED BY <2>2
<1>4. ASSUME NEW b \in Blocks
      PROVE  /\ clcb'[b] \in Clcb
             /\ clcb'[b].dev = clcb[b].dev /\ clcb'[b].pend = clcb[b].pend
             /\ clcb'[b].phase = clcb[b].phase /\ clcb'[b].csis = clcb[b].csis
             /\ clcb'[b].sirk = clcb[b].sirk
    <2>1. clcb[b] \in Clcb BY <1>1
    <2>2. CASE clcb'[b] = clcb[b] BY <2>1, <2>2
    <2>3. CASE clcb'[b] = [clcb[b] EXCEPT !.disc = TRUE] BY <2>1, <2>3 DEF Clcb
    <2>4. QED BY <1>2, <2>2, <2>3
<1>5. QED BY <1>3, <1>4

\* The bounds are counted.
LEMMA UsedStep == LinkInv /\ Next => used' \in Budget
<1> SUFFICES ASSUME LinkInv, Next PROVE used' \in Budget
    OBVIOUS
<1>1. used \in Budget BY DEF LinkInv
<1>2. {MaxCmd, MaxConnect, MaxLoss, MaxUnbond, MaxRestart} \subseteq Nat BY LinksAssumption
<1>3. /\ used.cmd < MaxCmd => [used EXCEPT !.cmd = @ + 1] \in Budget
      /\ used.conn < MaxConnect => [used EXCEPT !.conn = @ + 1] \in Budget
      /\ used.loss < MaxLoss => [used EXCEPT !.loss = @ + 1] \in Budget
      /\ used.unbond < MaxUnbond => [used EXCEPT !.unbond = @ + 1] \in Budget
      /\ used.restart < MaxRestart => [used EXCEPT !.restart = @ + 1] \in Budget
    BY <1>1, <1>2 DEF Budget
<1>4. CASE Host
    <2>1. CASE RpcScanStart \/ RpcScanStop
        BY <1>3, <2>1 DEF RpcScanStart, RpcScanStop, Command
    <2>2. CASE Restart BY <1>3, <2>2 DEF Restart
    <2>3. ASSUME NEW on \in BOOLEAN, RpcAdv(on) PROVE used' \in Budget
        BY <1>3, <2>3 DEF RpcAdv, Command
    <2>4. ASSUME NEW d \in Devices, RpcConnect(d) \/ RpcDisconnect(d) PROVE used' \in Budget
        BY <1>3, <2>4 DEF RpcConnect, RpcDisconnect, Request
    <2>5. ASSUME NEW d \in Devices, RpcCancel(d) PROVE used' \in Budget
        BY <1>3, <2>5 DEF RpcCancel, Command
    <2>6. ASSUME NEW k \in 1..NvSlots, RpcUnbond(k) PROVE used' \in Budget
        BY <1>3, <2>6 DEF RpcUnbond
    <2>7. ASSUME NEW k \in 1..NvSlots, Restore(k) PROVE used' \in Budget
        BY <1>1, <2>7 DEF Restore
    <2>8. QED BY <1>4, <2>1, <2>2, <2>3, <2>4, <2>5, <2>6, <2>7 DEF Host
<1>5. CASE Stack
    <2>1. ASSUME NEW i \in Blocks, ScanTimeout(i) PROVE used' \in Budget
        BY <1>1, <2>1 DEF ScanTimeout
    <2>2. ASSUME NEW d \in Devices, Connected(d) \/ Incoming(d) PROVE used' \in Budget
        BY <1>1, <2>2 DEF Connected, Incoming, HandleConnection
    <2>3. ASSUME NEW d \in Devices, AttemptFails(d) PROVE used' \in Budget
        BY <1>3, <2>3 DEF AttemptFails
    <2>4. ASSUME NEW d \in Devices, Disconnected(d) PROVE used' \in Budget
        BY <1>1, <1>3, <2>4 DEF Disconnected
    <2>5. ASSUME NEW d \in Devices,
                 \/ ScanResult(d) \/ Secure(d) \/ KeyUpdate(d) \/ PairingComplete(d)
                 \/ Encrypted(d) \/ Discovered(d) \/ SirkRead(d) \/ ReadsComplete(d)
          PROVE  used' \in Budget
        BY <1>1, <2>5 DEF ScanResult, Secure, KeyUpdate, PairingComplete, Encrypted,
            Discovered, SirkRead, ReadsComplete
    <2>6. QED BY <1>5, <2>1, <2>2, <2>3, <2>4, <2>5 DEF Stack
<1>6. QED BY <1>4, <1>5 DEF Next

\* The sets stay in order.
LEMMA SetsStep == LinkInv /\ Next => SetsOk(sets')
<1> SUFFICES ASSUME LinkInv, Next PROVE SetsOk(sets')
    OBVIOUS
<1>1. SetsOk(sets) /\ clcb \in [Blocks -> Clcb] BY DEF LinkInv, BlocksOk
<1>2. CASE Host
    <2>1. CASE RpcScanStart \/ RpcScanStop
        BY <1>1, <2>1 DEF RpcScanStart, RpcScanStop
    <2>2. CASE Restart
        <3>1. sets' = [i \in Blocks |-> FreeSet] BY <2>2 DEF Restart
        <3>2. FreeSet \in CsisSet BY FreeSetOk DEF SetOk
        <3>3. \A i \in Blocks : sets'[i] = FreeSet BY <3>1
        <3>4. sets' \in [Blocks -> CsisSet] BY <3>1, <3>2
        <3>5. QED BY <3>3, <3>4, FreeSetOk DEF SetsOk, Blocks
    <2>3. ASSUME NEW on \in BOOLEAN, RpcAdv(on) PROVE sets' = sets
        BY <2>3 DEF RpcAdv
    <2>4. ASSUME NEW d \in Devices, RpcConnect(d) \/ RpcDisconnect(d) \/ RpcCancel(d)
          PROVE  sets' = sets
        BY <2>4 DEF RpcConnect, RpcDisconnect, RpcCancel, AttemptEnds
    <2>5. ASSUME NEW k \in 1..NvSlots, RpcUnbond(k) \/ Restore(k) PROVE sets' = sets
        BY <2>5 DEF RpcUnbond, Restore
    <2>6. QED BY <1>1, <1>2, <2>1, <2>2, <2>3, <2>4, <2>5 DEF Host
<1>3. CASE Stack
    <2>1. ASSUME NEW i \in Blocks, ScanTimeout(i) PROVE SetsOk(sets')
        BY <1>1, <2>1, TimeoutSets
    <2>2. ASSUME NEW d \in Devices, ScanResult(d) PROVE SetsOk(sets')
        BY <1>1, <2>2, ResultSets
    <2>3. ASSUME NEW d \in Devices, Disconnected(d) PROVE SetsOk(sets')
        <3>1. \/ sets' = sets
              \/ HandleDisconnection(d, RadioDisconnected(radio, d))
            BY <2>3 DEF Disconnected
        <3>2. QED BY <1>1, <3>1, LeaveSets
    <2>4. ASSUME NEW d \in Devices, ReadsComplete(d) PROVE SetsOk(sets')
        BY <1>1, <2>4, JoinedSets
    <2>5. ASSUME NEW d \in Devices,
                 \/ Connected(d) \/ Incoming(d) \/ AttemptFails(d) \/ Secure(d) \/ KeyUpdate(d)
                 \/ PairingComplete(d) \/ Encrypted(d) \/ Discovered(d) \/ SirkRead(d)
          PROVE  sets' = sets
        BY <2>5 DEF Connected, Incoming, HandleConnection, AttemptFails, AttemptEnds, Secure,
            KeyUpdate, PairingComplete, Encrypted, Discovered, SirkRead
    <2>6. QED BY <1>1, <1>3, <2>1, <2>2, <2>3, <2>4, <2>5 DEF Stack
<1>4. QED BY <1>2, <1>3 DEF Next

\* What is saved of a device that disconnects.
LEMMA SavedTyped ==
    ASSUME SetsOk(sets), NEW n \in Slot, NEW c \in Clcb
    PROVE  /\ SavedSlot(n, c) \in Slot /\ SavedSlot(n, c).dev = n.dev
<1> DEFINE p == sets[First(SetsOf(c.sirk))]
           e == p.mem[First(Pairs(c))].dev
           x == IF c.csis /\ SetsOf(c.sirk) # {} /\ Pairs(c) # {} THEN e ELSE n.pair
<1>1. SavedSlot(n, c) = [n EXCEPT !.csis = c.csis, !.hash = c.hash, !.pair = x]
    BY DEF SavedSlot
<1>2. x \in Addr
    <2>1. n.pair \in Addr BY DEF Slot
    <2>2. ASSUME SetsOf(c.sirk) # {}, Pairs(c) # {} PROVE e \in Addr
        <3>1. First(SetsOf(c.sirk)) \in Blocks BY <2>2, SetOfSirk
        <3>2. p \in CsisSet BY <3>1 DEF SetsOk
        <3> HIDE DEF p
        <3>3. p.size \in {0, 2} /\ p.mem \in [Blocks -> Member] BY <3>2 DEF CsisSet, SetSize
        <3>4. Pairs(c) = {i \in 1..p.size : p.mem[i].dev # c.dev} BY DEF Pairs, p
        <3>5. Pairs(c) \in SUBSET Nat /\ Pairs(c) \subseteq Blocks BY <3>3, <3>4 DEF Blocks
        <3>6. First(Pairs(c)) \in Pairs(c) BY <2>2, <3>5, FirstIn
        <3>7. p.mem[First(Pairs(c))] \in Member BY <3>3, <3>5, <3>6
        <3>8. QED BY <3>7 DEF Member
    <2>3. QED BY <2>1, <2>2
<1>3. c.csis \in BOOLEAN /\ c.hash \in BOOLEAN BY DEF Clcb
<1> HIDE DEF x
<1>4. QED BY <1>1, <1>2, <1>3 DEF Slot

\* The stored bonds keep their types.
LEMMA StoredStep == LinkInv /\ Next => Stored'
<1> SUFFICES ASSUME LinkInv, Next PROVE Stored'
    OBVIOUS
<1> USE LinksAssumption
<1>1. nvram \in [1..(NvSlots + 1) -> Slot] /\ host \in [1..NvSlots -> Slot]
    BY DEF LinkInv, Stored
<1>2. FreeSlot \in Slot BY DEF FreeSlot, Slot, Addr
<1>3. ASSUME UNCHANGED <<nvram, host>> PROVE Stored' BY <1>1, <1>3 DEF Stored
<1>4. ASSUME NEW k \in 1..(NvSlots + 1), NEW d \in Addr, nvram' = [nvram EXCEPT ![k].dev = d]
      PROVE  nvram' \in [1..(NvSlots + 1) -> Slot]
    <2>1. [nvram[k] EXCEPT !.dev = d] \in Slot BY <1>1, SMTT(30) DEF Slot
    <2>2. QED BY <1>1, <1>4, <2>1
<1>5. \A k \in 1..NvSlots : k \in 1..(NvSlots + 1) OBVIOUS
<1>6. CASE Host
    <2>1. CASE RpcScanStart \/ RpcScanStop
        BY <1>3, <2>1 DEF RpcScanStart, RpcScanStop
    <2>2. CASE Restart BY <1>1, <1>2, <2>2 DEF Restart, Stored
    <2>3. ASSUME NEW on \in BOOLEAN, RpcAdv(on) PROVE Stored'
        BY <1>3, <2>3 DEF RpcAdv
    <2>4. ASSUME NEW d \in Devices, RpcConnect(d) \/ RpcDisconnect(d) \/ RpcCancel(d)
          PROVE  Stored'
        BY <1>3, <2>4 DEF RpcConnect, RpcDisconnect, RpcCancel, AttemptEnds
    <2>5. ASSUME NEW k \in 1..NvSlots, RpcUnbond(k) PROVE Stored'
        <3>1. nvram' = [nvram EXCEPT ![k].dev = NoDev] /\ host' = [host EXCEPT ![k] = FreeSlot]
            BY <2>5 DEF RpcUnbond
        <3>2. nvram' \in [1..(NvSlots + 1) -> Slot] BY <1>4, <1>5, <3>1 DEF Addr
        <3>3. host' \in [1..NvSlots -> Slot] BY <1>1, <1>2, <3>1
        <3>4. QED BY <3>2, <3>3 DEF Stored
    <2>6. ASSUME NEW k \in 1..NvSlots, Restore(k) PROVE Stored'
        <3>1. nvram' = [nvram EXCEPT ![k] = host[k]] /\ host' = host BY <2>6 DEF Restore
        <3>2. host[k] \in Slot BY <1>1
        <3>3. nvram' \in [1..(NvSlots + 1) -> Slot] BY <1>1, <1>5, <3>1, <3>2
        <3>4. QED BY <1>1, <3>1, <3>3 DEF Stored
    <2>7. QED BY <1>6, <2>1, <2>2, <2>3, <2>4, <2>5, <2>6 DEF Host
<1>7. CASE Stack
    <2>1. ASSUME NEW i \in Blocks, ScanTimeout(i) PROVE Stored'
        BY <1>3, <2>1 DEF ScanTimeout
    <2>2. ASSUME NEW d \in Devices, KeyUpdate(d) PROVE Stored'
        <3>1. /\ nvram' = nvram \/ nvram' = [nvram EXCEPT ![AllocSlot].dev = d]
              /\ host' = host
            BY <2>2 DEF KeyUpdate, WriteKeys
        <3>2. AllocSlot \in 1..(NvSlots + 1) BY SlotFor
        <3>3. nvram' \in [1..(NvSlots + 1) -> Slot] BY <1>1, <1>4, <3>1, <3>2 DEF Addr
        <3>4. QED BY <1>1, <3>1, <3>3 DEF Stored
    <2>3. ASSUME NEW d \in Devices, PairingComplete(d) PROVE Stored'
        <3>1. CASE KeySlots(d) = {} BY <1>3, <2>3, <3>1 DEF PairingComplete
        <3>2. CASE KeySlots(d) # {}
            <4> DEFINE k == First(KeySlots(d))
            <4>1. nvram' = nvram /\ host' = [host EXCEPT ![k] = nvram'[k]]
                BY <2>3, <3>2 DEF PairingComplete, SendLinkKeys
            <4>2. k \in 1..NvSlots BY <3>2, SlotOf
            <4> HIDE DEF k
            <4>3. nvram[k] \in Slot BY <1>1, <1>5, <4>2
            <4>4. QED BY <1>1, <4>1, <4>2, <4>3 DEF Stored
        <3>3. QED BY <3>1, <3>2
    <2>4. ASSUME NEW d \in Devices, Disconnected(d) PROVE Stored'
        <3> DEFINE k == First(KeySlots(d))
                   c == clcb[Block(d)]
        <3>1. CASE ~HasBlock(d) \/ KeySlots(d) = {}
            BY <1>3, <2>4, <3>1 DEF Disconnected, HandleDisconnection
        <3>2. CASE HasBlock(d) /\ KeySlots(d) # {}
            <4>1. /\ nvram' = [nvram EXCEPT ![k] = SavedSlot(nvram[k], c)]
                  /\ host' = [host EXCEPT ![k] = nvram'[k]]
                BY <2>4, <3>2 DEF Disconnected, HandleDisconnection, SendLinkKeys
            <4>2. k \in 1..NvSlots /\ k \in 1..(NvSlots + 1) BY <1>5, <3>2, SlotOf
            <4>3. c \in Clcb BY <3>2, BlockOf DEF LinkInv, BlocksOk
            <4> HIDE DEF k, c
            <4>4. SavedSlot(nvram[k], c) \in Slot
                BY <1>1, <4>2, <4>3, SavedTyped DEF LinkInv
            <4>5. nvram' \in [1..(NvSlots + 1) -> Slot] BY <1>1, <4>1, <4>2, <4>4
            <4>6. host' \in [1..NvSlots -> Slot] BY <1>1, <4>1, <4>2, <4>5
            <4>7. QED BY <4>5, <4>6 DEF Stored
        <3>3. QED BY <3>1, <3>2
    <2>5. ASSUME NEW d \in Devices,
                 \/ ScanResult(d) \/ Connected(d) \/ Incoming(d) \/ AttemptFails(d) \/ Secure(d)
                 \/ Encrypted(d) \/ Discovered(d) \/ SirkRead(d) \/ ReadsComplete(d)
          PROVE  UNCHANGED <<nvram, host>>
        BY <2>5 DEF ScanResult, Connected, Incoming, HandleConnection, AttemptFails, AttemptEnds,
            Secure, Encrypted, Discovered, SirkRead, ReadsComplete
    <2>6. QED BY <1>3, <1>7, <2>1, <2>2, <2>3, <2>4, <2>5 DEF Stack
<1>8. QED BY <1>6, <1>7 DEF Next

\* A step that leaves the links alone and keeps the device, the phase and the
\* pairing of every block.
LEMMA BlocksKept ==
    ASSUME BlocksOk(clcb, up), up' = up, clcb' \in [Blocks -> Clcb],
           \A b \in Blocks : /\ clcb'[b].dev = clcb[b].dev
                             /\ clcb'[b].pend # "NO" => clcb'[b].phase # "UP"
    PROVE  BlocksOk(clcb', up')
BY DEF BlocksOk, Blocks

\* A new link.
LEMMA LinkUp ==
    ASSUME LinkInv, NEW d \in Devices, d \notin up, NEW r \in Radio,
           r.create \notin up \cup {d}, HandleConnection(d, r)
    PROVE  UpOk' /\ BlocksOk(clcb', up')
<1> DEFINE A == AllocBlock
<1>1. /\ A \in Blocks /\ clcb' \in [Blocks -> Clcb] /\ up' = up \cup {d}
      /\ \A b \in Blocks \ {A} : clcb'[b] = clcb[b]
      /\ \/ clcb[A].dev = NoDev /\ clcb'[A].dev = d /\ clcb'[A].pend = "NO"
         \/ /\ \A b \in Blocks : clcb[b].dev # NoDev
            /\ clcb'[A].dev = clcb[A].dev /\ clcb'[A].pend = clcb[A].pend
            /\ clcb'[A].phase = clcb[A].phase
      /\ \E k : k.acl = d /\ radio' = ConnectPair(RadioConnected(r), k)
    BY ConnectShape
<1>2. d # NoDev /\ BlocksOk(clcb, up) BY LinksAssumption DEF LinkInv
<1> HIDE DEF A
<1>3. BlocksOk(clcb', up')
    <2>1. \A b \in Blocks : clcb'[b].dev \in up' \cup {NoDev}
        BY <1>1, <1>2 DEF BlocksOk
    <2>2. \A b \in Blocks : clcb'[b].pend # "NO" => clcb'[b].phase # "UP"
        BY <1>1, <1>2 DEF BlocksOk
    <2>3. clcb'[1].dev = clcb'[2].dev => clcb'[1].dev = NoDev
        <3>1. \A b \in Blocks : clcb[b].dev # d BY <1>2 DEF BlocksOk
        <3>2. CASE A = 1 BY <1>1, <1>2, <3>1, <3>2 DEF BlocksOk, Blocks
        <3>3. CASE A = 2 BY <1>1, <1>2, <3>1, <3>3 DEF BlocksOk, Blocks
        <3>4. QED BY <1>1, <3>2, <3>3 DEF Blocks
    <2>4. QED BY <1>1, <2>1, <2>2, <2>3 DEF BlocksOk
<1>4. up' \subseteq Devices /\ IsFiniteSet(up')
    BY <1>1, FS_AddElement DEF LinkInv, UpOk
<1>5. radio'.create \notin up'
    <2>1. PICK k : k.acl = d /\ radio' = ConnectPair(RadioConnected(r), k) BY <1>1
    <2>2. RadioConnected(r) \in Radio /\ RadioConnected(r).create = r.create BY CreateShape
    <2>3. \/ radio'.create = r.create
          \/ radio'.create \in Devices \ (up \cup {k.acl})
        BY <2>1, <2>2, PairCreate
    <2>4. QED BY <1>1, <2>1, <2>3
<1>6. QED BY <1>3, <1>4, <1>5 DEF UpOk

\* A link that ends.
LEMMA LinkDown ==
    ASSUME LinkInv, NEW d \in Devices, Disconnected(d)
    PROVE  /\ UpOk' /\ BlocksOk(clcb', up') /\ radio'.create = radio.create
           /\ \A b \in Blocks : \/ clcb[b].dev # d /\ clcb'[b] = clcb[b]
                                \/ clcb[b].dev = d /\ clcb'[b] = FreeClcb
<1> DEFINE r == RadioDisconnected(radio, d)
<1>1. d # NoDev /\ BlocksOk(clcb, up) /\ UpOk /\ radio \in Radio
    BY LinksAssumption DEF LinkInv, Backed
<1>2. r \in Radio /\ r.create = radio.create BY <1>1, CreateShape
<1>3. up' = up \ {d} BY DEF Disconnected
<1>4. /\ clcb' \in [Blocks -> Clcb]
      /\ \A b \in Blocks : \/ clcb[b].dev # d /\ clcb'[b] = clcb[b]
                           \/ clcb[b].dev = d /\ clcb'[b] = FreeClcb
    <2>1. CASE HasBlock(d)
        <3> DEFINE B == Block(d)
        <3>1. B \in Blocks /\ clcb[B].dev = d BY <2>1, BlockOf
        <3>2. clcb' = [clcb EXCEPT ![B] = FreeClcb]
            BY <2>1 DEF Disconnected, HandleDisconnection
        <3> HIDE DEF B
        <3>3. clcb \in [Blocks -> Clcb] /\ FreeClcb \in Clcb BY <1>1, FreeClcbOk DEF BlocksOk
        <3>4. \A b \in Blocks \ {B} : clcb[b].dev # d
            BY <1>1, <3>1 DEF BlocksOk, Blocks
        <3>5. QED BY <3>1, <3>2, <3>3, <3>4
    <2>2. CASE ~HasBlock(d)
        BY <1>1, <2>2 DEF Disconnected, HasBlock, BlocksOk
    <2>3. QED BY <2>1, <2>2
<1>5. BlocksOk(clcb', up')
    <2>1. \A b \in Blocks : clcb'[b].dev \in up' \cup {NoDev}
        BY <1>1, <1>3, <1>4, FreeClcbOk DEF BlocksOk
    <2>2. \A b \in Blocks : clcb'[b].pend # "NO" => clcb'[b].phase # "UP"
        BY <1>1, <1>4, FreeClcbOk DEF BlocksOk
    <2>3. clcb'[1].dev = clcb'[2].dev => clcb'[1].dev = NoDev
        BY <1>1, <1>4, FreeClcbOk DEF BlocksOk, Blocks
    <2>4. QED BY <1>4, <2>1, <2>2, <2>3 DEF BlocksOk
<1>6. radio'.create = radio.create
    <2>1. \/ radio' = r
          \/ \E p, disc : radio' = LeaveRadio(r, p, d, disc)
        BY DEF Disconnected, HandleDisconnection
    <2> HIDE DEF r
    <2>2. QED BY <1>2, <2>1, SearchCreate
<1>7. UpOk'
    <2>1. up' \subseteq up /\ IsFiniteSet(up) BY <1>1, <1>3 DEF UpOk
    <2>2. IsFiniteSet(up') BY <2>1, FS_Subset
    <2>3. QED BY <1>1, <1>3, <1>6, <2>2 DEF UpOk
<1>8. QED BY <1>4, <1>5, <1>6, <1>7

\* Links and control blocks stay in order.
LEMMA LinksStep == LinkInv /\ Next => UpOk' /\ BlocksOk(clcb', up')
<1> SUFFICES ASSUME LinkInv, Next PROVE UpOk' /\ BlocksOk(clcb', up')
    OBVIOUS
<1>1. BlocksOk(clcb, up) /\ UpOk /\ radio \in Radio BY DEF LinkInv, Backed
<1>2. ASSUME UNCHANGED <<clcb, up>>, radio'.create \notin up PROVE UpOk' /\ BlocksOk(clcb', up')
    BY <1>1, <1>2 DEF UpOk
<1>3. radio.create \notin up BY <1>1 DEF UpOk
<1>4. ASSUME UNCHANGED <<radio, up>>, BlocksOk(clcb', up') PROVE UpOk' /\ BlocksOk(clcb', up')
    BY <1>1, <1>4 DEF UpOk
<1>5. CASE Host
    <2>1. CASE RpcScanStart \/ RpcScanStop
        BY <1>1, <1>2, <1>3, <2>1, CreateShape DEF RpcScanStart, RpcScanStop
    <2>2. CASE Restart
        <3>1. up' = {} /\ clcb' = [b \in Blocks |-> FreeClcb] BY <2>2 DEF Restart
        <3>2. UpOk' BY <3>1, FS_EmptySet DEF UpOk
        <3>3. clcb' \in [Blocks -> Clcb] BY <3>1, FreeClcbOk
        <3>4. \A b \in Blocks : clcb'[b] = FreeClcb BY <3>1
        <3>5. BlocksOk(clcb', up') BY <3>3, <3>4, FreeClcbOk DEF BlocksOk, Blocks
        <3>6. QED BY <3>2, <3>5
    <2>3. ASSUME NEW on \in BOOLEAN, RpcAdv(on) PROVE UpOk' /\ BlocksOk(clcb', up')
        <3>1. \E x : radio' = [radio EXCEPT !.adv = on, !.act = x] BY <2>3 DEF RpcAdv
        <3>2. radio'.create = radio.create BY <1>1, <3>1 DEF Radio
        <3>3. QED BY <1>2, <1>3, <2>3, <3>2 DEF RpcAdv
    <2>4. ASSUME NEW d \in Devices, RpcConnect(d) PROVE UpOk' /\ BlocksOk(clcb', up')
        <3> DEFINE q == IF radio.act = "SCANNING" THEN ScanOff(radio) ELSE radio
        <3>1. q \in Radio /\ q.create = radio.create BY <1>1, CreateShape
        <3>2. radio' = CreateConnection(q, d) BY <2>4 DEF RpcConnect
        <3> HIDE DEF q
        <3>3. radio'.create \notin up BY <1>3, <3>1, <3>2, CreateShape
        <3>4. QED BY <1>2, <2>4, <3>3 DEF RpcConnect
    <2>5. ASSUME NEW d \in Devices, RpcDisconnect(d) PROVE UpOk' /\ BlocksOk(clcb', up')
        <3>1. DisconnectDevice(d) /\ UNCHANGED <<radio, up>> BY <2>5 DEF RpcDisconnect
        <3>2. BlocksOk(clcb', up') BY <1>1, <3>1, FlagShape, BlocksKept DEF BlocksOk
        <3>3. QED BY <1>4, <3>1, <3>2
    <2>6. ASSUME NEW d \in Devices, RpcCancel(d) PROVE UpOk' /\ BlocksOk(clcb', up')
        BY <1>1, <1>2, <2>6, AttemptOver DEF RpcCancel, AttemptEnds, UpOk
    <2>7. ASSUME NEW k \in 1..NvSlots, RpcUnbond(k) PROVE UpOk' /\ BlocksOk(clcb', up')
        <3>1. /\ DisconnectDevice(nvram[k].dev) \/ UNCHANGED clcb
              /\ UNCHANGED <<radio, up>>
            BY <2>7 DEF RpcUnbond
        <3>2. BlocksOk(clcb', up') BY <1>1, <3>1, FlagShape, BlocksKept DEF BlocksOk
        <3>3. QED BY <1>4, <3>1, <3>2
    <2>8. ASSUME NEW k \in 1..NvSlots, Restore(k) PROVE UpOk' /\ BlocksOk(clcb', up')
        BY <1>2, <1>3, <2>8 DEF Restore
    <2>9. QED BY <1>5, <2>1, <2>2, <2>3, <2>4, <2>5, <2>6, <2>7, <2>8 DEF Host
<1>6. CASE Stack
    <2>1. ASSUME NEW i \in Blocks, ScanTimeout(i) PROVE UpOk' /\ BlocksOk(clcb', up')
        BY <1>1, <1>2, <1>3, <2>1, SearchCreate DEF ScanTimeout
    <2>2. ASSUME NEW d \in Devices, ScanResult(d) PROVE UpOk' /\ BlocksOk(clcb', up')
        <3>1. PICK p : radio' = SearchRadio(radio, p, FALSE)
                       \/ radio' = CreateConnection(SearchRadio(radio, p, FALSE), d)
            BY <2>2 DEF ScanResult
        <3> DEFINE q == SearchRadio(radio, p, FALSE)
        <3>2. q.create = radio.create BY <1>1, SearchCreate
        <3>3. q \in Radio BY SearchBacked DEF LinkInv, Backed
        <3>4. radio' = q \/ radio' = CreateConnection(q, d) BY <3>1
        <3> HIDE DEF q
        <3>5. radio'.create \notin up BY <1>3, <3>2, <3>3, <3>4, CreateShape
        <3>6. QED BY <1>2, <2>2, <3>5 DEF ScanResult
    <2>3. ASSUME NEW d \in Devices, Connected(d) PROVE UpOk' /\ BlocksOk(clcb', up')
        <3> DEFINE r == [radio EXCEPT !.create = NoDev]
        <3>1. radio.create = d /\ HandleConnection(d, r) BY <2>3 DEF Connected
        <3>2. r \in Radio /\ r.create = NoDev BY <1>1 DEF Radio, Addr
        <3>3. NoDev \notin Devices /\ up \subseteq Devices BY <1>1, LinksAssumption DEF UpOk
        <3> HIDE DEF r
        <3>4. d \notin up /\ r.create \notin up \cup {d} BY <1>3, <3>1, <3>2, <3>3
        <3>5. QED BY <3>1, <3>2, <3>4, LinkUp
    <2>4. ASSUME NEW d \in Devices, Incoming(d) PROVE UpOk' /\ BlocksOk(clcb', up')
        <3> DEFINE r == [radio EXCEPT !.adv = FALSE]
        <3>1. d \notin up /\ d # radio.create /\ HandleConnection(d, r) BY <2>4 DEF Incoming
        <3>2. r \in Radio /\ r.create = radio.create BY <1>1 DEF Radio
        <3> HIDE DEF r
        <3>3. r.create \notin up \cup {d} BY <1>3, <3>1, <3>2
        <3>4. QED BY <3>1, <3>2, <3>3, LinkUp
    <2>5. ASSUME NEW d \in Devices, AttemptFails(d) PROVE UpOk' /\ BlocksOk(clcb', up')
        BY <1>1, <1>2, <2>5, AttemptOver DEF AttemptFails, AttemptEnds, UpOk
    <2>6. ASSUME NEW d \in Devices, Disconnected(d) PROVE UpOk' /\ BlocksOk(clcb', up')
        BY <2>6, LinkDown
    <2>7. ASSUME NEW d \in Devices,
                 Secure(d) \/ KeyUpdate(d) \/ PairingComplete(d) \/ Encrypted(d)
                   \/ Discovered(d) \/ SirkRead(d) \/ ReadsComplete(d)
          PROVE  UpOk' /\ BlocksOk(clcb', up')
        <3>1. up' = up
            BY <2>7 DEF Secure, KeyUpdate, PairingComplete, Encrypted, Discovered, SirkRead,
                ReadsComplete
        <3>2. radio'.create = radio.create
            <4>1. \/ radio' = radio
                  \/ \E p, start : radio' = SearchRadio(radio, p, start)
                BY <2>7 DEF Secure, KeyUpdate, PairingComplete, Encrypted, Discovered, SirkRead,
                    ReadsComplete
            <4>2. QED BY <1>1, <4>1, SearchCreate
        <3> DEFINE B == Block(d)
        <3>3. /\ B \in Blocks /\ clcb[B].dev = d /\ clcb' \in [Blocks -> Clcb]
              /\ \A b \in Blocks \ {B} : clcb'[b] = clcb[b]
              /\ clcb'[B].dev = d /\ (clcb'[B].pend # "NO" => clcb'[B].phase # "UP")
            BY <2>7, PhaseShape
        <3> HIDE DEF B
        <3>4. \A b \in Blocks : /\ clcb'[b].dev = clcb[b].dev
                                /\ clcb'[b].pend # "NO" => clcb'[b].phase # "UP"
            BY <1>1, <3>3 DEF BlocksOk
        <3>5. BlocksOk(clcb', up') BY <1>1, <3>1, <3>3, <3>4, BlocksKept
        <3>6. UpOk' BY <1>1, <3>1, <3>2 DEF UpOk
        <3>7. QED BY <3>5, <3>6
    <2>8. QED BY <1>6, <2>1, <2>2, <2>3, <2>4, <2>5, <2>6, <2>7 DEF Stack
<1>7. QED BY <1>5, <1>6 DEF Next

\* The links that the player closes are links of devices.
LEMMA CloseShape ==
    ASSUME LinkInv, NEW d \in Devices, HasBlock(d)
    PROVE  /\ LinksToClose(d) \subseteq Devices
           /\ \A e \in LinksToClose(d) :
                e = d \/ \E i, l \in Blocks : e = sets[i].mem[l].conn /\ e # NoDev
<1> DEFINE k == clcb[Block(d)]
           i == First(SetsOf(k.sirk))
           p == sets[i]
<1>1. CASE k.csis /\ SetsOf(k.sirk) # {} /\ p.size # 0
    <2>1. i \in Blocks BY <1>1, SetOfSirk
    <2>2. LinksToClose(d) = {p.mem[j].conn : j \in {j \in 1..p.size : p.mem[j].used}} \ {NoDev}
        BY <1>1 DEF LinksToClose
    <2> HIDE DEF i
    <2>3. p \in CsisSet BY <2>1 DEF LinkInv, SetsOk
    <2>4. p.size \in {0, 2} /\ p.mem \in [Blocks -> Member] BY <2>3 DEF CsisSet, SetSize
    <2>5. \A l \in 1..p.size : l \in Blocks BY <2>4 DEF Blocks
    <2>6. \A l \in Blocks : p.mem[l].conn \in Devices \cup {NoDev} BY <2>4 DEF Member, Addr
    <2>7. \A e \in LinksToClose(d) : \E l \in Blocks : e = p.mem[l].conn /\ e # NoDev
        BY <2>2, <2>5
    <2>8. QED BY <2>1, <2>6, <2>7
<1>2. CASE ~(k.csis /\ SetsOf(k.sirk) # {} /\ p.size # 0)
    BY <1>2 DEF LinksToClose
<1>3. QED BY <1>1, <1>2

\* The links being closed stay links of devices.
LEMMA ClosingStep == LinkInv /\ Next => closing' \subseteq Devices
<1> SUFFICES ASSUME LinkInv, Next PROVE closing' \subseteq Devices
    OBVIOUS
<1>1. closing \subseteq Devices BY DEF LinkInv
<1>2. ASSUME NEW d \in Addr, d # NoDev, HasBlock(d), DisconnectDevice(d) PROVE closing' \subseteq Devices
    BY <1>1, <1>2, CloseShape DEF DisconnectDevice, Addr
<1>3. CASE Host
    <2>1. CASE RpcScanStart \/ RpcScanStop
        BY <1>1, <2>1 DEF RpcScanStart, RpcScanStop
    <2>2. CASE Restart BY <2>2 DEF Restart
    <2>3. ASSUME NEW on \in BOOLEAN, RpcAdv(on) PROVE closing' = closing
        BY <2>3 DEF RpcAdv
    <2>4. ASSUME NEW d \in Devices, RpcConnect(d) \/ RpcCancel(d) PROVE closing' = closing
        BY <2>4 DEF RpcConnect, RpcCancel, AttemptEnds
    <2>5. ASSUME NEW d \in Devices, RpcDisconnect(d) PROVE closing' \subseteq Devices
        BY <1>2, <2>5, LinksAssumption DEF RpcDisconnect, Addr
    <2>6. ASSUME NEW k \in 1..NvSlots, RpcUnbond(k) PROVE closing' \subseteq Devices
        <3>1. k \in 1..(NvSlots + 1) BY LinksAssumption
        <3>2. nvram[k].dev \in Addr BY <3>1 DEF LinkInv, Stored, Slot
        <3>3. QED BY <1>1, <1>2, <2>6, <3>2 DEF RpcUnbond
    <2>7. ASSUME NEW k \in 1..NvSlots, Restore(k) PROVE closing' = closing
        BY <2>7 DEF Restore
    <2>8. QED BY <1>1, <1>3, <2>1, <2>2, <2>3, <2>4, <2>5, <2>6, <2>7 DEF Host
<1>4. CASE Stack
    <2>1. ASSUME NEW i \in Blocks, ScanTimeout(i) PROVE closing' = closing
        BY <2>1 DEF ScanTimeout
    <2>2. ASSUME NEW d \in Devices, Disconnected(d) PROVE closing' \subseteq closing
        BY <2>2 DEF Disconnected
    <2>3. ASSUME NEW d \in Devices,
                 \/ ScanResult(d) \/ Connected(d) \/ Incoming(d) \/ AttemptFails(d)
                 \/ Secure(d) \/ KeyUpdate(d) \/ PairingComplete(d)
                 \/ Encrypted(d) \/ Discovered(d) \/ SirkRead(d) \/ ReadsComplete(d)
          PROVE  closing' = closing
        BY <2>3 DEF ScanResult, Connected, Incoming, HandleConnection, AttemptFails, AttemptEnds,
            Secure, KeyUpdate, PairingComplete, Encrypted, Discovered, SirkRead, ReadsComplete
    <2>4. QED BY <1>1, <1>4, <2>1, <2>2, <2>3 DEF Stack
<1>5. QED BY <1>3, <1>4 DEF Next

\* The members that are noted as lost from the count are devices.
LEMMA AmissStep == LinkInv /\ Next => amiss' \in Amiss
<1> SUFFICES ASSUME LinkInv, Next PROVE amiss' \in Amiss
    OBVIOUS
<1>1. amiss \in Amiss /\ SetsOk(sets) BY DEF LinkInv
<1>2. ASSUME NEW d \in Devices, amiss' \in {amiss, [amiss EXCEPT !.missed = @ \cup {d}]}
      PROVE  amiss' \in Amiss
    BY <1>1, <1>2 DEF Amiss
<1>3. CASE Host
    <2>1. CASE RpcScanStart \/ RpcScanStop
        BY <1>1, <2>1 DEF RpcScanStart, RpcScanStop
    <2>2. CASE Restart BY <2>2 DEF Restart, Amiss, NoneAmiss
    <2>3. ASSUME NEW on \in BOOLEAN, RpcAdv(on) PROVE amiss' \in Amiss
        BY <1>1, <2>3 DEF RpcAdv
    <2>4. ASSUME NEW d \in Devices, RpcConnect(d) \/ RpcDisconnect(d) PROVE amiss' \in Amiss
        BY <1>1, <2>4 DEF RpcConnect, RpcDisconnect
    <2>5. ASSUME NEW d \in Devices, RpcCancel(d) PROVE amiss' \in Amiss
        BY <1>2, <2>5 DEF RpcCancel, AttemptEnds
    <2>6. ASSUME NEW k \in 1..NvSlots, RpcUnbond(k) \/ Restore(k) PROVE amiss' \in Amiss
        BY <1>1, <2>6 DEF RpcUnbond, Restore
    <2>7. QED BY <1>3, <2>1, <2>2, <2>3, <2>4, <2>5, <2>6 DEF Host
<1>4. CASE Stack
    <2>1. ASSUME NEW i \in Blocks, ScanTimeout(i) PROVE amiss' \in Amiss
        BY <1>1, <2>1 DEF ScanTimeout
    <2>2. ASSUME NEW d \in Devices, ScanResult(d) PROVE amiss' \in Amiss
        BY <1>2, <2>2 DEF ScanResult
    <2>3. ASSUME NEW d \in Devices, AttemptFails(d) PROVE amiss' \in Amiss
        BY <1>2, <2>3 DEF AttemptFails, AttemptEnds
    <2>4. ASSUME NEW d \in Devices, ReadsComplete(d) PROVE amiss' \in Amiss
        BY <1>1, <2>4 DEF ReadsComplete, Amiss
    <2>5. ASSUME NEW d \in Devices, Disconnected(d) PROVE amiss' \in Amiss
        <3>1. CASE HasBlock(d)
            <4>1. HandleDisconnection(d, RadioDisconnected(radio, d))
                BY <2>5, <3>1 DEF Disconnected
            <4>2. \/ amiss' = AmissLost(d)
                  \/ \E i \in Blocks : sets[i].sirk # 0 /\ amiss' = AmissLeft(sets[i], d)
                BY <1>1, <4>1, LeaveSets
            <4>3. CASE amiss' = AmissLost(d) BY <1>1, <4>3 DEF AmissLost, Amiss
            <4>4. ASSUME NEW i \in Blocks, sets[i].sirk # 0, amiss' = AmissLeft(sets[i], d)
                  PROVE  amiss' \in Amiss
                <5> DEFINE p == sets[i]
                <5>1. p \in CsisSet /\ p.size = 2 BY <1>1, <4>4 DEF SetsOk, SetOk
                <5>2. \A j \in 1..p.size : p.mem[j].conn \in Addr
                    BY <5>1 DEF CsisSet, Member, Blocks
                <5> HIDE DEF p
                <5>3. {p.mem[j].conn : j \in 1..p.size} \ {NoDev, d} \subseteq Devices
                    BY <5>2 DEF Addr
                <5>4. AmissLeft(p, d) \in Amiss BY <1>1, <5>3 DEF AmissLeft, Amiss
                <5>5. QED BY <4>4, <5>4 DEF p
            <4>5. QED BY <4>2, <4>3, <4>4
        <3>2. CASE ~HasBlock(d) BY <1>1, <2>5, <3>2 DEF Disconnected
        <3>3. QED BY <3>1, <3>2
    <2>6. ASSUME NEW d \in Devices,
                 \/ Connected(d) \/ Incoming(d) \/ Secure(d) \/ KeyUpdate(d)
                 \/ PairingComplete(d) \/ Encrypted(d) \/ Discovered(d) \/ SirkRead(d)
          PROVE  amiss' = amiss
        BY <2>6 DEF Connected, Incoming, HandleConnection, Secure, KeyUpdate, PairingComplete,
            Encrypted, Discovered, SirkRead
    <2>7. QED BY <1>1, <1>4, <2>1, <2>2, <2>3, <2>4, <2>5, <2>6 DEF Stack
<1>5. QED BY <1>3, <1>4 DEF Next

\* The invariant holds at first.
LEMMA LinkInit == Init => LinkInv
<1> SUFFICES ASSUME Init PROVE LinkInv
    OBVIOUS
<1>1. Backed(radio)
    <2>1. IdleRadio \in Radio /\ IdleRadio.act = "NONE"
        BY DEF IdleRadio, Radio, Activities, Addr
    <2>2. QED BY <2>1 DEF Init, Backed
<1>2. UpOk BY FS_EmptySet DEF Init, UpOk
<1>3. BlocksOk(clcb, up)
    <2>1. clcb \in [Blocks -> Clcb] /\ \A b \in Blocks : clcb[b] = FreeClcb
        BY FreeClcbOk DEF Init
    <2>2. QED BY <2>1, FreeClcbOk DEF BlocksOk, Blocks
<1>4. SetsOk(sets)
    <2>1. sets \in [Blocks -> CsisSet] /\ \A i \in Blocks : sets[i] = FreeSet
        BY FreeSetOk DEF Init, SetOk
    <2>2. QED BY <2>1, FreeSetOk DEF SetsOk, Blocks
<1>5. Stored
    <2>1. FreeSlot \in Slot BY DEF FreeSlot, Slot, Addr
    <2>2. QED BY <2>1 DEF Init, Stored
<1>6. closing \subseteq Devices /\ amiss \in Amiss /\ used \in Budget
    BY LinksAssumption DEF Init, Budget, Amiss, NoneAmiss
<1>7. QED BY <1>1, <1>2, <1>3, <1>4, <1>5, <1>6 DEF LinkInv

\* And after every step.
LEMMA LinkStep == LinkInv /\ [Next]_vars => LinkInv'
<1> SUFFICES ASSUME LinkInv, [Next]_vars PROVE LinkInv'
    OBVIOUS
<1>1. CASE Next
    BY <1>1, StepBacked, UsedStep, SetsStep, StoredStep, LinksStep, ClosingStep, AmissStep
        DEF LinkInv
<1>2. CASE UNCHANGED vars
    BY <1>2 DEF vars, LinkInv, UpOk, Stored
<1>3. QED BY <1>1, <1>2

(* The state of links, sets and bonds keeps its types, the count of a set   *)
(* its byte and the links being closed their devices, for any devices,      *)
(* sets, NVRAM size and number of links.                                    *)
THEOREM TypeCorrect == Spec => []TypeOK
<1>1. LinkInv => TypeOK
    BY DEF LinkInv, TypeOK, Backed, UpOk, BlocksOk, SetsOk, Stored
<1>2. QED BY <1>1, LinkInit, LinkStep, PTL DEF Spec

(***************************************************************************)
(* Links that the player closes                                            *)
(***************************************************************************)

\* Every connection id in a set is that of a device whose block is ready and
\* has the SIRK of the set, so that its disconnection clears the entry.
Linked(s, c) ==
    \A i, l \in Blocks : s[i].mem[l].conn # NoDev =>
        \E b \in Blocks : /\ c[b].dev = s[i].mem[l].conn /\ c[b].phase = "READY"
                          /\ c[b].csis /\ c[b].sirk = s[i].sirk

\* The inductive invariant, for as many links as there are control blocks.
CloseInv == LinkInv /\ Linked(sets, clcb) /\ NoStaleClose

\* Blocks that keep device, phase, CSIS and SIRK keep the sets linked.
LEMMA LinkedKept ==
    ASSUME Linked(sets, clcb), ConnsKept(sets, sets'),
           \A b \in Blocks : clcb[b].dev # NoDev /\ clcb[b].phase = "READY" =>
                /\ clcb'[b].dev = clcb[b].dev /\ clcb'[b].phase = clcb[b].phase
                /\ clcb'[b].csis = clcb[b].csis /\ clcb'[b].sirk = clcb[b].sirk
    PROVE  Linked(sets', clcb')
<1> SUFFICES ASSUME NEW i \in Blocks, NEW l \in Blocks, sets'[i].mem[l].conn # NoDev
             PROVE  \E b \in Blocks : /\ clcb'[b].dev = sets'[i].mem[l].conn
                                      /\ clcb'[b].phase = "READY" /\ clcb'[b].csis
                                      /\ clcb'[b].sirk = sets'[i].sirk
    BY DEF Linked
<1>1. sets'[i].mem[l].conn = sets[i].mem[l].conn /\ sets'[i].sirk = sets[i].sirk
    BY DEF ConnsKept
<1>2. PICK b \in Blocks : /\ clcb[b].dev = sets[i].mem[l].conn /\ clcb[b].phase = "READY"
                          /\ clcb[b].csis /\ clcb[b].sirk = sets[i].sirk
    BY <1>1 DEF Linked
<1>3. QED BY <1>1, <1>2

\* A new link takes a free block while there are fewer links than blocks.
LEMMA BlockFree ==
    ASSUME LinkInv, MaxLinks <= 2, Cardinality(up) < MaxLinks
    PROVE  clcb[AllocBlock].dev = NoDev
<1>1. ASSUME \A b \in Blocks : clcb[b].dev # NoDev PROVE FALSE
    <2> DEFINE x == clcb[1].dev
               y == clcb[2].dev
    <2>1. x \in up /\ y \in up /\ x # y BY <1>1 DEF LinkInv, BlocksOk, Blocks
    <2>2. IsFiniteSet(up) BY DEF LinkInv, UpOk
    <2> HIDE DEF x, y
    <2>3. IsFiniteSet({x}) /\ Cardinality({x}) = 1 BY FS_Singleton
    <2>4. y \notin {x} BY <2>1
    <2>5. Cardinality({x} \cup {y}) = Cardinality({x}) + 1
        BY <2>3, <2>4, FS_AddElement, Zenon
    <2>6. {x} \cup {y} \subseteq up BY <2>1
    <2>7. Cardinality({x} \cup {y}) <= Cardinality(up) /\ Cardinality(up) \in Nat
        BY <2>2, <2>6, FS_Subset, FS_CardinalityType
    <2>8. QED BY <2>3, <2>5, <2>7, LinksAssumption
<1>2. QED BY <1>1, BlockFor

\* The device of a connection id in a set has a link.
LEMMA ConnUp ==
    ASSUME CloseInv, NEW i \in Blocks, NEW l \in Blocks, sets[i].mem[l].conn # NoDev
    PROVE  sets[i].mem[l].conn \in up
BY DEF CloseInv, Linked, LinkInv, BlocksOk

\* A link that ends takes its connection id out of its set.
LEMMA LinkedLost ==
    ASSUME LinkInv, Linked(sets, clcb), NEW d \in Devices, Disconnected(d)
    PROVE  Linked(sets', clcb')
<1>1. \A b \in Blocks : \/ clcb[b].dev # d /\ clcb'[b] = clcb[b]
                        \/ clcb[b].dev = d /\ clcb'[b] = FreeClcb
    BY LinkDown, Zenon
<1>2. SetsOk(sets) /\ d # NoDev BY LinksAssumption DEF LinkInv
<1>3. ConnsKept(sets, sets') /\ \A i, l \in Blocks : sets'[i].mem[l].conn # d
    <2>1. CASE HasBlock(d)
        <3> DEFINE B == Block(d)
        <3>1. B \in Blocks /\ clcb[B].dev = d BY <2>1, BlockOf
        <3>2. HandleDisconnection(d, RadioDisconnected(radio, d))
            BY <2>1 DEF Disconnected
        <3>3. /\ ConnsKept(sets, sets')
              /\ clcb[B].csis =>
                   \A i, l \in Blocks : sets[i].sirk = clcb[B].sirk /\ sets[i].sirk # 0
                                           => sets'[i].mem[l].conn # d
            BY <1>2, <3>2, LeaveSets
        <3> HIDE DEF B
        <3>4. ASSUME NEW i \in Blocks, NEW l \in Blocks, sets'[i].mem[l].conn = d PROVE FALSE
            <4>1. sets[i].mem[l].conn = d BY <1>2, <3>3, <3>4 DEF ConnsKept
            <4>2. PICK b \in Blocks : /\ clcb[b].dev = d /\ clcb[b].csis
                                      /\ clcb[b].sirk = sets[i].sirk
                BY <1>2, <4>1 DEF Linked
            <4>3. b = B BY <1>2, <3>1, <4>2 DEF LinkInv, BlocksOk, Blocks
            <4>4. sets[i].sirk # 0
                <5>1. sets[i].sirk = 0 => sets[i] = FreeSet BY <1>2 DEF SetsOk, SetOk
                <5>2. FreeSet.mem[l].conn = NoDev BY DEF FreeSet, NoMember
                <5>3. QED BY <1>2, <4>1, <5>1, <5>2
            <4>5. QED BY <3>3, <3>4, <4>2, <4>3, <4>4
        <3>5. QED BY <3>3, <3>4
    <2>2. CASE ~HasBlock(d)
        <3>1. sets' = sets BY <2>2 DEF Disconnected
        <3>2. ConnsKept(sets, sets') BY <3>1 DEF ConnsKept
        <3>3. \A i, l \in Blocks : sets[i].mem[l].conn # d
            BY <1>2, <2>2 DEF Linked, HasBlock
        <3>4. QED BY <3>1, <3>2, <3>3
    <2>3. QED BY <2>1, <2>2
<1>4. SUFFICES ASSUME NEW i \in Blocks, NEW l \in Blocks, sets'[i].mem[l].conn # NoDev
               PROVE  \E b \in Blocks : /\ clcb'[b].dev = sets'[i].mem[l].conn
                                        /\ clcb'[b].phase = "READY" /\ clcb'[b].csis
                                        /\ clcb'[b].sirk = sets'[i].sirk
    BY DEF Linked
<1>5. /\ sets'[i].mem[l].conn = sets[i].mem[l].conn /\ sets'[i].sirk = sets[i].sirk
      /\ sets'[i].mem[l].conn # d
    BY <1>3, <1>4 DEF ConnsKept
<1>6. PICK b \in Blocks : /\ clcb[b].dev = sets[i].mem[l].conn /\ clcb[b].phase = "READY"
                          /\ clcb[b].csis /\ clcb[b].sirk = sets[i].sirk
    BY <1>4, <1>5 DEF Linked
<1>7. clcb'[b] = clcb[b] BY <1>1, <1>5, <1>6
<1>8. QED BY <1>5, <1>6, <1>7

\* A device that joins a set does so with its own SIRK and is ready.
LEMMA LinkedJoined ==
    ASSUME LinkInv, Linked(sets, clcb), NEW d \in Devices, ReadsComplete(d)
    PROVE  Linked(sets', clcb')
<1> DEFINE B == Block(d)
           k == clcb[B]
<1>1. /\ B \in Blocks /\ clcb[B].dev = d /\ clcb'[B].dev = d
      /\ clcb' \in [Blocks -> Clcb] /\ \A b \in Blocks \ {B} : clcb'[b] = clcb[b]
    BY PhaseShape
<1>2. SetsOk(sets) /\ clcb \in [Blocks -> Clcb] /\ k \in Clcb
    BY <1>1 DEF LinkInv, BlocksOk
<1>3. /\ clcb'[B].phase = "READY" /\ clcb'[B].csis = k.csis /\ clcb'[B].sirk = k.sirk
      /\ k.phase # "READY"
    <2>1. /\ clcb' = [clcb EXCEPT ![B].phase = "READY", ![B].hash = TRUE]
          /\ clcb[B].phase \in {"SIRK", "FOUND"}
        BY DEF ReadsComplete
    <2> HIDE DEF B
    <2>2. QED BY <1>1, <1>2, <2>1 DEF Clcb
<1>4. \A i, l \in Blocks :
        \/ sets'[i].mem[l].conn = NoDev
        \/ sets'[i].mem[l].conn = sets[i].mem[l].conn /\ sets'[i].sirk = sets[i].sirk
        \/ sets'[i].mem[l].conn = d /\ k.csis /\ sets'[i].sirk = k.sirk
    BY <1>2, JoinedSets
<1> HIDE DEF B, k
<1>5. SUFFICES ASSUME NEW i \in Blocks, NEW l \in Blocks, sets'[i].mem[l].conn # NoDev
               PROVE  \E b \in Blocks : /\ clcb'[b].dev = sets'[i].mem[l].conn
                                        /\ clcb'[b].phase = "READY" /\ clcb'[b].csis
                                        /\ clcb'[b].sirk = sets'[i].sirk
    BY DEF Linked
<1>6. CASE sets'[i].mem[l].conn = d /\ k.csis /\ sets'[i].sirk = k.sirk
    BY <1>1, <1>3, <1>6
<1>7. CASE sets'[i].mem[l].conn = sets[i].mem[l].conn /\ sets'[i].sirk = sets[i].sirk
    <2>1. PICK b \in Blocks : /\ clcb[b].dev = sets[i].mem[l].conn /\ clcb[b].phase = "READY"
                              /\ clcb[b].csis /\ clcb[b].sirk = sets[i].sirk
        BY <1>5, <1>7 DEF Linked
    <2>2. clcb'[b] = clcb[b] BY <1>1, <1>3, <2>1 DEF k
    <2>3. QED BY <1>7, <2>1, <2>2
<1>8. QED BY <1>4, <1>5, <1>6, <1>7

\* The sets stay linked.
LEMMA LinkedStep ==
    ASSUME MaxLinks <= 2, CloseInv, Next
    PROVE  Linked(sets', clcb')
<1>1. LinkInv /\ Linked(sets, clcb) /\ SetsOk(sets) /\ clcb \in [Blocks -> Clcb]
    BY DEF CloseInv, LinkInv, BlocksOk
<1>2. ASSUME sets' = sets PROVE ConnsKept(sets, sets') BY <1>2 DEF ConnsKept
<1>3. ASSUME UNCHANGED clcb, ConnsKept(sets, sets') PROVE Linked(sets', clcb')
    BY <1>1, <1>3, LinkedKept
<1>4. ASSUME NEW d, DisconnectDevice(d), sets' = sets PROVE Linked(sets', clcb')
    BY <1>1, <1>2, <1>4, FlagShape, LinkedKept
<1>5. CASE Host
    <2>1. CASE RpcScanStart \/ RpcScanStop
        BY <1>2, <1>3, <2>1 DEF RpcScanStart, RpcScanStop
    <2>2. CASE Restart
        <3>1. \A i, l \in Blocks : sets'[i].mem[l].conn = NoDev
            BY <2>2 DEF Restart, FreeSet, NoMember
        <3>2. QED BY <3>1 DEF Linked
    <2>3. ASSUME NEW on \in BOOLEAN, RpcAdv(on) PROVE Linked(sets', clcb')
        BY <1>2, <1>3, <2>3 DEF RpcAdv
    <2>4. ASSUME NEW d \in Devices, RpcConnect(d) \/ RpcCancel(d) PROVE Linked(sets', clcb')
        BY <1>2, <1>3, <2>4 DEF RpcConnect, RpcCancel, AttemptEnds
    <2>5. ASSUME NEW d \in Devices, RpcDisconnect(d) PROVE Linked(sets', clcb')
        BY <1>4, <2>5 DEF RpcDisconnect
    <2>6. ASSUME NEW k \in 1..NvSlots, RpcUnbond(k) PROVE Linked(sets', clcb')
        BY <1>2, <1>3, <1>4, <2>6 DEF RpcUnbond
    <2>7. ASSUME NEW k \in 1..NvSlots, Restore(k) PROVE Linked(sets', clcb')
        BY <1>2, <1>3, <2>7 DEF Restore
    <2>8. QED BY <1>5, <2>1, <2>2, <2>3, <2>4, <2>5, <2>6, <2>7 DEF Host
<1>6. CASE Stack
    <2>1. ASSUME NEW i \in Blocks, ScanTimeout(i) PROVE Linked(sets', clcb')
        <3>1. UNCHANGED clcb BY <2>1 DEF ScanTimeout
        <3>2. QED BY <1>1, <1>3, <2>1, <3>1, TimeoutSets
    <2>2. ASSUME NEW d \in Devices, ScanResult(d) PROVE Linked(sets', clcb')
        <3>1. UNCHANGED clcb BY <2>2 DEF ScanResult
        <3>2. QED BY <1>1, <1>3, <2>2, <3>1, ResultSets
    <2>3. ASSUME NEW d \in Devices, Connected(d) \/ Incoming(d) PROVE Linked(sets', clcb')
        <3>1. PICK r : HandleConnection(d, r) /\ Cardinality(up) < MaxLinks
            BY <2>3 DEF Connected, Incoming
        <3>2. sets' = sets BY <3>1 DEF HandleConnection
        <3> DEFINE A == AllocBlock
        <3>3. clcb[A].dev = NoDev BY <1>1, <3>1, BlockFree
        <3>4. \A b \in Blocks \ {A} : clcb'[b] = clcb[b] BY <1>1, <3>1, ConnectShape
        <3> HIDE DEF A
        <3>5. \A b \in Blocks : clcb[b].dev # NoDev => clcb'[b] = clcb[b] BY <3>3, <3>4
        <3>6. QED BY <1>1, <1>2, <3>2, <3>5, LinkedKept
    <2>4. ASSUME NEW d \in Devices, AttemptFails(d) PROVE Linked(sets', clcb')
        BY <1>2, <1>3, <2>4 DEF AttemptFails, AttemptEnds
    <2>5. ASSUME NEW d \in Devices, Disconnected(d) PROVE Linked(sets', clcb')
        BY <2>5, LinkedLost DEF CloseInv
    <2>6. ASSUME NEW d \in Devices,
                 Secure(d) \/ KeyUpdate(d) \/ PairingComplete(d) \/ Encrypted(d)
                   \/ Discovered(d) \/ SirkRead(d)
          PROVE  Linked(sets', clcb')
        <3>1. sets' = sets
            BY <2>6 DEF Secure, KeyUpdate, PairingComplete, Encrypted, Discovered, SirkRead
        <3> DEFINE B == Block(d)
        <3>2. /\ B \in Blocks /\ clcb[B].dev = d /\ clcb'[B].dev = d
              /\ \A b \in Blocks \ {B} : clcb'[b] = clcb[b]
              /\ \/ clcb[B].phase # "READY"
                 \/ clcb'[B].phase = clcb[B].phase /\ clcb'[B].csis = clcb[B].csis
                       /\ clcb'[B].sirk = clcb[B].sirk
            BY <1>1, <2>6, PhaseShape
        <3> HIDE DEF B
        <3>3. \A b \in Blocks : clcb[b].phase = "READY" =>
                /\ clcb'[b].dev = clcb[b].dev /\ clcb'[b].phase = clcb[b].phase
                /\ clcb'[b].csis = clcb[b].csis /\ clcb'[b].sirk = clcb[b].sirk
            BY <3>2
        <3>4. QED BY <1>1, <1>2, <3>1, <3>3, LinkedKept
    <2>7. ASSUME NEW d \in Devices, ReadsComplete(d) PROVE Linked(sets', clcb')
        BY <2>7, LinkedJoined DEF CloseInv
    <2>8. QED BY <1>6, <2>1, <2>2, <2>3, <2>4, <2>5, <2>6, <2>7 DEF Stack
<1>7. QED BY <1>5, <1>6 DEF Next

\* Only links that are up are closed.
LEMMA CloseStep ==
    ASSUME MaxLinks <= 2, CloseInv, [Next]_vars
    PROVE  CloseInv'
<1>1. LinkInv' BY LinkStep DEF CloseInv
<1>2. CASE UNCHANGED vars
    <2>1. Linked(sets', clcb') /\ NoStaleClose' BY <1>2 DEF vars, CloseInv, NoStaleClose
    <2>2. QED BY <1>1, <2>1 DEF CloseInv
<1>3. CASE Next
    <2>1. Linked(sets', clcb') BY <1>3, LinkedStep
    <2>2. closing \subseteq up BY DEF CloseInv, NoStaleClose
    <2>3. ASSUME NEW d \in Devices, HasBlock(d), DisconnectDevice(d), up' = up PROVE closing' \subseteq up'
        <3>1. d \in up BY <2>3, LinksAssumption DEF HasBlock, CloseInv, LinkInv, BlocksOk
        <3>2. \A e \in LinksToClose(d) : e \in up
            BY <2>3, <3>1, CloseShape, ConnUp DEF CloseInv
        <3>3. QED BY <2>2, <2>3, <3>2 DEF DisconnectDevice
    <2>4. closing' \subseteq up'
        <3>1. CASE Host
            <4>1. CASE RpcScanStart \/ RpcScanStop
                BY <2>2, <4>1 DEF RpcScanStart, RpcScanStop
            <4>2. CASE Restart BY <4>2 DEF Restart
            <4>3. ASSUME NEW on \in BOOLEAN, RpcAdv(on) PROVE closing' \subseteq up'
                BY <2>2, <4>3 DEF RpcAdv
            <4>4. ASSUME NEW d \in Devices, RpcConnect(d) \/ RpcCancel(d) PROVE closing' \subseteq up'
                BY <2>2, <4>4 DEF RpcConnect, RpcCancel, AttemptEnds
            <4>5. ASSUME NEW d \in Devices, RpcDisconnect(d) PROVE closing' \subseteq up'
                BY <2>3, <4>5 DEF RpcDisconnect
            <4>6. ASSUME NEW k \in 1..NvSlots, RpcUnbond(k) PROVE closing' \subseteq up'
                <5>1. k \in 1..(NvSlots + 1) BY LinksAssumption
                <5>2. nvram[k].dev \in Addr BY <5>1 DEF CloseInv, LinkInv, Stored, Slot
                <5>3. QED BY <2>2, <2>3, <4>6, <5>2 DEF RpcUnbond, Addr
            <4>7. ASSUME NEW k \in 1..NvSlots, Restore(k) PROVE closing' \subseteq up'
                BY <2>2, <4>7 DEF Restore
            <4>8. QED BY <3>1, <4>1, <4>2, <4>3, <4>4, <4>5, <4>6, <4>7 DEF Host
        <3>2. CASE Stack
            <4>1. ASSUME NEW i \in Blocks, ScanTimeout(i) PROVE closing' \subseteq up'
                BY <2>2, <4>1 DEF ScanTimeout
            <4>2. ASSUME NEW d \in Devices, Disconnected(d) PROVE closing' \subseteq up'
                BY <2>2, <4>2 DEF Disconnected
            <4>3. ASSUME NEW d \in Devices,
                         \/ ScanResult(d) \/ Connected(d) \/ Incoming(d) \/ AttemptFails(d)
                         \/ Secure(d) \/ KeyUpdate(d) \/ PairingComplete(d)
                         \/ Encrypted(d) \/ Discovered(d) \/ SirkRead(d) \/ ReadsComplete(d)
                  PROVE  closing' = closing /\ up \subseteq up'
                BY <4>3 DEF ScanResult, Connected, Incoming, HandleConnection, AttemptFails, AttemptEnds,
                    Secure, KeyUpdate, PairingComplete, Encrypted, Discovered, SirkRead, ReadsComplete
            <4>4. QED BY <2>2, <3>2, <4>1, <4>2, <4>3 DEF Stack
        <3>3. QED BY <1>3, <3>1, <3>2 DEF Next
    <2>5. NoStaleClose' BY <2>4 DEF NoStaleClose
    <2>6. QED BY <1>1, <2>1, <2>5 DEF CloseInv
<1>4. QED BY <1>2, <1>3

(* With no more links than control blocks the disconnect command closes     *)
(* only links that are up, by the connection ids that a set keeps for its   *)
(* members (lepl_gatt_disconnect).  A third link breaks this: it makes the  *)
(* last block reload what the NVRAM has of its device (BlockFree).          *)
THEOREM ClosesLiveLinks ==
    ASSUME MaxLinks <= 2
    PROVE  Spec => []NoStaleClose
<1>1. Init => CloseInv
    <2> SUFFICES ASSUME Init PROVE CloseInv
        OBVIOUS
    <2>1. LinkInv BY LinkInit
    <2>2. \A i, l \in Blocks : sets[i].mem[l].conn = NoDev BY DEF Init, FreeSet, NoMember
    <2>3. Linked(sets, clcb) /\ NoStaleClose BY <2>2 DEF Init, Linked, NoStaleClose
    <2>4. QED BY <2>1, <2>3 DEF CloseInv
<1>2. CloseInv /\ [Next]_vars => CloseInv' BY CloseStep
<1>3. CloseInv => NoStaleClose BY DEF CloseInv
<1>4. QED BY <1>1, <1>2, <1>3, PTL DEF Spec

(***************************************************************************)
(* The members on record                                                   *)
(***************************************************************************)

\* A set has entries for devices of its SIRK only, and one in use has a device.
Knows(s) == \A x, l \in Blocks :
    /\ s[x].mem[l].dev # NoDev =>
         s[x].mem[l].dev \in Devices /\ Sirk[s[x].mem[l].dev] = s[x].sirk
    /\ s[x].mem[l].used => s[x].mem[l].dev # NoDev

\* What a block knows of the SIRK of its device is right.
OwnSirk(c) == \A b \in Blocks : c[b].dev # NoDev => c[b].sirk \in {0, Sirk[c[b].dev]}

\* Device e has a block, is being connected, or is noted as missed.
Behind(e, c, r, a) ==
    \/ \E b \in Blocks : c[b].dev = e
    \/ r.create = e
    \/ e \in a.missed

\* So is every device that a set counts.
Backing(s, c, r, a) ==
    \A x, l \in Blocks : s[x].mem[l].used => Behind(s[x].mem[l].dev, c, r, a)

\* Block k is that of a member whose reads are done, and a set has it.
Ready(k) == k.dev # NoDev /\ k.phase = "READY" /\ k.csis /\ k.sirk # 0
Recorded(s, k) ==
    \E x, l \in Blocks : s[x].sirk = k.sirk /\ s[x].mem[l] = Joined(k.dev)

\* Every such member is on record, unless its set was cleared.
OnRecord(s, c, a) ==
    \A b \in Blocks : Ready(c[b]) /\ c[b].dev \notin a.dropped => Recorded(s, c[b])

\* The inductive invariant.
RecordInv ==
    /\ LinkInv /\ Knows(sets) /\ OwnSirk(clcb)
    /\ Backing(sets, clcb, radio, amiss) /\ OnRecord(sets, clcb, amiss)

\* All devices with a SIRK are two members of one set, the case that the player
\* is made for (LEPL_MAX_COORDINATED_SET is 1).
OneSet == \E l, r \in Devices, s \in Nat :
    \A d \in Devices : Sirk[d] # 0 => d \in {l, r} /\ Sirk[d] = s

\* A free set has no entries.
LEMMA FreeEntries ==
    \A l \in Blocks : /\ FreeSet.mem[l] = NoMember
                      /\ ~NoMember.used /\ NoMember.dev = NoDev /\ NoMember.conn = NoDev
BY DEF FreeSet, NoMember

\* A step that leaves the entries alone keeps the sets right.
LEMMA KnowsKept ==
    ASSUME NEW s, NEW t, Knows(s), \A x, l \in Blocks : EntryKept(s, t, x, l)
    PROVE  Knows(t)
BY DEF Knows, EntryKept

\* The sets have entries for devices of their SIRK only, after every step.
LEMMA KnowsStep ==
    ASSUME LinkInv, Knows(sets), OwnSirk(clcb), Next
    PROVE  Knows(sets')
<1>1. SetsOk(sets) /\ clcb \in [Blocks -> Clcb] BY DEF LinkInv, BlocksOk
<1>2. ASSUME sets' = sets PROVE Knows(sets') BY <1>2
<1>3. CASE Host
    <2>1. CASE Restart
        <3>1. \A i \in Blocks : sets'[i] = FreeSet BY <2>1 DEF Restart
        <3>2. QED BY <3>1, FreeEntries DEF Knows
    <2>2. CASE ~Restart
        <3>1. sets' = sets
            BY <1>3, <2>2 DEF Host, RpcScanStart, RpcScanStop, RpcAdv, RpcConnect, RpcCancel,
                AttemptEnds, RpcDisconnect, RpcUnbond, Restore
        <3>2. QED BY <1>2, <3>1
    <2>3. QED BY <2>1, <2>2
<1>4. ASSUME NEW i \in Blocks, ScanTimeout(i) PROVE Knows(sets')
    BY <1>1, <1>4, TimeoutSets, KnowsKept
<1>5. ASSUME NEW d \in Devices, ScanResult(d) PROVE Knows(sets')
    <2>1. \A x, l \in Blocks :
            \/ EntryKept(sets, sets', x, l)
            \/ sets'[x].sirk = Sirk[d] /\ sets'[x].mem[l].used /\ sets'[x].mem[l].dev = d
        BY <1>1, <1>5, ResultSets
    <2>2. QED BY <2>1, LinksAssumption DEF Knows, EntryKept
<1>6. ASSUME NEW d \in Devices, Disconnected(d) PROVE Knows(sets')
    <2>1. CASE HasBlock(d)
        <3>1. HandleDisconnection(d, RadioDisconnected(radio, d)) BY <1>6, <2>1 DEF Disconnected
        <3>2. \/ sets' = sets
              \/ \E i \in Blocks : /\ \A x \in Blocks \ {i} : sets'[x] = sets[x]
                                   /\ LeavesAt(sets[i], sets'[i], d)
            BY <1>1, <3>1, LeaveSets
        <3>3. ASSUME NEW i \in Blocks, \A x \in Blocks \ {i} : sets'[x] = sets[x],
                     LeavesAt(sets[i], sets'[i], d)
              PROVE  Knows(sets')
            <4>1. PICK j \in Blocks :
                    /\ sets[i].mem[j].dev = d
                    /\ \/ sets'[i] = FreeSet
                       \/ /\ sets'[i].sirk = sets[i].sirk
                          /\ ~sets'[i].mem[j].used /\ sets'[i].mem[j].dev = d
                          /\ \A l \in Blocks \ {j} : sets'[i].mem[l] = sets[i].mem[l]
                BY <3>3 DEF LeavesAt
            <4> SUFFICES ASSUME NEW x \in Blocks, NEW l \in Blocks
                         PROVE  /\ sets'[x].mem[l].dev # NoDev =>
                                     /\ sets'[x].mem[l].dev \in Devices
                                     /\ Sirk[sets'[x].mem[l].dev] = sets'[x].sirk
                                /\ sets'[x].mem[l].used => sets'[x].mem[l].dev # NoDev
                BY DEF Knows
            <4>2. CASE x # i BY <3>3, <4>2 DEF Knows
            <4>3. CASE x = i /\ sets'[i] = FreeSet BY <4>3, FreeEntries
            <4>4. CASE x = i /\ sets'[i] # FreeSet
                <5>1. CASE l = j BY <4>1, <4>4, <5>1 DEF Knows
                <5>2. CASE l # j BY <4>1, <4>4, <5>2 DEF Knows
                <5>3. QED BY <5>1, <5>2
            <4>5. QED BY <4>2, <4>3, <4>4
        <3>4. QED BY <1>2, <3>2, <3>3
    <2>2. CASE ~HasBlock(d) BY <1>2, <1>6, <2>2 DEF Disconnected
    <2>3. QED BY <2>1, <2>2
<1>7. ASSUME NEW d \in Devices, ReadsComplete(d) PROVE Knows(sets')
    <2> DEFINE k == clcb[Block(d)]
    <2>1. k.sirk \in {0, Sirk[d]}
        <3>1. HasBlock(d) /\ d # NoDev BY <1>7, LinksAssumption DEF ReadsComplete
        <3>2. QED BY <3>1, BlockOf DEF OwnSirk
    <2>2. \/ sets' = sets
          \/ k.sirk # 0 /\ \E i \in Blocks : JoinsAt(sets, sets', i, d, k.sirk)
        BY <1>1, <1>7, JoinedSets
    <2>3. ASSUME NEW i \in Blocks, k.sirk # 0, JoinsAt(sets, sets', i, d, k.sirk)
          PROVE  Knows(sets')
        <3> HIDE DEF k
        <3>1. PICK p : /\ \/ p.mem = sets[i].mem /\ sets[i].sirk = k.sirk
                          \/ sets[i] = FreeSet /\ p.mem = FreeSet.mem
                       /\ EntersAt(p, sets'[i], d)
            BY <2>3 DEF JoinsAt
        <3>2. sets'[i].sirk = Sirk[d] /\ Sirk[d] = k.sirk BY <2>1, <2>3 DEF JoinsAt
        <3>3. \A l \in Blocks : /\ p.mem[l].dev # NoDev =>
                                     p.mem[l].dev \in Devices /\ Sirk[p.mem[l].dev] = Sirk[d]
                                /\ p.mem[l].used => p.mem[l].dev # NoDev
            BY <3>1, <3>2, FreeEntries DEF Knows
        <3>4. \A l \in Blocks : sets'[i].mem[l] = p.mem[l] \/ sets'[i].mem[l] = Joined(d)
            BY <3>1 DEF EntersAt
        <3>5. Joined(d).dev = d /\ d # NoDev BY LinksAssumption DEF Joined
        <3>6. \A x \in Blocks \ {i} : sets'[x] = sets[x] BY <2>3 DEF JoinsAt
        <3> SUFFICES ASSUME NEW x \in Blocks, NEW l \in Blocks
                     PROVE  /\ sets'[x].mem[l].dev # NoDev =>
                                 /\ sets'[x].mem[l].dev \in Devices
                                 /\ Sirk[sets'[x].mem[l].dev] = sets'[x].sirk
                            /\ sets'[x].mem[l].used => sets'[x].mem[l].dev # NoDev
            BY DEF Knows
        <3>7. CASE x # i BY <3>6, <3>7 DEF Knows
        <3>8. CASE x = i BY <3>2, <3>3, <3>4, <3>5, <3>8
        <3>9. QED BY <3>7, <3>8
    <2>4. QED BY <1>2, <2>2, <2>3
<1>8. ASSUME NEW d \in Devices,
             \/ Connected(d) \/ Incoming(d) \/ AttemptFails(d) \/ Secure(d) \/ KeyUpdate(d)
             \/ PairingComplete(d) \/ Encrypted(d) \/ Discovered(d) \/ SirkRead(d)
      PROVE  sets' = sets
    BY <1>8 DEF Connected, Incoming, HandleConnection, AttemptFails, AttemptEnds, Secure,
        KeyUpdate, PairingComplete, Encrypted, Discovered, SirkRead
<1>9. QED BY <1>2, <1>3, <1>4, <1>5, <1>6, <1>7, <1>8 DEF Next, Stack

\* What becomes of the blocks: each is kept as far as it matters here, is
\* freed, or is that of a device whose link begins or proceeds.
LEMMA BlockSteps ==
    ASSUME MaxLinks <= 2, LinkInv, Next
    PROVE  \A b \in Blocks :
             \/ clcb'[b].dev = NoDev
             \/ /\ clcb'[b].dev = clcb[b].dev /\ clcb'[b].phase = clcb[b].phase
                /\ clcb'[b].csis = clcb[b].csis /\ clcb'[b].sirk = clcb[b].sirk
             \/ /\ clcb'[b].dev = clcb[b].dev /\ clcb'[b].sirk \in {clcb[b].sirk, Sirk[clcb[b].dev]}
                /\ clcb'[b].phase # "READY" \/ ReadsComplete(clcb[b].dev)
             \/ clcb[b].dev = NoDev /\ clcb'[b].phase = "UP" /\ clcb'[b].sirk = 0
<1> DEFINE Fits(b) ==
             \/ clcb'[b].dev = NoDev
             \/ /\ clcb'[b].dev = clcb[b].dev /\ clcb'[b].phase = clcb[b].phase
                /\ clcb'[b].csis = clcb[b].csis /\ clcb'[b].sirk = clcb[b].sirk
             \/ /\ clcb'[b].dev = clcb[b].dev /\ clcb'[b].sirk \in {clcb[b].sirk, Sirk[clcb[b].dev]}
                /\ clcb'[b].phase # "READY" \/ ReadsComplete(clcb[b].dev)
             \/ clcb[b].dev = NoDev /\ clcb'[b].phase = "UP" /\ clcb'[b].sirk = 0
           All == \A b \in Blocks : Fits(b)
<1> SUFFICES All OBVIOUS
<1>1. ASSUME clcb' = clcb PROVE All BY <1>1
<1>2. ASSUME NEW d, DisconnectDevice(d) PROVE All
    BY <1>2, FlagShape
<1>3. CASE Host
    <2>1. CASE Restart
        <3>1. \A b \in Blocks : clcb'[b] = FreeClcb BY <2>1 DEF Restart
        <3>2. QED BY <3>1, FreeClcbOk
    <2>2. ASSUME NEW d \in Devices, RpcDisconnect(d) PROVE All
        BY <1>2, <2>2 DEF RpcDisconnect
    <2>3. ASSUME NEW k \in 1..NvSlots, RpcUnbond(k) PROVE All
        <3>1. DisconnectDevice(nvram[k].dev) \/ clcb' = clcb BY <2>3 DEF RpcUnbond
        <3> HIDE DEF All
        <3>2. QED BY <1>1, <1>2, <3>1
    <2> HIDE DEF All
    <2>4. CASE RpcScanStart \/ RpcScanStop
        BY <1>1, <2>4 DEF RpcScanStart, RpcScanStop
    <2>5. ASSUME NEW on \in BOOLEAN, RpcAdv(on) PROVE All BY <1>1, <2>5 DEF RpcAdv
    <2>6. ASSUME NEW d \in Devices, RpcConnect(d) \/ RpcCancel(d) PROVE All
        BY <1>1, <2>6 DEF RpcConnect, RpcCancel, AttemptEnds
    <2>7. ASSUME NEW k \in 1..NvSlots, Restore(k) PROVE All BY <1>1, <2>7 DEF Restore
    <2>8. QED BY <1>3, <2>1, <2>2, <2>3, <2>4, <2>5, <2>6, <2>7 DEF Host
<1>4. ASSUME NEW d \in Devices, Connected(d) \/ Incoming(d) PROVE All
    <2>1. PICK r : HandleConnection(d, r) /\ Cardinality(up) < MaxLinks
        BY <1>4 DEF Connected, Incoming
    <2> DEFINE A == AllocBlock
    <2>2. clcb[A].dev = NoDev BY <2>1, BlockFree
    <2>3. /\ \A b \in Blocks \ {A} : clcb'[b] = clcb[b]
          /\ clcb[A].dev = NoDev => clcb'[A].phase = "UP" /\ clcb'[A].sirk = 0
        BY <2>1, ConnectShape
    <2> HIDE DEF A
    <2>4. QED BY <2>2, <2>3
<1>5. ASSUME NEW d \in Devices, Disconnected(d) PROVE All
    <2>1. \A b \in Blocks : clcb'[b] = clcb[b] \/ clcb'[b] = FreeClcb BY <1>5, LinkDown
    <2>2. QED BY <2>1, FreeClcbOk
<1>6. ASSUME NEW d \in Devices,
             Secure(d) \/ KeyUpdate(d) \/ PairingComplete(d) \/ Encrypted(d)
               \/ Discovered(d) \/ SirkRead(d) \/ ReadsComplete(d)
      PROVE  All
    <2> DEFINE B == Block(d)
    <2>1. /\ B \in Blocks /\ clcb[B].dev = d /\ clcb'[B].dev = d
          /\ \A b \in Blocks \ {B} : clcb'[b] = clcb[b]
          /\ clcb'[B].sirk \in {clcb[B].sirk, Sirk[d]}
          /\ clcb'[B].phase = "READY" => clcb[B].phase = "READY" \/ ReadsComplete(d)
          /\ \/ clcb[B].phase # "READY"
             \/ clcb'[B].phase = clcb[B].phase /\ clcb'[B].csis = clcb[B].csis
                   /\ clcb'[B].sirk = clcb[B].sirk
        BY <1>6, PhaseShape
    <2> HIDE DEF B
    <2>2. Fits(B) BY <2>1
    <2>3. QED BY <2>1, <2>2
<1> HIDE DEF All
<1>7. ASSUME NEW i \in Blocks, ScanTimeout(i) PROVE All BY <1>1, <1>7 DEF ScanTimeout
<1>8. ASSUME NEW d \in Devices, ScanResult(d) \/ AttemptFails(d) PROVE All
    BY <1>1, <1>8 DEF ScanResult, AttemptFails, AttemptEnds
<1>9. CASE Stack BY <1>4, <1>5, <1>6, <1>7, <1>8, <1>9 DEF Stack
<1>10. QED BY <1>3, <1>9 DEF Next

\* What the blocks know of the SIRK stays right.
LEMMA SirkStep ==
    ASSUME MaxLinks <= 2, LinkInv, OwnSirk(clcb), Next
    PROVE  OwnSirk(clcb')
<1> SUFFICES ASSUME NEW b \in Blocks, clcb'[b].dev # NoDev
             PROVE  clcb'[b].sirk \in {0, Sirk[clcb'[b].dev]}
    BY DEF OwnSirk
<1>1. CASE clcb'[b].dev = clcb[b].dev /\ clcb'[b].sirk \in {clcb[b].sirk, Sirk[clcb[b].dev]}
    BY <1>1 DEF OwnSirk
<1>2. CASE clcb'[b].sirk = 0 BY <1>2
<1>3. QED BY <1>1, <1>2, BlockSteps

\* What becomes of the devices that have a block, are being connected or are
\* noted as missed: they stay so, but for one whose attempt, link or absence
\* ends.
LEMMA BehindSteps ==
    ASSUME MaxLinks <= 2, LinkInv, Next, ~Restart, NEW e, e # NoDev,
           Behind(e, clcb, radio, amiss)
    PROVE  \/ Behind(e, clcb', radio', amiss')
           \/ \E d \in Devices : d = e /\ (AttemptFails(d) \/ RpcCancel(d)) /\ ~Counted(d)
           \/ \E d \in Devices : d = e /\ Disconnected(d) /\ HasBlock(d)
<1>1. radio \in Radio /\ clcb \in [Blocks -> Clcb] BY DEF LinkInv, Backed, BlocksOk
<1>2. ASSUME \A b \in Blocks : clcb[b].dev = e => clcb'[b].dev = e,
             radio.create = e => radio'.create = e,
             e \in amiss.missed => e \in amiss'.missed
      PROVE  Behind(e, clcb', radio', amiss')
    BY <1>2 DEF Behind
<1>3. \A d : \A r \in Radio : r.create # NoDev => CreateConnection(r, d).create = r.create
    BY DEF CreateConnection
<1>4. CASE Host
    <2>1. CASE RpcScanStart
        <3>1. radio'.create = radio.create BY <1>1, <2>1, CreateShape DEF RpcScanStart
        <3>2. QED BY <1>2, <2>1, <3>1 DEF RpcScanStart
    <2>2. CASE RpcScanStop
        <3>1. radio'.create = radio.create BY <1>1, <2>2, CreateShape DEF RpcScanStop
        <3>2. QED BY <1>2, <2>2, <3>1 DEF RpcScanStop
    <2>3. ASSUME NEW on \in BOOLEAN, RpcAdv(on) PROVE Behind(e, clcb', radio', amiss')
        <3>1. radio'.create = radio.create BY <1>1, <2>3 DEF RpcAdv, Radio
        <3>2. QED BY <1>2, <2>3, <3>1 DEF RpcAdv
    <2>4. ASSUME NEW d \in Devices, RpcConnect(d) PROVE Behind(e, clcb', radio', amiss')
        <3>1. ScanOff(radio) \in Radio /\ ScanOff(radio).create = radio.create BY <1>1, CreateShape
        <3>2. radio'.create = radio.create \/ radio.create = NoDev
            BY <1>1, <1>3, <2>4, <3>1 DEF RpcConnect
        <3>3. QED BY <1>2, <2>4, <3>2 DEF RpcConnect
    <2>5. ASSUME NEW d \in Devices, RpcCancel(d), d = e \/ d # e
          PROVE  \/ Behind(e, clcb', radio', amiss')
                 \/ d = e /\ ~Counted(d)
        <3>1. /\ clcb' = clcb /\ radio.create = d
              /\ amiss' = IF Counted(d) THEN [amiss EXCEPT !.missed = @ \cup {d}] ELSE amiss
            BY <2>5 DEF RpcCancel, AttemptEnds
        <3>2. Counted(d) => amiss'.missed = amiss.missed \cup {d} BY <3>1 DEF LinkInv, Amiss
        <3>3. QED BY <3>1, <3>2 DEF Behind
    <2>6. ASSUME NEW d \in Devices, RpcDisconnect(d) PROVE Behind(e, clcb', radio', amiss')
        <3>1. \A b \in Blocks : clcb'[b].dev = clcb[b].dev BY <2>6, FlagShape DEF RpcDisconnect
        <3>2. QED BY <1>2, <2>6, <3>1 DEF RpcDisconnect
    <2>7. ASSUME NEW k \in 1..NvSlots, RpcUnbond(k) PROVE Behind(e, clcb', radio', amiss')
        <3>1. DisconnectDevice(nvram[k].dev) \/ clcb' = clcb BY <2>7 DEF RpcUnbond
        <3>2. \A b \in Blocks : clcb'[b].dev = clcb[b].dev BY <3>1, FlagShape
        <3>3. QED BY <1>2, <2>7, <3>2 DEF RpcUnbond
    <2>8. ASSUME NEW k \in 1..NvSlots, Restore(k) PROVE Behind(e, clcb', radio', amiss')
        BY <1>2, <2>8 DEF Restore
    <2>9. QED BY <1>4, <2>1, <2>2, <2>3, <2>4, <2>5, <2>6, <2>7, <2>8 DEF Host
<1>5. CASE Stack
    <2>1. ASSUME NEW i \in Blocks, ScanTimeout(i) PROVE Behind(e, clcb', radio', amiss')
        <3>1. radio'.create = radio.create BY <1>1, <2>1, SearchCreate DEF ScanTimeout
        <3>2. QED BY <1>2, <2>1, <3>1 DEF ScanTimeout
    <2>2. ASSUME NEW d \in Devices, ScanResult(d) PROVE Behind(e, clcb', radio', amiss')
        <3>1. PICK f : radio' \in {SearchRadio(radio, f, FALSE),
                                  CreateConnection(SearchRadio(radio, f, FALSE), d)}
            BY <2>2 DEF ScanResult
        <3>2. SearchRadio(radio, f, FALSE) \in Radio
            BY <1>1, CreateShape DEF SearchRadio
        <3>3. SearchRadio(radio, f, FALSE).create = radio.create BY <1>1, SearchCreate
        <3>4. radio.create # NoDev => radio'.create = radio.create BY <1>3, <3>1, <3>2, <3>3
        <3>5. clcb' = clcb /\ amiss' \in {amiss, [amiss EXCEPT !.missed = @ \cup {d}]}
            BY <2>2 DEF ScanResult
        <3>6. amiss.missed \subseteq amiss'.missed BY <3>5 DEF LinkInv, Amiss
        <3>7. QED BY <1>2, <3>4, <3>5, <3>6
    <2>3. ASSUME NEW d \in Devices, Connected(d) \/ Incoming(d)
          PROVE  Behind(e, clcb', radio', amiss')
        <3>1. PICK r : /\ HandleConnection(d, r) /\ Cardinality(up) < MaxLinks
                       /\ r \in Radio /\ (radio.create # d => r.create = radio.create)
            <4>1. [radio EXCEPT !.create = NoDev] \in Radio /\ [radio EXCEPT !.adv = FALSE] \in Radio
                BY <1>1 DEF Radio, Addr
            <4>2. [radio EXCEPT !.adv = FALSE].create = radio.create BY <1>1 DEF Radio
            <4>3. QED BY <2>3, <4>1, <4>2 DEF Connected, Incoming
        <3> DEFINE A == AllocBlock
        <3>2. clcb[A].dev = NoDev BY <3>1, BlockFree
        <3>3. /\ A \in Blocks /\ \A b \in Blocks \ {A} : clcb'[b] = clcb[b]
              /\ clcb[A].dev = NoDev => clcb'[A].dev = d
              /\ \E k : radio' = ConnectPair(RadioConnected(r), k)
            BY <3>1, <3>2, ConnectShape, LinksAssumption
        <3> HIDE DEF A
        <3>4. RadioConnected(r) \in Radio /\ RadioConnected(r).create = r.create
            BY <3>1, CreateShape
        <3>5. r.create # NoDev => radio'.create = r.create BY <3>3, <3>4, PairCreate
        <3>6. amiss' = amiss BY <3>1 DEF HandleConnection
        <3>7. CASE radio.create # d
            <4>1. radio.create = e => radio'.create = e BY <3>1, <3>5, <3>7
            <4>2. \A b \in Blocks : clcb[b].dev = e => clcb'[b].dev = e BY <3>2, <3>3
            <4>3. QED BY <1>2, <3>6, <4>1, <4>2
        <3>8. CASE radio.create = d
            <4>1. CASE e = d BY <3>2, <3>3, <4>1 DEF Behind
            <4>2. CASE e # d
                <5>1. \A b \in Blocks : clcb[b].dev = e => clcb'[b].dev = e BY <3>2, <3>3
                <5>2. QED BY <1>2, <3>6, <3>8, <4>2, <5>1
            <4>3. QED BY <4>1, <4>2
        <3>9. QED BY <3>7, <3>8
    <2>4. ASSUME NEW d \in Devices, AttemptFails(d)
          PROVE  \/ Behind(e, clcb', radio', amiss')
                 \/ d = e /\ ~Counted(d)
        <3>1. /\ clcb' = clcb /\ radio.create = d
              /\ amiss' = IF Counted(d) THEN [amiss EXCEPT !.missed = @ \cup {d}] ELSE amiss
            BY <2>4 DEF AttemptFails, AttemptEnds
        <3>2. Counted(d) => amiss'.missed = amiss.missed \cup {d} BY <3>1 DEF LinkInv, Amiss
        <3>3. QED BY <3>1, <3>2 DEF Behind
    <2>5. ASSUME NEW d \in Devices, Disconnected(d)
          PROVE  \/ Behind(e, clcb', radio', amiss')
                 \/ d = e /\ HasBlock(d)
        <3>1. /\ radio'.create = radio.create
              /\ \A b \in Blocks : clcb[b].dev # d => clcb'[b] = clcb[b]
            BY <2>5, LinkDown
        <3>2. CASE d # e
            <4>1. amiss' = amiss \/ amiss'.missed \in {amiss.missed, amiss.missed \ {d}, amiss.missed \cup {d}}
                BY <2>5 DEF Disconnected, HandleDisconnection, AmissLost, AmissLeft
            <4>2. e \in amiss.missed => e \in amiss'.missed BY <3>2, <4>1
            <4>3. QED BY <1>2, <3>1, <3>2, <4>2
        <3>3. CASE ~HasBlock(d)
            <4>1. amiss' = amiss /\ clcb' = clcb BY <2>5, <3>3 DEF Disconnected
            <4>2. QED BY <1>2, <3>1, <4>1
        <3>4. QED BY <3>2, <3>3
    <2>6. ASSUME NEW d \in Devices,
                 Secure(d) \/ KeyUpdate(d) \/ PairingComplete(d) \/ Encrypted(d)
                   \/ Discovered(d) \/ SirkRead(d) \/ ReadsComplete(d)
          PROVE  Behind(e, clcb', radio', amiss')
        <3> DEFINE B == Block(d)
        <3>1. /\ B \in Blocks /\ clcb[B].dev = d /\ clcb'[B].dev = d
              /\ \A b \in Blocks \ {B} : clcb'[b] = clcb[b]
            BY <2>6, PhaseShape
        <3> HIDE DEF B
        <3>2. CASE ReadsComplete(d)
            <4>1. amiss'.missed = amiss.missed \ {d} BY <3>2 DEF ReadsComplete
            <4>2. radio'.create = radio.create
                BY <1>1, <3>2, SearchCreate DEF ReadsComplete
            <4>3. CASE e = d BY <3>1, <4>3 DEF Behind
            <4>4. CASE e # d BY <1>2, <3>1, <4>1, <4>2, <4>4
            <4>5. QED BY <4>3, <4>4
        <3>3. CASE ~ReadsComplete(d)
            <4>1. amiss' = amiss /\ radio' = radio
                BY <2>6, <3>3 DEF Secure, KeyUpdate, PairingComplete, Encrypted, Discovered, SirkRead
            <4>2. QED BY <1>2, <3>1, <4>1
        <3>4. QED BY <3>2, <3>3
    <2>7. QED BY <1>5, <2>1, <2>2, <2>3, <2>4, <2>5, <2>6 DEF Stack
<1>6. QED BY <1>4, <1>5 DEF Next

\* A set in use has a SIRK and counts the device.
LEMMA CountedIn ==
    ASSUME SetsOk(sets), NEW x \in Blocks, NEW l \in Blocks, sets[x].mem[l].used
    PROVE  Counted(sets[x].mem[l].dev) /\ sets[x].sirk # 0 /\ sets[x] # FreeSet
<1>1. sets[x] # FreeSet BY FreeEntries
<1>2. sets[x].sirk # 0 /\ sets[x].size = 2 BY <1>1 DEF SetsOk, SetOk
<1>3. l \in Entries(sets[x], sets[x].mem[l].dev) BY <1>2 DEF Entries, Blocks
<1>4. QED BY <1>1, <1>2, <1>3 DEF Counted

\* A device whose last link ends is in use in no set, or was counted.
LEMMA LeftUnused ==
    ASSUME LinkInv, Knows(sets), NEW d \in Devices, Disconnected(d), HasBlock(d),
           NEW x \in Blocks, NEW l \in Blocks, sets'[x].mem[l].used, sets'[x].mem[l].dev = d
    PROVE  d \in amiss'.missed
<1>1. SetsOk(sets) /\ d # NoDev BY LinksAssumption DEF LinkInv
<1>2. HandleDisconnection(d, RadioDisconnected(radio, d)) BY DEF Disconnected
<1>3. CASE sets' = sets /\ amiss' = AmissLost(d)
    <2>1. Counted(d) BY <1>1, <1>3, CountedIn
    <2>2. amiss'.missed = amiss.missed \cup {d} BY <1>3, <2>1 DEF AmissLost
    <2>3. QED BY <2>2
<1>4. ASSUME NEW i \in Blocks, sets[i].sirk # 0, \A y \in Blocks \ {i} : sets'[y] = sets[y],
             LeavesAt(sets[i], sets'[i], d)
      PROVE  FALSE
    <2>1. PICK j \in Blocks :
            /\ sets[i].mem[j].dev = d
            /\ \/ sets'[i] = FreeSet
               \/ /\ ~sets'[i].mem[j].used
                  /\ \A m \in Blocks \ {j} : sets'[i].mem[m] = sets[i].mem[m]
        BY <1>4 DEF LeavesAt
    <2>2. CASE x = i
        <3>1. sets'[i] # FreeSet BY <2>2, FreeEntries
        <3>2. l # j /\ sets[i].mem[l].dev = d BY <2>1, <2>2, <3>1
        <3>3. EntryOk(sets[i]) BY <1>1 DEF SetsOk
        <3>4. QED BY <1>1, <2>1, <3>2, <3>3 DEF EntryOk, Blocks
    <2>3. CASE x # i
        <3>1. sets[x].mem[l].dev = d BY <1>4, <2>3
        <3>2. sets[x].sirk = sets[i].sirk BY <1>1, <2>1, <3>1 DEF Knows
        <3>3. QED BY <1>1, <1>4, <2>3, <3>2 DEF SetsOk, Blocks
    <2>4. QED BY <2>2, <2>3
<1>5. QED BY <1>1, <1>2, <1>3, <1>4, LeaveSets

\* An entry that is in use after a step was so before it, or is that of a
\* member just found or just joined.
LEMMA UseSteps ==
    ASSUME LinkInv, Next, NEW x \in Blocks, NEW l \in Blocks, sets'[x].mem[l].used
    PROVE  \/ ~Restart /\ \E y, m \in Blocks :
                sets[y].mem[m].used /\ sets[y].mem[m].dev = sets'[x].mem[l].dev
           \/ \E d \in Devices : /\ ScanResult(d) \/ ReadsComplete(d)
                                 /\ sets'[x].mem[l].dev = d
<1> DEFINE Old == \E y, m \in Blocks :
                    sets[y].mem[m].used /\ sets[y].mem[m].dev = sets'[x].mem[l].dev
<1>0. ASSUME \A y, m \in Blocks : EntryKept(sets, sets', y, m) PROVE Old BY <1>0 DEF EntryKept
<1>1. SetsOk(sets) /\ clcb \in [Blocks -> Clcb] BY DEF LinkInv, BlocksOk
<1>2. ASSUME sets' = sets PROVE Old BY <1>2
<1>3. ~Restart
    <2>1. ASSUME Restart PROVE FALSE
        <3>1. \A i \in Blocks : sets'[i] = FreeSet BY <2>1 DEF Restart
        <3>2. QED BY <3>1, FreeEntries
    <2>2. QED BY <2>1
<1>4. Host => sets' = sets
    BY <1>3 DEF Host, RpcScanStart, RpcScanStop, RpcAdv, RpcConnect, RpcCancel,
        AttemptEnds, RpcDisconnect, RpcUnbond, Restore
<1>5. ASSUME NEW i \in Blocks, ScanTimeout(i) PROVE Old
    BY <1>0, <1>1, <1>5, TimeoutSets
<1>6. ASSUME NEW d \in Devices, ScanResult(d) PROVE Old \/ sets'[x].mem[l].dev = d
    <2>1. EntryKept(sets, sets', x, l) \/ sets'[x].mem[l].dev = d BY <1>1, <1>6, ResultSets
    <2>2. QED BY <2>1 DEF EntryKept
<1>7. ASSUME NEW d \in Devices, Disconnected(d) PROVE Old
    <2>1. CASE HasBlock(d)
        <3>1. HandleDisconnection(d, RadioDisconnected(radio, d)) BY <1>7, <2>1 DEF Disconnected
        <3>2. \/ sets' = sets
              \/ \E i \in Blocks : /\ \A y \in Blocks \ {i} : sets'[y] = sets[y]
                                   /\ LeavesAt(sets[i], sets'[i], d)
            BY <1>1, <3>1, LeaveSets
        <3>3. ASSUME NEW i \in Blocks, \A y \in Blocks \ {i} : sets'[y] = sets[y],
                     LeavesAt(sets[i], sets'[i], d)
              PROVE  Old
            <4>1. PICK j \in Blocks :
                    \/ sets'[i] = FreeSet
                    \/ /\ ~sets'[i].mem[j].used
                       /\ \A m \in Blocks \ {j} : sets'[i].mem[m] = sets[i].mem[m]
                BY <3>3 DEF LeavesAt
            <4>2. sets'[x].mem[l] = sets[x].mem[l] BY <3>3, <4>1, FreeEntries
            <4>3. QED BY <4>2
        <3> HIDE DEF Old
        <3>4. QED BY <1>2, <3>2, <3>3
    <2>2. CASE ~HasBlock(d) BY <1>2, <1>7, <2>2 DEF Disconnected
    <2>3. QED BY <2>1, <2>2
<1>8. ASSUME NEW d \in Devices, ReadsComplete(d) PROVE Old \/ sets'[x].mem[l].dev = d
    <2> DEFINE k == clcb[Block(d)]
    <2>1. sets' = sets \/ \E i \in Blocks : JoinsAt(sets, sets', i, d, k.sirk)
        BY <1>1, <1>8, JoinedSets
    <2>2. ASSUME NEW i \in Blocks, JoinsAt(sets, sets', i, d, k.sirk)
          PROVE  Old \/ sets'[x].mem[l].dev = d
        <3> HIDE DEF k
        <3>1. PICK p : /\ p.mem = sets[i].mem \/ p.mem = FreeSet.mem
                       /\ EntersAt(p, sets'[i], d)
            BY <2>2 DEF JoinsAt
        <3>2. \A m \in Blocks : sets'[i].mem[m] = p.mem[m] \/ sets'[i].mem[m] = Joined(d)
            BY <3>1 DEF EntersAt
        <3>3. Joined(d).dev = d BY DEF Joined
        <3>4. \A y \in Blocks \ {i} : sets'[y] = sets[y] BY <2>2 DEF JoinsAt
        <3>5. CASE x # i BY <3>4, <3>5
        <3>6. CASE x = i BY <3>1, <3>2, <3>3, <3>6, FreeEntries
        <3>7. QED BY <3>5, <3>6
    <2>3. QED BY <1>2, <2>1, <2>2
<1>9. ASSUME NEW d \in Devices,
             \/ Connected(d) \/ Incoming(d) \/ AttemptFails(d) \/ Secure(d) \/ KeyUpdate(d)
             \/ PairingComplete(d) \/ Encrypted(d) \/ Discovered(d) \/ SirkRead(d)
      PROVE  sets' = sets
    BY <1>9 DEF Connected, Incoming, HandleConnection, AttemptFails, AttemptEnds, Secure,
        KeyUpdate, PairingComplete, Encrypted, Discovered, SirkRead
<1> HIDE DEF Old
<1>10. CASE Host BY <1>2, <1>3, <1>4, <1>10 DEF Old
<1>11. CASE Stack
    BY <1>2, <1>3, <1>5, <1>6, <1>7, <1>8, <1>9, <1>11 DEF Stack, Old
<1>12. QED BY <1>10, <1>11 DEF Next

\* Whoever a set counts stays behind it, after every step.
LEMMA BackingStep ==
    ASSUME MaxLinks <= 2, LinkInv, Knows(sets), Knows(sets'),
           Backing(sets, clcb, radio, amiss), Next
    PROVE  Backing(sets', clcb', radio', amiss')
<1> SUFFICES ASSUME NEW x \in Blocks, NEW l \in Blocks, sets'[x].mem[l].used
             PROVE  Behind(sets'[x].mem[l].dev, clcb', radio', amiss')
    BY DEF Backing
<1> DEFINE e == sets'[x].mem[l].dev
<1>1. e # NoDev BY DEF Knows
<1>2. SetsOk(sets) /\ LinkInv BY DEF LinkInv
<1>3. ASSUME NEW y \in Blocks, NEW m \in Blocks, ~Restart,
             sets[y].mem[m].used, sets[y].mem[m].dev = e
      PROVE  Behind(e, clcb', radio', amiss')
    <2> HIDE DEF e
    <2>1. Behind(e, clcb, radio, amiss) BY <1>3 DEF Backing
    <2>2. Counted(e) BY <1>2, <1>3, CountedIn
    <2>3. ASSUME NEW d \in Devices, d = e, Disconnected(d), HasBlock(d) PROVE e \in amiss'.missed
        BY <2>3, LeftUnused DEF e
    <2>4. QED BY <1>1, <1>3, <2>1, <2>2, <2>3, BehindSteps DEF Behind
<1>4. ASSUME NEW d \in Devices, ScanResult(d) PROVE Behind(d, clcb', radio', amiss')
    <2>1. clcb' = clcb BY <1>4 DEF ScanResult
    <2>2. CASE HasBlock(d) BY <2>1, <2>2 DEF HasBlock, Behind
    <2>3. CASE radio'.create = d BY <2>3 DEF Behind
    <2>4. CASE ~HasBlock(d) /\ radio'.create # d
        <3>1. amiss' = [amiss EXCEPT !.missed = @ \cup {d}] BY <1>4, <2>4 DEF ScanResult
        <3>2. d \in amiss'.missed BY <3>1 DEF LinkInv, Amiss
        <3>3. QED BY <3>2 DEF Behind
    <2>5. QED BY <2>2, <2>3, <2>4
<1>5. ASSUME NEW d \in Devices, ReadsComplete(d) PROVE Behind(d, clcb', radio', amiss')
    <2>1. Block(d) \in Blocks /\ clcb'[Block(d)].dev = d BY <1>5, PhaseShape
    <2>2. QED BY <2>1 DEF Behind
<1> HIDE DEF e
<1>6. QED BY <1>2, <1>3, <1>4, <1>5, UseSteps DEF e

\* A member of the only set joins it: there is room for the set, and in it.
LEMMA JoinRecords ==
    ASSUME OneSet, LinkInv, Knows(sets), OwnSirk(clcb), NEW d \in Devices, ReadsComplete(d),
           clcb[Block(d)].csis, clcb[Block(d)].sirk # 0
    PROVE  \E x, l \in Blocks :
              sets'[x].sirk = clcb[Block(d)].sirk /\ sets'[x].mem[l] = Joined(d)
<1> DEFINE s == clcb[Block(d)].sirk
<1>1. SetsOk(sets) /\ clcb \in [Blocks -> Clcb] BY DEF LinkInv, BlocksOk
<1>2. s = Sirk[d] /\ s # 0 /\ s \in Nat
    <2>1. HasBlock(d) /\ d # NoDev BY LinksAssumption DEF ReadsComplete
    <2>2. Block(d) \in Blocks /\ clcb[Block(d)].dev = d BY <2>1, BlockOf
    <2>3. s = Sirk[d] BY <2>1, <2>2 DEF OwnSirk
    <2>4. QED BY <2>3, LinksAssumption
<1>3. \A e \in Devices : Sirk[e] # 0 => Sirk[e] = s BY <1>2 DEF OneSet
<1>4. ASSUME NEW e \in Devices, NEW f \in Devices, Sirk[e] = s, Sirk[f] = s, e # d, f # d
      PROVE  e = f
    BY <1>2, <1>4 DEF OneSet
<1>5. ASSUME NEW x \in Blocks PROVE sets[x].sirk \in {0, s}
    <2>1. SetOk(sets[x]) BY <1>1 DEF SetsOk
    <2>2. CASE sets[x].sirk # 0
        <3>1. 1 <= InUse(sets[x]) BY <2>1, <2>2 DEF SetOk
        <3>2. PICK l \in Blocks : sets[x].mem[l].used BY <3>1 DEF InUse, Bit, Blocks
        <3>3. sets[x].mem[l].dev \in Devices /\ Sirk[sets[x].mem[l].dev] = sets[x].sirk
            BY <3>2 DEF Knows
        <3>4. QED BY <1>3, <2>2, <3>3
    <2>3. QED BY <2>2
<1> HIDE DEF s
<1>6. JoinIndex(s) # {}
    <2>1. CASE SetsOf(s) # {} BY <2>1 DEF JoinIndex, JoinSets, SetsOf
    <2>2. CASE SetsOf(s) = {}
        <3> DEFINE free == {i \in Blocks : sets[i].num = 0}
                   i == First(free)
        <3>1. 1 \in Blocks /\ sets[1].sirk = 0 BY <1>5, <2>2 DEF SetsOf, Blocks
        <3>2. sets[1] = FreeSet BY <1>1, <3>1 DEF SetsOk, SetOk
        <3>3. 1 \in free BY <3>1, <3>2 DEF FreeSet
        <3>4. free \in SUBSET Nat BY DEF Blocks
        <3>5. i \in free BY <3>3, <3>4, FirstIn
        <3>6. AllocSet(s) = [sets EXCEPT ![i] =
                  [@ EXCEPT !.sirk = s, !.size = SetSize, !.mem = [j \in Blocks |-> NoMember]]]
            BY <3>3 DEF AllocSet
        <3> HIDE DEF i
        <3>7. i \in Blocks BY <3>5
        <3>8. sets[i] \in CsisSet BY <1>1, <3>7 DEF SetsOk
        <3>9. JoinSets(s)[i].sirk = s
            BY <1>1, <2>2, <3>6, <3>7, <3>8 DEF JoinSets, SetsOk, CsisSet
        <3>10. QED BY <3>7, <3>9 DEF JoinIndex
    <2>3. QED BY <2>1, <2>2
<1>7. PICK i \in Blocks : JoinsAt(sets, sets', i, d, s)
    BY <1>1, <1>2, <1>6, JoinedSets DEF s
<1>8. PICK p : /\ \/ p.mem = sets[i].mem /\ sets[i].sirk = s
                  \/ sets[i] = FreeSet /\ p.mem = FreeSet.mem
               /\ EntersAt(p, sets'[i], d)
    BY <1>7 DEF JoinsAt
<1>9. ~\A l \in Blocks : p.mem[l].used /\ p.mem[l].dev # d
    <2>1. ASSUME \A l \in Blocks : p.mem[l].used /\ p.mem[l].dev # d PROVE FALSE
        <3>1. 1 \in Blocks /\ 2 \in Blocks BY DEF Blocks
        <3>2. p.mem = sets[i].mem /\ sets[i].sirk = s BY <1>8, <2>1, <3>1, FreeEntries
        <3>3. \A l \in Blocks : /\ sets[i].mem[l].dev \in Devices /\ sets[i].mem[l].dev # NoDev
                                /\ Sirk[sets[i].mem[l].dev] = s
            BY <2>1, <3>2 DEF Knows
        <3>4. sets[i].mem[1].dev = sets[i].mem[2].dev BY <1>4, <2>1, <3>1, <3>2, <3>3
        <3>5. EntryOk(sets[i]) BY <1>1 DEF SetsOk
        <3>6. QED BY <3>1, <3>3, <3>4, <3>5 DEF EntryOk
    <2>2. QED BY <2>1
<1>10. \E l \in Blocks : sets'[i].mem[l] = Joined(d) BY <1>8, <1>9 DEF EntersAt
<1>11. sets'[i].sirk = s BY <1>7 DEF JoinsAt
<1>12. QED BY <1>10, <1>11 DEF s

\* A member that has joined stays on record until its link ends or it joins
\* again, or its set is cleared and amiss names it.
LEMMA StaysOnRecord ==
    ASSUME LinkInv, Next, ~Restart, NEW e \in Devices, ~Disconnected(e), ~ReadsComplete(e)
    PROVE  /\ e \in amiss.dropped => e \in amiss'.dropped
           /\ \A x, l \in Blocks : sets[x].mem[l] = Joined(e) =>
                 \/ sets'[x].mem[l] = Joined(e) /\ sets'[x].sirk = sets[x].sirk
                 \/ e \in amiss'.dropped
<1> DEFINE Stays == /\ e \in amiss.dropped => e \in amiss'.dropped
                    /\ \A x, l \in Blocks : sets[x].mem[l] = Joined(e) =>
                          \/ sets'[x].mem[l] = Joined(e) /\ sets'[x].sirk = sets[x].sirk
                          \/ e \in amiss'.dropped
<1> SUFFICES Stays OBVIOUS
<1>1. /\ SetsOk(sets) /\ clcb \in [Blocks -> Clcb] /\ amiss \in Amiss /\ e # NoDev
      /\ Joined(e).used /\ Joined(e).dev = e /\ Joined(e).conn = e
    BY LinksAssumption DEF LinkInv, BlocksOk, Joined
<1>2. ASSUME sets' = sets, amiss'.dropped = amiss.dropped PROVE Stays BY <1>2
<1>3. ASSUME amiss'.dropped = amiss.dropped,
             \A x, l \in Blocks : EntryKept(sets, sets', x, l) \/ ~sets[x].mem[l].used
      PROVE  Stays
    BY <1>1, <1>3 DEF EntryKept
<1>4. CASE Host
    <2>1. sets' = sets
        BY <1>4 DEF Host, RpcScanStart, RpcScanStop, RpcAdv, RpcConnect, RpcCancel,
            AttemptEnds, RpcDisconnect, RpcUnbond, Restore
    <2>2. \/ amiss' = amiss
          \/ \E d \in Devices : amiss' = [amiss EXCEPT !.missed = @ \cup {d}]
        BY <1>4 DEF Host, RpcScanStart, RpcScanStop, RpcAdv, RpcConnect, RpcCancel,
            AttemptEnds, RpcDisconnect, RpcUnbond, Restore
    <2>3. amiss'.dropped = amiss.dropped BY <1>1, <2>2 DEF Amiss
    <2> HIDE DEF Stays
    <2>4. QED BY <1>2, <2>1, <2>3
<1>5. ASSUME NEW i \in Blocks, ScanTimeout(i) PROVE Stays
    <2>1. amiss' = amiss BY <1>5 DEF ScanTimeout
    <2> HIDE DEF Stays
    <2>2. QED BY <1>1, <1>3, <1>5, <2>1, TimeoutSets
<1>6. ASSUME NEW d \in Devices, ScanResult(d) PROVE Stays
    <2>1. amiss' \in {amiss, [amiss EXCEPT !.missed = @ \cup {d}]} BY <1>6 DEF ScanResult
    <2>2. amiss'.dropped = amiss.dropped BY <1>1, <2>1 DEF Amiss
    <2> HIDE DEF Stays
    <2>3. QED BY <1>1, <1>3, <1>6, <2>2, ResultSets
<1>7. ASSUME NEW d \in Devices, Disconnected(d) PROVE Stays
    <2>1. d # e BY <1>7
    <2>2. CASE ~HasBlock(d) BY <1>2, <1>7, <2>2 DEF Disconnected
    <2>3. CASE HasBlock(d)
        <3>1. HandleDisconnection(d, RadioDisconnected(radio, d)) BY <1>7, <2>3 DEF Disconnected
        <3>2. CASE sets' = sets /\ amiss' = AmissLost(d)
            <4>1. amiss'.dropped = amiss.dropped \ {d} BY <3>2 DEF AmissLost
            <4>2. QED BY <2>1, <3>2, <4>1
        <3>3. ASSUME NEW i \in Blocks, sets[i].sirk # 0,
                     \A y \in Blocks \ {i} : sets'[y] = sets[y],
                     LeavesAt(sets[i], sets'[i], d), amiss' = AmissLeft(sets[i], d)
              PROVE  Stays
            <4>1. PICK j \in Blocks :
                    /\ sets[i].mem[j].dev = d
                    /\ \/ Left(sets[i], d).num = 0
                       \/ /\ sets'[i].sirk = sets[i].sirk
                          /\ \A m \in Blocks \ {j} : sets'[i].mem[m] = sets[i].mem[m]
                BY <3>3 DEF LeavesAt
            <4>2. amiss'.dropped = (amiss.dropped \ {d}) \cup
                    IF Left(sets[i], d).num # 0 THEN {}
                    ELSE {sets[i].mem[m].conn : m \in 1..sets[i].size} \ {NoDev, d}
                BY <3>3 DEF AmissLeft
            <4>3. SetOk(sets[i]) BY <1>1 DEF SetsOk
            <4>4. sets[i].size = 2 BY <3>3, <4>3 DEF SetOk
            <4> SUFFICES ASSUME NEW x \in Blocks, NEW l \in Blocks, sets[x].mem[l] = Joined(e)
                         PROVE  \/ sets'[x].mem[l] = Joined(e) /\ sets'[x].sirk = sets[x].sirk
                                \/ e \in amiss'.dropped
                BY <2>1, <4>2
            <4>5. CASE x # i BY <3>3, <4>5
            <4>6. CASE x = i /\ Left(sets[i], d).num = 0
                <5>1. sets[i].mem[l].conn = e /\ l \in 1..sets[i].size
                    BY <1>1, <4>4, <4>6 DEF Blocks
                <5>2. QED BY <1>1, <2>1, <4>2, <4>6, <5>1
            <4>7. CASE x = i /\ Left(sets[i], d).num # 0
                <5>1. l # j BY <1>1, <2>1, <4>1, <4>7
                <5>2. QED BY <4>1, <4>7, <5>1
            <4>8. QED BY <4>5, <4>6, <4>7
        <3> HIDE DEF Stays
        <3>4. QED BY <1>1, <3>1, <3>2, <3>3, LeaveSets
    <2>4. QED BY <2>2, <2>3
<1>8. ASSUME NEW d \in Devices, ReadsComplete(d) PROVE Stays
    <2> DEFINE k == clcb[Block(d)]
    <2>1. d # e BY <1>8
    <2>2. amiss'.dropped = amiss.dropped \ {d} BY <1>8 DEF ReadsComplete
    <2>3. sets' = sets \/ \E i \in Blocks : JoinsAt(sets, sets', i, d, k.sirk)
        BY <1>1, <1>8, JoinedSets
    <2>4. ASSUME NEW i \in Blocks, JoinsAt(sets, sets', i, d, k.sirk) PROVE Stays
        <3> HIDE DEF k
        <3>1. PICK p : /\ \/ p.mem = sets[i].mem /\ sets[i].sirk = k.sirk
                          \/ sets[i] = FreeSet
                       /\ EntersAt(p, sets'[i], d)
            BY <2>4 DEF JoinsAt
        <3>2. sets'[i].sirk = k.sirk /\ \A y \in Blocks \ {i} : sets'[y] = sets[y]
            BY <2>4 DEF JoinsAt
        <3> SUFFICES ASSUME NEW x \in Blocks, NEW l \in Blocks, sets[x].mem[l] = Joined(e)
                     PROVE  sets'[x].mem[l] = Joined(e) /\ sets'[x].sirk = sets[x].sirk
            BY <2>1, <2>2
        <3>3. CASE x # i BY <3>2, <3>3
        <3>4. CASE x = i
            <4>1. p.mem = sets[i].mem /\ sets[i].sirk = k.sirk BY <1>1, <3>1, <3>4, FreeEntries
            <4>2. p.mem[l].used /\ p.mem[l].dev # d BY <1>1, <2>1, <3>4, <4>1
            <4>3. sets'[i].mem[l] = p.mem[l] BY <3>1, <4>2 DEF EntersAt
            <4>4. QED BY <3>2, <3>4, <4>1, <4>3
        <3>5. QED BY <3>3, <3>4
    <2>5. CASE sets' = sets BY <2>1, <2>2, <2>5
    <2> HIDE DEF Stays
    <2>6. QED BY <2>3, <2>4, <2>5
<1>9. ASSUME NEW d \in Devices,
             \/ Connected(d) \/ Incoming(d) \/ AttemptFails(d) \/ Secure(d) \/ KeyUpdate(d)
             \/ PairingComplete(d) \/ Encrypted(d) \/ Discovered(d) \/ SirkRead(d)
      PROVE  Stays
    <2>1. /\ sets' = sets
          /\ amiss' = amiss \/ amiss' = [amiss EXCEPT !.missed = @ \cup {d}]
        BY <1>9 DEF Connected, Incoming, HandleConnection, AttemptFails, AttemptEnds, Secure,
            KeyUpdate, PairingComplete, Encrypted, Discovered, SirkRead
    <2>2. amiss'.dropped = amiss.dropped BY <1>1, <2>1 DEF Amiss
    <2> HIDE DEF Stays
    <2>3. QED BY <1>2, <2>1, <2>2
<1> HIDE DEF Stays
<1>10. CASE Stack BY <1>5, <1>6, <1>7, <1>8, <1>9, <1>10 DEF Stack
<1>11. QED BY <1>4, <1>10 DEF Next

\* Every member whose reads are done is on record after every step.
LEMMA OnRecordStep ==
    ASSUME OneSet, MaxLinks <= 2, RecordInv, Next
    PROVE  OnRecord(sets', clcb', amiss')
<1> SUFFICES ASSUME NEW b \in Blocks, Ready(clcb'[b]), clcb'[b].dev \notin amiss'.dropped
             PROVE  Recorded(sets', clcb'[b])
    BY DEF OnRecord
<1> DEFINE d == clcb'[b].dev
<1>1. LinkInv /\ Knows(sets) /\ OwnSirk(clcb) /\ BlocksOk(clcb, up) /\ up \subseteq Devices
    BY DEF RecordInv, LinkInv, UpOk
<1>2. clcb'[b].phase = "READY" /\ d # NoDev /\ clcb'[b].csis /\ clcb'[b].sirk # 0
    BY DEF Ready
<1>3. clcb[b].dev = d BY <1>1, <1>2, BlockSteps
<1>4. d \in Devices /\ HasBlock(d) BY <1>1, <1>2, <1>3 DEF BlocksOk, HasBlock
<1>5. ~Restart
    <2>1. ASSUME Restart PROVE FALSE
        <3>1. clcb'[b] = FreeClcb BY <2>1 DEF Restart
        <3>2. QED BY <1>2, <3>1, FreeClcbOk
    <2>2. QED BY <2>1
<1>6. ~Disconnected(d)
    <2>1. ASSUME Disconnected(d) PROVE FALSE
        <3>1. clcb'[b] = FreeClcb BY <1>1, <1>3, <1>4, <2>1, LinkDown
        <3>2. QED BY <1>2, <3>1, FreeClcbOk
    <2>2. QED BY <2>1
<1> HIDE DEF d
<1>7. CASE ReadsComplete(d)
    <2>1. Block(d) \in Blocks /\ clcb[Block(d)].dev = d BY <1>2, <1>4, BlockOf
    <2>2. Block(d) = b BY <1>1, <1>2, <1>3, <2>1 DEF BlocksOk, Blocks
    <2>3. clcb' = [clcb EXCEPT ![b].phase = "READY", ![b].hash = TRUE]
        BY <1>7, <2>2 DEF ReadsComplete
    <2>4. clcb'[b].csis = clcb[b].csis /\ clcb'[b].sirk = clcb[b].sirk
        BY <1>1, <2>3 DEF BlocksOk, Clcb
    <2>5. clcb[Block(d)].csis /\ clcb[Block(d)].sirk # 0 BY <1>2, <2>2, <2>4
    <2>6. \E x, l \in Blocks :
              sets'[x].sirk = clcb[Block(d)].sirk /\ sets'[x].mem[l] = Joined(d)
        BY <1>1, <1>4, <1>7, <2>5, JoinRecords
    <2>7. QED BY <2>2, <2>4, <2>6 DEF Recorded, d
<1>8. CASE ~ReadsComplete(d)
    <2>1. /\ clcb'[b].phase = clcb[b].phase /\ clcb'[b].csis = clcb[b].csis
          /\ clcb'[b].sirk = clcb[b].sirk
        BY <1>1, <1>2, <1>3, <1>8, BlockSteps DEF d
    <2>2. Ready(clcb[b]) BY <1>2, <1>3, <2>1 DEF Ready
    <2>3. /\ d \in amiss.dropped => d \in amiss'.dropped
          /\ \A x, l \in Blocks : sets[x].mem[l] = Joined(d) =>
                \/ sets'[x].mem[l] = Joined(d) /\ sets'[x].sirk = sets[x].sirk
                \/ d \in amiss'.dropped
        BY <1>1, <1>4, <1>5, <1>6, <1>8, StaysOnRecord
    <2>4. d \notin amiss'.dropped BY DEF d
    <2>5. Recorded(sets, clcb[b]) BY <1>3, <2>2, <2>3, <2>4 DEF RecordInv, OnRecord
    <2>6. PICK x \in Blocks, l \in Blocks : sets[x].sirk = clcb[b].sirk /\ sets[x].mem[l] = Joined(d)
        BY <1>3, <2>5 DEF Recorded
    <2>7. sets'[x].mem[l] = Joined(d) /\ sets'[x].sirk = clcb'[b].sirk
        BY <2>1, <2>3, <2>4, <2>6
    <2>8. QED BY <2>7 DEF Recorded, d
<1>9. QED BY <1>7, <1>8

\* The invariant says what the property says.
LEMMA RecordMeans ==
    ASSUME RecordInv
    PROVE  MembersOnRecord
<1>1. SetsOk(sets) /\ clcb \in [Blocks -> Clcb] BY DEF RecordInv, LinkInv, BlocksOk
<1>2. ASSUME NEW i \in Blocks, sets[i].sirk # 0
      PROVE  LET p == sets[i] IN
             /\ p.num = Cardinality({j \in 1..p.size : p.mem[j].used})
             /\ \A j \in 1..p.size : LET d == p.mem[j].dev IN
                 p.mem[j].used => HasBlock(d) \/ radio.create = d \/ d \in amiss.missed
    <2>1. SetOk(sets[i]) BY <1>1 DEF SetsOk
    <2>2. sets[i].size = 2 /\ sets[i] \in CsisSet /\ sets[i].num = InUse(sets[i])
        BY <1>2, <2>1 DEF SetOk
    <2>3. sets[i].num = Cardinality({j \in 1..sets[i].size : sets[i].mem[j].used})
        BY <2>2, UsedCount
    <2>4. \A j \in 1..sets[i].size : sets[i].mem[j].used => Behind(sets[i].mem[j].dev, clcb, radio, amiss)
        BY <2>2 DEF RecordInv, Backing, Blocks
    <2>5. QED BY <2>3, <2>4 DEF Behind, HasBlock
<1>3. ASSUME NEW b \in Blocks, Ready(clcb[b]), clcb[b].dev \notin amiss.dropped
      PROVE  \E i \in Blocks : \E j \in 1..sets[i].size :
                /\ sets[i].sirk = clcb[b].sirk
                /\ sets[i].mem[j] = [used |-> TRUE, dev |-> clcb[b].dev, conn |-> clcb[b].dev]
    <2>1. Recorded(sets, clcb[b]) BY <1>3 DEF RecordInv, OnRecord
    <2>2. PICK x \in Blocks, l \in Blocks :
            sets[x].sirk = clcb[b].sirk /\ sets[x].mem[l] = Joined(clcb[b].dev)
        BY <2>1 DEF Recorded
    <2>3. SetOk(sets[x]) /\ sets[x].sirk # 0 BY <1>1, <1>3, <2>2 DEF SetsOk, Ready
    <2>4. l \in 1..sets[x].size BY <2>3 DEF SetOk, Blocks
    <2>5. QED BY <2>2, <2>4 DEF Joined
<1>4. QED BY <1>2, <1>3 DEF MembersOnRecord, Ready

(* The sets tell the truth about the links, for any number of devices of    *)
(* which two are members of the set (OneSet) and any order of losses,       *)
(* failed connections, searches, commands and restarts: the count is that   *)
(* of the entries in use, a member whose reads are done is entered with its *)
(* connection id, and whoever is in use has a link or is being connected -  *)
(* but for the members that amiss names, where lepl_csis.c goes wrong.      *)
THEOREM MembersAreOnRecord ==
    ASSUME OneSet, MaxLinks <= 2
    PROVE  Spec => []MembersOnRecord
<1>1. Init => RecordInv
    <2> SUFFICES ASSUME Init PROVE RecordInv
        OBVIOUS
    <2>1. LinkInv BY LinkInit
    <2>2. \A i \in Blocks : sets[i] = FreeSet /\ clcb[i] = FreeClcb BY DEF Init
    <2>3. Knows(sets) /\ Backing(sets, clcb, radio, amiss)
        BY <2>2, FreeEntries DEF Knows, Backing
    <2>4. OwnSirk(clcb) /\ OnRecord(sets, clcb, amiss)
        BY <2>2, FreeClcbOk DEF OwnSirk, OnRecord, Ready
    <2>5. QED BY <2>1, <2>3, <2>4 DEF RecordInv
<1>2. RecordInv /\ [Next]_vars => RecordInv'
    <2> SUFFICES ASSUME RecordInv, [Next]_vars PROVE RecordInv'
        OBVIOUS
    <2>1. LinkInv' BY LinkStep DEF RecordInv
    <2>2. CASE UNCHANGED vars
        <3>1. sets' = sets /\ clcb' = clcb /\ radio' = radio /\ amiss' = amiss BY <2>2 DEF vars
        <3>2. /\ Knows(sets') /\ OwnSirk(clcb') /\ Backing(sets', clcb', radio', amiss')
              /\ OnRecord(sets', clcb', amiss')
            BY <3>1 DEF RecordInv
        <3>3. QED BY <2>1, <3>2 DEF RecordInv
    <2>3. CASE Next
        <3>1. Knows(sets') BY <2>3, KnowsStep DEF RecordInv
        <3>2. OwnSirk(clcb') BY <2>3, SirkStep DEF RecordInv
        <3>3. Backing(sets', clcb', radio', amiss') BY <2>3, <3>1, BackingStep DEF RecordInv
        <3>4. OnRecord(sets', clcb', amiss') BY <2>3, OnRecordStep
        <3>5. QED BY <2>1, <3>1, <3>2, <3>3, <3>4 DEF RecordInv
    <2>4. QED BY <2>2, <2>3
<1>3. RecordInv => MembersOnRecord BY RecordMeans
<1>4. QED BY <1>1, <1>2, <1>3, PTL DEF Spec

(***************************************************************************)
(* Bonds                                                                   *)
(***************************************************************************)

\* No device has keys in two slots.
Unique(x) == \A k, j \in 1..NvSlots : x[k].dev = x[j].dev => k = j \/ x[k].dev = NoDev

\* Where both have keys, the NVRAM and the host's copy have the same ones.
Agree(h, n) == \A k \in 1..NvSlots :
    h[k].dev # NoDev /\ n[k].dev # NoDev => h[k].dev = n[k].dev

\* Every bond has been copied, or the end of its pairing will do so.
Copied(h, n, c) == \A k \in 1..NvSlots : n[k].dev # NoDev =>
    \/ h[k].dev = n[k].dev
    \/ \E b \in Blocks : c[b].dev = n[k].dev /\ c[b].pend = "COMPLETE"

BondOk(h, n, c) == Unique(h) /\ Unique(n) /\ Agree(h, n) /\ Copied(h, n, c)

\* Until the host has restored the bonds, the player has no link and does
\* nothing to get one.
Waits == Restored \/ (radio = IdleRadio /\ up = {})

\* The inductive invariant.
BondInv == LinkInv /\ BondOk(host, nvram, clcb) /\ Waits

\* The invariant is what BondsSafe says, and more.
LEMMA BondsFollow == BondInv => BondsSafe
<1> SUFFICES ASSUME BondInv PROVE BondsSafe
    OBVIOUS
<1>1. ASSUME NEW k \in 1..NvSlots, nvram[k].dev # NoDev, host[k].dev # nvram[k].dev
      PROVE  HasBlock(nvram[k].dev) /\ clcb[Block(nvram[k].dev)].pend = "COMPLETE"
    <2> DEFINE d == nvram[k].dev
               B == Block(d)
    <2>1. PICK b \in Blocks : clcb[b].dev = d /\ clcb[b].pend = "COMPLETE"
        BY <1>1 DEF BondInv, BondOk, Copied
    <2>2. HasBlock(d) BY <2>1 DEF HasBlock
    <2>3. B \in Blocks /\ clcb[B].dev = d BY <2>2, BlockOf
    <2> HIDE DEF B, d
    <2>4. d # NoDev BY <1>1 DEF d
    <2>5. b = B BY <2>1, <2>3, <2>4 DEF BondInv, LinkInv, BlocksOk, Blocks
    <2>6. HasBlock(d) /\ clcb[B].pend = "COMPLETE" BY <2>1, <2>2, <2>5
    <2>7. QED BY <2>6 DEF d, B
<1>2. Unique(nvram) BY DEF BondInv, BondOk
<1>3. QED BY <1>1, <1>2 DEF BondsSafe, Unique

\* Blocks that keep their pairing keep the bonds in order.
LEMMA BondsKept ==
    ASSUME BondOk(host, nvram, clcb), UNCHANGED <<host, nvram>>,
           \A b \in Blocks : clcb[b].dev # NoDev /\ clcb[b].pend = "COMPLETE"
                                => clcb'[b].dev = clcb[b].dev /\ clcb'[b].pend = "COMPLETE"
    PROVE  BondOk(host', nvram', clcb')
<1>1. Unique(host') /\ Unique(nvram') /\ Agree(host', nvram') BY DEF BondOk
<1>2. Copied(host', nvram', clcb')
    <2> SUFFICES ASSUME NEW k \in 1..NvSlots, nvram[k].dev # NoDev, host[k].dev # nvram[k].dev
                 PROVE  \E b \in Blocks : clcb'[b].dev = nvram[k].dev /\ clcb'[b].pend = "COMPLETE"
        BY DEF Copied
    <2>1. PICK b \in Blocks : clcb[b].dev = nvram[k].dev /\ clcb[b].pend = "COMPLETE"
        BY DEF BondOk, Copied
    <2>2. QED BY <2>1
<1>3. QED BY <1>1, <1>2 DEF BondOk

\* The host gets the keys of device d, whose pairing is over.
LEMMA KeysSent ==
    ASSUME BondOk(host, nvram, clcb), Restored, Stored, NEW d \in Devices,
           NEW k \in 1..NvSlots, nvram[k].dev = d,
           host' = [host EXCEPT ![k] = nvram'[k]], nvram'[k].dev = d,
           \A j \in 1..NvSlots : j # k => nvram'[j] = nvram[j],
           \A b \in Blocks : clcb[b].dev # d => clcb'[b] = clcb[b]
    PROVE  BondOk(host', nvram', clcb') /\ Restored'
<1>1. /\ host'[k].dev = d /\ \A j \in 1..NvSlots : j # k => host'[j] = host[j]
    BY DEF Stored
<1>2. d # NoDev BY LinksAssumption
<1>3. \A j \in 1..NvSlots : nvram'[j].dev = nvram[j].dev OBVIOUS
<1>4. \A j \in 1..NvSlots : host[j].dev = d => j = k
    BY <1>2 DEF Restored, BondOk, Agree, Unique
<1>5. Unique(host') BY <1>1, <1>4 DEF BondOk, Unique
<1>6. Unique(nvram') BY <1>3 DEF BondOk, Unique
<1>7. Agree(host', nvram') BY <1>1, <1>3 DEF BondOk, Agree
<1>8. Copied(host', nvram', clcb')
    <2> SUFFICES ASSUME NEW j \in 1..NvSlots, nvram[j].dev # NoDev, host'[j].dev # nvram[j].dev
                 PROVE  \E b \in Blocks : clcb'[b].dev = nvram[j].dev /\ clcb'[b].pend = "COMPLETE"
        BY <1>3 DEF Copied
    <2>1. j # k BY <1>1
    <2>2. nvram[j].dev # d BY <1>2, <2>1 DEF BondOk, Unique
    <2>3. host[j].dev # nvram[j].dev BY <1>1, <2>1
    <2>4. PICK b \in Blocks : clcb[b].dev = nvram[j].dev /\ clcb[b].pend = "COMPLETE"
        BY <2>3 DEF BondOk, Copied
    <2>5. QED BY <2>2, <2>4
<1>9. Restored' BY <1>1, <1>2, <1>3 DEF Restored
<1>10. QED BY <1>5, <1>6, <1>7, <1>8, <1>9 DEF BondOk

\* A device has a link, an attempt or a search only after the restore.
LEMMA RestoredFirst ==
    ASSUME BondInv, NEW d \in Devices,
           \/ HasBlock(d) \/ d \in up \/ radio.create = d
           \/ radio.scan = "CSIS" \/ radio.adv
    PROVE  Restored
<1>1. d # NoDev BY LinksAssumption
<1>2. /\ IdleRadio.create = NoDev /\ IdleRadio.scan = "OFF" /\ IdleRadio.adv = FALSE
    BY DEF IdleRadio
<1>3. HasBlock(d) => d \in up BY <1>1 DEF HasBlock, BondInv, LinkInv, BlocksOk
<1>4. QED BY <1>1, <1>2, <1>3 DEF BondInv, Waits

\* lepl_btm_handle_key_update_event: the new keys go to a slot that neither
\* the player nor the host uses.
LEMMA KeysWritten ==
    ASSUME BondInv, NEW d \in Devices, KeyUpdate(d)
    PROVE  BondOk(host', nvram', clcb') /\ Restored'
<1> DEFINE B == Block(d)
<1>1. /\ HasBlock(d) /\ B \in Blocks /\ clcb'[B].dev = d
      /\ \A b \in Blocks \ {B} : clcb'[b] = clcb[b]
    BY PhaseShape DEF BondInv
<1>2. /\ clcb[B].pend = "KEYS" /\ clcb' = [clcb EXCEPT ![B].pend = "COMPLETE"]
      /\ nvram' = WriteKeys(d) /\ host' = host
    BY DEF KeyUpdate
<1>3. clcb \in [Blocks -> Clcb] /\ nvram \in [1..(NvSlots + 1) -> Slot]
    BY DEF BondInv, LinkInv, BlocksOk, Stored
<1> HIDE DEF B
<1>4. clcb'[B].pend = "COMPLETE" BY <1>1, <1>2, <1>3 DEF Clcb
<1>5. Restored /\ d # NoDev /\ BondOk(host, nvram, clcb)
    BY <1>1, RestoredFirst, LinksAssumption DEF BondInv
<1>6. CASE KeySlots(d) # {}
    <2>1. nvram' = nvram BY <1>2, <1>6 DEF WriteKeys
    <2>2. BondOk(host', nvram', clcb') BY <1>1, <1>2, <1>5, <2>1, BondsKept
    <2>3. QED BY <1>2, <1>5, <2>1, <2>2 DEF Restored
<1>7. CASE KeySlots(d) = {}
    <2> DEFINE k == AllocSlot
    <2>1. nvram' = [nvram EXCEPT ![k].dev = d] BY <1>2, <1>7 DEF WriteKeys
    <2>2. k \in 1..(NvSlots + 1) /\ (k \in 1..NvSlots => nvram[k].dev = NoDev) BY SlotFor
    <2>3. \A j \in 1..NvSlots : j \in 1..(NvSlots + 1) BY LinksAssumption
    <2>4. \A j \in 1..NvSlots : nvram[j].dev # d BY <1>5, <1>7 DEF KeySlots
    <2> HIDE DEF k
    <2>5. \A j \in 1..NvSlots : nvram'[j].dev = IF j = k THEN d ELSE nvram[j].dev
        <3> SUFFICES ASSUME NEW j \in 1..NvSlots
                     PROVE  nvram'[j].dev = IF j = k THEN d ELSE nvram[j].dev
            OBVIOUS
        <3>1. nvram[j] \in Slot BY <1>3, <2>3
        <3>2. QED BY <1>3, <2>1, <2>2, <2>3, <3>1 DEF Slot
    <2>6. k \in 1..NvSlots => host[k].dev = NoDev BY <1>5, <2>2 DEF Restored
    <2>7. Unique(host') /\ Unique(nvram')
        BY <1>2, <1>5, <2>4, <2>5 DEF BondOk, Unique
    <2>8. Agree(host', nvram') BY <1>2, <1>5, <2>5, <2>6 DEF BondOk, Agree
    <2>9. Copied(host', nvram', clcb')
        <3> SUFFICES ASSUME NEW j \in 1..NvSlots, nvram'[j].dev # NoDev, host[j].dev # nvram'[j].dev
                     PROVE  \E b \in Blocks : /\ clcb'[b].dev = nvram'[j].dev
                                              /\ clcb'[b].pend = "COMPLETE"
            BY <1>2 DEF Copied
        <3>1. CASE j = k BY <1>1, <1>4, <2>5, <3>1
        <3>2. CASE j # k
            <4>1. nvram'[j].dev = nvram[j].dev BY <2>5, <3>2
            <4>2. PICK b \in Blocks : clcb[b].dev = nvram[j].dev /\ clcb[b].pend = "COMPLETE"
                BY <1>5, <4>1 DEF BondOk, Copied
            <4>3. b # B BY <1>2, <4>2
            <4>4. QED BY <1>1, <4>1, <4>2, <4>3
        <3>3. QED BY <3>1, <3>2
    <2>10. Restored' BY <1>2, <1>5, <2>5 DEF Restored
    <2>11. QED BY <2>7, <2>8, <2>9, <2>10 DEF BondOk
<1>8. QED BY <1>6, <1>7

\* lepl_btm_handle_pairing_complete
LEMMA PairingSent ==
    ASSUME BondInv, NEW d \in Devices, PairingComplete(d)
    PROVE  BondOk(host', nvram', clcb') /\ Restored'
<1> DEFINE B == Block(d)
           k == First(KeySlots(d))
<1>1. /\ HasBlock(d) /\ B \in Blocks /\ clcb[B].dev = d /\ clcb'[B].dev = d
      /\ \A b \in Blocks \ {B} : clcb'[b] = clcb[b]
    BY PhaseShape DEF BondInv
<1>2. Restored /\ d # NoDev /\ BondOk(host, nvram, clcb) /\ Stored
    BY <1>1, RestoredFirst, LinksAssumption DEF BondInv, LinkInv
<1>3. nvram' = nvram BY DEF PairingComplete
<1>4. \A b \in Blocks : clcb[b].dev # d => clcb'[b] = clcb[b] BY <1>1
<1>5. CASE KeySlots(d) = {}
    <2>1. host' = host BY <1>5 DEF PairingComplete
    <2>2. \A j \in 1..NvSlots : nvram[j].dev # d BY <1>2, <1>5 DEF KeySlots
    <2>3. Copied(host', nvram', clcb')
        BY <1>2, <1>3, <1>4, <2>1, <2>2 DEF BondOk, Copied
    <2>4. BondOk(host', nvram', clcb') BY <1>2, <1>3, <2>1, <2>3 DEF BondOk
    <2>5. QED BY <1>2, <1>3, <2>1, <2>4 DEF Restored
<1>6. CASE KeySlots(d) # {}
    <2>1. host' = [host EXCEPT ![k] = nvram'[k]]
        BY <1>6 DEF PairingComplete, SendLinkKeys
    <2>2. k \in 1..NvSlots /\ nvram[k].dev = d BY <1>6, SlotOf
    <2> HIDE DEF k, B
    <2>3. QED BY <1>2, <1>3, <1>4, <2>1, <2>2, KeysSent
<1>7. QED BY <1>5, <1>6

\* lepl_gatt_handle_disconnection
LEMMA DisconnectSent ==
    ASSUME BondInv, NEW d \in Devices, Disconnected(d)
    PROVE  BondOk(host', nvram', clcb') /\ Restored'
<1> DEFINE k == First(KeySlots(d))
           c == clcb[Block(d)]
<1>1. d \in up BY DEF Disconnected
<1>2. Restored /\ d # NoDev /\ BondOk(host, nvram, clcb) /\ Stored /\ SetsOk(sets)
    BY <1>1, RestoredFirst, LinksAssumption DEF BondInv, LinkInv
<1>3. \A b \in Blocks : \/ clcb[b].dev # d /\ clcb'[b] = clcb[b]
                        \/ clcb[b].dev = d /\ clcb'[b] = FreeClcb
    BY LinkDown DEF BondInv
<1>4. CASE ~HasBlock(d)
    <2>1. UNCHANGED <<clcb, nvram, host>> BY <1>4 DEF Disconnected
    <2>2. QED BY <1>2, <2>1 DEF Restored
<1>5. CASE HasBlock(d) /\ KeySlots(d) = {}
    <2>1. nvram' = nvram /\ host' = host BY <1>5 DEF Disconnected, HandleDisconnection
    <2>2. \A j \in 1..NvSlots : nvram[j].dev # d BY <1>2, <1>5 DEF KeySlots
    <2>3. Copied(host', nvram', clcb')
        BY <1>2, <1>3, <2>1, <2>2 DEF BondOk, Copied
    <2>4. BondOk(host', nvram', clcb') BY <1>2, <2>1, <2>3 DEF BondOk
    <2>5. QED BY <1>2, <2>1, <2>4 DEF Restored
<1>6. CASE HasBlock(d) /\ KeySlots(d) # {}
    <2>1. /\ nvram' = [nvram EXCEPT ![k] = SavedSlot(nvram[k], c)]
          /\ host' = [host EXCEPT ![k] = nvram'[k]]
        BY <1>6 DEF Disconnected, HandleDisconnection, SendLinkKeys
    <2>2. k \in 1..NvSlots /\ nvram[k].dev = d BY <1>6, SlotOf
    <2>3. c \in Clcb BY <1>6, BlockOf DEF BondInv, LinkInv, BlocksOk
    <2> HIDE DEF k, c
    <2>4. k \in 1..(NvSlots + 1) BY <2>2, LinksAssumption
    <2>5. nvram[k] \in Slot BY <1>2, <2>4 DEF Stored
    <2>6. SavedSlot(nvram[k], c).dev = d BY <1>2, <2>2, <2>3, <2>5, SavedTyped
    <2>7. nvram'[k].dev = d /\ \A j \in 1..NvSlots : j # k => nvram'[j] = nvram[j]
        BY <1>2, <2>1, <2>4, <2>6, LinksAssumption DEF Stored
    <2>8. \A b \in Blocks : clcb[b].dev # d => clcb'[b] = clcb[b] BY <1>3
    <2>9. QED BY <1>2, <2>1, <2>2, <2>7, <2>8, KeysSent
<1>7. QED BY <1>4, <1>5, <1>6

\* lepl_nvram_delete_keys
LEMMA UnbondKeeps ==
    ASSUME BondInv, NEW k \in 1..NvSlots, RpcUnbond(k)
    PROVE  BondOk(host', nvram', clcb') /\ Restored'
<1>1. /\ Restored /\ nvram' = [nvram EXCEPT ![k].dev = NoDev]
      /\ host' = [host EXCEPT ![k] = FreeSlot]
      /\ DisconnectDevice(nvram[k].dev) \/ UNCHANGED clcb
    BY DEF RpcUnbond
<1>2. BondOk(host, nvram, clcb) /\ Stored /\ LinkInv BY DEF BondInv, LinkInv
<1>3. \A j \in 1..NvSlots : j \in 1..(NvSlots + 1) BY LinksAssumption
<1>4. \A j \in 1..NvSlots : nvram'[j].dev = IF j = k THEN NoDev ELSE nvram[j].dev
    <2> SUFFICES ASSUME NEW j \in 1..NvSlots
                 PROVE  nvram'[j].dev = IF j = k THEN NoDev ELSE nvram[j].dev
        OBVIOUS
    <2>1. nvram \in [1..(NvSlots + 1) -> Slot] BY <1>2 DEF Stored
    <2>2. nvram[j] \in Slot BY <1>3, <2>1
    <2>3. QED BY <1>1, <1>3, <2>1, <2>2 DEF Slot
<1>5. \A j \in 1..NvSlots : host'[j].dev = IF j = k THEN NoDev ELSE host[j].dev
    BY <1>1, <1>2 DEF Stored, FreeSlot
<1>6. \A b \in Blocks : clcb'[b].dev = clcb[b].dev /\ clcb'[b].pend = clcb[b].pend
    BY <1>1, <1>2, FlagShape
<1>7. Unique(host') /\ Unique(nvram') BY <1>2, <1>4, <1>5 DEF BondOk, Unique
<1>8. Agree(host', nvram') BY <1>2, <1>4, <1>5 DEF BondOk, Agree
<1>9. Copied(host', nvram', clcb')
    BY <1>2, <1>4, <1>5, <1>6 DEF BondOk, Copied
<1>10. Restored' BY <1>1, <1>4, <1>5 DEF Restored
<1>11. QED BY <1>7, <1>8, <1>9, <1>10 DEF BondOk

\* lepl_nvram_write_data
LEMMA RestoreKeeps ==
    ASSUME BondInv, NEW k \in 1..NvSlots, Restore(k)
    PROVE  BondOk(host', nvram', clcb') /\ radio' = IdleRadio /\ up' = {}
<1>1. /\ ~Restored /\ host[k].dev # NoDev /\ nvram[k].dev = NoDev
      /\ nvram' = [nvram EXCEPT ![k] = host[k]] /\ UNCHANGED <<radio, clcb, host, up>>
    BY DEF Restore
<1>2. radio = IdleRadio /\ up = {} BY <1>1 DEF BondInv, Waits
<1>3. BondOk(host, nvram, clcb) /\ Stored BY DEF BondInv, LinkInv
<1>4. \A b \in Blocks : clcb[b].dev = NoDev BY <1>2 DEF BondInv, LinkInv, BlocksOk
<1>5. \A j \in 1..NvSlots : nvram'[j] = IF j = k THEN host[k] ELSE nvram[j]
    BY <1>1, <1>3, LinksAssumption DEF Stored
<1>6. \A j \in 1..NvSlots : nvram[j].dev # NoDev => host[j].dev = nvram[j].dev
    BY <1>3, <1>4 DEF BondOk, Copied
<1>7. \A j \in 1..NvSlots : nvram'[j].dev # NoDev => host[j].dev = nvram'[j].dev
    BY <1>5, <1>6
<1>8. Unique(nvram') BY <1>3, <1>7 DEF BondOk, Unique
<1>9. Agree(host', nvram') /\ Copied(host', nvram', clcb')
    BY <1>1, <1>7 DEF Agree, Copied
<1>10. QED BY <1>1, <1>2, <1>3, <1>8, <1>9 DEF BondOk

\* The bonds stay in order.
LEMMA BondStep == BondInv /\ [Next]_vars => BondInv'
<1> SUFFICES ASSUME BondInv, [Next]_vars PROVE BondOk(host', nvram', clcb') /\ Waits'
    BY LinkStep DEF BondInv
<1>1. BondOk(host, nvram, clcb) /\ LinkInv BY DEF BondInv
<1>2. ASSUME Restored, UNCHANGED <<nvram, host>>,
             \A b \in Blocks : clcb[b].dev # NoDev /\ clcb[b].pend = "COMPLETE"
                                  => clcb'[b].dev = clcb[b].dev /\ clcb'[b].pend = "COMPLETE"
      PROVE  BondOk(host', nvram', clcb') /\ Waits'
    <2>1. BondOk(host', nvram', clcb') BY <1>1, <1>2, BondsKept
    <2>2. QED BY <1>2, <2>1 DEF Waits, Restored
<1>3. ASSUME Restored, UNCHANGED <<nvram, host, clcb>> PROVE BondOk(host', nvram', clcb') /\ Waits'
    BY <1>1, <1>2, <1>3
<1>4. CASE UNCHANGED vars
    BY <1>1, <1>4 DEF vars, BondInv, Waits, Restored
<1>5. CASE Host
    <2>1. CASE RpcScanStart \/ RpcScanStop
        BY <1>3, <2>1 DEF RpcScanStart, RpcScanStop, Command
    <2>2. CASE Restart
        <3>1. /\ radio' = IdleRadio /\ up' = {} /\ host' = host
              /\ nvram' = [k \in 1..(NvSlots + 1) |-> FreeSlot]
            BY <2>2 DEF Restart
        <3>2. \A k \in 1..NvSlots : nvram'[k].dev = NoDev
            BY <3>1, LinksAssumption DEF FreeSlot
        <3>3. BondOk(host', nvram', clcb')
            BY <1>1, <3>1, <3>2 DEF BondOk, Unique, Agree, Copied
        <3>4. QED BY <3>1, <3>3 DEF Waits
    <2>3. ASSUME NEW on \in BOOLEAN, RpcAdv(on) PROVE BondOk(host', nvram', clcb') /\ Waits'
        BY <1>3, <2>3 DEF RpcAdv, Command
    <2>4. ASSUME NEW d \in Devices, RpcConnect(d) \/ RpcCancel(d)
          PROVE  BondOk(host', nvram', clcb') /\ Waits'
        BY <1>3, <2>4 DEF RpcConnect, RpcCancel, AttemptEnds, Command, Request
    <2>5. ASSUME NEW d \in Devices, RpcDisconnect(d) PROVE BondOk(host', nvram', clcb') /\ Waits'
        <3>1. Restored /\ DisconnectDevice(d) /\ UNCHANGED <<nvram, host>>
            BY <2>5 DEF RpcDisconnect, Request
        <3>2. \A b \in Blocks : clcb'[b].dev = clcb[b].dev /\ clcb'[b].pend = clcb[b].pend
            BY <1>1, <3>1, FlagShape
        <3>3. QED BY <1>2, <3>1, <3>2
    <2>6. ASSUME NEW k \in 1..NvSlots, RpcUnbond(k) PROVE BondOk(host', nvram', clcb') /\ Waits'
        BY <2>6, UnbondKeeps DEF Waits
    <2>7. ASSUME NEW k \in 1..NvSlots, Restore(k) PROVE BondOk(host', nvram', clcb') /\ Waits'
        BY <2>7, RestoreKeeps DEF Waits
    <2>8. QED BY <1>5, <2>1, <2>2, <2>3, <2>4, <2>5, <2>6, <2>7 DEF Host
<1>6. CASE Stack
    <2>1. ASSUME NEW i \in Blocks, ScanTimeout(i) PROVE BondOk(host', nvram', clcb') /\ Waits'
        <3>1. UNCHANGED <<nvram, host, clcb, up>> /\ radio' = SearchRadio(radio, sets[i], FALSE)
            BY <2>1 DEF ScanTimeout
        <3>2. CASE Restored BY <1>3, <3>1, <3>2
        <3>3. CASE ~Restored
            <4>1. radio = IdleRadio /\ up = {} BY <3>3 DEF BondInv, Waits
            <4>2. IdleRadio.act = "NONE" BY DEF IdleRadio
            <4>3. radio' = radio BY <3>1, <4>1, <4>2 DEF SearchRadio, SearchStops
            <4>4. QED BY <1>1, <3>1, <4>1, <4>3 DEF Waits
        <3>4. QED BY <3>2, <3>3
    <2>2. ASSUME NEW d \in Devices, ScanResult(d) PROVE BondOk(host', nvram', clcb') /\ Waits'
        <3>1. Restored BY <2>2, RestoredFirst DEF ScanResult
        <3>2. QED BY <1>3, <2>2, <3>1 DEF ScanResult
    <2>3. ASSUME NEW d \in Devices, Connected(d) \/ Incoming(d)
          PROVE  BondOk(host', nvram', clcb') /\ Waits'
        <3>1. Restored BY <2>3, RestoredFirst DEF Connected, Incoming
        <3>2. PICK r : HandleConnection(d, r) BY <2>3 DEF Connected, Incoming
        <3>3. UNCHANGED <<nvram, host>> BY <3>2 DEF HandleConnection
        <3> DEFINE A == AllocBlock
        <3>4. /\ A \in Blocks /\ \A b \in Blocks \ {A} : clcb'[b] = clcb[b]
              /\ \/ clcb[A].dev = NoDev
                 \/ clcb'[A].dev = clcb[A].dev /\ clcb'[A].pend = clcb[A].pend
            BY <1>1, <3>2, ConnectShape
        <3> HIDE DEF A
        <3>5. \A b \in Blocks : clcb[b].dev # NoDev =>
                clcb'[b].dev = clcb[b].dev /\ clcb'[b].pend = clcb[b].pend
            BY <3>4
        <3>6. QED BY <1>2, <3>1, <3>3, <3>5
    <2>4. ASSUME NEW d \in Devices, AttemptFails(d) PROVE BondOk(host', nvram', clcb') /\ Waits'
        <3>1. Restored BY <2>4, RestoredFirst DEF AttemptFails, AttemptEnds
        <3>2. QED BY <1>3, <2>4, <3>1 DEF AttemptFails, AttemptEnds
    <2>5. ASSUME NEW d \in Devices, Disconnected(d) PROVE BondOk(host', nvram', clcb') /\ Waits'
        BY <2>5, DisconnectSent DEF Waits
    <2>6. ASSUME NEW d \in Devices, KeyUpdate(d) PROVE BondOk(host', nvram', clcb') /\ Waits'
        BY <2>6, KeysWritten DEF Waits
    <2>7. ASSUME NEW d \in Devices, PairingComplete(d) PROVE BondOk(host', nvram', clcb') /\ Waits'
        BY <2>7, PairingSent DEF Waits
    <2>8. ASSUME NEW d \in Devices,
                 Secure(d) \/ Encrypted(d) \/ Discovered(d) \/ SirkRead(d) \/ ReadsComplete(d)
          PROVE  BondOk(host', nvram', clcb') /\ Waits'
        <3> DEFINE B == Block(d)
        <3>1. /\ HasBlock(d) /\ B \in Blocks /\ clcb[B].dev = d /\ clcb'[B].dev = d
              /\ \A b \in Blocks \ {B} : clcb'[b] = clcb[b]
              /\ clcb[B].pend = "COMPLETE" => clcb'[B].pend = "COMPLETE" \/ PairingComplete(d)
            BY <1>1, <2>8, PhaseShape
        <3>2. Restored BY <3>1, RestoredFirst
        <3>3. UNCHANGED <<nvram, host>>
            BY <2>8 DEF Secure, Encrypted, Discovered, SirkRead, ReadsComplete
        <3> HIDE DEF B
        <3>4. CASE PairingComplete(d) BY <3>4, PairingSent DEF Waits
        <3>5. CASE ~PairingComplete(d) BY <1>2, <3>1, <3>2, <3>3, <3>5
        <3>6. QED BY <3>4, <3>5
    <2>9. QED BY <1>6, <2>1, <2>2, <2>3, <2>4, <2>5, <2>6, <2>7, <2>8 DEF Stack
<1>7. QED BY <1>4, <1>5, <1>6 DEF Next

(* A bond survives a restart: outside a pairing the host has a copy of      *)
(* every slot with keys, and no device has keys in two slots, for any       *)
(* number of devices, slots and links and any order of pairings, link       *)
(* losses, unbonds, restarts and restores (lepl_nvram.c, lepl_btmgr.c).     *)
THEOREM BondsAreSafe == Spec => []BondsSafe
<1>1. Init => BondInv
    <2> SUFFICES ASSUME Init PROVE BondInv
        OBVIOUS
    <2>1. LinkInv BY LinkInit
    <2>2. \A k \in 1..NvSlots : nvram[k].dev = NoDev /\ host[k].dev = NoDev
        BY LinksAssumption DEF Init, FreeSlot
    <2>3. BondOk(host, nvram, clcb) BY <2>2 DEF BondOk, Unique, Agree, Copied
    <2>4. QED BY <2>1, <2>3 DEF BondInv, Waits, Init
<1>2. QED BY <1>1, BondStep, BondsFollow, PTL DEF Spec
=============================================================================
