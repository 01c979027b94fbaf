--------------------------- MODULE LeplBisProofs ---------------------------
(* Proofs about the broadcast source, for any requests of the host and any  *)
(* bounds: the types, that a BIG that carries audio can be ended, that a    *)
(* stop leaves nothing behind and that what is on air was announced.        *)
EXTENDS LeplBis, SequenceTheorems, FiniteSetTheorems, TLAPS

\* The inductive invariant.
StopInv == TypeOK /\ Stoppable

\* Event q[k] of the queue q is of the kind evt.
Holds(q, evt) == \E k \in DOMAIN q : q[k].evt = evt

\* The sets that occur in the types.
LEMMA Sets ==
    /\ Silent \in [Biss -> SUBSET Channels]
    /\ NoBig \in Big
    /\ {"L"} \in SUBSET Channels /\ {"R"} \in SUBSET Channels
    /\ 1 \in Biss /\ 2 \in Biss
<1>1. Silent \in [Biss -> SUBSET Channels] BY DEF Silent
<1>2. NoBig \in Big BY <1>1 DEF NoBig, Big
<1>3. QED BY <1>1, <1>2 DEF Channels, Biss

\* The BISs of a loop, as a sequence.
LEMMA InOrderSeq ==
    ASSUME NEW S
    PROVE  InOrder(S) \in Seq(Biss)
<1>1. <<1>> \in Seq(Biss) /\ <<2>> \in Seq(Biss) BY DEF Biss
<1>2. << >> \in Seq(Biss) OBVIOUS
<1>3. \A s, t \in Seq(Biss) : s \o t \in Seq(Biss) OBVIOUS
<1>4. QED BY <1>1, <1>2, <1>3 DEF InOrder

\* Appending and concatenating keep the events that are owed.
LEMMA HoldsMore ==
    ASSUME NEW q \in Seq(Event), NEW r \in Seq(Event), NEW e \in Event, NEW evt
    PROVE  /\ Append(q, e) \in Seq(Event) /\ q \o r \in Seq(Event)
           /\ Holds(q, evt) => Holds(Append(q, e), evt) /\ Holds(q \o r, evt)
           /\ e.evt = evt => Holds(Append(q, e), evt)
<1>1. Append(q, e) \in Seq(Event) /\ q \o r \in Seq(Event)
    OBVIOUS
<1>2. ASSUME Holds(q, evt)
      PROVE  Holds(Append(q, e), evt) /\ Holds(q \o r, evt)
    <2>1. PICK k \in DOMAIN q : q[k].evt = evt BY <1>2 DEF Holds
    <2>2. k \in DOMAIN Append(q, e) /\ Append(q, e)[k] = q[k] OBVIOUS
    <2>3. k \in DOMAIN (q \o r) /\ (q \o r)[k] = q[k] OBVIOUS
    <2>4. QED BY <2>1, <2>2, <2>3 DEF Holds
<1>3. ASSUME e.evt = evt PROVE Holds(Append(q, e), evt)
    <2>1. /\ Len(q) + 1 \in DOMAIN Append(q, e)
          /\ Append(q, e)[Len(q) + 1] = e
        OBVIOUS
    <2>2. QED BY <1>3, <2>1 DEF Holds
<1>4. QED BY <1>1, <1>2, <1>3

\* Taking an event of another kind leaves those of kind evt.
LEMMA HoldsRest ==
    ASSUME NEW q \in Seq(Event), q # << >>, NEW evt
    PROVE  /\ Tail(q) \in Seq(Event) /\ Head(q) \in Event
           /\ Holds(q, evt) /\ Head(q).evt # evt => Holds(Tail(q), evt)
<1>1. Tail(q) \in Seq(Event) /\ Head(q) \in Event
    OBVIOUS
<1>2. ASSUME Holds(q, evt), Head(q).evt # evt PROVE Holds(Tail(q), evt)
    <2>1. PICK k \in DOMAIN q : q[k].evt = evt BY <1>2 DEF Holds
    <2>2. k # 1 BY <1>2, <2>1
    <2>3. k - 1 \in DOMAIN Tail(q) /\ Tail(q)[k - 1] = q[k]
        BY <2>2
    <2>4. QED BY <2>1, <2>3 DEF Holds
<1>3. QED BY <1>1, <1>2

\* The events of each kind.
LEMMA EventTypes ==
    /\ \A i \in Biss : [evt |-> "REMOVED", bis |-> i] \in Event
    /\ [evt |-> "TERMINATED"] \in Event
    /\ \A i \in Biss, c \in SUBSET Channels :
          [evt |-> "SETUP", bis |-> i, ch |-> c] \in Event
    /\ \A e \in Event : e.evt = "CREATED" =>
          e \in [evt : {"CREATED"}, ok : BOOLEAN, num : Biss, sdu : Biss, enc : BOOLEAN]
    /\ \A e \in Event : e.evt = "SETUP" => e.bis \in Biss /\ e.ch \in SUBSET Channels
    /\ \A e \in Event : e.evt = "REMOVED" => e.bis \in Biss
BY DEF Event

\* A BIG that is asked to end will.
LEMMA TerminatedSeq ==
    ASSUME TypeOK, NEW q \in Seq(Event), NEW t \in Terminated(q),
           Owed("TERMINATED") => Holds(q, "TERMINATED")
    PROVE  t \in Seq(Event) /\ (big.num > 0 => Holds(t, "TERMINATED"))
<1>1. CASE big.num > 0
    <2>1. (t = q /\ Owed("TERMINATED")) \/ t = Append(q, [evt |-> "TERMINATED"])
        BY <1>1 DEF Terminated
    <2>2. QED BY <2>1, HoldsMore, EventTypes
<1>2. CASE ~(big.num > 0)
    <2> DEFINE u == [k \in DOMAIN q |-> IF q[k].evt = "CREATED"
                        THEN [q[k] EXCEPT !.ok = FALSE] ELSE q[k]]
    <2>1. t = q \/ t = u BY <1>2 DEF Terminated
    <2>2. ASSUME NEW e \in Event, e.evt = "CREATED"
          PROVE  [e EXCEPT !.ok = FALSE] \in Event
        <3>1. e \in [evt : {"CREATED"}, ok : BOOLEAN, num : Biss, sdu : Biss, enc : BOOLEAN]
            BY <2>2, EventTypes
        <3>2. [e EXCEPT !.ok = FALSE]
                \in [evt : {"CREATED"}, ok : BOOLEAN, num : Biss, sdu : Biss, enc : BOOLEAN]
            BY <3>1
        <3>3. QED BY <3>2 DEF Event
    <2>3. \A k \in 1 .. Len(q) : q[k] \in Event OBVIOUS
    <2>4. u \in Seq(Event)
        <3>1. \A k \in 1 .. Len(q) : u[k] \in Event BY <2>2, <2>3
        <3>2. DOMAIN u = 1 .. Len(q) /\ Len(q) \in Nat OBVIOUS
        <3>3. u = [k \in 1 .. Len(q) |-> u[k]] OBVIOUS
        <3> HIDE DEF u
        <3>4. QED BY <3>1, <3>2, <3>3
    <2>5. QED BY <1>2, <2>1, <2>4
<1>3. QED BY <1>1, <1>2

\* The configuration, what it announces and the BIG it asks for.
LEMMA ConfigTypes ==
    ASSUME TypeOK, NEW q \in Requests, NEW heap \in BOOLEAN
    PROVE  /\ UpdateConfig(q) \in Base /\ ConfigureStream(q, heap) \in Base
           /\ ConfigureStream(q, heap).cnt \in Biss
           /\ Announced(UpdateConfig(q), q, heap) \in Adv
<1>1. q.id \in BOOLEAN /\ q.cnt \in Biss /\ q.stereo \in BOOLEAN /\ q.enc \in BOOLEAN
    BY BisAssumption
<1> DEFINE both == IF q.stereo THEN Channels ELSE {"L"}
           each == IF q.cnt = 1 THEN <<both, {}>> ELSE <<{"L"}, {"R"}>>
           csc  == IF q.cnt = 1 THEN both ELSE {}
           u    == UpdateConfig(q)
           f    == ConfigureStream(q, heap)
<1>2. both \in SUBSET Channels /\ csc \in SUBSET Channels
    BY DEF Channels
<1>3. each \in [Biss -> SUBSET Channels]
    <2>1. ASSUME NEW x \in SUBSET Channels, NEW y \in SUBSET Channels
          PROVE  <<x, y>> \in [Biss -> SUBSET Channels]
        BY DEF Biss
    <2>2. {} \in SUBSET Channels OBVIOUS
    <2> HIDE DEF both
    <2>3. QED BY <1>2, <2>1, <2>2, Sets
<1>4. u = [st |-> IDLE, cnt |-> q.cnt, enc |-> q.enc, bis |-> each, csc |-> csc,
           ids |-> 0]
    BY DEF UpdateConfig
<1> HIDE DEF both, each, csc
<1>5. u \in Base /\ u.cnt \in Biss
    BY <1>1, <1>2, <1>3, <1>4 DEF Base, Biss
<1>6. f = [u EXCEPT !.st = IF q.id /\ heap THEN CONFIGURED ELSE IDLE]
    BY DEF ConfigureStream
<1> HIDE DEF u, f
<1>7. f \in Base /\ f.cnt \in Biss
    BY <1>5, <1>6 DEF Base
<1>8. BaseData(u) \in [Biss -> SUBSET Channels]
    BY <1>5 DEF BaseData, FillCsc, Base
<1>9. Announced(u, q, heap) \in Adv
    BY <1>1, <1>8 DEF Announced, PublicFeature, Adv, TypeOK
<1>10. QED BY <1>5, <1>7, <1>9 DEF u, f

\* The event of a BIG that is asked for.
LEMMA BigRequestType ==
    ASSUME NEW b \in Base, b.cnt \in Biss
    PROVE  BigRequest(b) \in Event /\ BigRequest(b).evt = "CREATED"
<1>1. BigRequest(b) \in [evt : {"CREATED"}, ok : BOOLEAN, num : Biss, sdu : Biss,
                         enc : BOOLEAN]
    BY DEF BigRequest, Base, Biss
<1>2. QED BY <1>1 DEF Event

\* The count of the BISs is never 0.
CntInv == base.cnt \in Biss

\* The start command.
LEMMA StartStep ==
    ASSUME StopInv, CntInv, Start
    PROVE  StopInv' /\ CntInv'
<1>1. PICK q \in Requests, heap \in BOOLEAN, busy \in BOOLEAN :
         LET idle  == base.st = IDLE
             b     == IF idle THEN ConfigureStream(q, heap) ELSE base
             asks  == b.st = CONFIGURED
             fault == (IF heap THEN 0 ELSE 1) + (IF busy THEN 1 ELSE 0)
         IN  /\ used.faults + fault <= MaxFaults
             /\ base' = b
             /\ adv' = IF idle THEN Announced(UpdateConfig(q), q, heap) ELSE adv
             /\ evq' = IF asks /\ CanCreate /\ ~busy
                       THEN Append(evq, BigRequest(b)) ELSE evq
             /\ used' = [commands |-> used.commands + 1,
                         faults |-> used.faults + fault]
    BY DEF Start
<1>2. /\ mode' = TRUE /\ disturbed' \in BOOLEAN /\ au' = au /\ big' = big
      /\ used.commands < MaxCommands
    BY DEF Start, StopInv, TypeOK
<1>3. base' \in Base /\ base'.cnt \in Biss
    BY <1>1, ConfigTypes DEF StopInv, TypeOK, CntInv
<1>4. base'.st = base.st \/ base.st = IDLE
    BY <1>1
<1>5. adv' \in Adv
    BY <1>1, ConfigTypes DEF StopInv, TypeOK
<1>6. evq' = evq \/ evq' = Append(evq, BigRequest(base'))
    BY <1>1
<1>7. evq \in Seq(Event) /\ BigRequest(base') \in Event
    BY <1>3, BigRequestType DEF StopInv, TypeOK
<1>8. evq' \in Seq(Event) /\ (Holds(evq, "TERMINATED") => Holds(evq', "TERMINATED"))
    BY <1>6, <1>7, HoldsMore
<1>9. used' \in [commands : 0 .. MaxCommands, faults : 0 .. MaxFaults]
    <2>1. used \in [commands : 0 .. MaxCommands, faults : 0 .. MaxFaults]
        BY DEF StopInv, TypeOK
    <2>2. PICK n \in 0 .. 2 : /\ used.faults + n <= MaxFaults
                              /\ used' = [commands |-> used.commands + 1,
                                          faults |-> used.faults + n]
        BY <1>1
    <2>3. QED BY <1>2, <2>1, <2>2, BisAssumption
<1>10. TypeOK'
    BY <1>2, <1>3, <1>5, <1>8, <1>9 DEF StopInv, TypeOK
<1>11. Stoppable'
    BY <1>2, <1>4, <1>8 DEF StopInv, Stoppable, Owed, Holds, IDLE, STREAMING
<1>12. QED BY <1>3, <1>10, <1>11 DEF StopInv, CntInv

\* The stop command.
LEMMA StopStep ==
    ASSUME StopInv, CntInv, Stop
    PROVE  StopInv' /\ CntInv'
<1>1. PICK refused \in SUBSET Removals :
         LET asked == InOrder(Removals \ refused)
             rem   == [k \in DOMAIN asked |-> [evt |-> "REMOVED", bis |-> asked[k]]]
         IN  /\ used.faults + (IF refused = {} THEN 0 ELSE 1) <= MaxFaults
             /\ evq' \in Terminated(evq \o rem)
             /\ used' = [commands |-> used.commands + 1, faults |-> used.faults
                           + (IF refused = {} THEN 0 ELSE 1)]
             /\ disturbed' = \/ refused # {}
                             \/ ~FullyStreaming /\ (disturbed \/ evq # << >>)
    BY DEF Stop
<1> DEFINE asked == InOrder(Removals \ refused)
           rem   == [k \in DOMAIN asked |-> [evt |-> "REMOVED", bis |-> asked[k]]]
<1>2. rem \in Seq(Event)
    <2>1. asked \in Seq(Biss) BY InOrderSeq
    <2> HIDE DEF asked
    <2>2. \A k \in 1 .. Len(asked) : asked[k] \in Biss BY <2>1
    <2>3. \A k \in 1 .. Len(asked) : rem[k] \in Event
        BY <2>1, <2>2, EventTypes
    <2>4. DOMAIN rem = 1 .. Len(asked) /\ Len(asked) \in Nat BY <2>1
    <2>5. rem = [k \in 1 .. Len(asked) |-> rem[k]] BY <2>4
    <2> HIDE DEF rem
    <2>6. QED BY <2>3, <2>4, <2>5
<1>3. evq' \in Terminated(evq \o rem) BY <1>1
<1> HIDE DEF asked, rem
<1>4. evq \in Seq(Event) /\ big \in Big /\ base \in Base /\ adv \in Adv
    BY DEF StopInv, TypeOK
<1>5. evq \o rem \in Seq(Event)
    BY <1>2, <1>4
<1>6. Owed("TERMINATED") => Holds(evq \o rem, "TERMINATED")
    <2>1. [evt |-> "TERMINATED"] \in Event BY EventTypes
    <2>2. QED BY <1>2, <1>4, <2>1, HoldsMore DEF Owed, Holds
<1>7. evq' \in Seq(Event) /\ (big.num > 0 => Holds(evq', "TERMINATED"))
    BY <1>3, <1>5, <1>6, TerminatedSeq DEF StopInv
<1>8. /\ mode' = FALSE /\ au' = au /\ big' = big
      /\ base' = [base EXCEPT !.st = IDLE]
      /\ adv' = [adv EXCEPT !.ext = FALSE, !.per = FALSE]
      /\ used.commands < MaxCommands
    BY DEF Stop, Withdrawn
<1>9. disturbed' \in BOOLEAN
    BY <1>1 DEF StopInv, TypeOK
<1>10. base' \in Base /\ base'.cnt = base.cnt /\ adv' \in Adv
    BY <1>4, <1>8 DEF Base, Adv
<1>11. used' \in [commands : 0 .. MaxCommands, faults : 0 .. MaxFaults]
    <2>1. used \in [commands : 0 .. MaxCommands, faults : 0 .. MaxFaults]
        BY DEF StopInv, TypeOK
    <2>2. PICK n \in 0 .. 1 : /\ used.faults + n <= MaxFaults
                              /\ used' = [commands |-> used.commands + 1,
                                          faults |-> used.faults + n]
        BY <1>1
    <2>3. QED BY <1>8, <2>1, <2>2, BisAssumption
<1>12. TypeOK'
    BY <1>7, <1>8, <1>9, <1>10, <1>11 DEF StopInv, TypeOK
<1>13. Stoppable'
    <2>1. ASSUME \E i \in 1 .. big.num : big.path[i] # {} PROVE big.num > 0
        <3>1. big.num \in 0 .. 2 BY <1>4 DEF Big
        <3>2. QED BY <2>1, <3>1
    <2>2. QED BY <1>7, <1>8, <2>1 DEF Stoppable, Owed, Holds
<1>14. QED BY <1>10, <1>12, <1>13 DEF StopInv, CntInv

\* Types of the audio engine.
LEMMA AudioTypes ==
    ASSUME NEW e \in Audio
    PROVE  /\ PrepareAudio(e) \in Audio /\ StartBisStream(e) \in Audio
           /\ StopStream(e) \in Audio /\ DisableAudio(e) \in Audio
BY DEF Audio, PrepareAudio, StartBisStream, StopStream, DisableAudio

\* Failures stay within their bound.
LEMMA FaultyType ==
    ASSUME TypeOK, NEW n \in {0, 1}, Faulty(n)
    PROVE  used' \in [commands : 0 .. MaxCommands, faults : 0 .. MaxFaults]
<1>1. used \in [commands : 0 .. MaxCommands, faults : 0 .. MaxFaults]
    BY DEF TypeOK
<1>2. used.faults + n <= MaxFaults /\ used' = [used EXCEPT !.faults = used.faults + n]
    BY <1>1 DEF Faulty
<1>3. used.faults + n \in 0 .. MaxFaults BY <1>1, <1>2, BisAssumption
<1>4. QED BY <1>1, <1>2, <1>3

\* The BIG is there: nothing is carried yet.
LEMMA CreatedStep ==
    ASSUME StopInv, CntInv, BigCreated
    PROVE  StopInv' /\ CntInv'
<1>1. evq \in Seq(Event) /\ evq # << >> /\ Head(evq).evt = "CREATED" /\ base \in Base
    BY DEF StopInv, TypeOK, BigCreated, Arrives
<1> DEFINE e == Head(evq)
           c == Csc(base)
<1>2. /\ e.num \in Biss /\ e.sdu \in Biss /\ e.enc \in BOOLEAN
      /\ Tail(evq) \in Seq(Event)
    <2>1. e \in Event /\ Tail(evq) \in Seq(Event) BY <1>1, HoldsRest
    <2>2. e \in [evt : {"CREATED"}, ok : BOOLEAN, num : Biss, sdu : Biss, enc : BOOLEAN]
        BY <1>1, <2>1, EventTypes
    <2>3. QED BY <2>1, <2>2
<1>3. c[1] \in SUBSET Channels /\ c[2] \in SUBSET Channels
    <2>1. base.bis[1] \in SUBSET Channels /\ base.bis[2] \in SUBSET Channels
        BY <1>1, Sets DEF Base
    <2>2. base.csc \in SUBSET Channels BY <1>1 DEF Base
    <2>3. QED BY <2>1, <2>2, Sets DEF Csc
<1>4. \A i \in Biss : c[i] \in SUBSET Channels
    BY <1>3 DEF Biss
<1>5. /\ big' = [NoBig EXCEPT !.num = e.num, !.sdu = e.sdu, !.enc = e.enc]
      /\ base' = [base EXCEPT !.ids = e.num, !.csc = c[e.num]]
      /\ au' = PrepareAudio(au)
      /\ UNCHANGED <<mode, adv, disturbed>>
    BY DEF BigCreated
<1>6. PICK refused \in SUBSET (1 .. e.num) :
         LET ok == InOrder((1 .. e.num) \ refused)
         IN  /\ evq' = Tail(evq) \o
                    [k \in DOMAIN ok |-> [evt |-> "SETUP", bis |-> ok[k], ch |-> c[ok[k]]]]
             /\ Faulty(IF refused = {} THEN 0 ELSE 1)
    BY DEF BigCreated
<1> HIDE DEF e, c
<1>7. used' \in [commands : 0 .. MaxCommands, faults : 0 .. MaxFaults]
    BY <1>6, FaultyType DEF StopInv
<1>8. evq' \in Seq(Event)
    <2> DEFINE ok    == InOrder((1 .. e.num) \ refused)
               setup == [k \in DOMAIN ok |-> [evt |-> "SETUP", bis |-> ok[k], ch |-> c[ok[k]]]]
    <2>1. ok \in Seq(Biss) BY InOrderSeq
    <2>2. evq' = Tail(evq) \o setup BY <1>6
    <2> HIDE DEF ok
    <2>3. \A k \in 1 .. Len(ok) : ok[k] \in Biss /\ c[ok[k]] \in SUBSET Channels
        BY <1>4, <2>1
    <2>4. \A k \in 1 .. Len(ok) : setup[k] \in Event
        BY <2>1, <2>3, EventTypes
    <2>5. DOMAIN setup = 1 .. Len(ok) /\ Len(ok) \in Nat BY <2>1
    <2>6. setup = [k \in 1 .. Len(ok) |-> setup[k]] BY <2>5
    <2> HIDE DEF setup
    <2>7. setup \in Seq(Event) BY <2>4, <2>5, <2>6
    <2>8. QED BY <1>2, <2>2, <2>7
<1>9. big' \in Big /\ big'.num = e.num /\ big'.path = Silent
    <2>1. NoBig \in Big /\ NoBig.path = Silent BY Sets DEF NoBig
    <2>2. e.num \in 0 .. 2 /\ e.sdu \in 0 .. 2 BY <1>2 DEF Biss
    <2> HIDE DEF NoBig
    <2>3. QED BY <1>2, <1>5, <2>1, <2>2 DEF Big
<1>10. base' \in Base /\ base'.cnt = base.cnt
    <2>1. e.num \in 0 .. 2 /\ c[e.num] \in SUBSET Channels
        BY <1>2, <1>4 DEF Biss
    <2> DEFINE x == c[e.num]
               m == e.num
    <2>2. base' = [base EXCEPT !.ids = m, !.csc = x] BY <1>5
    <2>3. m \in 0 .. 2 /\ x \in SUBSET Channels BY <2>1
    <2> HIDE DEF x, m
    <2>4. QED BY <1>1, <2>2, <2>3 DEF Base
<1>11. TypeOK'
    BY <1>5, <1>7, <1>8, <1>9, <1>10, AudioTypes DEF StopInv, TypeOK
<1>12. \A i \in 1 .. big'.num : big'.path[i] = {}
    BY <1>2, <1>9 DEF Silent, Biss
<1>13. QED BY <1>10, <1>11, <1>12 DEF StopInv, Stoppable, CntInv

\* The events that leave the BIG as it is.
LEMMA RefusedStep ==
    ASSUME StopInv, CntInv, BigNotCreated \/ DataPathRefused
    PROVE  StopInv' /\ CntInv'
<1>1. /\ evq \in Seq(Event) /\ evq # << >> /\ evq' = Tail(evq)
      /\ Head(evq).evt # "TERMINATED"
      /\ UNCHANGED <<mode, base, adv, au, big, disturbed>>
    BY DEF StopInv, TypeOK, BigNotCreated, DataPathRefused, Arrives
<1>2. PICK n \in {0, 1} : Faulty(n)
    BY DEF BigNotCreated, DataPathRefused
<1>3. evq' \in Seq(Event) /\ (Owed("TERMINATED") => Owed("TERMINATED")')
    BY <1>1, HoldsRest DEF Owed, Holds
<1>4. TypeOK' BY <1>1, <1>2, <1>3, FaultyType DEF StopInv, TypeOK
<1>5. QED BY <1>1, <1>3, <1>4 DEF StopInv, Stoppable, CntInv

\* A BIS carries audio: the BASE streams.
LEMMA SetupStep ==
    ASSUME StopInv, CntInv, DataPathSetup
    PROVE  StopInv' /\ CntInv'
<1>1. /\ evq \in Seq(Event) /\ evq # << >> /\ evq' = Tail(evq)
      /\ Head(evq).evt = "SETUP" /\ big \in Big /\ base \in Base
      /\ UNCHANGED <<mode, adv, disturbed, used>>
      /\ au' = StartBisStream(au)
    BY DEF StopInv, TypeOK, DataPathSetup, Arrives
<1>2. /\ Head(evq).bis \in Biss /\ Head(evq).ch \in SUBSET Channels
      /\ evq' \in Seq(Event)
    BY <1>1, HoldsRest, EventTypes
<1>3. big' \in Big
    <2>1. big' = [big EXCEPT !.path = [big.path EXCEPT ![Head(evq).bis] = Head(evq).ch]]
        BY DEF DataPathSetup
    <2>2. [big.path EXCEPT ![Head(evq).bis] = Head(evq).ch] \in [Biss -> SUBSET Channels]
        BY <1>1, <1>2 DEF Big
    <2>3. QED BY <1>1, <2>1, <2>2 DEF Big
<1>4. base' \in Base /\ base'.st = STREAMING /\ base'.cnt = base.cnt
    BY <1>1 DEF DataPathSetup, Streamed, Base
<1>5. TypeOK' BY <1>1, <1>2, <1>3, <1>4, AudioTypes DEF StopInv, TypeOK
<1>6. QED BY <1>4, <1>5 DEF StopInv, Stoppable, CntInv

\* A data path is gone.
LEMMA RemovedStep ==
    ASSUME StopInv, CntInv, DataPathRemoved
    PROVE  StopInv' /\ CntInv'
<1>1. /\ evq \in Seq(Event) /\ evq # << >> /\ evq' = Tail(evq)
      /\ Head(evq).evt = "REMOVED" /\ big \in Big
      /\ UNCHANGED <<mode, base, adv, disturbed, used>>
      /\ au' = StopStream(au)
    BY DEF StopInv, TypeOK, DataPathRemoved, Arrives
<1>2. evq' \in Seq(Event) /\ (Owed("TERMINATED") => Owed("TERMINATED")')
    BY <1>1, HoldsRest DEF Owed, Holds
<1> DEFINE b == Head(evq).bis
           p == [big.path EXCEPT ![b] = {}]
<1>3. big' = [big EXCEPT !.path = p]
    BY DEF DataPathRemoved
<1>4. p \in [Biss -> SUBSET Channels] /\ \A i \in Biss : p[i] # {} => big.path[i] # {}
    BY <1>1 DEF Big
<1> HIDE DEF p
<1>5. big' \in Big /\ big'.path = p /\ big'.num = big.num /\ big.num \in 0 .. 2
    BY <1>1, <1>3, <1>4 DEF Big
<1>6. TypeOK' BY <1>1, <1>2, <1>5, AudioTypes DEF StopInv, TypeOK
<1>7. \A i \in 1 .. big'.num : big'.path[i] # {} => i \in 1 .. big.num /\ big.path[i] # {}
    BY <1>4, <1>5 DEF Biss
<1>8. QED BY <1>1, <1>2, <1>6, <1>7 DEF StopInv, Stoppable, CntInv

\* The BIG is gone.
LEMMA TerminatedStep ==
    ASSUME StopInv, CntInv, BigTerminated
    PROVE  StopInv' /\ CntInv'
<1>1. /\ evq \in Seq(Event) /\ evq # << >> /\ evq' = Tail(evq) /\ big' = NoBig
      /\ UNCHANGED <<mode, base, adv, disturbed, used>>
      /\ au' = DisableAudio(au)
    BY DEF StopInv, TypeOK, BigTerminated, Arrives
<1>2. evq' \in Seq(Event) BY <1>1, HoldsRest
<1>3. TypeOK' BY <1>1, <1>2, AudioTypes, Sets DEF StopInv, TypeOK
<1>4. big'.num = 0 BY <1>1 DEF NoBig
<1>5. QED BY <1>1, <1>3, <1>4 DEF StopInv, Stoppable, CntInv

\* The two invariants together.
Inv == StopInv /\ CntInv

\* They hold in every state.
LEMMA Invariance == Spec => []Inv
<1>1. Init => Inv
    <2> SUFFICES ASSUME Init PROVE Inv OBVIOUS
    <2>1. base \in Base /\ base.cnt \in Biss
        BY Sets DEF Init, Base, Biss, Channels
    <2>2. adv \in Adv BY Sets DEF Init, Adv
    <2>3. au \in Audio BY DEF Init, Audio
    <2>4. evq \in Seq(Event) BY DEF Init
    <2>5. used \in [commands : 0 .. MaxCommands, faults : 0 .. MaxFaults]
        BY BisAssumption DEF Init
    <2>6. big \in Big /\ big.num = 0 BY Sets DEF Init, NoBig
    <2>7. TypeOK BY <2>1, <2>2, <2>3, <2>4, <2>5, <2>6 DEF Init, TypeOK
    <2>8. QED BY <2>1, <2>6, <2>7 DEF Inv, StopInv, Stoppable, CntInv
<1>2. Inv /\ [Next]_vars => Inv'
    <2> SUFFICES ASSUME Inv, [Next]_vars PROVE Inv' OBVIOUS
    <2>1. CASE UNCHANGED vars
        BY <2>1 DEF Inv, vars, StopInv, TypeOK, Stoppable, Owed, CntInv
    <2>2. CASE Next
        BY <2>2, StartStep, StopStep, CreatedStep, RefusedStep, SetupStep,
           RemovedStep, TerminatedStep DEF Inv, Next, StackEvent
    <2>3. QED BY <2>1, <2>2
<1>3. QED BY <1>1, <1>2, PTL DEF Spec

(* The variables of the broadcast source keep their types.                  *)
THEOREM TypeCorrect == Spec => []TypeOK
<1>1. Inv => TypeOK BY DEF Inv, StopInv
<1>2. QED BY <1>1, Invariance, PTL

(* A BIG that carries audio and that no event is about to end is one that   *)
(* the stop command ends, in whatever order commands, events and failures   *)
(* come.                                                                    *)
THEOREM AudioStoppable == Spec => []Stoppable
<1>1. Inv => Stoppable BY DEF Inv, StopInv
<1>2. QED BY <1>1, Invariance, PTL

\* Nothing of a broadcast is left in the stack and in the audio engine.
Quiet == big = NoBig /\ ~au.started /\ ~au.enabled

\* The queue q of a stop: the data paths go, then the BIG.  With on, that an
\* engine plays, there is a data path to go.
Closing(q, on) ==
    /\ q # << >> /\ q[Len(q)].evt = "TERMINATED"
    /\ \A k \in 1 .. Len(q) - 1 : q[k].evt = "REMOVED"
    /\ on => Len(q) > 1

\* The announcements a give to BIS i the channels c, and an SDU holds n.
Told(a, i, c, n) == c = a.ch[i] /\ Cardinality(c) = n

\* Event e is that of a BIG that, for the control block b, keeps what the
\* announcements a tell.
Promised(e, a, b) ==
    /\ e.evt = "CREATED" /\ e.enc = a.enc
    /\ \A i \in 1 .. e.num : Told(a, i, Csc(b)[i], e.sdu)

\* The BIG is being created, or could not be.
Opening ==
    /\ Quiet /\ base.st = CONFIGURED
    /\ evq # << >> => Len(evq) = 1 /\ Promised(evq[1], adv, base)

\* The BIG is there and its data paths are set up one by one.
Running ==
    /\ big.num > 0 /\ base.ids = big.num /\ big.enc = adv.enc /\ big.sdu > 0
    /\ \A k \in DOMAIN evq : /\ evq[k].evt = "SETUP"
                             /\ Told(adv, evq[k].bis, evq[k].ch, big.sdu)
    /\ \A i \in 1 .. big.num : big.path[i] # {} => Told(adv, i, big.path[i], big.sdu)
    /\ au.started => base.st = STREAMING
                     /\ \E i \in 1 .. big.num : big.path[i] # {}

\* Where a broadcast is as long as the host lets the events come in.
Phase ==
    /\ ~mode => /\ base.st = IDLE /\ ~adv.ext /\ ~adv.per
                /\ \/ evq = << >> /\ Quiet
                   \/ Closing(evq, au.started)
    /\ mode /\ base.st = IDLE => evq = << >>
    /\ mode /\ base.st # IDLE => adv.ext /\ adv.per /\ (Opening \/ Running)

\* The inductive invariant: the phases, and the engine only plays as a source.
PhaseInv ==
    /\ Inv
    /\ au.started => au.role = "SOURCE"
    /\ ~disturbed => Phase

\* The BISs of the loop over S are in S.
LEMMA InOrderIn ==
    ASSUME NEW S
    PROVE  \A k \in DOMAIN InOrder(S) : InOrder(S)[k] \in S
<1>1. CASE 1 \in S /\ 2 \in S
    <2>1. InOrder(S) = <<1>> \o <<2>> BY <1>1 DEF InOrder
    <2> DEFINE u == <<1>>
               v == <<2>>
    <2>2. u \in Seq(Nat) /\ v \in Seq(Nat) /\ Len(u) = 1 /\ Len(v) = 1
          /\ u[1] = 1 /\ v[1] = 2
        OBVIOUS
    <2>3. InOrder(S) = u \o v BY <2>1
    <2> HIDE DEF u, v
    <2>4. u \o v \in Seq(Nat) /\ Len(u \o v) = 2 /\ (u \o v)[1] = u[1] /\ (u \o v)[2] = v[1]
        <3>1. u \o v \in Seq(Nat) BY <2>2
        <3>2. Len(u \o v) = 2 BY <2>2
        <3>3. (u \o v)[1] = u[1] BY <2>2
        <3>4. (u \o v)[2] = v[1]
            <4>1. \A i \in 1 .. Len(u) + Len(v) :
                     (u \o v)[i] = IF i <= Len(u) THEN u[i] ELSE v[i - Len(u)]
                BY <2>2, ConcatProperties
            <4>2. 2 \in 1 .. Len(u) + Len(v) /\ ~(2 <= Len(u)) /\ 2 - Len(u) = 1
                BY <2>2
            <4>3. (u \o v)[2] = v[2 - Len(u)] BY <4>1, <4>2
            <4>4. QED BY <4>2, <4>3
        <3>5. QED BY <3>1, <3>2, <3>3, <3>4
    <2>5. DOMAIN (u \o v) = {1, 2} BY <2>4
    <2>6. QED BY <1>1, <2>2, <2>3, <2>4, <2>5
<1>2. CASE 1 \in S /\ 2 \notin S
    <2>1. InOrder(S) = <<1>> BY <1>2 DEF InOrder
    <2>2. QED BY <1>2, <2>1
<1>3. CASE 1 \notin S /\ 2 \in S
    <2>1. InOrder(S) = <<2>> BY <1>3 DEF InOrder
    <2>2. QED BY <1>3, <2>1
<1>4. CASE 1 \notin S /\ 2 \notin S
    <2>1. InOrder(S) = << >> BY <1>4 DEF InOrder
    <2>2. QED BY <2>1
<1>5. QED BY <1>1, <1>2, <1>3, <1>4

\* How many channels there are in each set that a BIS carries.
LEMMA Cards ==
    Cardinality({"L"}) = 1 /\ Cardinality({"R"}) = 1 /\ Cardinality(Channels) = 2
<1>1. Cardinality({"L"}) = 1 /\ Cardinality({"R"}) = 1 /\ IsFiniteSet({"L"})
    BY FS_Singleton
<1>2. Cardinality({"L"} \cup {"R"}) = Cardinality({"L"}) + 1
    BY <1>1, FS_AddElement
<1>3. {"L"} \cup {"R"} = Channels BY DEF Channels
<1>4. QED BY <1>1, <1>2, <1>3

\* The channels that the handler of the BIG gives to a BIS are those that the
\* BASE announced for it, and they fit in an SDU.
LEMMA ConfigTold ==
    ASSUME NEW q \in Requests, NEW heap \in BOOLEAN, NEW i \in 1 .. q.cnt
    PROVE  LET b == ConfigureStream(q, heap)
           IN  /\ Csc(b)[i] = BaseData(UpdateConfig(q))[i]
               /\ Cardinality(Csc(b)[i]) = BigRequest(b).sdu
<1> DEFINE both == IF q.stereo THEN Channels ELSE {"L"}
           each == IF q.cnt = 1 THEN <<both, {}>> ELSE <<{"L"}, {"R"}>>
           csc  == IF q.cnt = 1 THEN both ELSE {}
           u    == UpdateConfig(q)
           b    == ConfigureStream(q, heap)
<1>1. q.cnt \in {1, 2} /\ i \in {1, 2} /\ i <= q.cnt /\ i \in Biss
    BY BisAssumption DEF Biss
<1>2. u.cnt = q.cnt /\ u.bis = each /\ u.csc = csc
    BY DEF UpdateConfig
<1>3. b.bis = each /\ b.csc = csc
    BY <1>2 DEF UpdateConfig, ConfigureStream
<1>4. BaseData(u)[i] = IF each[i] # {} THEN each[i] ELSE csc
    BY <1>1, <1>2 DEF BaseData, FillCsc
<1>5. BigRequest(b).sdu = IF csc = Channels THEN 2 ELSE 1
    BY <1>3 DEF BigRequest
<1> DEFINE first == IF each[1] # {} THEN each[1] ELSE IF csc = {} THEN {"L"} ELSE csc
           secnd == IF each[2] # {} THEN each[2] ELSE IF first = {} THEN {"L"} ELSE first
<1>6. Csc(b) = <<first, secnd>>
    BY <1>3 DEF Csc
<1>7. both # {} /\ both # {"R"} /\ Cardinality(both) = (IF both = Channels THEN 2 ELSE 1)
    BY Cards DEF Channels
<1>8. {"L"} # {} /\ {"R"} # {} /\ {} # Channels BY DEF Channels
<1> HIDE DEF u, b, both
<1>9. CASE q.cnt = 1
    <2>1. i = 1 /\ each[1] = both /\ csc = both BY <1>1, <1>9
    <2> HIDE DEF each, csc
    <2>2. first = both BY <1>7, <2>1
    <2>3. Csc(b)[i] = both BY <1>6, <2>1, <2>2
    <2>4. BaseData(u)[i] = both BY <1>4, <1>7, <2>1
    <2>5. BigRequest(b).sdu = Cardinality(both) BY <1>5, <1>7, <2>1
    <2>6. QED BY <2>3, <2>4, <2>5 DEF u, b
<1>10. CASE q.cnt = 2
    <2>1. each[1] = {"L"} /\ each[2] = {"R"} /\ csc = {} BY <1>10
    <2> HIDE DEF each, csc
    <2>2. first = {"L"} /\ secnd = {"R"} BY <1>8, <2>1
    <2> HIDE DEF first, secnd
    <2>3. Csc(b)[i] = each[i] BY <1>1, <1>6, <2>1, <2>2
    <2>4. BaseData(u)[i] = each[i] BY <1>1, <1>4, <1>8, <2>1
    <2>5. BigRequest(b).sdu = 1 BY <1>5, <1>8, <2>1
    <2>6. Cardinality(each[i]) = 1 BY <1>1, <2>1, Cards
    <2>7. QED BY <2>3, <2>4, <2>5, <2>6 DEF u, b
<1>11. QED BY <1>1, <1>9, <1>10

\* The engine only plays as a source.
LEMMA SourceStep ==
    ASSUME PhaseInv, Next
    PROVE  au'.started => au'.role = "SOURCE"
<1>1. au \in Audio /\ (au.started => au.role = "SOURCE") BY DEF PhaseInv, Inv, StopInv, TypeOK
<1>2. \/ au' = au \/ au' = PrepareAudio(au) \/ au' = StartBisStream(au)
      \/ au' = StopStream(au) \/ au' = DisableAudio(au)
    BY DEF Next, StackEvent, Start, Stop, BigCreated, BigNotCreated, DataPathSetup,
           DataPathRefused, DataPathRemoved, BigTerminated
<1>3. CASE au' = au BY <1>1, <1>3
<1>4. CASE au' = PrepareAudio(au) BY <1>1, <1>4 DEF PrepareAudio, Audio
<1>5. CASE au' = StartBisStream(au) BY <1>1, <1>5 DEF StartBisStream, Audio
<1>6. CASE au' = StopStream(au) BY <1>1, <1>6 DEF StopStream, Audio
<1>7. CASE au' = DisableAudio(au) BY <1>1, <1>7 DEF DisableAudio, Audio
<1>8. QED BY <1>2, <1>3, <1>4, <1>5, <1>6, <1>7

\* A start of a source that is at rest announces what it asks of the stack.
LEMMA StartPhase ==
    ASSUME PhaseInv, Start, ~disturbed'
    PROVE  Phase'
<1>1. ~disturbed /\ evq = << >> /\ ~mode /\ mode' = TRUE /\ au' = au /\ big' = big
    BY DEF Start
<1>2. Phase /\ base \in Base BY <1>1 DEF PhaseInv, Inv, StopInv, TypeOK
<1>3. base.st = IDLE /\ Quiet BY <1>1, <1>2 DEF Phase, Closing
<1>4. PICK q \in Requests, heap \in BOOLEAN, busy \in BOOLEAN :
         LET b     == ConfigureStream(q, heap)
             asks  == b.st = CONFIGURED
         IN  /\ base' = b
             /\ adv' = Announced(UpdateConfig(q), q, heap)
             /\ evq' = IF asks /\ CanCreate /\ ~busy
                       THEN Append(evq, BigRequest(b)) ELSE evq
    BY <1>3 DEF Start
<1> DEFINE b == ConfigureStream(q, heap)
           r == BigRequest(b)
<1>5. b.st = (IF q.id /\ heap THEN CONFIGURED ELSE IDLE) /\ b.enc = q.enc /\ b.cnt = q.cnt
    BY DEF ConfigureStream, UpdateConfig
<1>6. Quiet' BY <1>1, <1>3 DEF Quiet
<1>7. CASE ~(q.id /\ heap)
    <2>1. b.st = IDLE /\ b.st # CONFIGURED BY <1>5, <1>7 DEF IDLE, CONFIGURED
    <2>2. base'.st = IDLE /\ evq' = << >> BY <1>1, <1>4, <2>1
    <2>3. QED BY <1>1, <2>2 DEF Phase
<1>8. CASE q.id /\ heap
    <2>1. base' = b /\ b.st = CONFIGURED /\ CONFIGURED # IDLE
        BY <1>4, <1>5, <1>8 DEF IDLE, CONFIGURED
    <2>2. adv' = [ext |-> TRUE, enc |-> q.enc, per |-> TRUE, ch |-> BaseData(UpdateConfig(q))]
        BY <1>4, <1>8 DEF Announced, PublicFeature
    <2>3. adv'.ext /\ adv'.per /\ adv'.enc = q.enc /\ adv'.ch = BaseData(UpdateConfig(q))
        BY <2>2
    <2>4. evq' = << >> \/ evq' = << r >>
        <3>1. Append(<< >>, r) = << r >> OBVIOUS
        <3>2. QED BY <1>1, <1>4, <3>1
    <2>5. r.evt = "CREATED" /\ r.enc = adv'.enc /\ r.num = q.cnt
        BY <1>5, <2>3 DEF BigRequest
    <2>6. \A i \in 1 .. q.cnt : /\ Csc(b)[i] = BaseData(UpdateConfig(q))[i]
                                /\ Cardinality(Csc(b)[i]) = r.sdu
        BY ConfigTold
    <2> HIDE DEF b, r
    <2>7. Promised(r, adv', base')
        BY <2>1, <2>3, <2>5, <2>6 DEF Promised, Told
    <2>8. evq' # << >> => Len(evq') = 1 /\ evq'[1] = r
        BY <2>4
    <2>9. Opening' BY <1>6, <2>1, <2>7, <2>8 DEF Opening
    <2>10. QED BY <1>1, <2>1, <2>3, <2>9 DEF Phase
<1>9. QED BY <1>7, <1>8

\* What is removed and then ended, as a queue.
LEMMA ClosingQueue ==
    ASSUME NEW s \in Seq(Biss), NEW on \in BOOLEAN, on => s # << >>
    PROVE  LET rem == [k \in DOMAIN s |-> [evt |-> "REMOVED", bis |-> s[k]]]
           IN  Closing(Append(rem, [evt |-> "TERMINATED"]), on)
<1> DEFINE rem == [k \in DOMAIN s |-> [evt |-> "REMOVED", bis |-> s[k]]]
           t   == [evt |-> "TERMINATED"]
           q   == Append(rem, t)
<1>1. Len(s) \in Nat /\ DOMAIN s = 1 .. Len(s) OBVIOUS
<1>2. DOMAIN rem = 1 .. Len(s) /\ \A k \in 1 .. Len(s) : rem[k].evt = "REMOVED"
    BY <1>1
<1>3. rem \in Seq(Event)
    <2>1. \A k \in 1 .. Len(s) : rem[k] \in Event BY EventTypes
    <2>2. rem = [k \in 1 .. Len(s) |-> rem[k]] BY <1>1
    <2> HIDE DEF rem
    <2>3. QED BY <1>1, <1>2, <2>1, <2>2
<1> HIDE DEF rem
<1>4. Len(rem) = Len(s) BY <1>1, <1>2, <1>3
<1>5. t \in Event /\ t.evt = "TERMINATED" BY EventTypes
<1> HIDE DEF t
<1>6. /\ q # << >> /\ Len(q) = Len(s) + 1 /\ q[Len(q)] = t
      /\ \A k \in 1 .. Len(s) : q[k] = rem[k]
    BY <1>1, <1>3, <1>4, <1>5
<1> HIDE DEF q
<1>7. on => Len(s) > 0 BY <1>1
<1>8. \A k \in 1 .. Len(q) - 1 : q[k].evt = "REMOVED" BY <1>1, <1>2, <1>6
<1>9. on => Len(q) > 1 BY <1>1, <1>6, <1>7
<1>10. q[Len(q)].evt = "TERMINATED" BY <1>5, <1>6
<1>11. Closing(q, on) BY <1>6, <1>8, <1>9, <1>10 DEF Closing
<1>12. QED BY <1>11 DEF q, rem, t

\* A stop with nothing under way: either there is no BIG and nothing is left,
\* or its end is on the way, after that of every data path that carries audio.
LEMMA StopPhase ==
    ASSUME PhaseInv, Stop, ~disturbed'
    PROVE  Phase'
<1>1. /\ base \in Base /\ big \in Big /\ au \in Audio /\ adv \in Adv /\ base.st # IDLE
      /\ mode' = FALSE /\ au' = au /\ big' = big
      /\ adv' = [adv EXCEPT !.ext = FALSE, !.per = FALSE]
      /\ base' = [base EXCEPT !.st = IDLE]
    BY DEF PhaseInv, Inv, StopInv, TypeOK, Stop, Withdrawn
<1>2. evq = << >> /\ (FullyStreaming \/ ~disturbed)
    BY DEF Stop, FullyStreaming
<1>3. PICK refused \in SUBSET Removals :
         LET asked == InOrder(Removals \ refused)
             rem   == [k \in DOMAIN asked |-> [evt |-> "REMOVED", bis |-> asked[k]]]
         IN  refused = {} /\ evq' \in Terminated(evq \o rem)
    BY DEF Stop
<1> DEFINE asked == InOrder(Removals)
           rem   == [k \in DOMAIN asked |-> [evt |-> "REMOVED", bis |-> asked[k]]]
<1>4. evq' \in Terminated(<< >> \o rem)
    <2>1. Removals \ refused = Removals BY <1>3
    <2>2. QED BY <1>2, <1>3, <2>1
<1>5. base'.st = IDLE /\ ~adv'.ext /\ ~adv'.per BY <1>1 DEF Base, Adv
<1>6. ~Owed("TERMINATED") BY <1>2 DEF Owed
<1>7. CASE big.num > 0
    <2>1. rem \in Seq(Event) /\ asked \in Seq(Biss)
        <3>1. asked \in Seq(Biss) BY InOrderSeq
        <3>2. Len(asked) \in Nat /\ DOMAIN asked = 1 .. Len(asked) BY <3>1
        <3>3. \A k \in 1 .. Len(asked) : asked[k] \in Biss BY <3>1
        <3> HIDE DEF asked
        <3>4. \A k \in 1 .. Len(asked) : rem[k] \in Event BY <3>2, <3>3, EventTypes
        <3>5. DOMAIN rem = 1 .. Len(asked) BY <3>2
        <3>6. rem = [k \in 1 .. Len(asked) |-> rem[k]] BY <3>2
        <3> HIDE DEF rem
        <3>7. QED BY <3>1, <3>2, <3>4, <3>5, <3>6
    <2>2. << >> \o rem = rem
        <3> HIDE DEF rem
        <3>1. QED BY <2>1
    <2>3. evq' = Append(rem, [evt |-> "TERMINATED"])
        BY <1>4, <1>6, <1>7, <2>2 DEF Terminated
    <2>4. ASSUME au.started PROVE asked # << >>
        <3>1. \E i \in 1 .. big.num : big.path[i] # {} /\ i <= base.ids /\ base.st = STREAMING
            <4>1. CASE FullyStreaming
                <5>1. 1 \in 1 .. big.num BY <1>1, <1>7 DEF Big
                <5>2. QED BY <4>1, <5>1 DEF FullyStreaming
            <4>2. CASE ~disturbed
                <5>1. mode /\ (Opening \/ Running) BY <1>1, <4>2 DEF PhaseInv, Phase
                <5>2. Running BY <2>4, <5>1 DEF Opening, Quiet
                <5>3. PICK i \in 1 .. big.num : big.path[i] # {} BY <2>4, <5>2 DEF Running
                <5>4. i <= base.ids BY <1>1, <5>2, <5>3 DEF Running, Big
                <5>5. base.st = STREAMING BY <2>4, <5>2 DEF Running
                <5>6. QED BY <5>3, <5>4, <5>5
            <4>3. QED BY <1>2, <4>1, <4>2
        <3>2. PICK i \in 1 .. big.num : big.path[i] # {} /\ i <= base.ids
                                         /\ base.st = STREAMING
            BY <3>1
        <3>3. i \in Biss /\ i <= big.num /\ i \in {1, 2} BY <1>1 DEF Big, Biss
        <3>4. i \in Removals
            BY <3>2, <3>3 DEF Removals, IsBisCreated, CanRemove
        <3>5. 1 \in Removals \/ 2 \in Removals BY <3>3, <3>4
        <3> HIDE DEF rem
        <3>6. QED BY <3>5 DEF InOrder
    <2>5. au.started \in BOOLEAN BY <1>1 DEF Audio
    <2> DEFINE q  == Append(rem, [evt |-> "TERMINATED"])
               on == au.started
    <2>6. Closing(q, on)
        <3> HIDE DEF asked, on
        <3>1. on \in BOOLEAN /\ (on => asked # << >>) BY <2>4, <2>5 DEF on
        <3>2. QED BY <2>1, <3>1, ClosingQueue
    <2>7. evq' = q /\ au'.started = on BY <1>1, <2>3
    <2> HIDE DEF q, on
    <2>8. Closing(evq', au'.started) BY <2>6, <2>7
    <2>9. QED BY <1>1, <1>5, <2>8 DEF Phase
<1>8. CASE ~(big.num > 0)
    <2>1. ~FullyStreaming BY <1>8 DEF FullyStreaming
    <2>2. Phase /\ mode BY <1>1, <1>2, <2>1 DEF PhaseInv, Phase
    <2>3. Opening BY <1>1, <1>8, <2>2 DEF Phase, Running
    <2>4. Quiet' BY <1>1, <2>3 DEF Opening, Quiet
    <2>5. Removals = {}
        BY <2>3 DEF Removals, Opening, CONFIGURED, STREAMING
    <2>6. asked = << >> BY <2>5 DEF InOrder
    <2>7. << >> \o rem = << >>
        <3>1. rem = << >> BY <2>6
        <3>2. << >> \o << >> = << >> OBVIOUS
        <3>3. QED BY <3>1, <3>2
    <2>8. evq' = << >>
        <3>1. \/ evq' = << >>
              \/ evq' = [k \in DOMAIN << >> |-> IF << >>[k].evt = "CREATED"
                                   THEN [<< >>[k] EXCEPT !.ok = FALSE] ELSE << >>[k]]
            <4> HIDE DEF rem
            <4>1. evq' \in Terminated(<< >>) BY <1>4, <2>7
            <4>2. QED BY <1>8, <4>1 DEF Terminated
        <3>2. DOMAIN << >> = {} OBVIOUS
        <3>3. QED BY <3>1, <3>2
    <2>9. QED BY <1>1, <1>5, <2>4, <2>8 DEF Phase
<1>9. QED BY <1>7, <1>8

\* The first event of the queue, and the rest.
LEMMA Rest ==
    ASSUME NEW q \in Seq(Event), q # << >>
    PROVE  /\ Head(q) = q[1] /\ Tail(q) \in Seq(Event) /\ Len(q) \in Nat \ {0}
           /\ Len(Tail(q)) = Len(q) - 1
           /\ \A k \in 1 .. Len(q) - 1 : Tail(q)[k] = q[k + 1]
           /\ Len(q) = 1 => Tail(q) = << >>
OBVIOUS

\* The next event tells the phase.
LEMMA HeadPhase ==
    ASSUME Phase, evq \in Seq(Event), evq # << >>
    PROVE  /\ Head(evq).evt = "CREATED" => mode /\ base.st # IDLE /\ Opening
           /\ Head(evq).evt = "SETUP" => mode /\ base.st # IDLE /\ Running
           /\ Head(evq).evt = "REMOVED" =>
                 ~mode /\ Closing(evq, au.started) /\ Len(evq) > 1
           /\ Head(evq).evt = "TERMINATED" =>
                 ~mode /\ Closing(evq, au.started) /\ Len(evq) = 1
<1>1. Head(evq) = evq[1] /\ Len(evq) \in Nat \ {0} /\ 1 \in DOMAIN evq
    BY Rest
<1>2. ASSUME Closing(evq, au.started)
      PROVE  \/ Len(evq) = 1 /\ evq[1].evt = "TERMINATED"
             \/ Len(evq) > 1 /\ evq[1].evt = "REMOVED"
    <2>1. CASE Len(evq) = 1 BY <1>2, <2>1 DEF Closing
    <2>2. CASE Len(evq) > 1
        <3>1. 1 \in 1 .. Len(evq) - 1 BY <1>1, <2>2
        <3>2. QED BY <1>2, <2>2, <3>1 DEF Closing
    <2>3. Len(evq) = 1 \/ Len(evq) > 1
        <3> DEFINE n == Len(evq)
        <3>1. n \in Nat /\ n # 0 BY <1>1
        <3> HIDE DEF n
        <3>2. n = 1 \/ n > 1 BY <3>1
        <3>3. QED BY <3>2 DEF n
    <2>4. QED BY <2>1, <2>2, <2>3
<1>3. ASSUME Opening PROVE evq[1].evt = "CREATED"
    BY <1>3 DEF Opening, Promised
<1>4. ASSUME Running PROVE evq[1].evt = "SETUP"
    BY <1>1, <1>4 DEF Running
<1>5. \/ mode /\ base.st # IDLE /\ Opening
      \/ mode /\ base.st # IDLE /\ Running
      \/ ~mode /\ Closing(evq, au.started)
    BY DEF Phase
<1>6. QED BY <1>1, <1>2, <1>3, <1>4, <1>5

\* The BIG is there: it is the one that was announced.
LEMMA CreatedPhase ==
    ASSUME PhaseInv, BigCreated, ~disturbed'
    PROVE  Phase'
<1> DEFINE e == Head(evq)
           c == Csc(base)
<1>1. /\ evq \in Seq(Event) /\ evq # << >> /\ e.evt = "CREATED" /\ base \in Base
      /\ au \in Audio /\ Phase
    BY DEF PhaseInv, Inv, StopInv, TypeOK, BigCreated, Arrives
<1>2. /\ big' = [NoBig EXCEPT !.num = e.num, !.sdu = e.sdu, !.enc = e.enc]
      /\ base' = [base EXCEPT !.ids = e.num, !.csc = c[e.num]]
      /\ au' = PrepareAudio(au) /\ mode' = mode /\ adv' = adv
    BY DEF BigCreated
<1>3. PICK refused \in SUBSET (1 .. e.num) :
         LET ok == InOrder((1 .. e.num) \ refused)
         IN  evq' = Tail(evq) \o
                    [k \in DOMAIN ok |-> [evt |-> "SETUP", bis |-> ok[k], ch |-> c[ok[k]]]]
    BY DEF BigCreated
<1>4. e = evq[1] /\ Len(evq) \in Nat \ {0} BY <1>1, Rest
<1>5. mode /\ base.st # IDLE BY <1>1, HeadPhase
<1>6. Opening BY <1>1, HeadPhase
<1>7. Len(evq) = 1 /\ Promised(e, adv, base) BY <1>1, <1>4, <1>6 DEF Opening
<1>8. e.num \in Biss /\ e.sdu \in Biss /\ e.enc \in BOOLEAN
    BY <1>1, <1>4, HoldsRest, EventTypes
<1> HIDE DEF e, c
<1>9. big'.num = e.num /\ big'.sdu = e.sdu /\ big'.enc = e.enc /\ big'.path = Silent
    BY <1>2 DEF NoBig
<1>10. base'.ids = e.num /\ base'.st = base.st BY <1>1, <1>2 DEF Base
<1>11. ~au'.started BY <1>1, <1>2, <1>6 DEF Opening, Quiet, PrepareAudio, Audio
<1>12. \A k \in DOMAIN evq' : evq'[k].evt = "SETUP" /\ Told(adv, evq'[k].bis, evq'[k].ch, e.sdu)
    <2> DEFINE S     == (1 .. e.num) \ refused
               ok    == InOrder(S)
               setup == [k \in DOMAIN ok |-> [evt |-> "SETUP", bis |-> ok[k], ch |-> c[ok[k]]]]
    <2>1. \A k \in DOMAIN ok : ok[k] \in 1 .. e.num
        <3> HIDE DEF S
        <3>1. \A k \in DOMAIN ok : ok[k] \in S BY InOrderIn
        <3>2. QED BY <3>1 DEF S
    <2>2. ok \in Seq(Biss) BY InOrderSeq
    <2>3. evq' = Tail(evq) \o setup /\ Tail(evq) = << >> BY <1>1, <1>3, <1>7, Rest
    <2> HIDE DEF ok
    <2>4. \A k \in DOMAIN ok : setup[k] = [evt |-> "SETUP", bis |-> ok[k], ch |-> c[ok[k]]]
        OBVIOUS
    <2>5. \A k \in DOMAIN ok : Told(adv, ok[k], c[ok[k]], e.sdu)
        BY <1>7, <2>1 DEF Promised, c
    <2>6. DOMAIN setup = 1 .. Len(ok) /\ Len(ok) \in Nat /\ DOMAIN ok = 1 .. Len(ok)
        BY <2>2
    <2>7. setup = [k \in 1 .. Len(ok) |-> setup[k]] BY <2>6
    <2>8. \A k \in DOMAIN setup : /\ setup[k].evt = "SETUP"
                                  /\ Told(adv, setup[k].bis, setup[k].ch, e.sdu)
        BY <2>4, <2>5, <2>6
    <2>9. << >> \o setup = setup
        <3> DEFINE V == {setup[k] : k \in DOMAIN setup}
        <3>1. \A k \in 1 .. Len(ok) : setup[k] \in V BY <2>6
        <3> HIDE DEF setup, V
        <3>2. setup \in Seq(V) BY <2>6, <2>7, <3>1
        <3>3. QED BY <3>2
    <2> HIDE DEF setup
    <2>10. QED BY <2>3, <2>8, <2>9
<1>13. \A i \in 1 .. big'.num : big'.path[i] = {}
    BY <1>8, <1>9 DEF Silent, Biss
<1>14. big'.num > 0 /\ big'.sdu > 0 BY <1>8, <1>9 DEF Biss
<1>15. e.enc = adv.enc BY <1>7 DEF Promised
<1>16. Running'
    BY <1>2, <1>9, <1>10, <1>11, <1>12, <1>13, <1>14, <1>15 DEF Running
<1>17. adv.ext /\ adv.per BY <1>1, <1>5 DEF Phase
<1>18. QED BY <1>2, <1>5, <1>10, <1>16, <1>17 DEF Phase

\* A failure to create the BIG or a data path.
LEMMA RefusedPhase ==
    ASSUME PhaseInv, BigNotCreated \/ DataPathRefused, ~disturbed'
    PROVE  Phase'
<1>1. /\ evq \in Seq(Event) /\ evq # << >> /\ evq' = Tail(evq) /\ Phase
      /\ UNCHANGED <<mode, base, adv, au, big>>
    BY DEF PhaseInv, Inv, StopInv, TypeOK, BigNotCreated, DataPathRefused, Arrives
<1>2. Head(evq).evt \in {"CREATED", "SETUP"}
    BY DEF BigNotCreated, DataPathRefused, Arrives
<1>3. CASE Head(evq).evt = "CREATED"
    <2>1. mode /\ base.st # IDLE /\ Opening BY <1>1, <1>3, HeadPhase
    <2>2. Len(evq) = 1 BY <1>1, <2>1 DEF Opening
    <2>3. evq' = << >> BY <1>1, <2>2, Rest
    <2>4. Opening' BY <1>1, <2>1, <2>3 DEF Opening, Quiet
    <2>5. adv.ext /\ adv.per BY <1>1, <2>1 DEF Phase
    <2>6. QED BY <1>1, <2>1, <2>4, <2>5 DEF Phase
<1>4. CASE Head(evq).evt = "SETUP"
    <2>1. mode /\ base.st # IDLE /\ Running BY <1>1, <1>4, HeadPhase
    <2>2. \A k \in DOMAIN evq' : k + 1 \in DOMAIN evq /\ evq'[k] = evq[k + 1]
        BY <1>1, Rest
    <2>3. Running' BY <1>1, <2>1, <2>2 DEF Running
    <2>4. adv.ext /\ adv.per BY <1>1, <2>1 DEF Phase
    <2>5. QED BY <1>1, <2>1, <2>3, <2>4 DEF Phase
<1>5. QED BY <1>2, <1>3, <1>4

\* A BIS carries what was announced for it.
LEMMA SetupPhase ==
    ASSUME PhaseInv, DataPathSetup, ~disturbed'
    PROVE  Phase'
<1> DEFINE e == Head(evq)
           p == [big.path EXCEPT ![e.bis] = e.ch]
<1>1. /\ evq \in Seq(Event) /\ evq # << >> /\ evq' = Tail(evq) /\ Phase
      /\ base \in Base /\ big \in Big /\ au \in Audio /\ e.evt = "SETUP"
      /\ mode' = mode /\ adv' = adv
    BY DEF PhaseInv, Inv, StopInv, TypeOK, DataPathSetup, Arrives
<1>2. /\ big' = [big EXCEPT !.path = p] /\ base' = [base EXCEPT !.st = STREAMING]
      /\ au' = StartBisStream(au) /\ e.bis <= big.num
    BY DEF DataPathSetup, Streamed, IsBisCreated
<1>3. mode /\ base.st # IDLE /\ Running BY <1>1, HeadPhase
<1>4. e.bis \in Biss /\ e.ch \in SUBSET Channels /\ e = evq[1] /\ 1 \in DOMAIN evq
    BY <1>1, HoldsRest, EventTypes, Rest
<1>5. Told(adv, e.bis, e.ch, big.sdu) BY <1>3, <1>4 DEF Running
<1>6. \A k \in DOMAIN evq' : k + 1 \in DOMAIN evq /\ evq'[k] = evq[k + 1]
    BY <1>1, Rest
<1>7. p \in [Biss -> SUBSET Channels] BY <1>1, <1>4 DEF Big
<1>8. \A i \in Biss : p[i] = IF i = e.bis THEN e.ch ELSE big.path[i]
    BY <1>1, <1>4 DEF Big
<1> HIDE DEF e, p
<1>9. /\ big'.num = big.num /\ big'.sdu = big.sdu /\ big'.enc = big.enc /\ big'.path = p
      /\ big.num \in 0 .. 2
    BY <1>1, <1>2, <1>7 DEF Big
<1>10. base'.ids = base.ids /\ base'.st = STREAMING BY <1>1, <1>2 DEF Base
<1>11. \A i \in 1 .. big.num : i \in Biss BY <1>9 DEF Biss
<1>12. \A i \in 1 .. big'.num : big'.path[i] # {} => Told(adv, i, big'.path[i], big'.sdu)
    <2> SUFFICES ASSUME NEW i \in 1 .. big.num, p[i] # {}
                 PROVE  Told(adv, i, p[i], big.sdu)
        BY <1>9
    <2>1. CASE i = e.bis BY <1>5, <1>8, <1>11, <2>1
    <2>2. CASE i # e.bis
        <3>1. p[i] = big.path[i] BY <1>8, <1>11, <2>2
        <3>2. QED BY <1>3, <3>1 DEF Running
    <2>3. QED BY <2>1, <2>2
<1>13. au'.started => \E i \in 1 .. big'.num : big'.path[i] # {}
    <2> SUFFICES ASSUME TRUE PROVE \E i \in 1 .. big.num : p[i] # {}
        BY <1>9
    <2>1. e.bis \in 1 .. big.num BY <1>2, <1>4, <1>9 DEF Biss
    <2>2. e.ch # {}
        <3>1. Cardinality({}) = 0 BY FS_EmptySet
        <3>2. Cardinality(e.ch) = big.sdu BY <1>5 DEF Told
        <3>3. big.sdu # 0 BY <1>3 DEF Running
        <3>4. QED BY <3>1, <3>2, <3>3
    <2>3. p[e.bis] = e.ch BY <1>4, <1>8
    <2>4. QED BY <2>1, <2>2, <2>3
<1>14. \A k \in DOMAIN evq' : /\ evq'[k].evt = "SETUP"
                              /\ Told(adv, evq'[k].bis, evq'[k].ch, big'.sdu)
    BY <1>3, <1>6, <1>9 DEF Running
<1>15. Running'
    BY <1>1, <1>3, <1>9, <1>10, <1>12, <1>13, <1>14 DEF Running
<1>16. adv.ext /\ adv.per /\ base'.st # IDLE
    BY <1>1, <1>3, <1>10 DEF Phase, IDLE, STREAMING
<1>17. QED BY <1>1, <1>3, <1>15, <1>16 DEF Phase

\* A data path goes: the engine stops with the first one.
LEMMA RemovedPhase ==
    ASSUME PhaseInv, DataPathRemoved, ~disturbed'
    PROVE  Phase'
<1>1. /\ evq \in Seq(Event) /\ evq # << >> /\ evq' = Tail(evq) /\ Phase
      /\ au \in Audio /\ Head(evq).evt = "REMOVED" /\ au' = StopStream(au)
      /\ mode' = mode /\ adv' = adv /\ base' = base
      /\ au.started => au.role = "SOURCE"
    BY DEF PhaseInv, Inv, StopInv, TypeOK, DataPathRemoved, Arrives
<1>2. ~mode /\ Closing(evq, au.started) /\ Len(evq) > 1 BY <1>1, HeadPhase
<1>3. ~au'.started BY <1>1 DEF StopStream, Audio
<1> DEFINE t == Tail(evq)
<1>4. /\ t \in Seq(Event) /\ Len(t) = Len(evq) - 1 /\ Len(evq) \in Nat
      /\ \A k \in 1 .. Len(evq) - 1 : t[k] = evq[k + 1]
    BY <1>1, Rest
<1>5. evq' = t BY <1>1
<1> HIDE DEF t
<1>6. t # << >> /\ t[Len(t)] = evq[Len(evq)]
    <2>1. Len(t) \in 1 .. Len(evq) - 1 /\ Len(t) + 1 = Len(evq) BY <1>2, <1>4
    <2>2. t[Len(t)] = evq[Len(t) + 1] BY <1>4, <2>1
    <2>3. Len(<< >>) = 0 OBVIOUS
    <2>4. t # << >> BY <2>1, <2>3
    <2>5. QED BY <2>1, <2>2, <2>4
<1>7. \A k \in 1 .. Len(t) - 1 : t[k].evt = "REMOVED"
    <2> SUFFICES ASSUME NEW k \in 1 .. Len(t) - 1 PROVE t[k].evt = "REMOVED"
        OBVIOUS
    <2>1. k \in 1 .. Len(evq) - 1 /\ k + 1 \in 1 .. Len(evq) - 1 BY <1>2, <1>4
    <2>2. t[k] = evq[k + 1] BY <1>4, <2>1
    <2>3. QED BY <1>2, <2>1, <2>2 DEF Closing
<1>8. Closing(evq', au'.started)
    BY <1>2, <1>3, <1>5, <1>6, <1>7 DEF Closing
<1>9. QED BY <1>1, <1>2, <1>8 DEF Phase

\* The end of the BIG is the last event of a stop.
LEMMA TerminatedPhase ==
    ASSUME PhaseInv, BigTerminated, ~disturbed'
    PROVE  Phase'
<1>1. /\ evq \in Seq(Event) /\ evq # << >> /\ evq' = Tail(evq) /\ Phase
      /\ au \in Audio /\ Head(evq).evt = "TERMINATED" /\ au' = DisableAudio(au)
      /\ mode' = mode /\ adv' = adv /\ base' = base /\ big' = NoBig
    BY DEF PhaseInv, Inv, StopInv, TypeOK, BigTerminated, Arrives
<1>2. ~mode /\ Closing(evq, au.started) /\ Len(evq) = 1 BY <1>1, HeadPhase
<1>3. evq' = << >> BY <1>1, <1>2, Rest
<1>4. ~au'.started /\ ~au'.enabled BY <1>1, <1>2 DEF Closing, DisableAudio, Audio
<1>5. Quiet' BY <1>1, <1>4 DEF Quiet
<1>6. QED BY <1>1, <1>2, <1>3, <1>5 DEF Phase

\* The phases hold in every state.
LEMMA Phases == Spec => []PhaseInv
<1>1. Init => (au.started => au.role = "SOURCE") /\ Phase
    BY DEF Init, Phase, Quiet
<1>2. PhaseInv /\ Inv' /\ [Next]_vars => PhaseInv'
    <2> SUFFICES ASSUME PhaseInv, Inv', [Next]_vars PROVE PhaseInv' OBVIOUS
    <2>1. CASE UNCHANGED vars
        BY <2>1 DEF PhaseInv, vars, Phase, Quiet, Opening, Running
    <2>2. CASE Next
        <3>1. au'.started => au'.role = "SOURCE" BY <2>2, SourceStep
        <3>2. ~disturbed' => Phase'
            BY <2>2, StartPhase, StopPhase, CreatedPhase, RefusedPhase, SetupPhase,
               RemovedPhase, TerminatedPhase DEF Next, StackEvent
        <3>3. QED BY <3>1, <3>2 DEF PhaseInv
    <2>3. QED BY <2>1, <2>2
<1>3. Init /\ Inv => PhaseInv BY <1>1 DEF PhaseInv
<1>4. QED BY <1>2, <1>3, Invariance, PTL DEF Spec

(* A broadcast that was stopped leaves nothing behind once the events of    *)
(* the stop are in, for a host that lets the events come in, and also when  *)
(* earlier hurried commands had left something and the last stop found      *)
(* every BIS streaming.                                                     *)
THEOREM StopLeavesNothing == Spec => []StopsClean
<1>1. PhaseInv => StopsClean
    BY DEF PhaseInv, Phase, Closing, Quiet, StopsClean
<1>2. QED BY <1>1, Phases, PTL

(* What is on air is what the announcements tell: the source is announced   *)
(* with the encryption of its BIG, and every BIS carries the channels that  *)
(* the BASE gives it, which just fit in an SDU.                             *)
THEOREM AirIsTruthful == Spec => []Truthful
<1>1. PhaseInv => Truthful
    <2> SUFFICES ASSUME PhaseInv, mode, base.st # IDLE, ~disturbed
                 PROVE  /\ adv.ext /\ adv.per
                        /\ big.num > 0 => big.enc = adv.enc
                        /\ \A i \in 1 .. big.num : big.path[i] # {} =>
                              big.path[i] = adv.ch[i] /\ Cardinality(big.path[i]) = big.sdu
        BY DEF Truthful
    <2>1. adv.ext /\ adv.per /\ (Opening \/ Running) BY DEF PhaseInv, Phase
    <2>2. CASE Opening
        <3>1. big.num = 0 BY <2>2 DEF Opening, Quiet, NoBig
        <3>2. QED BY <2>1, <3>1
    <2>3. CASE Running BY <2>1, <2>3 DEF Running, Told
    <2>4. QED BY <2>1, <2>2, <2>3
<1>2. QED BY <1>1, Phases, PTL
=============================================================================
