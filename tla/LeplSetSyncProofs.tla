-------------------------- MODULE LeplSetSyncProofs --------------------------
(* Proofs about the synchronisation of a coordinated set, for any members,  *)
(* levels, steps, counters and bounds: the types, that a member that the    *)
(* synchronisation waits for will answer, that the members of a volume set  *)
(* agree once nothing is under way, and that the set implements the         *)
(* abstract control that it promises to its users.                          *)
EXTENDS LeplSetSync, SequenceTheorems, TLAPS

\* The levels and the opcodes of service k: VCS counts from 0 to 255, the
\* gain of AICS is a signed byte and is only set.
LevelsOf(k) == IF k = "VCS" THEN 0 .. 255 ELSE -128 .. 127
Ops(k)      ==
    IF k = "VCS" THEN Opcodes \ {"DISABLE"}
    ELSE IF k = "AICS" THEN {"SET", "UNMUTE", "MUTE"} ELSE {"UNMUTE", "MUTE", "DISABLE"}
MutesOf(d)  == IF d THEN Mutes ELSE HostMutes
States(k, d) ==
    [level : LevelsOf(k), mute : MutesOf(d),
     auto : IF d /\ k = "AICS" THEN BOOLEAN ELSE {FALSE}, cnt : 0 .. MaxCounter]
Writes(k)   == [op : Ops(k), level : LevelsOf(k), cnt : 0 .. MaxCounter]

\* A member of service k in state s that may answer a write without a
\* notification; d says whether its mute can be disabled.
Hush(k, d, s) ==
    k = "MICS" \/ (k = "AICS" /\ d /\ (s.auto \/ s.mute # "NOT_MUTED"))

\* A write that a member in state s takes and is changed by, hush apart.
Effective(k, s, w) ==
    /\ w.cnt = s.cnt /\ Asked(s, w) # s
    /\ k = "AICS" /\ w.op = "SET" => w.level \in MinGain .. MaxGain

\* What a request decided on copy c may be: no write, or one that a member in
\* the state c takes and is changed by, unless it is hush.
Request(k, d, c, w) ==
    \/ w = NoWrite
    \/ w \in Writes(k) /\ w # NoWrite /\ (~Hush(k, d, c) => Effective(k, c, w))

\* One member: server sv, copy cp, waiting flag wt, writes o, notifications n.
\* The last notification under way, or the copy when there is none, is the
\* state of the server; and the flag without a notification under way means
\* that the last write will be answered by one.
LineOk(k, d, sv, cp, wt, o, n) ==
    /\ n = << >> => cp = sv
    /\ n # << >> => n[Len(n)] = sv
    /\ ~Hush(k, d, sv) /\ wt /\ n = << >> => o # << >> /\ Effective(k, sv, o[Len(o)])

UsedType == [changes : 0 .. MaxChanges, losses : 0 .. MaxFaults, refused : 0 .. MaxFaults]

Types ==
    /\ kind \in Kinds /\ modes \in BOOLEAN /\ (modes => kind # "VCS")
    /\ srv \in [Members -> States(kind, modes)] /\ copy \in [Members -> States(kind, modes)]
    /\ waiting \in [Members -> BOOLEAN]
    /\ out \in [Members -> Seq(Writes(kind))]
    /\ notes \in [Members -> Seq(States(kind, modes))]
    /\ up \subseteq Members /\ loose \in BOOLEAN
    /\ used \in UsedType

Lines ==
    \A m \in Members :
        IF m \in up THEN LineOk(kind, modes, srv[m], copy[m], waiting[m], out[m], notes[m])
        ELSE ~waiting[m] /\ out[m] = << >> /\ notes[m] = << >>

\* The inductive invariant.
SyncInv == Types /\ Lines

\* The levels, states and writes of a service are those of the module.
LEMMA Ranges ==
    ASSUME NEW k \in Kinds, NEW d \in BOOLEAN
    PROVE  /\ LevelsOf(k) \subseteq Levels /\ 0 \in LevelsOf(k)
           /\ States(k, d) \subseteq State /\ Writes(k) \subseteq Write
           /\ k = "VCS" => Volumes \subseteq LevelsOf(k)
           /\ k # "VCS" => MinGain .. MaxGain \subseteq LevelsOf(k)
<1>1. /\ LevelsOf(k) \subseteq Levels /\ 0 \in LevelsOf(k)
      /\ k = "VCS" => Volumes \subseteq LevelsOf(k)
      /\ k # "VCS" => MinGain .. MaxGain \subseteq LevelsOf(k)
    BY SetSyncAssumption DEF LevelsOf, Levels, MIN_VOLUME, MAX_VOLUME
<1>2. Ops(k) \subseteq Opcodes BY DEF Ops, Opcodes
<1>3. MutesOf(d) \subseteq Mutes BY DEF MutesOf, HostMutes, Mutes
<1>4. (IF d /\ k = "AICS" THEN BOOLEAN ELSE {FALSE}) \subseteq BOOLEAN OBVIOUS
<1>5. QED BY <1>1, <1>2, <1>3, <1>4 DEF States, State, Writes, Write

\* A request for a volume or the mute state changes what it is decided on.
LEMMA VcsRequests ==
    ASSUME NEW c \in States("VCS", FALSE), "VCS" \in Kinds, NEW op \in VolumeOps,
           NEW v \in LevelsOf("VCS"), NEW mute \in HostMutes
    PROVE  /\ Request("VCS", FALSE, c, SetVolume(c, op, v))
           /\ Request("VCS", FALSE, c, SetMuteState(c, mute))
<1>1. c.level \in 0 .. 255 /\ c.mute \in HostMutes /\ c.cnt \in 0 .. MaxCounter
    BY DEF States, LevelsOf, MutesOf
<1>2. v \in 0 .. 255 BY DEF LevelsOf
<1>3. ASSUME NEW o \in Opcodes \ {"DISABLE"}, ~Pointless(c, o, v)
      PROVE  Request("VCS", FALSE, c, VcsWrite(c, o, v))
    <2> DEFINE w == VcsWrite(c, o, v)
    <2>1. w.op = o /\ w.cnt = c.cnt /\ w.level = IF o = "SET" THEN v ELSE 0
        BY DEF VcsWrite
    <2>2. w \in Writes("VCS")
        BY <1>1, <1>2 DEF VcsWrite, Writes, Ops, LevelsOf
    <2>3. w # NoWrite
        BY <2>1 DEF NoWrite, Opcodes
    <2> HIDE DEF w
    <2>4. Asked(c, w).level # c.level \/ Asked(c, w).mute # c.mute
        <3>1. c \in [level : 0 .. 255, mute : HostMutes, auto : {FALSE}, cnt : 0 .. MaxCounter]
            BY DEF States, LevelsOf, MutesOf
        <3>2. /\ Asked(c, w).level =
                    IF o \in {"DOWN", "UNMUTE_DOWN"} THEN Higher(c.level - Step, 0)
                    ELSE IF o \in {"UP", "UNMUTE_UP"} THEN Lower(c.level + Step, MAX_VOLUME)
                    ELSE IF o = "SET" THEN w.level ELSE c.level
              /\ Asked(c, w).mute =
                    IF o \in {"UNMUTE_DOWN", "UNMUTE_UP", "UNMUTE"} THEN "NOT_MUTED"
                    ELSE IF o = "MUTE" THEN "MUTED" ELSE c.mute
            BY <2>1, <3>1 DEF Asked
        <3>3. Step \in 1 .. 255 BY SetSyncAssumption
        <3>4. c.level # 0 => Higher(c.level - Step, 0) # c.level
            BY <1>1, <3>3 DEF Higher
        <3>5. c.level # 255 => Lower(c.level + Step, MAX_VOLUME) # c.level
            BY <1>1, <3>3 DEF Lower, MAX_VOLUME
        <3>6. QED
            BY <1>1, <1>2, <1>3, <2>1, <3>2, <3>4, <3>5, ZenonT(30)
            DEF Pointless, Opcodes, MIN_VOLUME, MAX_VOLUME, HostMutes
    <2>5. Effective("VCS", c, w) BY <2>1, <2>4 DEF Effective
    <2>7. Request("VCS", FALSE, c, w) BY <2>2, <2>3, <2>5 DEF Request
    <2>6. QED BY <2>7 DEF w
<1>4. Request("VCS", FALSE, c, SetVolume(c, op, v))
    BY <1>3 DEF SetVolume, VolumeOps, Opcodes, Request
<1>5. Request("VCS", FALSE, c, SetMuteState(c, mute))
    <2>1. MuteOp(mute) \in {"MUTE", "UNMUTE"} BY DEF MuteOp
    <2>2. Pointless(c, MuteOp(mute), 0) <=> Pointless(c, MuteOp(mute), v)
        BY <2>1 DEF Pointless
    <2>3. VcsWrite(c, MuteOp(mute), 0) = VcsWrite(c, MuteOp(mute), v)
        BY <2>1 DEF VcsWrite
    <2>4. QED BY <1>3, <2>1, <2>2, <2>3 DEF SetMuteState, Opcodes, Request
<1>6. QED BY <1>4, <1>5

\* A request for the gain or the mute state of an audio input.
LEMMA AicsRequests ==
    ASSUME NEW d \in BOOLEAN, NEW c \in States("AICS", d), "AICS" \in Kinds,
           NEW op \in GainOps, NEW v \in Int, NEW mute \in MutesOf(d)
    PROVE  /\ Request("AICS", d, c, AicsSetGain(c, op, v))
           /\ Request("AICS", d, c, AicsSetMute(c, mute))
<1>1. c \in [level : -128 .. 127, mute : MutesOf(d),
             auto : IF d /\ "AICS" = "AICS" THEN BOOLEAN ELSE {FALSE}, cnt : 0 .. MaxCounter]
    BY DEF States, LevelsOf
<1>2. ASSUME NEW o \in {"SET", "MUTE", "UNMUTE"}, NEW g \in -128 .. 127,
             o = "SET" => c.level # g /\ MinGain <= g /\ g <= MaxGain,
             ~Hush("AICS", d, c) /\ o = "MUTE" => c.mute # "MUTED",
             ~Hush("AICS", d, c) /\ o = "UNMUTE" => c.mute # "NOT_MUTED"
      PROVE  Request("AICS", d, c, AicsWrite(c, o, g))
    <2> DEFINE w == AicsWrite(c, o, g)
    <2>1. w.op = o /\ w.cnt = c.cnt /\ w.level = IF o = "SET" THEN g ELSE 0
        BY DEF AicsWrite
    <2>2. w \in Writes("AICS")
        BY <1>1 DEF AicsWrite, Writes, Ops, LevelsOf
    <2>3. w # NoWrite BY <2>1 DEF NoWrite
    <2> HIDE DEF w
    <2>4. ASSUME ~Hush("AICS", d, c) PROVE Effective("AICS", c, w)
        <3>1. Asked(c, w).level # c.level \/ Asked(c, w).mute # c.mute
            BY <1>1, <1>2, <2>1, <2>4 DEF Asked
        <3>2. w.op = "SET" => w.level \in MinGain .. MaxGain
            BY <1>2, <2>1, SetSyncAssumption
        <3>3. QED BY <2>1, <3>1, <3>2 DEF Effective
    <2>5. Request("AICS", d, c, w) BY <2>2, <2>3, <2>4 DEF Request
    <2>6. QED BY <2>5 DEF w
<1>3. Request("AICS", d, c, AicsSetGain(c, op, v))
    <2> DEFINE g == NewGain(c, op, v)
    <2>1. g \in Int
        <3>1. c.level \in Int /\ Unit \in Int BY <1>1, SetSyncAssumption
        <3>2. c.level + Unit \in Int /\ c.level - Unit \in Int BY <3>1
        <3>3. QED BY <3>1, <3>2 DEF NewGain, Lower, Higher
    <2> HIDE DEF g
    <2>2. CASE MinGain <= g /\ g <= MaxGain /\ c.level # g
        <3>1. g \in -128 .. 127 BY <2>1, <2>2, SetSyncAssumption
        <3>2. AicsSetGain(c, op, v) = AicsWrite(c, "SET", g)
            BY <2>2 DEF AicsSetGain, g
        <3>3. QED BY <1>2, <2>2, <3>1, <3>2
    <2>3. CASE ~(MinGain <= g /\ g <= MaxGain /\ c.level # g)
        BY <2>3 DEF AicsSetGain, g, Request
    <2>4. QED BY <2>2, <2>3
<1>4. Request("AICS", d, c, AicsSetMute(c, mute))
    <2>1. CASE c.mute = mute BY <2>1 DEF AicsSetMute, Request
    <2>2. CASE c.mute # mute
        <3>1. c.mute \in MutesOf(d) BY <1>1
        <3>2. /\ MuteOp(mute) \in {"SET", "MUTE", "UNMUTE"} /\ MuteOp(mute) # "SET"
              /\ ~Hush("AICS", d, c) /\ MuteOp(mute) = "MUTE" => c.mute # "MUTED"
              /\ ~Hush("AICS", d, c) /\ MuteOp(mute) = "UNMUTE" => c.mute # "NOT_MUTED"
            BY <2>2, <3>1 DEF MuteOp, Hush, MutesOf, Mutes, HostMutes
        <3>3. 0 \in -128 .. 127 OBVIOUS
        <3>4. QED BY <1>2, <2>2, <3>2, <3>3 DEF AicsSetMute
    <2>3. QED BY <2>1, <2>2
<1>5. QED BY <1>3, <1>4

\* A write of the microphone's mute state.
LEMMA MicsRequests ==
    ASSUME NEW d, NEW c, NEW mute \in Mutes
    PROVE  Request("MICS", d, c, MicsSetMute(c, mute))
<1>1. MicsWrite(mute).op \in {"MUTE", "UNMUTE", "DISABLE"} BY DEF MuteOp, MicsWrite
<1>2. MicsWrite(mute) \in Writes("MICS")
    BY SetSyncAssumption DEF MicsWrite, MuteOp, Writes, Ops, LevelsOf
<1>3. MicsWrite(mute) # NoWrite BY <1>1 DEF NoWrite
<1>4. QED BY <1>2, <1>3 DEF Request, MicsSetMute, Hush

\* The first element of a queue is taken from it.
LEMMA PoppedQueue ==
    ASSUME NEW S, NEW q \in Seq(S), q # << >>
    PROVE  /\ Head(q) \in S /\ Tail(q) \in Seq(S)
           /\ Tail(q) = << >> => Head(q) = q[Len(q)]
           /\ Tail(q) # << >> => Tail(q)[Len(Tail(q))] = q[Len(q)]
<1>1. Head(q) \in S /\ Tail(q) \in Seq(S) OBVIOUS
<1>2. Len(Tail(q)) = Len(q) - 1 /\ Len(q) \in Nat /\ Len(q) > 0 /\ Head(q) = q[1]
    OBVIOUS
<1>3. Tail(q) = << >> => Head(q) = q[Len(q)]
    <2>1. Tail(q) = << >> => Len(Tail(q)) = 0 BY <1>1, EmptySeq, Zenon
    <2>2. QED BY <1>2, <2>1
<1>4. Tail(q) # << >> => Tail(q)[Len(Tail(q))] = q[Len(q)]
    <2>1. Tail(q) # << >> => Len(Tail(q)) > 0 BY <1>1
    <2>2. \A i \in 1 .. Len(q) - 1 : Tail(q)[i] = q[i + 1] OBVIOUS
    <2>3. QED BY <1>2, <2>1, <2>2
<1>5. QED BY <1>1, <1>3, <1>4

\* A write joins the queue of a member.
LEMMA SendLine ==
    ASSUME NEW k, NEW d, NEW sv, NEW cp, NEW wt \in BOOLEAN, NEW S, NEW o \in Seq(S), NEW n,
           LineOk(k, d, sv, cp, wt, o, n), NEW w \in S,
           ~Hush(k, d, cp) => Effective(k, cp, w)
    PROVE  LineOk(k, d, sv, cp, TRUE, Append(o, w), n)
<1>1. /\ Append(o, w) # << >> /\ Append(o, w)[Len(Append(o, w))] = w
    OBVIOUS
<1>2. QED BY <1>1 DEF LineOk

\* The requests req, of which each member with a link gets one at most, reach
\* the queues, those of "failed" excepted.  The lines are those of copies c
\* and flags wt.
LEMMA SendStep ==
    ASSUME Types, NEW c \in [Members -> States(kind, modes)], NEW wt \in [Members -> BOOLEAN],
           NEW nn, NEW req, NEW failed,
           \A m \in Members : IF m \in up THEN LineOk(kind, modes, srv[m], c[m], wt[m], out[m], nn[m])
                              ELSE ~wt[m] /\ out[m] = << >> /\ nn[m] = << >>,
           \A m \in Members : req[m] = NoWrite \/ (m \in up /\ Request(kind, modes, c[m], req[m])),
           Send(req, failed, wt)
    PROVE  /\ out' \in [Members -> Seq(Writes(kind))]
           /\ waiting' \in [Members -> BOOLEAN]
           /\ \A m \in Members :
                IF m \in up THEN LineOk(kind, modes, srv[m], c[m], waiting'[m], out'[m], nn[m])
                ELSE ~waiting'[m] /\ out'[m] = << >> /\ nn[m] = << >>
<1>1. /\ out' = [m \in Members |-> IF req[m] = NoWrite \/ m \in failed THEN out[m]
                                   ELSE Append(out[m], req[m])]
      /\ waiting' = [m \in Members |-> wt[m] \/ (req[m] # NoWrite /\ m \notin failed)]
    BY DEF Send
<1>2. out \in [Members -> Seq(Writes(kind))] BY DEF Types
<1>3. \A m \in Members : req[m] # NoWrite =>
         /\ m \in up /\ req[m] \in Writes(kind)
         /\ ~Hush(kind, modes, c[m]) => Effective(kind, c[m], req[m])
    BY DEF Request
<1>4. out' \in [Members -> Seq(Writes(kind))]
    BY <1>1, <1>2, <1>3
<1>5. waiting' \in [Members -> BOOLEAN] BY <1>1
<1>6. ASSUME NEW m \in Members
      PROVE  IF m \in up THEN LineOk(kind, modes, srv[m], c[m], waiting'[m], out'[m], nn[m])
             ELSE ~waiting'[m] /\ out'[m] = << >> /\ nn[m] = << >>
    <2>1. CASE req[m] = NoWrite \/ m \in failed
        <3>1. out'[m] = out[m] /\ waiting'[m] = wt[m]
            <4>1. waiting'[m] = (wt[m] \/ FALSE) BY <1>1, <2>1
            <4>2. wt[m] \in BOOLEAN OBVIOUS
            <4>3. QED BY <1>1, <2>1, <4>1, <4>2
        <3>2. QED BY <3>1
    <2>2. CASE req[m] # NoWrite /\ m \notin failed
        <3>1. out'[m] = Append(out[m], req[m]) /\ waiting'[m] = TRUE
            BY <1>1, <2>2
        <3>2. m \in up /\ LineOk(kind, modes, srv[m], c[m], wt[m], out[m], nn[m])
            BY <1>3, <2>2
        <3>3. wt[m] \in BOOLEAN /\ out[m] \in Seq(Writes(kind)) BY <1>2
        <3>4. LineOk(kind, modes, srv[m], c[m], TRUE, Append(out[m], req[m]), nn[m])
            BY <1>3, <2>2, <3>2, <3>3, SendLine
        <3>5. QED BY <3>1, <3>2, <3>4
    <2>3. QED BY <2>1, <2>2
<1>7. QED BY <1>4, <1>5, <1>6

\* What a step uses of the bounds.
LEMMA Spent ==
    ASSUME used \in UsedType, NEW n \in 0 .. 1, NEW failed, Spend(n, failed)
    PROVE  used' \in UsedType
<1>1. /\ used.changes \in 0 .. MaxChanges /\ used.losses \in 0 .. MaxFaults
      /\ used.refused \in 0 .. MaxFaults
    BY DEF UsedType
<1>2. MaxChanges \in Nat /\ MaxFaults \in Nat BY SetSyncAssumption
<1>3. used.changes + n \in 0 .. MaxChanges BY <1>1, <1>2 DEF Spend
<1>4. failed # {} => used.refused + 1 \in 0 .. MaxFaults BY <1>1, <1>2 DEF Spend, MayFail
<1>5. used' = [used EXCEPT !.changes = used.changes + n,
                          !.refused = IF failed = {} THEN used.refused ELSE used.refused + 1]
    BY DEF Spend
<1>6. QED BY <1>1, <1>3, <1>4, <1>5 DEF UsedType

\* A command of the host.
LEMMA HostStep ==
    ASSUME SyncInv, NEW req, \A m \in Members : Request(kind, modes, copy[m], req[m]),
           ForEachDevice(req)
    PROVE  SyncInv'
<1> DEFINE r == [m \in Members |-> IF m \in up THEN req[m] ELSE NoWrite]
<1>1. /\ Types /\ copy \in [Members -> States(kind, modes)] /\ waiting \in [Members -> BOOLEAN]
      /\ \A m \in Members :
           IF m \in up THEN LineOk(kind, modes, srv[m], copy[m], waiting[m], out[m], notes[m])
           ELSE ~waiting[m] /\ out[m] = << >> /\ notes[m] = << >>
    BY DEF SyncInv, Types, Lines
<1>2. PICK failed : Send(r, failed, waiting) /\ Spend(1, failed)
    BY DEF ForEachDevice
<1>9. UNCHANGED <<kind, modes, srv, copy, notes, up, loose>>
    BY DEF ForEachDevice
<1>3. \A m \in Members : r[m] = NoWrite \/ (m \in up /\ Request(kind, modes, copy[m], r[m]))
    OBVIOUS
<1> HIDE DEF r
<1>4. /\ out' \in [Members -> Seq(Writes(kind))]
      /\ waiting' \in [Members -> BOOLEAN]
      /\ \A m \in Members :
           IF m \in up THEN LineOk(kind, modes, srv[m], copy[m], waiting'[m], out'[m], notes[m])
           ELSE ~waiting'[m] /\ out'[m] = << >> /\ notes[m] = << >>
    BY <1>1, <1>2, <1>3, SendStep
<1>5. used' \in UsedType BY <1>1, <1>2, Spent DEF Types
<1>6. Types' BY <1>1, <1>4, <1>5, <1>9 DEF Types
<1>7. Lines' BY <1>4, <1>9 DEF Lines
<1>8. QED BY <1>6, <1>7 DEF SyncInv

\* The commands of the host for each service.
LEMMA CommandStep ==
    ASSUME SyncInv,
           \/ \E op \in VolumeOps, v \in Volumes \union {0} : VcsSetVol(op, v)
           \/ \E op \in GainOps, v \in Gains \union {0} : MicsAicsSetGain(op, v)
           \/ \E mute \in HostMutes : VcsSetMute(mute) \/ MicsMute(mute) \/ MicsAicsMute(mute)
    PROVE  SyncInv'
<1>1. /\ kind \in Kinds /\ modes \in BOOLEAN /\ (modes => kind # "VCS")
      /\ copy \in [Members -> States(kind, modes)]
    BY DEF SyncInv, Types
<1>8. HostMutes \subseteq MutesOf(modes) /\ HostMutes \subseteq Mutes
    BY DEF HostMutes, MutesOf, Mutes
<1>2. ASSUME NEW op \in VolumeOps, NEW v \in Volumes \union {0}, VcsSetVol(op, v)
      PROVE  SyncInv'
    <2>1. kind = "VCS" /\ modes = FALSE BY <1>1, <1>2 DEF VcsSetVol
    <2>2. v \in LevelsOf("VCS") BY <1>1, <2>1, Ranges
    <2> DEFINE req == [m \in Members |-> SetVolume(copy[m], op, v)]
    <2>3. \A m \in Members : Request(kind, modes, copy[m], req[m])
        <3>1. "NOT_MUTED" \in HostMutes BY DEF HostMutes
        <3>2. QED BY <1>1, <2>1, <2>2, <3>1, VcsRequests
    <2>4. ForEachDevice(req) BY <1>2 DEF VcsSetVol
    <2> HIDE DEF req
    <2>5. QED BY <2>3, <2>4, HostStep
<1>3. ASSUME NEW mute \in HostMutes, VcsSetMute(mute) PROVE SyncInv'
    <2>1. kind = "VCS" /\ modes = FALSE BY <1>1, <1>3 DEF VcsSetMute
    <2>2. 0 \in LevelsOf("VCS") /\ "UP" \in VolumeOps BY <1>1, <2>1, Ranges DEF VolumeOps
    <2> DEFINE req == [m \in Members |-> SetMuteState(copy[m], mute)]
    <2>3. \A m \in Members : Request(kind, modes, copy[m], req[m])
        BY <1>1, <2>1, <2>2, VcsRequests
    <2>4. ForEachDevice(req) BY <1>3 DEF VcsSetMute
    <2> HIDE DEF req
    <2>5. QED BY <2>3, <2>4, HostStep
<1>4. ASSUME NEW mute \in HostMutes, MicsMute(mute) PROVE SyncInv'
    <2>1. kind = "MICS" BY <1>4 DEF MicsMute
    <2> DEFINE req == [m \in Members |-> MicsSetMute(copy[m], mute)]
    <2>2. \A m \in Members : Request(kind, modes, copy[m], req[m])
        BY <1>8, <2>1, MicsRequests
    <2>3. ForEachDevice(req) BY <1>4 DEF MicsMute
    <2> HIDE DEF req
    <2>4. QED BY <2>2, <2>3, HostStep
<1>5. ASSUME NEW mute \in HostMutes, MicsAicsMute(mute) PROVE SyncInv'
    <2>1. kind = "AICS" BY <1>5 DEF MicsAicsMute
    <2>4. "UP" \in GainOps BY DEF GainOps
    <2>5. 0 \in Int OBVIOUS
    <2> DEFINE req == [m \in Members |-> AicsSetMute(copy[m], mute)]
    <2>2. \A m \in Members : Request(kind, modes, copy[m], req[m])
        BY <1>1, <1>8, <2>1, <2>4, <2>5, AicsRequests
    <2>3. ForEachDevice(req) BY <1>5 DEF MicsAicsMute
    <2> HIDE DEF req
    <2>6. QED BY <2>2, <2>3, HostStep
<1>6. ASSUME NEW op \in GainOps, NEW v \in Gains \union {0}, MicsAicsSetGain(op, v)
      PROVE  SyncInv'
    <2>1. kind = "AICS" BY <1>6 DEF MicsAicsSetGain
    <2>2. v \in Int BY SetSyncAssumption
    <2>6. "NOT_MUTED" \in MutesOf(modes) BY DEF MutesOf, Mutes, HostMutes
    <2> DEFINE req == [m \in Members |-> AicsSetGain(copy[m], op, v)]
    <2>3. \A m \in Members : Request(kind, modes, copy[m], req[m])
        BY <1>1, <2>1, <2>2, <2>6, AicsRequests
    <2>4. ForEachDevice(req) BY <1>6 DEF MicsAicsSetGain
    <2> HIDE DEF req
    <2>5. QED BY <2>3, <2>4, HostStep
<1>7. QED BY <1>2, <1>3, <1>4, <1>5, <1>6

\* What the synchronisation asks of a member with copy c is a request.
LEMMA SyncRequests ==
    ASSUME kind \in Kinds, modes \in BOOLEAN, modes => kind # "VCS",
           NEW c \in States(kind, modes), NEW wait \in BOOLEAN, NEW s \in States(kind, modes)
    PROVE  /\ kind = "VCS" => Request(kind, modes, c, SyncVolumeState(c, wait, s))
           /\ kind = "MICS" => Request(kind, modes, c, SyncMicsMuteState(c, wait, s))
           /\ kind = "AICS" => Request(kind, modes, c, SyncAicsInputState(c, wait, s))
<1>1. s.level \in LevelsOf(kind) /\ s.mute \in MutesOf(modes) BY DEF States
<1>2. Request(kind, modes, c, NoWrite) BY DEF Request
<1>3. CASE kind = "VCS"
    <2>1. "SET" \in VolumeOps /\ modes = FALSE /\ s.mute \in HostMutes
        BY <1>1, <1>3 DEF VolumeOps, MutesOf
    <2>2. Request(kind, modes, c, SetVolume(c, "SET", s.level)) /\ Request(kind, modes, c, SetMuteState(c, s.mute))
        BY <1>1, <1>3, <2>1, VcsRequests
    <2>3. QED BY <1>2, <1>3, <2>2 DEF SyncVolumeState
<1>4. CASE kind = "MICS"
    <2>3. s.mute \in Mutes BY <1>1 DEF MutesOf, Mutes, HostMutes
    <2>1. Request(kind, modes, c, MicsSetMute(c, s.mute)) BY <1>4, <2>3, MicsRequests
    <2>2. QED BY <1>2, <1>4, <2>1 DEF SyncMicsMuteState
<1>5. CASE kind = "AICS"
    <2>1. "UP" \in GainOps /\ s.level \in Int
        BY <1>1, <1>5 DEF GainOps, LevelsOf
    <2>2. Request(kind, modes, c, AicsSetGain(c, "UP", s.level)) /\ Request(kind, modes, c, AicsSetMute(c, s.mute))
        BY <1>1, <1>5, <2>1, AicsRequests
    <2>3. QED BY <1>2, <1>5, <2>2 DEF SyncAicsInputState
<1>6. QED BY <1>3, <1>4, <1>5

\* A notification is handled.
LEMMA HandledStep ==
    ASSUME SyncInv, NEW m \in Members, NEW req,
           \A o \in Members : Request(kind, modes, copy[o], req[o]), Handled(m, req)
    PROVE  SyncInv'
<1>1. /\ Types /\ Lines /\ notes[m] # << >> /\ notes[m] \in Seq(States(kind, modes))
      /\ notes \in [Members -> Seq(States(kind, modes))] /\ m \in up
      /\ copy \in [Members -> States(kind, modes)] /\ waiting \in [Members -> BOOLEAN]
    BY DEF SyncInv, Types, Lines, Handled
<1> DEFINE c  == [copy EXCEPT ![m] = Head(notes[m])]
           wt == [waiting EXCEPT ![m] = FALSE]
           nn == [notes EXCEPT ![m] = Tail(notes[m])]
           r  == [o \in Members |-> IF o \in up \ {m} THEN req[o] ELSE NoWrite]
<1>2. /\ copy' = c /\ notes' = nn /\ UNCHANGED <<kind, modes, srv, up>>
    BY DEF Handled
<1>11. PICK failed : Send(r, failed, wt) /\ Spend(0, failed) /\ loose' = (failed # {})
    BY DEF Handled
<1>12. used' \in UsedType /\ loose' \in BOOLEAN BY <1>1, <1>11, Spent DEF Types
<1>3. /\ Head(notes[m]) \in States(kind, modes) /\ Tail(notes[m]) \in Seq(States(kind, modes))
      /\ Tail(notes[m]) = << >> => Head(notes[m]) = notes[m][Len(notes[m])]
      /\ Tail(notes[m]) # << >> =>
            Tail(notes[m])[Len(Tail(notes[m]))] = notes[m][Len(notes[m])]
    BY <1>1, PoppedQueue
<1>4. /\ c \in [Members -> States(kind, modes)] /\ wt \in [Members -> BOOLEAN]
      /\ nn \in [Members -> Seq(States(kind, modes))]
    BY <1>1, <1>3
<1>5. ASSUME NEW o \in Members
      PROVE  IF o \in up THEN LineOk(kind, modes, srv[o], c[o], wt[o], out[o], nn[o])
             ELSE ~wt[o] /\ out[o] = << >> /\ nn[o] = << >>
    <2>1. CASE o = m
        <3>1. c[o] = Head(notes[m]) /\ wt[o] = FALSE /\ nn[o] = Tail(notes[m])
            BY <1>1, <2>1
        <3>2. notes[m][Len(notes[m])] = srv[m]
            BY <1>1 DEF Lines, LineOk
        <3> HIDE DEF c, wt, nn
        <3>3. QED BY <1>1, <1>3, <2>1, <3>1, <3>2 DEF LineOk
    <2>2. CASE o # m
        <3>1. c[o] = copy[o] /\ wt[o] = waiting[o] /\ nn[o] = notes[o]
            BY <1>1, <2>2
        <3> HIDE DEF c, wt, nn
        <3>2. QED BY <1>1, <3>1 DEF Lines
    <2>3. QED BY <2>1, <2>2
<1>6. \A o \in Members : r[o] = NoWrite \/ (o \in up /\ Request(kind, modes, c[o], r[o]))
    <2>1. \A o \in Members : o # m => c[o] = copy[o] BY <1>1
    <2> HIDE DEF c
    <2>2. QED BY <2>1
<1> HIDE DEF c, wt, nn, r
<1>7. /\ out' \in [Members -> Seq(Writes(kind))]
      /\ waiting' \in [Members -> BOOLEAN]
      /\ \A o \in Members :
           IF o \in up THEN LineOk(kind, modes, srv[o], c[o], waiting'[o], out'[o], nn[o])
           ELSE ~waiting'[o] /\ out'[o] = << >> /\ nn[o] = << >>
    BY <1>1, <1>2, <1>4, <1>5, <1>6, <1>11, SendStep
<1>8. Types' BY <1>1, <1>2, <1>4, <1>7, <1>12 DEF Types
<1>9. Lines' BY <1>2, <1>7 DEF Lines
<1>10. QED BY <1>8, <1>9 DEF SyncInv

\* The notification handlers of the three services.
LEMMA NotifiedStep ==
    ASSUME SyncInv, NEW m \in Members, Notified(m)
    PROVE  SyncInv'
<1>1. /\ kind \in Kinds /\ modes \in BOOLEAN /\ (modes => kind # "VCS")
      /\ copy \in [Members -> States(kind, modes)]
      /\ waiting \in [Members -> BOOLEAN] /\ notes[m] \in Seq(States(kind, modes))
    BY DEF SyncInv, Types
<1>2. notes[m] # << >>
    BY DEF Notified, VcsNotified, MicsNotified, AicsNotified, Handled
<1>3. Head(notes[m]) \in States(kind, modes) BY <1>1, <1>2
<1>4. CASE VcsNotified(m)
    <2> DEFINE req == [o \in Members |-> SyncVolumeState(copy[o], waiting[o], Head(notes[m]))]
    <2>1. kind = "VCS" /\ Handled(m, req) BY <1>4 DEF VcsNotified
    <2>2. \A o \in Members : Request(kind, modes, copy[o], req[o])
        BY <1>1, <1>3, <2>1, SyncRequests
    <2> HIDE DEF req
    <2>3. QED BY <2>1, <2>2, HandledStep
<1>5. CASE MicsNotified(m)
    <2> DEFINE req == [o \in Members |-> SyncMicsMuteState(copy[o], waiting[o], Head(notes[m]))]
    <2>1. kind = "MICS" /\ Handled(m, req) BY <1>5 DEF MicsNotified
    <2>2. \A o \in Members : Request(kind, modes, copy[o], req[o])
        BY <1>1, <1>3, <2>1, SyncRequests
    <2> HIDE DEF req
    <2>3. QED BY <2>1, <2>2, HandledStep
<1>6. CASE AicsNotified(m)
    <2> DEFINE req == [o \in Members |-> SyncAicsInputState(copy[o], waiting[o], Head(notes[m]))]
    <2>1. kind = "AICS" /\ Handled(m, req) BY <1>6 DEF AicsNotified
    <2>2. \A o \in Members : Request(kind, modes, copy[o], req[o])
        BY <1>1, <1>3, <2>1, SyncRequests
    <2> HIDE DEF req
    <2>3. QED BY <2>1, <2>2, HandledStep
<1>7. QED BY <1>4, <1>5, <1>6 DEF Notified

\* A state that a write asks for, and its change counter.
LEMMA AskedStates ==
    ASSUME kind \in Kinds, NEW s \in States(kind, modes)
    PROVE  /\ Counted(s) \in States(kind, modes)
           /\ \A w \in Writes(kind) : Asked(s, w) \in States(kind, modes)
<1>1. MaxCounter \in Nat /\ Step \in 1 .. 255 BY SetSyncAssumption
<1>2. Counted(s) \in States(kind, modes)
    <2>1. s \in [level : LevelsOf(kind), mute : MutesOf(modes),
                  auto : IF modes /\ kind = "AICS" THEN BOOLEAN ELSE {FALSE},
                  cnt : 0 .. MaxCounter] BY DEF States
    <2>2. (IF s.cnt = MaxCounter THEN 0 ELSE s.cnt + 1) \in 0 .. MaxCounter BY <1>1, <2>1
    <2>3. QED BY <2>1, <2>2 DEF Counted, States
<1>3. ASSUME NEW w \in Writes(kind) PROVE Asked(s, w) \in States(kind, modes)
    <2>1. s \in [level : LevelsOf(kind), mute : MutesOf(modes),
                  auto : IF modes /\ kind = "AICS" THEN BOOLEAN ELSE {FALSE},
                  cnt : 0 .. MaxCounter] BY DEF States
    <2>2. w.level \in LevelsOf(kind) /\ w.op \in Ops(kind) BY DEF Writes
    <2> DEFINE v == IF w.op \in {"DOWN", "UNMUTE_DOWN"} THEN Higher(s.level - Step, 0)
                    ELSE IF w.op \in {"UP", "UNMUTE_UP"} THEN Lower(s.level + Step, MAX_VOLUME)
                    ELSE IF w.op = "SET" THEN w.level ELSE s.level
               u == IF w.op \in {"UNMUTE_DOWN", "UNMUTE_UP", "UNMUTE"} THEN "NOT_MUTED"
                    ELSE IF w.op = "MUTE" THEN "MUTED" ELSE s.mute
    <2>3. v \in LevelsOf(kind)
        <3>1. CASE kind = "VCS"
            <4>1. s.level \in 0 .. 255 /\ w.level \in 0 .. 255
                BY <2>1, <2>2, <3>1 DEF LevelsOf
            <4>6. \A a \in 0 .. 255, b \in 1 .. 255 :
                     Higher(a - b, 0) \in 0 .. 255 /\ Lower(a + b, MAX_VOLUME) \in 0 .. 255
                BY DEF Higher, Lower, MAX_VOLUME
            <4>2. Higher(s.level - Step, 0) \in 0 .. 255 BY <1>1, <4>1, <4>6
            <4>3. Lower(s.level + Step, MAX_VOLUME) \in 0 .. 255 BY <1>1, <4>1, <4>6
            <4>4. v \in 0 .. 255 BY <4>1, <4>2, <4>3
            <4> HIDE DEF v
            <4>5. QED BY <3>1, <4>4 DEF LevelsOf
        <3>2. CASE kind # "VCS" BY <2>1, <2>2, <3>2 DEF Ops
        <3>3. QED BY <3>1, <3>2
    <2>4. u \in MutesOf(modes) BY <2>1 DEF MutesOf, Mutes, HostMutes
    <2>5. Asked(s, w) = [s EXCEPT !.level = v, !.mute = u] BY DEF Asked
    <2> HIDE DEF v, u
    <2>6. QED BY <2>1, <2>3, <2>4, <2>5 DEF States
<1>4. QED BY <1>2, <1>3

\* A state that has just been notified ends the line of its member.
LEMMA NotedLine ==
    ASSUME NEW k, NEW d, NEW cp, NEW wt, NEW o, NEW S, NEW n \in Seq(S), NEW t \in S
    PROVE  LineOk(k, d, t, cp, wt, o, Append(n, t))
<1>1. Append(n, t) # << >> /\ Append(n, t)[Len(Append(n, t))] = t OBVIOUS
<1>2. QED BY <1>1 DEF LineOk

\* A member takes a write.
LEMMA ServeStep ==
    ASSUME SyncInv, NEW m \in Members, Serve(m)
    PROVE  SyncInv'
<1>1. /\ Types /\ Lines /\ kind \in Kinds /\ out[m] # << >>
      /\ out \in [Members -> Seq(Writes(kind))] /\ srv \in [Members -> States(kind, modes)]
      /\ notes \in [Members -> Seq(States(kind, modes))]
      /\ out' = [out EXCEPT ![m] = Tail(out[m])]
      /\ UNCHANGED <<kind, modes, copy, waiting, up, loose, used>>
    BY DEF SyncInv, Types, Serve
<1>2. m \in up /\ LineOk(kind, modes, srv[m], copy[m], waiting[m], out[m], notes[m])
    BY <1>1 DEF Lines
<1>3. /\ Head(out[m]) \in Writes(kind) /\ Tail(out[m]) \in Seq(Writes(kind))
      /\ Tail(out[m]) = << >> => Head(out[m]) = out[m][Len(out[m])]
      /\ Tail(out[m]) # << >> => Tail(out[m])[Len(Tail(out[m]))] = out[m][Len(out[m])]
    BY <1>1, PoppedQueue
<1>4. out' \in [Members -> Seq(Writes(kind))] BY <1>1, <1>3
<1>5. out'[m] = Tail(out[m]) /\ \A o \in Members \ {m} : out'[o] = out[o]
    BY <1>1
<1> DEFINE t == Asked(srv[m], Head(out[m]))
<1>6. CASE Accepts(srv[m], Head(out[m])) /\ t # srv[m]
    <2> DEFINE u == Counted(t)
    <2>1. u \in States(kind, modes)
        <3>1. t \in States(kind, modes) BY <1>1, <1>3, AskedStates
        <3> HIDE DEF t
        <3>2. QED BY <1>1, <3>1, AskedStates
    <2>2. srv' = [srv EXCEPT ![m] = u] /\ notes' = [notes EXCEPT ![m] = Append(notes[m], u)]
        BY <1>6 DEF Serve
    <2> HIDE DEF u
    <2>3. srv' \in [Members -> States(kind, modes)] BY <1>1, <2>1, <2>2
    <2>4. Append(notes[m], u) \in Seq(States(kind, modes)) BY <1>1, <2>1
    <2>5. notes' \in [Members -> Seq(States(kind, modes))] BY <1>1, <2>2, <2>4
    <2>6. Types' BY <1>1, <1>4, <2>3, <2>5 DEF Types
    <2>7. LineOk(kind, modes, u, copy[m], waiting[m], out'[m], Append(notes[m], u))
        BY <1>1, <2>1, NotedLine
    <2>8. /\ srv'[m] = u /\ notes'[m] = Append(notes[m], u)
          /\ \A o \in Members \ {m} : srv'[o] = srv[o] /\ notes'[o] = notes[o]
        BY <1>1, <2>2
    <2>9. Lines' BY <1>1, <1>2, <1>5, <2>7, <2>8 DEF Lines
    <2>10. QED BY <2>6, <2>9 DEF SyncInv
<1>7. CASE ~(Accepts(srv[m], Head(out[m])) /\ t # srv[m])
    <2>1. UNCHANGED <<srv, notes>> BY <1>7 DEF Serve
    <2>2. Types' BY <1>1, <1>4, <2>1 DEF Types
    <2>3. ~Hush(kind, modes, srv[m]) => ~Effective(kind, srv[m], Head(out[m]))
        <3>1. SUFFICES ASSUME ~Hush(kind, modes, srv[m]), Effective(kind, srv[m], Head(out[m]))
              PROVE  Accepts(srv[m], Head(out[m])) /\ t # srv[m]
            BY <1>7
        <3>2. srv[m] \in States(kind, modes) BY <1>1
        <3>3. /\ srv[m].mute \in MutesOf(modes)
              /\ srv[m].auto \in IF modes /\ kind = "AICS" THEN BOOLEAN ELSE {FALSE}
              /\ Head(out[m]).op \in Ops(kind) /\ kind \in {"VCS", "MICS", "AICS"}
            BY <1>1, <1>3, <3>2, SetSyncAssumption DEF States, Writes
        <3>4. kind # "VCS" => /\ kind = "AICS" /\ srv[m].auto = FALSE
                              /\ srv[m].mute # "DISABLED" /\ Head(out[m]).op # "DISABLE"
            BY <3>1, <3>3 DEF Hush, MutesOf, Mutes, HostMutes, Ops
        <3>5. QED BY <3>1, <3>4 DEF Effective, Accepts
    <2>4. LineOk(kind, modes, srv[m], copy[m], waiting[m], Tail(out[m]), notes[m])
        BY <1>2, <1>3, <2>3 DEF LineOk
    <2>5. Lines' BY <1>1, <1>2, <1>5, <2>1, <2>4 DEF Lines
    <2>6. QED BY <2>2, <2>5 DEF SyncInv
<1>8. QED BY <1>6, <1>7

\* The user of a member changes it.
LEMMA UserStep ==
    ASSUME SyncInv, NEW m \in Members, NEW v \in UserLevels, NEW mute \in UserMutes,
           NEW auto \in UserModes, UserChange(m, v, mute, auto)
    PROVE  SyncInv'
<1> DEFINE x == [srv[m] EXCEPT !.level = v, !.mute = mute, !.auto = auto]
           t == Counted(x)
<1>1. /\ Types /\ Lines /\ kind \in Kinds /\ srv \in [Members -> States(kind, modes)]
      /\ notes \in [Members -> Seq(States(kind, modes))]
      /\ UNCHANGED <<kind, modes, copy, waiting, out, up, loose>>
      /\ Spend(1, {}) /\ srv' = [srv EXCEPT ![m] = t]
      /\ notes' = IF m \in up THEN [notes EXCEPT ![m] = Append(notes[m], t)] ELSE notes
    BY DEF SyncInv, Types, UserChange
<1>2. v \in LevelsOf(kind)
    <2>1. CASE kind = "VCS" BY <1>1, <2>1, Ranges DEF UserLevels
    <2>2. CASE kind # "VCS"
        <3>1. v \in Gains \union {0} BY <2>2 DEF UserLevels
        <3>2. QED BY <1>1, <2>2, <3>1, Ranges, SetSyncAssumption
    <2>3. QED BY <2>1, <2>2
<1>3. t \in States(kind, modes)
    <2>1. srv[m] \in [level : LevelsOf(kind), mute : MutesOf(modes),
                  auto : IF modes /\ kind = "AICS" THEN BOOLEAN ELSE {FALSE},
                  cnt : 0 .. MaxCounter]
        BY <1>1 DEF States
    <2>4. /\ mute \in MutesOf(modes)
          /\ auto \in IF modes /\ kind = "AICS" THEN BOOLEAN ELSE {FALSE}
        BY DEF UserMutes, UserModes, MutesOf
    <2>2. x \in States(kind, modes) BY <1>2, <2>1, <2>4 DEF States
    <2> HIDE DEF x
    <2>3. QED BY <1>1, <2>2, AskedStates
<1> HIDE DEF x, t
<1>4. srv' \in [Members -> States(kind, modes)] BY <1>1, <1>3
<1>5. Append(notes[m], t) \in Seq(States(kind, modes)) BY <1>1, <1>3
<1>6. notes' \in [Members -> Seq(States(kind, modes))] BY <1>1, <1>5
<1>7. used' \in UsedType BY <1>1, Spent DEF Types
<1>8. Types' BY <1>1, <1>4, <1>6, <1>7 DEF Types
<1>9. /\ srv'[m] = t /\ \A o \in Members \ {m} : srv'[o] = srv[o] /\ notes'[o] = notes[o]
      /\ IF m \in up THEN notes'[m] = Append(notes[m], t) ELSE notes'[m] = notes[m]
    BY <1>1
<1>10. LineOk(kind, modes, t, copy[m], waiting[m], out[m], Append(notes[m], t))
    BY <1>1, <1>3, NotedLine
<1>11. Lines' BY <1>1, <1>9, <1>10 DEF Lines
<1>12. QED BY <1>8, <1>11 DEF SyncInv

\* A link is lost.
LEMMA LostStep ==
    ASSUME SyncInv, NEW m \in Members, Lost(m)
    PROVE  SyncInv'
<1>1. /\ Types /\ Lines /\ m \in up /\ up' = up \ {m}
      /\ waiting' = [waiting EXCEPT ![m] = FALSE] /\ out' = [out EXCEPT ![m] = << >>]
      /\ notes' = [notes EXCEPT ![m] = << >>] /\ UNCHANGED <<kind, modes, srv, copy, loose>>
      /\ out \in [Members -> Seq(Writes(kind))] /\ waiting \in [Members -> BOOLEAN]
      /\ notes \in [Members -> Seq(States(kind, modes))]
    BY DEF SyncInv, Types, Lost
<1>2. << >> \in Seq(Writes(kind)) OBVIOUS
<1>3. << >> \in Seq(States(kind, modes)) OBVIOUS
<1>4. /\ out' \in [Members -> Seq(Writes(kind))] /\ waiting' \in [Members -> BOOLEAN]
      /\ notes' \in [Members -> Seq(States(kind, modes))]
    BY <1>1, <1>2, <1>3
<1>5. used' \in UsedType
    <2>1. /\ used.changes \in 0 .. MaxChanges /\ used.losses \in 0 .. MaxFaults
          /\ used.refused \in 0 .. MaxFaults
        BY <1>1 DEF Types, UsedType
    <2>2. MayFail /\ used' = [used EXCEPT !.losses = used.losses + 1]
        BY DEF Lost
    <2>3. MaxFaults \in Nat BY SetSyncAssumption
    <2>4. used.losses + 1 \in 0 .. MaxFaults BY <2>1, <2>2, <2>3 DEF MayFail
    <2>5. used \in UsedType BY <1>1 DEF Types
    <2>6. QED BY <2>2, <2>4, <2>5 DEF UsedType
<1>6. Types' BY <1>1, <1>4, <1>5 DEF Types
<1>7. /\ waiting'[m] = FALSE /\ out'[m] = << >> /\ notes'[m] = << >>
      /\ \A o \in Members \ {m} : waiting'[o] = waiting[o] /\ out'[o] = out[o] /\ notes'[o] = notes[o]
    BY <1>1
<1>8. Lines' BY <1>1, <1>7 DEF Lines
<1>9. QED BY <1>6, <1>8 DEF SyncInv

\* A member comes back.
LEMMA BackStep ==
    ASSUME SyncInv, NEW m \in Members, Back(m)
    PROVE  SyncInv'
<1>1. /\ Types /\ Lines /\ m \notin up /\ up' = up \union {m} /\ loose' = TRUE
      /\ copy' = [copy EXCEPT ![m] = srv[m]] /\ UNCHANGED <<kind, modes, srv, waiting, out, notes, used>>
      /\ copy \in [Members -> States(kind, modes)] /\ srv \in [Members -> States(kind, modes)]
    BY DEF SyncInv, Types, Back
<1>2. copy' \in [Members -> States(kind, modes)] BY <1>1
<1>3. Types' BY <1>1, <1>2 DEF Types
<1>4. copy'[m] = srv[m] /\ \A o \in Members \ {m} : copy'[o] = copy[o] BY <1>1
<1>5. LineOk(kind, modes, srv[m], copy'[m], waiting[m], out[m], notes[m])
    BY <1>1, <1>4 DEF Lines, LineOk
<1>6. Lines' BY <1>1, <1>4, <1>5 DEF Lines
<1>7. QED BY <1>3, <1>6 DEF SyncInv

\* SyncInv holds at the start and is kept by every step.
LEMMA Inductive == (Init => SyncInv) /\ (SyncInv /\ [Next]_vars => SyncInv')
<1>1. ASSUME Init PROVE SyncInv
    <2> DEFINE s == [level |-> 0, mute |-> "NOT_MUTED", auto |-> FALSE, cnt |-> FirstCounter]
    <2>1. kind \in Kinds /\ modes \in BOOLEAN /\ (modes => kind # "VCS") BY <1>1 DEF Init
    <2>2. s \in States(kind, modes)
        <3>1. 0 \in LevelsOf(kind) BY <2>1, Ranges
        <3>2. "NOT_MUTED" \in MutesOf(modes) BY DEF MutesOf, Mutes, HostMutes
        <3>3. QED BY <3>1, <3>2, SetSyncAssumption DEF States
    <2>3. /\ srv = [m \in Members |-> s] /\ copy = srv /\ waiting = [m \in Members |-> FALSE]
          /\ out = [m \in Members |-> << >>] /\ notes = [m \in Members |-> << >>]
          /\ up = Members /\ loose = FALSE /\ used = [changes |-> 0, losses |-> 0, refused |-> 0]
        BY <1>1 DEF Init
    <2> HIDE DEF s
    <2>4. << >> \in Seq(Writes(kind)) OBVIOUS
    <2>5. << >> \in Seq(States(kind, modes)) OBVIOUS
    <2>6. /\ srv \in [Members -> States(kind, modes)] /\ copy \in [Members -> States(kind, modes)]
          /\ waiting \in [Members -> BOOLEAN]
        BY <2>2, <2>3
    <2>7. out \in [Members -> Seq(Writes(kind))] BY <2>3, <2>4
    <2>8. notes \in [Members -> Seq(States(kind, modes))] BY <2>3, <2>5
    <2>9. used \in UsedType
        BY <2>3, SetSyncAssumption DEF UsedType
    <2>10. up \subseteq Members /\ loose \in BOOLEAN BY <2>3
    <2>11. Types BY <2>1, <2>6, <2>7, <2>8, <2>9, <2>10 DEF Types
    <2>12. \A m \in Members : ~waiting[m] /\ notes[m] = << >> /\ copy[m] = srv[m] /\ m \in up
        BY <2>3
    <2>13. Lines BY <2>12 DEF Lines, LineOk
    <2>14. QED BY <2>11, <2>13 DEF SyncInv
<1>2. ASSUME SyncInv, Next PROVE SyncInv'
    <2>1. \/ \E op \in VolumeOps, v \in Volumes \union {0} : VcsSetVol(op, v)
          \/ \E op \in GainOps, v \in Gains \union {0} : MicsAicsSetGain(op, v)
          \/ \E mute \in HostMutes : VcsSetMute(mute) \/ MicsMute(mute) \/ MicsAicsMute(mute)
          \/ \E m \in Members :
              \/ Serve(m)
              \/ \E v \in UserLevels, mute \in UserMutes, auto \in UserModes : UserChange(m, v, mute, auto)
              \/ Notified(m) \/ Lost(m) \/ Back(m)
        BY <1>2 DEF Next
    <2>2. QED BY <1>2, <2>1, CommandStep, ServeStep, UserStep, NotifiedStep, LostStep, BackStep
<1>3. ASSUME SyncInv, UNCHANGED vars PROVE SyncInv'
    BY <1>3 DEF vars, SyncInv, Types, Lines
<1>4. QED BY <1>1, <1>2, <1>3

\* What the invariant says of every state.
LEMMA Consequences == SyncInv => TypeOK /\ WaitingAnswered
<1> SUFFICES ASSUME SyncInv PROVE TypeOK /\ WaitingAnswered
    OBVIOUS
<1>1. Types /\ Lines /\ kind \in Kinds /\ modes \in BOOLEAN BY DEF SyncInv, Types
<1>2. States(kind, modes) \subseteq State /\ Writes(kind) \subseteq Write BY <1>1, Ranges
<1>3. srv \in [Members -> State] /\ copy \in [Members -> State] BY <1>1, <1>2 DEF Types
<1>4. \A m \in Members : out[m] \in Seq(Write) /\ notes[m] \in Seq(State)
    <2> SUFFICES ASSUME NEW m \in Members PROVE out[m] \in Seq(Write) /\ notes[m] \in Seq(State)
        OBVIOUS
    <2>1. out[m] \in Seq(Writes(kind)) /\ notes[m] \in Seq(States(kind, modes)) BY <1>1 DEF Types
    <2>2. QED BY <1>2, <2>1
<1>5. TypeOK BY <1>1, <1>3, <1>4 DEF TypeOK, Types, Lines, UsedType
<1>6. WaitingAnswered BY <1>1 DEF WaitingAnswered, Lines, LineOk, Silent, Hush
<1>7. QED BY <1>5, <1>6

(* The types hold in every state: levels, gains and counters stay in their  *)
(* bytes for every volume step, gain unit and range of gains of a member.   *)
THEOREM TypeCorrect == Spec => []TypeOK
<1>1. Spec => []SyncInv BY Inductive, PTL DEF Spec
<1>2. QED BY <1>1, Consequences, PTL

(* In every state a member whose waiting flag is set has a write or a       *)
(* notification under way (the flag of sync_volume_state and                *)
(* sync_aics_input_state, lepl_cap.c): no order of commands, users'         *)
(* changes, notifications, refused writes, losses and returns leaves a      *)
(* member out of the synchronisation for good, but for microphones and      *)
(* inputs whose mute or gain mode swallows the write.                       *)
THEOREM WaitingIsAnswered == Spec => []WaitingAnswered
<1>1. Spec => []SyncInv BY Inductive, PTL DEF Spec
<1>2. QED BY <1>1, Consequences, PTL

(***************************************************************************)
(* The volume of a set implements SharedControl                            *)
(***************************************************************************)

\* Member m is about to tell something, or is being waited for.
Unsettled(m) == waiting[m] \/ notes[m] # << >>

\* The control blocks of two members hold the same volume and mute state,
\* unless one of the two is unsettled: the handler of a notification leaves
\* no other member alone that differs and is not waited for already.
InStep ==
    kind = "VCS" /\ ~loose =>
        \A a, b \in up : Setting(copy[a]) = Setting(copy[b]) \/ Unsettled(a) \/ Unsettled(b)

\* The inductive invariant of the refinement.
StepInv == SyncInv /\ InStep

\* A member that differs from the state s and is not waited for gets a write.
LEMMA SyncAsks ==
    ASSUME NEW c \in States("VCS", FALSE), NEW s \in States("VCS", FALSE),
           SyncVolumeState(c, FALSE, s) = NoWrite
    PROVE  Setting(c) = Setting(s)
<1>1. /\ c.level \in 0 .. 255 /\ c.mute \in HostMutes
      /\ s.level \in 0 .. 255 /\ s.mute \in HostMutes
    BY DEF States, LevelsOf, MutesOf
<1>2. \A op, v : VcsWrite(c, op, v).op = op BY DEF VcsWrite
<1>3. \A op \in {"MUTE", "UNMUTE", "SET"} : \A v : VcsWrite(c, op, v) # NoWrite
    BY <1>2 DEF NoWrite
<1>4. c.mute = s.mute
    <2>1. SUFFICES ASSUME c.mute # s.mute PROVE FALSE
        OBVIOUS
    <2>2. SetMuteState(c, s.mute) = NoWrite BY <2>1 DEF SyncVolumeState
    <2>3. /\ MuteOp(s.mute) \in {"MUTE", "UNMUTE", "SET"}
          /\ ~Pointless(c, MuteOp(s.mute), 0)
        BY <1>1, <2>1 DEF MuteOp, Pointless, HostMutes
    <2>4. QED BY <1>3, <2>2, <2>3 DEF SetMuteState
<1>5. c.level = s.level
    <2>1. SUFFICES ASSUME c.level # s.level PROVE FALSE
        OBVIOUS
    <2>2. SetVolume(c, "SET", s.level) = NoWrite BY <1>4, <2>1 DEF SyncVolumeState
    <2>3. ~Pointless(c, "SET", s.level) BY <2>1 DEF Pointless
    <2>4. QED BY <1>3, <2>2, <2>3 DEF SetVolume
<1>6. QED BY <1>4, <1>5 DEF Setting

\* A notification leaves the members in step, whatever they were before.
LEMMA NotifiedInStep ==
    ASSUME SyncInv, NEW m \in Members, VcsNotified(m)
    PROVE  InStep'
<1> DEFINE s == Head(notes[m])
           r == [o \in Members |-> IF o \in up \ {m}
                   THEN [x \in Members |-> SyncVolumeState(copy[x], waiting[x], s)][o]
                   ELSE NoWrite]
           w == [waiting EXCEPT ![m] = FALSE]
<1>1. /\ kind = "VCS" /\ notes[m] # << >> /\ copy' = [copy EXCEPT ![m] = s]
      /\ up' = up
    BY DEF VcsNotified, Handled
<1>7. PICK failed : Send(r, failed, w) /\ loose' = (failed # {})
    BY DEF VcsNotified, Handled
<1>8. CASE failed # {} BY <1>7, <1>8 DEF InStep
<1>9. CASE failed = {}
    <2>1. modes = FALSE BY <1>1 DEF SyncInv, Types
    <2>2. /\ copy \in [Members -> States("VCS", FALSE)] /\ waiting \in [Members -> BOOLEAN]
          /\ up \subseteq Members /\ notes[m] \in Seq(States("VCS", FALSE))
        BY <1>1, <2>1 DEF SyncInv, Types
    <2>3. s \in States("VCS", FALSE) BY <1>1, <2>2, PoppedQueue
    <2>4. waiting' = [o \in Members |-> w[o] \/ r[o] # NoWrite]
        <3> HIDE DEF s, r, w
        <3>1. waiting' = [o \in Members |-> w[o] \/ (r[o] # NoWrite /\ o \notin failed)]
            BY <1>7 DEF Send
        <3>2. ASSUME NEW o \in Members
              PROVE  (w[o] \/ (r[o] # NoWrite /\ o \notin failed)) = (w[o] \/ r[o] # NoWrite)
            BY <1>9
        <3>3. QED BY <3>1, <3>2, Zenon
    <2>5. ASSUME NEW o \in up
          PROVE  Setting(copy'[o]) = Setting(s) \/ waiting'[o]
        <3>1. CASE o = m BY <1>1, <2>2, <3>1
        <3>2. CASE o # m
            <4>1. copy'[o] = copy[o] /\ w[o] = waiting[o]
                  /\ r[o] = SyncVolumeState(copy[o], waiting[o], s)
                BY <1>1, <2>2, <3>2
            <4>2. waiting'[o] <=> (waiting[o] \/ SyncVolumeState(copy[o], waiting[o], s) # NoWrite)
                BY <2>2, <2>4, <4>1
            <4> HIDE DEF s, r, w
            <4>3. waiting[o] \in BOOLEAN /\ copy[o] \in States("VCS", FALSE) BY <2>2
            <4>4. ASSUME ~waiting'[o] PROVE Setting(copy[o]) = Setting(s)
                <5>1. waiting[o] = FALSE /\ SyncVolumeState(copy[o], waiting[o], s) = NoWrite
                    BY <4>2, <4>3, <4>4
                <5>2. SyncVolumeState(copy[o], FALSE, s) = NoWrite BY <5>1
                <5>3. QED BY <2>3, <4>3, <5>2, SyncAsks
            <4>5. QED BY <4>1, <4>4
        <3>3. QED BY <3>1, <3>2
    <2> HIDE DEF s, r, w
    <2>6. QED BY <1>1, <2>5 DEF InStep, Unsettled
<1>10. QED BY <1>8, <1>9

\* The steps that are no notification.
LEMMA InStepKept ==
    ASSUME SyncInv, InStep, NEW m \in Members,
           \/ \E v \in UserLevels, mute \in UserMutes, auto \in UserModes : UserChange(m, v, mute, auto)
           \/ Serve(m) \/ Lost(m) \/ Back(m)
    PROVE  InStep'
<1>1. notes \in [Members -> Seq(States(kind, modes))] /\ waiting \in [Members -> BOOLEAN]
      /\ up \subseteq Members
    BY DEF SyncInv, Types
<1>2. \A x : Append(notes[m], x) # << >>
    BY <1>1
<1>3. CASE Serve(m)
    <2>1. \A a \in Members : notes[a] # << >> => notes'[a] # << >>
        <3> DEFINE t == Counted(Asked(srv[m], Head(out[m])))
        <3>1. notes' = notes \/ notes' = [notes EXCEPT ![m] = Append(notes[m], t)]
            BY <1>3 DEF Serve
        <3> HIDE DEF t
        <3>2. QED BY <1>1, <1>2, <3>1
    <2>2. UNCHANGED <<kind, modes, copy, waiting, up, loose>> BY <1>3 DEF Serve
    <2>3. QED BY <1>1, <2>1, <2>2 DEF InStep, Unsettled
<1>4. CASE \E v \in UserLevels, mute \in UserMutes, auto \in UserModes : UserChange(m, v, mute, auto)
    <2>1. \A a \in Members : notes[a] # << >> => notes'[a] # << >>
        <3>0. PICK v \in UserLevels, mute \in UserMutes, auto \in UserModes :
                  UserChange(m, v, mute, auto) BY <1>4
        <3> DEFINE t == Counted([srv[m] EXCEPT !.level = v, !.mute = mute, !.auto = auto])
        <3>1. notes' = notes \/ notes' = [notes EXCEPT ![m] = Append(notes[m], t)]
            BY <3>0 DEF UserChange
        <3> HIDE DEF t
        <3>2. QED BY <1>1, <1>2, <3>1
    <2>2. UNCHANGED <<kind, modes, copy, waiting, up, loose>> BY <1>4 DEF UserChange
    <2>3. QED BY <1>1, <2>1, <2>2 DEF InStep, Unsettled
<1>5. CASE Lost(m)
    <2>1. /\ up' = up \ {m} /\ UNCHANGED <<kind, modes, copy, loose>>
          /\ waiting' = [waiting EXCEPT ![m] = FALSE] /\ notes' = [notes EXCEPT ![m] = << >>]
        BY <1>5 DEF Lost
    <2>2. \A a \in up' : a \in up /\ waiting'[a] = waiting[a] /\ notes'[a] = notes[a]
        BY <1>1, <2>1
    <2>3. QED BY <2>1, <2>2 DEF InStep, Unsettled
<1>6. CASE Back(m) BY <1>6 DEF Back, InStep
<1>7. QED BY <1>3, <1>4, <1>5, <1>6

\* A command of the host.
LEMMA HostInStep ==
    ASSUME SyncInv, InStep, NEW req, ForEachDevice(req)
    PROVE  /\ InStep'
           /\ UNCHANGED <<kind, modes, srv, up, loose>>
           /\ Quiet' => Quiet
           /\ used'.refused \in {used.refused, used.refused + 1}
<1> DEFINE r == [m \in Members |-> IF m \in up THEN req[m] ELSE NoWrite]
<1>1. UNCHANGED <<kind, modes, srv, copy, notes, up, loose>>
    BY DEF ForEachDevice
<1>8. PICK failed : Send(r, failed, waiting) /\ Spend(1, failed)
    BY DEF ForEachDevice
<1>9. used'.refused \in {used.refused, used.refused + 1}
    BY <1>8 DEF SyncInv, Types, UsedType, Spend
<1> HIDE DEF r
<1>2. /\ up \subseteq Members /\ waiting \in [Members -> BOOLEAN]
      /\ out \in [Members -> Seq(Writes(kind))]
    BY DEF SyncInv, Types
<1>3. \A m \in Members : waiting[m] => waiting'[m]
    BY <1>8 DEF Send
<1>4. \A m \in Members : out[m] # << >> => out'[m] # << >>
    <2> SUFFICES ASSUME NEW m \in Members, out[m] # << >> PROVE out'[m] # << >>
        OBVIOUS
    <2>1. Append(out[m], r[m]) # << >> BY <1>2
    <2>2. out'[m] = IF r[m] = NoWrite \/ m \in failed THEN out[m] ELSE Append(out[m], r[m])
        BY <1>8 DEF Send
    <2>3. QED BY <2>1, <2>2
<1>5. InStep' BY <1>1, <1>2, <1>3 DEF InStep, Unsettled
<1>6. Quiet' => Quiet BY <1>1, <1>2, <1>4 DEF Quiet
<1>7. QED BY <1>1, <1>5, <1>6, <1>9

\* Every command of the host is one of ForEachDevice.
LEMMA CommandsAreHost ==
    ASSUME \/ \E op \in VolumeOps, v \in Volumes \union {0} : VcsSetVol(op, v)
           \/ \E op \in GainOps, v \in Gains \union {0} : MicsAicsSetGain(op, v)
           \/ \E mute \in HostMutes : VcsSetMute(mute) \/ MicsMute(mute) \/ MicsAicsMute(mute)
    PROVE  \E req : ForEachDevice(req)
<1>1. ASSUME NEW op, NEW v, VcsSetVol(op, v) PROVE \E req : ForEachDevice(req)
    <2>1. ForEachDevice([m \in Members |-> SetVolume(copy[m], op, v)])
        BY <1>1 DEF VcsSetVol
    <2>2. QED BY <2>1, Zenon
<1>2. ASSUME NEW op, NEW v, MicsAicsSetGain(op, v) PROVE \E req : ForEachDevice(req)
    <2>1. ForEachDevice([m \in Members |-> AicsSetGain(copy[m], op, v)])
        BY <1>2 DEF MicsAicsSetGain
    <2>2. QED BY <2>1, Zenon
<1>3. ASSUME NEW mute, VcsSetMute(mute) PROVE \E req : ForEachDevice(req)
    <2>1. ForEachDevice([m \in Members |-> SetMuteState(copy[m], mute)])
        BY <1>3 DEF VcsSetMute
    <2>2. QED BY <2>1, Zenon
<1>4. ASSUME NEW mute, MicsMute(mute) PROVE \E req : ForEachDevice(req)
    <2>1. ForEachDevice([m \in Members |-> MicsSetMute(copy[m], mute)])
        BY <1>4 DEF MicsMute
    <2>2. QED BY <2>1, Zenon
<1>5. ASSUME NEW mute, MicsAicsMute(mute) PROVE \E req : ForEachDevice(req)
    <2>1. ForEachDevice([m \in Members |-> AicsSetMute(copy[m], mute)])
        BY <1>5 DEF MicsAicsMute
    <2>2. QED BY <2>1, Zenon
<1>6. QED BY <1>1, <1>2, <1>3, <1>4, <1>5, Zenon

\* The invariant of the refinement is inductive.
LEMMA StepInductive == (Init => StepInv) /\ (StepInv /\ [Next]_vars => StepInv')
<1>1. ASSUME Init PROVE StepInv
    <2>1. SyncInv BY <1>1, Inductive
    <2>2. \A a, b \in up : copy[a] = copy[b]
        <3>1. /\ copy = [m \in Members |-> [level |-> 0, mute |-> "NOT_MUTED", auto |-> FALSE,
                                           cnt |-> FirstCounter]]
              /\ up = Members
            BY <1>1 DEF Init
        <3>2. QED BY <3>1
    <2>3. InStep BY <2>2 DEF InStep, Setting
    <2>4. QED BY <2>1, <2>3 DEF StepInv
<1>2. ASSUME StepInv, Next PROVE StepInv'
    <2>1. SyncInv /\ InStep BY <1>2 DEF StepInv
    <2>2. SyncInv' BY <1>2, <2>1, Inductive
    <2>3. ASSUME NEW m \in Members, Notified(m) PROVE InStep'
        <3>1. CASE VcsNotified(m) BY <2>1, <3>1, NotifiedInStep
        <3>2. CASE kind # "VCS" /\ kind' = kind BY <3>2 DEF InStep
        <3>3. QED BY <2>3, <3>1, <3>2 DEF Notified, MicsNotified, AicsNotified, Handled
    <2>4. ASSUME NEW req, ForEachDevice(req) PROVE InStep'
        BY <2>1, <2>4, HostInStep
    <2>5. InStep'
        BY <1>2, <2>1, <2>3, <2>4, InStepKept, CommandsAreHost DEF Next
    <2>6. QED BY <2>2, <2>5 DEF StepInv
<1>3. ASSUME StepInv, UNCHANGED vars PROVE StepInv'
    <2>1. SyncInv' BY <1>3, Inductive DEF StepInv
    <2>2. InStep' BY <1>3 DEF StepInv, vars, InStep, Unsettled
    <2>3. QED BY <2>1, <2>2 DEF StepInv
<1>4. QED BY <1>1, <1>2, <1>3

\* Members that exchange nothing agree, unless one came back: the queues are
\* empty, so each copy is its server's state and no member is waited for.
LEMMA AtRest ==
    ASSUME StepInv, Quiet, ~loose, kind = "VCS"
    PROVE  \A a, b \in up : Setting(srv[a]) = Setting(srv[b])
<1> SUFFICES ASSUME NEW a \in up, NEW b \in up PROVE Setting(srv[a]) = Setting(srv[b])
    OBVIOUS
<1>1. Types /\ Lines /\ InStep BY DEF StepInv, SyncInv
<1>2. ASSUME NEW m \in up PROVE copy[m] = srv[m] /\ ~Unsettled(m)
    <2>1. m \in Members BY <1>1 DEF Types
    <2>2. LineOk(kind, modes, srv[m], copy[m], waiting[m], out[m], notes[m]) BY <1>1, <2>1 DEF Lines
    <2>3. out[m] = << >> /\ notes[m] = << >> BY DEF Quiet
    <2>4. QED BY <2>2, <2>3 DEF LineOk, Unsettled, Hush
<1>3. Setting(copy[a]) = Setting(copy[b]) BY <1>1, <1>2 DEF InStep
<1>4. QED BY <1>2, <1>3

\* The settings of the members, as the abstract control has them.
AllSettings == [level : Levels, mute : Mutes]

\* The abstract variables, as they are in a state of the invariant.
Mapped ==
    /\ [m \in Members |-> Setting(srv[m])] \in [Members -> AllSettings]
    /\ Quiet /\ ~(loose \/ kind # "VCS") =>
          Promise!Agreed([m \in Members |-> Setting(srv[m])], up)

\* Their types, and that members at rest agree.
LEMMA Abstract == StepInv => Mapped
<1> SUFFICES ASSUME StepInv PROVE Mapped
    OBVIOUS
<1>1. Types BY DEF StepInv, SyncInv
<1>2. ASSUME NEW m \in Members PROVE Setting(srv[m]) \in AllSettings
    <2>1. srv[m] \in State /\ kind \in Kinds BY <1>1, Ranges DEF Types
    <2>2. srv[m].level \in Levels /\ srv[m].mute \in Mutes BY <2>1 DEF State
    <2>3. QED BY <2>2 DEF Setting, AllSettings
<1>3. ASSUME Quiet, ~loose, kind = "VCS"
      PROVE  Promise!Agreed([m \in Members |-> Setting(srv[m])], up)
    <2>1. \A a, b \in up : Setting(srv[a]) = Setting(srv[b]) BY <1>3, AtRest
    <2>2. up \subseteq Members BY <1>1 DEF Types
    <2>3. QED BY <2>1, <2>2 DEF Promise!Agreed
<1>4. QED BY <1>2, <1>3 DEF Mapped

\* The same of the next state.
LEMMA AbstractNext == StepInv' => Mapped'
BY Abstract, PTL

\* The first state is one of the abstract control.
LEMMA StartsAbstract == Init => Promise!Init
<1> SUFFICES ASSUME Init PROVE Promise!Init
    OBVIOUS
<1>1. StepInv BY StepInductive
<1>2. Quiet /\ loose = FALSE /\ up = Members /\ used.refused = 0 BY DEF Init, Quiet
<1>3. Promise!Agreed([m \in Members |-> Setting(srv[m])], up)
    <2>1. srv = [m \in Members |-> [level |-> 0, mute |-> "NOT_MUTED", auto |-> FALSE,
                                       cnt |-> FirstCounter]]
        BY DEF Init
    <2>2. QED BY <1>2, <2>1 DEF Promise!Agreed
<1>4. QED BY <1>1, <1>2, <1>3, Abstract DEF Promise!Init, AllSettings, Mapped

\* A step of the host, a member, a user or a link is one of the abstract
\* control: a request asks, a write that is served and a notification that is
\* handled belong to the exchange, which ends in agreement.
LEMMA StepsAbstract ==
    ASSUME StepInv, StepInv', [Next]_vars
    PROVE  [Promise!Next]_(Promise!vars)
<1> DEFINE st == [m \in Members |-> Setting(srv[m])]
           lo == loose \/ kind # "VCS"
<1>1. Types /\ Lines /\ InStep /\ Types' /\ SyncInv
    BY DEF StepInv, SyncInv
<1>2. st \in [Members -> AllSettings] /\ st' \in [Members -> AllSettings]
    BY Abstract, AbstractNext DEF Mapped
<1>3. (~Quiet)' = FALSE => lo' \/ Promise!Agreed(st', up')
    BY AbstractNext DEF Mapped, Promise!Agreed
<1>4. ASSUME NEW m \in Members, \E x : srv' = [srv EXCEPT ![m] = x] PROVE Promise!Moves(m)
    <2>1. PICK x : srv' = [srv EXCEPT ![m] = x] BY <1>4
    <2>2. srv \in [Members -> States(kind, modes)] BY <1>1 DEF Types
    <2>3. \A n \in Members : st'[n] = [st EXCEPT ![m] = st'[m]][n] BY <2>1, <2>2
    <2>4. st' = [st EXCEPT ![m] = st'[m]] BY <2>3
    <2>5. QED BY <1>2, <2>4 DEF Promise!Moves, AllSettings
<1>5. ASSUME NEW m \in Members, m \in up, ~Quiet, up' = up,
             \/ lo' \in {lo, FALSE} /\ used'.refused = used.refused
             \/ lo' = TRUE /\ used'.refused = used.refused + 1,
             \E x : srv' = [srv EXCEPT ![m] = x]
      PROVE  Promise!Exchange(m)
    <2>1. Promise!Moves(m) BY <1>4, <1>5
    <2>2. (~Quiet)' \in BOOLEAN BY DEF Quiet
    <2>3. lo' \in {lo, FALSE} => Promise!Ends BY <1>3 DEF Promise!Ends
    <2>4. QED BY <1>5, <2>1, <2>2, <2>3 DEF Promise!Exchange
<1>6. ASSUME NEW req, ForEachDevice(req) PROVE [Promise!Next]_(Promise!vars)
    <2>1. /\ UNCHANGED <<kind, modes, srv, up, loose>> /\ (Quiet' => Quiet)
          /\ used'.refused \in {used.refused, used.refused + 1}
        BY <1>1, <1>6, HostInStep
    <2>2. st' = st /\ lo' = lo BY <2>1
    <2>3. CASE Quiet' /\ used'.refused = used.refused BY <2>1, <2>2, <2>3 DEF Promise!vars
    <2>4. CASE Quiet' /\ used'.refused = used.refused + 1
        <3>1. (~Quiet)' = ~Quiet BY <2>1, <2>4 DEF Quiet
        <3>2. QED BY <2>1, <2>2, <2>4, <3>1 DEF Promise!Ask, Promise!Next
    <2>6. CASE ~Quiet' BY <2>1, <2>2, <2>6 DEF Promise!Ask, Promise!Next
    <2>5. QED BY <2>1, <2>3, <2>4, <2>6
<1>7. ASSUME NEW m \in Members, Serve(m) PROVE Promise!Exchange(m)
    <2>1. out[m] # << >> /\ UNCHANGED <<kind, modes, up, loose, used>> BY <1>7 DEF Serve
    <2>2. m \in up BY <1>1, <2>1 DEF Lines
    <2>3. ~Quiet BY <2>1, <2>2 DEF Quiet
    <2>4. \E x : srv' = [srv EXCEPT ![m] = x]
        <3>1. srv \in [Members -> States(kind, modes)] BY <1>1 DEF Types
        <3>2. srv = [srv EXCEPT ![m] = srv[m]] BY <3>1
        <3> DEFINE t == Counted(Asked(srv[m], Head(out[m])))
        <3>3. srv' = srv \/ srv' = [srv EXCEPT ![m] = t] BY <1>7 DEF Serve
        <3> HIDE DEF t
        <3>4. QED BY <3>2, <3>3
    <2>5. QED BY <1>5, <2>1, <2>2, <2>3, <2>4
<1>8. ASSUME NEW m \in Members, Notified(m) PROVE Promise!Exchange(m)
    <2>1. /\ notes[m] # << >> /\ srv' = srv /\ up' = up /\ kind' = kind
        BY <1>8 DEF Notified, VcsNotified, MicsNotified, AicsNotified, Handled
    <2>2. m \in up BY <1>1, <2>1 DEF Lines
    <2>3. ~Quiet BY <2>1, <2>2 DEF Quiet
    <2>4. \E x : srv' = [srv EXCEPT ![m] = x]
        <3>1. srv \in [Members -> States(kind, modes)] BY <1>1 DEF Types
        <3>2. srv' = [srv EXCEPT ![m] = srv[m]] BY <2>1, <3>1
        <3>3. QED BY <3>2
    <2>5. \/ lo' \in {lo, FALSE} /\ used'.refused = used.refused
          \/ lo' = TRUE /\ used'.refused = used.refused + 1
        <3>1. PICK failed : Spend(0, failed) /\ loose' = (failed # {})
            BY <1>8 DEF Notified, VcsNotified, MicsNotified, AicsNotified, Handled
        <3>2. used'.refused = IF failed = {} THEN used.refused ELSE used.refused + 1
            BY <1>1, <3>1 DEF Types, UsedType, Spend
        <3>3. QED BY <2>1, <3>1, <3>2
    <2>6. QED BY <1>5, <2>1, <2>2, <2>3, <2>4, <2>5
<1>9. ASSUME NEW m \in Members, NEW v \in UserLevels, NEW mute \in UserMutes,
             NEW auto \in UserModes, UserChange(m, v, mute, auto)
      PROVE  Promise!Change(m)
    <2> DEFINE t == Counted([srv[m] EXCEPT !.level = v, !.mute = mute, !.auto = auto])
    <2>1. /\ srv' = [srv EXCEPT ![m] = t]
          /\ notes' = IF m \in up THEN [notes EXCEPT ![m] = Append(notes[m], t)] ELSE notes
          /\ UNCHANGED <<kind, modes, out, up, loose>> /\ Spend(1, {})
        BY <1>9 DEF UserChange
    <2> HIDE DEF t
    <2>5. used'.refused = used.refused BY <1>1, <2>1 DEF Types, UsedType, Spend
    <2>2. Promise!Moves(m) BY <1>4, <2>1
    <2>3. (~Quiet)' = (~Quiet \/ m \in up)
        <3>1. CASE m \in up
            <4>1. notes[m] \in Seq(States(kind, modes)) /\ notes \in [Members -> Seq(States(kind, modes))]
                BY <1>1 DEF Types
            <4>2. Append(notes[m], t) # << >> BY <4>1
            <4>3. notes'[m] # << >> BY <2>1, <3>1, <4>1, <4>2
            <4>4. ~Quiet' BY <2>1, <3>1, <4>3 DEF Quiet
            <4>5. QED BY <3>1, <4>4
        <3>2. CASE m \notin up BY <2>1, <3>2 DEF Quiet
        <3>3. QED BY <3>1, <3>2
    <2>4. QED BY <2>1, <2>2, <2>3, <2>5 DEF Promise!Change
<1>10. ASSUME NEW m \in Members, Lost(m) PROVE Promise!Leave(m)
    <2>1. /\ up' = up \ {m} /\ UNCHANGED <<kind, modes, srv, loose>>
          /\ out' = [out EXCEPT ![m] = << >>] /\ notes' = [notes EXCEPT ![m] = << >>]
          /\ used' = [used EXCEPT !.losses = used.losses + 1]
        BY <1>10 DEF Lost
    <2>7. used'.refused = used.refused BY <1>1, <2>1 DEF Types, UsedType
    <2>2. Quiet => Quiet'
        <3>1. /\ out \in [Members -> Seq(Writes(kind))] /\ notes \in [Members -> Seq(States(kind, modes))]
              /\ up \subseteq Members
            BY <1>1 DEF Types
        <3>2. QED BY <2>1, <3>1 DEF Quiet
    <2>3. (~Quiet)' \in {~Quiet, FALSE} BY <2>2
    <2>4. Promise!Ends BY <1>3, <2>1 DEF Promise!Ends
    <2>5. st' = st BY <2>1
    <2>6. QED BY <2>1, <2>3, <2>4, <2>5, <2>7 DEF Promise!Leave
<1>11. ASSUME NEW m \in Members, Back(m) PROVE Promise!Return(m)
    <2>1. /\ m \notin up /\ up' = up \union {m} /\ UNCHANGED <<srv, out, notes, used>>
          /\ loose' = TRUE
        BY <1>11 DEF Back
    <2>2. out[m] = << >> /\ notes[m] = << >> BY <1>1, <2>1 DEF Lines
    <2>3. Quiet' = Quiet BY <2>1, <2>2 DEF Quiet
    <2>4. QED BY <2>1, <2>3 DEF Promise!Return
<1>12. CASE Next
    <2>1. (\E req : ForEachDevice(req))
          \/ \E m \in Members :
              \/ Serve(m)
              \/ \E v \in UserLevels, mute \in UserMutes, auto \in UserModes : UserChange(m, v, mute, auto)
              \/ Notified(m) \/ Lost(m) \/ Back(m)
        BY <1>12, CommandsAreHost DEF Next
    <2>2. ASSUME NEW m \in Members,
                 Promise!Change(m) \/ Promise!Exchange(m) \/ Promise!Leave(m) \/ Promise!Return(m)
          PROVE  Promise!Next
        BY <2>2 DEF Promise!Next
    <2>3. QED BY <1>6, <1>7, <1>8, <1>9, <1>10, <1>11, <2>1, <2>2
<1>13. CASE UNCHANGED vars BY <1>13 DEF vars, Promise!vars, Quiet
<1>14. QED BY <1>12, <1>13

(* The volume of a set implements the abstract promise: the writes, the     *)
(* change counters, the notifications and sync_volume_state (lepl_cap.c)    *)
(* move a member's setting only through its user or within an exchange, and *)
(* an exchange ends only in agreement, whatever links are lost meanwhile,   *)
(* unless the stack refused one of its writes (lepl_vcs.c:81, 110); the     *)
(* next exchange makes that good.                                           *)
THEOREM SetImplementsPromise == Spec => ImplementsPromise
<1>1. Spec => []StepInv BY StepInductive, PTL DEF Spec
<1>2. StepInv /\ StepInv' /\ [Next]_vars => [Promise!Next]_(Promise!vars)
    BY StepsAbstract
<1>3. QED BY <1>1, <1>2, StartsAbstract, PTL DEF Spec, ImplementsPromise, Promise!Spec

(* The volumes of the members that have a link agree whenever nothing is    *)
(* under way and, since the last notification, no member has come back and  *)
(* no write that was to bring one in step was refused.                      *)
THEOREM VolumesAgree == Spec => [](kind = "VCS" => MembersAgree)
<1>1. Spec => []StepInv BY StepInductive, PTL DEF Spec
<1>2. StepInv => (kind = "VCS" => MembersAgree) BY AtRest DEF MembersAgree
<1>3. QED BY <1>1, <1>2, PTL
=============================================================================
