------------------------------ MODULE LeplBis ------------------------------
(* The broadcast source (lepl_bis.c, the BIS half of lepl_cis.c and         *)
(* lepl_isoc_offload.c, and the broadcast command of lepl_rpc.c): the       *)
(* announcements, the BIG with its BISs and data paths, the state of the    *)
(* BASE and the audio engine.  The command handlers do not wait for the     *)
(* stack: start and stop return while the events of the BIG are under way,  *)
(* and the event handler applies them to whatever the state is by then.     *)
(* The ISO stack is external: it owes one event for every call that it      *)
(* accepts, in the order of the calls.                                      *)
EXTENDS Integers, FiniteSets, Sequences

CONSTANTS
    Requests,     \* the start commands of the host: [id, cnt, stereo, enc]
    MaxCommands,  \* bound: start and stop commands
    MaxFaults     \* bound: failures of the heap, the controller and the stack

Channels == {"L", "R"}
Biss     == 1 .. 2      \* BROADCAST_MAX_BIS_PER_SUB_GROUP

ASSUME BisAssumption ==
    /\ Requests \subseteq [id : BOOLEAN,      \* broadcast_id # 0
                           cnt : Biss,        \* bis_count
                           stereo : BOOLEAN,  \* channel_counts = 2
                           enc : BOOLEAN]     \* enable_encryption
    /\ {MaxCommands, MaxFaults} \subseteq Nat

IDLE       == "BAP_BROADCAST_STATE_IDLE"
CONFIGURED == "BAP_BROADCAST_STATE_CONFIGURED"
STREAMING  == "BAP_BROADCAST_STATE_STREAMING"

VARIABLES
    mode,       \* current_mode is LEPL_AUDIO_MODE_BROADCAST
    base,       \* g_broadcast_source_cb: state of the BASE, BISs, encryption,
                \*   channels of every BIS and of the subgroup, handles recorded
    adv,        \* on air: the extended advertisement and its encryption flag,
                \*   the periodic one and the channels its BASE announces
    au,         \* role of the audio buffer, audio_started, wiced_le_audio_enable
    big,        \* the BIG of the stack: BISs (0: none), channels that fit in an
                \*   SDU, encryption; and path, the channels that a BIS carries
    evq,        \* the events that the stack owes
    disturbed,  \* history: a command was given while events were owed, or the
                \*   stack refused to remove a data path
    used        \* what has been used of the bounds

vars == <<mode, base, adv, au, big, evq, disturbed, used>>

Silent == [i \in Biss |-> {}]
Base   == [st : {IDLE, CONFIGURED, STREAMING}, cnt : 0 .. 2, enc : BOOLEAN,
           bis : [Biss -> SUBSET Channels], csc : SUBSET Channels, ids : 0 .. 2]
Adv    == [ext : BOOLEAN, enc : BOOLEAN, per : BOOLEAN,
           ch : [Biss -> SUBSET Channels]]
Audio  == [role : {"SOURCE", "HF"}, started : BOOLEAN, enabled : BOOLEAN]
Big    == [num : 0 .. 2, sdu : 0 .. 2, enc : BOOLEAN,
           path : [Biss -> SUBSET Channels]]
Event  == [evt : {"CREATED"}, ok : BOOLEAN, num : Biss, sdu : Biss, enc : BOOLEAN]
          \cup [evt : {"SETUP"}, bis : Biss, ch : SUBSET Channels]
          \cup [evt : {"REMOVED"}, bis : Biss]
          \cup [evt : {"TERMINATED"}]
NoBig  == [num |-> 0, sdu |-> 0, enc |-> FALSE, path |-> Silent]

\* The last stream before the broadcast may have left the engine in the role
\* of a hands-free terminal.
Init ==
    /\ mode = FALSE
    /\ base = [st |-> IDLE, cnt |-> 1, enc |-> TRUE, bis |-> Silent,
               csc |-> {"L"}, ids |-> 0]
    /\ adv = [ext |-> FALSE, enc |-> FALSE, per |-> FALSE, ch |-> Silent]
    /\ \E r \in {"SOURCE", "HF"} :
          au = [role |-> r, started |-> FALSE, enabled |-> FALSE]
    /\ big = NoBig /\ evq = << >>
    /\ disturbed = FALSE
    /\ used = [commands |-> 0, faults |-> 0]

(***************************************************************************)
(* The audio engine (lepl_isoc_offload.c)                                  *)
(***************************************************************************)

\* The audio half of lepl_isoc_dhm_setup_bis_datapath.
PrepareAudio(e) == [e EXCEPT !.role = "SOURCE", !.enabled = TRUE]

\* A form that a bug could give to the next definition.
StartBisStreamEnabled(e) == IF e.enabled THEN e ELSE [e EXCEPT !.started = TRUE]

\* lepl_isoc_dhm_start_bis_stream; the hands-free role has no stream to start.
StartBisStream(e) == IF e.role = "HF" THEN e ELSE [e EXCEPT !.started = TRUE]

\* lepl_isoc_dhm_stop_stream
StopStream(e) == IF e.role = "HF" THEN e ELSE [e EXCEPT !.started = FALSE]

\* lepl_isoc_dhm_disable_audio
DisableAudio(e) == [e EXCEPT !.enabled = FALSE]

(***************************************************************************)
(* What the code asks of the stack                                         *)
(***************************************************************************)

\* The loops of the code go through the BISs in the order of their numbers.
InOrder(S) == (IF 1 \in S THEN <<1>> ELSE << >>) \o (IF 2 \in S THEN <<2>> ELSE << >>)

Owed(evt) == \E k \in DOMAIN evq : evq[k].evt = evt

\* wiced_ble_isoc_is_bis_created
IsBisCreated(i) == i <= big.num

\* wiced_ble_isoc_central_create_big: one BIG at a time.
CanCreate == big.num = 0 /\ ~Owed("CREATED") /\ ~Owed("TERMINATED")

\* wiced_ble_isoc_remove_data_path: there must be one, or one on its way.
CanRemove(i) ==
    \/ big.path[i] # {}
    \/ \E k \in DOMAIN evq : evq[k].evt = "SETUP" /\ evq[k].bis = i

\* wiced_ble_isoc_central_terminate_big.  The stack refuses it without a BIG;
\* while one is being created it refuses it or gives up the creation.
Terminated(q) ==
    IF big.num > 0 THEN {IF Owed("TERMINATED") THEN q
                         ELSE Append(q, [evt |-> "TERMINATED"])}
    ELSE {q, [k \in DOMAIN q |->
                IF q[k].evt = "CREATED" THEN [q[k] EXCEPT !.ok = FALSE] ELSE q[k]]}

(***************************************************************************)
(* Configuration and announcements (lepl_bis.c, le_audio_bap_broadcast.c)  *)
(***************************************************************************)

\* A form that a bug could give to the next definition.
UpdateConfigLong(q) ==
    [st |-> IDLE, cnt |-> q.cnt + 1, enc |-> q.enc, bis |-> Silent, csc |-> {},
     ids |-> 0]

\* broadcast_source_bis_update_config: the control block is cleared; a single
\* BIS carries one or both channels, several carry one channel each.
UpdateConfig(q) ==
    LET both == IF q.stereo THEN Channels ELSE {"L"}
        each == IF q.cnt = 1 THEN <<both, {}>> ELSE <<{"L"}, {"R"}>>
    IN  [st |-> IDLE, cnt |-> q.cnt, enc |-> q.enc, bis |-> each,
         csc |-> IF q.cnt = 1 THEN both ELSE {}, ids |-> 0]

\* ga_lib_bap_fill_csc writes an allocation only when there is one; a receiver
\* takes that of the subgroup for a BIS that has none of its own.
FillCsc(own, subgroup) == IF own # {} THEN own ELSE subgroup

\* le_audio_bap_build_base_data: the channels that the BASE gives for a BIS.
BaseData(b) ==
    [i \in Biss |-> IF i > b.cnt THEN {} ELSE FillCsc(b.bis[i], b.csc)]

\* le_audio_pbp_build_adv_data: the feature byte tells whether the BISs are
\* encrypted.
PublicFeature(q) == q.enc

\* lepl_bis_configure_stream on the cleared block b: no announcement without an
\* id; the extended advertisement is on before the buffer of the periodic one
\* is taken from the heap.
Announced(b, q, heap) ==
    IF ~q.id THEN adv
    ELSE [ext |-> TRUE, enc |-> PublicFeature(q), per |-> heap \/ adv.per,
          ch |-> IF heap THEN BaseData(b) ELSE adv.ch]
ConfigureStream(q, heap) ==
    [UpdateConfig(q) EXCEPT !.st = IF q.id /\ heap THEN CONFIGURED ELSE IDLE]

\* lepl_bis_start_stream: the event of the BIG that it asks for.
BigRequest(b) ==
    [evt |-> "CREATED", ok |-> TRUE, num |-> b.cnt,
     sdu |-> IF b.csc = Channels THEN 2 ELSE 1, enc |-> b.enc]

(***************************************************************************)
(* The commands (lepl_rpc_broadcast_src_handle_start_streaming)            *)
(***************************************************************************)

\* Start.  Refused in any other mode.  A source that is not idle is not
\* configured again.  Every failure is ignored: the mode changes all the same.
\* heap: the buffer was there.  busy: the BIG was refused, twice if the
\* controller said that it was busy.
Start ==
    /\ used.commands < MaxCommands /\ ~mode
    /\ \E q \in Requests, heap, busy \in BOOLEAN :
          LET idle  == base.st = IDLE
              b     == IF idle THEN ConfigureStream(q, heap) ELSE base
              asks  == b.st = CONFIGURED
              fault == (IF heap THEN 0 ELSE 1) + (IF busy THEN 1 ELSE 0)
          IN  /\ ~heap => idle /\ q.id
              /\ busy => asks /\ CanCreate
              /\ used.faults + fault <= MaxFaults
              /\ base' = b
              /\ adv' = IF idle THEN Announced(UpdateConfig(q), q, heap) ELSE adv
              /\ evq' = IF asks /\ CanCreate /\ ~busy
                        THEN Append(evq, BigRequest(b)) ELSE evq
              /\ used' = [commands |-> used.commands + 1,
                          faults |-> used.faults + fault]
    /\ mode' = TRUE
    /\ disturbed' = (disturbed \/ evq # << >>)
    /\ UNCHANGED <<au, big>>

\* lepl_bis_disable_stream: the data paths that a stop asks to remove, only in
\* STREAMING and only those of BISs that exist.
Removals == {i \in Biss : base.st = STREAMING /\ i <= base.ids
                           /\ IsBisCreated(i) /\ CanRemove(i)}

\* A broadcast in which every BIS has its data path and nothing is under way.
FullyStreaming ==
    /\ base.st = STREAMING /\ evq = << >> /\ big.num > 0
    /\ \A i \in 1 .. big.num : i <= base.ids /\ big.path[i] # {}

\* A form that a bug could give to the next definition.
WithdrawnHalf(a) == [a EXCEPT !.ext = FALSE]

\* lepl_bis_release_stream turns the announcements off.
Withdrawn(a) == [a EXCEPT !.ext = FALSE, !.per = FALSE]

\* Stop: without effect when the source is idle, otherwise disable, release
\* and the mode, without waiting for the events.
Stop ==
    /\ used.commands < MaxCommands /\ base.st # IDLE
    /\ \E refused \in SUBSET Removals :
          LET asked == InOrder(Removals \ refused)
              rem   == [k \in DOMAIN asked |-> [evt |-> "REMOVED", bis |-> asked[k]]]
          IN  /\ used.faults + (IF refused = {} THEN 0 ELSE 1) <= MaxFaults
              /\ evq' \in Terminated(evq \o rem)
              /\ used' = [commands |-> used.commands + 1, faults |-> used.faults
                            + (IF refused = {} THEN 0 ELSE 1)]
              /\ disturbed' = \/ refused # {}
                              \/ ~FullyStreaming /\ (disturbed \/ evq # << >>)
    /\ adv' = Withdrawn(adv)
    /\ base' = [base EXCEPT !.st = IDLE]
    /\ mode' = FALSE
    /\ UNCHANGED <<au, big>>

(***************************************************************************)
(* The events of the stack (lepl_isoc_event_handler)                       *)
(***************************************************************************)

\* The next event that the stack owes, and n failures.
Arrives(evt) == evq # << >> /\ Head(evq).evt = evt
Faulty(n)  == /\ used.faults + n <= MaxFaults
              /\ used' = [used EXCEPT !.faults = @ + n]

\* A form that a bug could give to the next definition.
CscShared(b) == [i \in Biss |-> IF b.csc = {} THEN {"L"} ELSE b.csc]

\* The channels of BIS i when its data path is set up: the block of the
\* subgroup is overwritten for each BIS that has channels of its own.
Csc(b) ==
    LET Overwritten(i, before) == IF b.bis[i] # {} THEN b.bis[i]
                                  ELSE IF before = {} THEN {"L"} ELSE before
        first == Overwritten(1, b.csc)
    IN  <<first, Overwritten(2, first)>>

\* WICED_BLE_ISOC_BIG_CREATED_EVT: the handles are recorded and a data path is
\* set up for every BIS; those that the stack refuses are only traced.
BigCreated ==
    /\ Arrives("CREATED") /\ Head(evq).ok
    /\ LET e == Head(evq)
           c == Csc(base)
       IN  /\ big' = [NoBig EXCEPT !.num = e.num, !.sdu = e.sdu, !.enc = e.enc]
           /\ base' = [base EXCEPT !.ids = e.num, !.csc = c[e.num]]
           /\ \E refused \in SUBSET (1 .. e.num) :
                 LET ok == InOrder((1 .. e.num) \ refused)
                 IN  /\ evq' = Tail(evq) \o
                          [k \in DOMAIN ok |-> [evt |-> "SETUP", bis |-> ok[k],
                                                ch |-> c[ok[k]]]]
                     /\ Faulty(IF refused = {} THEN 0 ELSE 1)
    /\ au' = PrepareAudio(au)
    /\ UNCHANGED <<mode, adv, disturbed>>

\* The same with an error status, also after a creation that was given up.
BigNotCreated ==
    /\ Arrives("CREATED")
    /\ evq' = Tail(evq)
    /\ Faulty(IF Head(evq).ok THEN 1 ELSE 0)
    /\ UNCHANGED <<mode, base, adv, au, big, disturbed>>

\* A form that a bug could give to the next definition.
StreamedIfConfigured(b) == [b EXCEPT !.st = IF @ = IDLE THEN IDLE ELSE STREAMING]

\* WICED_BLE_ISOC_DATA_PATH_SETUP_EVT: whatever the state was, it streams now.
Streamed(b) == [b EXCEPT !.st = STREAMING]
DataPathSetup ==
    /\ Arrives("SETUP") /\ IsBisCreated(Head(evq).bis)
    /\ evq' = Tail(evq)
    /\ big' = [big EXCEPT !.path[Head(evq).bis] = Head(evq).ch]
    /\ base' = Streamed(base)
    /\ au' = StartBisStream(au)
    /\ UNCHANGED <<mode, adv, disturbed, used>>
DataPathRefused ==
    /\ Arrives("SETUP")
    /\ evq' = Tail(evq)
    /\ Faulty(1)
    /\ UNCHANGED <<mode, base, adv, au, big, disturbed>>

\* WICED_BLE_ISOC_DATA_PATH_REMOVED_EVT
DataPathRemoved ==
    /\ Arrives("REMOVED") /\ IsBisCreated(Head(evq).bis)
    /\ evq' = Tail(evq)
    /\ big' = [big EXCEPT !.path[Head(evq).bis] = {}]
    /\ au' = StopStream(au)
    /\ UNCHANGED <<mode, base, adv, disturbed, used>>

\* WICED_BLE_ISOC_BIG_TERMINATED_EVT; the BISs and their data paths are gone.
BigTerminated ==
    /\ Arrives("TERMINATED")
    /\ evq' = Tail(evq)
    /\ big' = NoBig
    /\ au' = DisableAudio(au)
    /\ UNCHANGED <<mode, base, adv, disturbed, used>>

StackEvent == \/ BigCreated \/ BigNotCreated \/ DataPathSetup \/ DataPathRefused
              \/ DataPathRemoved \/ BigTerminated
Next == Start \/ Stop \/ StackEvent
Spec == Init /\ [][Next]_vars

\* The stack delivers what it owes.
FairSpec == Spec /\ WF_vars(StackEvent)

(***************************************************************************)
(* Properties                                                              *)
(***************************************************************************)

\* The type invariant.
TypeOK ==
    /\ mode \in BOOLEAN /\ disturbed \in BOOLEAN
    /\ base \in Base /\ adv \in Adv /\ au \in Audio /\ big \in Big
    /\ evq \in Seq(Event)
    /\ used \in [commands : 0 .. MaxCommands, faults : 0 .. MaxFaults]

\* A broadcast that was stopped leaves nothing behind once the events of the
\* stop are in: no BIG, no announcement, the BASE idle, the audio engine
\* stopped and disabled, so that the next start is heard.  Stop and start only
\* promise this to a host that lets the events come in (lepl_bis_release_stream
\* does not wait, lepl_cis.c:416); but one such stop of a broadcast in which
\* every BIS streams repairs what earlier hurried commands have left.
StopsClean ==
    ~mode /\ evq = << >> /\ ~disturbed =>
       /\ big = NoBig /\ ~adv.ext /\ ~adv.per /\ base.st = IDLE
       /\ ~au.started /\ ~au.enabled

\* What is on air is what a receiver is told (le_audio_bap_build_base_data
\* before the BIG exists, lepl_isoc_event_handler when it does): a configured
\* source is announced, with the encryption of its BIG, and every BIS carries
\* the channels that the BASE gives it, which just fit in an SDU.
Truthful ==
    mode /\ base.st # IDLE /\ ~disturbed =>
       /\ adv.ext /\ adv.per
       /\ big.num > 0 => big.enc = adv.enc
       /\ \A i \in 1 .. big.num : big.path[i] # {} =>
             big.path[i] = adv.ch[i] /\ Cardinality(big.path[i]) = big.sdu

\* Whatever the order of commands, events and failures: a BIG that carries
\* audio and that no event is about to end can be ended by the host, because
\* the stop command looks at the state of the BASE only.
Stoppable ==
    (\E i \in 1 .. big.num : big.path[i] # {}) /\ ~Owed("TERMINATED")
       => base.st = STREAMING

\* A start that meets no failure gets every BIS on air, and the host is asked
\* for audio (audio_started), unless the host stops it or hurries.
Streams ==
    (mode /\ base.st # IDLE /\ ~disturbed /\ used.faults = 0)
       ~> \/ /\ au.started /\ big.num = base.cnt
             /\ \A i \in 1 .. base.cnt : big.path[i] # {}
          \/ ~mode \/ disturbed \/ used.faults > 0
=============================================================================
