----------------------------- MODULE GattClient -----------------------------
(* The GATT client of the player, from the connection of a device until it  *)
(* is ready: the service discovery state machine of gatt_interface.c, the   *)
(* chain of services that lepl_gatt.c discovers one after the other, the    *)
(* list of CCCD writes that subscribes to the notifications, the list of    *)
(* reads, and the handle cache in NVRAM that lets a bonded device skip the  *)
(* discovery.  A handler is an operator on the control block of one         *)
(* connection; the actions apply it to the event that the stack delivers.   *)
EXTENDS Integers, Sequences, FiniteSets, Functions

CONSTANTS
    Conns,          \* the control blocks in use; block 1 is the first one
    Slots,          \* Slots[v]: the characteristic types the player looks for
    Db,             \* Db[c][v]: the characteristics of service v on device c
    NotifyTypes,    \* NotifyTypes[v]: the types it subscribes to
    ReadTypes,      \* ReadTypes[v]: the types it reads
    Refusable,      \* kinds of requests the stack may refuse (no buffer)
    MaxRefused,     \* bound: refused requests
    MaxErrors,      \* bound: requests that complete with an ATT error
    MaxOther,       \* bound: other writes of the application
    MaxCongestion,  \* bound: spontaneous congestion events
    MaxLoss,        \* bound: lost links
    MaxFaults       \* bound: all of these together

\* lepl_gatt.c discovers the primary services in this order; the AICS
\* instances that MICS includes come between MICS and CSIS.
Primary  == {"ASCS", "PACS", "BASS", "VCS", "MICS", "CSIS", "GMAP", "HAS"}
Aics     == {"AICS1", "AICS2"}
Services == Primary \cup Aics
NumAics(c) == Cardinality({v \in Aics : Db[c][v] # <<>>})

\* An AICS instance is a service that MICS includes; the instances are
\* numbered in the order in which the device reports them.
ASSUME DbAssumption ==
    /\ Conns \subseteq 1..2 /\ 1 \in Conns
    /\ Slots \in [Services -> Seq(STRING)]
    /\ \A c \in Conns : Db[c] \in [Services -> Seq([type : STRING, cccd : BOOLEAN])]
    /\ \A c \in Conns : /\ Db[c]["AICS2"] # <<>> => Db[c]["AICS1"] # <<>>
                        /\ Db[c]["AICS1"] # <<>> => Db[c]["MICS"] # <<>>
    /\ NotifyTypes \in [Services -> SUBSET STRING]
    /\ ReadTypes \in [Services -> SUBSET STRING]
    /\ Refusable \subseteq {"DISCOVER", "CCCD", "READ"}
    /\ {MaxRefused, MaxErrors, MaxOther, MaxCongestion, MaxLoss,
         MaxFaults} \subseteq Nat

\* gatt_intf_characteristic_handles_t.  The characteristic number i of a
\* service has declaration and value handle i; its CCCD is number i too.
NoHandle == [h |-> 0, d |-> 0]
Handles(v) == [DOMAIN Slots[v] -> [h : Nat, d : Nat]]

\* service_discovery_state_t
DiscoveryStates == {"IDLE", "SERVICE", "INCLUDE", "CHARS", "DESCR", "COMPLETE"}

\* gatt_intf_service_discovery_ctx_t with its result; no context is NoCtx.
NoCtx    == [svc |-> "NONE"]
Ctx(v)   == [svc : {v}, st : DiscoveryStates, chars : Handles(v), inc : 0..2,
             found : BOOLEAN, last : Nat]
AllocCtx(v) == [svc |-> v, st |-> "IDLE",
                chars |-> [i \in DOMAIN Slots[v] |-> NoHandle],
                inc |-> 0, found |-> FALSE, last |-> 0]

\* gatt_intf_operation_s: a list of characteristics to subscribe to or to
\* read; the list has cap places and ops_in_progress is one byte.
NoOp     == [kind |-> "NONE"]
Byte     == 0..255

\* What the player asks of the stack; for a discovery command, its phase and
\* the results that the stack still has to deliver.
Request(t, v, h)       == [t |-> t, svc |-> v, h |-> h, st |-> "IDLE", left |-> <<>>]
Command(v, st, left)   == [t |-> "DISCOVER", svc |-> v, h |-> 0, st |-> st, left |-> left]

\* lepl_clcb_t as far as the initialisation goes.  "ok" is the status of the
\* last request to the stack; "refuse" is TRUE when the stack is going to
\* refuse a request of this handler; "asked" and "answered" record which
\* CCCDs and values were requested of the device and answered by it.
FreeClcb == [up |-> FALSE, enc |-> FALSE, mtu |-> FALSE, disc |-> FALSE,
             enabled |-> FALSE, ready |-> FALSE, hash |-> FALSE,
             prof |-> [v \in Services |-> <<>>], aics |-> 0,
             ctx |-> NoCtx, op |-> NoOp, req |-> <<>>,
             asked |-> {}, answered |-> {}, ok |-> TRUE, refuse |-> FALSE]

-----------------------------------------------------------------------------
(* Requests to the stack.                                                   *)

\* The stack queues the request, or refuses it.
Send(s, r) ==
    IF s.refuse /\ r.t \in Refusable
    THEN [s EXCEPT !.refuse = FALSE, !.ok = FALSE]
    ELSE [s EXCEPT !.ok = TRUE, !.req = Append(@, r),
                   !.asked = IF r.t \in {"CCCD", "READ"}
                             THEN @ \cup {<<r.t, r.svc, r.h>>} ELSE @]

\* What the stack finds in the database of device c for a discovery command.
Results(c, v, st) ==
    CASE st = "SERVICE" -> IF Db[c][v] = <<>> THEN <<>> ELSE <<"RANGE">>
      [] st = "INCLUDE" -> [i \in 1..NumAics(c) |-> "AICS"]
      [] st = "CHARS"   -> [i \in DOMAIN Db[c][v] |-> i]
      [] st = "DESCR"   -> [j \in 1..(2 * Len(Db[c][v])) |->
                              [decl |-> j % 2 = 1, h |-> (j + 1) \div 2]]

Discover(c, s, v, st) ==
    Send(s, Command(v, st, Results(c, v, st)))

-----------------------------------------------------------------------------
(* gatt_interface.c: discovery of one service.                              *)

\* gatt_intf_start_service_discovery: the result of the request is ignored
\* by the callers.
StartServiceDiscovery(c, s, v) ==
    [Discover(c, s, v, "SERVICE") EXCEPT !.ctx = [AllocCtx(v) EXCEPT !.st = "SERVICE"]]

\* The phase after st; only MICS asks for included services.
NextPhase(v, st) ==
    CASE st = "SERVICE" -> IF v = "MICS" THEN "INCLUDE" ELSE "CHARS"
      [] st = "INCLUDE" -> "CHARS"
      [] st = "CHARS"   -> "DESCR"
      [] st = "DESCR"   -> "COMPLETE"

\* gatt_intf_internal_send_next_service_discovery_cmd: a request that fails
\* ends the discovery of the service.  The stack refuses the handle range
\* 0..0 of a service that was not found.
SendNext(c, s) ==
    LET nxt == NextPhase(s.ctx.svc, s.ctx.st)
        r   == IF nxt = "COMPLETE" \/ ~s.ctx.found
               THEN [s EXCEPT !.ok = FALSE]
               ELSE Discover(c, s, s.ctx.svc, nxt)
    IN  [r EXCEPT !.ctx.st = IF r.ok THEN nxt ELSE "COMPLETE"]

\* gatt_intf_start_secondary_service_discovery
StartSecondaryDiscovery(c, s, v) ==
    SendNext(c, [s EXCEPT !.ctx = [AllocCtx(v) EXCEPT !.st = "INCLUDE", !.found = TRUE]])

\* Mutant: slots that are taken are not passed over.
CharacteristicFoundAgain(x, type, h) ==
    LET same == {i \in DOMAIN x.chars : Slots[x.svc][i] = type}
    IN  IF same = {} THEN x
        ELSE LET i == CHOOSE j \in same : \A k \in same : j <= k
             IN  [x EXCEPT !.chars[i].h = h]

\* gatt_intf_handle_characteristic_discovery: the first free slot of the type.
CharacteristicFound(x, type, h) ==
    LET free == {i \in DOMAIN x.chars : x.chars[i].h = 0 /\ Slots[x.svc][i] = type}
    IN  IF free = {} THEN x
        ELSE LET i == CHOOSE j \in free : \A k \in free : j <= k
             IN  [x EXCEPT !.chars[i].h = h]

\* gatt_intf_handle_descriptor_discovery: a CCCD belongs to the slot of the
\* characteristic declaration that was reported last.
DescriptorFound(x, h) ==
    [x EXCEPT !.chars = [i \in DOMAIN @ |->
        IF @[i].h = x.last THEN [@[i] EXCEPT !.d = h] ELSE @[i]]]

\* gatt_intf_on_service_discovery_result
OnResult(c, x, st, e) ==
    CASE st = "SERVICE" -> [x EXCEPT !.found = TRUE]
      [] st = "INCLUDE" -> [x EXCEPT !.inc = IF @ < 2 THEN @ + 1 ELSE @]
      [] st = "CHARS"   -> CharacteristicFound(x, Db[c][x.svc][e].type, e)
      [] st = "DESCR" /\ e.decl  -> [x EXCEPT !.last = e.h]
      [] st = "DESCR" /\ ~e.decl -> IF Db[c][x.svc][e.h].cccd
                                    THEN DescriptorFound(x, e.h) ELSE x

-----------------------------------------------------------------------------
(* gatt_interface.c: lists of CCCD writes and reads.                        *)

\* The places of a list: place <<k, i>> is slot i of the k-th service, when its
\* type is listed.
ReadOrder   == <<"ASCS", "PACS", "CSIS", "VCS", "MICS", "HAS", "AICS1", "BASS">>
NotifyOrder == <<"ASCS", "PACS", "CSIS", "VCS", "MICS", "HAS", "BASS", "AICS1">>
Places(order, types) ==
    UNION {{<<k, i>> : i \in {j \in DOMAIN Slots[order[k]] :
                                Slots[order[k]][j] \in types[order[k]]}} : k \in 1..8}

\* max_num_characteristics of the list of reads is computed as a uint8_t.
ASSUME PlacesAssumption == Cardinality(Places(ReadOrder, ReadTypes)) \in Byte

\* gatt_intf_alloc_operation_list: cap places, and of these the ones of which
\* the device has the field, the value handle (h) or the descriptor (d).
AllocList(kind, s, order, types, field) ==
    LET places == Places(order, types)
    IN  [kind |-> kind, cap |-> Cardinality(places), index |-> 0, ops |-> 0,
         todo |-> {p \in places : /\ p[2] \in DOMAIN s.prof[order[p[1]]]
                                  /\ s.prof[order[p[1]]][p[2]][field] # 0}]

\* The place that comes first in the list.
FirstPlace(todo) ==
    CHOOSE p \in todo : \A q \in todo :
        p[1] < q[1] \/ (p[1] = q[1] /\ p[2] <= q[2])

\* The request for the first place still to do.
ReadRequest(s) ==
    LET p == FirstPlace(s.op.todo)
    IN  Request("READ", ReadOrder[p[1]], s.prof[ReadOrder[p[1]]][p[2]].h)
EnableRequest(s) ==
    LET p == FirstPlace(s.op.todo)
    IN  Request("CCCD", NotifyOrder[p[1]], s.prof[NotifyOrder[p[1]]][p[2]].d)

\* current_index++ and ops_in_progress++, of a uint8_t.
Advance(op) == [op EXCEPT !.todo = @ \ {FirstPlace(@)}, !.index = @ + 1,
                          !.ops = (@ + 1) % 256]

\* Mutant: operations under way are not waited for.
IsCompleteAtEnd(op) == op.index = op.cap

\* is_operation_complete
IsComplete(op) == op.ops = 0 /\ op.index = op.cap

\* Mutant: the count of operations is a signed number.
CountDownSigned(n) == n - 1

\* ops_in_progress--, of a uint8_t.
CountDown(n) == (n + 255) % 256

\* gatt_intf_internal_read_char_list up to the test for the end: one request,
\* or the empty places at the end are skipped.  A refused read counts down.
ReadNext(s) ==
    IF s.op.todo # {}
    THEN LET r == Send(s, ReadRequest(s))
         IN  IF r.ok THEN [r EXCEPT !.op = Advance(@)]
                     ELSE [r EXCEPT !.op.ops = CountDown(@)]
    ELSE [s EXCEPT !.op.index = s.op.cap, !.ok = TRUE]

\* Mutant: a refused write ends the list.
EnableNextGivesUp(s) ==
    IF s.op.todo # {}
    THEN LET r == Send(s, EnableRequest(s))
         IN  IF r.ok THEN [r EXCEPT !.op = Advance(@)]
                     ELSE [r EXCEPT !.op.index = s.op.cap, !.op.todo = {}]
    ELSE [s EXCEPT !.op.index = s.op.cap, !.ok = TRUE]

\* gatt_intf_internal_enable_notification up to the test for the end; a
\* refused write stays at its place in the list.
EnableNext(s) ==
    IF s.op.todo # {}
    THEN LET r == Send(s, EnableRequest(s))
         IN  IF r.ok THEN [r EXCEPT !.op = Advance(@)] ELSE r
    ELSE [s EXCEPT !.op.index = s.op.cap, !.ok = TRUE]

-----------------------------------------------------------------------------
(* lepl_gatt.c: subscribe, read, ready.                                     *)

\* on_read_remote_cmpl: the handles are trusted from now on.
OnReadCmpl(s, success) ==
    [s EXCEPT !.op = NoOp, !.ready = s.enabled,
              !.hash = @ \/ success]

ExecuteReads(s) ==
    LET r == ReadNext(s)
    IN  IF IsComplete(r.op) THEN OnReadCmpl(r, r.ok) ELSE r

\* lepl_read_remote_characteristics
ReadRemoteCharacteristics(s) ==
    ExecuteReads([s EXCEPT !.op = AllocList("READ", s, ReadOrder, ReadTypes, "h")])

\* on_enable_notification_cmpl
OnEnableCmpl(s) ==
    ReadRemoteCharacteristics([s EXCEPT !.op = NoOp, !.enabled = TRUE])

ExecuteEnables(s) ==
    LET r == EnableNext(s)
    IN  IF IsComplete(r.op) THEN OnEnableCmpl(r) ELSE r

\* lepl_enable_app_notifications
EnableAppNotifications(s) ==
    ExecuteEnables([s EXCEPT !.op = AllocList("CCCD", s, NotifyOrder, NotifyTypes, "d")])

\* gatt_intf_execute_handle_operations
Execute(s) == IF s.op.kind = "READ" THEN ExecuteReads(s) ELSE ExecuteEnables(s)

\* gatt_intf_handle_gatt_operation_complete: every read counts for a list of
\* reads, every write (of a CCCD or not) for a list of CCCDs.
OperationComplete(s, t, success) ==
    LET counts == \/ s.op.kind = "READ" /\ t = "READ"
                  \/ s.op.kind = "CCCD" /\ t \in {"CCCD", "WRITE"}
        r == [s EXCEPT !.op.ops = CountDown(@)]
    IN  CASE ~counts -> s
          [] counts /\ IsComplete(r.op) ->
                IF r.op.kind = "READ" THEN OnReadCmpl(r, success) ELSE OnEnableCmpl(r)
          [] counts /\ ~IsComplete(r.op) ->
                IF r.op.index # r.op.cap THEN Execute(r) ELSE r

-----------------------------------------------------------------------------
(* lepl_gatt.c: the chain of services.  Each step is the completion of one  *)
(* service, which caches its handles and starts the next one.               *)

\* lepl_cache_discovery_results_and_cleanup
CacheResults(s) ==
    [s EXCEPT !.prof[s.ctx.svc] = s.ctx.chars, !.ctx = NoCtx]

\* lepl_gatt_handle_discovery_complete
HandleDiscoveryComplete(s) == EnableAppNotifications([s EXCEPT !.disc = TRUE])

ascs_discover_service(c, s) == StartServiceDiscovery(c, s, "ASCS")
pacs_discover_service(c, s) == StartServiceDiscovery(c, s, "PACS")
bass_discover_service(c, s) == StartServiceDiscovery(c, s, "BASS")
vcs_discover_service(c, s)  == StartServiceDiscovery(c, s, "VCS")
mics_discover_service(c, s) == StartServiceDiscovery(c, s, "MICS")
csis_discover_service(c, s) == StartServiceDiscovery(c, s, "CSIS")
gmap_discover_service(c, s) == StartServiceDiscovery(c, s, "GMAP")
has_discover_service(c, s)  == StartServiceDiscovery(c, s, "HAS")
aics_discover_service(c, s, i) ==
    StartSecondaryDiscovery(c, s, IF i = 1 THEN "AICS1" ELSE "AICS2")

on_ascs_discovery_complete(c, s) == pacs_discover_service(c, CacheResults(s))
on_pacs_discovery_complete(c, s) == bass_discover_service(c, CacheResults(s))
on_bass_discovery_complete(c, s) == vcs_discover_service(c, CacheResults(s))
on_vcs_discovery_complete(c, s)  == mics_discover_service(c, CacheResults(s))

\* The included AICS instances are remembered before the context is freed.
on_mics_discovery_complete(c, s) ==
    LET n == s.ctx.inc
        r == CacheResults([s EXCEPT !.aics = IF n > @ THEN n ELSE @])
    IN  IF n > 0 THEN aics_discover_service(c, r, 1)
                 ELSE csis_discover_service(c, r)

on_aics_discovery_complete(c, s) ==
    IF s.ctx.svc = "AICS1" /\ s.aics = 2
    THEN aics_discover_service(c, CacheResults(s), 2)
    ELSE csis_discover_service(c, CacheResults(s))

on_csis_discovery_complete(c, s) == gmap_discover_service(c, CacheResults(s))
on_gmap_discovery_complete(c, s) == has_discover_service(c, CacheResults(s))
on_has_discovery_complete(s)     == HandleDiscoveryComplete(CacheResults(s))

\* gatt_intf_handle_discovery_complete with WICED_BT_GATT_SUCCESS; with an
\* error the callbacks do nothing.
AppCallback(c, s) ==
    CASE s.ctx.svc = "ASCS" -> on_ascs_discovery_complete(c, s)
      [] s.ctx.svc = "PACS" -> on_pacs_discovery_complete(c, s)
      [] s.ctx.svc = "BASS" -> on_bass_discovery_complete(c, s)
      [] s.ctx.svc = "VCS"  -> on_vcs_discovery_complete(c, s)
      [] s.ctx.svc = "MICS" -> on_mics_discovery_complete(c, s)
      [] s.ctx.svc \in Aics -> on_aics_discovery_complete(c, s)
      [] s.ctx.svc = "CSIS" -> on_csis_discovery_complete(c, s)
      [] s.ctx.svc = "GMAP" -> on_gmap_discovery_complete(c, s)
      [] s.ctx.svc = "HAS"  -> on_has_discovery_complete(s)

\* gatt_intf_on_service_discovery_complete after a success, and what
\* lepl_gatt_cback does after it: a context that is complete is freed, also
\* the one that the callback has just put there.
OnDiscoveryComplete(c, s) ==
    LET r == SendNext(c, s)
        d == IF r.ctx.st = "COMPLETE" THEN AppCallback(c, r) ELSE r
    IN  IF d.ctx # NoCtx /\ d.ctx.st = "COMPLETE" THEN [d EXCEPT !.ctx = NoCtx] ELSE d
-----------------------------------------------------------------------------
(* The events of the stack.                                                 *)

VARIABLES
    clcb,       \* clcb[c]: control block c
    nvram,      \* nvram[c]: what is stored of the device of block c
    timer,      \* the blocks whose discovery failure timer runs
    closing,    \* the links that wiced_bt_gatt_disconnect is closing
    congested,  \* a request was refused and no event told of room since
    used        \* the faults and other events so far

vars == <<clcb, nvram, timer, closing, congested, used>>

Kinds == {"refused", "errors", "other", "congestion", "loss"}
Bound == [k \in Kinds |->
    CASE k = "refused"    -> MaxRefused
      [] k = "errors"     -> MaxErrors
      [] k = "other"      -> MaxOther
      [] k = "congestion" -> MaxCongestion
      [] k = "loss"       -> MaxLoss]
Spend(k) == /\ used[k] < Bound[k]
            /\ FoldFunction(+, 0, used) < MaxFaults
            /\ used' = [used EXCEPT ![k] = @ + 1]

Unbonded == [bonded |-> FALSE, hash |-> FALSE, aics |-> 0,
             prof |-> [v \in Services |-> <<>>]]

Init ==
    /\ clcb = [c \in Conns |-> FreeClcb]
    /\ nvram = [c \in Conns |-> Unbonded]
    /\ timer = {} /\ closing = {} /\ congested = FALSE
    /\ used = [k \in Kinds |-> 0]

\* Block c becomes the outcome of the handler; the stack accepts all its
\* requests, or it refuses one.
Becomes(c, Handler(_)) ==
    \/ /\ clcb' = [clcb EXCEPT ![c] = Handler(@)]
       /\ UNCHANGED <<congested, used>>
    \/ LET r == Handler([clcb[c] EXCEPT !.refuse = TRUE])
       IN  /\ ~r.refuse
           /\ Spend("refused")
           /\ congested' = TRUE
           /\ clcb' = [clcb EXCEPT ![c] = r]

\* The same for a handler that the stack does not refuse.
BecomesAccepted(c, Handler(_)) ==
    /\ clcb' = [clcb EXCEPT ![c] = Handler(@)]
    /\ UNCHANGED congested

Answer(c)  == Head(clcb[c].req)
Waits(c, t) == clcb[c].req # <<>> /\ Answer(c).t = t
Popped(s)  == [s EXCEPT !.req = Tail(@)]

\* lepl_gatt_handle_connection: what is stored of a bonded device is loaded.
Connect(c) ==
    /\ ~clcb[c].up
    /\ clcb' = [clcb EXCEPT ![c] =
          [FreeClcb EXCEPT !.up = TRUE, !.req = <<Request("MTU", "NONE", 0)>>,
                           !.prof = nvram[c].prof, !.aics = nvram[c].aics,
                           !.hash = nvram[c].hash]]
    /\ UNCHANGED <<nvram, timer, closing, congested, used>>

\* app_handle_gatt_operation_complete for the MTU; lepl_app_sec_bond follows.
MtuExchanged(c) ==
    /\ Waits(c, "MTU")
    /\ clcb' = [clcb EXCEPT ![c] = [Popped(@) EXCEPT !.mtu = TRUE]]
    /\ UNCHANGED <<nvram, timer, closing, congested, used>>

\* lepl_btm_handle_encryption_sts: a device whose handles are cached is not
\* discovered again.
HandleEncryption(c, s) ==
    LET e == [s EXCEPT !.enc = TRUE]
    IN  IF e.hash THEN EnableAppNotifications(e) ELSE ascs_discover_service(c, e)

Encrypted(c) ==
    /\ clcb[c].mtu /\ ~clcb[c].enc
    /\ Becomes(c, LAMBDA s : HandleEncryption(c, s))
    /\ nvram' = [nvram EXCEPT ![c].bonded = TRUE]
    /\ UNCHANGED <<timer, closing>>

\* GATT_DISCOVERY_RESULT_EVT: the context takes the result.
Delivered(c, s) ==
    LET r == Head(s.req)
    IN  [s EXCEPT !.req[1].left = Tail(@),
                  !.ctx = OnResult(c, @, r.st, Head(r.left))]

DiscoveryResult(c) ==
    /\ Waits(c, "DISCOVER") /\ Answer(c).left # <<>>
    /\ clcb' = [clcb EXCEPT ![c] = Delivered(c, @)]
    /\ UNCHANGED <<nvram, timer, closing, congested, used>>

\* GATT_DISCOVERY_CPLT_EVT with success (or attribute not found)
DiscoveryDone(c) ==
    /\ Waits(c, "DISCOVER") /\ Answer(c).left = <<>>
    /\ clcb[c].ctx # NoCtx
    /\ Becomes(c, LAMBDA s : OnDiscoveryComplete(c, Popped(s)))
    /\ UNCHANGED <<nvram, timer, closing>>

\* GATT_DISCOVERY_CPLT_EVT with an error: the callback does nothing, the
\* context stays, and a timer of 2 ms is started to close the link.
DiscoveryFailed(c) ==
    /\ Waits(c, "DISCOVER") /\ clcb[c].ctx # NoCtx
    /\ clcb' = [clcb EXCEPT ![c] = Popped(@)]
    /\ timer' = timer \cup {c}
    /\ Spend("errors")
    /\ UNCHANGED <<nvram, closing, congested>>

\* gatt_interface_discovery_timout_cback: the parameter of the timer points
\* into the event of the failure, which is gone; the connection it names now
\* is arbitrary.
DiscoveryTimeout(c) ==
    /\ c \in timer
    /\ timer' = timer \ {c}
    /\ \E d \in {x \in Conns : clcb[x].up} \cup {0} :
          closing' = closing \cup ({d} \ {0})
    /\ UNCHANGED <<clcb, nvram, congested, used>>

\* GATT_OPERATION_CPLT_EVT for a read or a write
Answered(s) == LET r == Head(s.req)
               IN  [Popped(s) EXCEPT !.answered = @ \cup {<<r.t, r.svc, r.h>>}]

OperationDone(c) ==
    /\ \E t \in {"CCCD", "READ", "WRITE"} :
          /\ Waits(c, t)
          /\ Becomes(c, LAMBDA s : OperationComplete(Answered(s), t, TRUE))
    /\ UNCHANGED <<nvram, timer, closing>>

OperationFailed(c) ==
    /\ \E t \in {"CCCD", "READ"} :
          /\ Waits(c, t)
          /\ BecomesAccepted(c, LAMBDA s : OperationComplete(Answered(s), t, FALSE))
    /\ Spend("errors")
    /\ UNCHANGED <<nvram, timer, closing>>

\* Another write of the application to this device: a volume, a control
\* point.
OtherWrite(c) ==
    /\ clcb[c].enc
    /\ BecomesAccepted(c, LAMBDA s : Send(s, Request("WRITE", "NONE", 0)))
    /\ Spend("other")
    /\ UNCHANGED <<nvram, timer, closing>>

\* Mutant: the congestion event resumes nothing.
HandleCongestionNot(s) == s

\* GATT_CONGESTION_EVT: the loop of lepl_gatt_cback looks at the first
\* control block only, whatever the connection and the kind of the event.
HandleCongestion(s) == IF s.up /\ s.op # NoOp THEN Execute(s) ELSE s

Congestion ==
    /\ BecomesAccepted(1, HandleCongestion)
    /\ Spend("congestion")
    /\ UNCHANGED <<nvram, timer, closing>>

\* The event that tells of room in the stack after a refusal.
Uncongested ==
    /\ congested
    /\ clcb' = [clcb EXCEPT ![1] = HandleCongestion(@)]
    /\ congested' = FALSE
    /\ UNCHANGED <<nvram, timer, closing, used>>

\* lepl_gatt_handle_disconnection: the handles of a bonded device are saved.
HandleDisconnection(c) ==
    /\ nvram' = [nvram EXCEPT ![c] =
          IF @.bonded THEN [bonded |-> TRUE, hash |-> clcb[c].hash,
                            aics |-> clcb[c].aics, prof |-> clcb[c].prof]
                      ELSE @]
    /\ clcb' = [clcb EXCEPT ![c] = FreeClcb]
    /\ closing' = closing \ {c}
    /\ UNCHANGED <<timer, congested>>

Disconnected(c) == c \in closing /\ HandleDisconnection(c) /\ UNCHANGED used
LinkLoss(c)     == clcb[c].up /\ Spend("loss") /\ HandleDisconnection(c)

Next ==
    \/ \E c \in Conns :
          \/ Connect(c) \/ MtuExchanged(c) \/ Encrypted(c)
          \/ DiscoveryResult(c) \/ DiscoveryDone(c) \/ DiscoveryFailed(c)
          \/ DiscoveryTimeout(c) \/ OperationDone(c) \/ OperationFailed(c)
          \/ OtherWrite(c) \/ Disconnected(c) \/ LinkLoss(c)
    \/ Congestion \/ Uncongested

Spec == Init /\ [][Next]_vars

-----------------------------------------------------------------------------
(* Properties.                                                              *)

\* The type invariant; the counter of outstanding operations is a byte.
TypeOK ==
    /\ \A c \in Conns :
          /\ clcb[c].ctx = NoCtx \/ \E v \in Services : clcb[c].ctx \in Ctx(v)
          /\ clcb[c].op # NoOp => clcb[c].op.ops \in Byte
          /\ \A v \in Services : clcb[c].prof[v] = <<>> \/ clcb[c].prof[v] \in Handles(v)
          /\ ~clcb[c].refuse
    /\ timer \subseteq Conns /\ closing \subseteq Conns
    /\ \A k \in Kinds : used[k] <= Bound[k]

\* What the discovery of service v must find on device c: the n-th slot of a
\* type holds the n-th characteristic of that type, with its own CCCD.
Nth(c, v, type, n) ==
    LET of(k) == {i \in 1..k : Db[c][v][i].type = type}
        hits  == {i \in DOMAIN Db[c][v] : Db[c][v][i].type = type /\ Cardinality(of(i)) = n}
    IN  IF hits = {} THEN NoHandle
        ELSE LET i == CHOOSE j \in hits : TRUE
             IN  [h |-> i, d |-> IF Db[c][v][i].cccd THEN i ELSE 0]
Expected(c, v) ==
    [i \in DOMAIN Slots[v] |->
        Nth(c, v, Slots[v][i], Cardinality({j \in 1..i : Slots[v][j] = Slots[v][i]}))]

\* The handles of a device whose discovery was reported as successful, and
\* the handles cached for a bonded device (a db_hash that is not zero), are
\* those of all its characteristics, each with its own CCCD: reconnecting,
\* failures and other traffic never leave a partial or mixed up set of
\* handles that later connections trust.
HandlesComplete ==
    \A c \in Conns :
        /\ clcb[c].disc \/ clcb[c].hash =>
              \A v \in Services : Db[c][v] # <<>> => clcb[c].prof[v] = Expected(c, v)
        /\ nvram[c].hash =>
              \A v \in Services : Db[c][v] # <<>> => nvram[c].prof[v] = Expected(c, v)

\* What the lists of CCCDs and reads have to contain for device c.
ToSubscribe(c) ==
    LET expected(p) == Expected(c, NotifyOrder[p[1]])[p[2]]
    IN  {<<"CCCD", NotifyOrder[p[1]], expected(p).d>> :
            p \in {x \in Places(NotifyOrder, NotifyTypes) : expected(x).d # 0}}
ToRead(c) ==
    LET expected(p) == Expected(c, ReadOrder[p[1]])[p[2]]
    IN  {<<"READ", ReadOrder[p[1]], expected(p).h>> :
            p \in {x \in Places(ReadOrder, ReadTypes) : expected(x).h # 0}}

\* No notification is missed: when the player starts to read the values it
\* has asked for every notification it relies on, however the writes were
\* refused, failed, or were counted together with other writes.
SubscribedBeforeRead ==
    \A c \in Conns : clcb[c].enabled => ToSubscribe(c) \subseteq clcb[c].asked

\* A device is ready only when every value the player relies on has been
\* read and answered (by a value or by an error).
ReadyAfterReads ==
    \A c \in Conns : clcb[c].ready => ToRead(c) \subseteq clcb[c].answered

\* When the stack owes the player nothing any more, every connected device
\* is ready, but for three cases: its discovery failed and the timer closed
\* another link or none; the stack refused a CCCD write of the second
\* control block, which the congestion event does not resume; or the answer
\* to another write was counted while no CCCD write was under way, so that
\* ops_in_progress went below zero: it stays at 255 or less, by one for each
\* such write.
Settled ==
    /\ timer = {} /\ closing = {} /\ ~congested
    /\ \A c \in Conns : clcb[c].up => clcb[c].enc /\ clcb[c].req = <<>>
StallsKnown ==
    Settled => \A c \in Conns : clcb[c].up =>
        \/ clcb[c].ready
        \/ clcb[c].ctx # NoCtx
        \/ c # 1 /\ clcb[c].op # NoOp /\ clcb[c].op.todo # {}
        \/ clcb[c].op # NoOp /\ clcb[c].op.ops + used["other"] > 255
=============================================================================
