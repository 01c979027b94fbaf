----------------------------- MODULE LeplLinks -----------------------------
(* Links, coordinated sets and bonds: which device has a control block      *)
(* (lepl_gatt.c), which BLE activity the player believes to be in (scan,    *)
(* connect, advertise), the coordinated sets and the search for a missing   *)
(* member (lepl_csis.c), and the bonded devices in the simulated NVRAM that *)
(* the host keeps a copy of (lepl_nvram.c, lepl_btmgr.c).  Nothing streams  *)
(* here: audio and its reset on a lost link belong to LeplUnicast and       *)
(* LeplCis.  A device has one address, and its connection id is named by it.*)
EXTENDS Integers, FiniteSets, FiniteSetsExt

CONSTANTS
    Devices,     \* the devices in range
    NoDev,       \* the zero address
    Sirk,        \* Sirk[d]: the set of device d; 0 for a device without CSIS
    NvSlots,     \* MAX_NUM_DEVICES_IN_NVRAM
    MaxLinks,    \* bound: links at a time
    MaxCmd,      \* bound: commands of the host that interfere with a search
    MaxConnect,  \* bound: connect and disconnect commands of the host
    MaxLoss,     \* bound: lost links and failed connections
    MaxUnbond,   \* bound: unbond commands
    MaxRestart,  \* bound: restarts of the player
    MaxFaults    \* bound: all of these but the connect commands together

ASSUME LinksAssumption ==
    /\ NoDev \notin Devices
    /\ Sirk \in [Devices -> Nat]
    /\ NvSlots \in Nat
    /\ {MaxLinks, MaxCmd, MaxConnect, MaxLoss, MaxUnbond, MaxRestart,
         MaxFaults} \subseteq Nat

Addr      == Devices \cup {NoDev}
Blocks    == 1..2     \* LEPL_MAX_CONNECTIONS
SetSize   == 2        \* what every member reports in its SIZE characteristic

\* lepl_ble_activity_state_t
Activities == {"NONE", "SCANNING", "CONNECTING", "ADVERTISING"}

\* ble_activity and connecting_peer_addr of g_lepl_gatt_cb; then what the
\* stack really does: the device it connects to, the callback of the scan
\* that is on, and whether it advertises.
Radio == [act : Activities, peer : Addr, create : Addr,
          scan : {"OFF", "GATT", "CSIS"}, adv : BOOLEAN]
IdleRadio == [act |-> "NONE", peer |-> NoDev, create |-> NoDev,
              scan |-> "OFF", adv |-> FALSE]

\* lepl_clcb_t.  phase follows the initialisation of the link: connected,
\* securing, encrypted, services found, SIRK read, ready; pend is the event
\* that a pairing still waits for.
Phases == {"UP", "SEC", "ENC", "FOUND", "SIRK", "READY"}
Clcb == [dev : Addr, acl : Addr, phase : Phases, pend : {"NO", "KEYS", "COMPLETE"},
         csis : BOOLEAN, sirk : Nat, hash : BOOLEAN, disc : BOOLEAN]
FreeClcb == [dev |-> NoDev, acl |-> NoDev, phase |-> "UP", pend |-> "NO",
             csis |-> FALSE, sirk |-> 0, hash |-> FALSE, disc |-> FALSE]

\* lepl_coordinated_set_member_t and lepl_cordinated_set_t.  csis_set has
\* LEPL_MAX_COORDINATED_SET = 1 element, but every loop over it goes up to
\* LEPL_MAX_CONNECTIONS: element 2 is the audio state that follows the array,
\* which reads as a free set while nothing streams.
Member  == [used : BOOLEAN, dev : Addr, conn : Addr]
NoMember == [used |-> FALSE, dev |-> NoDev, conn |-> NoDev]
CsisSet == [sirk : Nat, size : {0, SetSize}, num : 0..255,
            mem : [Blocks -> Member], timer : BOOLEAN]
FreeSet == [sirk |-> 0, size |-> 0, num |-> 0,
            mem |-> [i \in Blocks |-> NoMember], timer |-> FALSE]

\* lepl_nvram_paired_device_key_t: the owner of the link keys, what is cached
\* of its services, and the other member of its set.
Slot     == [dev : Addr, csis : BOOLEAN, hash : BOOLEAN, pair : Addr]
FreeSlot == [dev |-> NoDev, csis |-> FALSE, hash |-> FALSE, pair |-> NoDev]

VARIABLES
    radio,    \* the BLE activity
    clcb,     \* clcb[b]: the control blocks
    sets,     \* sets[1]: the coordinated set; 2 is the memory after the array
    nvram,    \* nvram[k]: the bonds; NvSlots + 1 is the memory after the array
    host,     \* host[k]: the copy that the host keeps
    up,       \* the devices with a link
    closing,  \* links that the player asked the stack to close
    amiss,    \* history: members that the sets are wrong about
    used      \* what has been used of the bounds

vars == <<radio, clcb, sets, nvram, host, up, closing, amiss, used>>

\* The members that the count of a set goes wrong with.  missed: counted when
\* the scan found them, but their connection was refused, failed or ended
\* before they joined; they stay counted.  dropped: connected when their set
\* was cleared, because the other member left before it had joined.
Amiss == [missed : SUBSET Devices, dropped : SUBSET Devices]
NoneAmiss == [missed |-> {}, dropped |-> {}]

Budget == [cmd : 0..MaxCmd, conn : 0..MaxConnect, loss : 0..MaxLoss,
           unbond : 0..MaxUnbond, restart : 0..MaxRestart]

Faults == used.cmd + used.loss + used.unbond + used.restart

-----------------------------------------------------------------------------
(* The BLE activity (lepl_gatt.c, lepl_main.c).                             *)

\* lepl_start_stop_scan
ScanOn(r, cb) == [r EXCEPT !.scan = cb, !.act = "SCANNING"]
ScanOff(r)    == [r EXCEPT !.scan = "OFF", !.act = "NONE"]

\* app_create_connection; the stack refuses a second connection attempt and
\* one to a device that is connected.
CreateConnection(r, d) ==
    IF r.create # NoDev \/ d \in up THEN r
    ELSE [r EXCEPT !.create = d, !.peer = d, !.act = "CONNECTING"]

\* lepl_gatt_handle_connection, the part about the activity.
RadioConnected(r) == [r EXCEPT !.act = "NONE", !.peer = NoDev]

\* Mutant: the activity stays when a connection attempt fails.
RadioDisconnectedStays(r, d) == r

\* lepl_gatt_handle_disconnection, the part about the activity.
RadioDisconnected(r, d) ==
    IF r.peer = d THEN [r EXCEPT !.peer = NoDev, !.act = "NONE"] ELSE r

-----------------------------------------------------------------------------
(* Lookups.                                                                 *)

First(S) == CHOOSE i \in S : \A j \in S : i <= j

\* lepl_gatt_get_clcb: the block of a device.
HasBlock(d) == \E b \in Blocks : clcb[b].dev = d
Block(d)    == First({b \in Blocks : clcb[b].dev = d})

\* lepl_nvram_get_paired_device_key_info: the slots of a device.
KeySlots(d) == {k \in 1..NvSlots : nvram[k].dev = d /\ d # NoDev}

\* get_csis_set: the sets with a SIRK; the zero SIRK finds a free set.
SetsOf(sirk) == {i \in Blocks : sets[i].sirk = sirk}

\* get_device: the entries of a set that carry an address, used or not.
Entries(p, d)   == {i \in 1..p.size : p.mem[i].dev = d}
Unused(p)       == {i \in 1..p.size : ~p.mem[i].used}

\* A set counts device d.
Counted(d) == \E i \in Blocks : \E j \in Entries(sets[i], d) : sets[i].mem[j].used

-----------------------------------------------------------------------------
(* Search for set members (lepl_csis.c).                                    *)

\* lepl_start_stop_set_member_discovery: a start needs an idle radio and a
\* timer that is not in use, a stop a scan and a timer that is in use.
SearchStarts(r, p) == ~p.timer /\ r.act = "NONE"
SearchStops(r, p)  == p.timer /\ r.act = "SCANNING"

SearchRadio(r, p, start) ==
    IF start /\ SearchStarts(r, p) THEN ScanOn(r, "CSIS")
    ELSE IF ~start /\ SearchStops(r, p) THEN ScanOff(r) ELSE r

SearchTimer(r, p, start) ==
    IF start /\ SearchStarts(r, p) THEN [p EXCEPT !.timer = TRUE]
    ELSE IF ~start /\ SearchStops(r, p) THEN [p EXCEPT !.timer = FALSE] ELSE p

\* csis_scan_timeout: the periodic timer goes on when there is no scan.
ScanTimeout(i) ==
    /\ sets[i].timer
    /\ radio' = SearchRadio(radio, sets[i], FALSE)
    /\ sets' = [sets EXCEPT ![i] = SearchTimer(radio, @, FALSE)]
    /\ UNCHANGED <<clcb, nvram, host, up, closing, amiss, used>>

\* The member is counted when the scan finds it, before it is connected.
FoundMember(p, j, d) ==
    [p EXCEPT !.mem[j] = [@ EXCEPT !.used = TRUE, !.dev = d],
              !.num = (@ + 1) % 256]

\* csis_scan_result_cback for an advertisement of device d.
ScanResult(d) ==
    /\ radio.scan = "CSIS" /\ d \notin up
    /\ Sirk[d] # 0 /\ SetsOf(Sirk[d]) # {}
    /\ LET i    == First(SetsOf(Sirk[d]))
           p    == sets[i]
           free == IF Entries(p, d) # {} THEN {First(Entries(p, d))} ELSE Unused(p)
       IN  /\ \E j \in free : ~p.mem[j].used
           /\ LET f == FoundMember(p, First(free), d)
                  r == SearchRadio(radio, f, FALSE)
              IN  /\ sets' = [sets EXCEPT ![i] = SearchTimer(radio, f, FALSE)]
                  /\ radio' = IF HasBlock(d) THEN r ELSE CreateConnection(r, d)
    /\ amiss' = IF HasBlock(d) \/ radio'.create = d THEN amiss
                ELSE [amiss EXCEPT !.missed = @ \cup {d}]
    /\ UNCHANGED <<clcb, nvram, host, up, closing, used>>

\* Mutant: the size counts from zero.
AllocSetShort(sirk) ==
    LET free == {i \in Blocks : sets[i].num = 0}
    IN  IF free = {} THEN sets
        ELSE [sets EXCEPT ![First(free)] =
                [@ EXCEPT !.sirk = sirk, !.size = SetSize - 1,
                          !.mem = [j \in Blocks |-> NoMember]]]

\* allocate_csis_set: the first set that counts no device.
AllocSet(sirk) ==
    LET free == {i \in Blocks : sets[i].num = 0}
    IN  IF free = {} THEN sets
        ELSE [sets EXCEPT ![First(free)] =
                [@ EXCEPT !.sirk = sirk, !.size = SetSize,
                          !.mem = [j \in Blocks |-> NoMember]]]

\* Mutant: a returning member is counted whether or not it is in use.
SetCurrentDeviceTwice(p, d) ==
    IF Entries(p, d) = {}
    THEN IF p.num < p.size /\ Unused(p) # {}
         THEN [p EXCEPT !.mem[First(Unused(p))] = [used |-> TRUE, dev |-> d, conn |-> d],
                        !.num = (@ + 1) % 256]
         ELSE p
    ELSE LET j == First(Entries(p, d))
         IN  [p EXCEPT !.mem[j] = [used |-> TRUE, dev |-> d, conn |-> d],
                       !.num = (@ + 1) % 256]

\* set_current_device
SetCurrentDevice(p, d) ==
    IF Entries(p, d) = {}
    THEN IF p.num < p.size /\ Unused(p) # {}
         THEN [p EXCEPT !.mem[First(Unused(p))] = [used |-> TRUE, dev |-> d, conn |-> d],
                        !.num = (@ + 1) % 256]
         ELSE p
    ELSE LET j == First(Entries(p, d))
         IN  [p EXCEPT !.mem[j] = [used |-> TRUE, dev |-> d, conn |-> d],
                       !.num = IF p.mem[j].used THEN @ ELSE (@ + 1) % 256]

\* lepl_csis_handle_gatt_connection: the sets with device d entered, and the
\* number of its set.
JoinSets(sirk) == IF SetsOf(sirk) # {} THEN sets ELSE AllocSet(sirk)
JoinIndex(sirk) == {i \in Blocks : JoinSets(sirk)[i].sirk = sirk}

\* on_read_remote_cmpl: the device is ready; a set member joins its set, and
\* the search for the other member starts or ends.
ReadsComplete(d) ==
    /\ HasBlock(d)
    /\ clcb[Block(d)].phase = IF Sirk[d] # 0 THEN "SIRK" ELSE "FOUND"
    /\ clcb' = [clcb EXCEPT ![Block(d)].phase = "READY", ![Block(d)].hash = TRUE]
    /\ LET k == clcb[Block(d)]
           t == JoinSets(k.sirk)
       IN  IF ~k.csis \/ JoinIndex(k.sirk) = {} THEN UNCHANGED <<sets, radio>>
           ELSE LET i == First(JoinIndex(k.sirk))
                    p == SetCurrentDevice(t[i], d)
                IN  /\ sets' = [t EXCEPT ![i] = SearchTimer(radio, p, p.num < p.size)]
                    /\ radio' = SearchRadio(radio, p, p.num < p.size)
    /\ amiss' = [missed |-> amiss.missed \ {d}, dropped |-> amiss.dropped \ {d}]
    /\ UNCHANGED <<nvram, host, up, closing, used>>

\* Mutant: the entry of a lost member keeps its connection id.
LeftStale(p, d) ==
    [p EXCEPT !.num = (@ + 255) % 256,
              !.mem[First(Entries(p, d))] = [@ EXCEPT !.used = FALSE]]

\* lepl_csis_handle_gatt_disconnection: set p without its member d.  The set
\* is cleared, its timer too, when it counts no device any more; otherwise
\* the search for d starts unless the player closes the links.
Left(p, d) ==
    [p EXCEPT !.num = (@ + 255) % 256,
              !.mem[First(Entries(p, d))] = [@ EXCEPT !.used = FALSE, !.conn = NoDev]]
LeaveSet(r, p, d, disc) ==
    IF Left(p, d).num = 0 THEN FreeSet
    ELSE IF disc THEN Left(p, d) ELSE SearchTimer(r, Left(p, d), TRUE)
LeaveRadio(r, p, d, disc) ==
    IF Left(p, d).num = 0 THEN SearchRadio(r, p, FALSE)
    ELSE IF disc THEN r ELSE SearchRadio(r, p, TRUE)

-----------------------------------------------------------------------------
(* Bonds (lepl_nvram.c, lepl_btmgr.c).                                      *)

\* lepl_nvram_allocate_paired_device_key_info: the first slot without keys;
\* when there is none, the pointer is one past the array.  Only the link keys
\* are written.
AllocSlot == LET free == {k \in 1..NvSlots : nvram[k].dev = NoDev}
             IN  IF free = {} THEN NvSlots + 1 ELSE First(free)

\* lepl_nvram_write_keys: a device that is known keeps its keys.
WriteKeys(d) ==
    IF KeySlots(d) # {} THEN nvram ELSE [nvram EXCEPT ![AllocSlot].dev = d]

\* lepl_app_sec_bond, when the MTU exchange is done: a known device is
\* encrypted, an unknown one is bonded.  On a link that the device opened the
\* player is not the central and leaves this to the device, with the same
\* events afterwards.
Secure(d) ==
    /\ HasBlock(d) /\ clcb[Block(d)].phase = "UP"
    /\ clcb' = [clcb EXCEPT ![Block(d)].phase = "SEC",
                            ![Block(d)].pend = IF KeySlots(d) = {} THEN "KEYS" ELSE "NO"]
    /\ UNCHANGED <<radio, sets, nvram, host, up, closing, amiss, used>>

\* lepl_btm_handle_key_update_event
KeyUpdate(d) ==
    /\ HasBlock(d) /\ clcb[Block(d)].pend = "KEYS"
    /\ nvram' = WriteKeys(d)
    /\ clcb' = [clcb EXCEPT ![Block(d)].pend = "COMPLETE"]
    /\ UNCHANGED <<radio, sets, host, up, closing, amiss, used>>

\* lepl_rpc_send_link_keys: the host stores the slot under its NVRAM id.
SendLinkKeys(k) == [host EXCEPT ![k] = nvram'[k]]

\* Mutant: the keys are sent when the link ends, not when the pairing does.
PairingCompleteSilent(d) ==
    /\ HasBlock(d) /\ clcb[Block(d)].pend = "COMPLETE"
    /\ clcb' = [clcb EXCEPT ![Block(d)].pend = "NO"]
    /\ UNCHANGED <<radio, sets, nvram, host, up, closing, amiss, used>>

\* lepl_btm_handle_pairing_complete.  When the bond is gone meanwhile, the
\* host gets what is read at address zero under an id that is the distance of
\* that address from the array, and that no slot has: the slots are not
\* concerned.
PairingComplete(d) ==
    /\ HasBlock(d) /\ clcb[Block(d)].pend = "COMPLETE"
    /\ clcb' = [clcb EXCEPT ![Block(d)].pend = "NO"]
    /\ UNCHANGED nvram
    /\ host' = IF KeySlots(d) = {} THEN host ELSE SendLinkKeys(First(KeySlots(d)))
    /\ UNCHANGED <<radio, sets, up, closing, amiss, used>>

\* lepl_btm_handle_encryption_sts: cached handles make the discovery
\* unnecessary.
Encrypted(d) ==
    /\ HasBlock(d) /\ clcb[Block(d)].phase = "SEC"
    /\ clcb' = [clcb EXCEPT ![Block(d)].phase =
                    IF clcb[Block(d)].hash THEN "FOUND" ELSE "ENC"]
    /\ UNCHANGED <<radio, sets, nvram, host, up, closing, amiss, used>>

\* The discovery of GattClient, up to the CSIS handles.
Discovered(d) ==
    /\ HasBlock(d) /\ clcb[Block(d)].phase = "ENC"
    /\ clcb' = [clcb EXCEPT ![Block(d)].phase = "FOUND",
                            ![Block(d)].csis = Sirk[d] # 0]
    /\ UNCHANGED <<radio, sets, nvram, host, up, closing, amiss, used>>

\* lepl_csis_handle_received_characteristics_value: the reads of SIRK, size
\* and rank; the SIRK is sent in plain text.
SirkRead(d) ==
    /\ Sirk[d] # 0
    /\ HasBlock(d) /\ clcb[Block(d)].phase = "FOUND"
    /\ clcb' = [clcb EXCEPT ![Block(d)].phase = "SIRK", ![Block(d)].sirk = Sirk[d]]
    /\ UNCHANGED <<radio, sets, nvram, host, up, closing, amiss, used>>

\* lepl_save_device_data_to_nvram: the first entry of the set that is not the
\* device itself, if the set is known, becomes its pair.
Pairs(k) == LET p == sets[First(SetsOf(k.sirk))]
            IN  {i \in 1..p.size : p.mem[i].dev # k.dev}
SavedSlot(slot, k) ==
    [slot EXCEPT !.csis = k.csis, !.hash = k.hash,
                 !.pair = IF k.csis /\ SetsOf(k.sirk) # {} /\ Pairs(k) # {}
                          THEN sets[First(SetsOf(k.sirk))].mem[First(Pairs(k))].dev
                          ELSE @]

-----------------------------------------------------------------------------
(* Links (lepl_gatt.c).                                                     *)

\* lepl_gatt_alloc_cb: the first free block; when both are in use, the last
\* one, which gets the ACL handle of the new link and keeps everything else.
AllocBlock == LET free == {b \in Blocks : clcb[b].dev = NoDev}
              IN  IF free = {} THEN 2 ELSE First(free)
NewClcb(k, d) == IF k.dev = NoDev THEN [FreeClcb EXCEPT !.dev = d, !.acl = d]
                 ELSE [k EXCEPT !.acl = d]

\* lepl_read_device_from_nvram: what is cached, and a connection to the other
\* member of the set (refused by the stack for the link k.acl, which is up).
Cached(k) ==
    IF KeySlots(k.dev) = {} THEN k
    ELSE LET slot == nvram[First(KeySlots(k.dev))]
         IN  [k EXCEPT !.csis = slot.csis, !.hash = slot.hash]
ConnectPair(r, k) ==
    IF KeySlots(k.dev) = {} THEN r
    ELSE LET pair == nvram[First(KeySlots(k.dev))].pair
         IN  IF pair \notin Devices \ {k.dev, k.acl} \/ HasBlock(pair) THEN r
             ELSE CreateConnection(IF r.act = "SCANNING" THEN ScanOff(r) ELSE r, pair)

\* lepl_gatt_handle_connection; r is the activity when the stack reports it.
HandleConnection(d, r) ==
    LET k == NewClcb(clcb[AllocBlock], d)
    IN  /\ clcb' = [clcb EXCEPT ![AllocBlock] = Cached(k)]
        /\ radio' = ConnectPair(RadioConnected(r), k)
        /\ up' = up \cup {d}
        /\ UNCHANGED <<sets, nvram, host, closing, amiss, used>>

\* The connection attempt of the player succeeds.
Connected(d) ==
    /\ radio.create = d /\ Cardinality(up) < MaxLinks
    /\ HandleConnection(d, [radio EXCEPT !.create = NoDev])

\* A device connects to the player while it advertises; the controller stops
\* advertising.
Incoming(d) ==
    /\ radio.adv /\ d \notin up \cup {radio.create} /\ Cardinality(up) < MaxLinks
    /\ HandleConnection(d, [radio EXCEPT !.adv = FALSE])

\* Device d leaves set p with its last link; the members that the set loses
\* with it had joined.
AmissLeft(p, d) ==
    [missed  |-> amiss.missed \ {d},
     dropped |-> (amiss.dropped \ {d}) \cup
        IF Left(p, d).num # 0 THEN {}
        ELSE {p.mem[j].conn : j \in 1..p.size} \ {NoDev, d}]
AmissLost(d) ==
    [missed  |-> IF Counted(d) THEN amiss.missed \cup {d} ELSE amiss.missed,
     dropped |-> amiss.dropped \ {d}]

\* lepl_gatt_handle_disconnection for a device that has a block.
HandleDisconnection(d, r) ==
    LET k == clcb[Block(d)]
        s == SetsOf(k.sirk)
        i == First(s)
        n == KeySlots(d)
    IN  /\ nvram' = IF n = {} THEN nvram
                    ELSE [nvram EXCEPT ![First(n)] = SavedSlot(@, k)]
        /\ host' = IF n = {} THEN host ELSE SendLinkKeys(First(n))
        /\ IF k.csis /\ s # {} /\ Entries(sets[i], d) # {}
           THEN /\ sets' = [sets EXCEPT ![i] = LeaveSet(r, @, d, k.disc)]
                /\ radio' = LeaveRadio(r, sets[i], d, k.disc)
                /\ amiss' = AmissLeft(sets[i], d)
           ELSE radio' = r /\ amiss' = AmissLost(d) /\ UNCHANGED sets
        /\ clcb' = [clcb EXCEPT ![Block(d)] = FreeClcb]

\* A link ends, because it is lost or because the player closes it.
Disconnected(d) ==
    /\ d \in up
    /\ d \in closing \/ (used.loss < MaxLoss /\ Faults < MaxFaults)
    /\ used' = IF d \in closing THEN used ELSE [used EXCEPT !.loss = @ + 1]
    /\ up' = up \ {d}
    /\ closing' = closing \ {d}
    /\ LET r == RadioDisconnected(radio, d)
       IN  IF HasBlock(d) THEN HandleDisconnection(d, r)
           ELSE radio' = r /\ UNCHANGED <<clcb, sets, nvram, host, amiss>>

\* A connection attempt times out after 30 s, or is cancelled: the stack
\* reports the device as disconnected.
AttemptEnds(d) ==
    /\ radio.create = d
    /\ radio' = RadioDisconnected([radio EXCEPT !.create = NoDev], d)
    /\ amiss' = IF Counted(d) THEN [amiss EXCEPT !.missed = @ \cup {d}] ELSE amiss
    /\ UNCHANGED <<clcb, sets, nvram, host, up, closing>>

AttemptFails(d) ==
    /\ used.loss < MaxLoss /\ Faults < MaxFaults
    /\ AttemptEnds(d)
    /\ used' = [used EXCEPT !.loss = @ + 1]

-----------------------------------------------------------------------------
(* Commands of the host (lepl_rpc.c); it restores the bonds before any      *)
(* other command after a start of the player.                               *)

Restored == \A k \in 1..NvSlots : host[k].dev # NoDev => nvram[k].dev # NoDev

Command == /\ Restored /\ used.cmd < MaxCmd /\ Faults < MaxFaults
           /\ used' = [used EXCEPT !.cmd = @ + 1]
Request == Restored /\ used.conn < MaxConnect /\ used' = [used EXCEPT !.conn = @ + 1]

\* lepl_rpc_handle_scan, lepl_gatt_start_stop_scan: a start is refused during
\* another activity, a stop is not.
RpcScanStart ==
    /\ Command /\ radio.act = "NONE"
    /\ radio' = ScanOn(radio, "GATT")
    /\ UNCHANGED <<clcb, sets, nvram, host, up, closing, amiss>>
RpcScanStop ==
    /\ Command
    /\ radio' = ScanOff(radio)
    /\ UNCHANGED <<clcb, sets, nvram, host, up, closing, amiss>>

\* lepl_rpc_handle_adv, lepl_gatt_start_stop_adv
RpcAdv(on) ==
    /\ Command /\ (on => radio.act = "NONE")
    /\ radio' = [radio EXCEPT !.adv = on, !.act = IF on THEN "ADVERTISING" ELSE "NONE"]
    /\ UNCHANGED <<clcb, sets, nvram, host, up, closing, amiss>>

\* lepl_rpc_handle_connect
RpcConnect(d) ==
    /\ Request /\ radio.act # "CONNECTING"
    /\ radio' = CreateConnection(IF radio.act = "SCANNING" THEN ScanOff(radio) ELSE radio, d)
    /\ UNCHANGED <<clcb, sets, nvram, host, up, closing, amiss>>

\* lepl_rpc_handle_connect with cancel set: the stack ends the attempt.
RpcCancel(d) == Command /\ AttemptEnds(d)

\* lepl_gatt_disconnect: a device alone, or every member in use of its set by
\* the connection id of the entry.
LinksToClose(d) ==
    LET k == clcb[Block(d)]
        s == SetsOf(k.sirk)
        p == sets[First(s)]
    IN  IF k.csis /\ s # {} /\ p.size # 0
        THEN {p.mem[i].conn : i \in {j \in 1..p.size : p.mem[j].used}} \ {NoDev}
        ELSE {d}

\* lepl_disconnect_device: every block is flagged.
DisconnectDevice(d) ==
    /\ clcb' = [b \in Blocks |-> IF clcb[b].dev = NoDev THEN clcb[b]
                                 ELSE [clcb[b] EXCEPT !.disc = TRUE]]
    /\ closing' = closing \cup LinksToClose(d)

RpcDisconnect(d) ==
    /\ Request /\ HasBlock(d)
    /\ DisconnectDevice(d)
    /\ UNCHANGED <<radio, sets, nvram, host, up, amiss>>

\* lepl_nvram_delete_keys: only the link keys are cleared.
RpcUnbond(k) ==
    /\ Restored /\ nvram[k].dev # NoDev /\ used.unbond < MaxUnbond /\ Faults < MaxFaults
    /\ used' = [used EXCEPT !.unbond = @ + 1]
    /\ IF HasBlock(nvram[k].dev) THEN DisconnectDevice(nvram[k].dev)
       ELSE UNCHANGED <<clcb, closing>>
    /\ nvram' = [nvram EXCEPT ![k].dev = NoDev]
    /\ host' = [host EXCEPT ![k] = FreeSlot]
    /\ UNCHANGED <<radio, sets, up, amiss>>

\* The player restarts (lepl_gatt_init, lepl_nvram_init): its memory is gone.
Restart ==
    /\ used.restart < MaxRestart /\ Faults < MaxFaults
    /\ used' = [used EXCEPT !.restart = @ + 1]
    /\ radio' = IdleRadio /\ up' = {} /\ closing' = {} /\ amiss' = NoneAmiss
    /\ clcb' = [b \in Blocks |-> FreeClcb]
    /\ sets' = [i \in Blocks |-> FreeSet]
    /\ nvram' = [k \in 1..(NvSlots + 1) |-> FreeSlot]
    /\ UNCHANGED host

\* lepl_nvram_write_data
Restore(k) ==
    /\ ~Restored /\ host[k].dev # NoDev /\ nvram[k].dev = NoDev
    /\ nvram' = [nvram EXCEPT ![k] = host[k]]
    /\ UNCHANGED <<radio, clcb, sets, host, up, closing, amiss, used>>

-----------------------------------------------------------------------------
Init ==
    /\ radio = IdleRadio
    /\ clcb = [b \in Blocks |-> FreeClcb]
    /\ sets = [i \in Blocks |-> FreeSet]
    /\ nvram = [k \in 1..(NvSlots + 1) |-> FreeSlot]
    /\ host = [k \in 1..NvSlots |-> FreeSlot]
    /\ up = {} /\ closing = {} /\ amiss = NoneAmiss
    /\ used = [cmd |-> 0, conn |-> 0, loss |-> 0, unbond |-> 0, restart |-> 0]

Host ==
    \/ RpcScanStart \/ RpcScanStop \/ Restart
    \/ \E on \in BOOLEAN : RpcAdv(on)
    \/ \E d \in Devices : RpcConnect(d) \/ RpcCancel(d) \/ RpcDisconnect(d)
    \/ \E k \in 1..NvSlots : RpcUnbond(k) \/ Restore(k)

Stack ==
    \/ \E i \in Blocks : ScanTimeout(i)
    \/ \E d \in Devices :
        \/ ScanResult(d) \/ Connected(d) \/ Incoming(d) \/ AttemptFails(d)
        \/ Disconnected(d) \/ Secure(d) \/ KeyUpdate(d) \/ PairingComplete(d)
        \/ Encrypted(d) \/ Discovered(d) \/ SirkRead(d) \/ ReadsComplete(d)

Next == Host \/ Stack

Spec == Init /\ [][Next]_vars

-----------------------------------------------------------------------------
(* Properties.                                                              *)

\* The variables have their types.
TypeOK ==
    /\ radio \in Radio
    /\ clcb \in [Blocks -> Clcb]
    /\ sets \in [Blocks -> CsisSet]
    /\ nvram \in [1..(NvSlots + 1) -> Slot]
    /\ host \in [1..NvSlots -> Slot]
    /\ up \subseteq Devices /\ closing \subseteq Devices
    /\ amiss \in Amiss
    /\ used \in Budget

\* The activity the player believes in is one the stack is engaged in: it
\* never waits for a connection attempt, a scan or an advertisement that has
\* ended, which would refuse every later scan and connect command
\* (lepl_gatt.c 906, lepl_rpc.c 114).
ActivityBacked ==
    /\ radio.act = "CONNECTING" => radio.create = radio.peer /\ radio.peer # NoDev
    /\ radio.act = "SCANNING" => radio.scan # "OFF"
    /\ radio.act = "ADVERTISING" => radio.adv

\* The sets tell the truth about the links: a set counts exactly its entries
\* in use (num_devices), every member whose reads are done is entered in use,
\* with its connection id, in the set of its SIRK, and whoever is in use has a
\* link or is being connected.  The search for the missing member, the
\* disconnection of a whole set and the audio of a set rely on it.  The code
\* breaks it in two ways, which amiss names: a member that was counted when
\* found stays counted when its connection fails, so that the search for it is
\* given up (lepl_csis.c 131-135), and one that leaves after its SIRK is read
\* but before it has joined takes the count of the other one to zero, which
\* clears the set under a connected member (lepl_csis.c 277-284).
MembersOnRecord ==
    /\ \A i \in Blocks : LET p == sets[i] IN
        p.sirk # 0 =>
            /\ p.num = Cardinality({j \in 1..p.size : p.mem[j].used})
            /\ \A j \in 1..p.size : LET d == p.mem[j].dev IN
                p.mem[j].used => HasBlock(d) \/ radio.create = d \/ d \in amiss.missed
    /\ \A b \in Blocks : LET k == clcb[b] IN
        /\ k.dev # NoDev /\ k.dev \notin amiss.dropped
        /\ k.phase = "READY" /\ k.csis /\ k.sirk # 0
        => \E i \in Blocks : \E j \in 1..sets[i].size :
                /\ sets[i].sirk = k.sirk
                /\ sets[i].mem[j] = [used |-> TRUE, dev |-> k.dev, conn |-> k.dev]

\* The player closes links that exist: the connection id that a set keeps for
\* a member in use, and that the disconnect command uses (lepl_gatt.c 2712),
\* is never the one of a link that has ended meanwhile.
NoStaleClose == closing \subseteq up

\* A bond survives a restart: outside a pairing the host has a copy of every
\* slot with keys, and no device has keys in two slots, whatever link losses,
\* unbonds and restarts come between (lepl_btmgr.c 449-536, lepl_nvram.c).
BondsSafe ==
    /\ \A k \in 1..NvSlots : LET d == nvram[k].dev IN
        d # NoDev => \/ host[k].dev = d
                     \/ HasBlock(d) /\ clcb[Block(d)].pend = "COMPLETE"
    /\ \A k, j \in 1..NvSlots : nvram[k].dev = nvram[j].dev => k = j \/ nvram[k].dev = NoDev

\* The timer of a set runs only while its search does: a search for a missing
\* member is never blocked by the timer of an earlier one.
TimerMeansSearch == \A i \in Blocks : sets[i].timer => radio.scan # "OFF"

\* The other member that a bond names is in the same coordinated set as the
\* owner of the bond.
PairIsMate ==
    \A k \in 1..NvSlots : LET n == nvram[k] IN
        n.dev # NoDev /\ n.pair # NoDev => Sirk[n.dev] = Sirk[n.pair]

\* The player writes to no set but the one it has room for.
SetsInArray == sets[2] = FreeSet

\* Keys are only written to the slots of the array.
KeysInArray == nvram[NvSlots + 1].dev = NoDev
=============================================================================
