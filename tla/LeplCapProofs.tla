--------------------------- MODULE LeplCapProofs ---------------------------
(* What the handlers of LeplCap keep, for any number of ASEs and any        *)
(* configuration of the devices.  The sets that type the fields of an       *)
(* application state stay opaque wherever a leaf reasons about a record.    *)
EXTENDS LeplCap, TLAPS

OwnAse(c) == {a \in Ase : Owner[a] = c}
OwnMsg(c) == {m \in CpMsg : Owner[m.ase] = c}

\* The ASE list and the writes only refer to devices that are connected, and
\* a write goes out on the connection of the device that has its ASE.
Listed(s) ==
    /\ \A i \in Slots : s.list[i] # NULL => Owner[s.list[i]] \in s.up
    /\ \A c \in Conn : s.out[c] \in Seq(OwnMsg(c))
    /\ \A c \in Conn : c \notin s.up => s.out[c] = << >>

Ok(s) == s \in App /\ Listed(s)

\* t is s as far as the audio mode, the call and the connections go;
\* SamePlay adds the media state.
SameMode(s, t) ==
    /\ t.mode = s.mode /\ t.final = s.final /\ t.paused = s.paused
    /\ t.call = s.call /\ t.up = s.up

SamePlay(s, t) == SameMode(s, t) /\ t.media = s.media

Resumable == {NONE, MEDIA, MIC, BIDIRMIC, CALL}

\* The inductive invariant of the application state.
AppInv(s) ==
    /\ Ok(s)
    /\ s.mode \in {IN_TRANSIT, s.final}
    /\ s.final = MEDIA => s.media = "PLAYING"
    /\ s.paused \in Resumable

-----------------------------------------------------------------------------
(* Membership facts                                                          *)

\* The named modes are modes, and final modes unless IN_TRANSIT.
LEMMA ModeFacts ==
  /\ FinalModes \subseteq Modes
  /\ Resumable \subseteq FinalModes
  /\ {NONE, BROADCAST, MEDIA, MIC, BIDIRMIC, CALL} \subseteq FinalModes
  /\ NONE \in Modes /\ IN_TRANSIT \in Modes
  /\ IN_TRANSIT \notin FinalModes
  BY DEF FinalModes, Modes, Resumable, NONE, BROADCAST, MEDIA, MIC, BIDIRMIC,
         CALL, IN_TRANSIT

\* The modes that the handlers compare are different.
LEMMA DistinctModes ==
  /\ NONE # MEDIA /\ NONE # MIC /\ NONE # BIDIRMIC /\ NONE # CALL
  /\ NONE # BROADCAST /\ BROADCAST # MEDIA
  /\ MEDIA # MIC /\ MEDIA # BIDIRMIC /\ MEDIA # CALL
  BY DEF NONE, BROADCAST, MEDIA, MIC, BIDIRMIC, CALL

\* The media, call control and call states that are assigned are legal.
LEMMA StateFacts ==
  /\ {"INACTIVE", "PLAYING", "PAUSED"} \subseteq MediaStates
  /\ {"IDLE", "INBAND_RINGTONE", "INBAND_RINGTONE_CONVO", "CONVO"}
       \subseteq CcsStates
  /\ {"FREE", "INCOMING", "DIALING", "ACTIVE", "LOCALLY_HELD", "REMOTELY_HELD",
      "BOTH_HELD"} \subseteq CallStates
  /\ {"CONFIG_CODEC", "CONFIG_QOS", "ENABLE", "RELEASE", "RECEIVER_STOP_READY"}
       \subseteq CpOps
  BY DEF MediaStates, CcsStates, CallStates, CpOps

\* A cleared p_lepl_ase_list is a list of ASEs.
LEMMA EmptyListType == EmptyList \in AseLists
  BY DEF EmptyList, AseLists

\* A zeroed configuration is a configuration.
LEMMA ZeroCfgType == ZeroCfg \in Cfg
  BY DEF ZeroCfg, Cfg, Contexts, CisNums

\* Changing the context or the number of CISs of a configuration.
LEMMA CfgCtxType ==
  ASSUME NEW cfg \in Cfg, NEW ctx \in Contexts
  PROVE  [cfg EXCEPT !.ctx = ctx] \in Cfg
  BY DEF Cfg

\* The same for num_cis.
LEMMA CfgCisType ==
  ASSUME NEW cfg \in Cfg, NEW n \in CisNums
  PROVE  [cfg EXCEPT !.cis = n] \in Cfg
  BY DEF Cfg

-----------------------------------------------------------------------------
(* Starting streams                                                          *)

\* Configuring ASEs of a device writes to that device only.
LEMMA ConfigMsgsType ==
  ASSUME NEW c \in Conn, NEW ases \in Seq(OwnAse(c))
  PROVE  ConfigMsgs(ases) \in Seq(OwnMsg(c))
  <1> DEFINE msg(i) == [op |-> "CONFIG_CODEC", ase |-> ases[i]]
  <1>1. ConfigMsgs(ases) = [i \in 1..Len(ases) |-> msg(i)]
    BY DEF ConfigMsgs
  <1>2. \A i \in 1..Len(ases) : msg(i) \in OwnMsg(c)
    BY StateFacts DEF OwnMsg, OwnAse, CpMsg
  <1> HIDE DEF msg
  <1> QED  BY <1>1, <1>2

\* A device without ASEs to configure is not written to.
LEMMA EmptyConfigMsgs == ConfigMsgs(<< >>) = << >>
  BY DEF ConfigMsgs

\* configure_and_enable_ase numbers an ASE with one of the two CISs, or 0.
LEMMA CisIdType ==
  ASSUME NEW a \in Ase, NEW cfg \in Cfg
  PROVE  CisId(a, cfg) \in CisNums
  BY DeviceAssumption DEF CisId, CisNums, Cises, Conn

\* The ASEs that a context needs on a device belong to it.
LEMMA AsesOfType ==
  ASSUME NEW c \in Devices, NEW cfg \in Cfg
  PROVE  AsesOf(c, cfg) \in Seq(OwnAse(c))
  <1>1. c \in Conn /\ Snk[c] \in Seq(Ase) /\ Src[c] \in Seq(Ase)
    BY DeviceAssumption
  <1>2. \A i \in 1..Len(Snk[c]) : Snk[c][i] \in OwnAse(c)
    BY <1>1, DeviceAssumption DEF OwnAse
  <1>3. \A i \in 1..Len(Src[c]) : Src[c][i] \in OwnAse(c)
    BY <1>1, DeviceAssumption DEF OwnAse
  <1>4. Snk[c][1] \in OwnAse(c)
    BY <1>1, <1>2, DeviceAssumption
  <1>5. Len(Snk[c]) > 1 => Snk[c][2] \in OwnAse(c)
    BY <1>1, <1>2
  <1>6. Src[c] # << >> => Src[c][1] \in OwnAse(c)
    BY <1>1, <1>3
  <1>7. MediaAses(c, cfg) \in Seq(OwnAse(c))
    BY <1>4, <1>5 DEF MediaAses
  <1>8. ASSUME c \in Left => Src[c] # << >>
        PROVE  ConvAses(c) \in Seq(OwnAse(c))
    BY <1>4, <1>6, <1>8 DEF ConvAses
  <1>9. CASE LacksAse(c, cfg.ctx)
    BY <1>9, <1>7 DEF AsesOf, LacksAse
  <1>10. CASE ~LacksAse(c, cfg.ctx)
    BY <1>10, <1>6, <1>7, <1>8 DEF AsesOf, LacksAse
  <1> QED  BY <1>9, <1>10

\* Starting a stream configures own ASEs of connected members only.
LEMMA StartAsesType ==
  ASSUME NEW s \in App, NEW c \in Conn, NEW cfg \in Cfg, NEW d \in Conn
  PROVE  /\ StartAses(s, c, cfg, d) \in Seq(OwnAse(d))
         /\ d \notin s.up => StartAses(s, c, cfg, d) = << >>
  <1>1. s.up \subseteq Devices
    BY DEF App
  <1>2. Members(s, c) \subseteq s.up
    BY DEF Members
  <1>3. d \in s.up => AsesOf(d, cfg) \in Seq(OwnAse(d))
    BY <1>1, AsesOfType
  <1> QED  BY <1>2, <1>3 DEF StartAses

\* assign_ase_to_be_configured adds its ASE and nothing else.
LEMMA AssignAseType ==
  ASSUME NEW list \in AseLists, NEW a \in Ase
  PROVE  /\ AssignAse(list, a) \in AseLists
         /\ \A i \in Slots : AssignAse(list, a)[i] \in {a, list[i]}
  BY DEF AssignAse, AseLists

\* The same for the ASEs of one device.
LEMMA AssignAsesType ==
  ASSUME NEW list \in AseLists, NEW S \in SUBSET Ase, NEW ases \in Seq(S)
  PROVE  /\ AssignAses(list, ases) \in AseLists
         /\ \A i \in Slots : \/ AssignAses(list, ases)[i] = list[i]
                              \/ AssignAses(list, ases)[i] \in S
  <1>1. CASE Len(ases) = 0
    BY <1>1 DEF AssignAses
  <1>2. CASE Len(ases) = 1
    <2>1. ases[1] \in S /\ ases[1] \in Ase
      BY <1>2
    <2>2. AssignAses(list, ases) = AssignAse(list, ases[1])
      BY <1>2 DEF AssignAses
    <2> QED  BY <2>1, <2>2, AssignAseType
  <1>3. CASE Len(ases) \notin {0, 1}
    <2> DEFINE n == Len(ases)
    <2>0. n \in Nat /\ n # 0 /\ n # 1
      BY <1>3
    <2> HIDE DEF n
    <2>1. n \in Nat /\ n > 1
      BY <2>0
    <2> USE DEF n
    <2>2. ases[1] \in S /\ ases[2] \in S /\ ases[1] \in Ase /\ ases[2] \in Ase
      BY <2>1
    <2>3. AssignAses(list, ases) = AssignAse(AssignAse(list, ases[1]), ases[2])
      BY <1>3 DEF AssignAses
    <2> DEFINE l == AssignAse(list, ases[1])
    <2>4. l \in AseLists /\ \A i \in Slots : l[i] \in {ases[1], list[i]}
      BY <2>2, AssignAseType
    <2> HIDE DEF l
    <2>5. /\ AssignAse(l, ases[2]) \in AseLists
          /\ \A i \in Slots : AssignAse(l, ases[2])[i] \in {ases[2], l[i]}
      BY <2>2, <2>4, AssignAseType
    <2> QED  BY <2>2, <2>3, <2>4, <2>5 DEF l
  <1> QED  BY <1>1, <1>2, <1>3

\* Each connected device is given ASEs of its own, the others none.
OwnAses(s, ases) ==
    \A d \in Conn : /\ ases[d] \in Seq(OwnAse(d))
                    /\ d \notin s.up => ases[d] = << >>

\* configure_and_enable_ase keeps the application well-formed and the modes.
LEMMA ConfigureOk ==
  ASSUME NEW s, Ok(s), NEW cfg \in Cfg, NEW ases, OwnAses(s, ases)
  PROVE  Ok(Configure(s, cfg, ases)) /\ SamePlay(s, Configure(s, cfg, ases))
  <1> USE DEF Ok, OwnAses
  <1> DEFINE Has(a) == \E i \in DOMAIN ases[Owner[a]] : ases[Owner[a]][i] = a
             cid == [a \in Ase |-> IF Has(a) THEN CisId(a, cfg) ELSE s.cid[a]]
             out == [c \in Conn |-> s.out[c] \o ConfigMsgs(ases[c])]
             l1  == AssignAses(s.list, ases[1])
             l2  == AssignAses(l1, ases[2])
             t   == [s EXCEPT !.cid = cid, !.out = out, !.list = l2]
  <1>1. Configure(s, cfg, ases) = t
    BY DEF Configure
  <1>2. cid \in CisIds
    <2>1. s.cid \in CisIds
      BY DEF App
    <2> HIDE DEF Has
    <2> QED  BY <2>1, CisIdType DEF CisIds
  <1>3. \A c \in Conn : out[c] \in Seq(OwnMsg(c)) /\ out[c] \in Seq(CpMsg)
    <2> TAKE c \in Conn
    <2>1. s.out[c] \in Seq(OwnMsg(c)) /\ ConfigMsgs(ases[c]) \in Seq(OwnMsg(c))
      BY ConfigMsgsType DEF Listed
    <2>2. out[c] \in Seq(OwnMsg(c))
      BY <2>1
    <2>3. OwnMsg(c) \subseteq CpMsg
      BY DEF OwnMsg
    <2> HIDE DEF out
    <2> QED  BY <2>2, <2>3
  <1>4. out \in Writes
    BY <1>3 DEF Writes
  <1>5. \A c \in Conn : c \notin s.up => out[c] = << >>
    BY EmptyConfigMsgs DEF Listed
  <1>6. /\ l1 \in AseLists
        /\ \A i \in Slots : l1[i] = s.list[i] \/ l1[i] \in OwnAse(1)
    BY AssignAsesType DEF App, OwnAse, Conn
  <1> HIDE DEF l1
  <1>7. /\ l2 \in AseLists
        /\ \A i \in Slots : l2[i] = l1[i] \/ l2[i] \in OwnAse(2)
    BY <1>6, AssignAsesType DEF OwnAse, Conn
  <1>8. \A i \in Slots : l2[i] # NULL => Owner[l2[i]] \in s.up
    <2>1. \A d \in Conn : d \notin s.up =>
             AssignAses(s.list, ases[d]) = s.list /\ AssignAses(l1, ases[d]) = l1
      BY DEF AssignAses
    <2>2. CASE 1 \in s.up /\ 2 \in s.up
      BY <2>2, <1>6, <1>7 DEF OwnAse, Listed
    <2>3. CASE 1 \notin s.up /\ 2 \in s.up
      BY <2>1, <2>3, <1>7 DEF OwnAse, Listed, Conn, l1
    <2>4. CASE 1 \in s.up /\ 2 \notin s.up
      BY <2>1, <2>4, <1>6 DEF OwnAse, Listed, Conn
    <2>5. CASE 1 \notin s.up /\ 2 \notin s.up
      BY <2>1, <2>5 DEF Listed, Conn, l1
    <2> QED  BY <2>2, <2>3, <2>4, <2>5
  <1> HIDE DEF cid, out, l2
  <1>9. t \in App
    BY <1>2, <1>4, <1>7 DEF App
  <1>10. t.list = l2 /\ t.out = out /\ SamePlay(s, t)
    BY DEF App, SamePlay, SameMode
  <1>11. Listed(t)
    BY <1>3, <1>5, <1>8, <1>10 DEF Listed, SamePlay, SameMode
  <1> QED  BY <1>1, <1>9, <1>10, <1>11

\* lepl_cap_start_streaming does so too.
LEMMA StartStreamingOk ==
  ASSUME NEW s, Ok(s), NEW c \in Conn, NEW cfg \in Cfg
  PROVE  /\ Ok(StartStreaming(s, c, cfg))
         /\ SamePlay(s, StartStreaming(s, c, cfg))
  <1> DEFINE ases == [d \in Conn |-> StartAses(s, c, cfg, d)]
  <1>1. OwnAses(s, ases)
    BY StartAsesType DEF Ok, OwnAses
  <1>2. StartStreaming(s, c, cfg) = Configure(s, cfg, ases)
    BY DEF StartStreaming
  <1> HIDE DEF ases
  <1>3. Ok(Configure(s, cfg, ases)) /\ SamePlay(s, Configure(s, cfg, ases))
    BY <1>1, ConfigureOk
  <1> QED  BY <1>2, <1>3

-----------------------------------------------------------------------------
(* Updates of single fields                                                  *)

\* A new media state keeps the application well-formed and the modes.
LEMMA SetMedia ==
  ASSUME NEW s, Ok(s), NEW x \in MediaStates
  PROVE  /\ Ok([s EXCEPT !.media = x]) /\ SameMode(s, [s EXCEPT !.media = x])
         /\ [s EXCEPT !.media = x].media = x
  BY DEF Ok, App, Listed, SameMode

\* A new ccs_state changes neither the modes nor the media state.
LEMMA SetCcs ==
  ASSUME NEW s, Ok(s), NEW x \in CcsStates
  PROVE  Ok([s EXCEPT !.ccs = x]) /\ SamePlay(s, [s EXCEPT !.ccs = x])
  BY DEF Ok, App, Listed, SameMode, SamePlay

\* Neither does a new current or paused stream configuration.
LEMMA SetCfg ==
  ASSUME NEW s, Ok(s), NEW x \in Cfg
  PROVE  /\ Ok([s EXCEPT !.cfg = x]) /\ SamePlay(s, [s EXCEPT !.cfg = x])
         /\ Ok([s EXCEPT !.pcfg = x]) /\ SamePlay(s, [s EXCEPT !.pcfg = x])
  BY DEF Ok, App, Listed, SameMode, SamePlay

\* A new state of the call leaves the audio state alone.
LEMMA SetCall ==
  ASSUME NEW s, Ok(s), NEW x \in CallStates
  PROVE  LET t == [s EXCEPT !.call = x]
         IN  /\ Ok(t) /\ t.call = x
             /\ t.mode = s.mode /\ t.final = s.final /\ t.paused = s.paused
             /\ t.media = s.media /\ t.up = s.up
  BY DEF Ok, App, Listed

\* A new current mode leaves the rest of the audio state alone.
LEMMA SetMode ==
  ASSUME NEW s, Ok(s), NEW x \in Modes
  PROVE  LET t == [s EXCEPT !.mode = x]
         IN  /\ Ok(t) /\ t.mode = x
             /\ t.final = s.final /\ t.paused = s.paused
             /\ t.media = s.media /\ t.up = s.up /\ t.call = s.call
  BY DEF Ok, App, Listed

-----------------------------------------------------------------------------
(* Stopping streams                                                          *)

\* release_configured_ases writes to the device it is called for.
LEMMA ReleaseMsgsType ==
  ASSUME NEW s \in App, NEW c \in Conn
  PROVE  ReleaseMsgs(s, c) \in Seq(OwnMsg(c))
  <1>1. \A i \in Slots : ReleaseSlot(s, i, c) \in Seq(OwnMsg(c))
    <2> TAKE i \in Slots
    <2>1. s.list[i] \in Ase \cup {NULL}
      BY DEF App, AseLists
    <2>2. CASE SlotOf(s, i, c)
      <3> DEFINE m == [op |-> "RELEASE", ase |-> s.list[i]]
      <3>1. m \in OwnMsg(c)
        BY <2>1, <2>2, StateFacts DEF SlotOf, OwnMsg, CpMsg
      <3>2. ReleaseSlot(s, i, c) = <<m>>
        BY <2>2 DEF ReleaseSlot
      <3> HIDE DEF m
      <3> QED  BY <3>1, <3>2
    <2>3. CASE ~SlotOf(s, i, c)
      BY <2>3 DEF ReleaseSlot
    <2> QED  BY <2>2, <2>3
  <1>2. /\ ReleaseSlot(s, 1, c) \in Seq(OwnMsg(c))
        /\ ReleaseSlot(s, 2, c) \in Seq(OwnMsg(c))
        /\ ReleaseSlot(s, 3, c) \in Seq(OwnMsg(c))
        /\ ReleaseSlot(s, 4, c) \in Seq(OwnMsg(c))
    BY <1>1 DEF Slots
  <1> QED  BY <1>2 DEF ReleaseMsgs

\* Releasing the listed ASEs of connected devices keeps the modes.
LEMMA ReleaseConfiguredOk ==
  ASSUME NEW s, Ok(s), NEW devs \in SUBSET s.up
  PROVE  /\ Ok(ReleaseConfigured(s, devs))
         /\ SamePlay(s, ReleaseConfigured(s, devs))
  <1> USE DEF Ok
  <1> DEFINE out == [c \in Conn |-> IF c \in devs
                                     THEN s.out[c] \o ReleaseMsgs(s, c)
                                     ELSE s.out[c]]
             rel == s.releasing \/ \E i \in Slots, c \in devs : SlotOf(s, i, c)
             t   == [s EXCEPT !.out = out, !.releasing = rel]
  <1>1. ReleaseConfigured(s, devs) = t
    BY DEF ReleaseConfigured
  <1>2. \A c \in Conn : out[c] \in Seq(OwnMsg(c)) /\ out[c] \in Seq(CpMsg)
    <2> TAKE c \in Conn
    <2>1. s.out[c] \in Seq(OwnMsg(c)) /\ ReleaseMsgs(s, c) \in Seq(OwnMsg(c))
      BY ReleaseMsgsType DEF Listed
    <2>2. out[c] \in Seq(OwnMsg(c))
      BY <2>1
    <2>3. OwnMsg(c) \subseteq CpMsg
      BY DEF OwnMsg
    <2> HIDE DEF out
    <2> QED  BY <2>2, <2>3
  <1>3. out \in Writes
    BY <1>2 DEF Writes
  <1>4. \A c \in Conn : c \notin s.up => out[c] = << >>
    BY DEF Listed
  <1>5. rel \in BOOLEAN
    BY DEF App
  <1> HIDE DEF out, rel
  <1>6. t \in App
    BY <1>3, <1>5 DEF App
  <1>7. t.list = s.list /\ t.out = out /\ SamePlay(s, t)
    BY DEF App, SamePlay, SameMode
  <1>8. Listed(t)
    BY <1>2, <1>4, <1>7 DEF Listed, SamePlay, SameMode
  <1> QED  BY <1>1, <1>6, <1>7, <1>8

\* lepl_cap_stop_streaming keeps the modes and the media state.
LEMMA StopStreamingOk ==
  ASSUME NEW s, Ok(s), NEW c \in Conn
  PROVE  Ok(StopStreaming(s, c)) /\ SamePlay(s, StopStreaming(s, c))
  <1>1. Members(s, c) \in SUBSET s.up
    BY DEF Members
  <1>2. /\ Ok(ReleaseConfigured(s, Members(s, c)))
        /\ SamePlay(s, ReleaseConfigured(s, Members(s, c)))
    BY <1>1, ReleaseConfiguredOk
  <1> QED  BY <1>2 DEF StopStreaming, SamePlay, SameMode

-----------------------------------------------------------------------------
(* Configurations                                                            *)

\* The contexts that the handlers assign are contexts.
LEMMA ContextFacts ==
  {"MEDIA", "RINGTONE", "CONVERSATIONAL", "GAME", "VOICE_ASSISTANTS",
   "UNSPECIFIED"} \subseteq Contexts
  BY DEF Contexts

\* The start functions leave a configuration with a legal num_cis.
LEMMA CountedType ==
  ASSUME NEW s, NEW c \in Conn, NEW cfg \in Cfg
  PROVE  Counted(s, c, cfg) \in Cfg
  <1>1. NumDevices(s, c) \in CisNums
    BY DEF NumDevices, CisNums, Cises
  <1>2. Len(MediaAses(c, cfg)) \in CisNums
    BY DEF MediaAses, CisNums, Cises
  <1>3. 2 \in CisNums
    BY DEF CisNums, Cises
  <1> DEFINE n == IF Csis THEN 2 ELSE Len(MediaAses(c, cfg))
  <1>4. n \in CisNums
    BY <1>2, <1>3
  <1> HIDE DEF n
  <1>5. [cfg EXCEPT !.cis = n] \in Cfg
    BY <1>4, CfgCisType
  <1>6. [cfg EXCEPT !.cis = NumDevices(s, c)] \in Cfg
    BY <1>1, CfgCisType
  <1>7. CASE cfg.ctx = "MEDIA"
    BY <1>5, <1>7 DEF Counted, n
  <1>8. CASE cfg.ctx # "MEDIA"
    BY <1>6, <1>8 DEF Counted
  <1> QED  BY <1>7, <1>8

\* Every configuration that a handler passes on is one.
LEMMA ConfigurationTypes ==
  ASSUME NEW s, NEW c \in Conn, NEW cfg \in Cfg, NEW mode
  PROVE  /\ PlayCfg(s, c, cfg) \in Cfg /\ IncomingCfg(s, c, cfg) \in Cfg
         /\ MicCfg(s, c, cfg) \in Cfg /\ BidirCfg(s, c, cfg) \in Cfg
         /\ ResumeCfg(s, c, mode, cfg) \in Cfg
  <1>1. \A ctx \in Contexts : Counted(s, c, [cfg EXCEPT !.ctx = ctx]) \in Cfg
    BY CfgCtxType, CountedType
  <1>2. PlayCfg(s, c, cfg) \in Cfg
    BY <1>1, ContextFacts DEF PlayCfg
  <1>3. IncomingCfg(s, c, cfg) \in Cfg
    BY <1>1, ContextFacts DEF IncomingCfg
  <1>4. MicCfg(s, c, cfg) \in Cfg
    BY <1>1, ContextFacts DEF MicCfg
  <1>5. BidirCfg(s, c, cfg) \in Cfg
    BY <1>1, ContextFacts DEF BidirCfg
  <1>6. ResumeCfg(s, c, mode, cfg) \in Cfg
    BY <1>2, <1>3, <1>4, <1>5 DEF ResumeCfg, MEDIA, CALL, MIC, BIDIRMIC
  <1> QED  BY <1>2, <1>3, <1>4, <1>5, <1>6

-----------------------------------------------------------------------------
(* Media and call handlers                                                   *)

\* lepl_mcs_play keeps the modes, and GMCS is PLAYING after it.
LEMMA McsPlayOk ==
  ASSUME NEW s, Ok(s), NEW c \in Conn, NEW cfg \in Cfg
  PROVE  /\ Ok(McsPlay(s, c, cfg)) /\ SameMode(s, McsPlay(s, c, cfg))
         /\ McsPlay(s, c, cfg).media = "PLAYING"
  <1> DEFINE t == StartStreaming(s, c, PlayCfg(s, c, cfg))
  <1>1. Ok(t) /\ SameMode(s, t)
    BY ConfigurationTypes, StartStreamingOk DEF SamePlay
  <1>2. McsPlay(s, c, cfg) =
          IF s.media = "PLAYING" THEN s ELSE [t EXCEPT !.media = "PLAYING"]
    BY DEF McsPlay
  <1> HIDE DEF t
  <1>3. /\ Ok([t EXCEPT !.media = "PLAYING"])
        /\ SameMode(t, [t EXCEPT !.media = "PLAYING"])
        /\ [t EXCEPT !.media = "PLAYING"].media = "PLAYING"
    BY <1>1, SetMedia, StateFacts
  <1> QED  BY <1>1, <1>2, <1>3 DEF SameMode

\* lepl_mcs_pause keeps the modes.
LEMMA McsPauseOk ==
  ASSUME NEW s, Ok(s), NEW c \in Conn
  PROVE  Ok(McsPause(s, c)) /\ SameMode(s, McsPause(s, c))
  <1> DEFINE t == StopStreaming(s, c)
  <1>1. Ok(t) /\ SameMode(s, t)
    BY StopStreamingOk DEF SamePlay
  <1>2. McsPause(s, c) =
          IF s.media = "PAUSED" THEN s ELSE [t EXCEPT !.media = "PAUSED"]
    BY DEF McsPause
  <1> HIDE DEF t
  <1>3. /\ Ok([t EXCEPT !.media = "PAUSED"])
        /\ SameMode(t, [t EXCEPT !.media = "PAUSED"])
    BY <1>1, SetMedia, StateFacts
  <1> QED  BY <1>1, <1>2, <1>3 DEF SameMode

\* Announcing a call keeps the modes and the media state.
LEMMA IncomingCallOk ==
  ASSUME NEW s, Ok(s), NEW c \in Conn, NEW cfg \in Cfg
  PROVE  Ok(IncomingCall(s, c, cfg)) /\ SamePlay(s, IncomingCall(s, c, cfg))
  <1> DEFINE t == [s EXCEPT !.ccs = "INBAND_RINGTONE"]
             u == StartStreaming(t, c, IncomingCfg(s, c, cfg))
  <1>1. Ok(t) /\ SamePlay(s, t)
    BY SetCcs, StateFacts
  <1>2. IncomingCall(s, c, cfg) = IF RingtoneSupported(c) THEN u ELSE t
    BY DEF IncomingCall
  <1> HIDE DEF t
  <1>3. Ok(u) /\ SamePlay(t, u)
    BY <1>1, ConfigurationTypes, StartStreamingOk
  <1> HIDE DEF u
  <1> QED  BY <1>1, <1>2, <1>3 DEF SameMode, SamePlay

\* Resuming a mode keeps the audio mode; resuming MEDIA plays.
LEMMA ResumeStreamingOk ==
  ASSUME NEW s, Ok(s), NEW c \in Conn, NEW mode, NEW cfg \in Cfg
  PROVE  /\ Ok(ResumeStreaming(s, c, mode, cfg))
         /\ SameMode(s, ResumeStreaming(s, c, mode, cfg))
         /\ mode = MEDIA => ResumeStreaming(s, c, mode, cfg).media = "PLAYING"
  <1>1. CASE mode = MEDIA
    <2>1. ResumeStreaming(s, c, mode, cfg) = McsPlay(s, c, cfg)
      BY <1>1 DEF ResumeStreaming, MEDIA, CALL, MIC, BIDIRMIC
    <2> QED  BY <2>1, McsPlayOk
  <1>2. CASE mode = CALL
    <2>1. ResumeStreaming(s, c, mode, cfg) = IncomingCall(s, c, cfg)
      BY <1>2 DEF ResumeStreaming, MEDIA, CALL, MIC, BIDIRMIC
    <2> QED  BY <1>2, <2>1, IncomingCallOk, DistinctModes DEF SamePlay
  <1>3. CASE mode = MIC
    <2>1. ResumeStreaming(s, c, mode, cfg) =
            StartStreaming(s, c, MicCfg(s, c, cfg))
      BY <1>3 DEF ResumeStreaming, MEDIA, CALL, MIC, BIDIRMIC
    <2> QED  BY <1>3, <2>1, ConfigurationTypes, StartStreamingOk, DistinctModes
             DEF SamePlay
  <1>4. CASE mode = BIDIRMIC
    <2>1. ResumeStreaming(s, c, mode, cfg) =
            StartStreaming(s, c, BidirCfg(s, c, cfg))
      BY <1>4 DEF ResumeStreaming, MEDIA, CALL, MIC, BIDIRMIC
    <2> QED  BY <1>4, <2>1, ConfigurationTypes, StartStreamingOk, DistinctModes
             DEF SamePlay
  <1>5. CASE mode \notin {MEDIA, CALL, MIC, BIDIRMIC}
    <2>1. ResumeStreaming(s, c, mode, cfg) = s
      BY <1>5 DEF ResumeStreaming
    <2> QED  BY <1>5, <2>1 DEF SameMode
  <1> QED  BY <1>1, <1>2, <1>3, <1>4, <1>5

-----------------------------------------------------------------------------
(* The audio mode                                                            *)

\* A mode gives way to NONE, to one of at least its priority, or ends with
\* the call.
Prio(s, t) ==
    t.final < s.final => \/ t.final = NONE
                         \/ s.call # "FREE" /\ t.call = "FREE"

\* What every handler on a connected device keeps.
Kept(s, t) == AppInv(t) /\ Prio(s, t) /\ t.up = s.up

\* The ways in which a handler's final mode respects the priorities.
LEMMA PrioCases ==
  ASSUME NEW s, NEW t, s.final \in FinalModes, t.final \in FinalModes,
         \/ t.final = s.final \/ t.final = NONE \/ s.final = NONE
         \/ s.call # "FREE" /\ t.call = "FREE"
  PROVE  Prio(s, t)
  BY DEF Prio, FinalModes, Modes, NONE

\* The types of the fields that the handlers read.
LEMMA FinalType ==
  ASSUME NEW s, Ok(s)
  PROVE  /\ s.final \in FinalModes /\ s.mode \in Modes /\ s.final # IN_TRANSIT
         /\ s.cfg \in Cfg /\ s.pcfg \in Cfg /\ s.up \subseteq Conn
  BY ModeFacts, DeviceAssumption DEF Ok, App

\* lepl_cap_reset_audio_state establishes the invariant from any state.
LEMMA ResetOk ==
  ASSUME NEW s, Ok(s)
  PROVE  /\ AppInv(ResetAudioState(s)) /\ ResetAudioState(s).final = NONE
         /\ ResetAudioState(s).mode = NONE /\ ResetAudioState(s).paused = NONE
         /\ ResetAudioState(s).up = s.up /\ ResetAudioState(s).call = s.call
  <1> DEFINE t == ResetAudioState(s)
  <1>1. /\ t \in App /\ t.mode = NONE /\ t.final = NONE /\ t.paused = NONE
        /\ t.list = EmptyList /\ t.out = s.out /\ t.up = s.up
        /\ t.call = s.call
    BY ModeFacts, EmptyListType, ZeroCfgType DEF Ok, App, ResetAudioState
  <1>2. Listed(t)
    BY <1>1 DEF Ok, Listed, EmptyList
  <1> QED  BY <1>1, <1>2, DistinctModes DEF AppInv, Ok, Resumable

\* What SetNextAudioMode does to the audio state: it pauses the mode that is
\* on only if that is neither NONE nor a transition.
LEMMA SetNextOk ==
  ASSUME NEW s, Ok(s), NEW mode \in FinalModes, NEW cfg \in Cfg
  PROVE  LET t == SetNextAudioMode(s, mode, cfg)
         IN  /\ Ok(t) /\ t.mode = IN_TRANSIT /\ t.final = mode
             /\ t.up = s.up /\ t.call = s.call
             /\ mode = MEDIA => t.media = s.media
             /\ t.paused = IF mode # NONE /\ s.mode \notin {NONE, IN_TRANSIT}
                             THEN s.mode ELSE s.paused
  <1> DEFINE stable == s.mode \notin {NONE, IN_TRANSIT}
             pauses == mode # NONE /\ stable
             keeps  == mode = NONE /\ s.mode = MEDIA
             media  == IF pauses /\ s.paused = MEDIA /\ mode # MEDIA
                         THEN "INACTIVE" ELSE s.media
             paused == IF pauses THEN s.mode ELSE s.paused
             pcfg   == IF pauses \/ keeps THEN s.cfg ELSE s.pcfg
             t      == [s EXCEPT !.media = media, !.paused = paused,
                          !.pcfg = pcfg, !.cfg = cfg, !.final = mode,
                          !.mode = IN_TRANSIT]
  <1>1. SetNextAudioMode(s, mode, cfg) = t
    BY DEF SetNextAudioMode, Ok, App
  <1>2. media \in MediaStates /\ paused \in Modes /\ pcfg \in Cfg
    BY StateFacts DEF Ok, App
  <1>3. mode = MEDIA => media = s.media
    OBVIOUS
  <1>4. paused = IF pauses THEN s.mode ELSE s.paused
    OBVIOUS
  <1> HIDE DEF media, paused, pcfg
  <1>5. t \in App
    BY <1>2, ModeFacts DEF Ok, App
  <1>6. /\ t.mode = IN_TRANSIT /\ t.final = mode /\ t.up = s.up
        /\ t.call = s.call /\ t.media = media /\ t.paused = paused
        /\ t.list = s.list /\ t.out = s.out
    BY DEF Ok, App
  <1>7. Listed(t)
    BY <1>6 DEF Ok, Listed
  <1> HIDE DEF t
  <1> QED  BY <1>1, <1>3, <1>4, <1>5, <1>6, <1>7 DEF Ok

\* Returning to the paused mode establishes the invariant.
LEMMA ResumePausedOk ==
  ASSUME NEW s, Ok(s), NEW c \in Conn, s.paused \in Resumable,
         s.mode \in {NONE, IN_TRANSIT}
  PROVE  LET t == ResumePaused(s, c)
         IN  /\ AppInv(t) /\ t.final = s.paused
             /\ t.mode = IN_TRANSIT /\ t.paused = NONE
             /\ t.up = s.up /\ t.call = s.call
  <1> DEFINE cfg == ResumeCfg(s, c, s.paused, s.pcfg)
             r   == ResumeStreaming(s, c, s.paused, s.pcfg)
             u   == [r EXCEPT !.pcfg = cfg]
             v   == SetNextAudioMode(u, s.paused, cfg)
             t   == [v EXCEPT !.paused = NONE]
  <1>1. ResumePaused(s, c) = t
    BY DEF ResumePaused
  <1>2. cfg \in Cfg
    BY ConfigurationTypes, FinalType
  <1>3. Ok(r) /\ SameMode(s, r) /\ (s.paused = MEDIA => r.media = "PLAYING")
    BY ResumeStreamingOk, FinalType
  <1> HIDE DEF cfg, r
  <1>4. Ok(u) /\ SamePlay(r, u)
    BY <1>2, <1>3, SetCfg
  <1> HIDE DEF u
  <1>5. s.paused \in FinalModes
    BY ModeFacts
  <1>6. /\ Ok(v) /\ v.mode = IN_TRANSIT /\ v.final = s.paused
        /\ v.up = u.up /\ v.call = u.call
        /\ s.paused = MEDIA => v.media = u.media
    BY <1>2, <1>4, <1>5, SetNextOk
  <1> HIDE DEF v
  <1>7. /\ Ok(t) /\ t.mode = IN_TRANSIT /\ t.final = s.paused
        /\ t.up = v.up /\ t.call = v.call /\ t.media = v.media
        /\ t.paused = NONE
    BY <1>6, ModeFacts DEF Ok, App, Listed
  <1> HIDE DEF t
  <1> QED  BY <1>1, <1>3, <1>4, <1>6, <1>7
           DEF AppInv, SameMode, SamePlay, Resumable

\* The end of a release keeps the invariant and the priorities.
LEMMA ReleasedOk ==
  ASSUME NEW s, AppInv(s), s.mode = IN_TRANSIT, NEW c \in Conn
  PROVE  Kept(s, Released(s, c))
  <1> DEFINE t == [s EXCEPT !.list = EmptyList, !.releasing = FALSE]
  <1>1. /\ t \in App /\ t.list = EmptyList /\ t.out = s.out
        /\ t.cfg = s.cfg /\ SamePlay(s, t)
    BY EmptyListType DEF AppInv, Ok, App, SamePlay, SameMode
  <1>2. Ok(t)
    BY <1>1 DEF AppInv, Ok, Listed, EmptyList, SamePlay, SameMode
  <1> HIDE DEF t
  <1>3. CASE t.paused = NONE
    <2>1. Released(s, c) = [t EXCEPT !.mode = t.final]
      BY <1>3 DEF Released, t
    <2>2. t.final \in Modes
      BY <1>2, FinalType, ModeFacts
    <2>3. AppInv([t EXCEPT !.mode = t.final])
      BY <1>1, <1>2, <2>2, SetMode DEF AppInv, SamePlay, SameMode
    <2>4. /\ [t EXCEPT !.mode = t.final].final = s.final
          /\ [t EXCEPT !.mode = t.final].up = s.up
      BY <1>1, <1>2, <2>2, SetMode DEF SamePlay, SameMode
    <2> QED  BY <2>1, <2>3, <2>4, PrioCases, FinalType DEF Kept, AppInv
  <1>4. CASE t.paused # NONE /\ t.final # NONE
    <2> DEFINE r   == ResumeStreaming(t, c, t.final, t.cfg)
               cfg == ResumeCfg(t, c, t.final, t.cfg)
               u   == [r EXCEPT !.cfg = cfg]
    <2>1. Released(s, c) = u
      BY <1>4 DEF Released, t
    <2>2. /\ Ok(r) /\ SameMode(t, r)
          /\ t.final = MEDIA => r.media = "PLAYING"
      BY <1>2, ResumeStreamingOk, FinalType
    <2>3. cfg \in Cfg
      BY <1>2, ConfigurationTypes, FinalType
    <2> HIDE DEF r, cfg
    <2>4. Ok(u) /\ SamePlay(r, u)
      BY <2>2, <2>3, SetCfg
    <2> HIDE DEF u
    <2>5. AppInv(u) /\ u.final = s.final /\ u.up = s.up
      BY <1>1, <2>2, <2>4 DEF AppInv, SamePlay, SameMode
    <2> QED  BY <2>1, <2>5, PrioCases, FinalType DEF Kept, AppInv
  <1>5. CASE t.paused # NONE /\ t.final = NONE
    <2> DEFINE u == ResumePaused(t, c)
    <2>1. Released(s, c) = u
      BY <1>5 DEF Released, t
    <2>2. AppInv(u) /\ u.up = t.up
      BY <1>1, <1>2, ResumePausedOk DEF AppInv, SamePlay, SameMode
    <2> HIDE DEF u
    <2>3. s.final = NONE /\ u.up = s.up
      BY <1>1, <1>5, <2>2 DEF SamePlay, SameMode
    <2> QED  BY <2>1, <2>2, <2>3, PrioCases, FinalType DEF Kept, AppInv
  <1> QED  BY <1>3, <1>4, <1>5

-----------------------------------------------------------------------------
(* ASE notifications and ISO events                                          *)

\* A handler that keeps modes and media state keeps the invariant.
LEMMA SameKept ==
  ASSUME NEW s, AppInv(s), NEW t, Ok(t), SamePlay(s, t)
  PROVE  Kept(s, t)
  <1>1. AppInv(t) /\ t.final = s.final /\ t.up = s.up
    BY DEF AppInv, SamePlay, SameMode
  <1> QED  BY <1>1, PrioCases, FinalType DEF Kept, AppInv

\* Such a handler may precede one that keeps the invariant.
LEMMA KeptTrans ==
  ASSUME NEW s, AppInv(s), NEW t, Ok(t), SamePlay(s, t), NEW u, Kept(t, u)
  PROVE  Kept(s, u)
  BY DEF Kept, Prio, SamePlay, SameMode

\* Creating the CIG touches neither modes nor media state.
LEMMA SetCigParamOk ==
  ASSUME NEW s, Ok(s)
  PROVE  Ok(SetCigParam(s)) /\ SamePlay(s, SetCigParam(s))
  <1>1. s.cfg.cis \in CisNums
    BY DEF Ok, App, Cfg
  <1> DEFINE n == s.cfg.cis
             t == [s EXCEPT !.cig = n, !.cigEvt = TRUE]
  <1> HIDE DEF n
  <1>2. Ok(t) /\ SamePlay(s, t)
    BY <1>1 DEF Ok, App, Listed, SamePlay, SameMode, n
  <1>3. SetCigParam(s) = IF s.iso = {} /\ n > 0 THEN t ELSE s
    BY DEF SetCigParam, n
  <1> HIDE DEF t
  <1> QED  BY <1>2, <1>3 DEF SamePlay, SameMode

\* lepl_cap_update_audio_mode keeps the invariant in every ASE state.
LEMMA UpdateAudioModeOk ==
  ASSUME NEW s, AppInv(s), NEW c \in Conn, NEW st \in AseStates
  PROVE  Kept(s, UpdateAudioMode(s, c, st))
  <1> USE DEF AppInv
  <1>0. Kept(s, s)
    BY SameKept DEF SamePlay, SameMode
  <1>1. CASE s.mode # IN_TRANSIT
    BY <1>0, <1>1 DEF UpdateAudioMode
  <1>2. CASE s.mode = IN_TRANSIT /\ st \in {IDLE, CODEC_CONFIGURED}
    <2>1. UpdateAudioMode(s, c, st) = IF s.releasing THEN Released(s, c) ELSE s
      BY <1>2 DEF UpdateAudioMode, IDLE, CODEC_CONFIGURED, ENABLING, STREAMING
    <2> QED  BY <1>0, <1>2, <2>1, ReleasedOk
  <1>3. CASE s.mode = IN_TRANSIT /\ st = ENABLING
    <2> DEFINE t == SetCigParam(s)
               u == [t EXCEPT !.mode = s.final]
    <2>1. UpdateAudioMode(s, c, st) = u
      BY <1>3 DEF UpdateAudioMode, IDLE, CODEC_CONFIGURED, ENABLING, STREAMING
    <2>2. Ok(t) /\ SamePlay(s, t)
      BY SetCigParamOk
    <2> HIDE DEF t
    <2>3. s.final \in Modes
      BY FinalType, ModeFacts
    <2>4. /\ Ok(u) /\ u.mode = s.final /\ u.final = t.final
          /\ u.paused = t.paused /\ u.media = t.media /\ u.up = t.up
      BY <2>2, <2>3, SetMode
    <2> HIDE DEF u
    <2>5. AppInv(u) /\ u.final = s.final /\ u.up = s.up
      BY <2>2, <2>4 DEF SamePlay, SameMode
    <2> QED  BY <2>1, <2>5, PrioCases, FinalType DEF Kept
  <1>4. CASE s.mode = IN_TRANSIT /\ st = STREAMING
    <2> DEFINE m == IF s.ccs = "INBAND_RINGTONE" THEN s.mode ELSE s.final
               u == [s EXCEPT !.list = EmptyList, !.mode = m]
    <2>1. UpdateAudioMode(s, c, st) = u
      BY <1>4 DEF UpdateAudioMode, IDLE, CODEC_CONFIGURED, ENABLING, STREAMING,
                  Ok, App
    <2>2. m \in Modes /\ m \in {IN_TRANSIT, s.final}
      BY FinalType, ModeFacts
    <2> HIDE DEF m
    <2>3. /\ u \in App /\ u.mode = m /\ u.final = s.final /\ u.up = s.up
          /\ u.paused = s.paused /\ u.media = s.media
          /\ u.list = EmptyList /\ u.out = s.out
      BY <2>2, EmptyListType DEF Ok, App
    <2> HIDE DEF u
    <2>4. AppInv(u)
      BY <2>2, <2>3 DEF Ok, Listed, EmptyList
    <2> QED  BY <2>1, <2>3, <2>4, PrioCases, FinalType DEF Kept
  <1>5. CASE /\ s.mode = IN_TRANSIT
             /\ st \notin {IDLE, CODEC_CONFIGURED, ENABLING, STREAMING}
    BY <1>0, <1>5 DEF UpdateAudioMode
  <1> QED  BY <1>1, <1>2, <1>3, <1>4, <1>5

\* A control point write to a connected device keeps the modes.
LEMMA WriteCpOk ==
  ASSUME NEW s, Ok(s), NEW c \in s.up, NEW op \in CpOps, NEW a \in OwnAse(c)
  PROVE  Ok(WriteCp(s, c, op, a)) /\ SamePlay(s, WriteCp(s, c, op, a))
  <1> USE DEF Ok
  <1> DEFINE m == [op |-> op, ase |-> a]
             o == [s.out EXCEPT ![c] = Append(@, m)]
             t == [s EXCEPT !.out = o]
  <1>1. WriteCp(s, c, op, a) = t
    BY DEF WriteCp, App
  <1>2. m \in OwnMsg(c) /\ c \in Conn
    BY FinalType DEF OwnMsg, OwnAse, CpMsg
  <1> HIDE DEF m
  <1>3. \A d \in Conn : o[d] \in Seq(OwnMsg(d)) /\ o[d] \in Seq(CpMsg)
    <2> TAKE d \in Conn
    <2>1. s.out \in Writes /\ s.out[d] \in Seq(OwnMsg(d))
      BY DEF App, Listed
    <2>2. o[d] = IF d = c THEN Append(s.out[d], m) ELSE s.out[d]
      BY <1>2, <2>1 DEF Writes
    <2> HIDE DEF o
    <2>3. o[d] \in Seq(OwnMsg(d))
      BY <1>2, <2>1, <2>2
    <2>4. OwnMsg(d) \subseteq CpMsg
      BY DEF OwnMsg
    <2> QED  BY <2>3, <2>4
  <1>4. o \in Writes
    BY <1>3 DEF Writes, App
  <1>5. \A d \in Conn : d \notin s.up => o[d] = << >>
    BY DEF Listed, App, Writes
  <1> HIDE DEF o
  <1>6. t \in App /\ t.list = s.list /\ t.out = o /\ SamePlay(s, t)
    BY <1>4 DEF App, SamePlay, SameMode
  <1>7. Listed(t)
    BY <1>3, <1>5, <1>6 DEF Listed, SamePlay, SameMode
  <1> QED  BY <1>1, <1>6, <1>7

\* lepl_cap_create_cis keeps the modes and the media state.
LEMMA CreateCisOk ==
  ASSUME NEW s, Ok(s), NEW a \in Ase
  PROVE  Ok(CreateCis(s, a)) /\ SamePlay(s, CreateCis(s, a))
  <1> DEFINE i == s.iso \cup {s.cid[a]}
             t == [s EXCEPT !.iso = i]
  <1>1. CreateCis(s, a) = IF s.cid[a] \in 1..s.cig THEN t ELSE s
    BY DEF CreateCis, Ok, App
  <1>2. ASSUME s.cid[a] \in 1..s.cig
        PROVE  i \in SUBSET Cises
    <2>1. s.iso \in SUBSET Cises /\ s.cig \in CisNums
      BY DEF Ok, App
    <2>2. s.cid[a] \in Cises
      BY <1>2, <2>1 DEF CisNums, Cises
    <2> QED  BY <2>1, <2>2
  <1> HIDE DEF i
  <1>3. ASSUME i \in SUBSET Cises
        PROVE  Ok(t) /\ SamePlay(s, t)
    BY <1>3 DEF Ok, App, Listed, SamePlay, SameMode
  <1> HIDE DEF t
  <1> QED  BY <1>1, <1>2, <1>3 DEF SamePlay, SameMode

\* So does the disconnection of a CIS.
LEMMA DropCisOk ==
  ASSUME NEW s, Ok(s), NEW n
  PROVE  Ok(DropCis(s, n)) /\ SamePlay(s, DropCis(s, n))
  <1> DEFINE i == s.iso \ {n}
             g == IF i = {} THEN 0 ELSE s.cig
             t == [s EXCEPT !.iso = i, !.cig = g]
  <1>1. DropCis(s, n) = t
    BY DEF DropCis, Ok, App
  <1>2. i \in SUBSET Cises /\ g \in CisNums
    BY DEF Ok, App, CisNums
  <1> HIDE DEF i, g
  <1> QED  BY <1>1, <1>2 DEF Ok, App, Listed, SamePlay, SameMode

\* And the teardown of the CIS of an ASE.
LEMMA TearDownOk ==
  ASSUME NEW s, Ok(s), NEW a \in Ase
  PROVE  Ok(TearDown(s, a)) /\ SamePlay(s, TearDown(s, a))
  BY DropCisOk DEF TearDown

\* A data path that is not set up leaves the new state of the ASE only.
LEMMA PathFailedOk ==
  ASSUME NEW s, Ok(s), NEW a \in Ase, NEW st \in AseStates
  PROVE  Ok(PathFailed(s, a, st)) /\ SamePlay(s, PathFailed(s, a, st))
  <1> DEFINE ast == [s.ast EXCEPT ![a] = st]
             t   == [s EXCEPT !.ast = ast]
  <1>1. PathFailed(s, a, st) = t
    BY DEF PathFailed, Ok, App
  <1>2. ast \in AseState
    BY DEF Ok, App, AseState
  <1> HIDE DEF ast
  <1> QED  BY <1>1, <1>2 DEF Ok, App, Listed, SamePlay, SameMode

\* lepl_cap_ascs_state_update: at most a write or a CIS, then the audio mode.
LEMMA StateUpdateLast ==
  ASSUME NEW s, Ok(s), NEW c \in s.up, NEW a \in OwnAse(c)
  PROVE  \E t : /\ Ok(t) /\ SamePlay(s, t)
               /\ \/ AscsStateUpdate(s, c, a) = t
                  \/ \E x \in AseStates :
                       AscsStateUpdate(s, c, a) = UpdateAudioMode(t, c, x)
  <1> DEFINE st == s.ast[a]
             t  == CASE ~s.releasing /\ st = CODEC_CONFIGURED ->
                            WriteCp(s, c, "CONFIG_QOS", a)
                     [] ~s.releasing /\ st = QOS_CONFIGURED ->
                            WriteCp(s, c, "ENABLE", a)
                     [] ~s.releasing /\ st = ENABLING /\ s.mode # IN_TRANSIT ->
                            CreateCis(s, a)
                     [] OTHER -> s
  <1>1. a \in Ase /\ st \in AseStates
    BY DEF OwnAse, Ok, App, AseState
  <1>2. Ok(t) /\ SamePlay(s, t)
    <2>1. /\ Ok(WriteCp(s, c, "CONFIG_QOS", a))
          /\ SamePlay(s, WriteCp(s, c, "CONFIG_QOS", a))
          /\ Ok(WriteCp(s, c, "ENABLE", a))
          /\ SamePlay(s, WriteCp(s, c, "ENABLE", a))
      BY WriteCpOk, StateFacts
    <2>2. Ok(CreateCis(s, a)) /\ SamePlay(s, CreateCis(s, a))
      BY <1>1, CreateCisOk
    <2>3. Ok(s) /\ SamePlay(s, s)
      BY DEF SamePlay, SameMode
    <2> HIDE DEF st
    <2>4. \/ t = WriteCp(s, c, "CONFIG_QOS", a) \/ t = WriteCp(s, c, "ENABLE", a)
          \/ t = CreateCis(s, a) \/ t = s
      BY DEF CODEC_CONFIGURED, QOS_CONFIGURED, ENABLING
    <2> HIDE DEF t
    <2> QED  BY <2>1, <2>2, <2>3, <2>4
  <1>3. AscsStateUpdate(s, c, a) =
          IF AllInState(t, st) THEN UpdateAudioMode(t, c, st) ELSE t
    BY DEF AscsStateUpdate
  <1> HIDE DEF t, st
  <1> QED  BY <1>1, <1>2, <1>3

\* The handler of an ASE notification: what it does before the audio mode
\* leaves modes, call and media state alone.
LEMMA NotificationLast ==
  ASSUME NEW s, Ok(s), NEW c \in s.up, NEW a \in OwnAse(c),
         NEW st \in AseStates
  PROVE  \E t : /\ Ok(t) /\ SamePlay(s, t)
               /\ \/ AseNotification(s, c, a, st) = t
                  \/ \E x \in AseStates :
                       AseNotification(s, c, a, st) = UpdateAudioMode(t, c, x)
  <1> DEFINE ast == [s.ast EXCEPT ![a] = st]
             t   == [s EXCEPT !.ast = ast]
             u   == CASE st = IDLE      -> [t EXCEPT !.cid[a] = 0]
                      [] st = DISABLING -> WriteCp(t, c, "RECEIVER_STOP_READY", a)
                      [] st = RELEASING -> TearDown(t, a)
                      [] OTHER          -> t
  <1>1. a \in Ase /\ ast \in AseState
    BY DEF OwnAse, Ok, App, AseState
  <1>2. AseNotification(s, c, a, st) = AscsStateUpdate(u, c, a)
    BY DEF AseNotification, Ok, App
  <1> HIDE DEF ast
  <1>3. Ok(t) /\ SamePlay(s, t)
    BY <1>1 DEF Ok, App, Listed, SamePlay, SameMode
  <1> HIDE DEF t
  <1>4. Ok(u) /\ SamePlay(t, u)
    <2> DEFINE cid == [t.cid EXCEPT ![a] = 0]
               v   == [t EXCEPT !.cid = cid]
    <2>1. [t EXCEPT !.cid[a] = 0] = v
      BY <1>3 DEF Ok, App
    <2>2. cid \in CisIds
      BY <1>1, <1>3 DEF Ok, App, CisIds, CisNums
    <2> HIDE DEF cid
    <2>3. Ok(v) /\ SamePlay(t, v)
      BY <1>3, <2>2 DEF Ok, App, Listed, SamePlay, SameMode
    <2> HIDE DEF v
    <2>4. c \in t.up
      BY <1>3 DEF SamePlay, SameMode
    <2>5. /\ Ok(WriteCp(t, c, "RECEIVER_STOP_READY", a))
          /\ SamePlay(t, WriteCp(t, c, "RECEIVER_STOP_READY", a))
      BY <1>3, <2>4, WriteCpOk, StateFacts
    <2>6. Ok(TearDown(t, a)) /\ SamePlay(t, TearDown(t, a))
      BY <1>1, <1>3, TearDownOk
    <2>7. SamePlay(t, t)
      BY DEF SamePlay, SameMode
    <2>8. \/ u = v \/ u = WriteCp(t, c, "RECEIVER_STOP_READY", a)
          \/ u = TearDown(t, a) \/ u = t
      BY <2>1 DEF IDLE, DISABLING, RELEASING
    <2> HIDE DEF u
    <2> QED  BY <1>3, <2>3, <2>5, <2>6, <2>7, <2>8
  <1> HIDE DEF u
  <1>5. Ok(u) /\ SamePlay(s, u)
    BY <1>3, <1>4 DEF SamePlay, SameMode
  <1>6. c \in u.up
    BY <1>5 DEF SamePlay, SameMode
  <1>7. PICK w : /\ Ok(w) /\ SamePlay(u, w)
                 /\ \/ AscsStateUpdate(u, c, a) = w
                    \/ \E x \in AseStates :
                         AscsStateUpdate(u, c, a) = UpdateAudioMode(w, c, x)
    BY <1>5, <1>6, StateUpdateLast
  <1>8. SamePlay(s, w)
    BY <1>5, <1>7 DEF SamePlay, SameMode
  <1> QED  BY <1>2, <1>7, <1>8

\* The handler of an ASE notification keeps the invariant.
LEMMA AseNotificationOk ==
  ASSUME NEW s, AppInv(s), NEW c \in s.up, NEW a \in OwnAse(c),
         NEW st \in AseStates
  PROVE  Kept(s, AseNotification(s, c, a, st))
  <1>1. PICK t : /\ Ok(t) /\ SamePlay(s, t)
                 /\ \/ AseNotification(s, c, a, st) = t
                    \/ \E x \in AseStates :
                         AseNotification(s, c, a, st) = UpdateAudioMode(t, c, x)
    BY NotificationLast DEF AppInv
  <1>2. Kept(s, t) /\ AppInv(t) /\ c \in Conn
    BY <1>1, SameKept, FinalType DEF Kept, AppInv
  <1>3. ASSUME NEW x \in AseStates
        PROVE  Kept(s, UpdateAudioMode(t, c, x))
    BY <1>1, <1>2, UpdateAudioModeOk, KeptTrans
  <1> QED  BY <1>1, <1>2, <1>3

\* The handler of an error response keeps the invariant.
LEMMA AscsErrorResponseOk ==
  ASSUME NEW s, AppInv(s), NEW c \in s.up
  PROVE  Kept(s, AscsErrorResponse(s, c))
  <1> DEFINE t == CASE s.final = MEDIA -> McsPause(s, c)
                    [] s.final \in {CALL, BIDIRMIC, MIC} -> StopStreaming(s, c)
                    [] OTHER -> s
  <1>1. AscsErrorResponse(s, c) = ResetAudioState(t)
    BY DEF AscsErrorResponse
  <1>2. c \in Conn /\ Ok(s)
    BY FinalType DEF AppInv
  <1>3. Ok(McsPause(s, c)) /\ McsPause(s, c).up = s.up
    BY <1>2, McsPauseOk DEF SameMode
  <1>4. Ok(StopStreaming(s, c)) /\ StopStreaming(s, c).up = s.up
    BY <1>2, StopStreamingOk DEF SamePlay, SameMode
  <1>5. t = McsPause(s, c) \/ t = StopStreaming(s, c) \/ t = s
    BY DEF MEDIA, CALL, BIDIRMIC, MIC
  <1> HIDE DEF t
  <1>6. Ok(t) /\ t.up = s.up
    BY <1>2, <1>3, <1>4, <1>5
  <1> QED  BY <1>1, <1>2, <1>6, ResetOk, PrioCases, FinalType DEF Kept, AppInv

\* The handler of the CIG completion keeps the invariant, and the modes.
LEMMA CigCompleteOk ==
  ASSUME NEW s, AppInv(s)
  PROVE  Kept(s, CigComplete(s)) /\ SamePlay(s, CigComplete(s))
  <1> DEFINE ases == IF s.final = MIC THEN Src[1] \o Src[2] ELSE Snk[1] \o Snk[2]
             made == {i \in 1..s.cig :
                        \E a \in FindAse(s, i, ases) : s.ast[a] >= QOS_CONFIGURED}
             iso  == s.iso \cup made
             t    == [s EXCEPT !.cigEvt = FALSE, !.iso = iso]
  <1>1. CigComplete(s) = t
    BY DEF CigComplete, AppInv, Ok, App
  <1>2. made \subseteq 1..s.cig
    OBVIOUS
  <1> HIDE DEF made
  <1>3. s.cig \in CisNums /\ s.iso \in SUBSET Cises
    BY DEF AppInv, Ok, App
  <1>4. \A n \in CisNums : 1..n \subseteq Cises
    BY DEF CisNums, Cises
  <1>5. iso \in SUBSET Cises
    BY <1>2, <1>3, <1>4
  <1> HIDE DEF iso
  <1>6. Ok(t) /\ SamePlay(s, t)
    BY <1>5 DEF AppInv, Ok, App, Listed, SamePlay, SameMode
  <1> QED  BY <1>1, <1>6, SameKept

-----------------------------------------------------------------------------
(* The host's commands                                                       *)

\* u is s as far as the audio mode and the connections go.
SameAudio(s, u) ==
    /\ u.mode = s.mode /\ u.final = s.final /\ u.paused = s.paused
    /\ u.up = s.up

\* A handler that ends in SetNextAudioMode: to NONE from anywhere, or to a
\* mode of at least the priority of the one that is left.
LEMMA NextKept ==
  ASSUME NEW s, AppInv(s), NEW u, Ok(u), SameAudio(s, u),
         NEW mode \in FinalModes, NEW cfg \in Cfg,
         mode = MEDIA => u.media = "PLAYING",
         \/ mode = NONE
         \/ /\ s.mode \in Resumable \cup {IN_TRANSIT}
            /\ s.final = NONE \/ s.final <= mode
  PROVE  /\ Kept(s, SetNextAudioMode(u, mode, cfg))
         /\ SetNextAudioMode(u, mode, cfg).mode = IN_TRANSIT
         /\ SetNextAudioMode(u, mode, cfg).final = mode
         /\ mode = NONE => SetNextAudioMode(u, mode, cfg).paused = s.paused
  <1> DEFINE t == SetNextAudioMode(u, mode, cfg)
  <1>1. /\ Ok(t) /\ t.mode = IN_TRANSIT /\ t.final = mode /\ t.up = u.up
        /\ mode = MEDIA => t.media = u.media
        /\ \/ t.paused = u.paused
           \/ mode # NONE /\ u.mode \notin {NONE, IN_TRANSIT} /\ t.paused = u.mode
    BY SetNextOk
  <1> HIDE DEF t
  <1>2. t.paused \in Resumable
    BY <1>1 DEF SameAudio, AppInv
  <1>3. AppInv(t)
    BY <1>1, <1>2 DEF AppInv
  <1>4. Prio(s, t)
    <2>1. s.final \in FinalModes
      BY FinalType DEF AppInv
    <2>2. CASE mode = NONE \/ s.final = NONE
      BY <1>1, <2>1, <2>2, PrioCases
    <2>3. CASE s.final <= mode
      BY <1>1, <2>1, <2>3 DEF Prio, FinalModes, Modes
    <2> QED  BY <2>2, <2>3
  <1>5. mode = NONE => t.paused = s.paused
    BY <1>1 DEF SameAudio
  <1> QED  BY <1>1, <1>3, <1>4, <1>5 DEF Kept, SameAudio, t

\* lepl_rpc_stop_streaming succeeds only for a mode that can be resumed and
\* that has no priority over the next one.
LEMMA NotRefused ==
  ASSUME NEW s, AppInv(s), NEW next \in FinalModes, ~StopRefused(s, next)
  PROVE  /\ s.mode \in Resumable \cup {IN_TRANSIT}
         /\ next = NONE \/ s.final <= next
  <1>1. LeftMode(s) = s.final /\ s.final \in FinalModes
    BY FinalType DEF AppInv, LeftMode
  <1>2. s.final \in Resumable
    BY <1>1 DEF StopRefused, Resumable
  <1>3. next = NONE \/ s.final <= next
    BY <1>1 DEF StopRefused, FinalModes, Modes
  <1> QED  BY <1>2, <1>3 DEF AppInv

\* In mode NONE a command starts its mode with nothing to leave.
LEMMA NoneIdle ==
  ASSUME NEW s, AppInv(s), s.mode = NONE
  PROVE  s.final = NONE /\ s.mode \in Resumable \cup {IN_TRANSIT}
  BY DEF AppInv, Resumable, NONE, IN_TRANSIT

\* Stopping a stream for the next mode keeps the modes.
LEMMA StopForNextOk ==
  ASSUME NEW s, Ok(s), NEW c \in Conn
  PROVE  Ok(StopForNext(s, c)) /\ SameMode(s, StopForNext(s, c))
  BY McsPauseOk, StopStreamingOk DEF StopForNext, SamePlay

\* The modes that the handlers pass on are final modes.
LEMMA ModeNames ==
  /\ NONE \in FinalModes /\ MEDIA \in FinalModes /\ MIC \in FinalModes
  /\ BIDIRMIC \in FinalModes /\ CALL \in FinalModes /\ BROADCAST \in FinalModes
  BY ModeFacts

\* A handler that keeps the modes keeps what a transition depends on.
LEMMA SameModeAudio ==
  ASSUME NEW s, NEW u, SameMode(s, u)
  PROVE  SameAudio(s, u)
  BY DEF SameMode, SameAudio

\* The commands that stop a stream.
LEMMA StopCommands ==
  ASSUME NEW s, AppInv(s), NEW c \in Conn
  PROVE  /\ Kept(s, RpcStopStreaming(s, c)) /\ Kept(s, RpcPause(s, c))
         /\ Kept(s, StopVoiceCapture(s, c)) /\ Kept(s, StopBidirMic(s, c))
  <1>1. Ok(s)
    BY DEF AppInv
  <1>2. \A u : Ok(u) /\ SameMode(s, u) =>
                 Kept(s, SetNextAudioMode(u, NONE, ZeroCfg))
    BY NextKept, SameModeAudio, ModeNames, ZeroCfgType, DistinctModes
  <1>3. Kept(s, RpcStopStreaming(s, c))
    BY <1>1, <1>2, StopForNextOk DEF RpcStopStreaming
  <1>4. Kept(s, RpcPause(s, c))
    BY <1>1, <1>2, McsPauseOk DEF RpcPause
  <1>5. Kept(s, StopVoiceCapture(s, c))
    BY <1>1, <1>2, StopStreamingOk DEF StopVoiceCapture, SamePlay
  <1>6. Kept(s, StopBidirMic(s, c))
    BY <1>1, <1>2, StopStreamingOk DEF StopBidirMic, SamePlay
  <1> QED  BY <1>3, <1>4, <1>5, <1>6

\* The play command keeps the invariant.
LEMMA RpcPlayOk ==
  ASSUME NEW s, AppInv(s), NEW c \in Conn, NEW cfg \in Cfg, s.mode = NONE
  PROVE  Kept(s, RpcPlay(s, c, cfg))
  <1> DEFINE u == McsPlay(s, c, cfg)
  <1>1. Ok(u) /\ SameMode(s, u) /\ u.media = "PLAYING"
    BY McsPlayOk DEF AppInv
  <1>2. PlayCfg(s, c, cfg) \in Cfg
    BY ConfigurationTypes
  <1>3. RpcPlay(s, c, cfg) = SetNextAudioMode(u, MEDIA, PlayCfg(s, c, cfg))
    BY DEF RpcPlay
  <1> HIDE DEF u
  <1> QED  BY <1>1, <1>2, <1>3, NextKept, SameModeAudio, ModeNames, NoneIdle

\* A play that a peer writes keeps the invariant.
LEMMA GmcsPlayOk ==
  ASSUME NEW s, AppInv(s), NEW c \in Conn, s.mode = NONE
  PROVE  Kept(s, GmcsPlay(s, c))
  <1> DEFINE cfg == PlayCfg(s, c, s.pcfg)
             u   == McsPlay(s, c, s.pcfg)
             v   == [u EXCEPT !.pcfg = cfg]
  <1>1. s.pcfg \in Cfg
    BY FinalType DEF AppInv
  <1>2. Ok(u) /\ SameMode(s, u) /\ u.media = "PLAYING"
    BY <1>1, McsPlayOk DEF AppInv
  <1>3. cfg \in Cfg
    BY <1>1, ConfigurationTypes
  <1>4. GmcsPlay(s, c) = SetNextAudioMode(v, MEDIA, cfg)
    BY DEF GmcsPlay
  <1> HIDE DEF u, cfg
  <1>5. Ok(v) /\ SamePlay(u, v)
    BY <1>2, <1>3, SetCfg
  <1> HIDE DEF v
  <1>6. SameAudio(s, v) /\ v.media = "PLAYING"
    BY <1>2, <1>5 DEF SamePlay, SameMode, SameAudio
  <1> QED  BY <1>3, <1>4, <1>5, <1>6, NextKept, ModeNames, NoneIdle

\* A start of the voice capture or of the bidirectional stream that is not
\* refused.
LEMMA StartCommands ==
  ASSUME NEW s, AppInv(s), NEW c \in Conn, NEW cfg \in Cfg
  PROVE  /\ s.mode = NONE \/ ~StopRefused(s, MIC) =>
              Kept(s, StartVoiceCapture(s, c, cfg))
         /\ s.mode = NONE \/ ~StopRefused(s, BIDIRMIC) =>
              Kept(s, StartBidirMic(s, c, cfg))
  <1>1. Ok(s)
    BY DEF AppInv
  <1>2. /\ Ok(StopForNext(s, c)) /\ SameAudio(s, StopForNext(s, c))
    BY <1>1, StopForNextOk, SameModeAudio
  <1>3. \A g \in Cfg : /\ Ok(StartStreaming(s, c, g))
                       /\ SameAudio(s, StartStreaming(s, c, g))
    BY <1>1, StartStreamingOk, SameModeAudio DEF SamePlay
  <1>4. /\ MicCfg(s, c, cfg) \in Cfg /\ BidirCfg(s, c, cfg) \in Cfg
        /\ [cfg EXCEPT !.ctx = "GAME"] \in Cfg
    BY ConfigurationTypes, CfgCtxType, ContextFacts
  <1>5. CASE s.mode = NONE
    <2>1. StartVoiceCapture(s, c, cfg) =
            SetNextAudioMode(StartStreaming(s, c, MicCfg(s, c, cfg)), MIC,
                             MicCfg(s, c, cfg))
      BY <1>5 DEF StartVoiceCapture
    <2>2. StartBidirMic(s, c, cfg) =
            SetNextAudioMode(StartStreaming(s, c, BidirCfg(s, c, cfg)), BIDIRMIC,
                             BidirCfg(s, c, cfg))
      BY <1>5 DEF StartBidirMic
    <2> QED  BY <1>3, <1>4, <1>5, <2>1, <2>2, NextKept, ModeNames, NoneIdle,
                DistinctModes
  <1>6. ASSUME s.mode # NONE, ~StopRefused(s, MIC)
        PROVE  Kept(s, StartVoiceCapture(s, c, cfg))
    <2>1. StartVoiceCapture(s, c, cfg) =
            SetNextAudioMode(StopForNext(s, c), MIC, cfg)
      BY <1>6 DEF StartVoiceCapture
    <2>2. s.mode \in Resumable \cup {IN_TRANSIT} /\ s.final <= MIC
      BY <1>6, NotRefused, ModeNames, DistinctModes
    <2> QED  BY <1>2, <2>1, <2>2, NextKept, ModeNames, DistinctModes
  <1>7. ASSUME s.mode # NONE, ~StopRefused(s, BIDIRMIC)
        PROVE  Kept(s, StartBidirMic(s, c, cfg))
    <2>1. StartBidirMic(s, c, cfg) =
            SetNextAudioMode(StopForNext(s, c), BIDIRMIC,
                             [cfg EXCEPT !.ctx = "GAME"])
      BY <1>7 DEF StartBidirMic
    <2>2. s.mode \in Resumable \cup {IN_TRANSIT} /\ s.final <= BIDIRMIC
      BY <1>7, NotRefused, ModeNames, DistinctModes
    <2> QED  BY <1>2, <1>4, <2>1, <2>2, NextKept, ModeNames, DistinctModes
  <1> QED  BY <1>5, <1>6, <1>7

\* Registering a call leaves the audio state alone.
LEMMA RegisterCallOk ==
  ASSUME NEW s, Ok(s)
  PROVE  Ok(RegisterCall(s)) /\ SameAudio(s, RegisterCall(s))
  BY SetCall, StateFacts DEF RegisterCall, SameAudio

\* An incoming call keeps the invariant.
LEMMA GenerateCallOk ==
  ASSUME NEW s, AppInv(s), NEW c \in Conn, NEW cfg \in Cfg,
         s.mode = NONE \/ ~StopRefused(s, CALL)
  PROVE  Kept(s, GenerateCall(s, c, cfg))
  <1>1. Ok(s)
    BY DEF AppInv
  <1>2. CASE s.mode = NONE
    <2> DEFINE u == IncomingCall(RegisterCall(s), c, cfg)
    <2>1. Ok(RegisterCall(s)) /\ SameAudio(s, RegisterCall(s))
      BY <1>1, RegisterCallOk
    <2>2. Ok(u) /\ SamePlay(RegisterCall(s), u)
      BY <2>1, IncomingCallOk
    <2>3. GenerateCall(s, c, cfg) =
            SetNextAudioMode(u, CALL, IncomingCfg(s, c, cfg))
      BY <1>2 DEF GenerateCall
    <2> HIDE DEF u
    <2>4. SameAudio(s, u)
      BY <2>1, <2>2 DEF SamePlay, SameMode, SameAudio
    <2>5. IncomingCfg(s, c, cfg) \in Cfg
      BY ConfigurationTypes
    <2> QED  BY <1>2, <2>2, <2>3, <2>4, <2>5, NextKept, ModeNames, NoneIdle,
                DistinctModes
  <1>3. CASE s.mode # NONE
    <2> DEFINE u == RegisterCall(StopForNext(s, c))
    <2>1. Ok(StopForNext(s, c)) /\ SameAudio(s, StopForNext(s, c))
      BY <1>1, StopForNextOk, SameModeAudio
    <2>2. Ok(u) /\ SameAudio(StopForNext(s, c), u)
      BY <2>1, RegisterCallOk
    <2>3. GenerateCall(s, c, cfg) = SetNextAudioMode(u, CALL, cfg)
      BY <1>3 DEF GenerateCall
    <2> HIDE DEF u
    <2>4. SameAudio(s, u)
      BY <2>1, <2>2 DEF SameAudio
    <2>5. s.mode \in Resumable \cup {IN_TRANSIT} /\ s.final <= CALL
      BY <1>3, NotRefused, ModeNames, DistinctModes
    <2> QED  BY <2>2, <2>3, <2>4, <2>5, NextKept, ModeNames, DistinctModes
  <1> QED  BY <1>2, <1>3

\* The end of a call keeps the invariant.
LEMMA TerminateCallOk ==
  ASSUME NEW s, AppInv(s), NEW c \in Conn, s.call # "FREE"
  PROVE  Kept(s, TerminateCall(s, c))
  <1> DEFINE r == StopStreaming(s, c)
             q == [r EXCEPT !.call = "FREE"]
             t == SetNextAudioMode(q, NONE, ZeroCfg)
             n == [t EXCEPT !.mode = NONE]
             u == IF s.ccs # "INBAND_RINGTONE" \/ RingtoneSupported(c) THEN t
                  ELSE IF t.paused = NONE THEN n ELSE ResumePaused(n, c)
  <1>1. TerminateCall(s, c) = [u EXCEPT !.ccs = "IDLE"]
    BY DEF TerminateCall
  <1>2. Ok(r) /\ SamePlay(s, r)
    BY StopStreamingOk DEF AppInv
  <1> HIDE DEF r
  <1>3. Ok(q) /\ q.call = "FREE" /\ SameAudio(s, q)
    BY <1>2, SetCall, StateFacts DEF SamePlay, SameMode, SameAudio
  <1> HIDE DEF q
  <1>4. Kept(s, t) /\ t.final = NONE /\ t.paused = s.paused /\ t.call = "FREE"
    <2>1. t.call = q.call
      BY <1>3, SetNextOk, ModeNames, ZeroCfgType
    <2> QED  BY <1>3, <2>1, NextKept, ModeNames, ZeroCfgType, DistinctModes
  <1> HIDE DEF t
  <1>5. /\ Ok(n) /\ n.mode = NONE /\ n.final = NONE /\ n.paused = s.paused
        /\ n.up = s.up /\ n.call = "FREE"
    BY <1>4, SetMode, ModeFacts DEF Kept, AppInv
  <1> HIDE DEF n
  <1>6. AppInv(n)
    BY <1>5, DistinctModes DEF AppInv
  <1>7. LET p == ResumePaused(n, c)
        IN  AppInv(p) /\ p.up = s.up /\ p.call = "FREE"
    BY <1>5, ResumePausedOk DEF AppInv
  <1>8. AppInv(u) /\ u.up = s.up /\ u.call = "FREE"
    BY <1>4, <1>5, <1>6, <1>7 DEF Kept
  <1> HIDE DEF u
  <1> DEFINE w == [u EXCEPT !.ccs = "IDLE"]
  <1>9. Ok(w) /\ SamePlay(u, w)
    BY <1>8, SetCcs, StateFacts DEF AppInv
  <1> HIDE DEF w
  <1>10. AppInv(w) /\ w.up = s.up /\ w.call = "FREE"
    BY <1>8, <1>9 DEF AppInv, SamePlay, SameMode
  <1> QED  BY <1>1, <1>10, PrioCases, FinalType DEF Kept, AppInv, w

\* Starting and stopping a broadcast keep the invariant.
LEMMA BroadcastOk ==
  ASSUME NEW s, AppInv(s)
  PROVE  /\ s.mode = NONE => Kept(s, StartBroadcast(s))
         /\ Kept(s, StopBroadcast(s))
  <1>1. SameAudio(s, s) /\ Ok(s)
    BY DEF SameAudio, AppInv
  <1>2. ASSUME s.mode = NONE
        PROVE  Kept(s, StartBroadcast(s))
    <2> DEFINE t == SetNextAudioMode(s, BROADCAST, ZeroCfg)
               u == [t EXCEPT !.mode = BROADCAST, !.big = TRUE]
    <2>1. Kept(s, t) /\ t.final = BROADCAST
      BY <1>1, <1>2, NextKept, ModeNames, ZeroCfgType, NoneIdle, DistinctModes
    <2> HIDE DEF t
    <2>2. /\ Ok(u) /\ u.mode = BROADCAST /\ u.final = BROADCAST
          /\ u.paused = t.paused /\ u.up = s.up
      BY <2>1, ModeFacts DEF Kept, AppInv, Ok, App, Listed
    <2> HIDE DEF u
    <2>3. AppInv(u)
      BY <2>1, <2>2, DistinctModes DEF Kept, AppInv
    <2>4. s.final = NONE
      BY <1>2, NoneIdle
    <2>5. StartBroadcast(s) = u
      BY DEF StartBroadcast, t, u
    <2> QED  BY <2>2, <2>3, <2>4, <2>5, PrioCases, FinalType DEF Kept, AppInv
  <1>3. Kept(s, StopBroadcast(s))
    <2> DEFINE t == SetNextAudioMode(s, NONE, ZeroCfg)
               u == [t EXCEPT !.mode = NONE, !.big = FALSE]
    <2>1. Kept(s, t) /\ t.final = NONE
      BY <1>1, NextKept, ModeNames, ZeroCfgType, DistinctModes
    <2> HIDE DEF t
    <2>2. /\ Ok(u) /\ u.mode = NONE /\ u.final = NONE
          /\ u.paused = t.paused /\ u.up = s.up
      BY <2>1, ModeFacts DEF Kept, AppInv, Ok, App, Listed
    <2> HIDE DEF u
    <2>3. AppInv(u)
      BY <2>1, <2>2, DistinctModes DEF Kept, AppInv
    <2>4. StopBroadcast(s) = u
      BY DEF StopBroadcast, t, u
    <2> QED  BY <2>2, <2>3, <2>4, PrioCases, FinalType DEF Kept, AppInv
  <1> QED  BY <1>2, <1>3

\* A state of the application that differs in its call only is kept.
LEMMA CallKept ==
  ASSUME NEW s, AppInv(s), NEW x \in CallStates
  PROVE  Kept(s, [s EXCEPT !.call = x])
  <1> DEFINE u == [s EXCEPT !.call = x]
  <1>1. Ok(u) /\ SameAudio(s, u) /\ u.media = s.media
    BY SetCall DEF AppInv, SameAudio
  <1> HIDE DEF u
  <1>2. AppInv(u) /\ u.final = s.final /\ u.up = s.up
    BY <1>1 DEF AppInv, SameAudio
  <1>3. Kept(s, u)
    BY <1>2, PrioCases, FinalType DEF Kept, AppInv
  <1> QED  BY <1>3 DEF u

\* Holding, retrieving and joining a call keep the invariant.
LEMMA HeldCallOk ==
  ASSUME NEW s, AppInv(s)
  PROVE  /\ Kept(s, HoldCall(s)) /\ Kept(s, RetrieveCall(s))
         /\ Kept(s, JoinCall(s)) /\ Kept(s, RemotelyHoldCall(s))
         /\ Kept(s, RetrieveRemotelyHoldCall(s))
  <1>1. s.call \in CallStates
    BY DEF AppInv, Ok, App
  <1>2. Kept(s, HoldCall(s))
    BY CallKept, StateFacts DEF HoldCall
  <1>3. Kept(s, RetrieveCall(s)) /\ Kept(s, JoinCall(s))
    BY <1>1, CallKept, StateFacts DEF RetrieveCall, JoinCall
  <1>4. Kept(s, RemotelyHoldCall(s))
    BY CallKept, StateFacts DEF RemotelyHoldCall
  <1>5. Kept(s, RetrieveRemotelyHoldCall(s))
    BY <1>1, CallKept, StateFacts DEF RetrieveRemotelyHoldCall
  <1> QED  BY <1>2, <1>3, <1>4, <1>5

\* Accepting and placing a call keep the invariant.
LEMMA PeerCallOk ==
  ASSUME NEW s, AppInv(s), NEW c \in Conn
  PROVE  Kept(s, AcceptCall(s, c)) /\ Kept(s, PlaceCall(s))
  <1> DEFINE t   == [s EXCEPT !.call = "ACTIVE"]
             cfg == Counted(s, c, [s.cfg EXCEPT !.ctx = "CONVERSATIONAL"])
             ring == [t EXCEPT !.ccs = "INBAND_RINGTONE_CONVO"]
             conv == [t EXCEPT !.ccs = "CONVO", !.cfg = cfg]
  <1>1. \A u : /\ Ok(u) /\ SameAudio(s, u) /\ u.media = s.media
               => Kept(s, u)
    <2> SUFFICES ASSUME NEW u, Ok(u), SameAudio(s, u), u.media = s.media
                 PROVE  Kept(s, u)
      OBVIOUS
    <2>1. AppInv(u) /\ u.final = s.final /\ u.up = s.up
      BY DEF AppInv, SameAudio
    <2> QED  BY <2>1, PrioCases, FinalType DEF Kept, AppInv
  <1>2. Ok(t) /\ SameAudio(s, t) /\ t.media = s.media
    BY SetCall, StateFacts DEF AppInv, SameAudio
  <1>3. cfg \in Cfg
    BY FinalType, CfgCtxType, CountedType, ContextFacts DEF AppInv
  <1>4. Kept(s, PlaceCall(s))
    BY <1>1, SetCall, StateFacts DEF AppInv, SameAudio, PlaceCall
  <1>5. AcceptCall(s, c) =
          IF Inband /\ s.ccs = "INBAND_RINGTONE" THEN ring
          ELSE StartStreaming(conv, c, cfg)
    BY DEF AcceptCall
  <1> HIDE DEF t, cfg
  <1>6. Ok(ring) /\ SameAudio(s, ring) /\ ring.media = s.media
    BY <1>2, SetCcs, StateFacts DEF SamePlay, SameMode, SameAudio
  <1>7. Ok(conv) /\ SameAudio(t, conv) /\ conv.media = t.media
    BY <1>2, <1>3, StateFacts DEF Ok, App, Listed, SameAudio
  <1> HIDE DEF ring, conv
  <1>8. /\ Ok(StartStreaming(conv, c, cfg))
        /\ SamePlay(conv, StartStreaming(conv, c, cfg))
    BY <1>3, <1>7, StartStreamingOk
  <1>9. Kept(s, ring) /\ Kept(s, StartStreaming(conv, c, cfg))
    BY <1>1, <1>2, <1>6, <1>7, <1>8 DEF SamePlay, SameMode, SameAudio
  <1> QED  BY <1>4, <1>5, <1>9

-----------------------------------------------------------------------------
(* Connections                                                               *)

\* A disconnection keeps the invariant for the devices that remain.
LEMMA HandleDisconnectionOk ==
  ASSUME NEW s, AppInv(s), NEW c \in s.up
  PROVE  LET t == HandleDisconnection(s, c)
         IN  /\ AppInv(t) /\ Prio(s, t) /\ t.up = s.up \ {c}
             /\ t.call = s.call
             /\ \/ t.mode = s.mode /\ t.final = s.final /\ t.paused = s.paused
                \/ t.mode = NONE /\ t.final = NONE /\ t.paused = NONE
  <1> DEFINE p == [s EXCEPT !.media = "PAUSED"]
             t == IF Csis /\ s.up # {c} THEN s ELSE ResetAudioState(p)
  <1>1. Ok(p) /\ SameMode(s, p)
    BY SetMedia, StateFacts DEF AppInv
  <1> HIDE DEF p
  <1>2. /\ AppInv(t) /\ t.up = s.up /\ t.final \in {s.final, NONE}
        /\ t.call = s.call
        /\ \/ t.mode = s.mode /\ t.final = s.final /\ t.paused = s.paused
           \/ t.mode = NONE /\ t.final = NONE /\ t.paused = NONE
    BY <1>1, ResetOk DEF SameMode
  <1> HIDE DEF t
  <1> DEFINE held == {s.cid[a] : a \in {b \in Ase : Owner[b] = c}}
             left == IF Csis THEN s.iso \ {c} ELSE s.iso \ held
             list == CleanupAses(t, c)
             ast  == [a \in Ase |-> IF Owner[a] = c THEN IDLE ELSE s.ast[a]]
             cid  == [a \in Ase |-> IF Owner[a] = c THEN 0 ELSE s.cid[a]]
             out  == [t.out EXCEPT ![c] = << >>]
             up   == s.up \ {c}
             cig  == IF left = {} /\ s.iso # {} THEN 0 ELSE t.cig
             u    == [t EXCEPT !.list = list, !.ast = ast, !.cid = cid,
                         !.out = out, !.up = up, !.iso = left, !.cig = cig]
  <1>3. Ok(s) /\ Ok(t) /\ s \in App /\ t \in App
    BY <1>2 DEF AppInv, Ok
  <1>4. HandleDisconnection(s, c) = u
    BY <1>2, <1>3 DEF HandleDisconnection, t, p, App
  <1>5. list \in AseLists
    BY <1>3 DEF App, AseLists, CleanupAses
  <1>6. \A i \in Slots : list[i] # NULL => Owner[list[i]] \in up
    BY <1>2, <1>3 DEF Ok, Listed, SlotOf, CleanupAses
  <1>7. ast \in AseState /\ cid \in CisIds
    BY <1>3 DEF App, AseState, CisIds, AseStates, CisNums, IDLE
  <1>8. \A d \in Conn : /\ out[d] \in Seq(OwnMsg(d))
                        /\ d \notin up => out[d] = << >>
    <2> TAKE d \in Conn
    <2>1. out[d] = IF d = c THEN << >> ELSE t.out[d]
      BY <1>3 DEF App, Writes
    <2>2. t.out[d] \in Seq(OwnMsg(d)) /\ (d \notin s.up => t.out[d] = << >>)
      BY <1>2, <1>3 DEF Ok, Listed
    <2> HIDE DEF out
    <2> QED  BY <2>1, <2>2
  <1>9. out \in Writes
    <2>1. t.out \in Writes
      BY <1>3 DEF App
    <2>2. << >> \in Seq(CpMsg)
      OBVIOUS
    <2> QED  BY <2>1, <2>2 DEF Writes
  <1>10. up \in SUBSET Devices /\ left \in SUBSET Cises /\ cig \in CisNums
    <2>1. s.up \in SUBSET Devices /\ s.iso \in SUBSET Cises /\ t.cig \in CisNums
      BY <1>3 DEF App
    <2>2. left \in SUBSET Cises
      BY <2>1
    <2> HIDE DEF left
    <2> QED  BY <2>1, <2>2 DEF CisNums
  <1> HIDE DEF list, ast, cid, out, up, left, cig
  <1>11. u \in App
    BY <1>3, <1>5, <1>7, <1>9, <1>10 DEF App
  <1>12. /\ u.list = list /\ u.out = out /\ u.up = up /\ u.mode = t.mode
         /\ u.final = t.final /\ u.paused = t.paused /\ u.media = t.media
         /\ u.call = t.call
    BY <1>3 DEF App
  <1> HIDE DEF u
  <1>13. AppInv(u)
    BY <1>2, <1>6, <1>8, <1>11, <1>12 DEF AppInv, Ok, Listed
  <1>14. Prio(s, u)
    BY <1>2, <1>3, <1>11, <1>12, PrioCases, FinalType, ModeNames
  <1> QED  BY <1>2, <1>4, <1>12, <1>13, <1>14 DEF up

\* A member that comes back keeps the invariant.
LEMMA MemberReconnectionOk ==
  ASSUME NEW s, AppInv(s), NEW c \in Devices \ s.up
  PROVE  LET t == MemberReconnection(s, c)
         IN  /\ AppInv(t) /\ Prio(s, t) /\ t.up = s.up \cup {c}
             /\ t.mode = s.mode /\ t.final = s.final /\ t.paused = s.paused
             /\ t.call = s.call
  <1> DEFINE up == s.up \cup {c}
             t  == [s EXCEPT !.up = up]
             a  == CASE ~Csis -> << >>
                     [] Csis /\ s.mode \in {MEDIA, BIDIRMIC, CALL} -> <<Snk[c][1]>>
                     [] Csis /\ s.mode = MIC /\ Src[c] # << >> -> <<Src[c][1]>>
                     [] OTHER -> << >>
             ases == [d \in Conn |-> IF d = c THEN a ELSE << >>]
  <1>1. MemberReconnection(s, c) = Configure(t, s.cfg, ases)
    BY DEF MemberReconnection, AppInv, Ok, App
  <1>2. up \in SUBSET Devices /\ c \in Conn
    BY DeviceAssumption DEF AppInv, Ok, App
  <1>3. a \in Seq(OwnAse(c))
    <2>1. Snk[c] \in Seq(Ase) /\ Src[c] \in Seq(Ase) /\ Len(Snk[c]) > 0
      BY <1>2, DeviceAssumption
    <2>2. Snk[c][1] \in OwnAse(c)
      BY <1>2, <2>1, DeviceAssumption DEF OwnAse
    <2>3. Src[c] # << >> => Src[c][1] \in OwnAse(c)
      BY <1>2, <2>1, DeviceAssumption DEF OwnAse
    <2>4. \/ a = << >> \/ a = <<Snk[c][1]>>
          \/ Src[c] # << >> /\ a = <<Src[c][1]>>
      BY DEF MEDIA, BIDIRMIC, CALL, MIC
    <2> HIDE DEF a
    <2>5. \A x \in OwnAse(c) : <<x>> \in Seq(OwnAse(c))
      OBVIOUS
    <2>6. << >> \in Seq(OwnAse(c))
      OBVIOUS
    <2> QED  BY <2>2, <2>3, <2>4, <2>5, <2>6
  <1> HIDE DEF a
  <1>4. t.up = up /\ t.mode = s.mode /\ t.final = s.final
        /\ t.paused = s.paused /\ t.media = s.media /\ t.out = s.out
        /\ t.list = s.list /\ t.call = s.call
    BY DEF AppInv, Ok, App
  <1>5. t \in App
    BY <1>2 DEF AppInv, Ok, App
  <1>6. Listed(t)
    BY <1>4 DEF AppInv, Ok, Listed
  <1>7. OwnAses(t, ases)
    BY <1>2, <1>3, <1>4 DEF OwnAses
  <1> HIDE DEF t, ases
  <1> DEFINE u == Configure(t, s.cfg, ases)
  <1>8. Ok(t) /\ s.cfg \in Cfg
    BY <1>5, <1>6, FinalType DEF Ok, AppInv
  <1>9. Ok(u) /\ SamePlay(t, u)
    BY <1>7, <1>8, ConfigureOk
  <1> HIDE DEF u
  <1>10. /\ AppInv(u) /\ u.final = s.final /\ u.up = up
         /\ u.mode = s.mode /\ u.paused = s.paused /\ u.call = s.call
    BY <1>4, <1>9 DEF AppInv, SamePlay, SameMode
  <1>11. Prio(s, u)
    BY <1>10, PrioCases, FinalType DEF AppInv
  <1> QED  BY <1>1, <1>10, <1>11 DEF u

-----------------------------------------------------------------------------
(* What is under way for one ASE                                             *)

\* Queue q holds nothing for ASE a, or e alone, or e and after it f.
None(q, a) == \A i \in DOMAIN q : q[i].ase # a

One(q, a, e) ==
    \E i \in DOMAIN q : q[i] = e /\ \A j \in DOMAIN q : q[j].ase = a => j = i

Two(q, a, e, f) ==
    \E i, j \in DOMAIN q :
      /\ i < j /\ q[i] = e /\ q[j] = f
      /\ \A k \in DOMAIN q : q[k].ase = a => k \in {i, j}

\* Queue r holds for ASE a what q holds for it.
Same(q, r, a) ==
    /\ None(q, a) => None(r, a)
    /\ \A e : e.ase = a /\ One(q, a, e) => One(r, a, e)
    /\ \A e, f : e.ase = a /\ Two(q, a, e, f) => Two(r, a, e, f)

\* Appending to a queue adds to what it holds for the ASE of the element.
LEMMA AppendOwn ==
  ASSUME NEW S, NEW q \in Seq(S), NEW e \in S, NEW a, e.ase = a
  PROVE  /\ None(q, a) => One(Append(q, e), a, e)
         /\ \A d : One(q, a, d) => Two(Append(q, e), a, d, e)
  <1> DEFINE r == Append(q, e)
             n == Len(q)
  <1>1. /\ n \in Nat /\ DOMAIN q = 1..n /\ DOMAIN r = 1..(n + 1)
        /\ r[n + 1] = e /\ \A i \in 1..n : r[i] = q[i]
    OBVIOUS
  <1> HIDE DEF r, n
  <1>2. None(q, a) => One(r, a, e)
    BY <1>1 DEF None, One
  <1>3. ASSUME NEW d, One(q, a, d)
        PROVE  Two(r, a, d, e)
    <2>1. PICK i \in 1..n : q[i] = d /\ \A j \in 1..n : q[j].ase = a => j = i
      BY <1>1, <1>3 DEF One
    <2>2. i < n + 1 /\ i \in 1..(n + 1) /\ n + 1 \in 1..(n + 1)
      BY <1>1
    <2>3. \A k \in 1..(n + 1) : r[k].ase = a => k \in {i, n + 1}
      BY <1>1, <2>1
    <2> QED  BY <1>1, <2>1, <2>2, <2>3 DEF Two
  <1> QED  BY <1>2, <1>3 DEF r

\* It changes nothing for the other ASEs.
LEMMA AppendOther ==
  ASSUME NEW S, NEW q \in Seq(S), NEW e \in S, NEW a, e.ase # a
  PROVE  Same(q, Append(q, e), a)
  <1> DEFINE r == Append(q, e)
             n == Len(q)
  <1>1. /\ n \in Nat /\ DOMAIN q = 1..n /\ DOMAIN r = 1..(n + 1)
        /\ r[n + 1] = e /\ \A i \in 1..n : r[i] = q[i] /\ i \in 1..(n + 1)
        /\ \A i \in 1..(n + 1) : i \in 1..n \/ i = n + 1
    OBVIOUS
  <1> HIDE DEF r, n
  <1>2. None(q, a) => None(r, a)
    BY <1>1 DEF None
  <1>3. ASSUME NEW d, One(q, a, d)
        PROVE  One(r, a, d)
    BY <1>1, <1>3 DEF One
  <1>4. ASSUME NEW d, NEW f, Two(q, a, d, f)
        PROVE  Two(r, a, d, f)
    <2>1. PICK i, j \in 1..n : /\ i < j /\ q[i] = d /\ q[j] = f
                               /\ \A k \in 1..n : q[k].ase = a => k \in {i, j}
      BY <1>1, <1>4 DEF Two
    <2>2. \A k \in 1..(n + 1) : r[k].ase = a => k \in {i, j}
      BY <1>1, <2>1
    <2> QED  BY <1>1, <2>1, <2>2 DEF Two
  <1> QED  BY <1>2, <1>3, <1>4 DEF Same, r

\* The head of a queue is the first thing that it holds for its ASE.
LEMMA HeadOwn ==
  ASSUME NEW S, NEW q \in Seq(S), q # << >>, NEW a, Head(q).ase = a
  PROVE  /\ ~None(q, a)
         /\ \A e : One(q, a, e) => Head(q) = e /\ None(Tail(q), a)
         /\ \A e, f : Two(q, a, e, f) /\ f.ase = a =>
              Head(q) = e /\ One(Tail(q), a, f)
  <1> DEFINE r == Tail(q)
             n == Len(q)
  <1>1. /\ n \in Nat /\ n > 0 /\ DOMAIN q = 1..n /\ DOMAIN r = 1..(n - 1)
        /\ Head(q) = q[1] /\ \A i \in 1..(n - 1) : r[i] = q[i + 1]
    OBVIOUS
  <1> HIDE DEF r, n
  <1>2. 1 \in 1..n /\ q[1].ase = a
    BY <1>1
  <1>3. ~None(q, a)
    BY <1>1, <1>2 DEF None
  <1>4. ASSUME NEW e, One(q, a, e)
        PROVE  q[1] = e /\ None(r, a)
    <2>1. PICK i \in 1..n : q[i] = e /\ \A j \in 1..n : q[j].ase = a => j = i
      BY <1>1, <1>4 DEF One
    <2>2. i = 1
      BY <1>2, <2>1
    <2>3. \A j \in 1..(n - 1) : r[j].ase # a
      BY <1>1, <2>1, <2>2
    <2> QED  BY <1>1, <2>1, <2>2, <2>3 DEF None
  <1>5. ASSUME NEW e, NEW f, Two(q, a, e, f), f.ase = a
        PROVE  q[1] = e /\ One(r, a, f)
    <2>1. PICK i, j \in 1..n : /\ i < j /\ q[i] = e /\ q[j] = f
                               /\ \A k \in 1..n : q[k].ase = a => k \in {i, j}
      BY <1>1, <1>5 DEF Two
    <2>2. i = 1
      BY <1>1, <1>2, <2>1
    <2>3. j - 1 \in 1..(n - 1) /\ r[j - 1] = f
      BY <1>1, <2>1, <2>2
    <2>4. \A k \in 1..(n - 1) : r[k].ase = a => k = j - 1
      BY <1>1, <2>1, <2>2
    <2> QED  BY <1>1, <2>1, <2>2, <2>3, <2>4 DEF One
  <1> QED  BY <1>1, <1>3, <1>4, <1>5 DEF r

\* Taking it changes nothing for the other ASEs.
LEMMA TailOther ==
  ASSUME NEW S, NEW q \in Seq(S), q # << >>, NEW a, Head(q).ase # a
  PROVE  Same(q, Tail(q), a)
  <1> DEFINE r == Tail(q)
             n == Len(q)
  <1>1. /\ n \in Nat /\ n > 0 /\ DOMAIN q = 1..n /\ DOMAIN r = 1..(n - 1)
        /\ Head(q) = q[1] /\ \A i \in 1..(n - 1) : r[i] = q[i + 1]
    OBVIOUS
  <1> HIDE DEF r, n
  <1>2. None(q, a) => None(r, a)
    BY <1>1 DEF None
  <1>3. ASSUME NEW d, One(q, a, d), d.ase = a
        PROVE  One(r, a, d)
    <2>1. PICK i \in 1..n : q[i] = d /\ \A j \in 1..n : q[j].ase = a => j = i
      BY <1>1, <1>3 DEF One
    <2>2. i - 1 \in 1..(n - 1) /\ r[i - 1] = d
      BY <1>1, <1>3, <2>1
    <2>3. \A k \in 1..(n - 1) : r[k].ase = a => k = i - 1
      BY <1>1, <2>1
    <2> QED  BY <1>1, <2>2, <2>3 DEF One
  <1>4. ASSUME NEW d, NEW e, Two(q, a, d, e), d.ase = a
        PROVE  Two(r, a, d, e)
    <2>1. PICK i, j \in 1..n : /\ i < j /\ q[i] = d /\ q[j] = e
                               /\ \A k \in 1..n : q[k].ase = a => k \in {i, j}
      BY <1>1, <1>4 DEF Two
    <2>2. i # 1
      BY <1>1, <1>4, <2>1
    <2>3. /\ i - 1 \in 1..(n - 1) /\ r[i - 1] = d
          /\ j - 1 \in 1..(n - 1) /\ r[j - 1] = e /\ i - 1 < j - 1
      BY <1>1, <2>1, <2>2
    <2>4. \A k \in 1..(n - 1) : r[k].ase = a => k \in {i - 1, j - 1}
      BY <1>1, <2>1
    <2> QED  BY <1>1, <2>3, <2>4 DEF Two
  <1> QED  BY <1>2, <1>3, <1>4 DEF Same, r

\* What the concatenation of two queues holds, one of them nothing.
LEMMA ConcatViews ==
  ASSUME NEW S, NEW p \in Seq(S), NEW q \in Seq(S), NEW a
  PROVE  /\ None(p, a) /\ None(q, a) => None(p \o q, a)
         /\ \A e : None(p, a) /\ One(q, a, e) => One(p \o q, a, e)
         /\ \A e : One(p, a, e) /\ None(q, a) => One(p \o q, a, e)
  <1> DEFINE r == p \o q
             m == Len(p)
             n == Len(q)
  <1>1. /\ m \in Nat /\ n \in Nat /\ DOMAIN p = 1..m /\ DOMAIN q = 1..n
        /\ DOMAIN r = 1..(m + n) /\ \A i \in 1..m : r[i] = p[i]
        /\ \A i \in 1..n : r[m + i] = q[i]
    OBVIOUS
  <1> HIDE DEF r, m, n
  <1>2. \A k \in 1..(m + n) : k \in 1..m \/ (k - m \in 1..n /\ k = m + (k - m))
    BY <1>1
  <1>3. \A k \in 1..(m + n) : r[k] = IF k \in 1..m THEN p[k] ELSE q[k - m]
    BY <1>1, <1>2
  <1>4. None(p, a) /\ None(q, a) => None(r, a)
    BY <1>1, <1>2, <1>3 DEF None
  <1>5. ASSUME NEW e, None(p, a), One(q, a, e)
        PROVE  One(r, a, e)
    <2>1. PICK i \in 1..n : q[i] = e /\ \A j \in 1..n : q[j].ase = a => j = i
      BY <1>1, <1>5 DEF One
    <2>2. m + i \in 1..(m + n) /\ r[m + i] = e
      BY <1>1, <2>1
    <2>3. ASSUME NEW k \in 1..(m + n), r[k].ase = a
          PROVE  k = m + i
      <3>1. k \notin 1..m
        BY <1>1, <1>3, <1>5, <2>3 DEF None
      <3>2. k - m \in 1..n /\ q[k - m].ase = a
        BY <1>2, <1>3, <2>3, <3>1
      <3>3. k - m = i
        BY <2>1, <3>2
      <3> QED  BY <1>1, <3>3
    <2> QED  BY <1>1, <2>2, <2>3 DEF One
  <1>6. ASSUME NEW e, One(p, a, e), None(q, a)
        PROVE  One(r, a, e)
    <2>1. PICK i \in 1..m : p[i] = e /\ \A j \in 1..m : p[j].ase = a => j = i
      BY <1>1, <1>6 DEF One
    <2>2. i \in 1..(m + n) /\ r[i] = e
      BY <1>1, <2>1
    <2>3. ASSUME NEW k \in 1..(m + n), r[k].ase = a
          PROVE  k = i
      <3>1. k \in 1..m
        BY <1>1, <1>2, <1>3, <1>6, <2>3 DEF None
      <3> QED  BY <1>3, <2>1, <2>3, <3>1
    <2> QED  BY <1>1, <2>2, <2>3 DEF One
  <1> QED  BY <1>4, <1>5, <1>6 DEF r

\* What a queue of one element holds.
LEMMA SingleViews ==
  ASSUME NEW e, NEW a
  PROVE  /\ None(<< >>, a)
         /\ e.ase # a => None(<<e>>, a)
         /\ e.ase = a => One(<<e>>, a, e)
  BY DEF None, One

\* A queue that was not touched holds what it held.
LEMMA SameQueue ==
  ASSUME NEW q, NEW a
  PROVE  Same(q, q, a)
  BY DEF Same

-----------------------------------------------------------------------------
(* Devices that the player can stream to                                     *)

\* Every device has a source ASE and distinct ASEs, there is one device or a
\* coordinated set with its first member, and the contexts are available: one
\* of the two of a bidirectional stream and, if the ringtone is streamed, that
\* too, to a device that on its own is a left one.
Suited ==
    /\ \A d \in Devices :
         /\ Src[d] # << >>
         /\ \A i, j \in DOMAIN Snk[d] : Snk[d][i] = Snk[d][j] => i = j
         /\ \A i, j \in DOMAIN Src[d] : Src[d][i] = Src[d][j] => i = j
         /\ \A i \in DOMAIN Snk[d], j \in DOMAIN Src[d] : Snk[d][i] # Src[d][j]
    /\ IF Csis THEN 1 \in Devices ELSE \E d \in Devices : Devices = {d}
    /\ Devices \subseteq GameCtx \cup ConvCtx
    /\ Inband => Devices \subseteq RingCtx /\ (Csis \/ Devices \subseteq Left)

KnownCtx == {"MEDIA", "RINGTONE", "CONVERSATIONAL", "GAME", "VOICE_ASSISTANTS"}

\* The CIS that ASE a is given whenever it is configured: the rank of its
\* device in the set, or the number of its channel; 0: it never is.
Lead(a) ==
    \/ Src[Owner[a]] # << >> /\ a = Src[Owner[a]][1]
    \/ Len(Snk[Owner[a]]) > 0 /\ a = Snk[Owner[a]][1]

Rank(a) ==
    IF Lead(a) THEN (IF Csis THEN Owner[a] ELSE 1)
    ELSE IF /\ ~Csis /\ Len(Snk[Owner[a]]) > 1
            /\ a = Snk[Owner[a]][2] THEN 2 ELSE 0

IsSnk(a) == \E i \in DOMAIN Snk[Owner[a]] : Snk[Owner[a]][i] = a

\* The ASEs by which lepl_create_cis finds the CISs of mode m.
Carrier(m, a) == IF m = MIC THEN IsSrc(a) ELSE IsSnk(a)

\* The ranks and directions of the ASEs that the start functions use.
LEMMA RankFacts ==
  ASSUME Suited, NEW d \in Devices
  PROVE  /\ d \in Conn /\ Snk[d] \in Seq(OwnAse(d)) /\ Src[d] \in Seq(OwnAse(d))
         /\ Len(Snk[d]) > 0 /\ Len(Src[d]) > 0
         /\ Snk[d][1] \in OwnAse(d) /\ Src[d][1] \in OwnAse(d)
         /\ Snk[d][1] # Src[d][1]
         /\ IsSnk(Snk[d][1]) /\ ~IsSrc(Snk[d][1]) /\ IsSrc(Src[d][1])
         /\ Rank(Snk[d][1]) = (IF Csis THEN d ELSE 1)
         /\ Rank(Src[d][1]) = (IF Csis THEN d ELSE 1)
         /\ Len(Snk[d]) > 1 =>
              /\ Snk[d][2] \in OwnAse(d) /\ Snk[d][2] # Snk[d][1]
              /\ IsSnk(Snk[d][2]) /\ ~IsSrc(Snk[d][2])
              /\ ~Csis => Rank(Snk[d][2]) = 2
  <1>1. /\ d \in Conn /\ Snk[d] \in Seq(Ase) /\ Src[d] \in Seq(Ase)
        /\ Len(Snk[d]) > 0
    BY DeviceAssumption
  <1>2. Len(Src[d]) > 0 /\ Src[d] # << >>
    BY <1>1 DEF Suited
  <1>3. /\ \A i \in 1..Len(Snk[d]) : Snk[d][i] \in OwnAse(d)
        /\ \A i \in 1..Len(Src[d]) : Src[d][i] \in OwnAse(d)
    BY <1>1, DeviceAssumption DEF OwnAse
  <1>4. Snk[d] \in Seq(OwnAse(d)) /\ Src[d] \in Seq(OwnAse(d))
    BY <1>1, <1>3
  <1>5. /\ Snk[d][1] \in OwnAse(d) /\ Src[d][1] \in OwnAse(d)
        /\ Len(Snk[d]) > 1 => Snk[d][2] \in OwnAse(d)
    BY <1>1, <1>2, <1>3
  <1>6. /\ Owner[Snk[d][1]] = d /\ Owner[Src[d][1]] = d
        /\ Len(Snk[d]) > 1 => Owner[Snk[d][2]] = d
    BY <1>5 DEF OwnAse
  <1>7. /\ 1 \in DOMAIN Snk[d] /\ 1 \in DOMAIN Src[d]
        /\ Len(Snk[d]) > 1 => 2 \in DOMAIN Snk[d]
    BY <1>1, <1>2
  <1>8. /\ \A i \in DOMAIN Snk[d], j \in DOMAIN Src[d] : Snk[d][i] # Src[d][j]
        /\ Len(Snk[d]) > 1 => Snk[d][2] # Snk[d][1]
    BY <1>7 DEF Suited
  <1>9. /\ IsSnk(Snk[d][1]) /\ ~IsSrc(Snk[d][1]) /\ IsSrc(Src[d][1])
        /\ Len(Snk[d]) > 1 => IsSnk(Snk[d][2]) /\ ~IsSrc(Snk[d][2])
    BY <1>6, <1>7, <1>8 DEF IsSnk, IsSrc
  <1>10. Rank(Snk[d][1]) = (IF Csis THEN d ELSE 1)
    BY <1>1, <1>6 DEF Rank, Lead
  <1>11. Rank(Src[d][1]) = (IF Csis THEN d ELSE 1)
    BY <1>2, <1>6 DEF Rank, Lead
  <1>12. Len(Snk[d]) > 1 /\ ~Csis => Rank(Snk[d][2]) = 2
    BY <1>6, <1>7, <1>8 DEF Rank, Lead
  <1> QED  BY <1>1, <1>2, <1>4, <1>5, <1>7, <1>8, <1>9, <1>10, <1>11, <1>12

\* Every member of the set of a connected device is started.
LEMMA StartsAll ==
  ASSUME Suited, NEW s, s.up = Devices, NEW c \in Devices, NEW cfg, NEW d \in Conn
  PROVE  StartAses(s, c, cfg, d) = IF d \in Devices THEN AsesOf(d, cfg) ELSE << >>
  <1>1. Members(s, c) = Devices
    BY DEF Members, Suited
  <1>2. \A e \in Devices : ~LacksAse(e, cfg.ctx)
    BY DEF LacksAse, Suited
  <1> QED  BY <1>1, <1>2 DEF StartAses

\* The number of CISs covers the ranks of the members.
LEMMA CountedFacts ==
  ASSUME Suited, NEW s, s.up = Devices, NEW c \in Devices, NEW cfg \in Cfg,
         cfg.ctx \in KnownCtx
  PROVE  LET g == Counted(s, c, cfg)
         IN  /\ g \in Cfg /\ g.ctx = cfg.ctx /\ g.two = cfg.two
             /\ \A d \in Devices : (IF Csis THEN d ELSE 1) \in 1..g.cis
             /\ ~Csis /\ cfg.ctx = "MEDIA" /\ cfg.two /\ Len(Snk[c]) > 1 => g.cis = 2
  <1>1. c \in Conn /\ Devices \subseteq Conn
    BY DeviceAssumption
  <1>2. Counted(s, c, cfg) \in Cfg
    BY <1>1, CountedType
  <1>3. CASE cfg.ctx = "MEDIA"
    <2> DEFINE n == IF Csis THEN 2 ELSE Len(MediaAses(c, cfg))
    <2>1. Counted(s, c, cfg) = [cfg EXCEPT !.cis = n]
      BY <1>3 DEF Counted
    <2>2. /\ n \in 1..2 /\ (Csis => n = 2)
          /\ ~Csis /\ cfg.two /\ Len(Snk[c]) > 1 => n = 2
      BY DEF MediaAses
    <2> HIDE DEF n
    <2>3. [cfg EXCEPT !.cis = n].ctx = cfg.ctx /\ [cfg EXCEPT !.cis = n].two = cfg.two
          /\ [cfg EXCEPT !.cis = n].cis = n
      BY DEF Cfg
    <2> QED  BY <1>1, <1>2, <2>1, <2>2, <2>3 DEF Conn
  <1>4. CASE cfg.ctx # "MEDIA"
    <2> DEFINE n == NumDevices(s, c)
    <2>1. Counted(s, c, cfg) = [cfg EXCEPT !.cis = n]
      BY <1>4 DEF Counted, KnownCtx
    <2>2. n \in 1..2 /\ \A d \in Devices : (IF Csis THEN d ELSE 1) \in 1..n
      <3>1. ASSUME Csis, 2 \in Devices
            PROVE  Devices = Conn
        <4>1. 1 \in Devices
          BY <3>1 DEF Suited
        <4>2. \A d \in Conn : d = 1 \/ d = 2
          BY DEF Conn
        <4> QED  BY <1>1, <3>1, <4>1, <4>2
      <3>2. n = IF Csis /\ Devices = Conn THEN 2 ELSE 1
        BY DEF NumDevices
      <3> HIDE DEF n
      <3>3. \A d \in Devices : d = 1 \/ d = 2
        BY <1>1 DEF Conn
      <3> QED  BY <3>1, <3>2, <3>3
    <2> HIDE DEF n
    <2>3. [cfg EXCEPT !.cis = n].ctx = cfg.ctx /\ [cfg EXCEPT !.cis = n].two = cfg.two
          /\ [cfg EXCEPT !.cis = n].cis = n
      BY DEF Cfg
    <2> QED  BY <1>2, <1>4, <2>1, <2>2, <2>3
  <1> QED  BY <1>3, <1>4

-----------------------------------------------------------------------------
(* What a start leaves behind                                                *)

InList(list, a) == \E i \in Slots : list[i] = a

\* No ASE is listed twice.
Apart(list) == \A i, j \in Slots : list[i] # NULL /\ list[i] = list[j] => i = j

\* The first n slots of the list are taken.
Filled(list, n) == \A i \in Slots : list[i] # NULL <=> i <= n

\* assign_ase_to_be_configured takes the next slot.
LEMMA AssignNext ==
  ASSUME NEW list \in AseLists, NEW n \in 0..3, Filled(list, n), Apart(list),
         NEW a \in Ase, ~InList(list, a)
  PROVE  LET l == AssignAse(list, a)
         IN  /\ l \in AseLists /\ Filled(l, n + 1) /\ Apart(l)
             /\ \A b \in Ase : InList(l, b) <=> b = a \/ InList(list, b)
  <1> DEFINE l == AssignAse(list, a)
  <1>1. a # NULL /\ n + 1 \in Slots
    BY DeviceAssumption DEF Slots
  <1>2. \A i \in Slots : l[i] = IF i = n + 1 THEN a ELSE list[i]
    <2>1. {i \in Slots : /\ list[i] = NULL
                         /\ \A j \in Slots : j < i => list[j] # NULL} = {n + 1}
      BY <1>1 DEF Filled, Slots
    <2> QED  BY <2>1 DEF AssignAse
  <1>3. l \in AseLists
    BY AssignAseType
  <1> HIDE DEF l
  <1>4. list[n + 1] = NULL
    BY <1>1 DEF Filled, Slots
  <1>5. Filled(l, n + 1)
    BY <1>1, <1>2 DEF Filled, Slots
  <1>6. Apart(l)
    BY <1>1, <1>2 DEF Apart, InList
  <1>7. \A b \in Ase : InList(l, b) <=> b = a \/ InList(list, b)
    BY <1>1, <1>2, <1>4, DeviceAssumption DEF InList
  <1> QED  BY <1>3, <1>5, <1>6, <1>7 DEF l

In(ases, a) == \E i \in DOMAIN ases : ases[i] = a

Distinct(ases) == \A i, j \in DOMAIN ases : ases[i] = ases[j] => i = j

\* The ASEs of a device take the next slots.
LEMMA AssignMore ==
  ASSUME NEW list \in AseLists, NEW n \in 0..4, Filled(list, n), Apart(list),
         NEW ases \in Seq(Ase), Distinct(ases), NEW k \in 0..2, Len(ases) = k,
         n + k <= 4,
         \A a \in Ase : In(ases, a) => ~InList(list, a)
  PROVE  LET l == AssignAses(list, ases)
         IN  /\ l \in AseLists /\ Filled(l, n + k) /\ Apart(l)
             /\ \A b \in Ase : InList(l, b) <=> In(ases, b) \/ InList(list, b)
  <1>0. DOMAIN ases = 1..k
    OBVIOUS
  <1>1. CASE k = 0
    <2>1. AssignAses(list, ases) = list
      BY <1>1 DEF AssignAses
    <2>2. \A b \in Ase : ~In(ases, b)
      BY <1>0, <1>1 DEF In
    <2> QED  BY <1>1, <2>1, <2>2
  <1>2. CASE k = 1
    <2> DEFINE a == ases[1]
    <2>1. AssignAses(list, ases) = AssignAse(list, a)
      BY <1>2 DEF AssignAses
    <2>2. a \in Ase /\ \A b \in Ase : In(ases, b) <=> b = a
      BY <1>0, <1>2 DEF In
    <2> HIDE DEF a
    <2>3. n \in 0..3 /\ ~InList(list, a)
      BY <1>2, <2>2
    <2> QED  BY <1>2, <2>1, <2>2, <2>3, AssignNext
  <1>3. CASE k = 2
    <2> DEFINE a == ases[1]
               b == ases[2]
               l == AssignAse(list, a)
               m == n + 1
    <2>1. AssignAses(list, ases) = AssignAse(l, b)
      BY <1>3 DEF AssignAses
    <2>2. /\ a \in Ase /\ b \in Ase /\ a # b
          /\ \A d \in Ase : In(ases, d) <=> d = a \/ d = b
      BY <1>0, <1>3 DEF In, Distinct
    <2>3. n \in 0..3 /\ m \in 0..3 /\ m + 1 = n + k
      BY <1>3
    <2> HIDE DEF a, b
    <2>4. /\ l \in AseLists /\ Filled(l, m) /\ Apart(l)
          /\ \A d \in Ase : InList(l, d) <=> d = a \/ InList(list, d)
      BY <2>2, <2>3, AssignNext
    <2> HIDE DEF l, m
    <2>5. ~InList(l, b)
      BY <2>2, <2>4
    <2>6. LET h == AssignAse(l, b)
          IN  /\ h \in AseLists /\ Filled(h, m + 1) /\ Apart(h)
              /\ \A d \in Ase : InList(h, d) <=> d = b \/ InList(l, d)
      BY <2>2, <2>3, <2>4, <2>5, AssignNext
    <2> QED  BY <2>1, <2>2, <2>3, <2>4, <2>6
  <1> QED  BY <1>0, <1>1, <1>2, <1>3

Msg(op, a) == [op |-> op, ase |-> a]

\* The writes that configure some ASEs: one for each of them.
LEMMA ConfigViews ==
  ASSUME NEW c \in Conn, NEW ases \in Seq(OwnAse(c)), Distinct(ases), NEW a \in Ase
  PROVE  /\ ConfigMsgs(ases) \in Seq(OwnMsg(c))
         /\ In(ases, a) => One(ConfigMsgs(ases), a, Msg("CONFIG_CODEC", a))
         /\ ~In(ases, a) => None(ConfigMsgs(ases), a)
  <1> DEFINE q == ConfigMsgs(ases)
  <1>1. /\ DOMAIN q = DOMAIN ases
        /\ \A i \in DOMAIN ases : q[i] = Msg("CONFIG_CODEC", ases[i])
    BY DEF ConfigMsgs, Msg
  <1>2. q \in Seq(OwnMsg(c))
    BY ConfigMsgsType
  <1>3. \A i \in DOMAIN ases : q[i].ase = ases[i]
    BY <1>1 DEF Msg
  <1> HIDE DEF q
  <1>4. In(ases, a) => One(q, a, Msg("CONFIG_CODEC", a))
    BY <1>1, <1>3 DEF In, One, Distinct
  <1>5. ~In(ases, a) => None(q, a)
    BY <1>1, <1>3 DEF In, None
  <1> QED  BY <1>2, <1>4, <1>5 DEF q

\* ASE a of the list has a CIS that a carrier of mode m stands for.
Serves(list, g, m, a) ==
    /\ Rank(a) \in 1..g.cis
    /\ \E b \in Ase : InList(list, b) /\ Rank(b) = Rank(a) /\ Carrier(m, b)

\* The listed ASEs can carry mode m with configuration g.
Suits(s, g, m) ==
    /\ s.list # EmptyList /\ Apart(s.list) /\ g.ctx \in KnownCtx
    /\ \A a \in Ase : InList(s.list, a) =>
         s.cid[a] = Rank(a) /\ Serves(s.list, g, m, a)

\* The ASEs that a start configures.
Good(ases, g, m) ==
    /\ g.ctx \in KnownCtx
    /\ \A d \in Conn : /\ ases[d] \in Seq(OwnAse(d))
                       /\ Len(ases[d]) \in 0..2 /\ Distinct(ases[d])
    /\ \E a \in Ase : In(ases[Owner[a]], a)
    /\ \A a \in Ase : In(ases[Owner[a]], a) =>
         /\ CisId(a, g) = Rank(a) /\ Rank(a) \in 1..g.cis
         /\ \E b \in Ase : /\ In(ases[Owner[b]], b)
                           /\ Rank(b) = Rank(a) /\ Carrier(m, b)

\* The CISs that the ASEs have are theirs; nothing is being written.
Ranked(s) == \A a \in Ase : s.cid[a] \in {0, Rank(a)}
Silent(s) == \A a \in Ase : None(s.out[Owner[a]], a)

\* t is s as far as the ASE states, the ISO stack and the broadcast go, and
\* as far as the writes and the list of ASEs go as well.
SameIso(s, t) ==
    /\ t.releasing = s.releasing /\ t.ast = s.ast /\ t.cig = s.cig
    /\ t.cigEvt = s.cigEvt /\ t.iso = s.iso /\ t.big = s.big /\ t.up = s.up

SameStreams(s, t) ==
    SameIso(s, t) /\ t.list = s.list /\ t.cid = s.cid /\ t.out = s.out

\* It is s but for what a start configures.
SameButStart(s, t) ==
    /\ SamePlay(s, t) /\ SameIso(s, t)
    /\ t.ccs = s.ccs /\ t.cfg = s.cfg /\ t.pcfg = s.pcfg

\* The streams of mode m are being configured.
Launched(t, g, m) ==
    /\ Suits(t, g, m) /\ Ranked(t)
    /\ \A a \in Ase :
         IF InList(t.list, a) THEN One(t.out[Owner[a]], a, Msg("CONFIG_CODEC", a))
         ELSE None(t.out[Owner[a]], a)

\* configure_and_enable_ase lists the ASEs and writes to each of them.
LEMMA ConfigureLaunches ==
  ASSUME NEW s, Ok(s), s.list = EmptyList, Ranked(s), Silent(s),
         NEW g \in Cfg, NEW m, NEW ases, Good(ases, g, m), OwnAses(s, ases)
  PROVE  LET t == Configure(s, g, ases)
         IN  SameButStart(s, t) /\ Launched(t, g, m)
  <1> DEFINE cid == [a \in Ase |-> IF In(ases[Owner[a]], a) THEN CisId(a, g)
                                   ELSE s.cid[a]]
             out == [c \in Conn |-> s.out[c] \o ConfigMsgs(ases[c])]
             l1  == AssignAses(s.list, ases[1])
             l2  == AssignAses(l1, ases[2])
             t   == [s EXCEPT !.cid = cid, !.out = out, !.list = l2]
  <1>1. Configure(s, g, ases) = t
    BY DEF Configure, In
  <1>2. SamePlay(s, t)
    BY <1>1, ConfigureOk
  <1>3. \A a \in Ase : Owner[a] \in Conn
    BY DeviceAssumption
  <1>4. \A c \in Conn : /\ ases[c] \in Seq(OwnAse(c)) /\ ases[c] \in Seq(Ase)
                        /\ Len(ases[c]) \in 0..2 /\ Distinct(ases[c])
    <2> TAKE c \in Conn
    <2>1. ases[c] \in Seq(OwnAse(c)) /\ OwnAse(c) \subseteq Ase
      BY DEF Good, OwnAse
    <2>2. ases[c] \in Seq(Ase) /\ Len(ases[c]) \in Nat
      BY <2>1
    <2> QED  BY <2>1, <2>2 DEF Good
  <1>5. \A c \in Conn, a \in Ase : In(ases[c], a) => Owner[a] = c
    <2> TAKE c \in Conn, a \in Ase
    <2>1. \A i \in DOMAIN ases[c] : ases[c][i] \in OwnAse(c)
      BY <1>4
    <2> QED  BY <2>1 DEF In, OwnAse
  <1>6. /\ l2 \in AseLists /\ Apart(l2)
        /\ \A a \in Ase : InList(l2, a) <=> In(ases[Owner[a]], a)
    <2> DEFINE a1 == ases[1]
               a2 == ases[2]
               n1 == Len(a1)
               n2 == Len(a2)
               k  == 0 + n1
    <2>0. 1 \in Conn /\ 2 \in Conn /\ \A c \in Conn : c = 1 \/ c = 2
      BY DEF Conn
    <2>a. /\ n1 \in 0..2 /\ a1 \in Seq(Ase) /\ Distinct(a1)
          /\ n2 \in 0..2 /\ a2 \in Seq(Ase) /\ Distinct(a2)
      BY <1>4, <2>0
    <2>b. Len(a1) = n1 /\ Len(a2) = n2 /\ 0 \in 0..4
      OBVIOUS
    <2> HIDE DEF n1, n2
    <2>1. k \in 0..4 /\ k + n2 <= 4 /\ 0 + n1 <= 4
      BY <2>a
    <2>2. /\ s.list \in AseLists /\ Filled(s.list, 0) /\ Apart(s.list)
          /\ \A a \in Ase : ~InList(s.list, a)
      BY EmptyListType, DeviceAssumption
      DEF EmptyList, Filled, Apart, InList, Slots
    <2>3. /\ l1 \in AseLists /\ Filled(l1, k) /\ Apart(l1)
          /\ \A b \in Ase : InList(l1, b) <=> In(a1, b) \/ InList(s.list, b)
      <3>1. l1 = AssignAses(s.list, a1)
        OBVIOUS
      <3> HIDE DEF l1, k, a1
      <3>2. k = 0 + n1
        BY DEF k
      <3> QED  BY <2>a, <2>b, <2>1, <2>2, <3>1, <3>2, AssignMore
    <2>4. \A b \in Ase : InList(l1, b) <=> In(ases[1], b)
      BY <2>2, <2>3
    <2>5. \A b \in Ase : In(a2, b) => ~InList(l1, b)
      BY <1>5, <2>0, <2>4
    <2>6. /\ l2 \in AseLists /\ Apart(l2)
          /\ \A b \in Ase : InList(l2, b) <=> In(a2, b) \/ InList(l1, b)
      <3>1. l2 = AssignAses(l1, a2)
        OBVIOUS
      <3> HIDE DEF l1, l2, k, a2
      <3> QED  BY <2>a, <2>b, <2>1, <2>3, <2>5, <3>1, AssignMore
    <2> HIDE DEF l1
    <2> HIDE DEF l2
    <2>7. \A a \in Ase : InList(l2, a) <=> In(ases[Owner[a]], a)
      BY <1>3, <1>5, <2>0, <2>4, <2>6
    <2> QED  BY <2>6, <2>7
  <1>7. ASSUME NEW a \in Ase
        PROVE  IF InList(l2, a) THEN One(out[Owner[a]], a, Msg("CONFIG_CODEC", a))
               ELSE None(out[Owner[a]], a)
    <2> DEFINE c == Owner[a]
               q == ConfigMsgs(ases[c])
    <2>1. c \in Conn /\ out[c] = s.out[c] \o q
      BY <1>3
    <2>2. /\ q \in Seq(OwnMsg(c))
          /\ In(ases[c], a) => One(q, a, Msg("CONFIG_CODEC", a))
          /\ ~In(ases[c], a) => None(q, a)
      BY <1>4, <2>1, ConfigViews
    <2>3. s.out[c] \in Seq(OwnMsg(c)) /\ None(s.out[c], a)
      BY <2>1 DEF Ok, Listed, Silent
    <2>4. InList(l2, a) <=> In(ases[c], a)
      BY <1>6
    <2> HIDE DEF out, l2, q, c
    <2>5. /\ None(q, a) => None(s.out[c] \o q, a)
          /\ \A e : One(q, a, e) => One(s.out[c] \o q, a, e)
      BY <2>2, <2>3, ConcatViews
    <2> QED  BY <2>1, <2>2, <2>4, <2>5 DEF c
  <1>8. \A a \in Ase : cid[a] = IF In(ases[Owner[a]], a) THEN Rank(a) ELSE s.cid[a]
    BY DEF Good
  <1> HIDE DEF cid, out, l2
  <1>9. /\ t.cid = cid /\ t.out = out /\ t.list = l2
        /\ t.ccs = s.ccs /\ t.cfg = s.cfg /\ t.pcfg = s.pcfg
        /\ t.releasing = s.releasing /\ t.ast = s.ast /\ t.cig = s.cig
        /\ t.cigEvt = s.cigEvt /\ t.iso = s.iso /\ t.big = s.big
        /\ t.up = s.up
    BY DEF Ok, App
  <1> HIDE DEF t
  <1>10. Ranked(t)
    BY <1>8, <1>9 DEF Ranked
  <1>11. Suits(t, g, m)
    <2>1. t.list # EmptyList
      <3>1. PICK a \in Ase : InList(l2, a)
        BY <1>6 DEF Good
      <3>2. ~InList(EmptyList, a)
        BY DeviceAssumption DEF EmptyList, InList
      <3> QED  BY <1>9, <3>1, <3>2
    <2>2. ASSUME NEW a \in Ase, InList(l2, a)
          PROVE  t.cid[a] = Rank(a) /\ Serves(l2, g, m, a)
      <3>1. In(ases[Owner[a]], a)
        BY <1>6, <2>2
      <3>2. t.cid[a] = Rank(a)
        BY <1>8, <1>9, <3>1
      <3>3. /\ Rank(a) \in 1..g.cis
            /\ \E b \in Ase : /\ In(ases[Owner[b]], b)
                              /\ Rank(b) = Rank(a) /\ Carrier(m, b)
        BY <3>1 DEF Good
      <3> QED  BY <1>6, <3>2, <3>3 DEF Serves
    <2> QED  BY <1>6, <1>9, <2>1, <2>2 DEF Suits, Good
  <1>12. Launched(t, g, m)
    BY <1>7, <1>9, <1>10, <1>11 DEF Launched
  <1> QED  BY <1>1, <1>2, <1>9, <1>12 DEF SameButStart, SameIso, t

\* Context ctx is one that mode m is started with.
Fit(ctx, m) ==
    /\ ctx \in KnownCtx
    /\ m = MIC <=> ctx = "VOICE_ASSISTANTS"
    /\ ctx = "RINGTONE" => Inband

GoodOn(d, ases, g, m) ==
    /\ ases \in Seq(OwnAse(d)) /\ Len(ases) \in 1..2 /\ Distinct(ases)
    /\ \A a \in Ase : In(ases, a) =>
         /\ Owner[a] = d /\ CisId(a, g) = Rank(a) /\ Rank(a) \in 1..g.cis
         /\ \E b \in Ase : In(ases, b) /\ Rank(b) = Rank(a) /\ Carrier(m, b)

\* The ASEs of device d that a sequence lists.
Lists(ases, d, X) ==
    /\ ases \in Seq(OwnAse(d)) /\ Len(ases) \in 1..2 /\ Distinct(ases)
    /\ \A a : In(ases, a) <=> a \in X

\* A sequence of one ASE.
LEMMA ListsOne ==
  ASSUME NEW d, NEW x \in OwnAse(d)
  PROVE  Lists(<<x>>, d, {x})
  BY DEF Lists, Distinct, In

\* The same for two of them.
LEMMA ListsTwo ==
  ASSUME NEW d, NEW x \in OwnAse(d), NEW y \in OwnAse(d), x # y
  PROVE  Lists(<<x, y>>, d, {x, y})
  <1> DEFINE q == <<x, y>>
  <1>1. q \in Seq(OwnAse(d)) /\ Len(q) = 2 /\ DOMAIN q = {1, 2}
    OBVIOUS
  <1>2. q[1] = x /\ q[2] = y
    OBVIOUS
  <1> HIDE DEF q
  <1> QED  BY <1>1, <1>2 DEF Lists, Distinct, In, q

\* The ASEs that a start uses on one device are numbered with their rank.
LEMMA StartGoodOn ==
  ASSUME Suited, NEW s, s.up = Devices, NEW c \in Devices, NEW cfg \in Cfg,
         NEW m, Fit(cfg.ctx, m), NEW d \in Devices
  PROVE  GoodOn(d, AsesOf(d, Counted(s, c, cfg)), Counted(s, c, cfg), m)
  <1> DEFINE g == Counted(s, c, cfg)
             x == Snk[d][1]
             y == Snk[d][2]
             z == Src[d][1]
             r == IF Csis THEN d ELSE 1
  <1>0. SUFFICES GoodOn(d, AsesOf(d, g), g, m)
    OBVIOUS
  <1>1. /\ g.ctx = cfg.ctx /\ g.two = cfg.two /\ r \in 1..g.cis
        /\ ~Csis /\ cfg.ctx = "MEDIA" /\ cfg.two /\ Len(Snk[c]) > 1 => g.cis = 2
    BY CountedFacts DEF Fit
  <1>2. ~Csis => c = d
    BY DEF Suited
  <1> HIDE DEF g
  <1>3. /\ d \in Conn /\ x \in OwnAse(d) /\ z \in OwnAse(d) /\ x # z
        /\ IsSnk(x) /\ ~IsSrc(x) /\ IsSrc(z) /\ Rank(x) = r /\ Rank(z) = r
        /\ Len(Snk[d]) > 1 =>
             /\ y \in OwnAse(d) /\ y # x /\ IsSnk(y) /\ ~IsSrc(y)
             /\ ~Csis => Rank(y) = 2
    BY RankFacts
  <1>4. /\ x \in Ase /\ Owner[x] = d /\ z \in Ase /\ Owner[z] = d
        /\ Len(Snk[d]) > 1 => y \in Ase /\ Owner[y] = d
    BY <1>3 DEF OwnAse
  <1>5. ~LacksAse(d, g.ctx)
    BY DEF LacksAse, Suited
  <1>6. CisId(z, g) = r
    BY <1>3, <1>4 DEF CisId
  <1>7. CisId(x, g) = r
    <2>1. g.ctx = "RINGTONE" /\ ~Csis => d \in Left
      BY <1>1 DEF Fit, Suited
    <2> QED  BY <1>3, <1>4, <2>1 DEF CisId
  <1>8. ~Csis /\ g.two /\ g.ctx = "MEDIA" /\ Len(Snk[d]) > 1 => CisId(y, g) = 2
    BY <1>3, <1>4 DEF CisId
  <1>9. CASE cfg.ctx = "MEDIA"
    <2>1. AsesOf(d, g) = MediaAses(d, g) /\ m # MIC
      BY <1>1, <1>5, <1>9 DEF AsesOf, Fit
    <2>2. CASE ~Csis /\ g.two /\ Len(Snk[d]) > 1
      <3>1. AsesOf(d, g) = <<x, y>>
        BY <2>1, <2>2 DEF MediaAses
      <3>2. g.cis = 2 /\ CisId(y, g) = 2 /\ Rank(y) = 2
        BY <1>1, <1>2, <1>3, <1>8, <1>9, <2>2
      <3>3. Lists(<<x, y>>, d, {x, y})
        BY <1>3, <2>2, ListsTwo
      <3> HIDE DEF x, y, r
      <3>4. Carrier(m, x) /\ Carrier(m, y) /\ 2 \in 1..g.cis
        BY <1>3, <2>1, <2>2, <3>2 DEF Carrier
      <3>5. y \in Ase /\ Owner[y] = d
        BY <1>4, <2>2
      <3> QED  BY <1>1, <1>3, <1>4, <1>7, <3>1, <3>2, <3>3, <3>4, <3>5 DEF GoodOn, Lists
    <2>3. CASE ~(~Csis /\ g.two /\ Len(Snk[d]) > 1)
      <3>1. AsesOf(d, g) = <<x>>
        BY <2>1, <2>3 DEF MediaAses
      <3>3. Lists(<<x>>, d, {x})
        BY <1>3, ListsOne
      <3> HIDE DEF x, r
      <3>4. Carrier(m, x)
        BY <1>3, <2>1 DEF Carrier
      <3> QED  BY <1>1, <1>3, <1>4, <1>7, <3>1, <3>3, <3>4 DEF GoodOn, Lists
    <2> QED  BY <2>2, <2>3
  <1>10. CASE cfg.ctx \in {"RINGTONE", "CONVERSATIONAL", "GAME"}
    <2>1. AsesOf(d, g) = ConvAses(d) /\ m # MIC
      BY <1>1, <1>5, <1>10 DEF AsesOf, Fit
    <2>2. AsesOf(d, g) = <<z, x>> \/ AsesOf(d, g) = <<x>>
      BY <2>1 DEF ConvAses
    <2>3. Lists(<<z, x>>, d, {z, x}) /\ Lists(<<x>>, d, {x})
      BY <1>3, ListsOne, ListsTwo
    <2> HIDE DEF x, z, r
    <2>5. Carrier(m, x)
      BY <1>3, <2>1 DEF Carrier
    <2> QED  BY <1>1, <1>3, <1>4, <1>6, <1>7, <2>2, <2>3, <2>5 DEF GoodOn, Lists
  <1>11. CASE cfg.ctx = "VOICE_ASSISTANTS"
    <2>1. AsesOf(d, g) = <<z>> /\ m = MIC
      BY <1>1, <1>5, <1>11 DEF AsesOf, Fit
    <2>3. Lists(<<z>>, d, {z})
      BY <1>3, ListsOne
    <2> HIDE DEF x, z, r
    <2>5. Carrier(m, z)
      BY <1>3, <2>1 DEF Carrier
    <2> QED  BY <1>1, <1>3, <1>4, <1>6, <2>1, <2>3, <2>5 DEF GoodOn, Lists
  <1> QED  BY <1>9, <1>10, <1>11 DEF Fit, KnownCtx

\* A start from a state without streams launches those of its mode.
LEMMA StartLaunches ==
  ASSUME Suited, NEW s, Ok(s), s.up = Devices, s.list = EmptyList, Ranked(s),
         Silent(s), NEW c \in Devices, NEW cfg \in Cfg, NEW m, Fit(cfg.ctx, m)
  PROVE  LET g == Counted(s, c, cfg)
             t == StartStreaming(s, c, g)
         IN  SameButStart(s, t) /\ Launched(t, g, m)
  <1> DEFINE g    == Counted(s, c, cfg)
             ases == [d \in Conn |-> StartAses(s, c, g, d)]
  <1>1. c \in Conn /\ Devices \subseteq Conn
    BY DeviceAssumption
  <1>2. g \in Cfg /\ g.ctx \in KnownCtx
    BY CountedFacts DEF Fit
  <1>3. \A d \in Conn : ases[d] = IF d \in Devices THEN AsesOf(d, g) ELSE << >>
    BY StartsAll
  <1>4. \A d \in Devices : GoodOn(d, AsesOf(d, g), g, m)
    BY StartGoodOn
  <1>5. OwnAses(s, ases)
    BY <1>1, <1>2, StartAsesType DEF Ok, OwnAses
  <1>6. StartStreaming(s, c, g) = Configure(s, g, ases)
    BY DEF StartStreaming
  <1> HIDE DEF g, ases
  <1>7. Good(ases, g, m)
    <2>1. \A d \in Conn : /\ ases[d] \in Seq(OwnAse(d))
                          /\ Len(ases[d]) \in 0..2 /\ Distinct(ases[d])
      <3> TAKE d \in Conn
      <3>1. CASE d \in Devices
        <4>1. Len(ases[d]) \in 1..2
          BY <1>3, <1>4, <3>1 DEF GoodOn
        <4>2. \A k \in 1..2 : k \in 0..2
          OBVIOUS
        <4> QED  BY <1>3, <1>4, <3>1, <4>1, <4>2 DEF GoodOn
      <3>2. CASE d \notin Devices
        <4> DEFINE e == << >>
        <4>1. ases[d] = e
          BY <1>3, <3>2
        <4>2. Distinct(e) /\ e \in Seq(OwnAse(d)) /\ Len(e) \in 0..2
          BY DEF Distinct
        <4> HIDE DEF e
        <4> QED  BY <4>1, <4>2
      <3> QED  BY <3>1, <3>2
    <2>2. ASSUME NEW d \in Conn, NEW a \in Ase, In(ases[d], a)
          PROVE  /\ Owner[a] = d /\ CisId(a, g) = Rank(a) /\ Rank(a) \in 1..g.cis
                 /\ \E b \in Ase : /\ In(ases[Owner[b]], b)
                                   /\ Rank(b) = Rank(a) /\ Carrier(m, b)
      <3>1. d \in Devices
        BY <1>3, <2>2 DEF In
      <3>2. ases[d] = AsesOf(d, g) /\ GoodOn(d, ases[d], g, m)
        BY <1>3, <1>4, <3>1
      <3>3. PICK b \in Ase : /\ In(ases[d], b)
                             /\ Rank(b) = Rank(a) /\ Carrier(m, b)
        BY <2>2, <3>2 DEF GoodOn
      <3>4. Owner[b] = d
        BY <3>2, <3>3 DEF GoodOn
      <3> QED  BY <2>2, <3>2, <3>3, <3>4 DEF GoodOn
    <2>3. \E a \in Ase : In(ases[Owner[a]], a)
      <3>1. GoodOn(c, ases[c], g, m)
        BY <1>1, <1>3, <1>4
      <3>2. ases[c] \in Seq(OwnAse(c)) /\ Len(ases[c]) \in 1..2
        BY <3>1 DEF GoodOn
      <3>3. 1 \in DOMAIN ases[c] /\ ases[c][1] \in OwnAse(c)
        BY <3>2
      <3>4. ases[c][1] \in Ase /\ Owner[ases[c][1]] = c
        BY <3>3 DEF OwnAse
      <3>5. In(ases[c], ases[c][1])
        BY <3>3 DEF In
      <3> QED  BY <3>4, <3>5
    <2>4. \A a \in Ase : Owner[a] \in Conn
      BY DeviceAssumption
    <2> QED  BY <1>2, <2>1, <2>2, <2>3, <2>4 DEF Good
  <1>8. LET t == Configure(s, g, ases)
        IN  SameButStart(s, t) /\ Launched(t, g, m)
    BY <1>2, <1>5, <1>7, ConfigureLaunches
  <1> QED  BY <1>6, <1>8 DEF g

\* Only writes, list and CIS numbers tell what is being configured.
LEMMA LaunchedStays ==
  ASSUME NEW s, NEW t, SameStreams(s, t), NEW g, NEW m, Launched(s, g, m)
  PROVE  Launched(t, g, m)
  BY DEF Launched, SameStreams, Suits, Ranked

\* The fields of the state that the handlers of the modes set leave the
\* streams alone.
LEMMA PlainFields ==
  ASSUME NEW s, Ok(s), NEW x
  PROVE  /\ SameStreams(s, [s EXCEPT !.media = x])
         /\ SameStreams(s, [s EXCEPT !.ccs = x])
         /\ SameStreams(s, [s EXCEPT !.call = x])
         /\ SameStreams(s, [s EXCEPT !.cfg = x])
         /\ SameStreams(s, [s EXCEPT !.pcfg = x])
         /\ SameStreams(s, [s EXCEPT !.mode = x])
         /\ SameStreams(s, [s EXCEPT !.paused = x])
  BY DEF Ok, App, SameStreams, SameIso

\* num_cis is counted over the connected members only.
LEMMA CountedSame ==
  ASSUME NEW s, NEW t, t.up = s.up, NEW c, NEW cfg
  PROVE  Counted(t, c, cfg) = Counted(s, c, cfg)
  BY DEF Counted, NumDevices

\* Nothing is listed or written; every CIS number is a rank.
Clear(s) == s.up = Devices /\ s.list = EmptyList /\ Ranked(s) /\ Silent(s)

\* It stays so while a handler leaves the streams alone.
LEMMA ClearStays ==
  ASSUME NEW s, NEW t, SameStreams(s, t), Clear(s)
  PROVE  Clear(t)
  BY DEF SameStreams, SameIso, Clear, Ranked, Silent

\* What lepl_cap_resume_streaming does to the rest of the state.
ResumeFields(s, t, m) ==
    /\ SameMode(s, t) /\ SameIso(s, t) /\ t.cfg = s.cfg /\ t.pcfg = s.pcfg
    /\ t.media = IF m = MEDIA THEN "PLAYING" ELSE s.media
    /\ t.ccs = IF m = CALL THEN "INBAND_RINGTONE" ELSE s.ccs

\* A mode that is resumed, or started, launches its streams.
LEMMA ResumeLaunches ==
  ASSUME Suited, NEW s, Ok(s), Clear(s), NEW c \in Devices, NEW cfg \in Cfg,
         NEW m, m \in {MEDIA, MIC, BIDIRMIC} \/ (m = CALL /\ Inband),
         m = MEDIA => s.media # "PLAYING"
  PROVE  LET g == ResumeCfg(s, c, m, cfg)
             t == ResumeStreaming(s, c, m, cfg)
         IN  Ok(t) /\ Launched(t, g, m) /\ ResumeFields(s, t, m)
  <1>1. c \in Conn /\ \A ctx \in Contexts : [cfg EXCEPT !.ctx = ctx] \in Cfg
    BY DeviceAssumption, CfgCtxType
  <1>2. \A ctx \in Contexts : [cfg EXCEPT !.ctx = ctx].ctx = ctx
    BY DEF Cfg
  <1>3. Ok(ResumeStreaming(s, c, m, cfg))
    BY <1>1, ResumeStreamingOk
  <1>4. ASSUME NEW u, Ok(u), Clear(u), NEW ctx \in Contexts, Fit(ctx, m)
        PROVE  LET g == Counted(u, c, [cfg EXCEPT !.ctx = ctx])
                   t == StartStreaming(u, c, g)
               IN  Ok(t) /\ SameButStart(u, t) /\ Launched(t, g, m)
    <2> DEFINE h == [cfg EXCEPT !.ctx = ctx]
    <2>1. h \in Cfg /\ h.ctx = ctx
      BY <1>1, <1>2
    <2> HIDE DEF h
    <2>2. Ok(StartStreaming(u, c, Counted(u, c, h)))
      BY <1>1, <1>4, <2>1, CountedType, StartStreamingOk
    <2>3. LET g == Counted(u, c, h)
              t == StartStreaming(u, c, g)
          IN  SameButStart(u, t) /\ Launched(t, g, m)
      BY <1>4, <2>1, StartLaunches DEF Clear
    <2> QED  BY <2>2, <2>3 DEF h
  <1>5. CASE m = MEDIA
    <2> DEFINE g == Counted(s, c, [cfg EXCEPT !.ctx = "MEDIA"])
               t == StartStreaming(s, c, g)
               u == [t EXCEPT !.media = "PLAYING"]
    <2>1. Fit("MEDIA", m) /\ "MEDIA" \in Contexts
      BY <1>5, DistinctModes, ContextFacts DEF Fit, KnownCtx
    <2>2. Ok(t) /\ SameButStart(s, t) /\ Launched(t, g, m)
      BY <1>4, <2>1
    <2>3. PlayCfg(s, c, cfg) = g
      BY <1>5 DEF PlayCfg
    <2>4. ResumeStreaming(s, c, m, cfg) = u /\ ResumeCfg(s, c, m, cfg) = g
      <3>1. /\ ResumeStreaming(s, c, m, cfg) = McsPlay(s, c, cfg)
            /\ ResumeCfg(s, c, m, cfg) = PlayCfg(s, c, cfg)
        BY <1>5 DEF ResumeStreaming, ResumeCfg, MEDIA, CALL, MIC, BIDIRMIC
      <3>2. McsPlay(s, c, cfg) =
              [StartStreaming(s, c, PlayCfg(s, c, cfg)) EXCEPT !.media = "PLAYING"]
        BY <1>5 DEF McsPlay
      <3> QED  BY <2>3, <3>1, <3>2
    <2> HIDE DEF t, g
    <2>5. SameStreams(t, u)
      BY <2>2, PlainFields
    <2>6. /\ u.media = "PLAYING" /\ u.ccs = t.ccs /\ u.cfg = t.cfg
          /\ u.pcfg = t.pcfg /\ SameMode(t, u)
      BY <2>2 DEF Ok, App, SameMode
    <2> HIDE DEF u
    <2>7. Launched(u, g, m)
      BY <2>2, <2>5, LaunchedStays
    <2>8. ResumeFields(s, u, m)
      BY <1>5, <2>2, <2>5, <2>6, DistinctModes
      DEF ResumeFields, SameButStart, SamePlay, SameMode, SameIso, SameStreams
    <2> QED  BY <1>3, <2>4, <2>7, <2>8
  <1>6. CASE m \in {MIC, BIDIRMIC}
    <2> DEFINE ctx == IF m = MIC THEN "VOICE_ASSISTANTS"
                      ELSE IF c \in GameCtx THEN "GAME" ELSE "CONVERSATIONAL"
               g == Counted(s, c, [cfg EXCEPT !.ctx = ctx])
               t == StartStreaming(s, c, g)
    <2>1. Fit(ctx, m) /\ ctx \in Contexts
      BY <1>6, ModeNames, ContextFacts DEF Fit, KnownCtx, MIC, BIDIRMIC
    <2>2. ResumeStreaming(s, c, m, cfg) = t /\ ResumeCfg(s, c, m, cfg) = g
      BY <1>6 DEF ResumeStreaming, ResumeCfg, MicCfg, BidirCfg, MEDIA, CALL,
                  MIC, BIDIRMIC, Suited
    <2> HIDE DEF ctx
    <2>3. Ok(t) /\ SameButStart(s, t) /\ Launched(t, g, m)
      BY <1>4, <2>1
    <2> HIDE DEF t, g
    <2>4. ResumeFields(s, t, m)
      BY <1>6, <2>3
      DEF ResumeFields, SameButStart, SamePlay, MEDIA, CALL, MIC, BIDIRMIC
    <2> QED  BY <2>2, <2>3, <2>4
  <1>7. CASE m = CALL /\ Inband
    <2> DEFINE r == [s EXCEPT !.ccs = "INBAND_RINGTONE"]
               g == Counted(r, c, [cfg EXCEPT !.ctx = "RINGTONE"])
               t == StartStreaming(r, c, g)
    <2>1. Fit("RINGTONE", m) /\ "RINGTONE" \in Contexts
      BY <1>7, ContextFacts DEF Fit, KnownCtx, MIC, CALL
    <2>2. RingtoneSupported(c)
      BY <1>7 DEF RingtoneSupported, Suited
    <2>3. r.up = s.up
      BY DEF Ok, App
    <2>4. ResumeStreaming(s, c, m, cfg) = t /\ ResumeCfg(s, c, m, cfg) = g
      <3> DEFINE h == [cfg EXCEPT !.ctx = "RINGTONE"]
      <3>1. IncomingCfg(s, c, cfg) = Counted(s, c, h)
        BY <2>2 DEF IncomingCfg
      <3>2. IncomingCall(s, c, cfg) = StartStreaming(r, c, IncomingCfg(s, c, cfg))
        BY <2>2 DEF IncomingCall
      <3> HIDE DEF r, h
      <3>3. Counted(r, c, h) = Counted(s, c, h)
        BY <2>3, CountedSame
      <3>4. /\ ResumeStreaming(s, c, m, cfg) = IncomingCall(s, c, cfg)
            /\ ResumeCfg(s, c, m, cfg) = IncomingCfg(s, c, cfg)
        BY <1>7 DEF ResumeStreaming, ResumeCfg, MEDIA, CALL, MIC, BIDIRMIC
      <3> QED  BY <3>1, <3>2, <3>3, <3>4 DEF h
    <2>5. /\ Ok(r) /\ SameStreams(s, r) /\ SamePlay(s, r)
          /\ r.ccs = "INBAND_RINGTONE" /\ r.cfg = s.cfg /\ r.pcfg = s.pcfg
      <3>1. r.ccs = "INBAND_RINGTONE" /\ r.cfg = s.cfg /\ r.pcfg = s.pcfg
        BY DEF Ok, App
      <3> QED  BY <3>1, SetCcs, StateFacts, PlainFields
    <2> HIDE DEF r
    <2>6. Clear(r)
      BY <2>5, ClearStays
    <2>7. Ok(t) /\ SameButStart(r, t) /\ Launched(t, g, m)
      BY <1>4, <2>1, <2>5, <2>6
    <2> HIDE DEF t, g
    <2>8. ResumeFields(s, t, m)
      BY <1>7, <2>5, <2>7, DistinctModes
      DEF ResumeFields, SameButStart, SameStreams, SameIso, SamePlay, SameMode
    <2> QED  BY <2>4, <2>7, <2>8
  <1> QED  BY <1>5, <1>6, <1>7

\* What SetNextAudioMode leaves alone.
LEMMA SetNextFields ==
  ASSUME NEW s, Ok(s), NEW mode \in FinalModes, NEW cfg \in Cfg
  PROVE  LET t == SetNextAudioMode(s, mode, cfg)
         IN  /\ SameStreams(s, t) /\ t.ccs = s.ccs /\ t.call = s.call
             /\ t.cfg = cfg /\ t.media \in {s.media, "INACTIVE"}
             /\ t.mode = IN_TRANSIT /\ t.final = mode
  BY DEF SetNextAudioMode, Ok, App, SameStreams, SameIso

-----------------------------------------------------------------------------
(* What a stop leaves behind                                                 *)

\* The write that releases one slot of the list.
LEMMA ReleaseSlotViews ==
  ASSUME NEW s \in App, NEW c \in Conn, NEW i \in Slots, NEW a \in OwnAse(c)
  PROVE  /\ ReleaseSlot(s, i, c) \in Seq(OwnMsg(c))
         /\ s.list[i] = a => One(ReleaseSlot(s, i, c), a, Msg("RELEASE", a))
         /\ s.list[i] # a => None(ReleaseSlot(s, i, c), a)
  <1>1. a \in Ase /\ Owner[a] = c /\ a # NULL
    BY DeviceAssumption DEF OwnAse
  <1>2. s.list[i] \in Ase \cup {NULL}
    BY DEF App, AseLists
  <1>3. CASE SlotOf(s, i, c)
    <2> DEFINE m == Msg("RELEASE", s.list[i])
    <2>1. ReleaseSlot(s, i, c) = <<m>>
      BY <1>3 DEF ReleaseSlot, Msg
    <2>2. m \in OwnMsg(c) /\ m.ase = s.list[i]
      BY <1>2, <1>3, StateFacts DEF SlotOf, OwnMsg, CpMsg, Msg
    <2>3. s.list[i] = a => m = Msg("RELEASE", a)
      OBVIOUS
    <2> HIDE DEF m
    <2>4. <<m>> \in Seq(OwnMsg(c))
      BY <2>2
    <2> QED  BY <2>1, <2>2, <2>3, <2>4, SingleViews
  <1>4. CASE ~SlotOf(s, i, c)
    <2>1. ReleaseSlot(s, i, c) = << >> /\ s.list[i] # a
      BY <1>1, <1>4 DEF ReleaseSlot, SlotOf
    <2>2. None(<< >>, a)
      BY DEF None
    <2>3. << >> \in Seq(OwnMsg(c))
      OBVIOUS
    <2> QED  BY <2>1, <2>2, <2>3
  <1> QED  BY <1>3, <1>4

\* release_configured_ases writes once to each ASE in the list.
LEMMA ReleaseViews ==
  ASSUME NEW s \in App, Apart(s.list), NEW c \in Conn, NEW a \in OwnAse(c)
  PROVE  /\ InList(s.list, a) => One(ReleaseMsgs(s, c), a, Msg("RELEASE", a))
         /\ ~InList(s.list, a) => None(ReleaseMsgs(s, c), a)
  <1> DEFINE e  == Msg("RELEASE", a)
             r1 == ReleaseSlot(s, 1, c)
             r2 == ReleaseSlot(s, 2, c)
             r3 == ReleaseSlot(s, 3, c)
             r4 == ReleaseSlot(s, 4, c)
             q2 == r1 \o r2
             q3 == q2 \o r3
             q4 == q3 \o r4
  <1>1. ReleaseMsgs(s, c) = q4
    BY DEF ReleaseMsgs
  <1>2. /\ 1 \in Slots /\ 2 \in Slots /\ 3 \in Slots /\ 4 \in Slots
        /\ \A i \in Slots : i = 1 \/ i = 2 \/ i = 3 \/ i = 4
    BY DEF Slots
  <1>3. /\ r1 \in Seq(OwnMsg(c)) /\ r2 \in Seq(OwnMsg(c))
        /\ r3 \in Seq(OwnMsg(c)) /\ r4 \in Seq(OwnMsg(c))
        /\ IF s.list[1] = a THEN One(r1, a, e) ELSE None(r1, a)
        /\ IF s.list[2] = a THEN One(r2, a, e) ELSE None(r2, a)
        /\ IF s.list[3] = a THEN One(r3, a, e) ELSE None(r3, a)
        /\ IF s.list[4] = a THEN One(r4, a, e) ELSE None(r4, a)
    BY <1>2, ReleaseSlotViews
  <1>4. a # NULL
    BY DeviceAssumption DEF OwnAse
  <1>5. \A i, j \in Slots : s.list[i] = a /\ s.list[j] = a => i = j
    BY <1>4 DEF Apart
  <1> HIDE DEF e, r1, r2, r3, r4
  <1>6. q2 \in Seq(OwnMsg(c)) /\ q3 \in Seq(OwnMsg(c))
    BY <1>3
  <1>7. /\ None(r1, a) /\ None(r2, a) => None(q2, a)
        /\ None(r1, a) /\ One(r2, a, e) => One(q2, a, e)
        /\ One(r1, a, e) /\ None(r2, a) => One(q2, a, e)
    BY <1>3, ConcatViews
  <1> HIDE DEF q2
  <1>8. /\ None(q2, a) /\ None(r3, a) => None(q3, a)
        /\ None(q2, a) /\ One(r3, a, e) => One(q3, a, e)
        /\ One(q2, a, e) /\ None(r3, a) => One(q3, a, e)
    BY <1>3, <1>6, ConcatViews
  <1> HIDE DEF q3
  <1>9. /\ None(q3, a) /\ None(r4, a) => None(q4, a)
        /\ None(q3, a) /\ One(r4, a, e) => One(q4, a, e)
        /\ One(q3, a, e) /\ None(r4, a) => One(q4, a, e)
    BY <1>3, <1>6, ConcatViews
  <1> HIDE DEF q4
  <1>10. ~InList(s.list, a) => None(q4, a)
    BY <1>2, <1>3, <1>7, <1>8, <1>9 DEF InList
  <1>11. ASSUME InList(s.list, a)
         PROVE  One(q4, a, e)
    <2>1. PICK i \in Slots : s.list[i] = a
      BY <1>11 DEF InList
    <2>2. \A j \in Slots : j # i => s.list[j] # a
      BY <1>5, <2>1
    <2>3. CASE i = 1
      BY <1>2, <1>3, <1>7, <1>8, <1>9, <2>1, <2>2, <2>3
    <2>4. CASE i = 2
      BY <1>2, <1>3, <1>7, <1>8, <1>9, <2>1, <2>2, <2>4
    <2>5. CASE i = 3
      BY <1>2, <1>3, <1>7, <1>8, <1>9, <2>1, <2>2, <2>5
    <2>6. CASE i = 4
      BY <1>2, <1>3, <1>7, <1>8, <1>9, <2>1, <2>2, <2>6
    <2> QED  BY <1>2, <2>3, <2>4, <2>5, <2>6
  <1> QED  BY <1>1, <1>10, <1>11 DEF e

\* t is s but for what a stop changes.
SameButStop(s, t) ==
    /\ SamePlay(s, t)
    /\ t.list = s.list /\ t.cid = s.cid /\ t.ast = s.ast /\ t.cig = s.cig
    /\ t.cigEvt = s.cigEvt /\ t.iso = s.iso /\ t.big = s.big
    /\ t.ccs = s.ccs /\ t.cfg = s.cfg /\ t.pcfg = s.pcfg

\* Every listed ASE is being released, the others are not written to.
Releases(t) ==
    \A a \in Ase :
      IF InList(t.list, a) THEN One(t.out[Owner[a]], a, Msg("RELEASE", a))
      ELSE None(t.out[Owner[a]], a)

\* A stop of streams that nothing is written for releases those that are
\* listed, if any.
LEMMA StopReleases ==
  ASSUME Suited, NEW s, Ok(s), s.up = Devices, Silent(s), Apart(s.list),
         NEW c \in Devices
  PROVE  LET t == StopStreaming(s, c)
         IN  /\ Ok(t) /\ SameButStop(s, t)
             /\ s.list = EmptyList => t.releasing = s.releasing /\ Silent(t)
             /\ s.list # EmptyList /\ s.cfg.ctx \in KnownCtx =>
                  t.releasing /\ Releases(t)
  <1> DEFINE out == [d \in Conn |-> IF d \in Devices THEN s.out[d] \o ReleaseMsgs(s, d)
                                    ELSE s.out[d]]
             rel == s.releasing \/ \E i \in Slots, d \in Devices : SlotOf(s, i, d)
             r   == [s EXCEPT !.out = out, !.releasing = rel]
             t   == StopStreaming(s, c)
  <1>1. c \in Conn /\ s \in App /\ Devices \subseteq Conn
    BY DeviceAssumption DEF Ok
  <1>2. Ok(t)
    BY <1>1, StopStreamingOk
  <1>3. Members(s, c) = Devices
    BY DEF Members, Suited
  <1>4. s.cfg.ctx \in KnownCtx => t = r
    BY <1>3 DEF StopStreaming, ReleaseConfigured, KnownCtx
  <1>5. s.cfg.ctx \notin KnownCtx => t = s
    BY DEF StopStreaming, KnownCtx
  <1> HIDE DEF t
  <1>6. ASSUME NEW a \in Ase
        PROVE  IF InList(s.list, a) THEN One(out[Owner[a]], a, Msg("RELEASE", a))
               ELSE None(out[Owner[a]], a)
    <2> DEFINE d == Owner[a]
    <2>1. d \in Conn /\ a \in OwnAse(d)
      BY DeviceAssumption DEF OwnAse
    <2>2. None(s.out[d], a) /\ s.out[d] \in Seq(OwnMsg(d))
      BY <2>1 DEF Silent, Ok, Listed
    <2>3. /\ InList(s.list, a) => One(ReleaseMsgs(s, d), a, Msg("RELEASE", a))
          /\ ~InList(s.list, a) => None(ReleaseMsgs(s, d), a)
      BY <1>1, <2>1, ReleaseViews
    <2>4. InList(s.list, a) => d \in Devices
      BY DeviceAssumption DEF InList, Ok, Listed
    <2>5. out[d] = IF d \in Devices THEN s.out[d] \o ReleaseMsgs(s, d)
                   ELSE s.out[d]
      BY <2>1
    <2>6. ReleaseMsgs(s, d) \in Seq(OwnMsg(d))
      BY <1>1, <2>1, ReleaseMsgsType
    <2> HIDE DEF out, d
    <2>7. /\ None(ReleaseMsgs(s, d), a) => None(s.out[d] \o ReleaseMsgs(s, d), a)
          /\ One(ReleaseMsgs(s, d), a, Msg("RELEASE", a)) =>
               One(s.out[d] \o ReleaseMsgs(s, d), a, Msg("RELEASE", a))
      BY <2>2, <2>6, ConcatViews
    <2> QED  BY <2>2, <2>3, <2>4, <2>5, <2>7 DEF d
  <1>7. ASSUME s.list # EmptyList
        PROVE  rel
    <2>1. PICK i \in Slots : s.list[i] # NULL
      BY <1>1, <1>7 DEF App, AseLists, EmptyList
    <2>2. Owner[s.list[i]] \in Devices
      BY <2>1 DEF Ok, Listed
    <2> QED  BY <2>1, <2>2 DEF SlotOf
  <1>8. s.list = EmptyList => rel = s.releasing
    BY <1>1 DEF EmptyList, SlotOf, App
  <1>9. s.list = EmptyList => \A a \in Ase : ~InList(s.list, a)
    BY DeviceAssumption DEF InList, EmptyList
  <1> HIDE DEF out, rel
  <1>10. r.out = out /\ r.releasing = rel /\ SameButStop(s, r)
    BY <1>1 DEF App, SameButStop, SamePlay, SameMode
  <1> HIDE DEF r
  <1>11. SameButStop(s, s)
    BY DEF SameButStop, SamePlay, SameMode
  <1>12. SameButStop(s, t)
    BY <1>4, <1>5, <1>10, <1>11
  <1>13. s.list = EmptyList => t.releasing = s.releasing /\ Silent(t)
    BY <1>4, <1>5, <1>6, <1>8, <1>9, <1>10 DEF Silent
  <1>14. s.list # EmptyList /\ s.cfg.ctx \in KnownCtx => t.releasing /\ Releases(t)
    BY <1>4, <1>6, <1>7, <1>10 DEF Releases, SameButStop
  <1> QED  BY <1>2, <1>12, <1>13, <1>14 DEF t

=============================================================================
