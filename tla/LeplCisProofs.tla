--------------------------- MODULE LeplCisProofs ---------------------------
(* Proofs about the connected isochronous streams, for any CISs, ASEs,      *)
(* sessions and bounds: types, the data paths that the ASEs record are      *)
(* those of the stack, the audio engine fits the role of its buffers, a     *)
(* finished session has torn its streams down and a streaming ASE ends up   *)
(* with its data path.                                                      *)
EXTENDS LeplCis, TLAPS

(***************************************************************************)
(* The audio engine                                                        *)
(***************************************************************************)

\* The inductive invariant of the engine.
EngineOk(e) == e \in Audio /\ (e.started \/ e.enabled => e.role = "SOURCE")
EngineInv == EngineOk(au)

\* Stopping and disabling the engine, for both roles.
LEMMA StopOk ==
    ASSUME NEW e, EngineOk(e)
    PROVE  /\ EngineOk(StopStream(e)) /\ EngineOk(DisableAudio(e))
           /\ EngineOk(DisableAudio(StopStream(e)))
BY DEF EngineOk, Audio, StopStream, DisableAudio

\* A change of role leaves no engine running in the hands-free role.
LEMMA ReinitOk ==
    ASSUME NEW e, EngineOk(e), NEW role \in {"SOURCE", "HF"}
    PROVE  EngineOk(Reinit(e, role)) /\ Reinit(e, role).role = role
<1>1. CASE e.role = role
    BY <1>1 DEF Reinit
<1>2. CASE e.role # role /\ role = "SOURCE"
    BY <1>2 DEF Reinit, EngineOk, Audio
<1>3. CASE e.role # role /\ role = "HF"
    BY <1>3 DEF Reinit, EngineOk, Audio, StopStream, DisableAudio
<1>4. QED BY <1>1, <1>2, <1>3

\* Setting up a data path prepares the engine for the mode.
LEMMA PrepareOk ==
    ASSUME NEW e, EngineOk(e)
    PROVE  EngineOk(PrepareAudio(e))
<1>1. CASE mode \in {"MEDIA", "RING"}
    <2> DEFINE f == Reinit(e, "SOURCE")
    <2>1. EngineOk(f) /\ f.role = "SOURCE" BY ReinitOk
    <2>2. PrepareAudio(e) = [f EXCEPT !.enabled = TRUE]
        BY <1>1 DEF PrepareAudio
    <2> HIDE DEF f
    <2>3. QED BY <2>1, <2>2 DEF EngineOk, Audio
<1>2. CASE mode \notin {"MEDIA", "RING"}
    <2> DEFINE f == Reinit(e, "HF")
    <2>1. EngineOk(f) BY ReinitOk
    <2>2. PrepareAudio(e)
            = [f EXCEPT !.am = IF f.am = "STARTED" THEN f.am ELSE "OPEN"]
        BY <1>2 DEF PrepareAudio
    <2> HIDE DEF f
    <2>3. QED BY <2>1, <2>2 DEF EngineOk, Audio
<1>3. QED BY <1>1, <1>2

\* Starting the stream of the role.
LEMMA StartOk ==
    ASSUME NEW e, EngineOk(e)
    PROVE  EngineOk(StartStream(e))
BY DEF EngineOk, Audio, StartStream

\* Every step keeps the engine in order.
LEMMA EngineStep == EngineInv /\ [Next]_vars => EngineInv'
<1> SUFFICES ASSUME EngineInv, [Next]_vars PROVE EngineInv'
    OBVIOUS
<1> USE DEF EngineInv
<1>1. \A e : EngineOk(e) => EngineOk(PrepareAudio(e))
    BY PrepareOk
<1>2. ASSUME NEW o, NEW A, NEW H, SetupDatapath(o, A, H) PROVE EngineOk(au')
    BY <1>1, <1>2 DEF SetupDatapath
<1>3. ASSUME NEW o PROVE EngineOk(StopAudio(o, au))
    BY StopOk DEF StopAudio
<1>4. CASE au' = au BY <1>4
<1>5. ASSUME NEW a \in Ases, NotifyEnabling(a) PROVE EngineOk(au')
    BY <1>5, <1>2 DEF NotifyEnabling
<1>6. ASSUME NEW a \in Ases, NotifyStreaming(a) PROVE EngineOk(au')
    BY <1>6, <1>2, StartOk DEF NotifyStreaming
<1>7. ASSUME NEW i, NEW s, HandleConnection(i, s) PROVE EngineOk(au')
    BY <1>7, <1>2 DEF HandleConnection
<1>8. ASSUME NEW i \in Cises, CisDisconnected(i) PROVE EngineOk(au')
    BY <1>8, <1>3 DEF CisDisconnected
<1>9. ASSUME NEW a \in Ases, DataPathSetup(a) PROVE EngineOk(au')
    BY <1>9, StartOk DEF DataPathSetup
<1>10. ASSUME NEW a \in Ases, DataPathRemoved(a) PROVE EngineOk(au')
    BY <1>10, <1>3 DEF DataPathRemoved
<1>11. ASSUME NEW i \in Cises, Established(i) \/ NotEstablished(i)
       PROVE  EngineOk(au')
    BY <1>11, <1>7 DEF Established, NotEstablished
<1>12. QED
    BY <1>4, <1>5, <1>6, <1>8, <1>9, <1>10, <1>11
    DEF Next, vars, Start, Stop, DisconnectDevice, SetCigComplete, RetryTimer,
        NotifyReleasing, NotifyIdle, DataPathRefused, Synchronise,
        FailedToSynchronise, Drop, LinkLost, LinkDown, LinkBack

(* The engine for media runs in the role of a source only, whatever the     *)
(* order of sessions, notifications and ISO events.                         *)
THEOREM EngineFitsRole == Spec => []EngineMatchesRole
<1>1. Init => EngineInv
    BY DEF Init, EngineInv, EngineOk, Audio
<1>2. EngineInv => EngineMatchesRole
    BY DEF EngineInv, EngineOk, EngineMatchesRole
<1>3. QED BY <1>1, <1>2, EngineStep, PTL DEF Spec

(***************************************************************************)
(* The data paths                                                          *)
(***************************************************************************)

\* The CISs on which a data path can be.
Carriers == {"CONNECTED", "DROPPED", "CLOSING"}

\* What holds of the record x of an ASE, the state c of its CIS and the state
\* p of its data path: besides PathTracked, the handle is there from the
\* request for the path on, a path needs a CIS that was connected, and an ASE
\* with a handle or under way has the number of its CIS, by which the events
\* find it.
AseOk(x, c, p) ==
    /\ x.dp => x.hdl /\ p \in {"UP", "REMOVING"}
    /\ p = "SETTING" => x.hdl /\ c \in Carriers
    /\ p = "UP" => c \in Carriers
    /\ x.hdl \/ x.st # IDLE => x.cid

\* The same for all ASEs s and the stack o; the inductive invariant.
Tracked(s, o) ==
    /\ s \in [Ases -> Ase] /\ o \in Iso
    /\ \A a \in Ases : AseOk(s[a], o.cis[a[1]], o.path[a])
PathInv == Tracked(ase, iso)

\* An ASE belongs to a CIS of the CIG.
LEMMA AseCis == \A a \in Ases : a[1] \in Cises
BY CisAssumption

\* Configuring the CIG and creating CISs touch no data path.
LEMMA CreateTracked ==
    ASSUME NEW s, NEW o, Tracked(s, o), NEW I
    PROVE  Tracked(s, SetCig(o)) /\ Tracked(s, CreateCis(o, I))
<1>1. Tracked(s, SetCig(o))
    <2>1. SetCig(o) \in Iso /\ SetCig(o).cis = o.cis /\ SetCig(o).path = o.path
        BY DEF Tracked, SetCig, Iso
    <2>2. QED BY <2>1 DEF Tracked
<1>2. Tracked(s, CreateCis(o, I))
    <2> DEFINE n == CreateCis(o, I)
               c == [i \in Cises |->
                       IF i \in I /\ o.cig /\ o.cis[i] = "NONE" /\ link[i] = "UP"
                       THEN "CONNECTING" ELSE o.cis[i]]
    <2>1. c \in [Cises -> CisStates]
        BY DEF Tracked, Iso, CisStates
    <2>2. n = [o EXCEPT !.cis = c]
        BY DEF CreateCis
    <2>3. \A i \in Cises : c[i] = o.cis[i] \/ o.cis[i] = "NONE"
        OBVIOUS
    <2> HIDE DEF n, c
    <2>4. n \in Iso /\ n.cis = c /\ n.path = o.path
        BY <2>1, <2>2 DEF Tracked, Iso
    <2>5. ASSUME NEW a \in Ases PROVE AseOk(s[a], n.cis[a[1]], n.path[a])
        BY <2>3, <2>4, AseCis DEF Tracked, AseOk, Carriers
    <2>6. Tracked(s, n) BY <2>4, <2>5 DEF Tracked
    <2>7. QED BY <2>6 DEF n
<1>3. QED BY <1>1, <1>2

\* A data path is asked for with the handle of a connected CIS.
LEMMA SetupTracked ==
    ASSUME NEW s, NEW o, Tracked(s, o), NEW A, \A a \in A \cap Ases : s[a].hdl
    PROVE  Tracked(s, SetupPath(o, A))
<1> DEFINE n == SetupPath(o, A)
           p == [a \in Ases |->
                   IF a \in A /\ IsConnected(o, a[1]) /\ o.path[a] = "NONE"
                   THEN "SETTING" ELSE o.path[a]]
<1>1. p \in [Ases -> PathStates]
    BY DEF Tracked, Iso, PathStates
<1>2. n = [o EXCEPT !.path = p]
    BY DEF SetupPath, CanSetup
<1>3. \A a \in Ases : \/ p[a] = o.path[a]
                      \/ /\ a \in A /\ o.cis[a[1]] \in Carriers
                         /\ o.path[a] = "NONE" /\ p[a] = "SETTING"
    BY DEF IsConnected, Carriers
<1> HIDE DEF n, p
<1>4. n \in Iso /\ n.cis = o.cis /\ n.path = p
    BY <1>1, <1>2 DEF Tracked, Iso
<1>5. ASSUME NEW a \in Ases PROVE AseOk(s[a], n.cis[a[1]], n.path[a])
    BY <1>3, <1>4 DEF Tracked, AseOk
<1>6. Tracked(s, n) BY <1>4, <1>5 DEF Tracked
<1>7. QED BY <1>6 DEF n

\* The removal of data paths that are up.
LEMMA RemoveTracked ==
    ASSUME NEW s, NEW o, Tracked(s, o), NEW A
    PROVE  Tracked(s, RemovePath(o, A))
<1> DEFINE n == RemovePath(o, A)
           p == [a \in Ases |-> IF a \in A /\ CanRemove(o, a)
                                  THEN "REMOVING" ELSE o.path[a]]
<1>1. p \in [Ases -> PathStates]
    BY DEF Tracked, Iso, PathStates
<1>2. n = [o EXCEPT !.path = p]
    BY DEF RemovePath
<1>3. \A a \in Ases : \/ p[a] = o.path[a]
                      \/ o.path[a] = "UP" /\ p[a] = "REMOVING"
    BY DEF CanRemove
<1> HIDE DEF n, p
<1>4. n \in Iso /\ n.cis = o.cis /\ n.path = p
    BY <1>1, <1>2 DEF Tracked, Iso
<1>5. ASSUME NEW a \in Ases PROVE AseOk(s[a], n.cis[a[1]], n.path[a])
    BY <1>3, <1>4 DEF Tracked, AseOk
<1>6. Tracked(s, n) BY <1>4, <1>5 DEF Tracked
<1>7. QED BY <1>6 DEF n

\* A CIS moves to state c: one that carries data paths to another such state.
LEMMA MoveTracked ==
    ASSUME NEW s, NEW o, Tracked(s, o), NEW i \in Cises, NEW c \in CisStates,
           o.cis[i] \in Carriers => c \in Carriers
    PROVE  Tracked(s, [o EXCEPT !.cis[i] = c])
<1> DEFINE n == [o EXCEPT !.cis[i] = c]
           f == [o.cis EXCEPT ![i] = c]
<1>1. f \in [Cises -> CisStates]
    BY DEF Tracked, Iso
<1>2. n = [o EXCEPT !.cis = f]
    OBVIOUS
<1>3. \A j \in Cises : o.cis[j] \in Carriers => f[j] \in Carriers
    BY DEF Tracked, Iso
<1> HIDE DEF n, f
<1>4. n \in Iso /\ n.cis = f /\ n.path = o.path
    BY <1>1, <1>2 DEF Tracked, Iso
<1>5. ASSUME NEW a \in Ases PROVE AseOk(s[a], n.cis[a[1]], n.path[a])
    BY <1>3, <1>4, AseCis DEF Tracked, AseOk
<1>6. Tracked(s, n) BY <1>4, <1>5 DEF Tracked
<1>7. QED BY <1>6 DEF n

\* disconnect_cis.
LEMMA DisconnectTracked ==
    ASSUME NEW s, NEW o, Tracked(s, o), NEW i \in Cises, CanDisconnect(o, i)
    PROVE  Tracked(s, DisconnectCis(o, i))
<1>1. /\ o.cis[i] \in {"CONNECTING", "SYNCED", "CONNECTED", "DROPPED"}
      /\ Closes[o.cis[i]] \in CisStates
      /\ o.cis[i] \in Carriers => Closes[o.cis[i]] \in Carriers
    BY DEF CanDisconnect, Closes, CisStates, Carriers
<1>2. DisconnectCis(o, i) = [o EXCEPT !.cis[i] = Closes[o.cis[i]]]
    BY DEF DisconnectCis, Tracked, Iso
<1>3. QED BY <1>1, <1>2, MoveTracked

\* The CIG goes only when no CIS is left that could carry a data path.
LEMMA CigTracked ==
    ASSUME NEW s, NEW o, Tracked(s, o)
    PROVE  Tracked(s, RemoveCig(o))
<1>1. CASE Illegal(o) BY <1>1 DEF RemoveCig
<1>2. CASE ~Illegal(o)
    <2> DEFINE n == RemoveCig(o)
               p == [a \in Ases |-> IF o.path[a] = "REMOVING"
                                      THEN "REMOVING" ELSE "NONE"]
    <2>1. p \in [Ases -> PathStates]
        BY DEF PathStates
    <2>2. n = [o EXCEPT !.cig = FALSE, !.evt = FALSE, !.path = p]
        BY <1>2 DEF RemoveCig
    <2>3. \A i \in Cises : o.cis[i] = "NONE"
        BY <1>2 DEF Illegal
    <2>4. \A a \in Ases : p[a] = IF o.path[a] = "REMOVING"
                                   THEN "REMOVING" ELSE "NONE"
        OBVIOUS
    <2> HIDE DEF n, p
    <2>5. n \in Iso /\ n.cis = o.cis /\ n.path = p
        BY <2>1, <2>2 DEF Tracked, Iso
    <2>6. ASSUME NEW a \in Ases PROVE AseOk(s[a], n.cis[a[1]], n.path[a])
        BY <2>3, <2>4, <2>5, AseCis DEF Tracked, AseOk, Carriers
    <2>7. Tracked(s, n) BY <2>5, <2>6 DEF Tracked
    <2>8. QED BY <2>7 DEF n
<1>3. QED BY <1>1, <1>2

\* A notification of RELEASING.
LEMMA ReleaseTracked ==
    ASSUME NEW s, NEW o, Tracked(s, o), NEW a \in Ases
    PROVE  Tracked(s, Release(o, a))
<1>1. CASE CanRemove(o, a)
    BY <1>1, RemoveTracked DEF Release
<1>2. CASE ~CanRemove(o, a) /\ CanDisconnect(o, a[1])
    BY <1>2, DisconnectTracked, AseCis DEF Release
<1>3. CASE ~CanRemove(o, a) /\ ~CanDisconnect(o, a[1])
    BY <1>3, CigTracked DEF Release
<1>4. QED BY <1>1, <1>2, <1>3

\* The record of the ASEs changes, the stack does not: every ASE keeps what it
\* has, and gets a handle or a state only with the number of its CIS.
LEMMA RecordTracked ==
    ASSUME NEW s, NEW o, Tracked(s, o), NEW t \in [Ases -> Ase],
           \A a \in Ases :
              /\ t[a].dp = s[a].dp
              /\ s[a].hdl => t[a].hdl
              /\ s[a].cid => t[a].cid
              /\ t[a].hdl => s[a].hdl \/ t[a].cid
              /\ t[a].st # IDLE => s[a].st # IDLE \/ t[a].cid
    PROVE  Tracked(t, o)
<1>1. ASSUME NEW a \in Ases PROVE AseOk(t[a], o.cis[a[1]], o.path[a])
    BY DEF Tracked, AseOk
<1>2. QED BY <1>1 DEF Tracked

\* Steps of the session.
LEMMA SessionTracked ==
    ASSUME PathInv,
           \/ \E m \in Modes : Start(m)
           \/ \E a \in Ases : NotifyReleasing(a) \/ NotifyIdle(a)
    PROVE  PathInv'
<1> USE DEF PathInv
<1>1. ase \in [Ases -> Ase] BY DEF Tracked
<1>2. ASSUME NEW m \in Modes, Start(m) PROVE Tracked(ase', iso')
    <2> DEFINE A == {a \in Uses[m] : link[a[1]] = "UP"}
    <2>1. /\ ase' = [a \in Ases |-> IF a \in A
                 THEN [ase[a] EXCEPT !.st = QOS, !.cid = TRUE, !.rsr = FALSE]
                 ELSE ase[a]]
          /\ iso' = iso
        BY <1>2 DEF Start
    <2> HIDE DEF A
    <2>2. ase' \in [Ases -> Ase]
        BY <1>1, <2>1 DEF Ase, AseStates, QOS
    <2>3. ASSUME NEW a \in Ases
          PROVE  /\ ase'[a].dp = ase[a].dp /\ ase'[a].hdl = ase[a].hdl
                 /\ ase[a].cid => ase'[a].cid
                 /\ ase'[a].st # IDLE => ase[a].st # IDLE \/ ase'[a].cid
        BY <1>1, <2>1 DEF Ase
    <2>4. Tracked(ase', iso)
        BY <2>2, <2>3, RecordTracked, ZenonT(30)
    <2>5. QED BY <2>1, <2>4
<1>3. ASSUME NEW b \in Ases, NEW st \in AseStates, ase[b].st # IDLE,
             ase' = [ase EXCEPT ![b].st = st]
      PROVE  Tracked(ase', iso)
    <2>1. ase' \in [Ases -> Ase]
        BY <1>1, <1>3 DEF Ase
    <2>2. ASSUME NEW a \in Ases
          PROVE  /\ ase'[a].dp = ase[a].dp /\ ase'[a].hdl = ase[a].hdl
                 /\ ase[a].cid = ase'[a].cid
                 /\ ase'[a].st # IDLE => ase[a].st # IDLE
        BY <1>1, <1>3 DEF Ase
    <2>3. QED BY <2>1, <2>2, RecordTracked
<1>4. ASSUME NEW a \in Ases, NotifyReleasing(a) PROVE Tracked(ase', iso')
    <2>1. /\ ase' = [ase EXCEPT ![a].st = RELEASING]
          /\ iso' = Release(iso, a)
        BY <1>4 DEF NotifyReleasing
    <2>2. ase[a].st # IDLE /\ RELEASING \in AseStates
        BY <1>4 DEF NotifyReleasing, IDLE, QOS, ENABLING, STREAMING, RELEASING,
                    AseStates
    <2>3. Tracked(ase', iso) BY <1>3, <2>1, <2>2
    <2>4. QED BY <2>1, <2>3, ReleaseTracked
<1>5. ASSUME NEW a \in Ases, NotifyIdle(a) PROVE Tracked(ase', iso')
    <2>1. ase' = [ase EXCEPT ![a].st = IDLE] /\ iso' = iso
        BY <1>5 DEF NotifyIdle
    <2>2. ase[a].st # IDLE /\ IDLE \in AseStates
        BY <1>5 DEF NotifyIdle, IDLE, RELEASING, AseStates
    <2>3. Tracked(ase', iso) BY <1>3, <2>1, <2>2
    <2>4. QED BY <2>1, <2>3
<1>6. QED BY <1>2, <1>4, <1>5

\* An ASE with another state and handle has its type.
LEMMA NotifiedTyped ==
    ASSUME NEW s \in [Ases -> Ase], NEW a \in Ases, NEW st \in AseStates, NEW h \in BOOLEAN
    PROVE  [s EXCEPT ![a].st = st, ![a].hdl = h] \in [Ases -> Ase]
BY DEF Ase

\* A notification of ENABLING or STREAMING may ask for a data path.
LEMMA NotifyTracked ==
    ASSUME PathInv, NEW b \in Ases, NotifyEnabling(b) \/ NotifyStreaming(b)
    PROVE  PathInv'
<1> USE DEF PathInv
<1>1. ase \in [Ases -> Ase] /\ AseOk(ase[b], iso.cis[b[1]], iso.path[b])
    BY DEF Tracked
<1>2. CASE NotifyEnabling(b)
    <2> DEFINE A    == {c \in {b} : c[2] = "SRC" /\ ~ase[c].dp /\ ase[c].hdl}
               last == /\ \A c \in Active \ {b} : ase[c].st = ENABLING
                       /\ \A c \in A : CanSetup(iso, c)
               late == ~transit /\ mode # "NONE" /\ \A c \in A : CanSetup(iso, c)
               o    == IF late THEN CreateCis(iso, {b[1]})
                       ELSE IF transit /\ mode # "NONE" /\ last THEN SetCig(iso)
                       ELSE iso
               h    == ase[b].hdl \/ (late /\ IsConnected(iso, b[1]))
    <2>1. /\ ase[b].st = QOS
          /\ ase' = [ase EXCEPT ![b].st = ENABLING, ![b].hdl = h]
          /\ iso' = SetupPath(o, A \cap A)
        BY <1>2 DEF NotifyEnabling, SetupDatapath
    <2>2. Tracked(ase, o) BY CreateTracked
    <2>3. h \in BOOLEAN /\ (ase[b].hdl => h)
        BY <1>1 DEF Ase
    <2>4. A \subseteq {b} /\ \A a \in A : ase[a].hdl
        OBVIOUS
    <2> HIDE DEF A, o, h
    <2>5. ase' \in [Ases -> Ase]
        <3>1. ENABLING \in AseStates BY DEF AseStates
        <3>2. QED BY <1>1, <2>1, <2>3, <3>1, NotifiedTyped
    <2>6. ASSUME NEW a \in Ases
          PROVE  /\ ase'[a].dp = ase[a].dp /\ (ase[a].hdl => ase'[a].hdl)
                 /\ ase'[a].cid = ase[a].cid
                 /\ ase'[a].hdl => ase[a].hdl \/ ase'[a].cid
                 /\ ase'[a].st # IDLE => ase[a].st # IDLE \/ ase'[a].cid
        BY <1>1, <2>1, <2>3 DEF Ase, AseOk, QOS, IDLE
    <2>7. Tracked(ase', o)
        BY <2>2, <2>5, <2>6, RecordTracked
    <2>8. \A a \in (A \cap A) \cap Ases : ase'[a].hdl
        BY <2>4, <2>6
    <2>9. QED BY <2>1, <2>7, <2>8, SetupTracked
<1>3. CASE NotifyStreaming(b)
    <2>1. /\ ase[b].st = ENABLING
          /\ ase' = [ase EXCEPT ![b].st = STREAMING]
        BY <1>3 DEF NotifyStreaming
    <2>2. ase' \in [Ases -> Ase]
        BY <1>1, <2>1 DEF Ase, AseStates, STREAMING
    <2>3. ASSUME NEW a \in Ases
          PROVE  /\ ase'[a].dp = ase[a].dp /\ ase[a].hdl = ase'[a].hdl
                 /\ ase'[a].cid = ase[a].cid
                 /\ ase'[a].st # IDLE => ase[a].st # IDLE
        BY <1>1, <2>1 DEF Ase, ENABLING, IDLE
    <2>4. Tracked(ase', iso)
        BY <2>2, <2>3, RecordTracked
    <2>5. CASE iso' = iso BY <2>4, <2>5
    <2>6. CASE iso' = SetupPath(iso, {b} \cap {c \in {b} : ase[c].hdl})
        <3>1. \A a \in ({b} \cap {c \in {b} : ase[c].hdl}) \cap Ases : ase'[a].hdl
            BY <2>3
        <3>2. QED BY <2>4, <2>6, <3>1, SetupTracked
    <2>7. QED BY <1>3, <2>5, <2>6 DEF NotifyStreaming, SetupDatapath
<1>4. QED BY <1>2, <1>3

\* An event that concerns the connection of CIS i: it has carried no data
\* path before, and its ASEs get their handles.
LEMMA ConnectionTracked ==
    ASSUME PathInv, NEW i \in Cises, NEW c \in CisStates,
           iso.cis[i] \notin Carriers, HandleConnection(i, c)
    PROVE  PathInv'
<1> USE DEF PathInv
<1> DEFINE A == {a \in AsesOf(i) : NeedsPath(a)}
           o == [iso EXCEPT !.cis[i] = c]
<1>1. /\ ase' = [a \in Ases |-> IF a \in AsesOf(i)
                   THEN [ase[a] EXCEPT !.hdl = TRUE] ELSE ase[a]]
      /\ iso' = SetupPath(o, A \cap A)
    BY DEF HandleConnection, SetupDatapath
<1>2. A \subseteq AsesOf(i) /\ \A a \in AsesOf(i) : ase[a].cid
    BY DEF AsesOf
<1>3. Tracked(ase, o) BY MoveTracked
<1> HIDE DEF A, o
<1>4. ase \in [Ases -> Ase] BY DEF Tracked
<1>5. ase' \in [Ases -> Ase]
    BY <1>1, <1>4 DEF Ase
<1>6. ASSUME NEW a \in Ases
      PROVE  /\ ase'[a].dp = ase[a].dp /\ (ase[a].hdl => ase'[a].hdl)
             /\ ase'[a].cid = ase[a].cid /\ ase'[a].st = ase[a].st
             /\ ase'[a].hdl => ase[a].hdl \/ ase'[a].cid
             /\ a \in AsesOf(i) => ase'[a].hdl
    BY <1>1, <1>2, <1>4 DEF Ase
<1>7. Tracked(ase', o)
    BY <1>3, <1>5, <1>6, RecordTracked
<1>8. \A a \in (A \cap A) \cap Ases : ase'[a].hdl
    BY <1>2, <1>6
<1>9. QED BY <1>1, <1>7, <1>8, SetupTracked

\* The CIS of a disconnected-event takes its data paths along; those that an
\* ASE records are being removed by then, and their ASE keeps its handle.
LEMMA DisconnectedTracked ==
    ASSUME PathInv, NEW i \in Cises, CisDisconnected(i)
    PROVE  PathInv'
<1> USE DEF PathInv
<1> DEFINE A == {a \in AsesOf(i) : ase[a].dp}
           r == RemovePath(iso, A)
           o == CisGone(r, i)
           c == [r.cis EXCEPT ![i] = "NONE"]
           p == [a \in Ases |-> IF a[1] = i /\ r.path[a] # "REMOVING"
                                  THEN "NONE" ELSE r.path[a]]
<1>1. ase \in [Ases -> Ase] /\ Tracked(ase, r)
    BY RemoveTracked DEF Tracked
<1>2. /\ ase' = [a \in Ases |-> IF a \in Unbound(i)
                   THEN [ase[a] EXCEPT !.hdl = FALSE] ELSE ase[a]]
      /\ iso' = RemoveCig(o) \/ iso' = o
    BY DEF CisDisconnected
<1>3. \A a \in Ases : ase[a].dp /\ a[1] = i => r.path[a] = "REMOVING"
    <2> SUFFICES ASSUME NEW a \in Ases, ase[a].dp, a[1] = i
                 PROVE  r.path[a] = "REMOVING"
        OBVIOUS
    <2>1. a \in A /\ ase[a].hdl /\ iso.path[a] \in {"UP", "REMOVING"}
        BY DEF Tracked, AseOk, AsesOf
    <2>2. r.path = [b \in Ases |-> IF b \in A /\ CanRemove(iso, b)
                                     THEN "REMOVING" ELSE iso.path[b]]
        BY DEF RemovePath, Tracked, Iso
    <2>3. CanRemove(iso, a) \/ iso.path[a] = "REMOVING"
        BY <2>1 DEF CanRemove
    <2> HIDE DEF A, r
    <2>4. QED BY <2>1, <2>2, <2>3
<1> HIDE DEF A, r
<1>4. o = [r EXCEPT !.cis[i] = "NONE", !.path = p]
    BY DEF CisGone
<1>5. c \in [Cises -> CisStates] /\ p \in [Ases -> PathStates]
    BY <1>1 DEF Tracked, Iso, CisStates, PathStates
<1>6. o \in Iso /\ o.cis = c /\ o.path = p
    BY <1>1, <1>4, <1>5 DEF Tracked, Iso
<1>7. ase' \in [Ases -> Ase]
    BY <1>1, <1>2 DEF Ase
<1>8. ASSUME NEW a \in Ases
      PROVE  /\ ase'[a].dp = ase[a].dp /\ ase'[a].cid = ase[a].cid
             /\ ase'[a].st = ase[a].st /\ (ase'[a].hdl => ase[a].hdl)
             /\ ase[a].hdl /\ (ase[a].dp \/ a[1] # i) => ase'[a].hdl
    BY <1>1, <1>2 DEF Ase, Unbound, AsesOf
<1>9. ASSUME NEW a \in Ases PROVE AseOk(ase'[a], o.cis[a[1]], o.path[a])
    <2>1. AseOk(ase[a], r.cis[a[1]], r.path[a]) BY <1>1 DEF Tracked
    <2>2. CASE a[1] = i
        <3>1. o.path[a] = IF r.path[a] = "REMOVING" THEN "REMOVING" ELSE "NONE"
            BY <1>6, <2>2
        <3>2. QED BY <1>3, <1>8, <2>1, <2>2, <3>1 DEF AseOk
    <2>3. CASE a[1] # i
        <3>1. o.path[a] = r.path[a] /\ o.cis[a[1]] = r.cis[a[1]]
            BY <1>1, <1>6, <2>3, AseCis DEF Tracked, Iso
        <3>2. QED BY <1>8, <2>1, <2>3, <3>1 DEF AseOk
    <2>4. QED BY <2>2, <2>3
<1> HIDE DEF o
<1>10. Tracked(ase', o) BY <1>6, <1>7, <1>9 DEF Tracked
<1>11. QED BY <1>2, <1>10, CigTracked

\* The events of the data path of ASE b.
LEMMA PathEventTracked ==
    ASSUME PathInv, NEW b \in Ases,
           DataPathSetup(b) \/ DataPathRefused(b) \/ DataPathRemoved(b)
    PROVE  PathInv'
<1> USE DEF PathInv
<1>1. /\ ase \in [Ases -> Ase] /\ iso \in Iso /\ b[1] \in Cises
      /\ AseOk(ase[b], iso.cis[b[1]], iso.path[b])
    BY AseCis DEF Tracked
\* The path of b becomes q, and b records d and h.
<1>2. ASSUME NEW q \in PathStates, NEW o, o = [iso EXCEPT !.path[b] = q],
             NEW t \in [Ases -> Ase],
             \A a \in Ases \ {b} : t[a] = ase[a],
             AseOk(t[b], iso.cis[b[1]], q)
      PROVE  Tracked(t, o)
    <2>1. o \in Iso /\ o.cis = iso.cis /\ o.path = [iso.path EXCEPT ![b] = q]
        BY <1>1, <1>2 DEF Iso
    <2>2. ASSUME NEW a \in Ases PROVE AseOk(t[a], o.cis[a[1]], o.path[a])
        <3>1. CASE a = b
            BY <1>1, <1>2, <2>1, <3>1 DEF Iso
        <3>2. CASE a # b
            <4>1. o.path[a] = iso.path[a] BY <1>1, <2>1, <3>2 DEF Iso
            <4>2. QED BY <1>2, <2>1, <3>2, <4>1 DEF Tracked
        <3>3. QED BY <3>1, <3>2
    <2>3. QED BY <1>2, <2>1, <2>2 DEF Tracked
<1>3. CASE DataPathSetup(b)
    <2>1. iso.path[b] = "SETTING" /\ iso' = [iso EXCEPT !.path[b] = "UP"]
        BY <1>3 DEF DataPathSetup
    <2>2. /\ ase[b].hdl /\ iso.cis[b[1]] \in Carriers /\ ase[b].cid
          /\ ~ase[b].dp
        BY <1>1, <2>1 DEF AseOk, Ase
    <2>3. CASE ase' = ase
        <3>1. AseOk(ase[b], iso.cis[b[1]], "UP")
            BY <2>2 DEF AseOk
        <3>2. QED BY <1>1, <1>2, <2>1, <2>3, <3>1 DEF PathStates
    <2>4. ASSUME NEW r \in BOOLEAN,
                 ase' = [ase EXCEPT ![b].dp = TRUE, ![b].rsr = r]
          PROVE  Tracked(ase', iso')
        <3>1. ase' \in [Ases -> Ase] BY <1>1, <2>4 DEF Ase
        <3>2. \A a \in Ases \ {b} : ase'[a] = ase[a] BY <1>1, <2>4
        <3>3. /\ ase'[b].hdl = ase[b].hdl /\ ase'[b].cid = ase[b].cid
            BY <1>1, <2>4 DEF Ase
        <3>4. AseOk(ase'[b], iso.cis[b[1]], "UP")
            BY <2>2, <3>3 DEF AseOk
        <3>5. QED BY <1>2, <2>1, <3>1, <3>2, <3>4 DEF PathStates
    <2>5. QED
        <3>1. CASE IsConnected(iso, b[1])
            <4> DEFINE r == ase[b].rsr \/ (b[2] = "SRC" /\ ase[b].st = ENABLING)
            <4>1. ase' = [ase EXCEPT ![b].dp = TRUE, ![b].rsr = r]
                BY <1>3, <3>1 DEF DataPathSetup
            <4>2. r \in BOOLEAN BY <1>1 DEF Ase
            <4> HIDE DEF r
            <4>3. QED BY <2>4, <4>1, <4>2
        <3>2. CASE ~IsConnected(iso, b[1])
            BY <1>3, <2>3, <3>2 DEF DataPathSetup
        <3>3. QED BY <3>1, <3>2
<1>4. CASE DataPathRefused(b)
    <2>1. /\ iso.path[b] = "SETTING" /\ iso' = [iso EXCEPT !.path[b] = "NONE"]
          /\ ase' = ase
        BY <1>4 DEF DataPathRefused
    <2>2. AseOk(ase[b], iso.cis[b[1]], "NONE")
        BY <1>1, <2>1 DEF AseOk, Ase
    <2>3. QED BY <1>1, <1>2, <2>1, <2>2 DEF PathStates
<1>5. CASE DataPathRemoved(b)
    <2> DEFINE o == [iso EXCEPT !.path[b] = "NONE"]
               h == ase[b].hdl /\ IsConnected(iso, b[1])
    <2>1. /\ iso.path[b] = "REMOVING"
          /\ ase' = [ase EXCEPT ![b].dp = FALSE, ![b].hdl = h]
          /\ \/ IsConnected(iso, b[1]) /\ iso' = DisconnectCis(o, b[1])
             \/ iso' = RemoveCig(o)
             \/ iso' = o
        BY <1>5 DEF DataPathRemoved
    <2>2. h \in BOOLEAN /\ (h => ase[b].hdl) BY <1>1 DEF Ase
    <2> HIDE DEF h
    <2>3. ase' \in [Ases -> Ase] BY <1>1, <2>1, <2>2 DEF Ase
    <2>4. \A a \in Ases \ {b} : ase'[a] = ase[a] BY <1>1, <2>1
    <2>5. /\ ~ase'[b].dp /\ ase'[b].hdl = h /\ ase'[b].cid = ase[b].cid
          /\ ase'[b].st = ase[b].st
        BY <1>1, <2>1 DEF Ase
    <2>6. AseOk(ase'[b], iso.cis[b[1]], "NONE")
        BY <1>1, <2>2, <2>5 DEF AseOk
    <2>7. Tracked(ase', o)
        BY <1>2, <2>3, <2>4, <2>6 DEF PathStates
    <2>8. IsConnected(iso, b[1]) => CanDisconnect(o, b[1])
        BY <1>1 DEF IsConnected, CanDisconnect, Closes, Iso
    <2> HIDE DEF o
    <2>9. QED BY <1>1, <2>1, <2>7, <2>8, DisconnectTracked, CigTracked
<1>6. QED BY <1>3, <1>4, <1>5

\* The links: the block of a lost device is cleared when no data path of it
\* can be up any more.
LEMMA LinkTracked ==
    ASSUME PathInv, NEW i \in Cises, LinkLost(i) \/ LinkDown(i) \/ LinkBack(i)
    PROVE  PathInv'
<1> USE DEF PathInv
<1>1. ase \in [Ases -> Ase] /\ iso \in Iso BY DEF Tracked
<1>2. CASE LinkLost(i)
    <2>1. iso' = [iso EXCEPT !.cis[i] = Gone[iso.cis[i]]] /\ ase' = ase
        BY <1>2, <1>1 DEF LinkLost, Iso
    <2>2. /\ Gone[iso.cis[i]] \in CisStates
          /\ iso.cis[i] \in Carriers => Gone[iso.cis[i]] \in Carriers
        <3>1. iso.cis[i] \in CisStates BY <1>1 DEF Iso
        <3>2. QED BY <3>1 DEF Gone, CisStates, Carriers
    <2>3. QED BY <2>1, <2>2, MoveTracked
<1>3. CASE LinkDown(i)
    <2> DEFINE mine == {a \in Ases : a[1] = i}
               o == RemovePath(iso, {a \in mine : ase[a].dp})
    <2>1. /\ iso.cis[i] = "NONE" /\ iso' = o
          /\ ase' = [a \in Ases |-> IF a \in mine THEN ZeroAse ELSE ase[a]]
        BY <1>3 DEF LinkDown
    <2>2. Tracked(ase, o) /\ o.cis = iso.cis
        <3>1. Tracked(ase, o) BY RemoveTracked
        <3>2. o.cis = iso.cis BY <1>1 DEF RemovePath, Iso
        <3>3. QED BY <3>1, <3>2
    <2> HIDE DEF o
    <2>3. ZeroAse \in Ase /\ ~ZeroAse.dp /\ ~ZeroAse.hdl /\ ZeroAse.st = IDLE
        BY DEF ZeroAse, Ase, AseStates
    <2>4. ase' \in [Ases -> Ase] BY <1>1, <2>1, <2>3
    <2>5. ASSUME NEW a \in Ases PROVE AseOk(ase'[a], o.cis[a[1]], o.path[a])
        <3>1. AseOk(ase[a], o.cis[a[1]], o.path[a]) BY <2>2 DEF Tracked
        <3>2. CASE a[1] = i
            <4>1. ase'[a] = ZeroAse /\ o.cis[a[1]] = "NONE"
                BY <2>1, <2>2, <3>2
            <4>2. QED BY <2>3, <3>1, <4>1 DEF AseOk, Carriers
        <3>3. CASE a[1] # i BY <2>1, <3>1, <3>3
        <3>4. QED BY <3>2, <3>3
    <2>6. QED BY <2>1, <2>2, <2>4, <2>5 DEF Tracked
<1>4. CASE LinkBack(i)
    <2>1. PICK A : ase' = [a \in Ases |-> IF a \in A
                     THEN [ase[a] EXCEPT !.st = QOS, !.cid = TRUE] ELSE ase[a]]
        BY <1>4 DEF LinkBack
    <2>2. iso' = iso BY <1>4 DEF LinkBack
    <2>3. ase' \in [Ases -> Ase]
        BY <1>1, <2>1 DEF Ase, AseStates, QOS
    <2>4. ASSUME NEW a \in Ases
          PROVE  /\ ase'[a].dp = ase[a].dp /\ ase'[a].hdl = ase[a].hdl
                 /\ ase[a].cid => ase'[a].cid
                 /\ ase'[a].st # IDLE => ase[a].st # IDLE \/ ase'[a].cid
        BY <1>1, <2>1 DEF Ase
    <2>5. QED BY <2>2, <2>3, <2>4, RecordTracked
<1>5. QED BY <1>2, <1>3, <1>4

\* Every step keeps the records of the ASEs and the stack in step.
LEMMA PathStep == PathInv /\ [Next]_vars => PathInv'
<1> SUFFICES ASSUME PathInv, [Next]_vars PROVE PathInv'
    OBVIOUS
<1>1. iso \in Iso BY DEF PathInv, Tracked
<1>2. CASE ase' = ase /\ iso' = iso BY <1>2 DEF PathInv
<1>3. CASE \/ \E m \in Modes : Start(m)
           \/ \E a \in Ases : NotifyReleasing(a) \/ NotifyIdle(a)
    BY <1>3, SessionTracked
<1>4. CASE SetCigComplete
    <2> DEFINE o == [iso EXCEPT !.evt = FALSE]
    <2>1. o \in Iso /\ o.cis = iso.cis /\ o.path = iso.path
        BY <1>1 DEF Iso
    <2>2. PICK I : iso' = CreateCis(o, I)
        BY <1>4 DEF SetCigComplete
    <2>3. ase' = ase BY <1>4 DEF SetCigComplete
    <2> HIDE DEF o
    <2>4. Tracked(ase, o) BY <2>1 DEF PathInv, Tracked
    <2>5. QED BY <2>2, <2>3, <2>4, CreateTracked DEF PathInv
<1>5. CASE RetryTimer
    BY <1>5, CreateTracked DEF RetryTimer, PathInv
<1>6. ASSUME NEW i \in Cises, Synchronise(i) \/ FailedToSynchronise(i) \/ Drop(i)
      PROVE  PathInv'
    <2>1. PICK c \in CisStates : /\ iso' = [iso EXCEPT !.cis[i] = c]
                                 /\ iso.cis[i] \in Carriers => c \in Carriers
        BY <1>6 DEF Synchronise, FailedToSynchronise, Drop, Carriers, CisStates
    <2>2. ase' = ase
        BY <1>6 DEF Synchronise, FailedToSynchronise, Drop
    <2>3. QED BY <2>1, <2>2, MoveTracked DEF PathInv
<1>7. ASSUME NEW i \in Cises, Established(i) \/ NotEstablished(i)
      PROVE  PathInv'
    <2>1. PICK c \in CisStates : HandleConnection(i, c)
        BY <1>7 DEF Established, NotEstablished, CisStates
    <2>2. iso.cis[i] \notin Carriers
        BY <1>7 DEF Established, NotEstablished, Carriers
    <2>3. QED BY <2>1, <2>2, ConnectionTracked
<1>8. QED
    BY <1>2, <1>3, <1>4, <1>5, <1>6, <1>7, NotifyTracked, DisconnectedTracked,
       PathEventTracked, LinkTracked
    DEF Next, vars, Stop, DisconnectDevice

\* The records are in step at first.
LEMMA PathInit == Init => PathInv
<1> SUFFICES ASSUME Init PROVE Tracked(ase, iso)
    BY DEF PathInv
<1>1. iso \in Iso /\ \A a \in Ases : iso.path[a] = "NONE"
    BY DEF Init, Iso, CisStates, PathStates
<1>2. ZeroAse \in Ase /\ ~ZeroAse.dp /\ ~ZeroAse.hdl /\ ZeroAse.st = IDLE
    BY DEF ZeroAse, Ase, AseStates
<1>3. ase \in [Ases -> Ase] /\ \A a \in Ases : ase[a] = ZeroAse
    BY <1>2 DEF Init
<1>4. QED BY <1>1, <1>2, <1>3 DEF Tracked, AseOk

(* data_path_established of an ASE is backed by the handle of its CIS and   *)
(* by a data path of the stack, whatever the order of the notifications,    *)
(* the ISO events, lost links and disconnect commands.                      *)
THEOREM PathsTracked == Spec => []PathTracked
<1>1. Init => PathInv BY PathInit
<1>2. PathInv => PathTracked
    BY DEF PathInv, Tracked, AseOk, PathTracked
<1>3. QED BY <1>1, <1>2, PathStep, PTL DEF Spec

\* A CIS that is on or coming up.
Alive == {"CONNECTING", "SYNCED", "CONNECTED"}

(***************************************************************************)
(* What an operation of the stack leaves as it is                          *)
(***************************************************************************)

\* The CIG is configured only when no CIS is in use.
LEMMA SetCigShape ==
    ASSUME NEW o \in Iso
    PROVE  /\ SetCig(o) \in Iso
           /\ SetCig(o).cis = o.cis /\ SetCig(o).path = o.path
           /\ SetCig(o).evt => o.evt \/ \A i \in Cises : o.cis[i] = "NONE"
BY DEF SetCig, Iso

\* CISs are created in a CIG, on links that are up.
LEMMA CreateShape ==
    ASSUME NEW o \in Iso, NEW I
    PROVE  LET n == CreateCis(o, I)
           IN  /\ n \in Iso /\ n.path = o.path /\ n.evt = o.evt /\ n.cig = o.cig
               /\ \A i \in Cises :
                     \/ n.cis[i] = o.cis[i]
                     \/ /\ n.cis[i] = "CONNECTING" /\ o.cis[i] = "NONE"
                        /\ i \in I /\ o.cig /\ link[i] = "UP"
<1> DEFINE n == CreateCis(o, I)
           c == [i \in Cises |->
                   IF i \in I /\ o.cig /\ o.cis[i] = "NONE" /\ link[i] = "UP"
                   THEN "CONNECTING" ELSE o.cis[i]]
<1>1. c \in [Cises -> CisStates] BY DEF Iso, CisStates
<1>2. n = [o EXCEPT !.cis = c] BY DEF CreateCis
<1>3. \A i \in Cises : \/ c[i] = o.cis[i]
                       \/ /\ c[i] = "CONNECTING" /\ o.cis[i] = "NONE"
                          /\ i \in I /\ o.cig /\ link[i] = "UP"
    OBVIOUS
<1> HIDE DEF n, c
<1>4. n \in Iso /\ n.cis = c /\ n.path = o.path /\ n.evt = o.evt /\ n.cig = o.cig
    BY <1>1, <1>2 DEF Iso
<1>5. QED BY <1>3, <1>4 DEF n

\* Data paths are asked for where there is none, on a connected CIS.
LEMMA SetupShape ==
    ASSUME NEW o \in Iso, NEW A
    PROVE  LET n == SetupPath(o, A)
           IN  /\ n \in Iso /\ n.cis = o.cis /\ n.evt = o.evt /\ n.cig = o.cig
               /\ \A a \in Ases :
                     IF a \in A /\ IsConnected(o, a[1]) /\ o.path[a] = "NONE"
                     THEN n.path[a] = "SETTING" ELSE n.path[a] = o.path[a]
<1> DEFINE n == SetupPath(o, A)
           p == [a \in Ases |->
                   IF a \in A /\ IsConnected(o, a[1]) /\ o.path[a] = "NONE"
                   THEN "SETTING" ELSE o.path[a]]
<1>1. p \in [Ases -> PathStates] BY DEF Iso, PathStates
<1>2. n = [o EXCEPT !.path = p] BY DEF SetupPath, CanSetup
<1>3. \A a \in Ases : IF a \in A /\ IsConnected(o, a[1]) /\ o.path[a] = "NONE"
                      THEN p[a] = "SETTING" ELSE p[a] = o.path[a]
    OBVIOUS
<1> HIDE DEF n, p
<1>4. n \in Iso /\ n.cis = o.cis /\ n.path = p /\ n.evt = o.evt /\ n.cig = o.cig
    BY <1>1, <1>2 DEF Iso
<1>5. QED BY <1>3, <1>4 DEF n

\* Data paths that are up are removed.
LEMMA RemoveShape ==
    ASSUME NEW o \in Iso, NEW A
    PROVE  LET n == RemovePath(o, A)
           IN  /\ n \in Iso /\ n.cis = o.cis /\ n.evt = o.evt /\ n.cig = o.cig
               /\ \A a \in Ases : IF a \in A /\ CanRemove(o, a)
                                  THEN n.path[a] = "REMOVING" ELSE n.path[a] = o.path[a]
<1> DEFINE n == RemovePath(o, A)
           p == [a \in Ases |-> IF a \in A /\ CanRemove(o, a)
                                  THEN "REMOVING" ELSE o.path[a]]
<1>1. p \in [Ases -> PathStates] BY DEF Iso, PathStates
<1>2. n = [o EXCEPT !.path = p] BY DEF RemovePath
<1>3. \A a \in Ases : IF a \in A /\ CanRemove(o, a)
                      THEN p[a] = "REMOVING" ELSE p[a] = o.path[a]
    OBVIOUS
<1> HIDE DEF n, p
<1>4. n \in Iso /\ n.cis = o.cis /\ n.path = p /\ n.evt = o.evt /\ n.cig = o.cig
    BY <1>1, <1>2 DEF Iso
<1>5. QED BY <1>3, <1>4 DEF n

\* One CIS moves.
LEMMA MoveShape ==
    ASSUME NEW o \in Iso, NEW i \in Cises, NEW c \in CisStates
    PROVE  LET n == [o EXCEPT !.cis[i] = c]
           IN  /\ n \in Iso /\ n.path = o.path /\ n.evt = o.evt /\ n.cig = o.cig
               /\ n.cis[i] = c /\ \A j \in Cises \ {i} : n.cis[j] = o.cis[j]
<1> DEFINE n == [o EXCEPT !.cis[i] = c]
           f == [o.cis EXCEPT ![i] = c]
<1>1. f \in [Cises -> CisStates] /\ f[i] = c /\ \A j \in Cises \ {i} : f[j] = o.cis[j]
    BY DEF Iso
<1>2. n = [o EXCEPT !.cis = f] OBVIOUS
<1> HIDE DEF n, f
<1>3. n \in Iso /\ n.cis = f /\ n.path = o.path /\ n.evt = o.evt /\ n.cig = o.cig
    BY <1>1, <1>2 DEF Iso
<1>4. QED BY <1>1, <1>3 DEF n

\* disconnect_cis: the CIS is no longer on.
LEMMA DisconnectShape ==
    ASSUME NEW o \in Iso, NEW i \in Cises, CanDisconnect(o, i)
    PROVE  LET n == DisconnectCis(o, i)
           IN  /\ n \in Iso /\ n.path = o.path /\ n.evt = o.evt /\ n.cig = o.cig
               /\ n.cis[i] \notin Alive /\ n.cis[i] # "NONE" /\ o.cis[i] # "NONE"
               /\ \A j \in Cises \ {i} : n.cis[j] = o.cis[j]
<1>1. /\ Closes[o.cis[i]] \in CisStates /\ Closes[o.cis[i]] \notin Alive
      /\ Closes[o.cis[i]] # "NONE" /\ o.cis[i] # "NONE"
    BY DEF CanDisconnect, Closes, CisStates, Alive
<1>2. DisconnectCis(o, i) = [o EXCEPT !.cis[i] = Closes[o.cis[i]]]
    BY DEF DisconnectCis, Iso
<1>3. QED BY <1>1, <1>2, MoveShape

\* remove_cig: refused while a CIS is in use, and otherwise nothing of the CIG
\* is left but the removals under way.
LEMMA CigShape ==
    ASSUME NEW o \in Iso
    PROVE  LET n == RemoveCig(o)
           IN  /\ n \in Iso /\ n.cis = o.cis
               /\ n.evt => o.evt /\ \E i \in Cises : o.cis[i] # "NONE"
               /\ n.cig => o.cig
               /\ \A a \in Ases : \/ n.path[a] = o.path[a]
                                  \/ /\ n.path[a] = "NONE" /\ o.path[a] # "REMOVING"
                                     /\ \A i \in Cises : o.cis[i] = "NONE"
<1> DEFINE n == RemoveCig(o)
<1>1. CASE Illegal(o)
    <2>1. n = o BY <1>1 DEF RemoveCig
    <2>2. QED BY <1>1, <2>1 DEF Illegal
<1>2. CASE ~Illegal(o)
    <2> DEFINE p == [a \in Ases |-> IF o.path[a] = "REMOVING"
                                      THEN "REMOVING" ELSE "NONE"]
    <2>1. p \in [Ases -> PathStates] BY DEF PathStates
    <2>2. n = [o EXCEPT !.cig = FALSE, !.evt = FALSE, !.path = p]
        BY <1>2 DEF RemoveCig
    <2>3. \A i \in Cises : o.cis[i] = "NONE" BY <1>2 DEF Illegal
    <2>4. \A a \in Ases : \/ p[a] = o.path[a]
                          \/ p[a] = "NONE" /\ o.path[a] # "REMOVING"
        OBVIOUS
    <2> HIDE DEF n, p
    <2>5. n \in Iso /\ n.cis = o.cis /\ n.path = p /\ ~n.evt /\ ~n.cig
        BY <2>1, <2>2 DEF Iso
    <2>6. QED BY <2>3, <2>4, <2>5 DEF n
<1>3. QED BY <1>1, <1>2

\* A CIS is gone, and its data paths but for those being removed.
LEMMA GoneShape ==
    ASSUME NEW o \in Iso, NEW i \in Cises
    PROVE  LET n == CisGone(o, i)
           IN  /\ n \in Iso /\ n.evt = o.evt /\ n.cig = o.cig
               /\ n.cis[i] = "NONE" /\ \A j \in Cises \ {i} : n.cis[j] = o.cis[j]
               /\ \A a \in Ases : \/ n.path[a] = o.path[a]
                                  \/ /\ n.path[a] = "NONE" /\ o.path[a] # "REMOVING"
                                     /\ a[1] = i
<1> DEFINE n == CisGone(o, i)
           c == [o.cis EXCEPT ![i] = "NONE"]
           p == [a \in Ases |-> IF a[1] = i /\ o.path[a] # "REMOVING"
                                  THEN "NONE" ELSE o.path[a]]
<1>1. /\ c \in [Cises -> CisStates] /\ c[i] = "NONE"
      /\ \A j \in Cises \ {i} : c[j] = o.cis[j]
    BY DEF Iso, CisStates
<1>2. p \in [Ases -> PathStates] BY DEF Iso, PathStates
<1>3. n = [o EXCEPT !.cis = c, !.path = p] BY DEF CisGone
<1>4. \A a \in Ases : \/ p[a] = o.path[a]
                      \/ p[a] = "NONE" /\ o.path[a] # "REMOVING" /\ a[1] = i
    <2> SUFFICES ASSUME NEW a \in Ases
                 PROVE  \/ p[a] = o.path[a]
                        \/ p[a] = "NONE" /\ o.path[a] # "REMOVING" /\ a[1] = i
        OBVIOUS
    <2>1. p[a] = IF a[1] = i /\ o.path[a] # "REMOVING" THEN "NONE" ELSE o.path[a]
        OBVIOUS
    <2> HIDE DEF p
    <2>2. QED BY <2>1
<1> HIDE DEF n, c, p
<1>5. n \in Iso /\ n.cis = c /\ n.path = p /\ n.evt = o.evt /\ n.cig = o.cig
    BY <1>1, <1>2, <1>3 DEF Iso
<1>6. QED BY <1>1, <1>4, <1>5 DEF n

(***************************************************************************)
(* The types                                                               *)
(***************************************************************************)

\* The types that the two invariants above leave open.
RestTypes ==
    /\ mode \in Modes \cup {"NONE"} /\ transit \in BOOLEAN
    /\ retry \in [cis : Cises \cup {0}, acl : BOOLEAN, timer : BOOLEAN]
    /\ link \in [Cises -> {"UP", "CLOSING", "LOST", "DOWN"}]
    /\ dis \subseteq Cises
    /\ used \in [session : 0..MaxSessions, sync : 0..MaxFaults,
                 fault : 0..MaxFaults, refused : 0..MaxFaults, disc : 0..MaxFaults]

\* What a step uses of the bounds.
Spends ==
    /\ used' \in [session : 0..MaxSessions, sync : 0..MaxFaults,
                  fault : 0..MaxFaults, refused : 0..MaxFaults, disc : 0..MaxFaults]
    /\ used'.sync = 0 => used.sync = 0
    /\ used'.refused = 0 => used.refused = 0
    /\ used'.session <= 1 => used.session <= 1
    /\ used'.session = 0 => used.session = 0

\* A fault is counted once.
LEMMA FaultSpends ==
    ASSUME RestTypes, NEW k \in {"sync", "fault", "refused", "disc"}, Fault(k)
    PROVE  Spends /\ used'.session = used.session /\ (k = "sync" => used'.sync # 0)
                  /\ (k = "refused" => used'.refused # 0)
<1>1. /\ used \in [session : 0..MaxSessions, sync : 0..MaxFaults, fault : 0..MaxFaults,
                   refused : 0..MaxFaults, disc : 0..MaxFaults]
      /\ MaxSessions \in Nat /\ MaxFaults \in Nat
    BY CisAssumption DEF RestTypes
<1>2. /\ used.sync + used.fault + used.refused + used.disc < MaxFaults
      /\ used' = [used EXCEPT ![k] = used[k] + 1]
    BY DEF Fault
<1>3. CASE k = "sync"
    <2>1. used' = [used EXCEPT !.sync = used.sync + 1] BY <1>2, <1>3
    <2>2. used.sync + 1 \in 0 .. MaxFaults BY <1>1, <1>2
    <2>3. QED BY <1>1, <1>3, <2>1, <2>2 DEF Spends
<1>4. CASE k = "fault"
    <2>1. used' = [used EXCEPT !.fault = used.fault + 1] BY <1>2, <1>4
    <2>2. used.fault + 1 \in 0 .. MaxFaults BY <1>1, <1>2
    <2>3. QED BY <1>1, <1>4, <2>1, <2>2 DEF Spends
<1>5. CASE k = "refused"
    <2>1. used' = [used EXCEPT !.refused = used.refused + 1] BY <1>2, <1>5
    <2>2. used.refused + 1 \in 0 .. MaxFaults BY <1>1, <1>2
    <2>3. QED BY <1>1, <1>5, <2>1, <2>2 DEF Spends
<1>6. CASE k = "disc"
    <2>1. used' = [used EXCEPT !.disc = used.disc + 1] BY <1>2, <1>6
    <2>2. used.disc + 1 \in 0 .. MaxFaults BY <1>1, <1>2
    <2>3. QED BY <1>1, <1>6, <2>1, <2>2 DEF Spends
<1>7. QED BY <1>3, <1>4, <1>5, <1>6

\* Every step stays within the bounds.
LEMMA StepSpends ==
    ASSUME RestTypes, [Next]_vars
    PROVE  Spends
<1>1. used' = used => Spends BY DEF Spends, RestTypes
<1>2. ASSUME NEW m \in Modes, Start(m) PROVE Spends
    <2>1. /\ used.session < MaxSessions
          /\ used' = [used EXCEPT !.session = used.session + 1]
        BY <1>2 DEF Start
    <2>2. /\ used \in [session : 0..MaxSessions, sync : 0..MaxFaults, fault : 0..MaxFaults,
                       refused : 0..MaxFaults, disc : 0..MaxFaults]
          /\ MaxSessions \in Nat
        BY CisAssumption DEF RestTypes
    <2>3. used.session + 1 \in 0 .. MaxSessions BY <2>1, <2>2
    <2>4. QED BY <2>1, <2>2, <2>3 DEF Spends
<1>3. ASSUME NEW k \in {"sync", "fault", "refused", "disc"}, Fault(k) PROVE Spends
    BY <1>3, FaultSpends
<1>4. QED
    BY <1>1, <1>2, <1>3
    DEF Next, vars, Stop, DisconnectDevice, SetCigComplete, RetryTimer, NotifyEnabling,
        NotifyStreaming, NotifyReleasing, NotifyIdle, DataPathSetup, DataPathRefused,
        DataPathRemoved, Synchronise, Established, FailedToSynchronise, NotEstablished,
        CisDisconnected, Drop, LinkLost, LinkDown, LinkBack

\* The links, after a step.
LEMMA LinkType ==
    ASSUME RestTypes, [Next]_vars
    PROVE  /\ link' \in [Cises -> {"UP", "CLOSING", "LOST", "DOWN"}]
           /\ dis' \subseteq Cises
           /\ retry' \in [cis : Cises \cup {0}, acl : BOOLEAN, timer : BOOLEAN]
           /\ mode' \in Modes \cup {"NONE"} /\ transit' \in BOOLEAN
<1> DEFINE L == [Cises -> {"UP", "CLOSING", "LOST", "DOWN"}]
<1>1. /\ link \in L /\ dis \subseteq Cises /\ mode \in Modes \cup {"NONE"}
      /\ transit \in BOOLEAN
      /\ retry \in [cis : Cises \cup {0}, acl : BOOLEAN, timer : BOOLEAN]
    BY DEF RestTypes
<1>2. link' \in L
    <2>1. CASE link' = link BY <1>1, <2>1
    <2>2. ASSUME DisconnectDevice PROVE link' \in L BY <1>1, <2>2 DEF DisconnectDevice
    <2>3. ASSUME NEW i \in Cises, CisDisconnected(i) PROVE link' \in L
        BY <1>1, <2>3 DEF CisDisconnected, CloseDisconnecting
    <2>4. ASSUME NEW i \in Cises, LinkLost(i) PROVE link' \in L BY <1>1, <2>4 DEF LinkLost
    <2>5. ASSUME NEW i \in Cises, LinkDown(i) PROVE link' \in L BY <1>1, <2>5 DEF LinkDown
    <2>6. ASSUME NEW i \in Cises, LinkBack(i) PROVE link' \in L BY <1>1, <2>6 DEF LinkBack
    <2>7. QED
        BY <2>1, <2>2, <2>3, <2>4, <2>5, <2>6
        DEF Next, vars, Start, Stop, SetCigComplete, RetryTimer, NotifyEnabling,
            NotifyStreaming, NotifyReleasing, NotifyIdle, DataPathSetup, DataPathRefused,
            DataPathRemoved, Synchronise, Established, FailedToSynchronise,
            NotEstablished, Drop
<1>3. dis' \subseteq Cises
    BY <1>1
    DEF Next, vars, Start, Stop, DisconnectDevice, SetCigComplete, RetryTimer,
        NotifyEnabling, NotifyStreaming, NotifyReleasing, NotifyIdle, DataPathSetup,
        DataPathRefused, DataPathRemoved, Synchronise, Established,
        FailedToSynchronise, NotEstablished, CisDisconnected, Drop, LinkLost, LinkDown,
        LinkBack
<1>4. retry' \in [cis : Cises \cup {0}, acl : BOOLEAN, timer : BOOLEAN]
    <2> DEFINE R == [cis : Cises \cup {0}, acl : BOOLEAN, timer : BOOLEAN]
    <2>1. CASE retry' = retry BY <1>1, <2>1
    <2>2. ASSUME RetryTimer PROVE retry' \in R BY <1>1, <2>2 DEF RetryTimer
    <2>3. ASSUME NEW i \in Cises, FailedToSynchronise(i) PROVE retry' \in R
        BY <2>3 DEF FailedToSynchronise
    <2>4. ASSUME NEW i \in Cises, LinkDown(i) PROVE retry' \in R
        <3> DEFINE b == retry.acl /\ retry.cis # i
        <3>1. retry' = [retry EXCEPT !.acl = b] /\ b \in BOOLEAN
            BY <1>1, <2>4 DEF LinkDown
        <3> HIDE DEF b
        <3>2. QED BY <1>1, <3>1
    <2>5. QED
        BY <2>1, <2>2, <2>3, <2>4
        DEF Next, vars, Start, Stop, DisconnectDevice, SetCigComplete, NotifyEnabling,
            NotifyStreaming, NotifyReleasing, NotifyIdle, DataPathSetup, DataPathRefused,
            DataPathRemoved, Synchronise, Established, NotEstablished, CisDisconnected,
            Drop, LinkLost, LinkBack
<1>5. mode' \in Modes \cup {"NONE"}
    BY <1>1
    DEF Next, vars, Start, Stop, DisconnectDevice, SetCigComplete, RetryTimer,
        NotifyEnabling, NotifyStreaming, NotifyReleasing, NotifyIdle, DataPathSetup,
        DataPathRefused, DataPathRemoved, Synchronise, Established,
        FailedToSynchronise, NotEstablished, CisDisconnected, Drop, LinkLost, LinkDown,
        LinkBack
<1>6. transit' \in BOOLEAN
    BY <1>1
    DEF Next, vars, Start, Stop, DisconnectDevice, SetCigComplete, RetryTimer,
        NotifyEnabling, NotifyStreaming, NotifyReleasing, NotifyIdle, DataPathSetup,
        DataPathRefused, DataPathRemoved, Synchronise, Established,
        FailedToSynchronise, NotEstablished, CisDisconnected, Drop, LinkLost, LinkDown,
        LinkBack
<1>7. QED BY <1>2, <1>3, <1>4, <1>5, <1>6

\* All the types together.
TypeInv == EngineInv /\ PathInv /\ RestTypes

\* They hold in every state.
LEMMA Types == Spec => []TypeInv
<1>1. Init => TypeInv
    <2> SUFFICES ASSUME Init PROVE TypeInv OBVIOUS
    <2>1. EngineInv BY DEF Init, EngineInv, EngineOk, Audio
    <2>2. PathInv BY PathInit
    <2>3. used \in [session : 0..MaxSessions, sync : 0..MaxFaults, fault : 0..MaxFaults,
                    refused : 0..MaxFaults, disc : 0..MaxFaults]
        BY CisAssumption DEF Init
    <2>4. retry \in [cis : Cises \cup {0}, acl : BOOLEAN, timer : BOOLEAN]
        BY DEF Init
    <2>5. link \in [Cises -> {"UP", "CLOSING", "LOST", "DOWN"}] BY DEF Init
    <2>6. RestTypes BY <2>3, <2>4, <2>5 DEF Init, RestTypes
    <2>7. QED BY <2>1, <2>2, <2>6 DEF TypeInv
<1>2. TypeInv /\ [Next]_vars => TypeInv'
    <2> SUFFICES ASSUME TypeInv, [Next]_vars PROVE TypeInv' OBVIOUS
    <2>1. RestTypes' BY StepSpends, LinkType DEF TypeInv, RestTypes, Spends
    <2>2. QED BY <2>1, EngineStep, PathStep DEF TypeInv
<1>3. QED BY <1>1, <1>2, PTL DEF Spec

(* The variables of the streams keep their types.                           *)
THEOREM TypeCorrect == Spec => []TypeOK
<1>1. TypeInv => TypeOK
    BY DEF TypeInv, EngineInv, EngineOk, PathInv, Tracked, RestTypes, TypeOK
<1>2. QED BY <1>1, Types, PTL

(***************************************************************************)
(* The CISs and what keeps them                                            *)
(***************************************************************************)

\* An ASE that is part of a session.
Live == {QOS, ENABLING, STREAMING}

\* A data path of CIS i is being removed: its event will disconnect the CIS.
Removing(o, i) == \E b \in Ases : b[1] = i /\ o.path[b] = "REMOVING"

\* A CIS that is on has an ASE in a session, or will be disconnected.
Needed(s, o) ==
    \A i \in Cises : o.cis[i] \in Alive =>
        \/ \E a \in Ases : a[1] = i /\ s[a].st \in Live
        \/ o.cis[i] = "CONNECTED" /\ Removing(o, i)

\* While the event of the CIG is pending no CIS is in use, no ASE is released
\* and, once the session is set up (t: in transit), none is in QOS_CONFIGURED.
Pending(s, o, t) ==
    o.evt => /\ \A i \in Cises : o.cis[i] = "NONE"
             /\ \A a \in Ases : s[a].st # RELEASING /\ (s[a].st = QOS => t)

\* ASEs are released without a session only; a link that is down has neither
\* an ASE nor a CIS in use.
Settled ==
    /\ mode # "NONE" => \A a \in Ases : ase[a].st # RELEASING
    /\ \A a \in Ases : link[a[1]] = "DOWN" => ase[a].st = IDLE
    /\ \A i \in Cises : link[i] = "DOWN" => iso.cis[i] = "NONE"
    /\ \A a \in Ases : ase[a].st # CODEC

\* Before the first session there is no CIG.
Fresh == used.session = 0 => /\ mode = "NONE" /\ ~iso.cig
                             /\ \A a \in Ases : ase[a].st = IDLE
                             /\ \A i \in Cises : iso.cis[i] = "NONE"

\* With no CIS that was tried again.
Calm == used.sync = 0 => /\ ~retry.timer
                         /\ Needed(ase, iso) /\ Pending(ase, iso, transit)

\* An ASE whose CIS is connected has its handle, or the CIS will go.
Held(s, o) == \A a \in Ases : o.cis[a[1]] = "CONNECTED" /\ s[a].st # IDLE =>
                                 s[a].hdl \/ Removing(o, a[1])

\* The ASE records the data path that is up; a streaming ASE has its data path
\* or will, unless one was refused or the CIS will go.
UpRecorded(s, o) ==
    \A a \in Ases : o.cis[a[1]] = "CONNECTED" /\ o.path[a] = "UP" => s[a].dp
Fed(s, o) ==
    \A a \in Ases : o.cis[a[1]] = "CONNECTED" /\ s[a].st = STREAMING =>
        s[a].dp \/ o.path[a] = "SETTING" \/ Removing(o, a[1])
NoRelic(u) == u.sync = 0 \/ u.session <= 1
Carrying == /\ UpRecorded(ase, iso)
            /\ NoRelic(used) => Held(ase, iso)
            /\ NoRelic(used) /\ used.refused = 0 => Fed(ase, iso)

\* The inductive invariant.
StackOk  == Settled /\ Fresh /\ Calm /\ Carrying
StackInv == TypeInv /\ StackOk

\* The states of an ASE are different.
LEMMA AseStatesDiffer ==
    /\ IDLE = 0 /\ CODEC = 1 /\ QOS = 2 /\ ENABLING = 3 /\ STREAMING = 4
    /\ RELEASING = 6
BY DEF IDLE, CODEC, QOS, ENABLING, STREAMING, RELEASING

\* What the invariants say of the types.
LEMMA Typed ==
    ASSUME TypeInv
    PROVE  /\ ase \in [Ases -> Ase] /\ iso \in Iso
           /\ link \in [Cises -> {"UP", "CLOSING", "LOST", "DOWN"}]
           /\ \A a \in Ases : /\ AseOk(ase[a], iso.cis[a[1]], iso.path[a])
                              /\ a[1] \in Cises /\ ase[a].st \in AseStates
                              /\ ase[a].hdl \in BOOLEAN /\ ase[a].dp \in BOOLEAN
                              /\ iso.path[a] \in PathStates
                              /\ iso.cis[a[1]] \in CisStates
BY AseCis DEF TypeInv, PathInv, Tracked, RestTypes, Ase, Iso

\* A step that leaves the bounds and the counters as they are, or spends.
LEMMA Relics ==
    ASSUME Spends, NoRelic(used')
    PROVE  NoRelic(used)
BY DEF Spends, NoRelic

\* A new session: what is left of the last one will go.
LEMMA StartKeeps ==
    ASSUME StackInv, Spends, NEW m \in Modes, Start(m)
    PROVE  StackOk'
<1>1. /\ mode = "NONE" /\ mode' = m /\ transit' = TRUE /\ UNCHANGED <<retry, link, iso>>
      /\ used' = [used EXCEPT !.session = used.session + 1]
      /\ \A a \in Ases : ase[a].st = IDLE
    BY DEF Start, Active
<1>2. ase \in [Ases -> Ase] /\ iso \in Iso BY Typed DEF StackInv
<1>3. ASSUME NEW a \in Ases
      PROVE  /\ ase'[a].st = IDLE \/ (ase'[a].st = QOS /\ link[a[1]] = "UP")
             /\ ase'[a].hdl = ase[a].hdl /\ ase'[a].dp = ase[a].dp
    <2> DEFINE A == {b \in Uses[m] : link[b[1]] = "UP"}
    <2>1. ase' = [b \in Ases |-> IF b \in A
                 THEN [ase[b] EXCEPT !.st = QOS, !.cid = TRUE, !.rsr = FALSE]
                 ELSE ase[b]]
        BY DEF Start
    <2>2. a \in A => link[a[1]] = "UP" OBVIOUS
    <2> HIDE DEF A
    <2>3. CASE a \in A BY <1>2, <2>1, <2>2, <2>3 DEF Ase
    <2>4. CASE a \notin A BY <1>1, <2>1, <2>4
    <2>5. QED BY <2>3, <2>4
<1>4. /\ used.session \in Nat /\ used'.session = used.session + 1
      /\ used'.sync = used.sync /\ used'.refused = used.refused
    BY <1>1 DEF StackInv, TypeInv, RestTypes
<1>5. Settled' BY <1>1, <1>3, AseStatesDiffer DEF StackInv, StackOk, Settled
<1>6. Fresh' BY <1>4 DEF Fresh
<1>7. Calm'
    BY <1>1, <1>3, <1>4, AseStatesDiffer
    DEF StackInv, StackOk, Calm, Needed, Pending, Live, Removing
<1>8. UpRecorded(ase', iso') BY <1>1, <1>3 DEF StackInv, StackOk, Carrying, UpRecorded
<1>9. Fed(ase', iso') BY <1>3, AseStatesDiffer DEF Fed
<1>10. ASSUME NoRelic(used') PROVE Held(ase', iso')
    <2> SUFFICES ASSUME NEW a \in Ases, iso.cis[a[1]] = "CONNECTED"
                 PROVE  Removing(iso, a[1])
        BY <1>1 DEF Held, Removing
    <2>1. a[1] \in Cises BY AseCis
    <2>2. used.sync = 0
        <3>1. CASE used.session = 0 BY <2>1, <3>1 DEF StackInv, StackOk, Fresh
        <3>2. CASE used.session # 0
            <4>1. ~(used'.session <= 1) BY <1>4, <3>2
            <4>2. QED BY <1>4, <1>10, <4>1 DEF NoRelic
        <3>3. QED BY <3>1, <3>2
    <2>3. Needed(ase, iso) BY <2>2 DEF StackInv, StackOk, Calm
    <2>4. \A b \in Ases : ase[b].st \notin Live BY <1>1, AseStatesDiffer DEF Live
    <2>5. QED BY <2>1, <2>3, <2>4 DEF Needed, Alive
<1>11. QED BY <1>5, <1>6, <1>7, <1>8, <1>9, <1>10 DEF StackOk, Carrying

\* A step that leaves the ASEs and the stack alone.
LEMMA CommandKeeps ==
    ASSUME StackInv, Spends, Stop \/ DisconnectDevice
    PROVE  StackOk'
<1>1. UNCHANGED <<ase, iso, retry>> BY DEF Stop, DisconnectDevice
<1>2. /\ mode' \in {mode, "NONE"}
      /\ transit' = transit \/ transit' = (\E a \in Ases : ase[a].st # IDLE)
    BY DEF Stop, DisconnectDevice, Active
<1>3. \A i \in Cises : link'[i] = "DOWN" => link[i] = "DOWN"
    BY DEF Stop, DisconnectDevice
<1>4. used'.session = used.session
    <2>1. CASE Stop BY <2>1 DEF Stop
    <2>2. CASE DisconnectDevice BY <2>2, FaultSpends DEF DisconnectDevice, StackInv, TypeInv
    <2>3. QED BY <2>1, <2>2
<1>5. Settled' BY <1>1, <1>2, <1>3, AseCis DEF StackInv, StackOk, Settled
<1>6. Fresh' BY <1>1, <1>2, <1>4 DEF StackInv, StackOk, Fresh
<1>7. ASSUME used.sync = 0 PROVE Pending(ase', iso', transit')
    <2>1. Pending(ase, iso, transit) BY <1>7 DEF StackInv, StackOk, Calm
    <2>2. ASSUME NEW a \in Ases, ase[a].st = QOS, transit PROVE transit'
        <3>1. \E c \in Ases : ase[c].st # IDLE BY <2>2, AseStatesDiffer
        <3>2. QED BY <1>2, <2>2, <3>1
    <2>3. QED BY <1>1, <2>1, <2>2 DEF Pending
<1>8. Calm' BY <1>1, <1>7 DEF StackInv, StackOk, Calm, Spends
<1>9. Carrying' BY <1>1, Relics DEF StackInv, StackOk, Carrying, Spends
<1>10. QED BY <1>5, <1>6, <1>8, <1>9 DEF StackOk

\* The ENABLING notification.
LEMMA EnablingKeeps ==
    ASSUME StackInv, Spends, NEW b \in Ases, NotifyEnabling(b)
    PROVE  StackOk'
<1>1. /\ ase[b].st = QOS /\ link[b[1]] = "UP"
      /\ UNCHANGED <<mode, retry, link, used>>
    BY DEF NotifyEnabling
<1> DEFINE A    == {c \in {b} : c[2] = "SRC" /\ ~ase[c].dp /\ ase[c].hdl}
           last == /\ \A c \in Active \ {b} : ase[c].st = ENABLING
                   /\ \A c \in A : CanSetup(iso, c)
           late == ~transit /\ mode # "NONE" /\ \A c \in A : CanSetup(iso, c)
           o    == IF late THEN CreateCis(iso, {b[1]})
                   ELSE IF transit /\ mode # "NONE" /\ last THEN SetCig(iso) ELSE iso
           h    == ase[b].hdl \/ (late /\ IsConnected(iso, b[1]))
<1>2. /\ ase' = [ase EXCEPT ![b].st = ENABLING, ![b].hdl = h]
      /\ transit' = (transit /\ ~last)
      /\ iso' = SetupPath(o, A \cap A)
    BY DEF NotifyEnabling, SetupDatapath
<1>3. ase \in [Ases -> Ase] /\ iso \in Iso /\ transit \in BOOLEAN
    BY Typed DEF StackInv, TypeInv, RestTypes
<1>4. last => \A a \in Ases \ {b} : ase[a].st \in {IDLE, ENABLING} BY DEF Active
<1>5. /\ o \in Iso /\ o.path = iso.path
      /\ \A i \in Cises : \/ o.cis[i] = iso.cis[i]
                          \/ /\ o.cis[i] = "CONNECTING" /\ iso.cis[i] = "NONE"
                             /\ i = b[1] /\ iso.cig /\ ~transit
    <2>1. CASE late BY <1>3, <2>1, CreateShape
    <2>2. CASE transit BY <1>3, <2>2, SetCigShape
    <2>3. CASE ~late /\ ~transit BY <1>3, <2>3
    <2>4. QED BY <1>3, <2>1, <2>2, <2>3
<1>6. o.evt => \/ iso.evt /\ (transit => o.cis = iso.cis)
               \/ (\A i \in Cises : iso.cis[i] = "NONE") /\ transit /\ last /\ o.cis = iso.cis
    <2>1. CASE late BY <1>3, <2>1, CreateShape
    <2>2. CASE transit /\ mode # "NONE" /\ last BY <1>3, <2>2, SetCigShape
    <2>3. CASE ~late /\ ~(transit /\ mode # "NONE" /\ last) BY <2>3
    <2>4. QED BY <2>1, <2>2, <2>3
<1>7. (h \in BOOLEAN) /\ (ase[b].hdl => h) BY <1>3 DEF Ase
<1> HIDE DEF A, last, late, o, h
<1>8. /\ iso'.cis = o.cis /\ iso'.evt = o.evt
      /\ \A a \in Ases : \/ iso'.path[a] = iso.path[a]
                         \/ iso.path[a] = "NONE" /\ iso'.path[a] = "SETTING"
    BY <1>2, <1>5, SetupShape
<1>9. /\ ase'[b].st = ENABLING /\ ase'[b].dp = ase[b].dp /\ (ase[b].hdl => ase'[b].hdl)
      /\ \A a \in Ases \ {b} : ase'[a] = ase[a]
    BY <1>2, <1>3, <1>7 DEF Ase
<1>10. b[1] \in Cises /\ iso.cis[b[1]] \in CisStates BY Typed DEF StackInv
<1>11. Settled'
    BY <1>1, <1>5, <1>8, <1>9, <1>10, AseStatesDiffer DEF StackInv, StackOk, Settled
<1>12. Fresh' BY <1>1, AseStatesDiffer DEF StackInv, StackOk, Fresh
<1>13. \A i \in Cises : Removing(iso, i) => Removing(iso', i)
    BY <1>8 DEF Removing
<1>14. ASSUME used.sync = 0
       PROVE  ~retry'.timer /\ Needed(ase', iso') /\ Pending(ase', iso', transit')
    <2>1. ~retry.timer /\ Needed(ase, iso) /\ Pending(ase, iso, transit)
        BY <1>14 DEF StackInv, StackOk, Calm
    <2>2. Needed(ase', iso')
        <3> SUFFICES ASSUME NEW i \in Cises, iso'.cis[i] \in Alive
                     PROVE  \/ \E a \in Ases : a[1] = i /\ ase'[a].st \in Live
                            \/ iso'.cis[i] = "CONNECTED" /\ Removing(iso', i)
            BY DEF Needed
        <3>1. CASE i = b[1] BY <1>9, <3>1 DEF Live
        <3>2. CASE i # b[1]
            <4>1. iso'.cis[i] = iso.cis[i] BY <1>5, <1>8, <3>2
            <4>2. CASE \E a \in Ases : a[1] = i /\ ase[a].st \in Live
                <5>1. PICK a \in Ases : a[1] = i /\ ase[a].st \in Live BY <4>2
                <5>2. ase'[a] = ase[a] BY <1>9, <3>2, <5>1
                <5>3. QED BY <5>1, <5>2
            <4>3. CASE iso.cis[i] = "CONNECTED" /\ Removing(iso, i) BY <1>13, <4>1, <4>3
            <4>4. QED BY <2>1, <4>1, <4>2, <4>3 DEF Needed
        <3>3. QED BY <3>1, <3>2
    <2>3. ASSUME iso'.evt
          PROVE  /\ \A i \in Cises : iso'.cis[i] = "NONE"
                 /\ \A a \in Ases : ase'[a].st # RELEASING /\ (ase'[a].st = QOS => transit')
        <3>1. CASE iso.evt /\ (transit => o.cis = iso.cis)
            <4>1. transit BY <1>1, <2>1, <3>1 DEF Pending
            <4>2. \A i \in Cises : iso'.cis[i] = "NONE" BY <1>8, <2>1, <3>1, <4>1 DEF Pending
            <4>3. \A a \in Ases : ase'[a].st # RELEASING
                BY <1>9, <2>1, <3>1, AseStatesDiffer DEF Pending
            <4>4. CASE last BY <1>4, <1>9, <4>2, <4>3, <4>4, AseStatesDiffer
            <4>5. CASE ~last
                <5>1. transit' BY <1>2, <4>1, <4>5
                <5>2. QED BY <4>2, <4>3, <5>1
            <4>6. QED BY <4>4, <4>5
        <3>2. CASE (\A i \in Cises : iso.cis[i] = "NONE") /\ transit /\ last /\ o.cis = iso.cis
            BY <1>4, <1>8, <1>9, <3>2, AseStatesDiffer
        <3>3. QED BY <1>6, <1>8, <2>3, <3>1, <3>2
    <2>4. QED BY <1>1, <2>1, <2>2, <2>3 DEF Pending
<1>15. \A a \in Ases : iso'.cis[a[1]] = "CONNECTED" => iso.cis[a[1]] = "CONNECTED"
    BY <1>5, <1>8, AseCis
<1>16. UpRecorded(ase', iso')
    BY <1>8, <1>9, <1>15 DEF StackInv, StackOk, Carrying, UpRecorded
<1>17. ASSUME Held(ase, iso) PROVE Held(ase', iso')
    BY <1>1, <1>9, <1>13, <1>15, <1>17, AseCis, AseStatesDiffer DEF Held
<1>18. ASSUME Fed(ase, iso) PROVE Fed(ase', iso')
    <2> SUFFICES ASSUME NEW a \in Ases, iso'.cis[a[1]] = "CONNECTED", ase'[a].st = STREAMING
                 PROVE  ase'[a].dp \/ iso'.path[a] = "SETTING" \/ Removing(iso', a[1])
        BY DEF Fed
    <2>1. ase'[a] = ase[a] BY <1>9, AseStatesDiffer
    <2>2. ase[a].dp \/ iso.path[a] = "SETTING" \/ Removing(iso, a[1])
        BY <1>15, <1>18, <2>1 DEF Fed
    <2>3. QED BY <1>8, <1>13, <2>1, <2>2, AseCis
<1>19. Calm' BY <1>1, <1>14 DEF Calm
<1>20. Carrying' BY <1>1, <1>16, <1>17, <1>18 DEF StackInv, StackOk, Carrying
<1>21. QED BY <1>11, <1>12, <1>19, <1>20 DEF StackOk

\* The STREAMING notification: with a handle and no data path, one is asked
\* for.
LEMMA StreamingKeeps ==
    ASSUME StackInv, Spends, NEW b \in Ases, NotifyStreaming(b)
    PROVE  StackOk'
<1>1. /\ ase[b].st = ENABLING /\ UNCHANGED <<mode, transit, retry, link, used>>
      /\ ase' = [ase EXCEPT ![b].st = STREAMING]
    BY DEF NotifyStreaming
<1>2. ase \in [Ases -> Ase] /\ iso \in Iso BY Typed DEF StackInv
<1>3. /\ ase'[b].st = STREAMING /\ ase'[b].dp = ase[b].dp /\ ase'[b].hdl = ase[b].hdl
      /\ \A a \in Ases \ {b} : ase'[a] = ase[a]
    BY <1>1, <1>2 DEF Ase
<1>4. /\ iso'.cis = iso.cis /\ iso'.evt = iso.evt /\ iso'.cig = iso.cig
      /\ \A a \in Ases : \/ iso'.path[a] = iso.path[a]
                         \/ iso.path[a] = "NONE" /\ iso'.path[a] = "SETTING"
      /\ ~ase[b].dp /\ ase[b].hdl /\ iso.cis[b[1]] = "CONNECTED" => iso'.path[b] # "NONE"
    <2>1. CASE ase[b].dp BY <2>1 DEF NotifyStreaming
    <2>2. CASE ~ase[b].dp
        <3> DEFINE H == {b} \cap {c \in {b} : ase[c].hdl}
        <3>1. iso' = SetupPath(iso, H) BY <2>2 DEF NotifyStreaming, SetupDatapath
        <3>2. ase[b].hdl => b \in H OBVIOUS
        <3> HIDE DEF H
        <3>3. QED BY <1>2, <3>1, <3>2, SetupShape DEF IsConnected
    <2>3. QED BY <2>1, <2>2
<1>5. Settled' BY <1>1, <1>3, <1>4, AseStatesDiffer DEF StackInv, StackOk, Settled
<1>6. Fresh' BY <1>1, AseStatesDiffer DEF StackInv, StackOk, Fresh
<1>7. \A i \in Cises : Removing(iso, i) => Removing(iso', i)
    BY <1>4 DEF Removing
<1>8. \A a \in Ases : ase[a].st \in Live => ase'[a].st \in Live
    BY <1>3 DEF Live
<1>9. ASSUME Needed(ase, iso) PROVE Needed(ase', iso')
    BY <1>4, <1>7, <1>8, <1>9 DEF Needed
<1>10. ASSUME Pending(ase, iso, transit) PROVE Pending(ase', iso', transit')
    BY <1>1, <1>3, <1>4, <1>10, AseStatesDiffer DEF Pending
<1>11. Calm' BY <1>1, <1>9, <1>10 DEF StackInv, StackOk, Calm
<1>12. UpRecorded(ase', iso')
    BY <1>3, <1>4 DEF StackInv, StackOk, Carrying, UpRecorded
<1>13. ASSUME Held(ase, iso) PROVE Held(ase', iso')
    BY <1>1, <1>3, <1>4, <1>7, <1>13, AseCis, AseStatesDiffer DEF Held
<1>14. ASSUME Held(ase, iso), Fed(ase, iso) PROVE Fed(ase', iso')
    <2> SUFFICES ASSUME NEW a \in Ases, iso.cis[a[1]] = "CONNECTED", ase'[a].st = STREAMING
                 PROVE  ase'[a].dp \/ iso'.path[a] = "SETTING" \/ Removing(iso', a[1])
        BY <1>4 DEF Fed
    <2>1. CASE a = b
        <3>1. CASE Removing(iso, a[1]) BY <1>7, <3>1, AseCis
        <3>2. CASE ~Removing(iso, a[1])
            <4>1. ase[b].hdl BY <1>1, <1>14, <2>1, <3>2, AseStatesDiffer DEF Held
            <4>2. CASE ase[b].dp BY <1>3, <2>1, <4>2
            <4>3. CASE ~ase[b].dp
                <5>1. iso'.path[b] # "NONE" BY <1>4, <2>1, <4>1, <4>3
                <5>2. iso.path[b] \in PathStates BY Typed DEF StackInv
                <5>3. iso.path[b] # "UP"
                    BY <2>1, <4>3 DEF StackInv, StackOk, Carrying, UpRecorded
                <5>4. iso.path[b] # "REMOVING" BY <2>1, <3>2 DEF Removing
                <5>5. QED BY <1>4, <2>1, <5>1, <5>2, <5>3, <5>4 DEF PathStates
            <4>4. QED BY <4>2, <4>3
        <3>3. QED BY <3>1, <3>2
    <2>2. CASE a # b
        <3>1. ase'[a] = ase[a] BY <1>3, <2>2
        <3>2. ase[a].dp \/ iso.path[a] = "SETTING" \/ Removing(iso, a[1])
            BY <1>14, <3>1 DEF Fed
        <3>3. QED BY <1>4, <1>7, <3>1, <3>2, AseCis
    <2>3. QED BY <2>1, <2>2
<1>15. Carrying' BY <1>1, <1>12, <1>13, <1>14 DEF StackInv, StackOk, Carrying
<1>16. QED BY <1>5, <1>6, <1>11, <1>15 DEF StackOk

\* The RELEASING notification: the CIS of the ASE is disconnected, now or by
\* the event of the data path.
LEMMA ReleasingKeeps ==
    ASSUME StackInv, Spends, NEW b \in Ases, NotifyReleasing(b)
    PROVE  StackOk'
<1>1. /\ ase[b].st \in Live /\ mode = "NONE" /\ iso' = Release(iso, b)
      /\ UNCHANGED <<mode, transit, retry, link, used>>
      /\ ase' = [ase EXCEPT ![b].st = RELEASING] /\ link[b[1]] = "UP"
    BY DEF NotifyReleasing, Live
<1>2. /\ ase \in [Ases -> Ase] /\ iso \in Iso /\ b[1] \in Cises
      /\ iso.cis[b[1]] \in CisStates
      /\ AseOk(ase[b], iso.cis[b[1]], iso.path[b])
    BY Typed DEF StackInv
<1>3. /\ ase'[b].st = RELEASING /\ ase'[b].dp = ase[b].dp /\ ase'[b].hdl = ase[b].hdl
      /\ \A a \in Ases \ {b} : ase'[a] = ase[a]
    BY <1>1, <1>2 DEF Ase
<1>4. /\ \A i \in Cises : iso'.cis[i] = iso.cis[i] \/ (i = b[1] /\ iso'.cis[i] \notin Alive
                                                        /\ iso.cis[i] # "NONE")
      /\ iso'.evt => iso.evt /\ \E i \in Cises : iso.cis[i] # "NONE"
      /\ iso'.cis[b[1]] \in Alive =>
            iso'.cis[b[1]] = "CONNECTED" /\ iso'.path[b] = "REMOVING"
      /\ \A a \in Ases : \/ iso'.path[a] = iso.path[a]
                         \/ iso.path[a] = "UP" /\ iso'.path[a] = "REMOVING" /\ a = b
                         \/ /\ iso'.path[a] = "NONE" /\ iso.path[a] # "REMOVING"
                            /\ \A i \in Cises : iso'.cis[i] = "NONE"
      /\ iso'.cig => iso.cig
    <2>1. CASE CanRemove(iso, b)
        <3>1. iso' = RemovePath(iso, {b}) BY <1>1, <2>1 DEF Release
        <3>2. iso.path[b] = "UP" BY <2>1 DEF CanRemove
        <3>3. iso.cis[b[1]] \in Carriers BY <1>2, <3>2 DEF AseOk
        <3>4. iso.cis[b[1]] # "NONE" /\ (iso.cis[b[1]] \in Alive => iso.cis[b[1]] = "CONNECTED")
            BY <3>3 DEF Carriers, Alive
        <3>5. /\ iso'.cis = iso.cis /\ iso'.evt = iso.evt /\ iso'.cig = iso.cig
              /\ iso'.path[b] = "REMOVING"
              /\ \A a \in Ases \ {b} : iso'.path[a] = iso.path[a]
            BY <1>2, <2>1, <3>1, RemoveShape
        <3>6. QED BY <1>2, <3>2, <3>4, <3>5
    <2>2. CASE ~CanRemove(iso, b) /\ CanDisconnect(iso, b[1])
        <3>1. iso' = DisconnectCis(iso, b[1]) BY <1>1, <2>2 DEF Release
        <3>2. /\ iso'.path = iso.path /\ iso'.evt = iso.evt /\ iso'.cig = iso.cig
              /\ iso'.cis[b[1]] \notin Alive /\ iso.cis[b[1]] # "NONE"
              /\ \A j \in Cises \ {b[1]} : iso'.cis[j] = iso.cis[j]
            BY <1>2, <2>2, <3>1, DisconnectShape
        <3>3. QED BY <1>2, <3>2
    <2>3. CASE ~CanRemove(iso, b) /\ ~CanDisconnect(iso, b[1])
        <3>1. iso' = RemoveCig(iso) BY <1>1, <2>3 DEF Release
        <3>2. iso.cis[b[1]] \notin Alive
            BY <1>2, <2>3 DEF CanDisconnect, Closes, Alive, CisStates
        <3>3. /\ iso'.cis = iso.cis /\ (iso'.cig => iso.cig)
              /\ iso'.evt => iso.evt /\ \E i \in Cises : iso.cis[i] # "NONE"
              /\ \A a \in Ases : \/ iso'.path[a] = iso.path[a]
                                 \/ /\ iso'.path[a] = "NONE" /\ iso.path[a] # "REMOVING"
                                    /\ \A i \in Cises : iso.cis[i] = "NONE"
            BY <1>2, <3>1, CigShape
        <3>4. QED BY <3>2, <3>3
    <2>4. QED BY <2>1, <2>2, <2>3
<1>5. Settled' BY <1>1, <1>2, <1>3, <1>4, AseStatesDiffer DEF StackInv, StackOk, Settled
<1>6. Fresh' BY <1>1, AseStatesDiffer DEF StackInv, StackOk, Fresh, Live
<1>7. \A i \in Cises : Removing(iso, i) => Removing(iso', i)
    BY <1>4 DEF Removing
<1>8. ASSUME Needed(ase, iso) PROVE Needed(ase', iso')
    <2> SUFFICES ASSUME NEW i \in Cises, iso'.cis[i] \in Alive
                 PROVE  \/ \E a \in Ases : a[1] = i /\ ase'[a].st \in Live
                        \/ iso'.cis[i] = "CONNECTED" /\ Removing(iso', i)
        BY DEF Needed
    <2>1. CASE i = b[1] BY <1>4, <2>1 DEF Removing
    <2>2. CASE i # b[1]
        <3>1. iso'.cis[i] = iso.cis[i] BY <1>4, <2>2
        <3>2. CASE \E a \in Ases : a[1] = i /\ ase[a].st \in Live
            <4>1. PICK a \in Ases : a[1] = i /\ ase[a].st \in Live BY <3>2
            <4>2. ase'[a] = ase[a] BY <1>3, <2>2, <4>1
            <4>3. QED BY <4>1, <4>2
        <3>3. CASE iso.cis[i] = "CONNECTED" /\ Removing(iso, i) BY <1>7, <3>1, <3>3
        <3>4. QED BY <1>8, <3>1, <3>2, <3>3 DEF Needed
    <2>3. QED BY <2>1, <2>2
<1>9. ASSUME Pending(ase, iso, transit) PROVE Pending(ase', iso', transit')
    <2>1. ~iso'.evt BY <1>2, <1>4, <1>9 DEF Pending
    <2>2. QED BY <2>1 DEF Pending
<1>10. Calm' BY <1>1, <1>8, <1>9 DEF StackInv, StackOk, Calm
<1>11. \A a \in Ases : /\ iso'.cis[a[1]] = "CONNECTED" => iso.cis[a[1]] = "CONNECTED"
                       /\ iso'.cis[a[1]] = "CONNECTED" /\ iso'.path[a] # iso.path[a]
                             => iso'.path[a] = "REMOVING"
    BY <1>4, AseCis DEF Alive
<1>12. UpRecorded(ase', iso')
    BY <1>3, <1>11 DEF StackInv, StackOk, Carrying, UpRecorded
<1>13. ASSUME Held(ase, iso) PROVE Held(ase', iso')
    BY <1>1, <1>3, <1>7, <1>11, <1>13, AseCis, AseStatesDiffer DEF Held, Live
<1>14. ASSUME Fed(ase, iso) PROVE Fed(ase', iso')
    <2> SUFFICES ASSUME NEW a \in Ases, iso'.cis[a[1]] = "CONNECTED", ase'[a].st = STREAMING
                 PROVE  ase'[a].dp \/ iso'.path[a] = "SETTING" \/ Removing(iso', a[1])
        BY DEF Fed
    <2>1. ase'[a] = ase[a] BY <1>3, AseStatesDiffer
    <2>2. ase[a].dp \/ iso.path[a] = "SETTING" \/ Removing(iso, a[1])
        BY <1>11, <1>14, <2>1 DEF Fed
    <2>3. CASE iso'.path[a] = iso.path[a] BY <1>7, <2>1, <2>2, <2>3, AseCis
    <2>4. CASE iso'.path[a] # iso.path[a] BY <1>11, <2>4 DEF Removing
    <2>5. QED BY <2>3, <2>4
<1>15. Carrying' BY <1>1, <1>12, <1>13, <1>14 DEF StackInv, StackOk, Carrying
<1>16. QED BY <1>5, <1>6, <1>10, <1>15 DEF StackOk

\* The peer is done with an ASE that was released: it kept no CIS.
LEMMA IdleKeeps ==
    ASSUME StackInv, Spends, NEW b \in Ases, NotifyIdle(b)
    PROVE  StackOk'
<1>1. /\ ase[b].st = RELEASING /\ UNCHANGED <<mode, retry, link, used, iso>>
      /\ ase' = [ase EXCEPT ![b].st = IDLE]
      /\ transit' = (transit /\ Active # {b})
    BY DEF NotifyIdle
<1>2. ase \in [Ases -> Ase] BY Typed DEF StackInv
<1>3. /\ ase'[b].st = IDLE /\ ase'[b].dp = ase[b].dp /\ ase'[b].hdl = ase[b].hdl
      /\ \A a \in Ases \ {b} : ase'[a] = ase[a]
    BY <1>1, <1>2 DEF Ase
<1>4. Settled' BY <1>1, <1>3, AseStatesDiffer DEF StackInv, StackOk, Settled
<1>5. Fresh' BY <1>1, <1>3 DEF StackInv, StackOk, Fresh
<1>6. \A a \in Ases : ase[a].st \in Live => ase'[a].st \in Live
    BY <1>1, <1>3, AseStatesDiffer DEF Live
<1>7. ASSUME Needed(ase, iso) PROVE Needed(ase', iso')
    BY <1>1, <1>6, <1>7 DEF Needed
<1>8. ASSUME Pending(ase, iso, transit) PROVE Pending(ase', iso', transit')
    BY <1>1, <1>8 DEF Pending
<1>9. Calm' BY <1>1, <1>7, <1>8 DEF StackInv, StackOk, Calm
<1>10. /\ UpRecorded(ase, iso) => UpRecorded(ase', iso')
       /\ Held(ase, iso) => Held(ase', iso')
       /\ Fed(ase, iso) => Fed(ase', iso')
    BY <1>1, <1>3, AseStatesDiffer DEF UpRecorded, Held, Fed
<1>11. Carrying' BY <1>1, <1>10 DEF StackInv, StackOk, Carrying
<1>12. QED BY <1>4, <1>5, <1>9, <1>11 DEF StackOk

\* The CIG is there: a CIS is created for the ASEs of the session.
LEMMA CigCompleteKeeps ==
    ASSUME StackInv, Spends, SetCigComplete
    PROVE  StackOk'
<1> DEFINE dir == IF mode = "MIC" THEN "SRC" ELSE "SNK"
           I   == {i \in Cises : \E a \in AsesOf(i) : a[2] = dir /\ ase[a].st >= QOS}
           o   == [iso EXCEPT !.evt = FALSE]
<1>1. /\ iso.evt /\ iso' = CreateCis(o, I)
      /\ UNCHANGED <<mode, transit, ase, retry, link, used>>
    BY DEF SetCigComplete
<1>2. iso \in Iso BY Typed DEF StackInv
<1>3. o \in Iso /\ o.cis = iso.cis /\ o.path = iso.path /\ ~o.evt /\ o.cig = iso.cig
    BY <1>2 DEF Iso
<1>4. \A i \in I : \E a \in Ases : a[1] = i /\ ase[a].st >= QOS BY DEF AsesOf
<1> HIDE DEF dir, I, o
<1>5. /\ iso'.path = iso.path /\ ~iso'.evt /\ iso'.cig = iso.cig
      /\ \A i \in Cises :
            \/ iso'.cis[i] = iso.cis[i]
            \/ /\ iso'.cis[i] = "CONNECTING" /\ iso.cis[i] = "NONE"
               /\ i \in I /\ iso.cig /\ link[i] = "UP"
    BY <1>1, <1>3, CreateShape
<1>6. Settled' BY <1>1, <1>5 DEF StackInv, StackOk, Settled
<1>7. Fresh' BY <1>1, <1>5 DEF StackInv, StackOk, Fresh
<1>8. ASSUME used.sync = 0 PROVE Needed(ase', iso')
    <2>1. Needed(ase, iso) /\ Pending(ase, iso, transit) BY <1>8 DEF StackInv, StackOk, Calm
    <2> SUFFICES ASSUME NEW i \in Cises, iso'.cis[i] \in Alive
                 PROVE  \E a \in Ases : a[1] = i /\ ase[a].st \in Live
        BY <1>1 DEF Needed
    <2>2. iso.cis[i] = "NONE" BY <1>1, <2>1 DEF Pending
    <2>3. i \in I BY <1>5, <2>2 DEF Alive
    <2>4. PICK a \in Ases : a[1] = i /\ ase[a].st >= QOS BY <1>4, <2>3
    <2>5. ase[a].st # RELEASING BY <1>1, <2>1 DEF Pending
    <2>6. ase[a].st \in AseStates BY Typed DEF StackInv
    <2>7. ase[a].st \in Live
        BY <2>4, <2>5, <2>6, AseStatesDiffer DEF Live, AseStates
    <2>8. QED BY <2>4, <2>7
<1>9. Calm' BY <1>1, <1>5, <1>8 DEF StackInv, StackOk, Calm, Pending
<1>10. \A a \in Ases : iso'.cis[a[1]] = "CONNECTED" => iso.cis[a[1]] = "CONNECTED"
    BY <1>5, AseCis
<1>11. /\ UpRecorded(ase, iso) => UpRecorded(ase', iso')
       /\ Held(ase, iso) => Held(ase', iso')
       /\ Fed(ase, iso) => Fed(ase', iso')
    BY <1>1, <1>5, <1>10 DEF UpRecorded, Held, Fed, Removing
<1>12. Carrying' BY <1>1, <1>11 DEF StackInv, StackOk, Carrying
<1>13. QED BY <1>6, <1>7, <1>9, <1>12 DEF StackOk

\* The retry timer only runs when a CIS failed to synchronise.
LEMMA RetryKeeps ==
    ASSUME StackInv, Spends, RetryTimer
    PROVE  StackOk'
<1>1. /\ retry.timer /\ UNCHANGED <<mode, transit, ase, link, used>>
      /\ iso' = iso \/ iso' = CreateCis(iso, {retry.cis})
    BY DEF RetryTimer
<1>2. iso \in Iso BY Typed DEF StackInv
<1>3. /\ iso'.path = iso.path /\ iso'.cig = iso.cig
      /\ \A i \in Cises :
            \/ iso'.cis[i] = iso.cis[i]
            \/ /\ iso'.cis[i] = "CONNECTING" /\ iso.cis[i] = "NONE"
               /\ iso.cig /\ link[i] = "UP"
    BY <1>1, <1>2, CreateShape
<1>4. Settled' BY <1>1, <1>3 DEF StackInv, StackOk, Settled
<1>5. Fresh' BY <1>1, <1>3 DEF StackInv, StackOk, Fresh
<1>6. Calm' BY <1>1 DEF StackInv, StackOk, Calm
<1>7. \A a \in Ases : iso'.cis[a[1]] = "CONNECTED" => iso.cis[a[1]] = "CONNECTED"
    BY <1>3, AseCis
<1>8. /\ UpRecorded(ase, iso) => UpRecorded(ase', iso')
      /\ Held(ase, iso) => Held(ase', iso')
      /\ Fed(ase, iso) => Fed(ase', iso')
    BY <1>1, <1>3, <1>7 DEF UpRecorded, Held, Fed, Removing
<1>9. Carrying' BY <1>1, <1>8 DEF StackInv, StackOk, Carrying
<1>10. QED BY <1>4, <1>5, <1>6, <1>9 DEF StackOk

\* One CIS moves, but not to CONNECTED: it stays on, or is on no more.
LEMMA MoveKeeps ==
    ASSUME StackInv, Spends, NEW i \in Cises, NEW c \in CisStates,
           iso' = [iso EXCEPT !.cis[i] = c], UNCHANGED <<mode, transit, ase>>,
           c # "CONNECTED", c # "NONE" => iso.cis[i] # "NONE",
           c \in Alive => iso.cis[i] \in Alive \ {"CONNECTED"},
           \A j \in Cises : link'[j] = "DOWN" => link[j] = "DOWN",
           used'.session = used.session,
           used'.sync = 0 => retry' = retry
    PROVE  StackOk'
<1>1. iso \in Iso BY Typed DEF StackInv
<1>2. /\ iso'.path = iso.path /\ iso'.evt = iso.evt /\ iso'.cig = iso.cig
      /\ iso'.cis[i] = c /\ \A j \in Cises \ {i} : iso'.cis[j] = iso.cis[j]
    BY <1>1, MoveShape
<1>3. Settled' BY <1>2, AseCis DEF StackInv, StackOk, Settled
<1>4. Fresh' BY <1>2 DEF StackInv, StackOk, Fresh
<1>5. ASSUME Needed(ase, iso) PROVE Needed(ase', iso')
    <2> SUFFICES ASSUME NEW j \in Cises, iso'.cis[j] \in Alive
                 PROVE  \/ \E a \in Ases : a[1] = j /\ ase[a].st \in Live
                        \/ iso'.cis[j] = "CONNECTED" /\ Removing(iso', j)
        BY DEF Needed
    <2>1. CASE j = i BY <1>2, <1>5, <2>1 DEF Needed
    <2>2. CASE j # i BY <1>2, <1>5, <2>2 DEF Needed, Removing
    <2>3. QED BY <2>1, <2>2
<1>6. ASSUME Pending(ase, iso, transit) PROVE Pending(ase', iso', transit')
    BY <1>2, <1>6 DEF Pending
<1>7. Calm' BY <1>5, <1>6 DEF StackInv, StackOk, Calm, Spends
<1>8. \A a \in Ases : iso'.cis[a[1]] = "CONNECTED" => iso.cis[a[1]] = "CONNECTED"
    BY <1>2, AseCis
<1>9. /\ UpRecorded(ase, iso) => UpRecorded(ase', iso')
      /\ Held(ase, iso) => Held(ase', iso')
      /\ Fed(ase, iso) => Fed(ase', iso')
    BY <1>2, <1>8 DEF UpRecorded, Held, Fed, Removing
<1>10. Carrying' BY <1>9, Relics DEF StackInv, StackOk, Carrying, Spends
<1>11. QED BY <1>3, <1>4, <1>7, <1>10 DEF StackOk

\* The events and faults that move one CIS.
LEMMA MovesKeep ==
    ASSUME StackInv, Spends, NEW i \in Cises,
           Synchronise(i) \/ Drop(i) \/ FailedToSynchronise(i) \/ LinkLost(i)
    PROVE  StackOk'
<1>1. RestTypes /\ iso \in Iso /\ iso.cis[i] \in CisStates
      /\ link \in [Cises -> {"UP", "CLOSING", "LOST", "DOWN"}]
    BY Typed DEF StackInv, TypeInv, Iso
<1>2. CASE Synchronise(i)
    <2>1. /\ iso.cis[i] = "CONNECTING" /\ iso' = [iso EXCEPT !.cis[i] = "SYNCED"]
          /\ UNCHANGED <<mode, transit, ase, retry, link, used>>
        BY <1>2 DEF Synchronise
    <2>2. QED BY <2>1, MoveKeeps DEF CisStates, Alive
<1>3. CASE Drop(i)
    <2>1. /\ iso.cis[i] = "CONNECTED" /\ iso' = [iso EXCEPT !.cis[i] = "DROPPED"]
          /\ UNCHANGED <<mode, transit, ase, retry, link>> /\ Fault("fault")
        BY <1>3 DEF Drop
    <2>2. used'.session = used.session BY <1>1, <2>1, FaultSpends
    <2>3. QED BY <2>1, <2>2, MoveKeeps DEF CisStates, Alive
<1>4. CASE FailedToSynchronise(i)
    <2>1. /\ iso.cis[i] = "CONNECTING" /\ iso' = [iso EXCEPT !.cis[i] = "NONE"]
          /\ UNCHANGED <<mode, transit, ase, link>> /\ Fault("sync")
        BY <1>4 DEF FailedToSynchronise
    <2>2. used'.session = used.session /\ used'.sync # 0 BY <1>1, <2>1, FaultSpends
    <2>3. QED BY <2>1, <2>2, MoveKeeps DEF CisStates, Alive
<1>5. CASE LinkLost(i)
    <2> DEFINE c == Gone[iso.cis[i]]
    <2>1. /\ iso' = [iso EXCEPT !.cis[i] = c] /\ link' = [link EXCEPT ![i] = "LOST"]
          /\ UNCHANGED <<mode, transit, ase, retry>>
        BY <1>1, <1>5 DEF LinkLost, Iso
    <2>2. /\ c \in CisStates /\ c \notin Alive /\ c # "CONNECTED"
          /\ c # "NONE" => iso.cis[i] # "NONE"
        BY <1>1 DEF Gone, CisStates, Alive
    <2> HIDE DEF c
    <2>3. used'.session = used.session
        <3>1. CASE used' = used BY <3>1
        <3>2. CASE Fault("fault") BY <1>1, <3>2, FaultSpends
        <3>3. QED BY <1>5, <3>1, <3>2 DEF LinkLost
    <2>4. \A j \in Cises : link'[j] = "DOWN" => link[j] = "DOWN" BY <1>1, <2>1
    <2>5. QED BY <2>1, <2>2, <2>3, <2>4, MoveKeeps
<1>6. QED BY <1>2, <1>3, <1>4, <1>5

\* The events about the connection of CIS i: its ASEs get their handles, and
\* those that stream ask for their data paths.
LEMMA ConnectionKeeps ==
    ASSUME StackInv, Spends, NEW i \in Cises, NEW s \in {"NONE", "CLOSING", "CONNECTED"},
           HandleConnection(i, s), UNCHANGED <<mode, transit, retry, link>>,
           used'.session = used.session,
           iso.cis[i] \notin Carriers \cup {"NONE"}, s = "CONNECTED" => iso.cis[i] = "SYNCED"
    PROVE  StackOk'
<1> DEFINE A == {a \in AsesOf(i) : NeedsPath(a)}
           o == [iso EXCEPT !.cis[i] = s]
<1>1. /\ ase' = [a \in Ases |-> IF a \in AsesOf(i)
                   THEN [ase[a] EXCEPT !.hdl = TRUE] ELSE ase[a]]
      /\ iso' = SetupPath(o, A \cap A)
    BY DEF HandleConnection, SetupDatapath
<1>2. ase \in [Ases -> Ase] /\ iso \in Iso BY Typed DEF StackInv
<1>3. /\ o \in Iso /\ o.path = iso.path /\ o.evt = iso.evt /\ o.cig = iso.cig
      /\ o.cis[i] = s /\ \A j \in Cises \ {i} : o.cis[j] = iso.cis[j]
    <2>1. s \in CisStates BY DEF CisStates
    <2>2. QED BY <1>2, <2>1, MoveShape
<1>4. \A a \in Ases : a \in AsesOf(i) => a[1] = i BY DEF AsesOf
<1>5. \A a \in Ases : a[1] = i /\ ase[a].st # IDLE => a \in AsesOf(i)
    BY Typed DEF StackInv, AsesOf, AseOk
<1>6. \A a \in Ases : a[1] = i /\ ase[a].st = STREAMING => a \in A
    <2> SUFFICES ASSUME NEW a \in Ases, a[1] = i, ase[a].st = STREAMING PROVE a \in A
        OBVIOUS
    <2>1. a \in AsesOf(i) BY <1>5, AseStatesDiffer
    <2>2. NeedsPath(a) BY AseStatesDiffer DEF NeedsPath
    <2>3. QED BY <2>1, <2>2
<1> HIDE DEF A, o
<1>7. ASSUME NEW a \in Ases
      PROVE  /\ ase'[a].st = ase[a].st /\ ase'[a].dp = ase[a].dp
             /\ ase[a].hdl => ase'[a].hdl
             /\ a \in AsesOf(i) => ase'[a].hdl
    BY <1>1, <1>2 DEF Ase
<1>8. /\ iso'.evt = iso.evt /\ iso'.cig = iso.cig
      /\ iso'.cis[i] = s /\ \A j \in Cises \ {i} : iso'.cis[j] = iso.cis[j]
      /\ \A a \in Ases : \/ iso'.path[a] = iso.path[a]
                         \/ iso.path[a] = "NONE" /\ iso'.path[a] = "SETTING"
      /\ \A a \in Ases : a \in A /\ s = "CONNECTED" /\ a[1] = i => iso'.path[a] # "NONE"
    BY <1>1, <1>3, SetupShape DEF IsConnected
<1>9. \A a \in Ases : a[1] = i => iso.path[a] \in {"NONE", "REMOVING"}
    BY Typed DEF StackInv, AseOk, PathStates
<1>10. \A j \in Cises : Removing(iso, j) => Removing(iso', j)
    BY <1>8 DEF Removing
<1>11. Settled' BY <1>7, <1>8, AseCis DEF StackInv, StackOk, Settled
<1>12. Fresh' BY <1>7, <1>8 DEF StackInv, StackOk, Fresh
<1>13. ASSUME Needed(ase, iso) PROVE Needed(ase', iso')
    <2> SUFFICES ASSUME NEW j \in Cises, iso'.cis[j] \in Alive
                 PROVE  \/ \E a \in Ases : a[1] = j /\ ase[a].st \in Live
                        \/ iso'.cis[j] = "CONNECTED" /\ Removing(iso', j)
        BY <1>7 DEF Needed
    <2>1. CASE j = i
        <3>1. iso.cis[i] = "SYNCED" BY <1>8, <2>1 DEF Alive
        <3>2. QED BY <1>13, <2>1, <3>1 DEF Needed, Alive
    <2>2. CASE j # i BY <1>8, <1>10, <1>13, <2>2 DEF Needed
    <2>3. QED BY <2>1, <2>2
<1>14. ASSUME Pending(ase, iso, transit) PROVE Pending(ase', iso', transit')
    BY <1>8, <1>14 DEF Pending
<1>15. Calm' BY <1>13, <1>14 DEF StackInv, StackOk, Calm, Spends
<1>16. UpRecorded(ase', iso')
    <2> SUFFICES ASSUME NEW a \in Ases, iso'.cis[a[1]] = "CONNECTED", iso'.path[a] = "UP"
                 PROVE  ase[a].dp
        BY <1>7 DEF UpRecorded
    <2>1. iso.path[a] = "UP" /\ a[1] # i BY <1>8, <1>9
    <2>2. QED BY <1>8, <2>1, AseCis DEF StackInv, StackOk, Carrying, UpRecorded
<1>17. ASSUME Held(ase, iso) PROVE Held(ase', iso')
    <2> SUFFICES ASSUME NEW a \in Ases, iso'.cis[a[1]] = "CONNECTED", ase[a].st # IDLE
                 PROVE  ase'[a].hdl \/ Removing(iso', a[1])
        BY <1>7 DEF Held
    <2>1. CASE a[1] = i BY <1>5, <1>7, <2>1
    <2>2. CASE a[1] # i BY <1>7, <1>8, <1>10, <1>17, <2>2, AseCis DEF Held
    <2>3. QED BY <2>1, <2>2
<1>18. ASSUME Fed(ase, iso) PROVE Fed(ase', iso')
    <2> SUFFICES ASSUME NEW a \in Ases, iso'.cis[a[1]] = "CONNECTED", ase[a].st = STREAMING
                 PROVE  ase[a].dp \/ iso'.path[a] = "SETTING" \/ Removing(iso', a[1])
        BY <1>7 DEF Fed
    <2>1. CASE a[1] = i
        <3>1. iso'.path[a] # "NONE" BY <1>6, <1>8, <2>1
        <3>2. iso'.path[a] \in {"SETTING", "REMOVING"} BY <1>8, <1>9, <2>1, <3>1
        <3>3. QED BY <3>2 DEF Removing
    <2>2. CASE a[1] # i
        <3>1. ase[a].dp \/ iso.path[a] = "SETTING" \/ Removing(iso, a[1])
            BY <1>8, <1>18, <2>2, AseCis DEF Fed
        <3>2. QED BY <1>8, <1>10, <3>1, AseCis
    <2>3. QED BY <2>1, <2>2
<1>19. Carrying' BY <1>16, <1>17, <1>18, Relics DEF StackInv, StackOk, Carrying, Spends
<1>20. QED BY <1>11, <1>12, <1>15, <1>19 DEF StackOk

\* The two events.
LEMMA ConnectionsKeep ==
    ASSUME StackInv, Spends, NEW i \in Cises, Established(i) \/ NotEstablished(i)
    PROVE  StackOk'
<1>1. CASE Established(i)
    <2>1. /\ iso.cis[i] \in {"SYNCED", "CUT"} /\ UNCHANGED <<mode, transit, retry, link, used>>
          /\ HandleConnection(i, IF iso.cis[i] = "CUT" THEN "CLOSING" ELSE "CONNECTED")
        BY <1>1 DEF Established
    <2>2. CASE iso.cis[i] = "CUT" BY <2>1, <2>2, ConnectionKeeps DEF Carriers
    <2>3. CASE iso.cis[i] = "SYNCED" BY <2>1, <2>3, ConnectionKeeps DEF Carriers
    <2>4. QED BY <2>1, <2>2, <2>3
<1>2. CASE NotEstablished(i)
    <2>1. /\ iso.cis[i] \in {"CANCELLED", "CONNECTING"} /\ HandleConnection(i, "NONE")
          /\ UNCHANGED <<mode, transit, retry, link>>
        BY <1>2 DEF NotEstablished
    <2>2. used'.session = used.session
        BY <1>2, FaultSpends DEF NotEstablished, StackInv, TypeInv
    <2>3. QED BY <2>1, <2>2, ConnectionKeeps DEF Carriers
<1>3. QED BY <1>1, <1>2

\* The disconnection of a CIS.
LEMMA DisconnectedKeeps ==
    ASSUME StackInv, Spends, NEW i \in Cises, CisDisconnected(i)
    PROVE  StackOk'
<1> DEFINE A == {a \in AsesOf(i) : ase[a].dp}
           r == RemovePath(iso, A)
           o == CisGone(r, i)
<1>1. /\ iso.cis[i] \in {"CLOSING", "DROPPED"} /\ UNCHANGED <<mode, transit, retry, used>>
      /\ ase' = [a \in Ases |-> IF a \in Unbound(i)
                   THEN [ase[a] EXCEPT !.hdl = FALSE] ELSE ase[a]]
      /\ iso' = RemoveCig(o) \/ iso' = o
      /\ link' = link \/ link' = CloseDisconnecting
    BY DEF CisDisconnected
<1>2. ase \in [Ases -> Ase] /\ iso \in Iso BY Typed DEF StackInv
<1>3. \A a \in Ases : (a \in A => a[1] = i) /\ (a \in Unbound(i) => a[1] = i)
    BY DEF AsesOf, Unbound
<1> HIDE DEF A
<1>4. /\ r \in Iso /\ r.cis = iso.cis /\ r.evt = iso.evt /\ r.cig = iso.cig
      /\ \A a \in Ases : iso.path[a] = "REMOVING" => r.path[a] = "REMOVING"
      /\ \A a \in Ases : a[1] # i => r.path[a] = iso.path[a]
    BY <1>2, <1>3, RemoveShape DEF CanRemove
<1> HIDE DEF r
<1>5. /\ o \in Iso /\ o.evt = iso.evt /\ o.cig = iso.cig
      /\ o.cis[i] = "NONE" /\ \A j \in Cises \ {i} : o.cis[j] = iso.cis[j]
      /\ \A a \in Ases : iso.path[a] = "REMOVING" => o.path[a] = "REMOVING"
      /\ \A a \in Ases : a[1] # i => o.path[a] = iso.path[a]
    BY <1>4, GoneShape
<1> HIDE DEF o
<1>6. /\ iso'.evt => iso.evt
      /\ iso'.cis[i] = "NONE" /\ \A j \in Cises \ {i} : iso'.cis[j] = iso.cis[j]
      /\ \A a \in Ases : iso.path[a] = "REMOVING" => iso'.path[a] = "REMOVING"
      /\ \A a \in Ases : iso'.cis[a[1]] = "CONNECTED" =>
                            a[1] # i /\ iso'.path[a] = iso.path[a]
    <2>1. CASE iso' = o BY <1>5, <2>1
    <2>2. CASE iso' = RemoveCig(o)
        <3>1. /\ iso'.cis = o.cis /\ (iso'.evt => o.evt)
              /\ \A a \in Ases : \/ iso'.path[a] = o.path[a]
                                 \/ /\ iso'.path[a] = "NONE" /\ o.path[a] # "REMOVING"
                                    /\ \A j \in Cises : o.cis[j] = "NONE"
            BY <1>5, <2>2, CigShape
        <3>2. QED BY <1>5, <3>1, AseCis
    <2>3. QED BY <1>1, <2>1, <2>2
<1>7. ASSUME NEW a \in Ases
      PROVE  /\ ase'[a].st = ase[a].st /\ ase'[a].dp = ase[a].dp
             /\ a[1] # i => ase'[a] = ase[a]
    BY <1>1, <1>2, <1>3 DEF Ase
<1>8. \A j \in Cises : link'[j] = "DOWN" => link[j] = "DOWN"
    BY <1>1 DEF CloseDisconnecting
<1>9. \A j \in Cises : Removing(iso, j) => Removing(iso', j)
    BY <1>6 DEF Removing
<1>10. Settled' BY <1>1, <1>6, <1>7, <1>8, AseCis DEF StackInv, StackOk, Settled
<1>11. Fresh' BY <1>1 DEF StackInv, StackOk, Fresh
<1>12. ASSUME Needed(ase, iso) PROVE Needed(ase', iso')
    BY <1>6, <1>7, <1>9, <1>12 DEF Needed, Alive
<1>13. ASSUME Pending(ase, iso, transit) PROVE Pending(ase', iso', transit')
    BY <1>1, <1>6, <1>13 DEF Pending
<1>14. Calm' BY <1>1, <1>12, <1>13 DEF StackInv, StackOk, Calm
<1>15. /\ UpRecorded(ase, iso) => UpRecorded(ase', iso')
       /\ Held(ase, iso) => Held(ase', iso')
       /\ Fed(ase, iso) => Fed(ase', iso')
    BY <1>6, <1>7, <1>9, AseCis DEF UpRecorded, Held, Fed
<1>16. Carrying' BY <1>1, <1>15 DEF StackInv, StackOk, Carrying
<1>17. QED BY <1>10, <1>11, <1>14, <1>16 DEF StackOk

\* A data path is up, or was refused.
LEMMA PathSetKeeps ==
    ASSUME StackInv, Spends, NEW b \in Ases, DataPathSetup(b) \/ DataPathRefused(b)
    PROVE  StackOk'
<1>1. ase \in [Ases -> Ase] /\ iso \in Iso BY Typed DEF StackInv
<1>2. /\ iso.path[b] = "SETTING" /\ UNCHANGED <<mode, transit, retry, link>>
      /\ used'.session = used.session
      /\ \E q \in {"UP", "NONE"} : iso' = [iso EXCEPT !.path[b] = q]
    BY FaultSpends DEF DataPathSetup, DataPathRefused, StackInv, TypeInv
<1>3. PICK q \in {"UP", "NONE"} : iso' = [iso EXCEPT !.path[b] = q] BY <1>2
<1>4. /\ iso'.cis = iso.cis /\ iso'.evt = iso.evt /\ iso'.cig = iso.cig
      /\ iso'.path[b] = q /\ \A a \in Ases \ {b} : iso'.path[a] = iso.path[a]
    BY <1>1, <1>3 DEF Iso
<1>5. ASSUME NEW a \in Ases
      PROVE  /\ ase'[a].st = ase[a].st /\ ase'[a].hdl = ase[a].hdl
             /\ ase[a].dp => ase'[a].dp
    <2>1. CASE ase' = ase BY <2>1
    <2>2. CASE DataPathSetup(b) /\ IsConnected(iso, b[1])
        BY <1>1, <2>2 DEF DataPathSetup, Ase
    <2>3. QED BY <2>1, <2>2 DEF DataPathSetup, DataPathRefused
<1>6. DataPathSetup(b) /\ iso.cis[b[1]] = "CONNECTED" => ase'[b].dp
    BY <1>1 DEF DataPathSetup, IsConnected, Ase
<1>7. \A i \in Cises : Removing(iso, i) => Removing(iso', i)
    BY <1>2, <1>4 DEF Removing
<1>8. Settled' BY <1>2, <1>4, <1>5 DEF StackInv, StackOk, Settled
<1>9. Fresh' BY <1>2, <1>4, <1>5 DEF StackInv, StackOk, Fresh
<1>10. ASSUME Needed(ase, iso) PROVE Needed(ase', iso')
    BY <1>4, <1>5, <1>7, <1>10 DEF Needed
<1>11. ASSUME Pending(ase, iso, transit) PROVE Pending(ase', iso', transit')
    BY <1>2, <1>4, <1>5, <1>11 DEF Pending
<1>12. Calm' BY <1>2, <1>10, <1>11 DEF StackInv, StackOk, Calm, Spends
<1>13. iso'.path[b] = "UP" => DataPathSetup(b)
    <2>1. CASE DataPathRefused(b)
        <3>1. iso' = [iso EXCEPT !.path[b] = "NONE"] BY <2>1 DEF DataPathRefused
        <3>2. iso'.path[b] = "NONE" BY <1>1, <3>1 DEF Iso
        <3>3. QED BY <3>2
    <2>2. QED BY <2>1
<1>14. UpRecorded(ase', iso')
    BY <1>4, <1>5, <1>6, <1>13 DEF StackInv, StackOk, Carrying, UpRecorded
<1>15. ASSUME Held(ase, iso) PROVE Held(ase', iso')
    BY <1>4, <1>5, <1>7, <1>15, AseCis DEF Held
<1>16. ASSUME Fed(ase, iso), used'.refused = 0 PROVE Fed(ase', iso')
    <2>1. DataPathSetup(b)
        BY <1>16, FaultSpends DEF DataPathRefused, StackInv, TypeInv
    <2>2. QED BY <1>4, <1>5, <1>6, <1>7, <1>16, <2>1, AseCis DEF Fed
<1>17. Carrying' BY <1>14, <1>15, <1>16, Relics DEF StackInv, StackOk, Carrying, Spends
<1>18. QED BY <1>8, <1>9, <1>12, <1>17 DEF StackOk

\* A data path is gone: its CIS is disconnected, if it is still there.
LEMMA PathRemovedKeeps ==
    ASSUME StackInv, Spends, NEW b \in Ases, DataPathRemoved(b)
    PROVE  StackOk'
<1> DEFINE o == [iso EXCEPT !.path[b] = "NONE"]
           h == ase[b].hdl /\ IsConnected(iso, b[1])
<1>1. /\ iso.path[b] = "REMOVING" /\ UNCHANGED <<mode, transit, retry, link, used>>
      /\ ase' = [ase EXCEPT ![b].dp = FALSE, ![b].hdl = h]
      /\ \/ IsConnected(iso, b[1]) /\ iso' = DisconnectCis(o, b[1])
         \/ ~IsConnected(iso, b[1]) /\ (iso' = RemoveCig(o) \/ iso' = o)
    BY DEF DataPathRemoved
<1>2. /\ ase \in [Ases -> Ase] /\ iso \in Iso /\ b[1] \in Cises
    BY Typed DEF StackInv
<1>3. /\ o \in Iso /\ o.cis = iso.cis /\ o.evt = iso.evt /\ o.cig = iso.cig
      /\ o.path[b] = "NONE" /\ \A a \in Ases \ {b} : o.path[a] = iso.path[a]
    <2> DEFINE p == [iso.path EXCEPT ![b] = "NONE"]
    <2>1. /\ p \in [Ases -> PathStates] /\ p[b] = "NONE"
          /\ \A a \in Ases \ {b} : p[a] = iso.path[a]
        BY <1>2 DEF Iso, PathStates
    <2>2. o = [iso EXCEPT !.path = p] OBVIOUS
    <2> HIDE DEF o, p
    <2>3. QED BY <1>2, <2>1, <2>2 DEF Iso
<1>4. h \in BOOLEAN BY <1>2 DEF Ase
<1> HIDE DEF o, h
<1>5. /\ ase'[b].st = ase[b].st /\ \A a \in Ases \ {b} : ase'[a] = ase[a]
    BY <1>1, <1>2, <1>4 DEF Ase
<1>6. /\ iso'.evt => iso.evt
      /\ iso'.cig => iso.cig
      /\ \A i \in Cises : i # b[1] => iso'.cis[i] = iso.cis[i]
      /\ iso'.cis[b[1]] = iso.cis[b[1]] \/ (iso'.cis[b[1]] \notin Alive /\ iso.cis[b[1]] # "NONE")
      /\ iso'.cis[b[1]] # "CONNECTED"
      /\ \A a \in Ases \ {b} : iso.path[a] = "REMOVING" => iso'.path[a] = "REMOVING"
      /\ \A a \in Ases \ {b} : iso'.cis[a[1]] = "CONNECTED" => iso'.path[a] = iso.path[a]
    <2>1. CASE IsConnected(iso, b[1])
        <3>1. iso' = DisconnectCis(o, b[1]) BY <1>1, <2>1
        <3>2. CanDisconnect(o, b[1])
            BY <1>3, <2>1 DEF IsConnected, CanDisconnect, Closes
        <3>3. /\ iso'.path = o.path /\ iso'.evt = o.evt /\ iso'.cig = o.cig
              /\ iso'.cis[b[1]] \notin Alive /\ o.cis[b[1]] # "NONE"
              /\ \A j \in Cises \ {b[1]} : iso'.cis[j] = o.cis[j]
            BY <1>2, <1>3, <3>1, <3>2, DisconnectShape
        <3>4. QED BY <1>3, <3>3 DEF Alive
    <2>2. CASE ~IsConnected(iso, b[1])
        <3>1. iso.cis[b[1]] # "CONNECTED" BY <2>2 DEF IsConnected
        <3>2. CASE iso' = o BY <1>3, <3>1, <3>2
        <3>3. CASE iso' = RemoveCig(o)
            <4>1. /\ iso'.cis = o.cis /\ (iso'.evt => o.evt) /\ (iso'.cig => o.cig)
                  /\ \A a \in Ases : \/ iso'.path[a] = o.path[a]
                                     \/ /\ iso'.path[a] = "NONE" /\ o.path[a] # "REMOVING"
                                        /\ \A i \in Cises : o.cis[i] = "NONE"
                BY <1>3, <3>3, CigShape
            <4>2. QED BY <1>3, <3>1, <4>1, AseCis
        <3>4. QED BY <1>1, <2>2, <3>2, <3>3
    <2>3. QED BY <2>1, <2>2
<1>7. \A i \in Cises \ {b[1]} : Removing(iso, i) => Removing(iso', i)
    BY <1>6 DEF Removing
<1>8. Settled'
    <2>1. /\ mode # "NONE" => \A a \in Ases : ase[a].st # RELEASING
          /\ \A a \in Ases : link[a[1]] = "DOWN" => ase[a].st = IDLE
          /\ \A i \in Cises : link[i] = "DOWN" => iso.cis[i] = "NONE"
          /\ \A a \in Ases : ase[a].st # CODEC
        BY DEF StackInv, StackOk, Settled
    <2>2. \A a \in Ases : ase'[a].st = ase[a].st BY <1>5
    <2>3. \A i \in Cises : iso.cis[i] = "NONE" => iso'.cis[i] = "NONE" BY <1>6
    <2>4. /\ mode' # "NONE" => \A a \in Ases : ase'[a].st # RELEASING
          /\ \A a \in Ases : link'[a[1]] = "DOWN" => ase'[a].st = IDLE
          /\ \A a \in Ases : ase'[a].st # CODEC
        BY <1>1, <2>1, <2>2
    <2>5. \A i \in Cises : link'[i] = "DOWN" => iso'.cis[i] = "NONE"
        BY <1>1, <2>1, <2>3
    <2>6. QED BY <2>4, <2>5 DEF Settled
<1>9. Fresh'
    <2> SUFFICES ASSUME used.session = 0
                 PROVE  /\ mode = "NONE" /\ ~iso'.cig /\ \A a \in Ases : ase'[a].st = IDLE
                        /\ \A i \in Cises : iso'.cis[i] = "NONE"
        BY <1>1 DEF Fresh
    <2>1. /\ mode = "NONE" /\ ~iso.cig /\ \A a \in Ases : ase[a].st = IDLE
          /\ \A i \in Cises : iso.cis[i] = "NONE"
        BY DEF StackInv, StackOk, Fresh
    <2>2. QED BY <1>2, <1>5, <1>6, <2>1
<1>10. ASSUME Needed(ase, iso) PROVE Needed(ase', iso')
    <2> SUFFICES ASSUME NEW i \in Cises, iso'.cis[i] \in Alive
                 PROVE  \/ \E a \in Ases : a[1] = i /\ ase[a].st \in Live
                        \/ iso'.cis[i] = "CONNECTED" /\ Removing(iso', i)
        BY <1>5 DEF Needed
    <2>1. CASE i = b[1]
        <3>1. iso.cis[i] \in Alive /\ iso.cis[i] # "CONNECTED" BY <1>6, <2>1
        <3>2. QED BY <1>10, <3>1 DEF Needed
    <2>2. CASE i # b[1] BY <1>6, <1>7, <1>10, <2>2 DEF Needed
    <2>3. QED BY <2>1, <2>2
<1>11. ASSUME Pending(ase, iso, transit) PROVE Pending(ase', iso', transit')
    BY <1>1, <1>2, <1>5, <1>6, <1>11 DEF Pending
<1>12. Calm' BY <1>1, <1>10, <1>11 DEF StackInv, StackOk, Calm
<1>13. ASSUME NEW a \in Ases, iso'.cis[a[1]] = "CONNECTED"
       PROVE  /\ iso.cis[a[1]] = "CONNECTED" /\ ase'[a] = ase[a]
              /\ iso'.path[a] = iso.path[a] /\ (Removing(iso, a[1]) => Removing(iso', a[1]))
    <2>1. a[1] # b[1] /\ a[1] \in Cises BY <1>6, <1>13, AseCis
    <2>2. a # b BY <2>1
    <2>3. QED BY <1>5, <1>6, <1>7, <1>13, <2>1, <2>2
<1>14. /\ UpRecorded(ase, iso) => UpRecorded(ase', iso')
       /\ Held(ase, iso) => Held(ase', iso')
       /\ Fed(ase, iso) => Fed(ase', iso')
    BY <1>13 DEF UpRecorded, Held, Fed
<1>15. Carrying' BY <1>1, <1>14 DEF StackInv, StackOk, Carrying
<1>16. QED BY <1>8, <1>9, <1>12, <1>15 DEF StackOk

\* A link is down: its CIS was gone before.
LEMMA LinkDownKeeps ==
    ASSUME StackInv, Spends, NEW i \in Cises, LinkDown(i)
    PROVE  StackOk'
<1> DEFINE mine == {a \in Ases : a[1] = i}
           left == \E j \in Cises \ {i} : link[j] # "DOWN"
           D    == {a \in mine : ase[a].dp}
<1>1. /\ iso.cis[i] = "NONE" /\ link' = [link EXCEPT ![i] = "DOWN"] /\ UNCHANGED used
      /\ mode' = IF left THEN mode ELSE "NONE"
      /\ transit' = (left /\ transit /\ ~(Active \subseteq mine))
      /\ iso' = RemovePath(iso, D)
      /\ ase' = [a \in Ases |-> IF a \in mine THEN ZeroAse ELSE ase[a]]
      /\ retry' = [retry EXCEPT !.acl = retry.acl /\ retry.cis # i]
    BY DEF LinkDown
<1>2. /\ ase \in [Ases -> Ase] /\ iso \in Iso
      /\ link \in [Cises -> {"UP", "CLOSING", "LOST", "DOWN"}]
      /\ retry \in [cis : Cises \cup {0}, acl : BOOLEAN, timer : BOOLEAN]
    BY Typed DEF StackInv, TypeInv, RestTypes
<1>3. \A a \in Ases : a \in mine <=> a[1] = i OBVIOUS
<1>4. ZeroAse.st = IDLE BY DEF ZeroAse
<1>5. \A a \in Ases : IF a[1] = i THEN ase'[a].st = IDLE ELSE ase'[a] = ase[a]
    BY <1>1, <1>3, <1>4
<1>6. mode' \in {mode, "NONE"} /\ retry'.timer = retry.timer BY <1>1, <1>2
<1>7. /\ link'[i] = "DOWN" /\ \A j \in Cises \ {i} : link'[j] = link[j]
    BY <1>1, <1>2
<1>8. \A a \in Ases : ase'[a].st # IDLE /\ transit => transit'
    <2> SUFFICES ASSUME NEW a \in Ases, ase'[a].st # IDLE, transit PROVE transit'
        OBVIOUS
    <2>1. a[1] # i /\ ase[a].st # IDLE /\ a[1] \in Cises BY <1>5, AseCis
    <2>2. link[a[1]] # "DOWN" BY <2>1 DEF StackInv, StackOk, Settled
    <2>3. left BY <2>1, <2>2
    <2>4. a \in Active /\ a \notin mine BY <1>3, <2>1 DEF Active
    <2>5. ~(Active \subseteq mine) BY <2>4
    <2> HIDE DEF left, mine, D
    <2>6. QED BY <1>1, <2>3, <2>5
<1> HIDE DEF left, mine, D
<1>9. /\ iso'.cis = iso.cis /\ iso'.evt = iso.evt /\ iso'.cig = iso.cig
      /\ \A a \in Ases : iso'.path[a] = iso.path[a]
                         \/ (iso'.path[a] = "REMOVING" /\ iso.path[a] = "UP")
    BY <1>1, <1>2, RemoveShape DEF CanRemove
<1>10. \A j \in Cises : Removing(iso, j) => Removing(iso', j)
    BY <1>9 DEF Removing
<1>11. Settled'
    BY <1>1, <1>5, <1>6, <1>7, <1>9, AseCis, AseStatesDiffer DEF StackInv, StackOk, Settled
<1>12. Fresh' BY <1>1, <1>5, <1>6, <1>9 DEF StackInv, StackOk, Fresh
<1>13. ASSUME Needed(ase, iso) PROVE Needed(ase', iso')
    BY <1>1, <1>5, <1>9, <1>10, <1>13 DEF Needed, Alive
<1>14. ASSUME Pending(ase, iso, transit) PROVE Pending(ase', iso', transit')
    <2>1. ASSUME NEW a \in Ases, iso.evt
          PROVE  ase'[a].st # RELEASING /\ (ase'[a].st = QOS => transit')
        BY <1>5, <1>8, <1>14, <2>1, AseStatesDiffer DEF Pending
    <2>2. QED BY <1>9, <1>14, <2>1 DEF Pending
<1>15. Calm' BY <1>1, <1>6, <1>13, <1>14 DEF StackInv, StackOk, Calm
<1>16. \A a \in Ases : iso'.cis[a[1]] = "CONNECTED" =>
                          a[1] # i /\ a[1] \in Cises /\ iso.cis[a[1]] = "CONNECTED"
    BY <1>1, <1>9, AseCis
<1>17. UpRecorded(ase, iso) => UpRecorded(ase', iso')
    BY <1>5, <1>9, <1>16 DEF UpRecorded
<1>18. Held(ase, iso) => Held(ase', iso')
    BY <1>5, <1>10, <1>16 DEF Held
<1>19. ASSUME Fed(ase, iso) PROVE Fed(ase', iso')
    BY <1>5, <1>9, <1>10, <1>16, <1>19 DEF Fed
<1>20. Carrying' BY <1>1, <1>17, <1>18, <1>19 DEF StackInv, StackOk, Carrying
<1>21. QED BY <1>11, <1>12, <1>15, <1>20 DEF StackOk

\* A device is back: it has no CIS yet.
LEMMA LinkBackKeeps ==
    ASSUME StackInv, Spends, NEW i \in Cises, LinkBack(i)
    PROVE  StackOk'
<1>1. PICK A : /\ ase' = [a \in Ases |-> IF a \in A
                      THEN [ase[a] EXCEPT !.st = QOS, !.cid = TRUE] ELSE ase[a]]
               /\ \A a \in A : a[1] = i /\ mode # "NONE"
    <2> DEFINE dir == IF mode = "MIC" THEN "SRC" ELSE "SNK"
               A   == IF mode = "NONE" \/ transit THEN {}
                      ELSE {a \in Ases : a[1] = i /\ a[2] = dir}
    <2>1. ase' = [a \in Ases |-> IF a \in A
                    THEN [ase[a] EXCEPT !.st = QOS, !.cid = TRUE] ELSE ase[a]]
        BY DEF LinkBack
    <2>2. \A a \in A : a[1] = i /\ mode # "NONE" OBVIOUS
    <2> HIDE DEF A
    <2>3. QED BY <2>1, <2>2
<1>2. /\ link[i] = "DOWN" /\ ~iso.evt /\ link' = [link EXCEPT ![i] = "UP"]
      /\ UNCHANGED <<mode, transit, retry, iso, used>>
    BY DEF LinkBack
<1>3. /\ ase \in [Ases -> Ase] /\ link \in [Cises -> {"UP", "CLOSING", "LOST", "DOWN"}]
    BY Typed DEF StackInv
<1>4. \A a \in Ases : \/ ase'[a] = ase[a]
                      \/ ase'[a].st = QOS /\ a[1] = i /\ mode # "NONE"
    BY <1>1, <1>3 DEF Ase
<1>5. \A j \in Cises : link'[j] = "DOWN" => j # i /\ link[j] = "DOWN" BY <1>2, <1>3
<1>6. iso.cis[i] = "NONE" BY <1>2 DEF StackInv, StackOk, Settled
<1>7. Settled'
    BY <1>2, <1>4, <1>5, AseCis, AseStatesDiffer DEF StackInv, StackOk, Settled
<1>8. Fresh' BY <1>2, <1>4 DEF StackInv, StackOk, Fresh
<1>9. ASSUME Needed(ase, iso) PROVE Needed(ase', iso')
    BY <1>2, <1>4, <1>6, <1>9 DEF Needed, Alive
<1>10. Calm' BY <1>2, <1>9 DEF StackInv, StackOk, Calm, Pending
<1>11. /\ UpRecorded(ase, iso) => UpRecorded(ase', iso')
       /\ Held(ase, iso) => Held(ase', iso')
       /\ Fed(ase, iso) => Fed(ase', iso')
    BY <1>2, <1>4, <1>6 DEF UpRecorded, Held, Fed
<1>12. Carrying' BY <1>2, <1>11 DEF StackInv, StackOk, Carrying
<1>13. QED BY <1>7, <1>8, <1>10, <1>12 DEF StackOk

\* The invariant of the CISs holds in every state.
LEMMA Stack == Spec => []StackInv
<1>1. Init /\ TypeInv => StackInv
    <2> SUFFICES ASSUME Init, TypeInv PROVE StackInv OBVIOUS
    <2>1. /\ \A a \in Ases : ase[a].st = IDLE /\ iso.path[a] = "NONE"
          /\ \A i \in Cises : iso.cis[i] = "NONE" /\ link[i] = "UP"
          /\ ~iso.cig /\ ~iso.evt /\ ~retry.timer /\ mode = "NONE"
        BY DEF Init, ZeroAse
    <2>2. Settled /\ Fresh BY <2>1, AseStatesDiffer DEF Settled, Fresh
    <2>3. Calm BY <2>1 DEF Calm, Needed, Pending, Alive
    <2>4. Carrying BY <2>1, AseCis DEF Carrying, UpRecorded, Held, Fed
    <2>5. QED BY <2>2, <2>3, <2>4 DEF StackInv, StackOk
<1>2. StackInv /\ TypeInv' /\ [Next]_vars => StackInv'
    <2> SUFFICES ASSUME StackInv, TypeInv', [Next]_vars PROVE StackInv' OBVIOUS
    <2>1. Spends BY StepSpends DEF StackInv, TypeInv
    <2>2. CASE UNCHANGED vars
        BY <2>2 DEF vars, StackInv, StackOk, Settled, Fresh, Calm, Carrying
    <2>3. CASE Next
        <3>1. StackOk'
            BY <2>1, <2>3, StartKeeps, CommandKeeps, EnablingKeeps, StreamingKeeps,
               ReleasingKeeps, IdleKeeps, CigCompleteKeeps, RetryKeeps, MovesKeep,
               ConnectionsKeep, DisconnectedKeeps, PathSetKeeps, PathRemovedKeeps,
               LinkDownKeeps, LinkBackKeeps
            DEF Next
        <3>2. QED BY <3>1 DEF StackInv
    <2>4. QED BY <2>2, <2>3
<1>3. QED BY <1>1, <1>2, Types, PTL DEF Spec

(* Between sessions no CIS is left, however early its peer was done with    *)
(* the ASE and whichever of data path, CIS and link went first, unless a    *)
(* CIS failed to synchronise and was tried again.                           *)
THEOREM SessionsTornDown == Spec => []TornDown
<1>1. StackInv => TornDown
    <2> SUFFICES ASSUME StackInv, Idle, used.sync = 0, NEW i \in Cises
                 PROVE  iso.cis[i] = "NONE"
        BY DEF TornDown
    <2>1. /\ iso.cis[i] \in {"NONE", "CONNECTED"}
          /\ \A a \in Ases : iso.path[a] \in {"NONE", "UP"}
          /\ \A a \in Ases : ase[a].st = IDLE
        BY DEF Idle, Quiet, Active
    <2>2. ~Removing(iso, i) BY <2>1 DEF Removing
    <2>3. \A a \in Ases : ase[a].st \notin Live BY <2>1, AseStatesDiffer DEF Live
    <2>4. QED BY <2>1, <2>2, <2>3 DEF StackInv, StackOk, Calm, Needed, Alive
<1>2. QED BY <1>1, Stack, PTL

(* A streaming ASE with a CIS ends up with its data path, whatever the      *)
(* order of the notifications and of the ISO events, unless the controller  *)
(* refused one or an earlier session has left a CIS that was retried.       *)
THEOREM StreamsCarried == Spec => []Carried
<1>1. StackInv => Carried
    <2> SUFFICES ASSUME StackInv, Quiet, used.refused = 0,
                        used.sync = 0 \/ used.session = 1, NEW a \in Ases,
                        ase[a].st = STREAMING, iso.cis[a[1]] = "CONNECTED"
                 PROVE  ase[a].dp
        BY DEF Carried
    <2>1. NoRelic(used) BY DEF NoRelic
    <2>2. \A b \in Ases : iso.path[b] \in {"NONE", "UP"} BY DEF Quiet
    <2>3. ~Removing(iso, a[1]) BY <2>2 DEF Removing
    <2>4. QED BY <2>1, <2>2, <2>3 DEF StackInv, StackOk, Carrying, Fed
<1>2. QED BY <1>1, Stack, PTL
=============================================================================
