------------------------- MODULE LeplUnicastProofs -------------------------
(* The invariants of the unicast player, for any devices, any number of     *)
(* commands and faults, and any manner of the host.                         *)
EXTENDS LeplUnicast, LeplCapProofs, WellFoundedInduction

OwnNote(c) == {n \in Notification : Owner[n.ase] = c}

\* A device that is not connected has nothing under way and its ASEs idle;
\* a notification arrives on the connection of the device that has its ASE.
EnvInv ==
    /\ srv \in [Ase -> AseStates]
    /\ nq \in [Conn -> Seq(Notification)]
    /\ \A c \in Conn : nq[c] \in Seq(OwnNote(c))
    /\ \A c \in Conn : c \notin app.up => nq[c] = << >>
    /\ \A a \in Ase : Owner[a] \notin app.up => srv[a] = IDLE
    /\ cmds \in 0..MaxCmds
    /\ faults \in 0..MaxFaults

\* The inductive invariant: a handler is only ever called for a device that
\* is connected, with an ASE of that device.
IInv == AppInv(app) /\ EnvInv

\* What every step keeps.
StepKept == IInv' /\ Prio(app, app')

-----------------------------------------------------------------------------
\* The invariant holds at start-up.
LEMMA InitInv == Init => IInv
  <1> SUFFICES ASSUME Init PROVE IInv
    OBVIOUS
  <1> USE DEF Init
  <1> DEFINE ast == [a \in Ase |-> IDLE]
             cid == [a \in Ase |-> 0]
             out == [c \in Conn |-> << >>]
  <1>1. ast \in AseState /\ cid \in CisIds /\ out \in Writes
    BY DEF AseState, AseStates, IDLE, CisIds, CisNums, Writes
  <1>2. 0 \in CisNums /\ {} \in SUBSET Cises /\ Devices \in SUBSET Devices
    BY DEF CisNums
  <1>3. \A c \in Conn : out[c] \in Seq(OwnMsg(c)) /\ out[c] = << >>
    <2> TAKE c \in Conn
    <2>1. out[c] = << >>
      OBVIOUS
    <2>2. << >> \in Seq(OwnMsg(c))
      OBVIOUS
    <2> QED  BY <2>1, <2>2
  <1> HIDE DEF ast, cid, out
  <1>4. app \in App
    BY <1>1, <1>2, ModeNames, ModeFacts, StateFacts, EmptyListType, ZeroCfgType
    DEF InitApp, App, ast, cid, out
  <1>5. /\ app.list = EmptyList /\ app.out = out /\ app.mode = NONE
        /\ app.final = NONE /\ app.paused = NONE /\ app.up = Devices
    BY DEF InitApp, out
  <1>6. AppInv(app)
    BY <1>3, <1>4, <1>5, DistinctModes
    DEF AppInv, Ok, Listed, EmptyList, Resumable
  <1>7. EnvInv
    BY EnvAssumption DEF EnvInv, AseStates, IDLE
  <1> QED  BY <1>6, <1>7 DEF IInv

\* A command keeps the invariant if its handler does.
LEMMA GivenKept ==
  ASSUME IInv, NEW name, NEW next, Given(name, next), Kept(app, next)
  PROVE  StepKept
  <1>1. /\ app' = next /\ UNCHANGED <<srv, nq, faults>>
        /\ cmds' = cmds + 1 /\ cmds < MaxCmds
    BY DEF Given
  <1>2. cmds' \in 0..MaxCmds
    BY <1>1, EnvAssumption DEF IInv, EnvInv
  <1>3. AppInv(app') /\ Prio(app, app') /\ app'.up = app.up
    BY <1>1 DEF Kept
  <1>4. EnvInv'
    BY <1>1, <1>2, <1>3 DEF IInv, EnvInv
  <1> QED  BY <1>3, <1>4 DEF StepKept, IInv

\* All but the accept leave the CISs that are being dropped alone.
LEMMA CommandKept ==
  ASSUME IInv, NEW name, NEW next, Command(name, next), Kept(app, next)
  PROVE  StepKept
  BY GivenKept DEF Command

\* The configuration of a host command is one.
LEMMA HostCfgType ==
  ASSUME NEW two \in Stereo
  PROVE  HostCfg(two) \in Cfg
  <1>1. two \in BOOLEAN
    BY EnvAssumption
  <1> QED  BY <1>1, ZeroCfgType DEF HostCfg, Cfg

\* Every command keeps the invariant.
LEMMA CommandsKept ==
  ASSUME IInv, Commands
  PROVE  StepKept
  <1>1. AppInv(app) /\ app.up \subseteq Conn
    BY FinalType DEF IInv, AppInv
  <1>2. ASSUME NEW c \in app.up, NEW two \in Stereo,
               Play(c, two) \/ StartBidir(c, two) \/ Ring(c, two)
        PROVE  StepKept
    <2>1. c \in Conn /\ HostCfg(two) \in Cfg
      BY <1>1, HostCfgType
    <2>2. CASE Play(c, two)
      BY <1>1, <2>1, <2>2, RpcPlayOk, CommandKept DEF Play
    <2>3. CASE StartBidir(c, two)
      BY <1>1, <2>1, <2>3, StartCommands, CommandKept DEF StartBidir
    <2>4. CASE Ring(c, two)
      BY <1>1, <2>1, <2>4, GenerateCallOk, CommandKept DEF Ring
    <2> QED  BY <1>2, <2>2, <2>3, <2>4
  <1>3. ASSUME NEW c \in app.up,
               \/ Pause(c) \/ StopMic(c) \/ StopBidir(c) \/ StopToDisconnect(c)
               \/ PeerPause(c)
        PROVE  StepKept
    BY <1>1, <1>3, StopCommands, CommandKept
    DEF Pause, StopMic, StopBidir, StopToDisconnect, PeerPause
  <1>4. ASSUME NEW c \in app.up, StartMic(c)
        PROVE  StepKept
    BY <1>1, <1>4, StartCommands, ZeroCfgType, CommandKept DEF StartMic
  <1>5. ASSUME NEW c \in app.up, EndCall(c) \/ PeerTerminate(c)
        PROVE  StepKept
    BY <1>1, <1>5, TerminateCallOk, CommandKept DEF EndCall, PeerTerminate
  <1>6. ASSUME NEW c \in app.up, PeerPlay(c)
        PROVE  StepKept
    BY <1>1, <1>6, GmcsPlayOk, CommandKept DEF PeerPlay
  <1>7. ASSUME NEW c \in app.up, PeerAccept(c)
        PROVE  StepKept
    BY <1>1, <1>7, PeerCallOk, GivenKept DEF PeerAccept
  <1>8. CASE PeerOriginate
    <2>1. 1 \in Conn
      BY DEF Conn
    <2> QED  BY <1>1, <1>8, <2>1, PeerCallOk, CommandKept DEF PeerOriginate
  <1>9. CASE BroadcastStart \/ BroadcastStop
    BY <1>1, <1>9, BroadcastOk, CommandKept DEF BroadcastStart, BroadcastStop
  <1>10. CASE PeerHold \/ PeerRetrieve \/ PeerJoin \/ RemoteHold \/ RemoteRetrieve
    BY <1>1, <1>10, HeldCallOk, CommandKept
    DEF PeerHold, PeerRetrieve, PeerJoin, RemoteHold, RemoteRetrieve
  <1> QED
    BY <1>2, <1>3, <1>4, <1>5, <1>6, <1>7, <1>8, <1>9, <1>10 DEF Commands

-----------------------------------------------------------------------------
\* A notification that is put on the bearer of a connected device.
LEMMA AppendKept ==
  ASSUME IInv, NEW c \in Conn, c \in app.up, NEW n \in OwnNote(c),
         nq' = [nq EXCEPT ![c] = Append(@, n)]
  PROVE  /\ nq' \in [Conn -> Seq(Notification)]
         /\ \A d \in Conn : nq'[d] \in Seq(OwnNote(d))
         /\ \A d \in Conn : d \notin app.up => nq'[d] = << >>
  <1> USE DEF IInv, EnvInv
  <1>1. \A d \in Conn : nq'[d] = IF d = c THEN Append(nq[d], n) ELSE nq[d]
    OBVIOUS
  <1>2. \A d \in Conn : nq'[d] \in Seq(OwnNote(d))
    <2> TAKE d \in Conn
    <2>1. nq[d] \in Seq(OwnNote(d))
      OBVIOUS
    <2> QED  BY <1>1, <2>1
  <1>3. n \in Notification
    BY DEF OwnNote
  <1>4. nq' \in [Conn -> Seq(Notification)]
    BY <1>3
  <1> QED  BY <1>1, <1>2, <1>4

\* Taking a notification off a bearer leaves the others where they belong.
LEMMA TailKept ==
  ASSUME IInv, NEW c \in Conn, nq[c] # << >>,
         nq' = [nq EXCEPT ![c] = Tail(@)]
  PROVE  /\ nq' \in [Conn -> Seq(Notification)]
         /\ \A d \in Conn : nq'[d] \in Seq(OwnNote(d))
         /\ \A d \in Conn : d \notin app.up => nq'[d] = << >>
  <1> USE DEF IInv, EnvInv
  <1>1. \A d \in Conn : nq'[d] = IF d = c THEN Tail(nq[d]) ELSE nq[d]
    OBVIOUS
  <1>2. \A d \in Conn : nq'[d] \in Seq(OwnNote(d))
    <2> TAKE d \in Conn
    <2>1. nq[d] \in Seq(OwnNote(d))
      OBVIOUS
    <2>2. nq[d] # << >> => Tail(nq[d]) \in Seq(OwnNote(d))
      BY <2>1
    <2> QED  BY <1>1, <2>1, <2>2
  <1>3. nq[c] \in Seq(Notification)
    OBVIOUS
  <1>4. Tail(nq[c]) \in Seq(Notification)
    BY <1>3
  <1>5. nq' \in [Conn -> Seq(Notification)]
    BY <1>4
  <1>6. c \in app.up
    OBVIOUS
  <1> QED  BY <1>1, <1>2, <1>5, <1>6

\* A write that has reached the server.
LEMMA PopWrite ==
  ASSUME IInv, NEW c \in Conn, app.out[c] # << >>,
         app' = [app EXCEPT !.out[c] = Tail(@)]
  PROVE  /\ AppInv(app') /\ Prio(app, app') /\ app'.up = app.up
         /\ c \in app.up /\ Head(app.out[c]) \in OwnMsg(c)
  <1> DEFINE o == [app.out EXCEPT ![c] = Tail(@)]
             t == [app EXCEPT !.out = o]
  <1>1. Ok(app) /\ app \in App
    BY DEF IInv, AppInv, Ok
  <1>2. app' = t
    BY <1>1 DEF App
  <1>3. app.out[c] \in Seq(OwnMsg(c)) /\ app.out \in Writes
    BY <1>1 DEF Ok, Listed, App
  <1>4. Head(app.out[c]) \in OwnMsg(c) /\ Tail(app.out[c]) \in Seq(OwnMsg(c))
    BY <1>3
  <1>5. c \in app.up
    BY <1>1 DEF Ok, Listed
  <1>6. \A d \in Conn : o[d] = IF d = c THEN Tail(app.out[d]) ELSE app.out[d]
    BY <1>3 DEF Writes
  <1> HIDE DEF o
  <1>7. \A d \in Conn : o[d] \in Seq(OwnMsg(d))
    BY <1>1, <1>4, <1>6 DEF Ok, Listed
  <1>8. o \in Writes
    <2>1. app.out[c] \in Seq(CpMsg)
      BY <1>3 DEF Writes
    <2>2. Tail(app.out[c]) \in Seq(CpMsg)
      BY <2>1
    <2> QED  BY <1>3, <2>2 DEF Writes, o
  <1>9. /\ t \in App /\ t.list = app.list /\ t.out = o /\ SamePlay(app, t)
    BY <1>1, <1>8 DEF App, SamePlay, SameMode
  <1>10. Ok(t)
    BY <1>1, <1>5, <1>6, <1>7, <1>9 DEF Ok, Listed, SamePlay, SameMode
  <1>11. Kept(app, t)
    BY <1>9, <1>10, SameKept DEF IInv
  <1> QED  BY <1>2, <1>4, <1>5, <1>11 DEF Kept

\* A server's notification keeps the invariant.
LEMMA NotifyKept ==
  ASSUME IInv, NEW a \in Ase, Owner[a] \in app.up, NEW st \in AseStates,
         Notify(a, st), AppInv(app'), Prio(app, app'), app'.up = app.up,
         cmds' \in 0..MaxCmds, faults' \in 0..MaxFaults
  PROVE  StepKept
  <1> DEFINE n == StateOf(a, st)
  <1>1. Owner[a] \in Conn /\ n \in OwnNote(Owner[a])
    BY DeviceAssumption DEF StateOf, OwnNote, Notification
  <1>2. nq' = [nq EXCEPT ![Owner[a]] = Append(@, n)]
    BY DEF Notify
  <1> HIDE DEF n
  <1>3. /\ nq' \in [Conn -> Seq(Notification)]
        /\ \A d \in Conn : nq'[d] \in Seq(OwnNote(d))
        /\ \A d \in Conn : d \notin app.up => nq'[d] = << >>
    BY <1>1, <1>2, AppendKept
  <1>4. /\ srv' \in [Ase -> AseStates]
        /\ \A b \in Ase : Owner[b] \notin app.up => srv'[b] = IDLE
    BY DEF Notify, IInv, EnvInv
  <1> QED  BY <1>3, <1>4 DEF StepKept, IInv, EnvInv

\* So does its error response.
LEMMA ErrorKept ==
  ASSUME IInv, NEW c \in Conn, NEW a \in OwnAse(c), c \in app.up,
         nq' = [nq EXCEPT ![c] = Append(@, ErrorOn(a))], UNCHANGED srv,
         AppInv(app'), Prio(app, app'), app'.up = app.up,
         cmds' \in 0..MaxCmds, faults' \in 0..MaxFaults
  PROVE  StepKept
  <1> DEFINE n == ErrorOn(a)
  <1>1. n \in OwnNote(c)
    BY DEF ErrorOn, OwnNote, OwnAse, Notification, AseStates, IDLE
  <1>2. nq' = [nq EXCEPT ![c] = Append(@, n)]
    OBVIOUS
  <1> HIDE DEF n
  <1>3. /\ nq' \in [Conn -> Seq(Notification)]
        /\ \A d \in Conn : nq'[d] \in Seq(OwnNote(d))
        /\ \A d \in Conn : d \notin app.up => nq'[d] = << >>
    BY <1>1, <1>2, AppendKept
  <1> QED  BY <1>3 DEF StepKept, IInv, EnvInv

\* Every control point operation leads to an ASE state.
LEMMA TargetType ==
  ASSUME NEW op \in CpOps
  PROVE  Target(op) \in AseStates
  BY DEF Target, CpOps, AseStates, CODEC_CONFIGURED, QOS_CONFIGURED, ENABLING,
         RELEASING

\* What the loss of a CIS makes a server notify is about ASEs of its device.
LEMMA LossNotesOk ==
  ASSUME EnvInv, NEW c \in Conn, NEW i
  PROVE  /\ LossNotes(c, i) \in Seq(OwnNote(c))
         /\ c \notin app.up => LossNotes(c, i) = << >>
  <1>1. ASSUME NEW ases \in Seq(Ase), NEW k,
               \A j \in DOMAIN ases : Owner[ases[j]] = c
        PROVE  /\ LossOf(ases, k, i) \in Seq(OwnNote(c))
               /\ c \notin app.up => LossOf(ases, k, i) = << >>
    <2>1. CASE k \in DOMAIN ases /\ Carried(ases[k], i)
      <3>1. ases[k] \in Ase /\ Owner[ases[k]] = c
        BY <1>1, <2>1
      <3>2. StateOf(ases[k], QOS_CONFIGURED) \in OwnNote(c)
        BY <3>1 DEF StateOf, OwnNote, Notification, AseStates, QOS_CONFIGURED
      <3>3. srv[ases[k]] # IDLE
        BY <2>1 DEF Carried, IDLE, ENABLING, STREAMING
      <3>4. c \in app.up
        BY <3>1, <3>3 DEF EnvInv
      <3> QED  BY <2>1, <3>2, <3>4 DEF LossOf
    <2>2. CASE ~(k \in DOMAIN ases /\ Carried(ases[k], i))
      BY <2>2 DEF LossOf
    <2> QED  BY <2>1, <2>2
  <1>2. /\ Snk[c] \in Seq(Ase) /\ \A j \in DOMAIN Snk[c] : Owner[Snk[c][j]] = c
        /\ Src[c] \in Seq(Ase) /\ \A j \in DOMAIN Src[c] : Owner[Src[c][j]] = c
    BY DeviceAssumption
  <1> DEFINE x == LossOf(Snk[c], 1, i)
             y == LossOf(Snk[c], 2, i)
             z == LossOf(Src[c], 1, i)
  <1>3. /\ x \in Seq(OwnNote(c)) /\ y \in Seq(OwnNote(c)) /\ z \in Seq(OwnNote(c))
        /\ c \notin app.up => x = << >> /\ y = << >> /\ z = << >>
    BY <1>1, <1>2
  <1>4. LossNotes(c, i) = x \o y \o z
    BY DEF LossNotes
  <1> HIDE DEF x, y, z
  <1>5. x \o y \in Seq(OwnNote(c))
    BY <1>3
  <1>6. x \o y \o z \in Seq(OwnNote(c))
    BY <1>3, <1>5
  <1>7. << >> \o << >> \o << >> = << >>
    OBVIOUS
  <1> QED  BY <1>3, <1>4, <1>6, <1>7

\* Every step of the servers, bearers and events keeps the invariant.
LEMMA ProgressKept ==
  ASSUME IInv, Progress
  PROVE  StepKept
  <1>1. AppInv(app) /\ EnvInv /\ app.up \subseteq Conn
    BY FinalType DEF IInv, AppInv
  <1>2. cmds \in 0..MaxCmds /\ faults \in 0..MaxFaults
    BY <1>1 DEF EnvInv
  <1>3. ASSUME NEW c \in Conn, ServerWrite(c)
        PROVE  StepKept
    <2> DEFINE m == Head(app.out[c])
    <2>1. /\ app.out[c] # << >> /\ app' = [app EXCEPT !.out[c] = Tail(@)]
          /\ UNCHANGED <<cmds, faults>>
      BY <1>3 DEF ServerWrite
    <2>2. /\ AppInv(app') /\ Prio(app, app') /\ app'.up = app.up
          /\ c \in app.up /\ m \in OwnMsg(c)
      BY <2>1, PopWrite
    <2>3. \/ Notify(m.ase, Target(m.op))
          \/ nq' = [nq EXCEPT ![c] = Append(@, ErrorOn(m.ase))] /\ UNCHANGED srv
      BY <1>3 DEF ServerWrite
    <2> HIDE DEF m
    <2>4. m.ase \in OwnAse(c) /\ m.ase \in Ase /\ m.op \in CpOps
      BY <2>2 DEF OwnMsg, OwnAse, CpMsg
    <2>5. Owner[m.ase] \in app.up /\ Target(m.op) \in AseStates
      BY <2>2, <2>4, TargetType DEF OwnAse
    <2>6. cmds' \in 0..MaxCmds /\ faults' \in 0..MaxFaults
      BY <1>2, <2>1
    <2>7. CASE Notify(m.ase, Target(m.op))
      BY <2>2, <2>4, <2>5, <2>6, <2>7, NotifyKept
    <2>8. CASE /\ nq' = [nq EXCEPT ![c] = Append(@, ErrorOn(m.ase))]
               /\ UNCHANGED srv
      BY <2>2, <2>4, <2>6, <2>8, ErrorKept
    <2> QED  BY <2>3, <2>7, <2>8
  <1>4. ASSUME NEW a \in Ase, ServerStream(a) \/ ServerReleased(a)
        PROVE  StepKept
    <2>1. /\ UNCHANGED <<app, cmds, faults>> /\ srv[a] # IDLE
          /\ \E st \in AseStates : Notify(a, st)
      BY <1>4 DEF ServerStream, ServerReleased, AseStates, IDLE, ENABLING,
                  STREAMING, RELEASING, CODEC_CONFIGURED
    <2>2. Owner[a] \in app.up
      BY <1>1, <2>1 DEF EnvInv
    <2>3. Kept(app, app)
      BY <1>1, SameKept DEF AppInv, SamePlay, SameMode
    <2>4. AppInv(app') /\ Prio(app, app') /\ app'.up = app.up
      BY <2>1, <2>3 DEF Kept
    <2>5. PICK st \in AseStates : Notify(a, st)
      BY <2>1
    <2>6. cmds' \in 0..MaxCmds /\ faults' \in 0..MaxFaults
      BY <1>2, <2>1
    <2> QED  BY <2>2, <2>4, <2>5, <2>6, NotifyKept
  <1>5. ASSUME NEW c \in Conn, Deliver(c)
        PROVE  StepKept
    <2> DEFINE n == Head(nq[c])
    <2>1. /\ nq[c] # << >> /\ nq' = [nq EXCEPT ![c] = Tail(@)]
          /\ UNCHANGED <<srv, cmds, faults>>
          /\ app' = IF n.k = "error" THEN AscsErrorResponse(app, c)
                    ELSE AseNotification(app, c, n.ase, n.st)
      BY <1>5 DEF Deliver
    <2>2. c \in app.up /\ nq[c] \in Seq(OwnNote(c))
      BY <1>1, <2>1 DEF EnvInv
    <2>3. n \in OwnNote(c)
      BY <2>1, <2>2
    <2> HIDE DEF n
    <2>4. n.ase \in OwnAse(c) /\ n.st \in AseStates
      BY <2>3 DEF OwnNote, Notification, OwnAse
    <2>5. /\ Kept(app, AscsErrorResponse(app, c))
          /\ Kept(app, AseNotification(app, c, n.ase, n.st))
      BY <1>1, <2>2, <2>4, AscsErrorResponseOk, AseNotificationOk
    <2>6. AppInv(app') /\ Prio(app, app') /\ app'.up = app.up
      BY <2>1, <2>5 DEF Kept
    <2>7. /\ nq' \in [Conn -> Seq(Notification)]
          /\ \A d \in Conn : nq'[d] \in Seq(OwnNote(d))
          /\ \A d \in Conn : d \notin app.up => nq'[d] = << >>
      BY <2>1, TailKept
    <2> QED  BY <1>1, <2>1, <2>6, <2>7 DEF StepKept, IInv, EnvInv
  <1>6. CASE CigCompleteEvt
    <2>1. app' = CigComplete(app) /\ UNCHANGED <<srv, nq, cmds, faults>>
      BY <1>6 DEF CigCompleteEvt
    <2>2. AppInv(app') /\ Prio(app, app') /\ app'.up = app.up
      BY <1>1, <2>1, CigCompleteOk DEF Kept
    <2> QED  BY <1>1, <2>1, <2>2 DEF StepKept, IInv, EnvInv
  <1>7. ASSUME NEW i \in Cises, CisDisconnectedEvt(i)
        PROVE  StepKept
    <2>1. /\ app' = DropCis(app, i) /\ UNCHANGED <<cmds, faults>>
          /\ srv' = [a \in Ase |-> IF Carried(a, i) THEN QOS_CONFIGURED ELSE srv[a]]
          /\ nq' = [c \in Conn |-> nq[c] \o LossNotes(c, i)]
      BY <1>7 DEF CisDisconnectedEvt
    <2>2. AppInv(app') /\ Prio(app, app') /\ app'.up = app.up
      BY <1>1, <2>1, DropCisOk, SameKept DEF AppInv, Kept
    <2>3. /\ srv' \in [Ase -> AseStates]
          /\ \A a \in Ase : Owner[a] \notin app.up => srv'[a] = IDLE
      <3>1. QOS_CONFIGURED \in AseStates
        BY DEF AseStates, QOS_CONFIGURED
      <3>2. \A a \in Ase : Owner[a] \notin app.up => ~Carried(a, i)
        BY <1>1 DEF EnvInv, Carried, IDLE, ENABLING, STREAMING
      <3> QED  BY <1>1, <2>1, <3>1, <3>2 DEF EnvInv
    <2>4. ASSUME NEW c \in Conn
          PROVE  /\ LossNotes(c, i) \in Seq(OwnNote(c))
                 /\ c \notin app.up => LossNotes(c, i) = << >>
      BY <1>1, LossNotesOk
    <2>5. /\ nq' \in [Conn -> Seq(Notification)]
          /\ \A c \in Conn : nq'[c] \in Seq(OwnNote(c))
          /\ \A c \in Conn : c \notin app.up => nq'[c] = << >>
      <3>1. \A c \in Conn : nq'[c] = nq[c] \o LossNotes(c, i)
        BY <2>1
      <3>2. ASSUME NEW c \in Conn
            PROVE  nq'[c] \in Seq(OwnNote(c)) /\ nq'[c] \in Seq(Notification)
        <4>1. nq[c] \in Seq(OwnNote(c)) /\ LossNotes(c, i) \in Seq(OwnNote(c))
          BY <1>1, <2>4 DEF EnvInv
        <4> DEFINE m == LossNotes(c, i)
                   N == OwnNote(c)
        <4>2. nq[c] \o m \in Seq(N)
          <5> HIDE DEF m, N
          <5>1. nq[c] \in Seq(N) /\ m \in Seq(N)
            BY <4>1 DEF m, N
          <5> QED  BY <5>1
        <4>4. nq'[c] \in Seq(OwnNote(c))
          BY <3>1, <4>2
        <4>3. OwnNote(c) \subseteq Notification
          BY DEF OwnNote
        <4> QED  BY <4>3, <4>4
      <3>3. ASSUME NEW c \in Conn, c \notin app.up
            PROVE  nq'[c] = << >>
        <4>1. nq[c] = << >> /\ LossNotes(c, i) = << >>
          BY <1>1, <2>4, <3>3 DEF EnvInv
        <4>2. << >> \o << >> = << >>
          OBVIOUS
        <4> QED  BY <3>1, <4>1, <4>2
      <3> QED  BY <2>1, <3>2, <3>3
    <2> QED  BY <1>2, <2>1, <2>2, <2>3, <2>5 DEF StepKept, IInv, EnvInv
  <1> QED  BY <1>3, <1>4, <1>5, <1>6, <1>7 DEF Progress

\* So does every fault and every reconnection.
LEMMA FaultsKept ==
  ASSUME IInv, Faults
  PROVE  StepKept
  <1>1. AppInv(app) /\ EnvInv /\ app.up \subseteq Conn
    BY FinalType DEF IInv, AppInv
  <1>2. ASSUME NEW kind, Fault(kind)
        PROVE  cmds' \in 0..MaxCmds /\ faults' \in 0..MaxFaults
    BY <1>1, <1>2, EnvAssumption DEF Fault, EnvInv
  <1>3. ASSUME NEW c \in Conn, ServerReject(c)
        PROVE  StepKept
    <2> DEFINE m == Head(app.out[c])
    <2>1. /\ app.out[c] # << >> /\ app' = [app EXCEPT !.out[c] = Tail(@)]
          /\ nq' = [nq EXCEPT ![c] = Append(@, ErrorOn(m.ase))]
          /\ UNCHANGED srv
      BY <1>3 DEF ServerReject
    <2>2. /\ AppInv(app') /\ Prio(app, app') /\ app'.up = app.up
          /\ c \in app.up /\ m \in OwnMsg(c)
      BY <2>1, PopWrite
    <2>3. cmds' \in 0..MaxCmds /\ faults' \in 0..MaxFaults
      BY <1>2, <1>3 DEF ServerReject
    <2> HIDE DEF m
    <2>4. m.ase \in OwnAse(c)
      BY <2>2 DEF OwnMsg, OwnAse, CpMsg
    <2> QED  BY <2>1, <2>2, <2>3, <2>4, ErrorKept
  <1>4. ASSUME NEW a \in Ase, ServerDisable(a)
        PROVE  StepKept
    <2>1. /\ UNCHANGED app /\ srv[a] # IDLE
          /\ \E st \in AseStates : Notify(a, st)
      BY <1>4 DEF ServerDisable, AseStates, IDLE, ENABLING, STREAMING, DISABLING,
                  QOS_CONFIGURED
    <2>2. Owner[a] \in app.up
      BY <1>1, <2>1 DEF EnvInv
    <2>3. Kept(app, app)
      BY <1>1, SameKept DEF AppInv, SamePlay, SameMode
    <2>4. AppInv(app') /\ Prio(app, app') /\ app'.up = app.up
      BY <2>1, <2>3 DEF Kept
    <2>5. PICK st \in AseStates : Notify(a, st)
      BY <2>1
    <2>6. cmds' \in 0..MaxCmds /\ faults' \in 0..MaxFaults
      BY <1>2, <1>4 DEF ServerDisable
    <2> QED  BY <2>2, <2>4, <2>5, <2>6, NotifyKept
  <1>5. ASSUME NEW c \in Conn, LinkLoss(c)
        PROVE  StepKept
    <2>1. /\ c \in app.up /\ app' = HandleDisconnection(app, c)
          /\ srv' = [a \in Ase |-> IF Owner[a] = c THEN IDLE ELSE srv[a]]
          /\ nq' = [nq EXCEPT ![c] = << >>]
      BY <1>5 DEF LinkLoss
    <2>2. AppInv(app') /\ Prio(app, app') /\ app'.up = app.up \ {c}
      BY <1>1, <2>1, HandleDisconnectionOk
    <2>3. cmds' \in 0..MaxCmds /\ faults' \in 0..MaxFaults
      BY <1>2, <1>5 DEF LinkLoss
    <2>4. /\ srv' \in [Ase -> AseStates]
          /\ \A a \in Ase : Owner[a] \notin app'.up => srv'[a] = IDLE
      BY <1>1, <2>1, <2>2 DEF EnvInv, AseStates, IDLE
    <2>5. \A d \in Conn : nq'[d] = IF d = c THEN << >> ELSE nq[d]
      BY <1>1, <2>1 DEF EnvInv
    <2>6. \A d \in Conn : nq'[d] \in Seq(OwnNote(d))
      <3> TAKE d \in Conn
      <3>1. << >> \in Seq(OwnNote(d)) /\ nq[d] \in Seq(OwnNote(d))
        BY <1>1 DEF EnvInv
      <3> QED  BY <2>5, <3>1
    <2>7. nq' \in [Conn -> Seq(Notification)]
      <3>1. << >> \in Seq(Notification)
        OBVIOUS
      <3> QED  BY <1>1, <2>1, <3>1 DEF EnvInv
    <2>8. \A d \in Conn : d \notin app'.up => nq'[d] = << >>
      BY <1>1, <2>2, <2>5 DEF EnvInv
    <2> QED  BY <2>2, <2>3, <2>4, <2>6, <2>7, <2>8 DEF StepKept, IInv, EnvInv
  <1>6. ASSUME NEW c \in Conn, Reconnect(c)
        PROVE  StepKept
    <2>1. /\ c \in Devices \ app.up /\ app' = MemberReconnection(app, c)
          /\ UNCHANGED <<srv, nq, cmds, faults>>
      BY <1>6 DEF Reconnect
    <2>2. AppInv(app') /\ Prio(app, app') /\ app'.up = app.up \cup {c}
      BY <1>1, <2>1, MemberReconnectionOk
    <2> QED  BY <1>1, <2>1, <2>2 DEF StepKept, IInv, EnvInv
  <1>7. ASSUME NEW c \in Conn, PathFails(c)
        PROVE  StepKept
    <2> DEFINE n == Head(nq[c])
    <2>1. /\ nq[c] # << >> /\ nq' = [nq EXCEPT ![c] = Tail(@)]
          /\ UNCHANGED srv /\ app' = PathFailed(app, n.ase, n.st)
      BY <1>7 DEF PathFails
    <2>2. nq[c] \in Seq(OwnNote(c))
      BY <1>1 DEF EnvInv
    <2>3. n \in OwnNote(c)
      BY <2>1, <2>2
    <2> HIDE DEF n
    <2>4. n.ase \in Ase /\ n.st \in AseStates
      BY <2>3 DEF OwnNote, Notification
    <2>5. AppInv(app') /\ Prio(app, app') /\ app'.up = app.up
      BY <1>1, <2>1, <2>4, PathFailedOk, SameKept DEF AppInv, Kept
    <2>6. /\ nq' \in [Conn -> Seq(Notification)]
          /\ \A d \in Conn : nq'[d] \in Seq(OwnNote(d))
          /\ \A d \in Conn : d \notin app.up => nq'[d] = << >>
      BY <2>1, TailKept
    <2>7. cmds' \in 0..MaxCmds /\ faults' \in 0..MaxFaults
      BY <1>2, <1>7 DEF PathFails
    <2> QED  BY <1>1, <2>1, <2>5, <2>6, <2>7 DEF StepKept, IInv, EnvInv
  <1> QED  BY <1>3, <1>4, <1>5, <1>6, <1>7 DEF Faults

\* IInv is inductive and every step respects the priorities.
LEMMA StepInv == IInv /\ [Next]_vars => StepKept
  <1> SUFFICES ASSUME IInv, [Next]_vars PROVE StepKept
    OBVIOUS
  <1>1. CASE Commands
    BY <1>1, CommandsKept
  <1>2. CASE Progress
    BY <1>2, ProgressKept
  <1>3. CASE Faults
    BY <1>3, FaultsKept
  <1>4. CASE UNCHANGED vars
    <2>1. app' = app /\ EnvInv'
      BY <1>4 DEF vars, IInv, EnvInv
    <2>2. Kept(app, app)
      BY SameKept DEF IInv, AppInv, SamePlay, SameMode
    <2> QED  BY <2>1, <2>2 DEF StepKept, Kept, IInv
  <1> QED  BY <1>1, <1>2, <1>3, <1>4 DEF Next

-----------------------------------------------------------------------------
(* Theorems                                                                  *)

\* The inductive invariant holds in every reachable state, whatever the
\* devices, the commands and the faults.
THEOREM Invariance == Spec => []IInv
  <1>1. IInv /\ [Next]_vars => IInv'
    BY StepInv DEF StepKept
  <1> QED  BY InitInv, <1>1, PTL DEF Spec

\* Only the accept of a call has CISs dropped.
LEMMA DropsStep ==
  ASSUME [Next]_vars
  PROVE  \/ dropping' \subseteq dropping
         \/ /\ \E c \in app.up : PeerAccept(c)
            /\ dropping' = dropping \cup AcceptDrops(app)
  <1>1. CASE Commands
    <2>1. CASE \E c \in app.up : PeerAccept(c)
      BY <2>1 DEF PeerAccept
    <2>2. CASE ~\E c \in app.up : PeerAccept(c)
      BY <1>1, <2>2
      DEF Commands, Command, Play, StartBidir, Ring, Pause, StartMic, StopMic, StopBidir,
          EndCall, StopToDisconnect, PeerPlay, PeerPause, PeerTerminate,
          PeerOriginate, PeerHold, PeerRetrieve, PeerJoin, RemoteHold, RemoteRetrieve,
          BroadcastStart, BroadcastStop
    <2> QED  BY <2>1, <2>2
  <1>2. CASE Progress
    BY <1>2 DEF Progress, ServerWrite, Deliver, ServerStream, ServerReleased,
                CisDisconnectedEvt, CigCompleteEvt
  <1>3. CASE Faults
    BY <1>3 DEF Faults, ServerReject, PathFails, LinkLoss, Reconnect, ServerDisable
  <1>4. CASE UNCHANGED vars
    BY <1>4 DEF vars
  <1> QED  BY <1>1, <1>2, <1>3, <1>4 DEF Next

\* Type correctness of the player, the servers and the bearers.
THEOREM TypeCorrect == Spec => []TypeOK
  <1> DEFINE Numbers == dropping \subseteq Cises
  <1>1. IInv /\ Numbers => TypeOK
    BY DEF IInv, AppInv, Ok, EnvInv, TypeOK
  <1>2. Init => Numbers
    BY DEF Init
  <1>3. IInv /\ Numbers /\ [Next]_vars => Numbers'
    <2>1. IInv => AcceptDrops(app) \subseteq Cises
      BY DEF IInv, AppInv, Ok, App, AcceptDrops
    <2> QED  BY <2>1, DropsStep
  <1> QED  BY Invariance, <1>1, <1>2, <1>3, PTL DEF Spec

\* Outside a transition final_mode is the current mode.
THEOREM FinalTracked == Spec => []ModeTracksFinal
  <1>1. IInv => ModeTracksFinal
    BY DEF IInv, AppInv, ModeTracksFinal
  <1> QED  BY Invariance, <1>1, PTL

\* GMCS reports PLAYING as long as the mode is or becomes MEDIA.
THEOREM MediaPlays == Spec => []MediaModePlays
  <1>1. IInv => MediaModePlays
    BY DEF IInv, AppInv, MediaModePlays
  <1> QED  BY Invariance, <1>1, PTL

\* paused_mode can always be resumed.
THEOREM PausedCanResume == Spec => []PausedResumable
  <1>1. IInv => PausedResumable
    BY DEF IInv, AppInv, PausedResumable, Resumable
  <1> QED  BY Invariance, <1>1, PTL

\* No list entry and no write refers to a control block that was freed.
THEOREM NoStaleAse == Spec => []ListedConnected
  <1>1. IInv => ListedConnected
    BY DEF IInv, AppInv, Ok, Listed, ListedConnected
  <1> QED  BY Invariance, <1>1, PTL

\* No step lets a mode give way to one of a lower priority.
THEOREM Priorities == Spec => PriorityRespected
  <1> DEFINE Falls == app'.final < app.final =>
                        \/ app'.final = NONE
                        \/ app.call # "FREE" /\ app'.call = "FREE"
  <1>1. IInv /\ [Next]_vars => [Falls]_vars
    BY StepInv DEF StepKept, Prio
  <1> QED  BY Invariance, <1>1, PTL DEF Spec, PriorityRespected

-----------------------------------------------------------------------------
(* The promise of AudioModes, step by step                                   *)

\* Two states between which the modes do not move, nor does a call come or go.
Still(s, t) ==
    /\ t.mode = s.mode /\ t.final = s.final /\ t.paused = s.paused
    /\ (t.call = "FREE") <=> (s.call = "FREE")

\* The steps of AudioModes on states of the application, but for the dial.
Begins(s, t, m) ==
    /\ m \in UnicastModes
    /\ s.mode = NONE \/ (s.final \in UnicastModes /\ s.final <= m)
    /\ t.mode = IN_TRANSIT /\ t.final = m
    /\ t.paused = IF s.mode \in UnicastModes THEN s.mode ELSE s.paused
    /\ t.call # "FREE" <=> (s.call # "FREE" \/ m = CALL)

Ends(s, t) ==
    /\ s.final \in UnicastModes
    /\ t.mode = IN_TRANSIT /\ t.final = NONE /\ t.paused = s.paused
    /\ (t.call = "FREE") <=> (s.call = "FREE")

Resumes(s, t) ==
    /\ s.paused # NONE
    /\ t.mode = IN_TRANSIT /\ t.final = s.paused /\ t.paused = NONE

Returns(s, t) ==
    /\ s.mode = IN_TRANSIT /\ s.final = NONE /\ Resumes(s, t)
    /\ (t.call = "FREE") <=> (s.call = "FREE")

Completes(s, t) ==
    /\ s.mode = IN_TRANSIT /\ t.mode = s.final
    /\ t.final = s.final /\ t.paused = s.paused
    /\ (t.call = "FREE") <=> (s.call = "FREE")

HangsUp(s, t) ==
    /\ s.call # "FREE" /\ t.call = "FREE"
    /\ \/ t.mode = IN_TRANSIT /\ t.final = NONE /\ t.paused = s.paused
       \/ /\ s.paused = NONE /\ t.mode = NONE /\ t.final = NONE
          /\ t.paused = s.paused
       \/ Resumes(s, t)

Abandons(s, t) ==
    /\ t.mode = NONE /\ t.final = NONE /\ t.paused \in {s.paused, NONE}
    /\ (t.call = "FREE") <=> (s.call = "FREE")

\* What a notification may do to the modes.
Notified(s, t) == Still(s, t) \/ Completes(s, t) \/ Returns(s, t)

\* The modes that stream to devices are those that can be resumed.
LEMMA UnicastFacts ==
  /\ UnicastModes \subseteq FinalModes /\ UnicastModes \subseteq Resumable
  /\ \A m \in Resumable : m = NONE \/ m \in UnicastModes
  /\ MEDIA \in UnicastModes /\ MIC \in UnicastModes
  /\ BIDIRMIC \in UnicastModes /\ CALL \in UnicastModes
  /\ NONE \notin UnicastModes /\ IN_TRANSIT \notin UnicastModes
  BY DEF UnicastModes, FinalModes, Modes, Resumable, NONE, MEDIA, MIC, BIDIRMIC,
         CALL, IN_TRANSIT

\* A handler that ends in SetNextAudioMode for a mode that is not refused.
LEMMA NextBegins ==
  ASSUME NEW s, AppInv(s), NEW u, Ok(u), SameAudio(s, u),
         NEW m \in UnicastModes, NEW cfg \in Cfg,
         s.mode = NONE \/ ~StopRefused(s, m),
         u.call # "FREE" <=> (s.call # "FREE" \/ m = CALL)
  PROVE  Begins(s, SetNextAudioMode(u, m, cfg), m)
  <1> DEFINE t == SetNextAudioMode(u, m, cfg)
  <1>1. /\ t.mode = IN_TRANSIT /\ t.final = m /\ t.call = u.call
        /\ t.paused = IF m # NONE /\ u.mode \notin {NONE, IN_TRANSIT}
                        THEN u.mode ELSE u.paused
    BY SetNextOk, UnicastFacts
  <1> HIDE DEF t
  <1>2. /\ s.mode \in Resumable \cup {IN_TRANSIT}
        /\ s.mode = NONE \/ (s.final \in UnicastModes /\ s.final <= m)
    <2>1. CASE s.mode = NONE
      BY <2>1, NoneIdle
    <2>2. CASE ~StopRefused(s, m)
      <3>1. s.mode \in Resumable \cup {IN_TRANSIT} /\ (m = NONE \/ s.final <= m)
        BY <2>2, NotRefused, UnicastFacts
      <3>2. LeftMode(s) = s.final
        BY DEF AppInv, LeftMode
      <3>3. s.final \in UnicastModes
        BY <2>2, <3>2 DEF StopRefused, UnicastModes
      <3> QED  BY <3>1, <3>3, UnicastFacts
    <2> QED  BY <2>1, <2>2
  <1>3. t.paused = IF s.mode \in UnicastModes THEN s.mode ELSE s.paused
    BY <1>1, <1>2, UnicastFacts DEF SameAudio
  <1> QED  BY <1>1, <1>2, <1>3 DEF Begins, t

\* A handler that ends in SetNextAudioMode for NONE.
LEMMA NextEnds ==
  ASSUME NEW s, AppInv(s), NEW u, Ok(u), SameMode(s, u), s.final \in UnicastModes
  PROVE  Ends(s, SetNextAudioMode(u, NONE, ZeroCfg))
  BY SetNextOk, ModeNames, ZeroCfgType DEF SameMode, Ends

\* The modes of a state that is on, or in transition to, mode m.
LEMMA TheFinal ==
  ASSUME NEW s, AppInv(s), NEW m \in UnicastModes, m \in {s.mode, s.final}
  PROVE  s.final = m
  BY UnicastFacts DEF AppInv

\* The commands that stop a mode.
LEMMA StopsEnd ==
  ASSUME NEW s, AppInv(s), NEW c \in Conn, s.final \in UnicastModes
  PROVE  /\ Ends(s, RpcStopStreaming(s, c)) /\ Ends(s, RpcPause(s, c))
         /\ Ends(s, StopVoiceCapture(s, c)) /\ Ends(s, StopBidirMic(s, c))
  <1>1. Ok(s)
    BY DEF AppInv
  <1>2. \A u : Ok(u) /\ SameMode(s, u) =>
                 Ends(s, SetNextAudioMode(u, NONE, ZeroCfg))
    BY NextEnds
  <1>3. Ends(s, RpcStopStreaming(s, c))
    BY <1>1, <1>2, StopForNextOk DEF RpcStopStreaming
  <1>4. Ends(s, RpcPause(s, c))
    BY <1>1, <1>2, McsPauseOk DEF RpcPause
  <1>5. Ends(s, StopVoiceCapture(s, c))
    BY <1>1, <1>2, StopStreamingOk DEF StopVoiceCapture, SamePlay
  <1>6. Ends(s, StopBidirMic(s, c))
    BY <1>1, <1>2, StopStreamingOk DEF StopBidirMic, SamePlay
  <1> QED  BY <1>3, <1>4, <1>5, <1>6

\* The plays of the host and of a peer begin MEDIA.
LEMMA PlaysBegin ==
  ASSUME NEW s, AppInv(s), NEW c \in Conn, NEW cfg \in Cfg, s.mode = NONE
  PROVE  /\ Begins(s, RpcPlay(s, c, cfg), MEDIA)
         /\ Begins(s, GmcsPlay(s, c), MEDIA)
  <1>1. /\ Ok(s) /\ s.pcfg \in Cfg
        /\ \A g \in Cfg : PlayCfg(s, c, g) \in Cfg
    BY FinalType, ConfigurationTypes DEF AppInv
  <1>2. \A g \in Cfg : Ok(McsPlay(s, c, g)) /\ SameMode(s, McsPlay(s, c, g))
    BY <1>1, McsPlayOk
  <1>3. \A u : \A g \in Cfg : Ok(u) /\ SameMode(s, u) =>
                 Begins(s, SetNextAudioMode(u, MEDIA, g), MEDIA)
    BY NextBegins, SameModeAudio, UnicastFacts, DistinctModes DEF SameMode
  <1>4. Begins(s, RpcPlay(s, c, cfg), MEDIA)
    BY <1>1, <1>2, <1>3 DEF RpcPlay
  <1>5. Begins(s, GmcsPlay(s, c), MEDIA)
    <2> DEFINE g == PlayCfg(s, c, s.pcfg)
               u == McsPlay(s, c, s.pcfg)
               v == [u EXCEPT !.pcfg = g]
    <2>1. Ok(u) /\ SameMode(s, u) /\ g \in Cfg
      BY <1>1, <1>2
    <2>2. GmcsPlay(s, c) = SetNextAudioMode(v, MEDIA, g)
      BY DEF GmcsPlay
    <2> HIDE DEF u, g
    <2>3. Ok(v) /\ SamePlay(u, v)
      BY <2>1, SetCfg
    <2> HIDE DEF v
    <2>4. SameMode(s, v)
      BY <2>1, <2>3 DEF SamePlay, SameMode
    <2> QED  BY <1>3, <2>1, <2>2, <2>3, <2>4
  <1> QED  BY <1>4, <1>5

\* The starts of the voice capture and of the bidirectional stream.
LEMMA StartsBegin ==
  ASSUME NEW s, AppInv(s), NEW c \in Conn, NEW cfg \in Cfg
  PROVE  /\ s.mode = NONE \/ ~StopRefused(s, MIC) =>
              Begins(s, StartVoiceCapture(s, c, cfg), MIC)
         /\ s.mode = NONE \/ ~StopRefused(s, BIDIRMIC) =>
              Begins(s, StartBidirMic(s, c, cfg), BIDIRMIC)
  <1>1. Ok(s)
    BY DEF AppInv
  <1>2. Ok(StopForNext(s, c)) /\ SameMode(s, StopForNext(s, c))
    BY <1>1, StopForNextOk
  <1>3. \A g \in Cfg : /\ Ok(StartStreaming(s, c, g))
                       /\ SameMode(s, StartStreaming(s, c, g))
    BY <1>1, StartStreamingOk DEF SamePlay
  <1>4. /\ MicCfg(s, c, cfg) \in Cfg /\ BidirCfg(s, c, cfg) \in Cfg
        /\ [cfg EXCEPT !.ctx = "GAME"] \in Cfg
    BY ConfigurationTypes, CfgCtxType, ContextFacts
  <1>5. MIC \in UnicastModes /\ BIDIRMIC \in UnicastModes
        /\ MIC # CALL /\ BIDIRMIC # CALL
    BY DEF UnicastModes, MEDIA, MIC, BIDIRMIC, CALL
  <1>6. \A u : \A m \in UnicastModes : \A g \in Cfg :
           /\ Ok(u) /\ SameMode(s, u) /\ m # CALL
           /\ s.mode = NONE \/ ~StopRefused(s, m)
           => Begins(s, SetNextAudioMode(u, m, g), m)
    BY NextBegins, SameModeAudio DEF SameMode
  <1> QED  BY <1>2, <1>3, <1>4, <1>5, <1>6 DEF StartVoiceCapture, StartBidirMic

\* An incoming call takes the call slot, and begins CALL.
LEMMA RingBegins ==
  ASSUME NEW s, AppInv(s), NEW c \in Conn, NEW cfg \in Cfg,
         s.mode = NONE \/ ~StopRefused(s, CALL)
  PROVE  Begins(s, GenerateCall(s, c, cfg), CALL)
  <1>1. \A u : Ok(u) => /\ Ok(RegisterCall(u)) /\ SameAudio(u, RegisterCall(u))
                        /\ RegisterCall(u).call # "FREE"
    <2> SUFFICES ASSUME NEW u, Ok(u)
                 PROVE  /\ Ok(RegisterCall(u)) /\ SameAudio(u, RegisterCall(u))
                        /\ RegisterCall(u).call # "FREE"
      OBVIOUS
    <2>1. [u EXCEPT !.call = "INCOMING"].call = "INCOMING"
      BY SetCall, StateFacts
    <2> QED  BY <2>1, RegisterCallOk DEF RegisterCall
  <1>2. Ok(s)
    BY DEF AppInv
  <1>3. \A u : \A g \in Cfg : Ok(u) /\ SameAudio(s, u) /\ u.call # "FREE" =>
                 Begins(s, SetNextAudioMode(u, CALL, g), CALL)
    BY NextBegins, UnicastFacts
  <1>4. CASE s.mode = NONE
    <2> DEFINE r == RegisterCall(s)
               u == IncomingCall(r, c, cfg)
    <2>1. Ok(r) /\ SameAudio(s, r) /\ r.call # "FREE"
      BY <1>1, <1>2
    <2>2. GenerateCall(s, c, cfg) =
            SetNextAudioMode(u, CALL, IncomingCfg(s, c, cfg))
      BY <1>4 DEF GenerateCall
    <2> HIDE DEF r
    <2>3. Ok(u) /\ SamePlay(r, u)
      BY <2>1, IncomingCallOk
    <2> HIDE DEF u
    <2>4. SameAudio(s, u) /\ u.call # "FREE"
      BY <2>1, <2>3 DEF SamePlay, SameMode, SameAudio
    <2> QED  BY <1>3, <2>2, <2>3, <2>4, ConfigurationTypes
  <1>5. CASE s.mode # NONE
    <2> DEFINE r == StopForNext(s, c)
               u == RegisterCall(r)
    <2>1. Ok(r) /\ SameMode(s, r)
      BY <1>2, StopForNextOk
    <2>2. GenerateCall(s, c, cfg) = SetNextAudioMode(u, CALL, cfg)
      BY <1>5 DEF GenerateCall
    <2> HIDE DEF r
    <2>3. Ok(u) /\ SameAudio(r, u) /\ u.call # "FREE"
      BY <1>1, <2>1
    <2> HIDE DEF u
    <2>4. SameAudio(s, u)
      BY <2>1, <2>3 DEF SameMode, SameAudio
    <2> QED  BY <1>3, <2>2, <2>3, <2>4
  <1> QED  BY <1>4, <1>5

\* The end of a call, by whomever.
LEMMA TerminateHangsUp ==
  ASSUME NEW s, AppInv(s), NEW c \in Conn, s.call # "FREE"
  PROVE  HangsUp(s, TerminateCall(s, c))
  <1> DEFINE r == StopStreaming(s, c)
             q == [r EXCEPT !.call = "FREE"]
             t == SetNextAudioMode(q, NONE, ZeroCfg)
             n == [t EXCEPT !.mode = NONE]
             p == ResumePaused(n, c)
             u == IF s.ccs # "INBAND_RINGTONE" \/ RingtoneSupported(c) THEN t
                  ELSE IF t.paused = NONE THEN n ELSE p
             w == [u EXCEPT !.ccs = "IDLE"]
  <1>1. TerminateCall(s, c) = w
    BY DEF TerminateCall
  <1>2. Ok(r) /\ SamePlay(s, r)
    BY StopStreamingOk DEF AppInv
  <1> HIDE DEF r
  <1>3. Ok(q) /\ q.call = "FREE" /\ SameAudio(s, q)
    BY <1>2, SetCall, StateFacts DEF SamePlay, SameMode, SameAudio
  <1> HIDE DEF q
  <1>4. /\ Ok(t) /\ t.mode = IN_TRANSIT /\ t.final = NONE /\ t.paused = s.paused
        /\ t.call = "FREE"
    BY <1>3, SetNextOk, ModeNames, ZeroCfgType DEF SameAudio
  <1> HIDE DEF t
  <1>5. /\ Ok(n) /\ n.mode = NONE /\ n.final = NONE /\ n.paused = s.paused
        /\ n.call = "FREE"
    BY <1>4, SetMode, ModeFacts
  <1> HIDE DEF n
  <1>6. /\ Ok(p) /\ p.mode = IN_TRANSIT /\ p.final = s.paused
        /\ p.paused = NONE /\ p.call = "FREE"
    BY <1>5, ResumePausedOk DEF AppInv
  <1> HIDE DEF p
  <1>7. /\ Ok(u) /\ u.call = "FREE"
        /\ \/ u.mode = IN_TRANSIT /\ u.final = NONE /\ u.paused = s.paused
           \/ /\ s.paused = NONE /\ u.mode = NONE /\ u.final = NONE
              /\ u.paused = s.paused
           \/ Resumes(s, u)
    BY <1>4, <1>5, <1>6 DEF Resumes
  <1> HIDE DEF u
  <1>8. SamePlay(u, w)
    BY <1>7, SetCcs, StateFacts
  <1> HIDE DEF w
  <1> QED  BY <1>1, <1>7, <1>8 DEF HangsUp, Resumes, SamePlay, SameMode

\* A broadcast starts from NONE and ends in NONE.
LEMMA BroadcastSteps ==
  ASSUME NEW s, AppInv(s)
  PROVE  /\ LET t == StartBroadcast(s)
            IN  s.mode = NONE =>
                  /\ t.mode = BROADCAST /\ t.final = BROADCAST
                  /\ t.paused = s.paused /\ t.call = s.call
         /\ Abandons(s, StopBroadcast(s))
  <1> DEFINE t == SetNextAudioMode(s, BROADCAST, ZeroCfg)
             u == [t EXCEPT !.mode = BROADCAST, !.big = TRUE]
             v == SetNextAudioMode(s, NONE, ZeroCfg)
             w == [v EXCEPT !.mode = NONE, !.big = FALSE]
  <1>1. StartBroadcast(s) = u /\ StopBroadcast(s) = w
    BY DEF StartBroadcast, StopBroadcast
  <1>s. Ok(s) /\ BROADCAST \in FinalModes /\ NONE \in FinalModes
    BY ModeNames DEF AppInv
  <1>a. /\ Ok(t) /\ t.final = BROADCAST /\ t.call = s.call
        /\ s.mode = NONE => t.paused = s.paused
    BY <1>s, SetNextOk, ZeroCfgType
  <1>b. Ok(v) /\ v.final = NONE /\ v.paused = s.paused /\ v.call = s.call
    BY <1>s, SetNextOk, ZeroCfgType
  <1> HIDE DEF t, v
  <1>2. /\ t \in App /\ t.final = BROADCAST /\ t.call = s.call
        /\ s.mode = NONE => t.paused = s.paused
    BY <1>a DEF Ok
  <1>3. v \in App /\ v.final = NONE /\ v.paused = s.paused /\ v.call = s.call
    BY <1>b DEF Ok
  <1>4. /\ u.mode = BROADCAST /\ u.final = t.final /\ u.paused = t.paused
        /\ u.call = t.call
    BY <1>2 DEF App
  <1>5. /\ w.mode = NONE /\ w.final = v.final /\ w.paused = v.paused
        /\ w.call = v.call
    BY <1>3 DEF App
  <1> HIDE DEF u, w
  <1> QED  BY <1>1, <1>2, <1>3, <1>4, <1>5 DEF Abandons

\* The end of a release completes the transition, or returns to what was
\* paused, or starts what comes next in the same transition.
LEMMA ReleasedSteps ==
  ASSUME NEW s, AppInv(s), s.mode = IN_TRANSIT, NEW c \in Conn
  PROVE  Notified(s, Released(s, c))
  <1> DEFINE t == [s EXCEPT !.list = EmptyList, !.releasing = FALSE]
  <1>1. /\ t \in App /\ t.list = EmptyList /\ t.out = s.out
        /\ t.cfg = s.cfg /\ SamePlay(s, t)
    BY EmptyListType DEF AppInv, Ok, App, SamePlay, SameMode
  <1>2. Ok(t)
    BY <1>1 DEF AppInv, Ok, Listed, EmptyList, SamePlay, SameMode
  <1> HIDE DEF t
  <1>3. CASE t.paused = NONE
    <2>1. Released(s, c) = [t EXCEPT !.mode = t.final]
      BY <1>3 DEF Released, t
    <2>2. t.final \in Modes
      BY <1>2, FinalType, ModeFacts
    <2>3. Completes(s, [t EXCEPT !.mode = t.final])
      BY <1>1, <1>2, <2>2, SetMode DEF Completes, SamePlay, SameMode
    <2> QED  BY <2>1, <2>3 DEF Notified
  <1>4. CASE t.paused # NONE /\ t.final # NONE
    <2> DEFINE r   == ResumeStreaming(t, c, t.final, t.cfg)
               cfg == ResumeCfg(t, c, t.final, t.cfg)
               u   == [r EXCEPT !.cfg = cfg]
    <2>1. Released(s, c) = u
      BY <1>4 DEF Released, t
    <2>2. Ok(r) /\ SameMode(t, r)
      BY <1>2, ResumeStreamingOk, FinalType
    <2>3. cfg \in Cfg
      BY <1>2, ConfigurationTypes, FinalType
    <2> HIDE DEF r, cfg
    <2>4. SamePlay(r, u)
      BY <2>2, <2>3, SetCfg
    <2> HIDE DEF u
    <2>5. Still(s, u)
      BY <1>1, <2>2, <2>4 DEF Still, SamePlay, SameMode
    <2> QED  BY <2>1, <2>5 DEF Notified
  <1>5. CASE t.paused # NONE /\ t.final = NONE
    <2>1. Released(s, c) = ResumePaused(t, c)
      BY <1>5 DEF Released, t
    <2>2. Returns(s, ResumePaused(t, c))
      BY <1>1, <1>2, <1>5, ResumePausedOk
      DEF AppInv, SamePlay, SameMode, Returns, Resumes
    <2> QED  BY <2>1, <2>2 DEF Notified
  <1> QED  BY <1>3, <1>4, <1>5

\* lepl_cap_update_audio_mode completes, returns, or leaves the modes.
LEMMA UpdateSteps ==
  ASSUME NEW s, AppInv(s), NEW c \in Conn, NEW st \in AseStates
  PROVE  Notified(s, UpdateAudioMode(s, c, st))
  <1> USE DEF AppInv
  <1>0. Notified(s, s)
    BY DEF Notified, Still
  <1>1. CASE s.mode # IN_TRANSIT
    BY <1>0, <1>1 DEF UpdateAudioMode
  <1>2. CASE s.mode = IN_TRANSIT /\ st \in {IDLE, CODEC_CONFIGURED}
    <2>1. UpdateAudioMode(s, c, st) = IF s.releasing THEN Released(s, c) ELSE s
      BY <1>2 DEF UpdateAudioMode, IDLE, CODEC_CONFIGURED, ENABLING, STREAMING
    <2> QED  BY <1>0, <1>2, <2>1, ReleasedSteps
  <1>3. CASE s.mode = IN_TRANSIT /\ st = ENABLING
    <2> DEFINE t == SetCigParam(s)
               u == [t EXCEPT !.mode = s.final]
    <2>1. UpdateAudioMode(s, c, st) = u
      BY <1>3 DEF UpdateAudioMode, IDLE, CODEC_CONFIGURED, ENABLING, STREAMING
    <2>2. Ok(t) /\ SamePlay(s, t)
      BY SetCigParamOk
    <2> HIDE DEF t
    <2>3. s.final \in Modes
      BY FinalType, ModeFacts
    <2>4. /\ u.mode = s.final /\ u.final = t.final /\ u.paused = t.paused
          /\ u.call = t.call
      BY <2>2, <2>3, SetMode
    <2> HIDE DEF u
    <2>5. Completes(s, u)
      BY <1>3, <2>2, <2>4 DEF Completes, SamePlay, SameMode
    <2> QED  BY <2>1, <2>5 DEF Notified
  <1>4. CASE s.mode = IN_TRANSIT /\ st = STREAMING
    <2> DEFINE m == IF s.ccs = "INBAND_RINGTONE" THEN s.mode ELSE s.final
               u == [s EXCEPT !.list = EmptyList, !.mode = m]
    <2>1. UpdateAudioMode(s, c, st) = u
      BY <1>4 DEF UpdateAudioMode, IDLE, CODEC_CONFIGURED, ENABLING, STREAMING,
                  Ok, App
    <2>2. m = IN_TRANSIT \/ m = s.final
      BY <1>4
    <2> HIDE DEF m
    <2>3. /\ u.mode = m /\ u.final = s.final /\ u.paused = s.paused
          /\ u.call = s.call
      BY DEF Ok, App
    <2> HIDE DEF u
    <2> QED  BY <1>4, <2>1, <2>2, <2>3 DEF Notified, Completes, Still
  <1>5. CASE /\ s.mode = IN_TRANSIT
             /\ st \notin {IDLE, CODEC_CONFIGURED, ENABLING, STREAMING}
    BY <1>0, <1>5 DEF UpdateAudioMode
  <1> QED  BY <1>1, <1>2, <1>3, <1>4, <1>5

\* So does the handler of an ASE notification, of which it is the last call.
LEMMA NotificationSteps ==
  ASSUME NEW s, AppInv(s), NEW c \in s.up, NEW a \in OwnAse(c),
         NEW st \in AseStates
  PROVE  Notified(s, AseNotification(s, c, a, st))
  <1>1. PICK t : /\ Ok(t) /\ SamePlay(s, t)
                 /\ \/ AseNotification(s, c, a, st) = t
                    \/ \E x \in AseStates :
                         AseNotification(s, c, a, st) = UpdateAudioMode(t, c, x)
    BY NotificationLast DEF AppInv
  <1>2. AppInv(t) /\ c \in Conn
    BY <1>1, SameKept, FinalType DEF Kept, AppInv
  <1>3. Notified(s, t)
    BY <1>1 DEF Notified, Still, SamePlay, SameMode
  <1>4. ASSUME NEW x \in AseStates
        PROVE  Notified(s, UpdateAudioMode(t, c, x))
    <2>1. Notified(t, UpdateAudioMode(t, c, x))
      BY <1>2, UpdateSteps
    <2> QED
      BY <1>1, <2>1
      DEF Notified, Still, Completes, Returns, Resumes, SamePlay, SameMode
  <1> QED  BY <1>1, <1>3, <1>4

\* An error response resets the modes, the loss of a link may.
LEMMA ErrorAbandons ==
  ASSUME NEW s, AppInv(s), NEW c \in s.up
  PROVE  Abandons(s, AscsErrorResponse(s, c))
  <1> DEFINE t == CASE s.final = MEDIA -> McsPause(s, c)
                    [] s.final \in {CALL, BIDIRMIC, MIC} -> StopStreaming(s, c)
                    [] OTHER -> s
  <1>1. AscsErrorResponse(s, c) = ResetAudioState(t)
    BY DEF AscsErrorResponse
  <1>2. c \in Conn /\ Ok(s)
    BY FinalType DEF AppInv
  <1>3. Ok(McsPause(s, c)) /\ McsPause(s, c).call = s.call
    BY <1>2, McsPauseOk DEF SameMode
  <1>4. Ok(StopStreaming(s, c)) /\ StopStreaming(s, c).call = s.call
    BY <1>2, StopStreamingOk DEF SamePlay, SameMode
  <1>5. t = McsPause(s, c) \/ t = StopStreaming(s, c) \/ t = s
    BY DEF MEDIA, CALL, BIDIRMIC, MIC
  <1> HIDE DEF t
  <1>6. Ok(t) /\ t.call = s.call
    BY <1>2, <1>3, <1>4, <1>5
  <1> QED  BY <1>1, <1>6, ResetOk DEF Abandons

-----------------------------------------------------------------------------
(* From the steps on states to those of AudioModes                           *)

\* Each of the relations is a step of AudioModes.
LEMMA PromisedStep ==
  ASSUME IInv,
         \/ Still(app, app') \/ Completes(app, app') \/ Returns(app, app')
         \/ \E m \in UnicastModes : Begins(app, app', m)
         \/ Ends(app, app') \/ HangsUp(app, app') \/ Abandons(app, app')
  PROVE  Promise!Next \/ UNCHANGED Promise!vars
  <1>1. CASE Still(app, app')
    BY <1>1 DEF Still, Promise!vars
  <1>2. CASE Completes(app, app')
    BY <1>2 DEF Completes, Promise!Next, Promise!Complete
  <1>3. CASE Returns(app, app')
    BY <1>3 DEF Returns, Resumes, Promise!Next, Promise!Return, Promise!Resume
  <1>4. ASSUME NEW m \in UnicastModes, Begins(app, app', m)
        PROVE  Promise!Next
    <2>1. Promise!Begin(m)
      BY <1>4 DEF Begins, Promise!Begin
    <2> QED  BY <2>1 DEF Promise!Next
  <1>5. CASE Ends(app, app')
    BY <1>5 DEF Ends, Promise!Next, Promise!End
  <1>6. CASE HangsUp(app, app')
    BY <1>6 DEF HangsUp, Resumes, Promise!Next, Promise!HangUp, Promise!Resume
  <1>7. CASE Abandons(app, app')
    BY <1>7 DEF Abandons, Promise!Next, Promise!Abandon
  <1> QED  BY <1>1, <1>2, <1>3, <1>4, <1>5, <1>6, <1>7

\* Every command is a step of AudioModes.
LEMMA CommandsPromised ==
  ASSUME IInv, Commands
  PROVE  Promise!Next \/ UNCHANGED Promise!vars
  <1>1. AppInv(app) /\ Ok(app) /\ app.up \subseteq Conn
    BY FinalType DEF IInv, AppInv
  <1>2. ASSUME NEW c \in app.up, NEW two \in Stereo,
               Play(c, two) \/ StartBidir(c, two) \/ Ring(c, two)
        PROVE  \E m \in UnicastModes : Begins(app, app', m)
    <2>1. c \in Conn /\ HostCfg(two) \in Cfg
      BY <1>1, HostCfgType
    <2>2. CASE Play(c, two)
      BY <1>1, <2>1, <2>2, PlaysBegin, UnicastFacts DEF Play, Command, Given
    <2>3. CASE StartBidir(c, two)
      BY <1>1, <2>1, <2>3, StartsBegin, UnicastFacts DEF StartBidir, Command, Given
    <2>4. CASE Ring(c, two)
      BY <1>1, <2>1, <2>4, RingBegins, UnicastFacts DEF Ring, Command, Given
    <2> QED  BY <1>2, <2>2, <2>3, <2>4
  <1>3. ASSUME NEW c \in app.up,
               \/ Pause(c) \/ StopMic(c) \/ StopBidir(c) \/ StopToDisconnect(c)
               \/ PeerPause(c)
        PROVE  Ends(app, app')
    <2>1. app.final \in UnicastModes
      <3>1. CASE Pause(c) \/ StopMic(c) \/ StopBidir(c)
        BY <1>1, <3>1, TheFinal, UnicastFacts DEF Pause, StopMic, StopBidir
      <3>2. CASE StopToDisconnect(c) \/ PeerPause(c)
        <4>1. LeftMode(app) = app.final
          BY <1>1 DEF AppInv, LeftMode
        <4> QED
          BY <3>2, <4>1, UnicastFacts
          DEF StopToDisconnect, PeerPause, StopRefused, UnicastModes
      <3> QED  BY <1>3, <3>1, <3>2
    <2> QED
      BY <1>1, <1>3, <2>1, StopsEnd
      DEF Pause, StopMic, StopBidir, StopToDisconnect, PeerPause, Command, Given
  <1>4. ASSUME NEW c \in app.up, StartMic(c)
        PROVE  Begins(app, app', MIC)
    BY <1>1, <1>4, StartsBegin, ZeroCfgType DEF StartMic, Command, Given
  <1>5. ASSUME NEW c \in app.up, EndCall(c) \/ PeerTerminate(c)
        PROVE  HangsUp(app, app')
    BY <1>1, <1>5, TerminateHangsUp DEF EndCall, PeerTerminate, Command, Given
  <1>6. ASSUME NEW c \in app.up, PeerPlay(c)
        PROVE  Begins(app, app', MEDIA)
    BY <1>1, <1>6, PlaysBegin, ZeroCfgType DEF PeerPlay, Command, Given
  <1>7. ASSUME NEW c \in app.up, PeerAccept(c)
        PROVE  Still(app, app')
    <2> DEFINE t   == [app EXCEPT !.call = "ACTIVE"]
               cfg == Counted(app, c, [app.cfg EXCEPT !.ctx = "CONVERSATIONAL"])
               u   == [t EXCEPT !.ccs = "INBAND_RINGTONE_CONVO"]
               v   == [t EXCEPT !.ccs = "CONVO"]
               w   == [v EXCEPT !.cfg = cfg]
    <2>1. /\ app.call # "FREE"
          /\ app' = u \/ app' = StartStreaming(w, c, cfg)
      <3>1. w = [t EXCEPT !.ccs = "CONVO", !.cfg = cfg]
        BY <1>1 DEF Ok, App
      <3> QED  BY <1>7, <3>1 DEF PeerAccept, Given, AcceptCall
    <2>2. cfg \in Cfg
      BY <1>1, FinalType, CountedType, CfgCtxType, ContextFacts
    <2>3. /\ Ok(t) /\ t.mode = app.mode /\ t.final = app.final
          /\ t.paused = app.paused /\ t.call # "FREE"
      BY <1>1, SetCall, StateFacts
    <2> HIDE DEF t, cfg
    <2>4. SamePlay(t, u) /\ Ok(v) /\ SamePlay(t, v)
      BY <2>3, SetCcs, StateFacts
    <2> HIDE DEF u, v
    <2>5. Ok(w) /\ SamePlay(v, w)
      BY <2>2, <2>4, SetCfg
    <2> HIDE DEF w
    <2>6. SamePlay(w, StartStreaming(w, c, cfg))
      BY <1>1, <2>2, <2>5, StartStreamingOk
    <2> QED  BY <2>1, <2>3, <2>4, <2>5, <2>6 DEF Still, SamePlay, SameMode
  <1>8. ASSUME PeerOriginate
        PROVE  Promise!Next
    <2>1. /\ app.call = "FREE" /\ app'.call = "DIALING"
          /\ app'.mode = app.mode /\ app'.final = app.final
          /\ app'.paused = app.paused
      BY <1>1, <1>8, SetCall, StateFacts DEF PeerOriginate, Command, Given, PlaceCall
    <2> QED  BY <2>1 DEF Promise!Next, Promise!Dial
  <1>9. ASSUME BroadcastStart
        PROVE  Promise!Next
    <2>1. /\ app.mode = NONE /\ app'.mode = BROADCAST /\ app'.final = BROADCAST
          /\ app'.paused = app.paused /\ app'.call = app.call
      BY <1>1, <1>9, BroadcastSteps DEF BroadcastStart, Command, Given
    <2> QED  BY <2>1 DEF Promise!Next, Promise!OnAir
  <1>10. ASSUME BroadcastStop
         PROVE  Abandons(app, app')
    BY <1>1, <1>10, BroadcastSteps DEF BroadcastStop, Command, Given
  <1>11. ASSUME \/ PeerHold \/ PeerRetrieve \/ PeerJoin
                \/ RemoteHold \/ RemoteRetrieve
         PROVE  Still(app, app')
    <2>1. app.call # "FREE"
      BY <1>11 DEF PeerHold, PeerRetrieve, PeerJoin, RemoteHold, RemoteRetrieve
    <2>2. app.call \in CallStates
      BY <1>1 DEF Ok, App
    <2>3. PICK x \in CallStates \ {"FREE"} : app' = [app EXCEPT !.call = x]
      BY <1>1, <1>11, <2>1, <2>2, StateFacts
      DEF PeerHold, PeerRetrieve, PeerJoin, RemoteHold, RemoteRetrieve, Command, Given,
          HoldCall, RetrieveCall, JoinCall, RemotelyHoldCall,
          RetrieveRemotelyHoldCall
    <2> QED  BY <1>1, <2>1, <2>3, SetCall DEF Still
  <1> QED
    BY <1>2, <1>3, <1>4, <1>5, <1>6, <1>7, <1>8, <1>9, <1>10, <1>11, PromisedStep,
       UnicastFacts
    DEF Commands

\* So is every step of the servers, bearers, events and links.
LEMMA EventsPromised ==
  ASSUME IInv, Progress \/ Faults
  PROVE  Promise!Next \/ UNCHANGED Promise!vars
  <1>1. AppInv(app) /\ EnvInv /\ Ok(app)
    BY DEF IInv, AppInv
  <1>2. Still(app, app)
    BY DEF Still
  <1>3. ASSUME NEW c \in Conn, ServerWrite(c) \/ ServerReject(c)
        PROVE  Still(app, app')
    <2>1. app' = [app EXCEPT !.out[c] = Tail(@)]
      BY <1>3 DEF ServerWrite, ServerReject
    <2> DEFINE o == [app.out EXCEPT ![c] = Tail(@)]
    <2>2. app' = [app EXCEPT !.out = o]
      BY <1>1, <2>1 DEF Ok, App
    <2> HIDE DEF o
    <2> QED  BY <1>1, <2>2 DEF Ok, App, Still
  <1>4. ASSUME NEW a \in Ase,
               ServerStream(a) \/ ServerReleased(a) \/ ServerDisable(a)
        PROVE  Still(app, app')
    BY <1>2, <1>4 DEF ServerStream, ServerReleased, ServerDisable
  <1>5. ASSUME NEW c \in Conn, Deliver(c)
        PROVE  Notified(app, app') \/ Abandons(app, app')
    <2> DEFINE n == Head(nq[c])
    <2>1. /\ nq[c] # << >>
          /\ app' = IF n.k = "error" THEN AscsErrorResponse(app, c)
                    ELSE AseNotification(app, c, n.ase, n.st)
      BY <1>5 DEF Deliver
    <2>2. c \in app.up /\ nq[c] \in Seq(OwnNote(c))
      BY <1>1, <2>1 DEF EnvInv
    <2>3. n \in OwnNote(c)
      BY <2>1, <2>2
    <2> HIDE DEF n
    <2>4. n.ase \in OwnAse(c) /\ n.st \in AseStates
      BY <2>3 DEF OwnNote, Notification, OwnAse
    <2> QED  BY <1>1, <2>1, <2>2, <2>4, ErrorAbandons, NotificationSteps
  <1>6. ASSUME CigCompleteEvt
        PROVE  Still(app, app')
    <2>1. SamePlay(app, app')
      BY <1>1, <1>6, CigCompleteOk DEF CigCompleteEvt
    <2> QED  BY <2>1 DEF Still, SamePlay, SameMode
  <1>7. ASSUME NEW c \in Conn, LinkLoss(c)
        PROVE  Still(app, app') \/ Abandons(app, app')
    BY <1>1, <1>7, HandleDisconnectionOk DEF LinkLoss, Still, Abandons
  <1>8. ASSUME NEW c \in Conn, Reconnect(c)
        PROVE  Still(app, app')
    BY <1>1, <1>8, MemberReconnectionOk DEF Reconnect, Still
  <1>9. ASSUME NEW i \in Cises, CisDisconnectedEvt(i)
        PROVE  Still(app, app')
    <2>1. SamePlay(app, app')
      BY <1>1, <1>9, DropCisOk DEF CisDisconnectedEvt
    <2> QED  BY <2>1 DEF Still, SamePlay, SameMode
  <1>10. ASSUME NEW c \in Conn, PathFails(c)
         PROVE  Still(app, app')
    <2> DEFINE n == Head(nq[c])
    <2>1. nq[c] # << >> /\ app' = PathFailed(app, n.ase, n.st)
      BY <1>10 DEF PathFails
    <2>2. nq[c] \in Seq(OwnNote(c))
      BY <1>1 DEF EnvInv
    <2>3. n \in OwnNote(c)
      BY <2>1, <2>2
    <2> HIDE DEF n
    <2>4. n.ase \in Ase /\ n.st \in AseStates
      BY <2>3 DEF OwnNote, Notification
    <2>5. SamePlay(app, app')
      BY <1>1, <2>1, <2>4, PathFailedOk
    <2> QED  BY <2>5 DEF Still, SamePlay, SameMode
  <1> QED
    BY <1>3, <1>4, <1>5, <1>6, <1>7, <1>8, <1>9, <1>10, PromisedStep
    DEF Progress, Faults, Notified

\* The player implements AudioModes: its modes keep the promise in every
\* behaviour, for any devices, commands, faults and manners of the host.
THEOREM ModesImplementPromise == Spec => ImplementsModes
  <1>1. Init => Promise!Init
    BY DEF Init, InitApp, Promise!Init
  <1>2. IInv /\ [Next]_vars => [Promise!Next]_Promise!vars
    <2> SUFFICES ASSUME IInv, [Next]_vars
                 PROVE  Promise!Next \/ UNCHANGED Promise!vars
      OBVIOUS
    <2>1. CASE UNCHANGED vars
      BY <2>1 DEF vars, Promise!vars
    <2> QED  BY <2>1, CommandsPromised, EventsPromised DEF Next
  <1> QED  BY Invariance, <1>1, <1>2, PTL DEF Spec, ImplementsModes, Promise!Spec

-----------------------------------------------------------------------------
(* The phases of a host that waits, on links without faults                  *)

\* The host waits until the streams have settled, starts no mode and no call
\* that is on, and holds only calls that were answered; no outgoing calls and
\* no disconnections; no accept of a call whose ringtone is streamed, which
\* drops its CISs; no faults.
Polite ==
    /\ {"wait", "once", "answered"} \subseteq Manners
    /\ MaxFaults = 0
    /\ Cmds \cap {"disconnect", "originate"} = {}
    /\ Inband => "accept" \notin Cmds

\* Either all servers keep the codec configuration of a released ASE or none.
Alike == Devices \subseteq Caching \/ Devices \cap Caching = {}

\* Nothing is under way for ASE a, or one write, or one notification.
Hushed(a) == None(app.out[Owner[a]], a) /\ None(nq[Owner[a]], a)

Writing(op, a) ==
    One(app.out[Owner[a]], a, Msg(op, a)) /\ None(nq[Owner[a]], a)

Telling(st, a) ==
    None(app.out[Owner[a]], a) /\ One(nq[Owner[a]], a, StateOf(a, st))

\* The stages of an ASE: it is not in use,
Resting(a) ==
    Hushed(a) /\ srv[a] = app.ast[a] /\ srv[a] <= CODEC_CONFIGURED

\* is being configured and enabled,
Configuring(a) ==
    /\ app.ast[a] <= QOS_CONFIGURED
    /\ \/ Writing("CONFIG_CODEC", a) /\ srv[a] <= CODEC_CONFIGURED
       \/ Telling(CODEC_CONFIGURED, a) /\ srv[a] = CODEC_CONFIGURED
       \/ Writing("CONFIG_QOS", a) /\ srv[a] = CODEC_CONFIGURED
       \/ Telling(QOS_CONFIGURED, a) /\ srv[a] = QOS_CONFIGURED
       \/ Writing("ENABLE", a) /\ srv[a] = QOS_CONFIGURED
       \/ Telling(ENABLING, a) /\ srv[a] = ENABLING

\* waits for its CIS,
Ready(a) == Hushed(a) /\ srv[a] = ENABLING /\ app.ast[a] = ENABLING

\* streams,
Flowing(a) ==
    /\ srv[a] = STREAMING
    /\ \/ Telling(STREAMING, a) /\ app.ast[a] = ENABLING
       \/ Hushed(a) /\ app.ast[a] = STREAMING

\* is being released,
LastState(a) == IF Owner[a] \in Caching THEN CODEC_CONFIGURED ELSE IDLE

Going(a) ==
    \/ /\ app.ast[a] = STREAMING
       /\ \/ Writing("RELEASE", a) /\ srv[a] = STREAMING
          \/ Telling(RELEASING, a) /\ srv[a] = RELEASING
          \/ /\ None(app.out[Owner[a]], a) /\ srv[a] = LastState(a)
             /\ Two(nq[Owner[a]], a, StateOf(a, RELEASING),
                    StateOf(a, LastState(a)))
    \/ /\ app.ast[a] = RELEASING
       /\ \/ Hushed(a) /\ srv[a] = RELEASING
          \/ Telling(LastState(a), a) /\ srv[a] = LastState(a)

\* was released.
Gone(a) == Hushed(a) /\ srv[a] = LastState(a) /\ app.ast[a] = LastState(a)

\* No streams are in use.
Quiet(s) == s.list = EmptyList /\ ~s.releasing /\ ~s.cigEvt /\ s.iso = {}

\* The listed ASEs are those of the mode that is or becomes current.
On(s) ==
    /\ Suits(s, s.cfg, s.final) /\ ~s.releasing
    /\ s.final \in UnicastModes
    /\ s.call = "INCOMING" => Inband /\ s.ccs = "INBAND_RINGTONE"

\* The player rests, a call rings without a stream, a mode is being started.
Rests(s) == Quiet(s) /\ s.mode \in {NONE, BROADCAST} /\ s.paused = NONE

Alerts(s) ==
    /\ Quiet(s) /\ s.mode = IN_TRANSIT /\ s.final = CALL
    /\ s.call = "INCOMING" /\ s.ccs = "INBAND_RINGTONE" /\ ~Inband

Begun(s) == On(s) /\ s.mode = IN_TRANSIT /\ ~s.cigEvt /\ s.iso = {}

\* The phases: nothing streams, with or without a call,
Rest  == Rests(app) /\ \A a \in Ase : Resting(a)

Rings == Alerts(app) /\ \A a \in Ase : Resting(a)

\* the listed ASEs are being enabled,
Starting ==
    /\ Begun(app)
    /\ \A a \in Ase : IF InList(app.list, a) THEN Configuring(a) \/ Ready(a)
                      ELSE Resting(a)
    /\ \E a \in Ase : InList(app.list, a) /\ Configuring(a)

\* they wait for the CIG,
Awaiting ==
    /\ On(app) /\ app.mode = app.final /\ app.cigEvt /\ app.iso = {}
    /\ app.cig = app.cfg.cis
    /\ \A a \in Ase : IF InList(app.list, a) THEN Ready(a) ELSE Resting(a)

\* they have their CISs, and stream or are about to,
RanksIn(list) == {Rank(a) : a \in {b \in Ase : InList(list, b)}}

Running ==
    /\ On(app) /\ app.mode = app.final /\ ~app.cigEvt
    /\ app.iso = RanksIn(app.list)
    /\ \A a \in Ase : IF InList(app.list, a) THEN Ready(a) \/ Flowing(a)
                      ELSE Resting(a)

\* they are being released, and each CIS still belongs to one that is not.
Leaving ==
    /\ app.list # EmptyList /\ app.releasing
    /\ app.mode = IN_TRANSIT /\ ~app.cigEvt
    /\ app.final \in {NONE, MIC, BIDIRMIC, CALL}
    /\ app.final # NONE => app.paused # NONE
    /\ app.call \in {"FREE", "INCOMING"} /\ app.ccs = "IDLE"
    /\ \A i \in app.iso : \E a \in Ase : /\ InList(app.list, a) /\ app.cid[a] = i
                                         /\ app.ast[a] = STREAMING
    /\ \A a \in Ase : IF InList(app.list, a) THEN Going(a) \/ Gone(a)
                      ELSE Resting(a)
    /\ \E a \in Ase : InList(app.list, a) /\ Going(a)

\* What holds in every phase.
Control(s) ==
    /\ s.up = Devices /\ Ranked(s)
    /\ s.call # "FREE" <=> s.final = CALL
    /\ s.call # "DIALING"
    /\ s.call \in {"ACTIVE"} \cup HeldStates =>
         s.ccs \in {"CONVO", "INBAND_RINGTONE_CONVO"}
    /\ s.call = "FREE" => s.ccs = "IDLE"
    /\ s.final # MEDIA => s.media # "PLAYING"
    /\ s.big <=> s.mode = BROADCAST
    /\ s.paused # CALL

Phases ==
    /\ Control(app)
    /\ Rest \/ Rings \/ Starting \/ Awaiting \/ Running \/ Leaving

\* What RanksIn holds.
LEMMA RanksListed ==
  ASSUME NEW list
  PROVE  \A i : i \in RanksIn(list) <=> \E a \in Ase : InList(list, a) /\ Rank(a) = i
  BY DEF RanksIn

\* What has moved for ASE a between two states: nothing.
Unmoved(a) ==
    /\ Same(app.out[Owner[a]], app'.out[Owner[a]], a)
    /\ Same(nq[Owner[a]], nq'[Owner[a]], a)
    /\ srv'[a] = srv[a] /\ app'.ast[a] = app.ast[a]

\* An ASE stays in its stage when nothing moves for it.
LEMMA StageKept ==
  ASSUME NEW a \in Ase, Unmoved(a)
  PROVE  /\ Resting(a) => Resting(a)'
         /\ Configuring(a) => Configuring(a)'
         /\ Ready(a) => Ready(a)'
         /\ Flowing(a) => Flowing(a)'
         /\ Going(a) => Going(a)'
         /\ Gone(a) => Gone(a)'
PROOF
  <1> DEFINE o == app.out[Owner[a]]
             n == nq[Owner[a]]
             p == app'.out[Owner[a]]
             r == nq'[Owner[a]]
  <1>1. Same(o, p, a) /\ Same(n, r, a)
    BY DEF Unmoved
  <1>2. \A op : Msg(op, a).ase = a
    BY DEF Msg
  <1>3. \A st : StateOf(a, st).ase = a
    BY DEF StateOf
  <1>4. Hushed(a) => Hushed(a)'
    BY <1>1 DEF Same, Hushed
  <1>5. \A op : Writing(op, a) => Writing(op, a)'
    BY <1>1, <1>2 DEF Same, Writing
  <1>6. \A st : Telling(st, a) => Telling(st, a)'
    BY <1>1, <1>3 DEF Same, Telling
  <1>7. ASSUME None(o, a), Two(n, a, StateOf(a, RELEASING), StateOf(a, LastState(a)))
        PROVE  None(p, a) /\ Two(r, a, StateOf(a, RELEASING), StateOf(a, LastState(a)))
    BY <1>1, <1>3, <1>7 DEF Same
  <1>8. srv'[a] = srv[a] /\ app'.ast[a] = app.ast[a]
    BY DEF Unmoved
  <1> HIDE DEF o, n, p, r
  <1>9. Resting(a) => Resting(a)'
    BY <1>4, <1>8 DEF Resting
  <1>10. Configuring(a) => Configuring(a)'
    BY <1>5, <1>6, <1>8 DEF Configuring
  <1>11. (Ready(a) => Ready(a)') /\ (Flowing(a) => Flowing(a)')
    BY <1>4, <1>6, <1>8 DEF Ready, Flowing
  <1>12. LastState(a)' = LastState(a)
    BY DEF LastState
  <1>13. (Gone(a) => Gone(a)')
    BY <1>4, <1>8, <1>12 DEF Gone
  <1>14. (Going(a) => Going(a)')
    BY <1>4, <1>5, <1>6, <1>7, <1>8, <1>12 DEF Going, o, n, p, r
  <1> QED
    BY <1>9, <1>10, <1>11, <1>13, <1>14

\* What the queues do for the other ASEs.
LEMMA OthersUnmoved ==
  ASSUME IInv, NEW a \in Ase,
         \A d \in Conn : d # Owner[a] => app'.out[d] = app.out[d] /\ nq'[d] = nq[d],
         \A b \in Ase : b # a => srv'[b] = srv[b] /\ app'.ast[b] = app.ast[b],
         \A b \in Ase : b # a => /\ Same(app.out[Owner[a]], app'.out[Owner[a]], b)
                                 /\ Same(nq[Owner[a]], nq'[Owner[a]], b)
  PROVE  \A b \in Ase : b # a => Unmoved(b)
PROOF
  <1> SUFFICES ASSUME NEW b \in Ase, b # a
               PROVE  Unmoved(b)
    OBVIOUS
  <1>1. Owner[b] \in Conn
    BY DeviceAssumption
  <1>2. CASE Owner[b] = Owner[a]
    BY <1>2 DEF Unmoved
  <1>3. CASE Owner[b] # Owner[a]
    BY <1>1, <1>3, SameQueue DEF Unmoved
  <1> QED  BY <1>2, <1>3

\* The queues hold what belongs to the ASEs of their device.
LEMMA QueueTypes ==
  ASSUME IInv, NEW c \in Conn
  PROVE  /\ app.out[c] \in Seq(OwnMsg(c)) /\ nq[c] \in Seq(OwnNote(c))
         /\ Ok(app) /\ app \in App /\ srv \in [Ase -> AseStates]
         /\ nq \in [Conn -> Seq(Notification)]
  BY DEF IInv, AppInv, Ok, Listed, EnvInv

\* t is s but for the writes, the ASE states and the ISO stack.
SameUse(s, t) ==
    /\ t.mode = s.mode /\ t.final = s.final /\ t.paused = s.paused
    /\ t.cfg = s.cfg /\ t.releasing = s.releasing /\ t.list = s.list
    /\ t.media = s.media /\ t.ccs = s.ccs /\ t.call = s.call /\ t.cid = s.cid
    /\ t.up = s.up /\ t.cigEvt = s.cigEvt /\ t.big = s.big

SameCig(s, t) == t.iso = s.iso /\ t.cig = s.cig

\* A write reaches the server, in a state that allows it.
LEMMA Arrival ==
  ASSUME IInv, NEW c \in Conn, ServerWrite(c), NEW a \in OwnAse(c), NEW op \in CpOps,
         Head(app.out[c]) = Msg(op, a), Writing(op, a), Allowed(op, srv[a])
  PROVE  /\ Telling(Target(op), a)' /\ srv'[a] = Target(op)
         /\ app'.ast = app.ast /\ SameUse(app, app') /\ SameCig(app, app')
         /\ \A b \in Ase : b # a => Unmoved(b)
PROOF
  <1> DEFINE o == [app.out EXCEPT ![c] = Tail(@)]
             st == Target(op)
             n == StateOf(a, st)
             q == app.out[c]
             r == nq[c]
  <1>1. a \in Ase /\ Owner[a] = c
    BY DEF OwnAse
  <1>2. Msg(op, a).op = op /\ Msg(op, a).ase = a
    BY DEF Msg
  <1>3. /\ q # << >> /\ Notify(a, st)
        /\ app' = [app EXCEPT !.out[c] = Tail(@)]
    BY <1>2 DEF ServerWrite
  <1>4. q \in Seq(OwnMsg(c)) /\ r \in Seq(OwnNote(c)) /\ app \in App
    BY QueueTypes
  <1>5. app' = [app EXCEPT !.out = o]
    BY <1>3, <1>4 DEF App
  <1> HIDE DEF o
  <1>6. /\ app'.out = o /\ app'.ast = app.ast /\ SameUse(app, app')
        /\ SameCig(app, app')
    BY <1>4, <1>5 DEF App, SameUse, SameCig
  <1>7. o[c] = Tail(q) /\ \A d \in Conn : d # c => o[d] = app.out[d]
    BY <1>4 DEF o, App, Writes
  <1>8. st \in AseStates
    BY TargetType
  <1> HIDE DEF st
  <1>9. n \in OwnNote(c) /\ n.ase = a
    BY <1>1, <1>8 DEF StateOf, OwnNote, Notification
  <1>10. /\ srv'[a] = st /\ \A b \in Ase : b # a => srv'[b] = srv[b]
         /\ nq'[c] = Append(r, n) /\ \A d \in Conn : d # c => nq'[d] = nq[d]
    BY <1>1, <1>3, <1>4, QueueTypes DEF Notify
  <1> HIDE DEF n, q, r
  <1>11. None(Tail(q), a)
    <2>1. Head(q).ase = a
      BY <1>2 DEF q
    <2>2. \A e : One(q, a, e) => Head(q) = e /\ None(Tail(q), a)
      BY <1>3, <1>4, <2>1, HeadOwn
    <2> QED  BY <1>1, <2>2 DEF Writing, q
  <1>12. One(Append(r, n), a, n)
    <2>1. None(r, a) => One(Append(r, n), a, n)
      BY <1>4, <1>9, AppendOwn
    <2> QED  BY <1>1, <2>1 DEF Writing, r
  <1>13. \A b \in Ase : b # a => Same(q, Tail(q), b) /\ Same(r, Append(r, n), b)
    <2> SUFFICES ASSUME NEW b \in Ase, b # a
                 PROVE  Same(q, Tail(q), b) /\ Same(r, Append(r, n), b)
      OBVIOUS
    <2>1. Head(q).ase # b
      BY <1>2 DEF q
    <2>2. Same(q, Tail(q), b)
      BY <1>3, <1>4, <2>1, TailOther
    <2>3. Same(r, Append(r, n), b)
      BY <1>4, <1>9, AppendOther
    <2> QED  BY <2>2, <2>3
  <1>14. \A b \in Ase : b # a => Unmoved(b)
    <2>1. \A d \in Conn : d # Owner[a] => app'.out[d] = app.out[d] /\ nq'[d] = nq[d]
      BY <1>1, <1>6, <1>7, <1>10
    <2>2. \A b \in Ase : b # a => srv'[b] = srv[b] /\ app'.ast[b] = app.ast[b]
      BY <1>6, <1>10
    <2>3. \A b \in Ase : b # a => /\ Same(app.out[Owner[a]], app'.out[Owner[a]], b)
                                  /\ Same(nq[Owner[a]], nq'[Owner[a]], b)
      BY <1>1, <1>6, <1>7, <1>10, <1>13 DEF q, r
    <2> QED  BY <1>1, <2>1, <2>2, <2>3, OthersUnmoved
  <1>15. Telling(st, a)'
    BY <1>1, <1>6, <1>7, <1>10, <1>11, <1>12 DEF Telling, n
  <1> QED  BY <1>6, <1>10, <1>14, <1>15 DEF st

\* A server notifies its client of a state that it has taken by itself.
LEMMA Tells ==
  ASSUME IInv, NEW a \in Ase, NEW st \in AseStates, Notify(a, st), app' = app
  PROVE  /\ srv'[a] = st
         /\ Hushed(a) => Telling(st, a)'
         /\ \A x : Telling(x, a) =>
              /\ None(app'.out[Owner[a]], a)
              /\ Two(nq'[Owner[a]], a, StateOf(a, x), StateOf(a, st))
         /\ \A b \in Ase : b # a => Unmoved(b)
PROOF
  <1> DEFINE c == Owner[a]
             n == StateOf(a, st)
             r == nq[c]
  <1>1. c \in Conn
    BY DeviceAssumption
  <1>2. r \in Seq(OwnNote(c))
    BY <1>1, QueueTypes
  <1>3. n \in OwnNote(c) /\ n.ase = a
    BY <1>1 DEF StateOf, OwnNote, Notification
  <1>4. /\ srv'[a] = st /\ \A b \in Ase : b # a => srv'[b] = srv[b]
        /\ nq'[c] = Append(r, n) /\ \A d \in Conn : d # c => nq'[d] = nq[d]
    BY <1>1, QueueTypes DEF Notify
  <1> HIDE DEF n
  <1>5. /\ None(r, a) => One(Append(r, n), a, n)
        /\ \A d : One(r, a, d) => Two(Append(r, n), a, d, n)
    BY <1>2, <1>3, AppendOwn
  <1>6. \A b \in Ase : b # a => Same(r, Append(r, n), b)
    BY <1>2, <1>3, AppendOther
  <1>7. Hushed(a) => Telling(st, a)'
    BY <1>4, <1>5 DEF Hushed, Telling, n
  <1>8. ASSUME NEW x, Telling(x, a)
        PROVE  /\ None(app'.out[Owner[a]], a)
               /\ Two(nq'[Owner[a]], a, StateOf(a, x), StateOf(a, st))
    BY <1>4, <1>5, <1>8 DEF Telling, n
  <1>9. \A b \in Ase : b # a => Unmoved(b)
    BY <1>4, <1>6, SameQueue, OthersUnmoved
  <1> QED  BY <1>4, <1>7, <1>8, <1>9

\* A notification arrives: what is left of it on the bearer.
LEMMA Delivery ==
  ASSUME IInv, NEW c \in Conn, Deliver(c), NEW a, Head(nq[c]).ase = a
  PROVE  /\ a \in OwnAse(c) /\ c \in app.up /\ nq[c] # << >> /\ ~None(nq[c], a)
         /\ srv' = srv /\ \A d \in Conn : d # c => nq'[d] = nq[d]
         /\ \A st : One(nq[c], a, StateOf(a, st)) =>
              app' = AseNotification(app, c, a, st) /\ None(nq'[c], a)
         /\ \A st, x : Two(nq[c], a, StateOf(a, st), StateOf(a, x)) =>
              /\ app' = AseNotification(app, c, a, st)
              /\ One(nq'[c], a, StateOf(a, x))
         /\ \A b \in Ase : b # a => Same(nq[c], nq'[c], b)
PROOF
  <1> DEFINE r == nq[c]
             n == Head(r)
  <1>1. /\ r # << >> /\ nq' = [nq EXCEPT ![c] = Tail(@)] /\ srv' = srv
        /\ app' = IF n.k = "error" THEN AscsErrorResponse(app, c)
                  ELSE AseNotification(app, c, n.ase, n.st)
    BY DEF Deliver
  <1>2. r \in Seq(OwnNote(c)) /\ c \in app.up
    BY <1>1, QueueTypes DEF IInv, EnvInv
  <1>3. n \in OwnNote(c) /\ n.ase = a
    BY <1>1, <1>2
  <1>4. a \in OwnAse(c)
    BY <1>3 DEF OwnNote, Notification, OwnAse
  <1>5. nq'[c] = Tail(r) /\ \A d \in Conn : d # c => nq'[d] = nq[d]
    BY <1>1, QueueTypes
  <1> HIDE DEF r
  <1>6. /\ ~None(r, a)
        /\ \A e : One(r, a, e) => Head(r) = e /\ None(Tail(r), a)
        /\ \A e, f : Two(r, a, e, f) /\ f.ase = a =>
             Head(r) = e /\ One(Tail(r), a, f)
    BY <1>1, <1>2, <1>3, HeadOwn
  <1>7. \A st : StateOf(a, st).ase = a /\ StateOf(a, st).st = st
                /\ StateOf(a, st).k # "error"
    BY DEF StateOf
  <1>8. ASSUME NEW st, One(r, a, StateOf(a, st))
        PROVE  app' = AseNotification(app, c, a, st) /\ None(nq'[c], a)
    <2>1. n = StateOf(a, st) /\ None(Tail(r), a)
      BY <1>6, <1>8
    <2> QED  BY <1>1, <1>5, <1>7, <2>1
  <1>9. ASSUME NEW st, NEW x, Two(r, a, StateOf(a, st), StateOf(a, x))
        PROVE  /\ app' = AseNotification(app, c, a, st)
               /\ One(nq'[c], a, StateOf(a, x))
    <2>1. n = StateOf(a, st) /\ One(Tail(r), a, StateOf(a, x))
      BY <1>6, <1>7, <1>9
    <2> QED  BY <1>1, <1>5, <1>7, <2>1
  <1>10. ASSUME NEW b \in Ase, b # a
         PROVE  Same(r, nq'[c], b)
    BY <1>1, <1>2, <1>3, <1>5, <1>10, TailOther
  <1> QED  BY <1>1, <1>2, <1>4, <1>5, <1>6, <1>8, <1>9, <1>10 DEF r

-----------------------------------------------------------------------------
(* What a notification does in each phase                                    *)

\* The state that all notifications start from.
LEMMA NotedState ==
  ASSUME NEW s, Ok(s), NEW a \in Ase, NEW st \in AseStates
  PROVE  LET t == [s EXCEPT !.ast[a] = st]
         IN  /\ Ok(t) /\ t.ast = [s.ast EXCEPT ![a] = st] /\ t.ast[a] = st
             /\ t.out = s.out /\ SameUse(s, t) /\ SameCig(s, t)
             /\ t.pcfg = s.pcfg
PROOF
  <1> DEFINE ast == [s.ast EXCEPT ![a] = st]
             t   == [s EXCEPT !.ast = ast]
  <1>1. [s EXCEPT !.ast[a] = st] = t
    BY DEF Ok, App
  <1>2. ast \in AseState /\ ast[a] = st
    BY DEF Ok, App, AseState
  <1> HIDE DEF ast
  <1>3. Ok(t) /\ t.ast = ast /\ t.out = s.out /\ SameUse(s, t) /\ SameCig(s, t)
        /\ t.pcfg = s.pcfg
    BY <1>2 DEF Ok, App, Listed, SameUse, SameCig
  <1> QED  BY <1>1, <1>2, <1>3 DEF ast

\* The ASE states are different numbers.
LEMMA AseStateFacts ==
  /\ {IDLE, CODEC_CONFIGURED, QOS_CONFIGURED, ENABLING, STREAMING, DISABLING,
      RELEASING} \subseteq AseStates
  /\ IDLE # CODEC_CONFIGURED /\ IDLE # QOS_CONFIGURED /\ IDLE # ENABLING
  /\ IDLE # STREAMING /\ IDLE # DISABLING /\ IDLE # RELEASING
  /\ CODEC_CONFIGURED # QOS_CONFIGURED /\ CODEC_CONFIGURED # ENABLING
  /\ CODEC_CONFIGURED # STREAMING /\ CODEC_CONFIGURED # DISABLING
  /\ CODEC_CONFIGURED # RELEASING /\ QOS_CONFIGURED # ENABLING
  /\ QOS_CONFIGURED # STREAMING /\ QOS_CONFIGURED # DISABLING
  /\ QOS_CONFIGURED # RELEASING /\ ENABLING # STREAMING
  /\ ENABLING # DISABLING /\ ENABLING # RELEASING
  /\ STREAMING # DISABLING /\ STREAMING # RELEASING /\ DISABLING # RELEASING
  BY DEF AseStates, IDLE, CODEC_CONFIGURED, QOS_CONFIGURED, ENABLING, STREAMING,
         DISABLING, RELEASING

\* t is s but for a write to ASE a, which has state st now.
Furthers(s, t, c, a, st, op) ==
    /\ t.ast = [s.ast EXCEPT ![a] = st]
    /\ t.out[c] = Append(s.out[c], Msg(op, a))
    /\ \A d \in Conn : d # c => t.out[d] = s.out[d]
    /\ SameUse(s, t) /\ SameCig(s, t)

\* An ASE that is configured gets its QoS, and is enabled then.
LEMMA ConfiguresFurther ==
  ASSUME NEW s, Ok(s), ~s.releasing, s.mode = IN_TRANSIT, NEW c \in s.up,
         NEW a \in OwnAse(c), NEW st \in {CODEC_CONFIGURED, QOS_CONFIGURED},
         NEW op \in CpOps, st = CODEC_CONFIGURED => op = "CONFIG_QOS",
         st = QOS_CONFIGURED => op = "ENABLE"
  PROVE  Furthers(s, AseNotification(s, c, a, st), c, a, st, op)
PROOF
  <1> DEFINE u == [s EXCEPT !.ast[a] = st]
             v == WriteCp(u, c, op, a)
  <1>1. c \in Conn /\ a \in Ase /\ st \in AseStates
    BY FinalType, AseStateFacts DEF OwnAse
  <1>2. /\ Ok(u) /\ u.ast = [s.ast EXCEPT ![a] = st] /\ u.ast[a] = st
        /\ u.out = s.out /\ SameUse(s, u) /\ SameCig(s, u)
    BY <1>1, NotedState
  <1>3. AseNotification(s, c, a, st) = AscsStateUpdate(u, c, a)
    BY AseStateFacts DEF AseNotification
  <1> HIDE DEF u
  <1>4. ~u.releasing /\ u.mode = IN_TRANSIT
    BY <1>2 DEF SameUse
  <1>5. AscsStateUpdate(u, c, a) =
          IF AllInState(v, st) THEN UpdateAudioMode(v, c, st) ELSE v
    <2>1. CASE st = CODEC_CONFIGURED
      BY <1>2, <1>4, <2>1, AseStateFacts DEF AscsStateUpdate
    <2>2. CASE st = QOS_CONFIGURED
      BY <1>2, <1>4, <2>2, AseStateFacts DEF AscsStateUpdate
    <2> QED  BY <2>1, <2>2
  <1>6. /\ v.ast = u.ast /\ SameUse(u, v) /\ SameCig(u, v)
        /\ v.out = [u.out EXCEPT ![c] = Append(@, Msg(op, a))]
    <2> DEFINE o == [u.out EXCEPT ![c] = Append(@, Msg(op, a))]
    <2>1. v = [u EXCEPT !.out = o]
      BY <1>2 DEF WriteCp, Msg, Ok, App
    <2> HIDE DEF o
    <2>2. [u EXCEPT !.out = o].out = o
      BY <1>2 DEF Ok, App
    <2> QED  BY <1>2, <2>1, <2>2 DEF Ok, App, SameUse, SameCig, o
  <1> HIDE DEF v
  <1>7. UpdateAudioMode(v, c, st) = v
    BY <1>4, <1>6, AseStateFacts DEF UpdateAudioMode, SameUse
  <1>8. AseNotification(s, c, a, st) = v
    BY <1>3, <1>5, <1>7
  <1>9. SameUse(s, v) /\ SameCig(s, v)
    BY <1>2, <1>6 DEF SameUse, SameCig
  <1>10. v.ast = [s.ast EXCEPT ![a] = st]
         /\ v.out[c] = Append(s.out[c], Msg(op, a))
         /\ \A d \in Conn : d # c => v.out[d] = s.out[d]
    BY <1>1, <1>2, <1>6 DEF Ok, App, Writes
  <1>11. Furthers(s, v, c, a, st, op)
    BY <1>9, <1>10 DEF Furthers
  <1> QED  BY <1>8, <1>11

\* The listed ASEs but for a are in a state.
Others(s, a, st) ==
    \A i \in Slots : s.list[i] # NULL => s.list[i] = a \/ s.ast[s.list[i]] = st

\* The transition of s is over in t, and the CIG is being set up.
Completed(s, t) ==
    /\ t.mode = s.final /\ t.cigEvt /\ t.cig = s.cfg.cis
    /\ t.final = s.final /\ t.paused = s.paused
    /\ t.cfg = s.cfg /\ t.releasing = s.releasing
    /\ t.list = s.list /\ t.media = s.media /\ t.ccs = s.ccs
    /\ t.call = s.call /\ t.cid = s.cid /\ t.up = s.up
    /\ t.big = s.big /\ t.iso = s.iso

Enables(s, t, a) ==
    /\ t.ast = [s.ast EXCEPT ![a] = ENABLING] /\ t.out = s.out
    /\ ~Others(s, a, ENABLING) => SameUse(s, t) /\ SameCig(s, t)
    /\ Others(s, a, ENABLING) => Completed(s, t)

\* An ASE that is enabled in a transition: with the last one, the CIG is
\* set up and the transition is over.
LEMMA EnablesOne ==
  ASSUME NEW s, Ok(s), ~s.releasing, s.mode = IN_TRANSIT, NEW c \in s.up,
         NEW a \in OwnAse(c), s.iso = {}, s.cfg.cis > 0
  PROVE  Enables(s, AseNotification(s, c, a, ENABLING), a)
PROOF
  <1> DEFINE u == [s EXCEPT !.ast[a] = ENABLING]
             all == Others(s, a, ENABLING)
             w == [u EXCEPT !.cig = u.cfg.cis, !.cigEvt = TRUE]
             v == [w EXCEPT !.mode = u.final]
  <1>1. c \in Conn /\ a \in Ase /\ ENABLING \in AseStates
    BY FinalType, AseStateFacts DEF OwnAse
  <1>2. /\ Ok(u) /\ u.ast = [s.ast EXCEPT ![a] = ENABLING] /\ u.ast[a] = ENABLING
        /\ u.out = s.out /\ SameUse(s, u) /\ SameCig(s, u)
    BY <1>1, NotedState
  <1>3. AseNotification(s, c, a, ENABLING) = AscsStateUpdate(u, c, a)
    BY AseStateFacts DEF AseNotification
  <1> HIDE DEF u
  <1>4. ~u.releasing /\ u.mode = IN_TRANSIT /\ u.iso = {} /\ u.cfg.cis > 0
    BY <1>2 DEF SameUse, SameCig
  <1>5. AscsStateUpdate(u, c, a) =
          IF AllInState(u, ENABLING) THEN UpdateAudioMode(u, c, ENABLING) ELSE u
    BY <1>2, <1>4, AseStateFacts DEF AscsStateUpdate
  <1>6. UpdateAudioMode(u, c, ENABLING) = v
    BY <1>4, AseStateFacts DEF UpdateAudioMode, SetCigParam
  <1>7. AllInState(u, ENABLING) <=> all
    <2>1. \A i \in Slots : s.list[i] # NULL => s.list[i] \in Ase
      BY DEF Ok, App, AseLists
    <2>2. \A b \in Ase : u.ast[b] = ENABLING <=> b = a \/ s.ast[b] = ENABLING
      BY <1>1, <1>2 DEF Ok, App, AseState
    <2> QED  BY <1>2, <2>1, <2>2 DEF AllInState, Others, SameUse
  <1>8. /\ v.mode = u.final /\ v.cigEvt /\ v.cig = u.cfg.cis
        /\ v.final = u.final /\ v.paused = u.paused
        /\ v.cfg = u.cfg /\ v.releasing = u.releasing
        /\ v.list = u.list /\ v.media = u.media /\ v.ccs = u.ccs
        /\ v.call = u.call /\ v.cid = u.cid /\ v.up = u.up
        /\ v.big = u.big /\ v.iso = u.iso /\ v.ast = u.ast /\ v.out = u.out
    BY <1>2 DEF Ok, App
  <1> HIDE DEF v, w, all
  <1>9. AseNotification(s, c, a, ENABLING) = IF all THEN v ELSE u
    BY <1>3, <1>5, <1>6, <1>7
  <1>10. Completed(s, v) /\ v.ast = u.ast /\ v.out = u.out
    BY <1>2, <1>8 DEF SameUse, SameCig, Completed
  <1> QED  BY <1>2, <1>9, <1>10 DEF all, Enables

\* The notification that an ASE streams, when the transition is over.
LEMMA StreamsOn ==
  ASSUME NEW s, Ok(s), s.mode # IN_TRANSIT, NEW c \in s.up, NEW a \in OwnAse(c)
  PROVE  LET t == AseNotification(s, c, a, STREAMING)
         IN  /\ t.ast = [s.ast EXCEPT ![a] = STREAMING] /\ t.out = s.out
             /\ SameUse(s, t) /\ SameCig(s, t)
PROOF
  <1> DEFINE u == [s EXCEPT !.ast[a] = STREAMING]
  <1>1. c \in Conn /\ a \in Ase /\ STREAMING \in AseStates
    BY FinalType, AseStateFacts DEF OwnAse
  <1>2. /\ Ok(u) /\ u.ast = [s.ast EXCEPT ![a] = STREAMING] /\ u.ast[a] = STREAMING
        /\ u.out = s.out /\ SameUse(s, u) /\ SameCig(s, u)
    BY <1>1, NotedState
  <1>3. AseNotification(s, c, a, STREAMING) = AscsStateUpdate(u, c, a)
    BY AseStateFacts DEF AseNotification
  <1> HIDE DEF u
  <1>4. AscsStateUpdate(u, c, a) =
          IF AllInState(u, STREAMING) THEN UpdateAudioMode(u, c, STREAMING) ELSE u
    BY <1>2, AseStateFacts DEF AscsStateUpdate
  <1>5. UpdateAudioMode(u, c, STREAMING) = u
    BY <1>2 DEF UpdateAudioMode, SameUse
  <1> QED  BY <1>2, <1>3, <1>4, <1>5

\* t is s but for ASE a, which is being released and has lost its CIS.
Torn(s, t, a) ==
    /\ t.ast = [s.ast EXCEPT ![a] = RELEASING] /\ t.out = s.out
    /\ SameUse(s, t) /\ t.iso = s.iso \ {s.cid[a]}

\* An ASE that is being released loses its CIS.
LEMMA TearsDown ==
  ASSUME NEW s, Ok(s), s.releasing, s.mode = IN_TRANSIT, NEW c \in s.up,
         NEW a \in OwnAse(c)
  PROVE  Torn(s, AseNotification(s, c, a, RELEASING), a)
PROOF
  <1> DEFINE u == [s EXCEPT !.ast[a] = RELEASING]
             i == u.iso \ {u.cid[a]}
             g == IF i = {} THEN 0 ELSE u.cig
             v == [u EXCEPT !.iso = i, !.cig = g]
  <1>1. c \in Conn /\ a \in Ase /\ RELEASING \in AseStates
    BY FinalType, AseStateFacts DEF OwnAse
  <1>2. /\ Ok(u) /\ u.ast = [s.ast EXCEPT ![a] = RELEASING] /\ u.ast[a] = RELEASING
        /\ u.out = s.out /\ SameUse(s, u) /\ SameCig(s, u)
    BY <1>1, NotedState
  <1>3. AseNotification(s, c, a, RELEASING) = AscsStateUpdate(TearDown(u, a), c, a)
    BY AseStateFacts DEF AseNotification
  <1> HIDE DEF u
  <1>4. TearDown(u, a) = v
    BY <1>2 DEF TearDown, DropCis, Ok, App
  <1> HIDE DEF g
  <1>5. SameUse(u, v) /\ v.iso = i /\ v.ast = u.ast /\ v.out = u.out
    BY <1>2 DEF Ok, App, SameUse
  <1> HIDE DEF i, v
  <1>6. v.ast[a] = RELEASING /\ v.mode = IN_TRANSIT /\ v.releasing
    BY <1>2, <1>5 DEF SameUse
  <1>7. AscsStateUpdate(v, c, a) =
          IF AllInState(v, RELEASING) THEN UpdateAudioMode(v, c, RELEASING) ELSE v
    BY <1>6, AseStateFacts DEF AscsStateUpdate
  <1>8. UpdateAudioMode(v, c, RELEASING) = v
    BY <1>6, AseStateFacts DEF UpdateAudioMode
  <1>9. AseNotification(s, c, a, RELEASING) = v
    BY <1>3, <1>4, <1>7, <1>8
  <1>10. SameUse(s, v) /\ v.iso = s.iso \ {s.cid[a]}
    BY <1>2, <1>5 DEF SameUse, SameCig, i
  <1> QED  BY <1>2, <1>5, <1>9, <1>10 DEF Torn

\* u is s but for ASE a, which was released.
Freed(s, u, a, st) ==
    /\ Ok(u) /\ u.ast = [s.ast EXCEPT ![a] = st] /\ u.out = s.out
    /\ u.cid = [s.cid EXCEPT ![a] = IF st = IDLE THEN 0 ELSE @]
    /\ SameUse(s, [u EXCEPT !.cid = s.cid]) /\ SameCig(s, u)

\* An ASE that was released: the last one ends the release.
LEMMA ReleasesOne ==
  ASSUME NEW s, Ok(s), s.releasing, s.mode = IN_TRANSIT, NEW c \in s.up,
         NEW a \in OwnAse(c), NEW st \in {IDLE, CODEC_CONFIGURED}
  PROVE  \E u : /\ Freed(s, u, a, st)
               /\ AseNotification(s, c, a, st) =
                    IF AllInState(u, st) THEN Released(u, c) ELSE u
PROOF
  <1> DEFINE t   == [s EXCEPT !.ast[a] = st]
             cid == [t.cid EXCEPT ![a] = IF st = IDLE THEN 0 ELSE @]
             u   == [t EXCEPT !.cid = cid]
  <1>1. c \in Conn /\ a \in Ase /\ st \in AseStates
    BY FinalType, AseStateFacts DEF OwnAse
  <1>2. /\ Ok(t) /\ t.ast = [s.ast EXCEPT ![a] = st] /\ t.ast[a] = st
        /\ t.out = s.out /\ SameUse(s, t) /\ SameCig(s, t) /\ t.pcfg = s.pcfg
    BY <1>1, NotedState
  <1>3. AseNotification(s, c, a, st) =
          AscsStateUpdate(IF st = IDLE THEN [t EXCEPT !.cid[a] = 0] ELSE t, c, a)
    BY AseStateFacts DEF AseNotification
  <1> HIDE DEF t
  <1>4. (IF st = IDLE THEN [t EXCEPT !.cid[a] = 0] ELSE t) = u
    <2>1. CASE st = IDLE
      BY <1>2, <2>1 DEF Ok, App
    <2>2. CASE st # IDLE
      <3>1. cid = t.cid
        BY <1>1, <1>2, <2>2 DEF Ok, App, CisIds
      <3> HIDE DEF cid
      <3>2. [t EXCEPT !.cid = t.cid] = t
        BY <1>2 DEF Ok, App
      <3> QED  BY <2>2, <3>1, <3>2
    <2> QED  BY <2>1, <2>2
  <1>5. cid \in CisIds /\ cid = [s.cid EXCEPT ![a] = IF st = IDLE THEN 0 ELSE @]
    BY <1>1, <1>2 DEF Ok, App, CisIds, CisNums, SameUse
  <1> HIDE DEF cid
  <1>6. /\ Ok(u) /\ u.ast = t.ast /\ u.out = t.out /\ u.cid = cid
        /\ SameCig(t, u) /\ u.pcfg = t.pcfg /\ u.mode = t.mode
        /\ u.releasing = t.releasing
    BY <1>2, <1>5 DEF Ok, App, Listed, SameCig
  <1>7. SameUse(s, [u EXCEPT !.cid = s.cid])
    BY <1>2, <1>5 DEF Ok, App, SameUse
  <1> HIDE DEF u
  <1>8. u.mode = IN_TRANSIT /\ u.releasing /\ u.ast[a] = st
    BY <1>2, <1>6 DEF SameUse
  <1>9. AscsStateUpdate(u, c, a) =
          IF AllInState(u, st) THEN UpdateAudioMode(u, c, st) ELSE u
    BY <1>8, AseStateFacts DEF AscsStateUpdate
  <1>10. UpdateAudioMode(u, c, st) = Released(u, c)
    BY <1>8, AseStateFacts DEF UpdateAudioMode
  <1>11. AseNotification(s, c, a, st) =
           IF AllInState(u, st) THEN Released(u, c) ELSE u
    BY <1>3, <1>4, <1>9, <1>10
  <1>12. SameCig(s, u) /\ u.pcfg = s.pcfg /\ u.ast = [s.ast EXCEPT ![a] = st]
         /\ u.out = s.out
    BY <1>2, <1>6 DEF SameCig
  <1>13. Freed(s, u, a, st)
    BY <1>5, <1>6, <1>7, <1>12 DEF Freed
  <1> QED  BY <1>11, <1>13

-----------------------------------------------------------------------------
(* The phases under the steps of the servers and bearers                     *)

\* What is in use stays in use.
LEMMA UseKept ==
  ASSUME NEW s, NEW t, SameUse(s, t)
  PROVE  (Control(s) => Control(t)) /\ (On(s) => On(t))
  BY DEF SameUse, Control, Ranked, On, Suits, Serves

\* An ASE that is written to is being configured or released.
LEMMA WriteStages ==
  ASSUME IInv, NEW c \in Conn, ServerWrite(c)
  PROVE  \E a \in Ase :
           /\ ~Resting(a) /\ ~Ready(a) /\ ~Flowing(a) /\ ~Gone(a)
           /\ Configuring(a) => Configuring(a)'
           /\ Going(a) => Going(a)'
           /\ Configuring(a) \/ Going(a) =>
                /\ SameUse(app, app') /\ SameCig(app, app') /\ app'.ast = app.ast
                /\ \A b \in Ase : b # a => Unmoved(b)
PROOF
  <1> DEFINE q == app.out[c]
  <1>1. q \in Seq(OwnMsg(c)) /\ q # << >>
    BY QueueTypes DEF ServerWrite
  <1>2. Head(q) \in OwnMsg(c)
    BY <1>1
  <1> HIDE DEF q
  <1>3. PICK a \in Ase : a = Head(q).ase /\ a \in OwnAse(c) /\ Owner[a] = c
    BY <1>2 DEF OwnMsg, CpMsg, OwnAse
  <1>4. /\ ~None(q, a) /\ \A e : One(q, a, e) => Head(q) = e
    BY <1>1, <1>3, HeadOwn
  <1>5. /\ ~Hushed(a) /\ \A st : ~Telling(st, a)
        /\ \A op : Writing(op, a) => Head(app.out[c]) = Msg(op, a)
    BY <1>3, <1>4 DEF Hushed, Telling, Writing, q
  <1>6. ~Resting(a) /\ ~Ready(a) /\ ~Gone(a)
    BY <1>5 DEF Resting, Ready, Gone
  <1>7. ~Flowing(a)
    BY <1>5 DEF Flowing
  <1>8. ASSUME NEW op \in CpOps, Writing(op, a), Allowed(op, srv[a])
        PROVE  /\ Telling(Target(op), a)' /\ srv'[a] = Target(op)
               /\ app'.ast = app.ast /\ SameUse(app, app') /\ SameCig(app, app')
               /\ \A b \in Ase : b # a => Unmoved(b)
    BY <1>3, <1>5, <1>8, Arrival
  <1>9. srv[a] \in AseStates
    BY <1>3 DEF IInv, EnvInv
  <1>10. ASSUME Configuring(a)
         PROVE  \E op \in {"CONFIG_CODEC", "CONFIG_QOS", "ENABLE"} :
                  Writing(op, a) /\ Allowed(op, srv[a])
    BY <1>5, <1>9, <1>10 DEF Configuring, Allowed, AseStates, IDLE,
       CODEC_CONFIGURED, QOS_CONFIGURED
  <1>11. ASSUME Configuring(a)
         PROVE  /\ Configuring(a)'
                /\ SameUse(app, app') /\ SameCig(app, app') /\ app'.ast = app.ast
                /\ \A b \in Ase : b # a => Unmoved(b)
    <2>1. PICK op \in {"CONFIG_CODEC", "CONFIG_QOS", "ENABLE"} :
                 Writing(op, a) /\ Allowed(op, srv[a])
      BY <1>10, <1>11
    <2>2. /\ Telling(Target(op), a)' /\ srv'[a] = Target(op)
          /\ app'.ast = app.ast /\ SameUse(app, app') /\ SameCig(app, app')
          /\ \A b \in Ase : b # a => Unmoved(b)
      BY <1>8, <2>1, StateFacts
    <2>3. app'.ast[a] <= QOS_CONFIGURED
      BY <1>11, <2>2 DEF Configuring
    <2>4. Target(op) \in {CODEC_CONFIGURED, QOS_CONFIGURED, ENABLING}
      BY DEF Target
    <2>5. Configuring(a)'
      BY <2>2, <2>3, <2>4
      DEF Configuring, CODEC_CONFIGURED, QOS_CONFIGURED, ENABLING
    <2> QED  BY <2>2, <2>5
  <1>12. ASSUME Going(a)
         PROVE  /\ Going(a)'
                /\ SameUse(app, app') /\ SameCig(app, app') /\ app'.ast = app.ast
                /\ \A b \in Ase : b # a => Unmoved(b)
    <2>1. app.ast[a] = STREAMING /\ Writing("RELEASE", a) /\ srv[a] = STREAMING
      BY <1>3, <1>4, <1>5, <1>12 DEF Going, q
    <2>2. Allowed("RELEASE", srv[a]) /\ Target("RELEASE") = RELEASING
      BY <2>1, AseStateFacts DEF Allowed, Target
    <2>3. /\ Telling(RELEASING, a)' /\ srv'[a] = RELEASING
          /\ app'.ast = app.ast /\ SameUse(app, app') /\ SameCig(app, app')
          /\ \A b \in Ase : b # a => Unmoved(b)
      BY <1>8, <2>1, <2>2, StateFacts
    <2>4. Going(a)'
      BY <2>1, <2>3 DEF Going, STREAMING, RELEASING
    <2> QED  BY <2>3, <2>4
  <1>13. a \in Ase
    BY <1>3
  <1> QED  BY <1>6, <1>7, <1>11, <1>12, <1>13

\* A write that reaches a server leaves the player in its phase.
LEMMA WriteStep ==
  ASSUME IInv, Phases, NEW c \in Conn, ServerWrite(c)
  PROVE  Phases'
PROOF
  <1>1. PICK a \in Ase :
           /\ ~Resting(a) /\ ~Ready(a) /\ ~Flowing(a) /\ ~Gone(a)
           /\ Configuring(a) => Configuring(a)'
           /\ Going(a) => Going(a)'
           /\ Configuring(a) \/ Going(a) =>
                /\ SameUse(app, app') /\ SameCig(app, app') /\ app'.ast = app.ast
                /\ \A b \in Ase : b # a => Unmoved(b)
    BY WriteStages
  <1>2. Starting \/ Leaving
    BY <1>1 DEF Phases, Rest, Rings, Awaiting, Running
  <1>3. CASE Starting
    <2>1. InList(app.list, a) /\ Configuring(a)
      BY <1>1, <1>3 DEF Starting
    <2>2. /\ SameUse(app, app') /\ SameCig(app, app') /\ Configuring(a)'
          /\ \A b \in Ase : b # a => Unmoved(b)
      BY <1>1, <2>1
    <2>3. Control(app') /\ On(app')
      BY <1>3, <2>2, UseKept DEF Phases, Starting, Begun
    <2>4. app'.mode = IN_TRANSIT /\ ~app'.cigEvt /\ app'.iso = {}
          /\ app'.list = app.list
      BY <1>3, <2>2 DEF Starting, Begun, SameUse, SameCig
    <2>5. \A b \in Ase : IF InList(app'.list, b) THEN Configuring(b)' \/ Ready(b)'
                         ELSE Resting(b)'
      BY <1>3, <2>1, <2>2, <2>4, StageKept DEF Starting
    <2> QED  BY <2>1, <2>2, <2>3, <2>4, <2>5 DEF Phases, Starting, Begun
  <1>4. CASE Leaving
    <2>1. InList(app.list, a) /\ Going(a)
      BY <1>1, <1>4 DEF Leaving
    <2>2. /\ SameUse(app, app') /\ SameCig(app, app') /\ Going(a)'
          /\ app'.ast = app.ast /\ \A b \in Ase : b # a => Unmoved(b)
      BY <1>1, <2>1
    <2>3. Control(app')
      BY <2>2, UseKept DEF Phases
    <2>4. /\ app'.list = app.list /\ app'.releasing = app.releasing
          /\ app'.mode = app.mode /\ app'.cigEvt = app.cigEvt
          /\ app'.final = app.final /\ app'.paused = app.paused
          /\ app'.call = app.call /\ app'.ccs = app.ccs /\ app'.cid = app.cid
          /\ app'.iso = app.iso
      BY <2>2 DEF SameUse, SameCig
    <2>5. \A b \in Ase : IF InList(app'.list, b) THEN Going(b)' \/ Gone(b)'
                         ELSE Resting(b)'
      BY <1>4, <2>1, <2>2, <2>4, StageKept DEF Leaving
    <2> QED  BY <1>4, <2>1, <2>2, <2>3, <2>4, <2>5 DEF Phases, Leaving
  <1> QED  BY <1>2, <1>3, <1>4

\* The CIS of an ASE is there: it streams.
LEMMA StreamStep ==
  ASSUME IInv, Phases, NEW a \in Ase, ServerStream(a)
  PROVE  Phases'
PROOF
  <1>1. /\ srv[a] = ENABLING /\ app.cid[a] \in app.iso
        /\ Notify(a, STREAMING) /\ app' = app
    BY DEF ServerStream
  <1>2. /\ srv'[a] = STREAMING
        /\ Hushed(a) => Telling(STREAMING, a)'
        /\ \A b \in Ase : b # a => Unmoved(b)
    BY <1>1, Tells, AseStateFacts
  <1>3. ~Resting(a) /\ ~Going(a) /\ ~Gone(a) /\ ~Flowing(a)
    BY <1>1 DEF Resting, Going, Gone, Flowing, LastState, IDLE, CODEC_CONFIGURED,
       ENABLING, STREAMING, RELEASING
  <1>4. Running
    BY <1>1, <1>3
    DEF Phases, Rest, Rings, Rests, Alerts, Quiet, Starting, Begun, Awaiting, Leaving
  <1>5. InList(app.list, a) /\ Ready(a)
    BY <1>3, <1>4 DEF Running
  <1>6. Flowing(a)'
    <2>1. Telling(STREAMING, a)' /\ app'.ast[a] = ENABLING /\ srv'[a] = STREAMING
      BY <1>1, <1>2, <1>5 DEF Ready
    <2> QED  BY <2>1 DEF Flowing, STREAMING, ENABLING
  <1>7. Control(app') /\ On(app')
    <2>1. SameUse(app, app')
      BY <1>1 DEF SameUse
    <2> QED  BY <1>4, <2>1, UseKept DEF Phases, Running
  <1>8. \A b \in Ase : IF InList(app'.list, b) THEN Ready(b)' \/ Flowing(b)'
                       ELSE Resting(b)'
    BY <1>1, <1>2, <1>4, <1>5, <1>6, StageKept DEF Running
  <1> QED  BY <1>1, <1>4, <1>7, <1>8 DEF Phases, Running

\* A server has released an ASE.
LEMMA FreeStep ==
  ASSUME IInv, Phases, NEW a \in Ase, ServerReleased(a)
  PROVE  Phases'
PROOF
  <1>1. srv[a] = RELEASING /\ Notify(a, LastState(a)) /\ app' = app
    BY DEF ServerReleased, LastState
  <1>2. LastState(a) \in AseStates
    BY AseStateFacts DEF LastState
  <1>3. /\ srv'[a] = LastState(a)
        /\ Hushed(a) => Telling(LastState(a), a)'
        /\ \A x : Telling(x, a) =>
             /\ None(app'.out[Owner[a]], a)
             /\ Two(nq'[Owner[a]], a, StateOf(a, x), StateOf(a, LastState(a)))
        /\ \A b \in Ase : b # a => Unmoved(b)
    BY <1>1, <1>2, Tells
  <1>4. /\ ~Resting(a) /\ ~Configuring(a) /\ ~Ready(a) /\ ~Flowing(a) /\ ~Gone(a)
    BY <1>1 DEF Resting, Configuring, Ready, Flowing, Gone, LastState, IDLE,
       CODEC_CONFIGURED, QOS_CONFIGURED, ENABLING, STREAMING, RELEASING
  <1>5. Leaving
    BY <1>4 DEF Phases, Rest, Rings, Starting, Awaiting, Running
  <1>6. InList(app.list, a) /\ Going(a)
    BY <1>4, <1>5 DEF Leaving
  <1>7. Going(a)'
    <2>1. RELEASING # STREAMING /\ RELEASING # LastState(a)
      BY AseStateFacts DEF LastState
    <2>2. \/ app.ast[a] = STREAMING /\ Telling(RELEASING, a)
          \/ app.ast[a] = RELEASING /\ Hushed(a)
      BY <1>1, <1>6, <2>1 DEF Going
    <2>3. LastState(a)' = LastState(a)
      BY DEF LastState
    <2>4. CASE app.ast[a] = STREAMING /\ Telling(RELEASING, a)
      <3>1. /\ app'.ast[a] = STREAMING /\ srv'[a] = LastState(a)
            /\ None(app'.out[Owner[a]], a)
            /\ Two(nq'[Owner[a]], a, StateOf(a, RELEASING), StateOf(a, LastState(a)))
        BY <1>1, <1>3, <2>4
      <3> QED  BY <3>1, <2>3 DEF Going
    <2>5. CASE app.ast[a] = RELEASING /\ Hushed(a)
      <3>1. /\ app'.ast[a] = RELEASING /\ srv'[a] = LastState(a)
            /\ Telling(LastState(a), a)'
        BY <1>1, <1>3, <2>5
      <3> QED
        BY <3>1 DEF Going, LastState, RELEASING, CODEC_CONFIGURED, IDLE
    <2> QED  BY <2>2, <2>4, <2>5
  <1>8. Control(app')
    <2>1. SameUse(app, app')
      BY <1>1 DEF SameUse
    <2> QED  BY <2>1, UseKept DEF Phases
  <1>9. \A b \in Ase : IF InList(app'.list, b) THEN Going(b)' \/ Gone(b)'
                       ELSE Resting(b)'
    BY <1>1, <1>3, <1>5, <1>6, <1>7, StageKept DEF Leaving
  <1> QED  BY <1>1, <1>5, <1>6, <1>7, <1>8, <1>9 DEF Phases, Leaving

\* A notification moves only the ASE that it is about.
LEMMA DeliveredOthers ==
  ASSUME IInv, NEW c \in Conn, Deliver(c), NEW a \in Ase, Head(nq[c]).ase = a,
         NEW st \in AseStates, app'.ast = [app.ast EXCEPT ![a] = st],
         \A d \in Conn : d # c => app'.out[d] = app.out[d],
         \A b \in Ase : b # a => Same(app.out[c], app'.out[c], b)
  PROVE  /\ \A b \in Ase : b # a => Unmoved(b)
         /\ app'.ast[a] = st /\ srv' = srv /\ Owner[a] = c /\ c \in app.up
         /\ a \in OwnAse(c)
PROOF
  <1>1. /\ a \in OwnAse(c) /\ srv' = srv /\ c \in app.up
        /\ \A d \in Conn : d # c => nq'[d] = nq[d]
        /\ \A b \in Ase : b # a => Same(nq[c], nq'[c], b)
    BY Delivery
  <1>2. Owner[a] = c
    BY <1>1 DEF OwnAse
  <1>3. app'.ast[a] = st /\ \A b \in Ase : b # a => app'.ast[b] = app.ast[b]
    BY QueueTypes DEF App, AseState
  <1>4. \A b \in Ase : b # a => Unmoved(b)
    BY <1>1, <1>2, <1>3, OthersUnmoved
  <1> QED  BY <1>1, <1>2, <1>3, <1>4

\* What a notification can be about.
LEMMA DeliverStages ==
  ASSUME IInv, NEW c \in Conn, Deliver(c)
  PROVE  \E a \in Ase :
           /\ Head(nq[c]).ase = a /\ a \in OwnAse(c) /\ c \in app.up
           /\ ~Resting(a) /\ ~Ready(a) /\ ~Gone(a)
           /\ Configuring(a) =>
                /\ app.ast[a] <= QOS_CONFIGURED
                /\ \E st \in {CODEC_CONFIGURED, QOS_CONFIGURED, ENABLING} :
                     Telling(st, a) /\ srv[a] = st
           /\ Flowing(a) => Telling(STREAMING, a) /\ srv[a] = STREAMING
           /\ Going(a) =>
                \/ Telling(RELEASING, a) /\ srv[a] = RELEASING
                \/ /\ None(app.out[c], a) /\ srv[a] = LastState(a)
                   /\ Two(nq[c], a, StateOf(a, RELEASING), StateOf(a, LastState(a)))
                \/ /\ Telling(LastState(a), a) /\ srv[a] = LastState(a)
                   /\ app.ast[a] = RELEASING
PROOF
  <1> DEFINE n == Head(nq[c])
  <1>1. nq[c] \in Seq(OwnNote(c)) /\ nq[c] # << >>
    BY QueueTypes DEF Deliver
  <1>2. n \in OwnNote(c)
    BY <1>1
  <1> HIDE DEF n
  <1>3. PICK a \in Ase : a = n.ase
    BY <1>2 DEF OwnNote, Notification
  <1>4. a \in OwnAse(c) /\ c \in app.up /\ ~None(nq[c], a)
    BY <1>3, Delivery DEF n
  <1>5. Owner[a] = c
    BY <1>4 DEF OwnAse
  <1>6. ~Hushed(a) /\ \A op : ~Writing(op, a)
    BY <1>4, <1>5 DEF Hushed, Writing
  <1>7. ~Resting(a) /\ ~Ready(a) /\ ~Gone(a)
    BY <1>6 DEF Resting, Ready, Gone
  <1>8. Configuring(a) =>
          /\ app.ast[a] <= QOS_CONFIGURED
          /\ \E st \in {CODEC_CONFIGURED, QOS_CONFIGURED, ENABLING} :
               Telling(st, a) /\ srv[a] = st
    BY <1>6 DEF Configuring
  <1>9. Flowing(a) => Telling(STREAMING, a) /\ srv[a] = STREAMING
    BY <1>6 DEF Flowing
  <1>10. Going(a) =>
           \/ Telling(RELEASING, a) /\ srv[a] = RELEASING
           \/ /\ None(app.out[c], a) /\ srv[a] = LastState(a)
              /\ Two(nq[c], a, StateOf(a, RELEASING), StateOf(a, LastState(a)))
           \/ /\ Telling(LastState(a), a) /\ srv[a] = LastState(a)
              /\ app.ast[a] = RELEASING
    BY <1>5, <1>6 DEF Going
  <1> QED  BY <1>3, <1>4, <1>7, <1>8, <1>9, <1>10 DEF n

\* A codec or QoS configuration is confirmed, and the next write goes out.
LEMMA ConfiguredStep ==
  ASSUME IInv, Phases, Starting, NEW c \in Conn, Deliver(c), NEW a \in Ase,
         Head(nq[c]).ase = a, InList(app.list, a),
         NEW st \in {CODEC_CONFIGURED, QOS_CONFIGURED}, Telling(st, a), srv[a] = st
  PROVE  Phases'
PROOF
  <1> DEFINE op == IF st = CODEC_CONFIGURED THEN "CONFIG_QOS" ELSE "ENABLE"
             e == Msg(op, a)
             q == app.out[c]
  <1>1. a \in OwnAse(c) /\ c \in app.up /\ Owner[a] = c
    BY Delivery DEF OwnAse
  <1>2. None(q, a) /\ One(nq[c], a, StateOf(a, st))
    BY <1>1 DEF Telling
  <1>3. app' = AseNotification(app, c, a, st) /\ None(nq'[c], a)
    BY <1>2, Delivery
  <1>4. ~app.releasing /\ app.mode = IN_TRANSIT /\ Ok(app)
    BY QueueTypes DEF Starting, Begun, On
  <1>5. op \in CpOps /\ (st = CODEC_CONFIGURED => op = "CONFIG_QOS")
        /\ (st = QOS_CONFIGURED => op = "ENABLE")
    BY StateFacts, AseStateFacts
  <1> HIDE DEF op
  <1>6. /\ app'.ast = [app.ast EXCEPT ![a] = st]
        /\ app'.out[c] = Append(q, e)
        /\ \A d \in Conn : d # c => app'.out[d] = app.out[d]
        /\ SameUse(app, app') /\ SameCig(app, app')
    <2>1. Furthers(app, AseNotification(app, c, a, st), c, a, st, op)
      BY <1>1, <1>4, <1>5, ConfiguresFurther
    <2>2. Furthers(app, app', c, a, st, op)
      BY <1>3, <2>1
    <2> QED  BY <2>2 DEF Furthers
  <1>7. q \in Seq(OwnMsg(c))
    BY QueueTypes
  <1>8. e \in OwnMsg(c) /\ e.ase = a
    BY <1>1, <1>5 DEF OwnMsg, CpMsg, Msg
  <1> HIDE DEF e, q
  <1>10. One(Append(q, e), a, e)
    BY <1>2, <1>7, <1>8, AppendOwn
  <1>11. \A b \in Ase : b # a => Same(q, Append(q, e), b)
    BY <1>7, <1>8, AppendOther
  <1>12. /\ \A b \in Ase : b # a => Unmoved(b)
         /\ app'.ast[a] = st /\ srv' = srv
    <2>1. \A b \in Ase : b # a => Same(app.out[c], app'.out[c], b)
      BY <1>6, <1>11 DEF q
    <2>2. st \in AseStates
      BY AseStateFacts
    <2>3. /\ app'.ast = [app.ast EXCEPT ![a] = st]
          /\ \A d \in Conn : d # c => app'.out[d] = app.out[d]
      BY <1>6
    <2> QED  BY <2>1, <2>2, <2>3, DeliveredOthers
  <1>13. Configuring(a)'
    <2>1. Writing(op, a)'
      BY <1>1, <1>3, <1>6, <1>10 DEF Writing, e, op, CODEC_CONFIGURED
    <2>2. app'.ast[a] <= QOS_CONFIGURED
      BY <1>12 DEF QOS_CONFIGURED, CODEC_CONFIGURED
    <2>3. CASE st = CODEC_CONFIGURED
      <3>1. Writing("CONFIG_QOS", a)' /\ srv'[a] = CODEC_CONFIGURED
        BY <1>12, <2>1, <2>3 DEF op, CODEC_CONFIGURED
      <3> QED  BY <2>2, <3>1 DEF Configuring, CODEC_CONFIGURED, QOS_CONFIGURED
    <2>4. CASE st = QOS_CONFIGURED
      <3>1. Writing("ENABLE", a)' /\ srv'[a] = QOS_CONFIGURED
        BY <1>12, <2>1, <2>4 DEF op, CODEC_CONFIGURED, QOS_CONFIGURED
      <3> QED  BY <2>2, <3>1 DEF Configuring, CODEC_CONFIGURED, QOS_CONFIGURED
    <2> QED  BY <2>3, <2>4
  <1>14. Control(app') /\ On(app')
    BY <1>6, UseKept DEF Phases, Starting, Begun
  <1>15. app'.mode = IN_TRANSIT /\ ~app'.cigEvt /\ app'.iso = {} /\ app'.list = app.list
    BY <1>6 DEF Starting, Begun, SameUse, SameCig
  <1>16. \A b \in Ase : IF InList(app'.list, b) THEN Configuring(b)' \/ Ready(b)'
                        ELSE Resting(b)'
    BY <1>12, <1>13, <1>15, StageKept DEF Starting
  <1> QED  BY <1>13, <1>14, <1>15, <1>16 DEF Phases, Starting, Begun

\* A listed ASE is enabled: the last one completes the transition.
LEMMA EnabledStep ==
  ASSUME IInv, Phases, Starting, NEW c \in Conn, Deliver(c), NEW a \in Ase,
         Head(nq[c]).ase = a, InList(app.list, a),
         Telling(ENABLING, a), srv[a] = ENABLING
  PROVE  Phases'
PROOF
  <1> DEFINE all == Others(app, a, ENABLING)
  <1>1. a \in OwnAse(c) /\ c \in app.up /\ Owner[a] = c
    BY Delivery DEF OwnAse
  <1>2. None(app.out[c], a) /\ One(nq[c], a, StateOf(a, ENABLING))
    BY <1>1 DEF Telling
  <1>3. app' = AseNotification(app, c, a, ENABLING) /\ None(nq'[c], a)
    BY <1>2, Delivery
  <1>4. ~app.releasing /\ app.mode = IN_TRANSIT /\ app.iso = {} /\ Ok(app)
    BY QueueTypes DEF Starting, Begun, On
  <1>5. app.cfg.cis > 0 /\ app.final \in UnicastModes
    <2>1. Rank(a) \in 1..app.cfg.cis
      BY DEF Starting, Begun, On, Suits, Serves
    <2>2. app.cfg.cis \in 0..2
      BY QueueTypes DEF App, Cfg, CisNums, Cises
    <2> QED  BY <2>1, <2>2 DEF Starting, Begun, On
  <1>6. /\ app'.ast = [app.ast EXCEPT ![a] = ENABLING] /\ app'.out = app.out
        /\ ~all => SameUse(app, app') /\ SameCig(app, app')
        /\ all => Completed(app, app')
    <2>1. Enables(app, AseNotification(app, c, a, ENABLING), a)
      BY <1>1, <1>4, <1>5, EnablesOne
    <2> QED  BY <1>3, <2>1 DEF Enables
  <1>7. /\ \A b \in Ase : b # a => Unmoved(b)
        /\ app'.ast[a] = ENABLING /\ srv' = srv
    <2>1. \A d \in Conn : app'.out[d] = app.out[d]
      BY <1>6
    <2>2. \A b \in Ase : Same(app.out[c], app'.out[c], b)
      BY <2>1, SameQueue
    <2> QED  BY <1>6, <2>1, <2>2, AseStateFacts, DeliveredOthers
  <1>8. Ready(a)'
    <2>1. Hushed(a)'
      BY <1>1, <1>2, <1>3, <1>6 DEF Hushed
    <2> QED  BY <1>7, <2>1 DEF Ready, ENABLING
  <1>9. \A b \in Ase : ~(Configuring(b) /\ app.ast[b] = ENABLING)
    BY DEF Configuring, ENABLING, QOS_CONFIGURED
  <1>10. \A i \in Slots : app.list[i] # NULL => app.list[i] \in Ase
    BY QueueTypes DEF App, AseLists
  <1>11. CASE ~all
    <2>1. SameUse(app, app') /\ SameCig(app, app')
      BY <1>6, <1>11
    <2>2. Control(app') /\ On(app')
      BY <2>1, UseKept DEF Phases, Starting, Begun
    <2>3. /\ app'.mode = IN_TRANSIT /\ ~app'.cigEvt /\ app'.iso = {}
          /\ app'.list = app.list
      BY <2>1 DEF Starting, Begun, SameUse, SameCig
    <2>4. \A b \in Ase : IF InList(app'.list, b) THEN Configuring(b)' \/ Ready(b)'
                         ELSE Resting(b)'
      BY <1>7, <1>8, <2>3, StageKept DEF Starting
    <2>5. PICK b \in Ase : InList(app.list, b) /\ b # a /\ app.ast[b] # ENABLING
      BY <1>10, <1>11 DEF Others, InList
    <2>6. Configuring(b)
      BY <2>5 DEF Starting, Ready
    <2>7. Configuring(b)'
      BY <1>7, <2>5, <2>6, StageKept
    <2> QED  BY <2>2, <2>3, <2>4, <2>5, <2>7 DEF Phases, Starting, Begun
  <1>12. CASE all
    <2>1. /\ app'.mode = app.final /\ app'.cigEvt /\ app'.cig = app.cfg.cis
          /\ app'.final = app.final /\ app'.paused = app.paused
          /\ app'.cfg = app.cfg /\ app'.releasing = app.releasing
          /\ app'.list = app.list /\ app'.media = app.media
          /\ app'.ccs = app.ccs /\ app'.call = app.call
          /\ app'.cid = app.cid /\ app'.up = app.up
          /\ app'.big = app.big /\ app'.iso = app.iso
      BY <1>6, <1>12 DEF Completed
    <2>2. On(app')
      BY <2>1 DEF Starting, Begun, On, Suits, Serves
    <2>3. ~app.big /\ app.final # BROADCAST
      BY <1>4, <1>5 DEF Phases, Control, UnicastModes, IN_TRANSIT, BROADCAST, MEDIA,
         MIC, BIDIRMIC, CALL
    <2>4. Control(app')
      BY <2>1, <2>3 DEF Phases, Control, Ranked
    <2>5. \A b \in Ase : InList(app.list, b) /\ b # a => Ready(b)
      <3> SUFFICES ASSUME NEW b \in Ase, InList(app.list, b), b # a
                   PROVE  Ready(b)
        OBVIOUS
      <3>1. app.ast[b] = ENABLING
        BY <1>12, DeviceAssumption DEF Others, InList
      <3>2. Configuring(b) \/ Ready(b)
        BY DEF Starting
      <3> QED  BY <1>9, <3>1, <3>2
    <2>6. \A b \in Ase : IF InList(app'.list, b) THEN Ready(b)' ELSE Resting(b)'
      BY <1>7, <1>8, <2>1, <2>5, StageKept DEF Starting
    <2> QED  BY <1>4, <2>1, <2>2, <2>4, <2>6 DEF Phases, Awaiting
  <1> QED  BY <1>11, <1>12

\* The player learns that a stream is on.
LEMMA StreamingStep ==
  ASSUME IInv, Phases, Running, NEW c \in Conn, Deliver(c), NEW a \in Ase,
         Head(nq[c]).ase = a, InList(app.list, a),
         Telling(STREAMING, a), srv[a] = STREAMING
  PROVE  Phases'
PROOF
  <1>1. a \in OwnAse(c) /\ c \in app.up /\ Owner[a] = c
    BY Delivery DEF OwnAse
  <1>2. None(app.out[c], a) /\ One(nq[c], a, StateOf(a, STREAMING))
    BY <1>1 DEF Telling
  <1>3. app' = AseNotification(app, c, a, STREAMING) /\ None(nq'[c], a)
    BY <1>2, Delivery
  <1>4. app.mode # IN_TRANSIT /\ Ok(app)
    BY UnicastFacts, QueueTypes DEF Running, On
  <1>5. /\ app'.ast = [app.ast EXCEPT ![a] = STREAMING] /\ app'.out = app.out
        /\ SameUse(app, app') /\ SameCig(app, app')
    <2>1. Ok(app) /\ app.mode # IN_TRANSIT
      BY <1>4
    <2> QED  BY ONLY <1>1, <1>3, <2>1, StreamsOn
  <1>6. /\ \A b \in Ase : b # a => Unmoved(b)
        /\ app'.ast[a] = STREAMING /\ srv' = srv
    <2>1. \A d \in Conn : app'.out[d] = app.out[d]
      BY <1>5
    <2>2. \A b \in Ase : Same(app.out[c], app'.out[c], b)
      BY <2>1, SameQueue
    <2> QED  BY <1>5, <2>1, <2>2, AseStateFacts, DeliveredOthers
  <1>7. Flowing(a)'
    <2>1. Hushed(a)'
      BY <1>1, <1>2, <1>3, <1>5 DEF Hushed
    <2> QED  BY <1>6, <2>1 DEF Flowing, STREAMING
  <1>8. Control(app') /\ On(app')
    BY <1>5, UseKept DEF Phases, Running
  <1>9. /\ app'.list = app.list /\ app'.iso = app.iso /\ app'.mode = app.mode
        /\ app'.final = app.final /\ app'.cigEvt = app.cigEvt
    BY <1>5 DEF SameUse, SameCig
  <1>10. \A b \in Ase : IF InList(app'.list, b) THEN Ready(b)' \/ Flowing(b)'
                        ELSE Resting(b)'
    BY <1>6, <1>7, <1>9, StageKept DEF Running
  <1> QED  BY <1>8, <1>9, <1>10 DEF Phases, Running

-----------------------------------------------------------------------------
(* What the ends of releases and the starts of modes leave behind            *)

\* Nothing streams, or the streams of a mode are being configured.
Fresh(t) ==
    /\ Control(t)
    /\ \/ (Rests(t) \/ Alerts(t)) /\ Silent(t)
       \/ Begun(t) /\ Launched(t, t.cfg, t.final)

\* With the servers at rest this is one of the first three phases.
LEMMA FreshPhases ==
  ASSUME Ok(app'), Fresh(app'),
         \A a \in Ase : /\ None(nq'[Owner[a]], a) /\ srv'[a] = app'.ast[a]
                        /\ srv'[a] <= CODEC_CONFIGURED
  PROVE  Phases'
PROOF
  <1>1. Control(app')
    BY DEF Fresh
  <1>2. \A a \in Ase : None(app'.out[Owner[a]], a) => Resting(a)'
    BY DEF Resting, Hushed, CODEC_CONFIGURED
  <1>3. CASE Silent(app') /\ (Rests(app') \/ Alerts(app'))
    <2>1. \A a \in Ase : Resting(a)'
      BY <1>2, <1>3 DEF Silent
    <2> QED  BY <1>1, <1>3, <2>1 DEF Phases, Rest, Rings
  <1>4. CASE Begun(app') /\ Launched(app', app'.cfg, app'.final)
    <2>1. \A a \in Ase : IF InList(app'.list, a)
                         THEN One(app'.out[Owner[a]], a, Msg("CONFIG_CODEC", a))
                         ELSE None(app'.out[Owner[a]], a)
      BY <1>4 DEF Launched
    <2>2. \A a \in Ase : InList(app'.list, a) => Configuring(a)'
      <3> SUFFICES ASSUME NEW a \in Ase, InList(app'.list, a)
                   PROVE  Configuring(a)'
        OBVIOUS
      <3>1. Writing("CONFIG_CODEC", a)'
        BY <2>1 DEF Writing
      <3>2. app'.ast[a] \in AseStates
        BY DEF Ok, App, AseState
      <3>3. app'.ast[a] <= QOS_CONFIGURED /\ srv'[a] <= CODEC_CONFIGURED
        BY <3>2 DEF AseStates, CODEC_CONFIGURED, QOS_CONFIGURED
      <3> QED  BY <3>1, <3>3 DEF Configuring, CODEC_CONFIGURED, QOS_CONFIGURED
    <2>3. \A a \in Ase : ~InList(app'.list, a) => Resting(a)'
      BY <1>2, <2>1
    <2>4. \E a \in Ase : InList(app'.list, a)
      <3>1. app'.list \in [Slots -> Ase \cup {NULL}] /\ app'.list # EmptyList
        BY <1>4 DEF Ok, App, AseLists, Begun, On, Suits
      <3>2. PICK i \in Slots : app'.list[i] # NULL
        BY <3>1 DEF EmptyList
      <3> QED  BY <3>1, <3>2 DEF InList
    <2> QED  BY <1>1, <1>4, <2>2, <2>3, <2>4 DEF Phases, Starting
  <1> QED  BY <1>3, <1>4 DEF Fresh

\* What holds of the control state when the streams of mode m are launched.
Eligible(t, m) ==
    /\ t.up = Devices /\ m \in UnicastModes
    /\ t.call \in {"FREE", "INCOMING"} /\ (t.call # "FREE" <=> m = CALL)
    /\ t.call = "INCOMING" => Inband /\ t.ccs = "INBAND_RINGTONE"
    /\ t.call = "FREE" => t.ccs = "IDLE"
    /\ m # MEDIA => t.media # "PLAYING"
    /\ ~t.big /\ ~t.releasing /\ ~t.cigEvt /\ t.iso = {}

\* Then the player is starting the mode.
LEMMA EligibleFresh ==
  ASSUME NEW t, t.mode = IN_TRANSIT, Eligible(t, t.final), t.paused # CALL,
         Launched(t, t.cfg, t.final)
  PROVE  Fresh(t)
  BY DEF Fresh, Control, Eligible, Launched, Begun, On, HeldStates, IN_TRANSIT,
         BROADCAST

\* A mode that is started from NONE.
LEMMA StartsFresh ==
  ASSUME NEW t, Ok(t), t.mode = NONE, t.paused = NONE, NEW m, Eligible(t, m),
         NEW g \in Cfg, Launched(t, g, m)
  PROVE  Fresh(SetNextAudioMode(t, m, g))
PROOF
  <1> DEFINE u == SetNextAudioMode(t, m, g)
  <1>1. m \in FinalModes
    BY UnicastFacts DEF Eligible
  <1>2. /\ u.mode = IN_TRANSIT /\ u.final = m /\ u.paused = NONE /\ u.cfg = g
        /\ u.media = t.media /\ u.call = t.call /\ u.ccs = t.ccs
        /\ SameStreams(t, u)
    <2>1. u.media = t.media /\ u.paused = t.paused
      BY DEF SetNextAudioMode, Ok, App
    <2> QED  BY <1>1, <2>1, SetNextFields
  <1> HIDE DEF u
  <1>3. Launched(u, u.cfg, u.final)
    BY <1>2, LaunchedStays
  <1>4. Eligible(u, u.final)
    BY <1>2 DEF Eligible, SameStreams, SameIso
  <1> QED  BY <1>2, <1>3, <1>4, DistinctModes, EligibleFresh DEF u

\* Returning to the mode that was interrupted launches its streams.
LEMMA ReturnLaunches ==
  ASSUME Suited, NEW s, Ok(s), Clear(s), NEW c \in Devices,
         s.mode \in {NONE, IN_TRANSIT}, s.paused \in {MEDIA, MIC, BIDIRMIC},
         s.media # "PLAYING"
  PROVE  LET t == ResumePaused(s, c)
         IN  /\ Ok(t) /\ Launched(t, t.cfg, t.final) /\ SameIso(s, t)
             /\ t.mode = IN_TRANSIT /\ t.final = s.paused /\ t.paused = NONE
             /\ t.call = s.call /\ t.ccs = s.ccs
             /\ t.media = IF s.paused = MEDIA THEN "PLAYING" ELSE s.media
PROOF
  <1> DEFINE m == s.paused
             cfg == ResumeCfg(s, c, m, s.pcfg)
             r   == ResumeStreaming(s, c, m, s.pcfg)
             u   == [r EXCEPT !.pcfg = cfg]
             v   == SetNextAudioMode(u, m, cfg)
             t   == [v EXCEPT !.paused = NONE]
  <1>1. c \in Conn /\ cfg \in Cfg /\ s.pcfg \in Cfg /\ m \in FinalModes
        /\ m # CALL
    BY ConfigurationTypes, FinalType, ModeNames, DeviceAssumption
    DEF MEDIA, MIC, BIDIRMIC, CALL
  <1>2. ResumePaused(s, c) = t
    BY DEF ResumePaused
  <1>3. Ok(r) /\ Launched(r, cfg, m) /\ ResumeFields(s, r, m)
    BY <1>1, ResumeLaunches
  <1> HIDE DEF cfg, r
  <1>4. Ok(u) /\ SamePlay(r, u) /\ SameStreams(r, u) /\ u.ccs = r.ccs
    <2>1. u.ccs = r.ccs
      BY <1>3 DEF Ok, App
    <2> QED  BY <1>1, <1>3, <2>1, SetCfg, PlainFields
  <1>5. u.mode = s.mode /\ u.call = s.call /\ u.ccs = s.ccs
        /\ u.media = IF m = MEDIA THEN "PLAYING" ELSE s.media
    BY <1>1, <1>3, <1>4 DEF ResumeFields, SamePlay, SameMode
  <1> HIDE DEF u
  <1>6. v.media = u.media
    BY <1>4, <1>5 DEF SetNextAudioMode, Ok, App
  <1>7. /\ Ok(v) /\ SameStreams(u, v) /\ v.ccs = u.ccs /\ v.call = u.call
        /\ v.cfg = cfg /\ v.mode = IN_TRANSIT /\ v.final = m
    BY <1>1, <1>4, SetNextOk, SetNextFields
  <1> HIDE DEF v
  <1>8. /\ Ok(t) /\ SameStreams(v, t) /\ t.ccs = v.ccs /\ t.call = v.call
        /\ t.cfg = cfg /\ t.mode = IN_TRANSIT /\ t.final = m
        /\ t.paused = NONE /\ t.media = v.media
    <2>1. Ok(t)
      BY <1>7, ModeFacts DEF Ok, App, Listed
    <2>2. SameStreams(v, t)
      BY <1>7, PlainFields
    <2> QED  BY <1>7, <2>1, <2>2 DEF Ok, App
  <1> HIDE DEF t
  <1>9. Launched(t, t.cfg, t.final)
    BY <1>3, <1>4, <1>7, <1>8, LaunchedStays
  <1>10. SameIso(s, t)
    BY <1>3, <1>4, <1>7, <1>8 DEF ResumeFields, SameStreams, SameIso
  <1> QED  BY <1>2, <1>5, <1>6, <1>7, <1>8, <1>9, <1>10

\* The state at the end of a release.
Emptied(u) ==
    /\ Control(u) /\ u.mode = IN_TRANSIT /\ ~u.cigEvt /\ u.iso = {}
    /\ u.final \in {NONE, MIC, BIDIRMIC, CALL}
    /\ u.final # NONE => u.paused # NONE
    /\ u.call \in {"FREE", "INCOMING"} /\ u.ccs = "IDLE"
    /\ Silent(u) /\ u.paused \in Resumable

\* What a release comes back to.
LEMMA ReleasedFresh ==
  ASSUME Suited, NEW u, Ok(u), Emptied(u), NEW c \in Devices
  PROVE  Fresh(Released(u, c)) /\ Released(u, c).ast = u.ast
PROOF
  <1> DEFINE t == [u EXCEPT !.list = EmptyList, !.releasing = FALSE]
             v == Released(u, c)
  <1>1. /\ Ok(t) /\ t.list = EmptyList /\ ~t.releasing /\ SamePlay(u, t)
        /\ t.ast = u.ast /\ t.out = u.out /\ t.cid = u.cid /\ t.cigEvt = u.cigEvt
        /\ t.iso = u.iso /\ t.big = u.big /\ t.ccs = u.ccs
    <2>1. /\ t.list = EmptyList /\ ~t.releasing /\ SamePlay(u, t)
          /\ t.ast = u.ast /\ t.out = u.out /\ t.cid = u.cid /\ t.cigEvt = u.cigEvt
          /\ t.iso = u.iso /\ t.big = u.big /\ t.ccs = u.ccs
      BY DEF Ok, App, SamePlay, SameMode
    <2>2. t \in App
      BY EmptyListType DEF Ok, App
    <2> QED  BY <2>1, <2>2 DEF Ok, Listed, EmptyList, SamePlay, SameMode
  <1>2. v = IF t.paused = NONE THEN [t EXCEPT !.mode = t.final]
            ELSE IF t.final # NONE
                   THEN [ResumeStreaming(t, c, t.final, t.cfg) EXCEPT
                           !.cfg = ResumeCfg(t, c, t.final, t.cfg)]
                   ELSE ResumePaused(t, c)
    BY DEF Released
  <1> HIDE DEF t, v
  <1>3. /\ Control(t) /\ t.mode = IN_TRANSIT /\ ~t.cigEvt /\ t.iso = {}
        /\ t.final \in {NONE, MIC, BIDIRMIC, CALL}
        /\ t.final # NONE => t.paused # NONE
        /\ t.call \in {"FREE", "INCOMING"} /\ t.ccs = "IDLE"
        /\ Silent(t) /\ t.paused \in Resumable /\ ~t.big
    BY <1>1 DEF Emptied, Control, Ranked, Silent, SamePlay, SameMode, IN_TRANSIT,
       BROADCAST
  <1>4. Clear(t) /\ Quiet(t)
    BY <1>1, <1>3 DEF Clear, Quiet, Control
  <1>5. t.final # MEDIA /\ t.media # "PLAYING"
    BY <1>3 DEF Control, NONE, MEDIA, MIC, BIDIRMIC, CALL
  <1>6. CASE t.paused = NONE
    <2>1. v = [t EXCEPT !.mode = NONE] /\ t.final = NONE
      BY <1>2, <1>3, <1>6
    <2>2. /\ v.mode = NONE /\ v.final = t.final /\ v.paused = t.paused
          /\ v.media = t.media /\ v.call = t.call /\ v.ccs = t.ccs
          /\ SameStreams(t, v)
      BY <1>1, <2>1 DEF Ok, App, SameStreams, SameIso
    <2>3. Control(v)
      BY <1>3, <2>2 DEF Control, SameStreams, SameIso, Ranked, NONE, BROADCAST
    <2>4. Rests(v) /\ Silent(v) /\ v.ast = t.ast
      BY <1>3, <1>4, <1>6, <2>2 DEF Rests, Quiet, SameStreams, SameIso, Silent
    <2> QED  BY <1>1, <2>3, <2>4 DEF Fresh, v
  <1>7. CASE t.paused # NONE /\ t.final # NONE
    <2> DEFINE g == ResumeCfg(t, c, t.final, t.cfg)
               r == ResumeStreaming(t, c, t.final, t.cfg)
    <2>1. v = [r EXCEPT !.cfg = g]
      BY <1>2, <1>7
    <2>2. t.cfg \in Cfg /\ c \in Conn
      BY <1>1, FinalType, DeviceAssumption
    <2>3. CASE t.final # CALL \/ Inband
      <3>1. t.final \in {MEDIA, MIC, BIDIRMIC} \/ (t.final = CALL /\ Inband)
        BY <1>3, <1>7, <2>3
      <3>2. Ok(r) /\ Launched(r, g, t.final) /\ ResumeFields(t, r, t.final)
        BY <1>1, <1>4, <1>5, <2>2, <3>1, ResumeLaunches
      <3>3. g \in Cfg
        BY <2>2, ConfigurationTypes
      <3> HIDE DEF g, r
      <3>4. /\ v.cfg = g /\ SameStreams(r, v) /\ SamePlay(r, v) /\ v.ccs = r.ccs
        <4>1. v.cfg = g /\ v.ccs = r.ccs
          BY <2>1, <3>2 DEF Ok, App
        <4> QED  BY <2>1, <3>2, <3>3, <4>1, SetCfg, PlainFields
      <3>5. /\ v.mode = IN_TRANSIT /\ v.final = t.final /\ v.paused = t.paused
            /\ v.call = t.call /\ v.up = t.up /\ v.media = t.media
            /\ v.ccs = (IF t.final = CALL THEN "INBAND_RINGTONE" ELSE t.ccs)
            /\ v.ast = t.ast /\ SameIso(t, v)
        BY <1>3, <1>5, <3>2, <3>4
        DEF ResumeFields, SameStreams, SameIso, SamePlay, SameMode
      <3>6. Launched(v, v.cfg, v.final)
        BY <3>2, <3>4, <3>5, LaunchedStays
      <3>7. v.final \in UnicastModes
        BY <3>1, <3>5 DEF UnicastModes
      <3>8. Eligible(v, v.final)
        BY <1>1, <1>3, <1>5, <2>3, <3>5, <3>7 DEF Eligible, SameIso, Control
      <3>9. v.paused # CALL
        BY <1>3, <3>5 DEF Control
      <3> QED  BY <1>1, <3>5, <3>6, <3>8, <3>9, EligibleFresh DEF v
    <2>4. CASE t.final = CALL /\ ~Inband
      <3>1. r = [t EXCEPT !.ccs = "INBAND_RINGTONE"] /\ g = t.cfg
        BY <2>4 DEF ResumeStreaming, ResumeCfg, IncomingCall, IncomingCfg,
           RingtoneSupported, CALL, MEDIA, MIC, BIDIRMIC
      <3>2. v = [r EXCEPT !.cfg = t.cfg]
        BY <2>1, <3>1
      <3> HIDE DEF r, g
      <3>3. /\ v.mode = t.mode /\ v.final = t.final /\ v.paused = t.paused
            /\ v.media = t.media /\ v.call = t.call /\ v.ccs = "INBAND_RINGTONE"
            /\ SameStreams(t, v)
        BY <1>1, <3>1, <3>2 DEF Ok, App, SameStreams, SameIso
      <3>4. t.call = "INCOMING"
        BY <1>3, <2>4 DEF Control
      <3>5. Control(v)
        BY <1>3, <3>3, <3>4 DEF Control, SameStreams, SameIso, Ranked, HeldStates
      <3>6. Alerts(v) /\ Silent(v) /\ v.ast = t.ast
        BY <1>3, <1>4, <2>4, <3>3, <3>4
        DEF Alerts, Quiet, SameStreams, SameIso, Silent
      <3> QED  BY <1>1, <3>5, <3>6 DEF Fresh, v
    <2> QED  BY <2>3, <2>4
  <1>8. CASE t.paused # NONE /\ t.final = NONE
    <2>1. v = ResumePaused(t, c)
      BY <1>2, <1>8
    <2>2. t.paused \in {MEDIA, MIC, BIDIRMIC}
      BY <1>3, <1>8 DEF Resumable, Control
    <2>3. /\ Ok(v) /\ Launched(v, v.cfg, v.final) /\ SameIso(t, v)
          /\ v.mode = IN_TRANSIT /\ v.final = t.paused /\ v.paused = NONE
          /\ v.call = t.call /\ v.ccs = t.ccs
          /\ v.media = IF t.paused = MEDIA THEN "PLAYING" ELSE t.media
      BY <1>1, <1>3, <1>4, <1>5, <2>1, <2>2, ReturnLaunches
    <2>4. t.call = "FREE"
      BY <1>3, <1>8, DistinctModes DEF Control
    <2>5. v.final \in UnicastModes /\ v.final # CALL
      BY <2>2, <2>3 DEF UnicastModes, MEDIA, MIC, BIDIRMIC, CALL
    <2>6. Eligible(v, v.final)
      BY <1>1, <1>3, <1>5, <2>3, <2>4, <2>5 DEF Eligible, SameIso, Control
    <2>7. v.paused # CALL /\ v.ast = t.ast
      BY <2>3, DistinctModes DEF SameIso
    <2> QED  BY <1>1, <2>3, <2>6, <2>7, EligibleFresh DEF v
  <1> QED  BY <1>6, <1>7, <1>8

-----------------------------------------------------------------------------
(* The release of the streams                                                *)

\* An ASE that is being released loses its CIS; the release goes on.
LEMMA TornStep ==
  ASSUME IInv, Phases, Leaving, NEW c \in Conn, Deliver(c), NEW a \in Ase,
         Head(nq[c]).ase = a, InList(app.list, a),
         \/ Telling(RELEASING, a) /\ srv[a] = RELEASING
         \/ /\ None(app.out[c], a) /\ srv[a] = LastState(a)
            /\ Two(nq[c], a, StateOf(a, RELEASING), StateOf(a, LastState(a)))
  PROVE  Phases'
PROOF
  <1>1. a \in OwnAse(c) /\ c \in app.up /\ Owner[a] = c
    BY Delivery DEF OwnAse
  <1>2. /\ app' = AseNotification(app, c, a, RELEASING) /\ None(app.out[c], a)
        /\ \/ None(nq'[c], a) /\ srv[a] = RELEASING
           \/ One(nq'[c], a, StateOf(a, LastState(a))) /\ srv[a] = LastState(a)
    <2>1. CASE Telling(RELEASING, a) /\ srv[a] = RELEASING
      <3>1. None(app.out[c], a) /\ One(nq[c], a, StateOf(a, RELEASING))
        BY <1>1, <2>1 DEF Telling
      <3> QED  BY <2>1, <3>1, Delivery
    <2>2. CASE /\ None(app.out[c], a) /\ srv[a] = LastState(a)
               /\ Two(nq[c], a, StateOf(a, RELEASING), StateOf(a, LastState(a)))
      <3>1. \A st, x : Two(nq[c], a, StateOf(a, st), StateOf(a, x)) =>
              /\ app' = AseNotification(app, c, a, st)
              /\ One(nq'[c], a, StateOf(a, x))
        BY Delivery
      <3> QED  BY <2>2, <3>1
    <2> QED  BY <2>1, <2>2
  <1>3. app.releasing /\ app.mode = IN_TRANSIT /\ Ok(app)
    BY QueueTypes DEF Leaving
  <1>4. /\ app'.ast = [app.ast EXCEPT ![a] = RELEASING] /\ app'.out = app.out
        /\ SameUse(app, app') /\ app'.iso = app.iso \ {app.cid[a]}
    <2>1. Torn(app, AseNotification(app, c, a, RELEASING), a)
      BY <1>1, <1>3, TearsDown
    <2> QED  BY <1>2, <2>1 DEF Torn
  <1>5. /\ \A b \in Ase : b # a => Unmoved(b)
        /\ app'.ast[a] = RELEASING /\ srv' = srv
    <2>1. \A d \in Conn : app'.out[d] = app.out[d]
      BY <1>4
    <2>2. \A b \in Ase : Same(app.out[c], app'.out[c], b)
      BY <2>1, SameQueue
    <2> QED  BY <1>4, <2>1, <2>2, AseStateFacts, DeliveredOthers
  <1>6. Going(a)'
    <2>1. None(app'.out[Owner[a]], a)
      BY <1>1, <1>2, <1>4
    <2>2. CASE None(nq'[c], a) /\ srv[a] = RELEASING
      <3>1. Hushed(a)'
        BY <1>1, <2>1, <2>2 DEF Hushed
      <3> QED  BY <1>5, <2>2, <3>1 DEF Going, RELEASING
    <2>3. CASE One(nq'[c], a, StateOf(a, LastState(a))) /\ srv[a] = LastState(a)
      <3>1. Telling(LastState(a), a)'
        BY <1>1, <2>1, <2>3 DEF Telling, LastState, CODEC_CONFIGURED, IDLE
      <3> QED
        BY <1>5, <2>3, <3>1 DEF Going, RELEASING, LastState, CODEC_CONFIGURED, IDLE
    <2> QED  BY <1>2, <2>2, <2>3
  <1>7. /\ app'.list = app.list /\ app'.releasing = app.releasing
        /\ app'.mode = app.mode /\ app'.cigEvt = app.cigEvt
        /\ app'.final = app.final /\ app'.paused = app.paused
        /\ app'.call = app.call /\ app'.ccs = app.ccs /\ app'.cid = app.cid
    BY <1>4 DEF SameUse
  <1>8. Control(app')
    BY <1>4, UseKept DEF Phases
  <1>9. \A i \in app'.iso : \E b \in Ase : /\ InList(app'.list, b)
                                           /\ app'.cid[b] = i /\ app'.ast[b] = STREAMING
    <2> SUFFICES ASSUME NEW i \in app'.iso
                 PROVE  \E b \in Ase : /\ InList(app'.list, b)
                                       /\ app'.cid[b] = i /\ app'.ast[b] = STREAMING
      OBVIOUS
    <2>1. i \in app.iso /\ i # app.cid[a]
      BY <1>4
    <2>2. PICK b \in Ase : InList(app.list, b) /\ app.cid[b] = i /\ app.ast[b] = STREAMING
      BY <2>1 DEF Leaving
    <2>3. b # a
      BY <2>1, <2>2
    <2>4. app'.ast[b] = STREAMING
      BY <1>5, <2>2, <2>3 DEF Unmoved
    <2> QED  BY <1>7, <2>2, <2>4
  <1>10. \A b \in Ase : IF InList(app'.list, b) THEN Going(b)' \/ Gone(b)'
                        ELSE Resting(b)'
    BY <1>5, <1>6, <1>7, StageKept DEF Leaving
  <1>11. /\ app'.list # EmptyList /\ app'.releasing
         /\ app'.mode = IN_TRANSIT /\ ~app'.cigEvt
         /\ app'.final \in {NONE, MIC, BIDIRMIC, CALL}
         /\ app'.final # NONE => app'.paused # NONE
         /\ app'.call \in {"FREE", "INCOMING"} /\ app'.ccs = "IDLE"
    BY <1>7 DEF Leaving
  <1>12. Leaving'
    BY <1>6, <1>7, <1>9, <1>10, <1>11 DEF Leaving, NONE, MIC, BIDIRMIC, CALL,
       IN_TRANSIT, EmptyList, STREAMING
  <1> QED  BY <1>8, <1>12 DEF Phases

\* An ASE was released: the last one ends the release, and what comes next
\* begins.
LEMMA LastStep ==
  ASSUME IInv, Phases, StepKept, Suited, Alike, Leaving, NEW c \in Conn, Deliver(c),
         NEW a \in Ase, Head(nq[c]).ase = a, InList(app.list, a),
         Telling(LastState(a), a), srv[a] = LastState(a), app.ast[a] = RELEASING
  PROVE  Phases'
PROOF
  <1>1. a \in OwnAse(c) /\ c \in app.up /\ Owner[a] = c
    BY Delivery DEF OwnAse
  <1>2. PICK st \in {IDLE, CODEC_CONFIGURED} : st = LastState(a)
    BY DEF LastState
  <1>3. /\ None(app.out[c], a) /\ app' = AseNotification(app, c, a, st)
        /\ None(nq'[c], a)
    <2>1. None(app.out[c], a) /\ One(nq[c], a, StateOf(a, st))
      BY <1>1, <1>2 DEF Telling
    <2>2. \A x : One(nq[c], a, StateOf(a, x)) =>
            app' = AseNotification(app, c, a, x) /\ None(nq'[c], a)
      BY Delivery
    <2> QED  BY <2>1, <2>2
  <1>4. app.releasing /\ app.mode = IN_TRANSIT /\ Ok(app)
    BY QueueTypes DEF Leaving
  <1>0. PICK u : /\ Freed(app, u, a, st)
                 /\ AseNotification(app, c, a, st) =
                      IF AllInState(u, st) THEN Released(u, c) ELSE u
    BY <1>1, <1>4, ReleasesOne
  <1>5. /\ Ok(u) /\ u.ast = [app.ast EXCEPT ![a] = st] /\ u.out = app.out
        /\ u.cid = [app.cid EXCEPT ![a] = IF st = IDLE THEN 0 ELSE @]
        /\ SameUse(app, [u EXCEPT !.cid = app.cid]) /\ SameCig(app, u)
        /\ AseNotification(app, c, a, st) =
             IF AllInState(u, st) THEN Released(u, c) ELSE u
    BY <1>0 DEF Freed
  <1>6. /\ u.list = app.list /\ u.releasing = app.releasing
        /\ u.mode = app.mode /\ u.cigEvt = app.cigEvt
        /\ u.final = app.final /\ u.paused = app.paused
        /\ u.call = app.call /\ u.ccs = app.ccs /\ u.up = app.up
        /\ u.media = app.media /\ u.big = app.big /\ u.iso = app.iso
    BY <1>5 DEF Ok, App, SameUse, SameCig
  <1>7. /\ u.ast[a] = st /\ \A b \in Ase : b # a => u.ast[b] = app.ast[b]
        /\ u.cid[a] \in {0, app.cid[a]}
        /\ \A b \in Ase : b # a => u.cid[b] = app.cid[b]
    BY <1>4, <1>5 DEF Ok, App, AseState, CisIds
  <1>8. Control(u)
    <2>1. Ranked(u)
      BY <1>7 DEF Phases, Control, Ranked
    <2> QED  BY <1>6, <2>1 DEF Phases, Control
  <1>9. /\ srv' = srv
        /\ \A b \in Ase : b # a => Same(nq[c], nq'[c], b)
        /\ \A d \in Conn : d # c => nq'[d] = nq[d]
    BY Delivery
  <1>10. \A b \in Ase : InList(app.list, b) => LastState(b) = st
    <2> SUFFICES ASSUME NEW b \in Ase, InList(app.list, b)
                 PROVE  LastState(b) = st
      OBVIOUS
    <2>1. Owner[b] \in Devices /\ c \in Devices
      BY <1>1, <1>4, DeviceAssumption DEF InList, Ok, Listed, Phases, Control
    <2> QED  BY <1>1, <1>2, <2>1 DEF LastState, Alike
  <1>11. \A b \in Ase : InList(app.list, b) =>
           \/ b = a
           \/ Going(b) /\ u.ast[b] \in {STREAMING, RELEASING}
           \/ Gone(b) /\ u.ast[b] = st
    <2> SUFFICES ASSUME NEW b \in Ase, InList(app.list, b), b # a
                 PROVE  \/ Going(b) /\ u.ast[b] \in {STREAMING, RELEASING}
                        \/ Gone(b) /\ u.ast[b] = st
      OBVIOUS
    <2>1. Going(b) \/ Gone(b)
      BY DEF Leaving
    <2>2. CASE Going(b)
      BY <1>7, <2>2 DEF Going
    <2>3. CASE Gone(b)
      BY <1>7, <1>10, <2>3 DEF Gone
    <2> QED  BY <2>1, <2>2, <2>3
  <1>12. st # STREAMING /\ st # RELEASING /\ st <= CODEC_CONFIGURED
    BY DEF IDLE, CODEC_CONFIGURED, STREAMING, RELEASING
  <1>13. \A i \in app.iso : \E b \in Ase : /\ InList(app.list, b) /\ b # a
                                           /\ u.cid[b] = i /\ u.ast[b] = STREAMING
    <2> SUFFICES ASSUME NEW i \in app.iso
                 PROVE  \E b \in Ase : /\ InList(app.list, b) /\ b # a
                                       /\ u.cid[b] = i /\ u.ast[b] = STREAMING
      OBVIOUS
    <2>1. PICK b \in Ase : InList(app.list, b) /\ app.cid[b] = i /\ app.ast[b] = STREAMING
      BY DEF Leaving
    <2>2. b # a
      BY <2>1, AseStateFacts
    <2> QED  BY <1>7, <2>1, <2>2
  <1>14. CASE ~AllInState(u, st)
    <2>1. app' = u
      BY <1>3, <1>5, <1>14
    <2>2. \A b \in Ase : b # a => Unmoved(b)
      <3>1. app'.out = app.out
        BY <1>5, <2>1
      <3>2. \A d \in Conn : d # Owner[a] => app'.out[d] = app.out[d] /\ nq'[d] = nq[d]
        BY <1>1, <1>9, <3>1
      <3>3. \A b \in Ase : b # a => srv'[b] = srv[b] /\ app'.ast[b] = app.ast[b]
        BY <1>7, <1>9, <2>1
      <3>4. \A b \in Ase : b # a => /\ Same(app.out[Owner[a]], app'.out[Owner[a]], b)
                                    /\ Same(nq[Owner[a]], nq'[Owner[a]], b)
        BY <1>1, <1>9, <3>1, SameQueue
      <3> QED  BY <3>2, <3>3, <3>4, OthersUnmoved
    <2>3. Gone(a)'
      <3>1. Hushed(a)'
        BY <1>1, <1>3, <1>5, <2>1 DEF Hushed
      <3>2. srv'[a] = LastState(a) /\ app'.ast[a] = LastState(a)
        BY <1>2, <1>7, <1>9, <2>1
      <3> QED  BY <3>1, <3>2 DEF Gone, LastState, CODEC_CONFIGURED, IDLE
    <2>4. \A b \in Ase : IF InList(app'.list, b) THEN Going(b)' \/ Gone(b)'
                         ELSE Resting(b)'
      BY <1>6, <2>1, <2>2, <2>3, StageKept DEF Leaving
    <2>5. PICK i \in Slots : u.list[i] # NULL /\ u.ast[u.list[i]] # st
      BY <1>14 DEF AllInState
    <2>6. u.list[i] \in Ase /\ InList(app.list, u.list[i]) /\ u.list[i] # a
      BY <1>5, <1>6, <1>7, <2>5 DEF Ok, App, AseLists, InList
    <2>7. PICK b \in Ase : InList(app.list, b) /\ b # a /\ Going(b)
      BY <1>11, <2>5, <2>6
    <2>8. Going(b)' /\ InList(app'.list, b)
      BY <1>6, <2>1, <2>2, <2>7, StageKept
    <2>9. \A j \in app'.iso : \E d \in Ase : /\ InList(app'.list, d)
                                             /\ app'.cid[d] = j /\ app'.ast[d] = STREAMING
      BY <1>6, <1>13, <2>1
    <2>10. /\ app'.list # EmptyList /\ app'.releasing
           /\ app'.mode = IN_TRANSIT /\ ~app'.cigEvt
           /\ app'.final \in {NONE, MIC, BIDIRMIC, CALL}
           /\ app'.final # NONE => app'.paused # NONE
           /\ app'.call \in {"FREE", "INCOMING"} /\ app'.ccs = "IDLE"
      BY <1>6, <2>1 DEF Leaving
    <2>11. Leaving'
      BY <2>4, <2>8, <2>9, <2>10 DEF Leaving, NONE, MIC, BIDIRMIC, CALL,
         IN_TRANSIT, EmptyList, STREAMING
    <2> QED  BY <1>8, <2>1, <2>11 DEF Phases
  <1>15. CASE AllInState(u, st)
    <2>1. app' = Released(u, c)
      BY <1>3, <1>5, <1>15
    <2>2. \A b \in Ase : InList(app.list, b) => u.ast[b] = st
      <3> SUFFICES ASSUME NEW b \in Ase, InList(app.list, b)
                   PROVE  u.ast[b] = st
        OBVIOUS
      <3>1. PICK i \in Slots : u.list[i] = b
        BY <1>6 DEF InList
      <3>2. b # NULL
        BY DeviceAssumption
      <3> QED  BY <1>15, <3>1, <3>2 DEF AllInState
    <2>3. \A b \in Ase : InList(app.list, b) /\ b # a => Gone(b)
      BY <1>11, <1>12, <2>2
    <2>4. app.iso = {}
      BY <1>12, <1>13, <2>2
    <2>5. \A b \in Ase : b # a =>
            /\ None(app.out[Owner[b]], b) /\ None(nq[Owner[b]], b)
            /\ srv[b] = app.ast[b] /\ srv[b] <= CODEC_CONFIGURED
      <3> SUFFICES ASSUME NEW b \in Ase, b # a
                   PROVE  /\ None(app.out[Owner[b]], b) /\ None(nq[Owner[b]], b)
                          /\ srv[b] = app.ast[b] /\ srv[b] <= CODEC_CONFIGURED
        OBVIOUS
      <3>1. CASE InList(app.list, b)
        BY <1>10, <1>12, <2>3, <3>1 DEF Gone, Hushed
      <3>2. CASE ~InList(app.list, b)
        BY <3>2 DEF Leaving, Resting, Hushed
      <3> QED  BY <3>1, <3>2
    <2>6. \A b \in Ase : None(nq'[Owner[b]], b)
      <3> SUFFICES ASSUME NEW b \in Ase
                   PROVE  None(nq'[Owner[b]], b)
        OBVIOUS
      <3>1. CASE b = a
        BY <1>1, <1>3, <3>1
      <3>2. CASE b # a /\ Owner[b] = c
        BY <1>9, <2>5, <3>2 DEF Same
      <3>3. CASE b # a /\ Owner[b] # c
        BY <1>9, <2>5, <3>3, DeviceAssumption
      <3> QED  BY <3>1, <3>2, <3>3
    <2>7. Silent(u)
      BY <1>1, <1>3, <1>5, <2>5 DEF Silent
    <2>8. Emptied(u)
      <3>1. u.paused \in Resumable
        BY <1>6 DEF IInv, AppInv
      <3> QED  BY <1>4, <1>6, <1>8, <2>4, <2>7, <3>1 DEF Emptied, Leaving
    <2>9. c \in Devices
      BY <1>1 DEF Phases, Control
    <2>10. Fresh(app') /\ app'.ast = u.ast
      BY <1>5, <2>1, <2>8, <2>9, ReleasedFresh
    <2>11. \A b \in Ase : srv'[b] = app'.ast[b] /\ srv'[b] <= CODEC_CONFIGURED
      BY <1>2, <1>7, <1>9, <1>12, <2>5, <2>10
    <2>12. Ok(app')
      BY DEF StepKept, IInv, AppInv
    <2> QED  BY <2>6, <2>10, <2>11, <2>12, FreshPhases
  <1> QED  BY <1>14, <1>15

\* Every notification keeps the phases.
LEMMA DeliverStep ==
  ASSUME IInv, Phases, StepKept, Suited, Alike, NEW c \in Conn, Deliver(c)
  PROVE  Phases'
PROOF
  <1>1. PICK a \in Ase :
           /\ Head(nq[c]).ase = a /\ a \in OwnAse(c) /\ c \in app.up
           /\ ~Resting(a) /\ ~Ready(a) /\ ~Gone(a)
           /\ Configuring(a) =>
                /\ app.ast[a] <= QOS_CONFIGURED
                /\ \E st \in {CODEC_CONFIGURED, QOS_CONFIGURED, ENABLING} :
                     Telling(st, a) /\ srv[a] = st
           /\ Flowing(a) => Telling(STREAMING, a) /\ srv[a] = STREAMING
           /\ Going(a) =>
                \/ Telling(RELEASING, a) /\ srv[a] = RELEASING
                \/ /\ None(app.out[c], a) /\ srv[a] = LastState(a)
                   /\ Two(nq[c], a, StateOf(a, RELEASING), StateOf(a, LastState(a)))
                \/ /\ Telling(LastState(a), a) /\ srv[a] = LastState(a)
                   /\ app.ast[a] = RELEASING
    BY DeliverStages
  <1>2. Starting \/ Running \/ Leaving
    BY <1>1 DEF Phases, Rest, Rings, Awaiting
  <1>3. CASE Starting
    <2>1. InList(app.list, a) /\ Configuring(a)
      BY <1>1, <1>3 DEF Starting
    <2>2. PICK st \in {CODEC_CONFIGURED, QOS_CONFIGURED, ENABLING} :
                 Telling(st, a) /\ srv[a] = st
      BY <1>1, <2>1
    <2>3. CASE st = ENABLING
      <3>1. Telling(ENABLING, a) /\ srv[a] = ENABLING
        BY <2>2, <2>3
      <3> QED  BY <1>1, <1>3, <2>1, <3>1, EnabledStep
    <2>4. CASE st \in {CODEC_CONFIGURED, QOS_CONFIGURED}
      BY <1>1, <1>3, <2>1, <2>2, <2>4, ConfiguredStep
    <2> QED  BY <2>3, <2>4
  <1>4. CASE Running
    <2>1. InList(app.list, a) /\ Flowing(a)
      BY <1>1, <1>4 DEF Running
    <2> QED  BY <1>1, <1>4, <2>1, StreamingStep
  <1>5. CASE Leaving
    <2>1. InList(app.list, a) /\ Going(a)
      BY <1>1, <1>5 DEF Leaving
    <2>2. CASE \/ Telling(RELEASING, a) /\ srv[a] = RELEASING
               \/ /\ None(app.out[c], a) /\ srv[a] = LastState(a)
                  /\ Two(nq[c], a, StateOf(a, RELEASING), StateOf(a, LastState(a)))
      BY <1>1, <1>5, <2>1, <2>2, TornStep
    <2>3. CASE /\ Telling(LastState(a), a) /\ srv[a] = LastState(a)
               /\ app.ast[a] = RELEASING
      BY <1>1, <1>5, <2>1, <2>3, LastStep
    <2> QED  BY <1>1, <2>1, <2>2, <2>3
  <1> QED  BY <1>2, <1>3, <1>4, <1>5

-----------------------------------------------------------------------------
(* The CIG                                                                   *)

\* A set of natural numbers that is not empty has a least element.
LEMMA LeastOne ==
  ASSUME NEW S \in SUBSET Nat, S # {}
  PROVE  \E x \in S : \A y \in S : x <= y
PROOF
  <1> DEFINE R == {ss \in Nat \X Nat : ss[1] < ss[2]}
  <1>1. IsWellFoundedOn(R, Nat)
    BY NatLessThanWellFounded DEF OpToRel
  <1>2. \E x \in S : \A y \in S : ~(<<y, x>> \in R)
    <2> HIDE DEF R
    <2> QED  BY <1>1, WFMin
  <1>3. PICK x \in S : \A y \in S : ~(<<y, x>> \in R)
    BY <1>2
  <1>4. ASSUME NEW y \in S
        PROVE  x <= y
    <2>1. x \in Nat /\ y \in Nat
      OBVIOUS
    <2>2. ~(<<y, x>> \in R)
      BY <1>3
    <2>3. ~(y < x)
      BY <2>1, <2>2
    <2> QED  BY <2>1, <2>3
  <1> QED  BY <1>4

\* r holds the elements of p and of q, all in S.
Joins(S, p, q, r) ==
    /\ r \in Seq(S)
    /\ \A j \in DOMAIN r :
         /\ r[j] \in S
         /\ \/ \E l \in DOMAIN p : r[j] = p[l]
            \/ \E l \in DOMAIN q : r[j] = q[l]
    /\ \A l \in DOMAIN p : \E j \in DOMAIN r : r[j] = p[l]
    /\ \A l \in DOMAIN q : \E j \in DOMAIN r : r[j] = q[l]

\* The elements of a concatenation are those of its parts.
LEMMA ConcatElements ==
  ASSUME NEW S, NEW p \in Seq(S), NEW q \in Seq(S), NEW r, r = p \o q
  PROVE  Joins(S, p, q, r)
PROOF
  <1> DEFINE k == Len(p)
             n == Len(q)
  <1>1. /\ k \in Nat /\ n \in Nat /\ DOMAIN p = 1..k /\ DOMAIN q = 1..n
        /\ r \in Seq(S) /\ DOMAIN r = 1..(k + n)
    OBVIOUS
  <1>2. \A j \in 1..k : r[j] = p[j] /\ p[j] \in S
    OBVIOUS
  <1>3. \A j \in 1..n : r[k + j] = q[j] /\ q[j] \in S
    OBVIOUS
  <1> HIDE DEF k, n
  <1>4. \A j \in 1..(k + n) : j \in 1..k \/ (j - k \in 1..n /\ j = k + (j - k))
    BY <1>1
  <1>5. ASSUME NEW j \in DOMAIN r
        PROVE  /\ r[j] \in S
               /\ \/ \E l \in DOMAIN p : r[j] = p[l]
                  \/ \E l \in DOMAIN q : r[j] = q[l]
    <2>1. CASE j \in 1..k
      BY <1>1, <1>2, <2>1
    <2>2. CASE j - k \in 1..n /\ j = k + (j - k)
      <3> DEFINE l == j - k
      <3>1. l \in 1..n /\ j = k + l
        BY <2>2
      <3> HIDE DEF l
      <3> QED  BY <1>1, <1>3, <3>1
    <2> QED  BY <1>1, <1>4, <2>1, <2>2
  <1>6. ASSUME NEW l \in DOMAIN p
        PROVE  \E j \in DOMAIN r : r[j] = p[l]
    <2>1. l \in 1..(k + n)
      BY <1>1
    <2> QED  BY <1>1, <1>2, <2>1
  <1>7. ASSUME NEW l \in DOMAIN q
        PROVE  \E j \in DOMAIN r : r[j] = q[l]
    <2>1. k + l \in 1..(k + n)
      BY <1>1
    <2> QED  BY <1>1, <1>3, <2>1
  <1> QED  BY <1>1, <1>5, <1>6, <1>7 DEF Joins

\* ases holds the ASEs that carry mode m.
Carriers(ases, m) ==
    /\ ases \in Seq(Ase)
    /\ \A j \in DOMAIN ases : ases[j] \in Ase /\ Carrier(m, ases[j])
    /\ \A b \in Ase : Carrier(m, b) => \E j \in DOMAIN ases : ases[j] = b

\* The ASEs that lepl_create_cis searches for mode m are those that carry it.
LEMMA CarriersOf ==
  ASSUME NEW m
  PROVE  Carriers(IF m = MIC THEN Src[1] \o Src[2] ELSE Snk[1] \o Snk[2], m)
PROOF
  <1>1. /\ 1 \in Conn /\ 2 \in Conn /\ \A c \in Conn : c = 1 \/ c = 2
        /\ \A b \in Ase : Owner[b] = 1 \/ Owner[b] = 2
    BY DeviceAssumption DEF Conn
  <1>2. ASSUME NEW p \in [Conn -> Seq(Ase)], NEW ases, ases = p[1] \o p[2],
               \A c \in Conn : \A j \in DOMAIN p[c] : Owner[p[c][j]] = c,
               \A b : Carrier(m, b) <=>
                 \E j \in DOMAIN p[Owner[b]] : p[Owner[b]][j] = b
        PROVE  Carriers(ases, m)
    <2>1. p[1] \in Seq(Ase) /\ p[2] \in Seq(Ase)
      BY <1>1, <1>2
    <2>2. /\ ases \in Seq(Ase)
          /\ \A j \in DOMAIN ases :
               /\ ases[j] \in Ase
               /\ \/ \E l \in DOMAIN p[1] : ases[j] = p[1][l]
                  \/ \E l \in DOMAIN p[2] : ases[j] = p[2][l]
          /\ \A l \in DOMAIN p[1] : \E j \in DOMAIN ases : ases[j] = p[1][l]
          /\ \A l \in DOMAIN p[2] : \E j \in DOMAIN ases : ases[j] = p[2][l]
      <3>1. ases = p[1] \o p[2]
        BY <1>2
      <3>2. Joins(Ase, p[1], p[2], ases)
        BY <2>1, <3>1, ConcatElements
      <3> QED  BY <3>2 DEF Joins
    <2>3. \A c \in Conn : \A l \in DOMAIN p[c] : Carrier(m, p[c][l])
      BY <1>2
    <2>4. \A j \in DOMAIN ases : Carrier(m, ases[j])
      BY <1>1, <2>2, <2>3
    <2>5. ASSUME NEW b \in Ase, Carrier(m, b)
          PROVE  \E j \in DOMAIN ases : ases[j] = b
      <3>1. \E l \in DOMAIN p[Owner[b]] : p[Owner[b]][l] = b
        BY <1>2, <2>5
      <3>2. CASE Owner[b] = 1
        BY <2>2, <3>1, <3>2
      <3>3. CASE Owner[b] = 2
        BY <2>2, <3>1, <3>3
      <3> QED  BY <1>1, <3>2, <3>3
    <2> QED  BY <2>2, <2>4, <2>5 DEF Carriers
  <1>3. CASE m = MIC
    <2>1. /\ Src \in [Conn -> Seq(Ase)]
          /\ \A c \in Conn : \A j \in DOMAIN Src[c] : Owner[Src[c][j]] = c
      BY DeviceAssumption
    <2>2. \A b : Carrier(m, b) <=>
                   \E j \in DOMAIN Src[Owner[b]] : Src[Owner[b]][j] = b
      BY <1>3 DEF Carrier, IsSrc
    <2>3. Carriers(Src[1] \o Src[2], m)
      BY <1>2, <2>1, <2>2
    <2> QED  BY <1>3, <2>3
  <1>4. CASE m # MIC
    <2>1. /\ Snk \in [Conn -> Seq(Ase)]
          /\ \A c \in Conn : \A j \in DOMAIN Snk[c] : Owner[Snk[c][j]] = c
      BY DeviceAssumption
    <2>2. \A b : Carrier(m, b) <=>
                   \E j \in DOMAIN Snk[Owner[b]] : Snk[Owner[b]][j] = b
      BY <1>4 DEF Carrier, IsSnk
    <2>3. Carriers(Snk[1] \o Snk[2], m)
      BY <1>2, <2>1, <2>2
    <2> QED  BY <1>4, <2>3
  <1> QED  BY <1>3, <1>4

\* An ASE of a mode is known by its rank.
LEMMA RankUnique ==
  ASSUME Suited, NEW a \in Ase, NEW b \in Ase, Owner[a] \in Devices,
         Owner[b] \in Devices, Rank(a) = Rank(b), Rank(a) # 0,
         NEW m, Carrier(m, a), Carrier(m, b)
  PROVE  a = b
PROOF
  <1>1. Owner[a] = Owner[b]
    <2>1. CASE Csis
      BY <2>1 DEF Rank
    <2>2. CASE ~Csis
      BY <2>2 DEF Suited
    <2> QED  BY <2>1, <2>2
  <1> DEFINE d == Owner[a]
  <1>2. /\ Snk[d][1] # Src[d][1] /\ IsSnk(Snk[d][1]) /\ ~IsSrc(Snk[d][1])
        /\ IsSrc(Src[d][1])
        /\ Len(Snk[d]) > 1 => IsSnk(Snk[d][2]) /\ ~IsSrc(Snk[d][2])
    BY RankFacts
  <1>3. ~IsSnk(Src[d][1])
    <2>1. /\ Src[d] \in Seq(OwnAse(d)) /\ Len(Src[d]) > 0
          /\ Src[d][1] \in OwnAse(d)
      BY RankFacts
    <2> HIDE DEF d
    <2>2. 1 \in DOMAIN Src[d] /\ Owner[Src[d][1]] = d
      <3> HIDE DEF OwnAse
      <3>1. 1 \in DOMAIN Src[d]
        BY <2>1
      <3> QED  BY <2>1, <3>1 DEF OwnAse
    <2>3. d \in Devices
      BY DEF d
    <2> QED  BY <2>2, <2>3 DEF IsSnk, Suited
  <1>4. CASE Lead(a)
    <2>1. Lead(b)
      BY <1>1, <1>4, DeviceAssumption DEF Rank, Conn
    <2>2. a \in {Src[d][1], Snk[d][1]} /\ b \in {Src[d][1], Snk[d][1]}
      BY <1>1, <1>4, <2>1 DEF Lead
    <2> QED  BY <1>2, <1>3, <2>2 DEF Carrier
  <1>5. CASE ~Lead(a)
    <2>1. Rank(a) = 2 /\ a = Snk[d][2] /\ ~Csis
      BY <1>5 DEF Rank
    <2>2. ~Lead(b)
      BY <1>1, <2>1 DEF Rank
    <2>3. b = Snk[d][2]
      BY <1>1, <2>1, <2>2 DEF Rank
    <2> QED  BY <2>1, <2>3
  <1> QED  BY <1>4, <1>5

\* The CISs that lepl_create_cis makes for a mode: those of its ASEs.
LEMMA CisMade ==
  ASSUME Suited, NEW s, Ok(s), s.up = Devices, Ranked(s), NEW m \in FinalModes,
         m = s.final, Suits(s, s.cfg, m), s.cig = s.cfg.cis,
         \A a \in Ase : IF InList(s.list, a) THEN s.ast[a] = ENABLING
                        ELSE s.ast[a] <= CODEC_CONFIGURED,
         NEW i
  PROVE  LET ases == IF m = MIC THEN Src[1] \o Src[2] ELSE Snk[1] \o Snk[2]
         IN  /\ i \in 1..s.cig
             /\ \E a \in FindAse(s, i, ases) : s.ast[a] >= QOS_CONFIGURED
             <=> \E a \in Ase : InList(s.list, a) /\ Rank(a) = i
PROOF
  <1> DEFINE ases == IF m = MIC THEN Src[1] \o Src[2] ELSE Snk[1] \o Snk[2]
             hits == {j \in DOMAIN ases : s.cid[ases[j]] = i /\ Owner[ases[j]] \in s.up}
             made == /\ i \in 1..s.cig
                     /\ \E a \in FindAse(s, i, ases) : s.ast[a] >= QOS_CONFIGURED
  <1>1. /\ ases \in Seq(Ase) /\ \A j \in DOMAIN ases : ases[j] \in Ase
        /\ \A j \in DOMAIN ases : Carrier(m, ases[j])
        /\ \A b \in Ase : Carrier(m, b) => \E j \in DOMAIN ases : ases[j] = b
    BY CarriersOf DEF Carriers
  <1>2. FindAse(s, i, ases) = {ases[j] : j \in {k \in hits : \A n \in hits : k <= n}}
    BY DEF FindAse
  <1>3. \A a \in Ase : InList(s.list, a) =>
          /\ s.cid[a] = Rank(a) /\ Rank(a) \in 1..s.cig
          /\ \E b \in Ase : InList(s.list, b) /\ Rank(b) = Rank(a) /\ Carrier(m, b)
    BY DEF Suits, Serves
  <1>4. \A a \in Ase : InList(s.list, a) => Owner[a] \in Devices
    BY DeviceAssumption DEF Ok, Listed, InList
  <1> HIDE DEF ases
  <1>5. ASSUME made
        PROVE  \E a \in Ase : InList(s.list, a) /\ Rank(a) = i
    <2>1. PICK j \in hits : s.ast[ases[j]] >= QOS_CONFIGURED
      BY <1>2, <1>5
    <2>2. ases[j] \in Ase /\ s.cid[ases[j]] = i
      BY <1>1, <2>1
    <2>3. InList(s.list, ases[j])
      BY <2>1, <2>2 DEF CODEC_CONFIGURED, QOS_CONFIGURED, Ok, App, AseState, AseStates
    <2> QED  BY <1>3, <2>2, <2>3
  <1>6. ASSUME NEW a \in Ase, InList(s.list, a), Rank(a) = i
        PROVE  made
    <2>1. PICK b \in Ase : InList(s.list, b) /\ Rank(b) = i /\ Carrier(m, b)
      BY <1>3, <1>6
    <2>2. i \in 1..s.cig /\ s.cid[b] = i /\ Owner[b] \in Devices
      BY <1>3, <1>4, <1>6, <2>1
    <2>3. PICK j \in DOMAIN ases : ases[j] = b
      BY <1>1, <2>1
    <2>4. hits \in SUBSET Nat /\ hits # {}
      <3>1. DOMAIN ases \subseteq Nat
        BY <1>1
      <3> QED  BY <2>2, <2>3, <3>1
    <2>5. PICK k \in hits : \A n \in hits : k <= n
      <3> HIDE DEF hits
      <3> QED  BY <2>4, LeastOne
    <2>6. ases[k] \in Ase /\ s.cid[ases[k]] = i /\ Owner[ases[k]] \in Devices
          /\ Carrier(m, ases[k])
      BY <1>1, <2>5
    <2>7. i # 0
      BY <2>2 DEF Ok, App, CisNums, Cises
    <2>8. Rank(ases[k]) = i
      BY <2>6, <2>7 DEF Ranked
    <2>9. ases[k] = b
      BY <2>1, <2>2, <2>6, <2>7, <2>8, RankUnique
    <2>10. s.ast[b] >= QOS_CONFIGURED
      BY <2>1 DEF ENABLING, QOS_CONFIGURED
    <2> QED  BY <1>2, <2>2, <2>5, <2>9, <2>10
  <1> QED  BY <1>5, <1>6 DEF ases

\* What the completion of the CIG does.
LEMMA CigCompletes ==
  ASSUME Suited, NEW s, Ok(s), s.up = Devices, Ranked(s), s.iso = {},
         Suits(s, s.cfg, s.final), s.cig = s.cfg.cis,
         \A a \in Ase : IF InList(s.list, a) THEN s.ast[a] = ENABLING
                        ELSE s.ast[a] <= CODEC_CONFIGURED
  PROVE  LET t == CigComplete(s)
         IN  /\ t = [s EXCEPT !.cigEvt = FALSE, !.iso = t.iso]
             /\ \A i : i \in t.iso <=> \E a \in Ase : InList(s.list, a) /\ Rank(a) = i
PROOF
  <1> DEFINE ases == IF s.final = MIC THEN Src[1] \o Src[2] ELSE Snk[1] \o Snk[2]
             Hit(i) == \E a \in FindAse(s, i, ases) : s.ast[a] >= QOS_CONFIGURED
             made == {i \in 1..s.cig : Hit(i)}
             t    == [s EXCEPT !.cigEvt = FALSE, !.iso = made]
  <1>1. CigComplete(s) = t
    BY DEF CigComplete, Ok, App
  <1>2. s.final \in FinalModes
    BY DEF Ok, App
  <1>3. ASSUME NEW i
        PROVE  (i \in 1..s.cig /\ Hit(i))
                 <=> \E a \in Ase : InList(s.list, a) /\ Rank(a) = i
    BY <1>2, CisMade
  <1>4. \A i : i \in made <=> i \in 1..s.cig /\ Hit(i)
    OBVIOUS
  <1> HIDE DEF made, Hit
  <1>5. t.iso = made
    BY DEF Ok, App
  <1> QED  BY <1>1, <1>3, <1>4, <1>5

\* The CISs of the listed ASEs are created when the CIG is there.
LEMMA CigStep ==
  ASSUME IInv, Phases, Suited, CigCompleteEvt
  PROVE  Phases'
PROOF
  <1>1. /\ app' = CigComplete(app) /\ app.cigEvt /\ srv' = srv /\ nq' = nq
    BY DEF CigCompleteEvt
  <1>2. Awaiting /\ Control(app)
    BY <1>1 DEF Phases, Rest, Rests, Quiet, Rings, Alerts, Starting, Begun,
                Running, Leaving
  <1>3. Ok(app) /\ app \in App
    BY QueueTypes DEF IInv, AppInv, Ok
  <1>4. \A a \in Ase : IF InList(app.list, a) THEN app.ast[a] = ENABLING
                       ELSE app.ast[a] <= CODEC_CONFIGURED
    BY <1>2 DEF Awaiting, Ready, Resting
  <1>5. /\ app.up = Devices /\ Ranked(app) /\ app.iso = {}
        /\ Suits(app, app.cfg, app.final) /\ app.cig = app.cfg.cis
    BY <1>2 DEF Awaiting, Control, On
  <1>6. /\ app' = [app EXCEPT !.cigEvt = FALSE, !.iso = app'.iso]
        /\ \A i : i \in app'.iso <=> \E a \in Ase : InList(app.list, a) /\ Rank(a) = i
    BY <1>1, <1>3, <1>4, <1>5, CigCompletes
  <1>7. /\ ~app'.cigEvt /\ SamePlay(app, app') /\ app'.ccs = app.ccs
        /\ app'.list = app.list /\ app'.cid = app.cid /\ app'.ast = app.ast
        /\ app'.out = app.out /\ app'.releasing = app.releasing
        /\ app'.cfg = app.cfg /\ app'.big = app.big
    BY <1>3, <1>6 DEF App, SamePlay, SameMode
  <1>8. \A a \in Ase : Unmoved(a)
    BY <1>1, <1>7, SameQueue DEF Unmoved
  <1>9. \A a \in Ase : IF InList(app'.list, a) THEN Ready(a)' ELSE Resting(a)'
    BY <1>2, <1>7, <1>8, StageKept DEF Awaiting
  <1>10. On(app') /\ app'.mode = app'.final
    BY <1>2, <1>7 DEF Awaiting, On, Suits, SamePlay, SameMode
  <1>11. Control(app')
    BY <1>2, <1>7 DEF Control, Ranked, SamePlay, SameMode
  <1>12. Running'
    <2>1. app'.iso = RanksIn(app'.list)
      BY <1>6, <1>7, RanksListed
    <2> QED  BY <1>7, <1>9, <1>10, <2>1 DEF Running
  <1> QED  BY <1>11, <1>12 DEF Phases

\* What the servers, the bearers and the player's events do keeps the phases.
LEMMA ProgressStep ==
  ASSUME IInv, Phases, StepKept, Suited, Alike, Progress, dropping = {}
  PROVE  Phases'
PROOF
  <1>1. ASSUME NEW c \in Conn, ServerWrite(c)
        PROVE  Phases'
    BY <1>1, WriteStep
  <1>2. ASSUME NEW c \in Conn, Deliver(c)
        PROVE  Phases'
    BY <1>2, DeliverStep
  <1>3. ASSUME NEW a \in Ase, ServerStream(a)
        PROVE  Phases'
    BY <1>3, StreamStep
  <1>4. ASSUME NEW a \in Ase, ServerReleased(a)
        PROVE  Phases'
    BY <1>4, FreeStep
  <1>5. CASE CigCompleteEvt
    BY <1>5, CigStep
  <1>6. \A i \in Cises : ~CisDisconnectedEvt(i)
    BY DEF CisDisconnectedEvt
  <1> QED  BY <1>1, <1>2, <1>3, <1>4, <1>5, <1>6 DEF Progress

-----------------------------------------------------------------------------
(* The commands, which wait until everything has settled                     *)

\* In the phases in which everything has settled, the servers have stopped
\* moving: the player rests, a call rings, or a mode is on and streams.
LEMMA SettledPhases ==
  ASSUME IInv, Phases, Settled
  PROVE  /\ Control(app)
         /\ \/ Rest \/ Rings
            \/ /\ Running
               /\ \A a \in Ase : InList(app.list, a) => srv[a] = STREAMING
                                                     /\ app.ast[a] = STREAMING
         /\ \A a \in Ase : Hushed(a)
         /\ Silent(app) /\ ~app.cigEvt
PROOF
  <1>1. \A a \in Ase : /\ app.out[Owner[a]] = << >> /\ nq[Owner[a]] = << >>
                       /\ srv[a] # RELEASING
                       /\ ~(srv[a] = ENABLING /\ app.cid[a] \in app.iso)
    BY DeviceAssumption DEF Settled
  <1>2. \A a : None(<< >>, a) /\ \A e : ~One(<< >>, a, e) /\ \A f : ~Two(<< >>, a, e, f)
    BY DEF None, One, Two
  <1>3. \A a \in Ase : Hushed(a)
    BY <1>1, <1>2 DEF Hushed
  <1>4. Silent(app)
    BY <1>1, <1>2 DEF Silent
  <1>5. \A a \in Ase : ~Configuring(a)
    BY <1>1, <1>2 DEF Configuring, Writing, Telling
  <1>6. \A a \in Ase : ~Going(a)
    BY <1>1, <1>2 DEF Going, Writing, Telling
  <1>7. ~app.cigEvt
    BY DEF Settled
  <1>8. ~Starting /\ ~Awaiting /\ ~Leaving
    BY <1>5, <1>6, <1>7 DEF Starting, Awaiting, Leaving
  <1>9. ASSUME Running, NEW a \in Ase, InList(app.list, a)
        PROVE  srv[a] = STREAMING /\ app.ast[a] = STREAMING
    <2>1. app.cid[a] = Rank(a)
      BY <1>9 DEF Running, On, Suits
    <2>2. app.cid[a] \in app.iso
      BY <1>9, <2>1, RanksListed DEF Running
    <2>3. ~Ready(a)
      BY <1>1, <2>2 DEF Ready
    <2>4. Flowing(a)
      BY <1>9, <2>3 DEF Running
    <2> QED  BY <1>1, <1>2, <2>4 DEF Flowing, Telling
  <1> QED  BY <1>3, <1>4, <1>7, <1>8, <1>9 DEF Phases

\* When everything has settled in one of the phases, the mode tells what the
\* servers do.
LEMMA PhasesConsistent == IInv /\ Phases => SettledConsistent
PROOF
  <1> SUFFICES ASSUME IInv, Phases, Settled
               PROVE  SettledConsistent
    BY DEF SettledConsistent
  <1>1. /\ Control(app)
        /\ \/ Rest \/ Rings
           \/ /\ Running
              /\ \A a \in Ase : InList(app.list, a) => srv[a] = STREAMING
                                                    /\ app.ast[a] = STREAMING
    BY SettledPhases
  <1>2. /\ app.call # "FREE" <=> app.final = CALL
        /\ app.call \in {"ACTIVE"} \cup HeldStates =>
             app.ccs \in {"CONVO", "INBAND_RINGTONE_CONVO"}
    BY <1>1 DEF Control
  <1>3. CASE Rest \/ Rings
    <2>1. app.list = EmptyList /\ ~app.releasing
      BY <1>3 DEF Rest, Rests, Rings, Alerts, Quiet
    <2>2. \A a \in Ase : srv[a] <= CODEC_CONFIGURED
      BY <1>3 DEF Rest, Rings, Resting
    <2>3. app.mode \notin UnicastModes
      BY <1>3, DistinctModes DEF Rest, Rests, Rings, Alerts, UnicastModes,
                                 NONE, BROADCAST, MEDIA, MIC, BIDIRMIC, CALL, IN_TRANSIT
    <2>4. app.mode = IN_TRANSIT => Ringing
      BY <1>3 DEF Rest, Rests, Rings, Alerts, Ringing, NONE, BROADCAST, IN_TRANSIT
    <2> QED  BY <1>2, <2>1, <2>2, <2>3, <2>4 DEF SettledConsistent
  <1>4. CASE /\ Running
             /\ \A a \in Ase : InList(app.list, a) => srv[a] = STREAMING
    <2>1. app.mode \in UnicastModes /\ app.mode # IN_TRANSIT
      BY <1>4 DEF Running, On, UnicastModes, MEDIA, MIC, BIDIRMIC, CALL, IN_TRANSIT
    <2>2. app.list # EmptyList
      BY <1>4 DEF Running, On, Suits
    <2>3. \A i \in Slots : app.list[i] # NULL => srv[app.list[i]] = STREAMING
      <3>1. app.list \in [Slots -> Ase \cup {NULL}]
        BY QueueTypes DEF IInv, AppInv, Ok, App, AseLists
      <3> QED  BY <1>4, <3>1 DEF InList
    <2> QED  BY <1>2, <2>1, <2>2, <2>3 DEF SettledConsistent
  <1> QED  BY <1>1, <1>3, <1>4

\* t is s with its streams being released.
Stopped(s, t) ==
    /\ t.releasing /\ Releases(t)
    /\ t.list = s.list /\ t.cid = s.cid /\ t.ast = s.ast /\ t.big = s.big
    /\ t.cigEvt = s.cigEvt /\ t.iso = s.iso /\ t.up = s.up

\* What a stop leaves in the rest of the state.
Departs(t) ==
    /\ t.mode = IN_TRANSIT /\ t.final \in {NONE, MIC, BIDIRMIC, CALL}
    /\ t.final # NONE => t.paused # NONE
    /\ t.paused # CALL
    /\ t.call \in {"FREE", "INCOMING"} /\ (t.call # "FREE" <=> t.final = CALL)
    /\ t.ccs = "IDLE" /\ t.media # "PLAYING"

\* A mode is on and its ASEs stream.
Plays ==
    /\ Control(app) /\ Running /\ Silent(app)
    /\ \A a \in Ase : InList(app.list, a) => srv[a] = STREAMING
                                          /\ app.ast[a] = STREAMING
    /\ \A a \in Ase : Hushed(a)

\* A release is not undone by what leaves the streams alone.
LEMMA StoppedStays ==
  ASSUME NEW s, NEW t, NEW u, Stopped(s, t), SameStreams(t, u)
  PROVE  Stopped(s, u)
  BY DEF Stopped, Releases, SameStreams, SameIso

\* A stop of a mode that is on begins the release of its streams.
LEMMA LeaveStep ==
  ASSUME IInv, Plays, Stopped(app, app'), Departs(app'), srv' = srv, nq' = nq
  PROVE  Phases'
PROOF
  <1>1. /\ app'.list = app.list /\ app'.cid = app.cid /\ app'.ast = app.ast
        /\ app'.big = app.big /\ app'.cigEvt = app.cigEvt /\ app'.iso = app.iso
        /\ app'.up = app.up /\ app'.releasing
    BY DEF Stopped
  <1>2. /\ Suits(app, app.cfg, app.final) /\ app.final \in UnicastModes
        /\ app.mode = app.final /\ ~app.cigEvt
    BY DEF Plays, Running, On
  <1>3. Control(app')
    <2>1. ~app.big
      BY <1>2 DEF Plays, Control, UnicastModes, MEDIA, MIC, BIDIRMIC, CALL, BROADCAST
    <2>2. app'.up = Devices /\ Ranked(app')
      BY <1>1 DEF Plays, Control, Ranked
    <2> QED
      BY <1>1, <2>1, <2>2 DEF Control, Departs, HeldStates, IN_TRANSIT, BROADCAST,
                              NONE, MEDIA, MIC, BIDIRMIC, CALL
  <1>4. \A a \in Ase : InList(app'.list, a) => Going(a)'
    <2> SUFFICES ASSUME NEW a \in Ase, InList(app'.list, a)
                 PROVE  Going(a)'
      OBVIOUS
    <2>1. One(app'.out[Owner[a]], a, Msg("RELEASE", a))
      BY DEF Stopped, Releases
    <2>2. srv'[a] = STREAMING /\ app'.ast[a] = STREAMING /\ None(nq'[Owner[a]], a)
      BY <1>1 DEF Plays, Hushed
    <2> QED  BY <2>1, <2>2 DEF Going, Writing, STREAMING
  <1>5. \A a \in Ase : ~InList(app'.list, a) => Resting(a)'
    <2> SUFFICES ASSUME NEW a \in Ase, ~InList(app'.list, a)
                 PROVE  Resting(a)'
      OBVIOUS
    <2>1. None(app'.out[Owner[a]], a)
      BY DEF Stopped, Releases
    <2>2. Resting(a) /\ None(nq'[Owner[a]], a)
      BY <1>1 DEF Plays, Running, Hushed
    <2> QED  BY <1>1, <2>1, <2>2 DEF Resting, Hushed, CODEC_CONFIGURED
  <1>6. \E a \in Ase : InList(app'.list, a) /\ Going(a)'
    <2>1. app.list \in [Slots -> Ase \cup {NULL}] /\ app.list # EmptyList
      BY <1>2, QueueTypes DEF IInv, AppInv, Ok, App, AseLists, Suits
    <2>2. PICK i \in Slots : app.list[i] # NULL
      BY <2>1 DEF EmptyList
    <2>3. InList(app'.list, app.list[i])
      BY <1>1, <2>2 DEF InList
    <2> QED  BY <1>4, <2>1, <2>2, <2>3
  <1>7. app'.list # EmptyList
    BY <1>1, <1>2 DEF Suits
  <1>8. \A i \in app'.iso : \E a \in Ase : /\ InList(app'.list, a) /\ app'.cid[a] = i
                                           /\ app'.ast[a] = STREAMING
    <2> SUFFICES ASSUME NEW i \in app'.iso
                 PROVE  \E a \in Ase : /\ InList(app'.list, a) /\ app'.cid[a] = i
                                       /\ app'.ast[a] = STREAMING
      OBVIOUS
    <2>1. PICK a \in Ase : InList(app.list, a) /\ Rank(a) = i
      BY <1>1, RanksListed DEF Plays, Running
    <2>2. app.cid[a] = i /\ app.ast[a] = STREAMING
      BY <1>2, <2>1 DEF Suits, Plays
    <2> QED  BY <1>1, <2>1, <2>2
  <1>9. Leaving'
    BY <1>1, <1>2, <1>4, <1>5, <1>6, <1>7, <1>8 DEF Leaving, Departs
  <1> QED  BY <1>3, <1>9 DEF Phases

\* lepl_cap_stop_streaming on a mode that is on.
LEMMA StopsRunning ==
  ASSUME IInv, Plays, Suited, NEW c \in Devices
  PROVE  LET x == StopStreaming(app, c)
         IN  Ok(x) /\ Stopped(app, x) /\ SamePlay(app, x) /\ x.ccs = app.ccs
PROOF
  <1> DEFINE x == StopStreaming(app, c)
  <1>1. /\ Ok(app) /\ app.up = Devices /\ Silent(app) /\ Apart(app.list)
        /\ app.list # EmptyList /\ app.cfg.ctx \in KnownCtx
    BY DEF IInv, AppInv, Plays, Running, Control, On, Suits
  <1>2. Ok(x) /\ SameButStop(app, x) /\ x.releasing /\ Releases(x)
    BY <1>1, StopReleases
  <1> HIDE DEF x
  <1>3. Stopped(app, x) /\ SamePlay(app, x) /\ x.ccs = app.ccs
    BY <1>2 DEF Stopped, SameButStop, SamePlay, SameMode
  <1> QED  BY <1>2, <1>3 DEF x

\* The same for lepl_rpc_stop_streaming, which pauses media.
LEMMA StopForNextStops ==
  ASSUME IInv, Plays, Suited, NEW c \in Devices
  PROVE  LET x == StopForNext(app, c)
         IN  /\ Ok(x) /\ Stopped(app, x) /\ SameMode(app, x) /\ x.ccs = app.ccs
             /\ x.media # "PLAYING"
PROOF
  <1> DEFINE x == StopStreaming(app, c)
             y == [x EXCEPT !.media = "PAUSED"]
  <1>1. Ok(x) /\ Stopped(app, x) /\ SamePlay(app, x) /\ x.ccs = app.ccs
    BY StopsRunning
  <1>2. app.mode = app.final /\ app.final \in UnicastModes
    BY DEF Plays, Running, On
  <1>3. LeftMode(app) = app.final
    BY <1>2 DEF LeftMode
  <1>4. CASE app.final = MEDIA
    <2>1. app.media = "PLAYING"
      BY <1>4 DEF IInv, AppInv
    <2>2. StopForNext(app, c) = y
      BY <1>3, <1>4, <2>1 DEF StopForNext, McsPause
    <2> HIDE DEF x
    <2>3. "PAUSED" \in MediaStates
      BY DEF MediaStates
    <2>4. Ok(y) /\ SameMode(x, y) /\ y.media = "PAUSED"
      BY <1>1, <2>3, SetMedia
    <2>5. SameStreams(x, y)
      BY <1>1, PlainFields
    <2>6. y.ccs = x.ccs
      BY <1>1 DEF Ok, App
    <2> HIDE DEF y
    <2>7. Stopped(app, y)
      BY <1>1, <2>5, StoppedStays
    <2> QED  BY <1>1, <2>2, <2>4, <2>6, <2>7 DEF SamePlay, SameMode
  <1>5. CASE app.final # MEDIA
    <2>1. StopForNext(app, c) = x
      BY <1>3, <1>5 DEF StopForNext
    <2>2. app.media # "PLAYING"
      BY <1>5 DEF Plays, Control
    <2> HIDE DEF x
    <2> QED  BY <1>1, <2>1, <2>2 DEF SamePlay
  <1> QED  BY <1>4, <1>5

\* What SetNextAudioMode makes of a release.
LEMMA NextDeparts ==
  ASSUME IInv, Plays, NEW x, Ok(x), Stopped(app, x), SameAudio(app, x),
         x.media # "PLAYING", NEW m \in {NONE, MIC, BIDIRMIC, CALL}, NEW g \in Cfg,
         m # NONE => app.final # CALL,
         x.call \in {"FREE", "INCOMING"}, x.call # "FREE" <=> m = CALL
  PROVE  LET u == SetNextAudioMode(x, m, g)
             v == [u EXCEPT !.ccs = "IDLE"]
         IN  /\ Ok(u) /\ Stopped(app, u) /\ Stopped(app, v) /\ Departs(v)
             /\ x.ccs = "IDLE" => Departs(u)
PROOF
  <1> DEFINE u == SetNextAudioMode(x, m, g)
             v == [u EXCEPT !.ccs = "IDLE"]
  <1>1. m \in FinalModes
    BY ModeNames
  <1>2. /\ Ok(u) /\ SameStreams(x, u) /\ u.ccs = x.ccs /\ u.call = x.call
        /\ u.mode = IN_TRANSIT /\ u.final = m
        /\ u.paused = IF m # NONE /\ x.mode \notin {NONE, IN_TRANSIT}
                      THEN x.mode ELSE x.paused
        /\ u.media \in {x.media, "INACTIVE"}
    BY <1>1, SetNextOk, SetNextFields
  <1> HIDE DEF u
  <1>3. /\ v.mode = u.mode /\ v.final = u.final /\ v.paused = u.paused
        /\ v.call = u.call /\ v.ccs = "IDLE" /\ v.media = u.media
    BY <1>2 DEF Ok, App
  <1>4. SameStreams(u, v)
    BY <1>2, PlainFields
  <1> HIDE DEF v
  <1>5. Stopped(app, u) /\ Stopped(app, v)
    BY <1>2, <1>4, StoppedStays
  <1>6. /\ x.mode = app.final /\ app.final \in UnicastModes /\ x.paused # CALL
    BY DEF SameAudio, Plays, Running, On, Control
  <1>7. u.paused # CALL /\ (m # NONE => u.paused # NONE)
    BY <1>2, <1>6, UnicastFacts
  <1>8. Departs(v) /\ (x.ccs = "IDLE" => Departs(u))
    BY <1>2, <1>3, <1>7 DEF Departs
  <1> QED  BY <1>2, <1>5, <1>8 DEF u, v

\* The control state of a mode that is on.
LEMMA PlaysFacts ==
  ASSUME IInv, Plays
  PROVE  /\ Ok(app) /\ app \in App /\ app.up = Devices
         /\ app.mode = app.final /\ app.final \in UnicastModes
         /\ LeftMode(app) = app.final /\ app.mode # NONE
         /\ app.call # "FREE" <=> app.final = CALL
         /\ app.call = "FREE" => app.ccs = "IDLE"
         /\ app.call = "INCOMING" => Inband /\ app.ccs = "INBAND_RINGTONE"
         /\ app.call # "DIALING"
         /\ app.call \in {"ACTIVE"} \cup HeldStates =>
              app.ccs \in {"CONVO", "INBAND_RINGTONE_CONVO"}
         /\ app.final # MEDIA => app.media # "PLAYING"
         /\ ~app.big
PROOF
  <1>1. app.mode = app.final /\ app.final \in UnicastModes
    BY DEF Plays, Running, On
  <1>2. LeftMode(app) = app.final /\ app.mode # NONE /\ app.mode # BROADCAST
    BY <1>1 DEF LeftMode, UnicastModes, NONE, BROADCAST, MEDIA, MIC, BIDIRMIC, CALL
  <1> QED  BY <1>1, <1>2 DEF IInv, AppInv, Ok, Plays, Control, Running, On

\* A mode that is on is stopped, and nothing else is asked for.
LEMMA RunningStop ==
  ASSUME IInv, Plays, Suited, NEW c \in Devices, app.final # CALL,
         app' = RpcStopStreaming(app, c), srv' = srv, nq' = nq
  PROVE  Phases'
PROOF
  <1> DEFINE x == StopForNext(app, c)
  <1>1. Ok(x) /\ Stopped(app, x) /\ SameMode(app, x) /\ x.ccs = app.ccs
        /\ x.media # "PLAYING"
    BY StopForNextStops
  <1>2. app' = SetNextAudioMode(x, NONE, ZeroCfg)
    BY DEF RpcStopStreaming
  <1> HIDE DEF x
  <1>3. x.call = "FREE" /\ x.ccs = "IDLE" /\ SameAudio(app, x)
    BY <1>1, PlaysFacts DEF SameMode, SameAudio
  <1>4. NONE \in {NONE, MIC, BIDIRMIC, CALL} /\ NONE # CALL /\ ZeroCfg \in Cfg
    BY DistinctModes, ZeroCfgType
  <1>5. Stopped(app, app') /\ Departs(app')
    <2> DEFINE m == NONE
               g == ZeroCfg
    <2>1. /\ m \in {NONE, MIC, BIDIRMIC, CALL} /\ g \in Cfg
          /\ m # NONE => app.final # CALL
          /\ x.call \in {"FREE", "INCOMING"}
          /\ x.call # "FREE" <=> m = CALL
      BY <1>3, <1>4
    <2>2. app' = SetNextAudioMode(x, m, g)
      BY <1>2
    <2> HIDE DEF m, g
    <2>3. Stopped(app, SetNextAudioMode(x, m, g)) /\ Departs(SetNextAudioMode(x, m, g))
      BY ONLY <1>1, <1>3, <2>1, IInv, Plays, NextDeparts
    <2> QED  BY <2>2, <2>3
  <1> QED  BY <1>5, LeaveStep

\* A mode that is on gives way to a capture of voice.
LEMMA RunningStart ==
  ASSUME IInv, Plays, Suited, NEW c \in Devices, app.final # CALL,
         NEW m \in {MIC, BIDIRMIC}, NEW g \in Cfg,
         app' = SetNextAudioMode(StopForNext(app, c), m, g), srv' = srv, nq' = nq
  PROVE  Phases'
PROOF
  <1> DEFINE x == StopForNext(app, c)
  <1>1. Ok(x) /\ Stopped(app, x) /\ SameMode(app, x) /\ x.ccs = app.ccs
        /\ x.media # "PLAYING"
    BY StopForNextStops
  <1>2. app' = SetNextAudioMode(x, m, g)
    OBVIOUS
  <1> HIDE DEF x
  <1>3. x.call = "FREE" /\ x.ccs = "IDLE" /\ SameAudio(app, x)
    BY <1>1, PlaysFacts DEF SameMode, SameAudio
  <1>4. m # CALL
    BY DEF MIC, BIDIRMIC, CALL
  <1>5. m \in {NONE, MIC, BIDIRMIC, CALL}
    OBVIOUS
  <1>6. /\ x.call \in {"FREE", "INCOMING"} /\ (x.call # "FREE" <=> m = CALL)
        /\ m # NONE => app.final # CALL
    BY <1>3, <1>4
  <1>7. Stopped(app, SetNextAudioMode(x, m, g)) /\ Departs(SetNextAudioMode(x, m, g))
    BY ONLY <1>1, <1>3, <1>5, <1>6, IInv, Plays, g \in Cfg, NextDeparts
  <1> QED  BY <1>2, <1>7, LeaveStep

\* A mode that is on gives way to a call.
LEMMA RunningRing ==
  ASSUME IInv, Plays, Suited, NEW c \in Devices, app.call = "FREE", NEW g \in Cfg,
         app' = SetNextAudioMode(RegisterCall(StopForNext(app, c)), CALL, g),
         srv' = srv, nq' = nq
  PROVE  Phases'
PROOF
  <1> DEFINE x == StopForNext(app, c)
             y == [x EXCEPT !.call = "INCOMING"]
  <1>1. Ok(x) /\ Stopped(app, x) /\ SameMode(app, x) /\ x.ccs = app.ccs
        /\ x.media # "PLAYING"
    BY StopForNextStops
  <1>2. RegisterCall(x) = y
    BY <1>1 DEF RegisterCall, SameMode
  <1>3. app' = SetNextAudioMode(y, CALL, g)
    BY <1>2
  <1> HIDE DEF x
  <1>4. "INCOMING" \in CallStates
    BY DEF CallStates
  <1>5. /\ Ok(y) /\ y.call = "INCOMING" /\ y.mode = x.mode /\ y.final = x.final
        /\ y.paused = x.paused /\ y.media = x.media /\ y.up = x.up
    BY <1>1, <1>4, SetCall
  <1>6. SameStreams(x, y) /\ y.ccs = x.ccs
    <2>1. y.ccs = x.ccs
      BY <1>1 DEF Ok, App
    <2> QED  BY <1>1, <2>1, PlainFields
  <1> HIDE DEF y
  <1>7. Stopped(app, y)
    BY <1>1, <1>6, StoppedStays
  <1>8. y.ccs = "IDLE" /\ SameAudio(app, y) /\ app.final # CALL
    BY <1>1, <1>5, <1>6, PlaysFacts DEF SameMode, SameAudio
  <1>9. CALL \in {NONE, MIC, BIDIRMIC, CALL}
    OBVIOUS
  <1>10. Stopped(app, app') /\ Departs(app')
    BY <1>1, <1>3, <1>5, <1>7, <1>8, <1>9, NextDeparts
  <1> QED  BY <1>10, LeaveStep

\* A call that is on is terminated.
LEMMA RunningEnd ==
  ASSUME IInv, Plays, Suited, NEW c \in Devices, app.call # "FREE",
         app' = TerminateCall(app, c), srv' = srv, nq' = nq
  PROVE  Phases'
PROOF
  <1> DEFINE x == StopStreaming(app, c)
             y == [x EXCEPT !.call = "FREE"]
             u == SetNextAudioMode(y, NONE, ZeroCfg)
             v == [u EXCEPT !.ccs = "IDLE"]
  <1>1. Ok(x) /\ Stopped(app, x) /\ SamePlay(app, x) /\ x.ccs = app.ccs
    BY StopsRunning
  <1>2. app.final = CALL /\ app.media # "PLAYING"
    BY PlaysFacts, DistinctModes
  <1>3. app.ccs # "INBAND_RINGTONE" \/ RingtoneSupported(c)
    <2>1. app.call \in {"INCOMING", "ACTIVE"} \cup HeldStates
      BY PlaysFacts DEF App, CallStates, HeldStates
    <2>2. CASE app.call = "INCOMING"
      BY <2>2, PlaysFacts DEF RingtoneSupported, Suited
    <2>3. CASE app.call # "INCOMING"
      BY <2>1, <2>3, PlaysFacts
    <2> QED  BY <2>2, <2>3
  <1>4. app' = v
    BY <1>3 DEF TerminateCall
  <1> HIDE DEF x
  <1>5. "FREE" \in CallStates
    BY DEF CallStates
  <1>6. /\ Ok(y) /\ y.call = "FREE" /\ y.mode = x.mode /\ y.final = x.final
        /\ y.paused = x.paused /\ y.media = x.media /\ y.up = x.up
    BY <1>1, <1>5, SetCall
  <1>7. SameStreams(x, y)
    BY <1>1, PlainFields
  <1> HIDE DEF y
  <1>8. Stopped(app, y)
    BY <1>1, <1>7, StoppedStays
  <1>9. SameAudio(app, y) /\ y.media # "PLAYING"
    BY <1>1, <1>2, <1>6 DEF SamePlay, SameMode, SameAudio
  <1>10. NONE \in {NONE, MIC, BIDIRMIC, CALL} /\ NONE # CALL /\ ZeroCfg \in Cfg
    BY DistinctModes, ZeroCfgType
  <1>11. Stopped(app, v) /\ Departs(v)
    BY <1>6, <1>8, <1>9, <1>10, NextDeparts
  <1> HIDE DEF u, v
  <1> QED  BY <1>4, <1>11, LeaveStep

\* A call that is on is answered, held or retrieved.
LEMMA RunningCall ==
  ASSUME IInv, Plays, app.final = CALL, SameStreams(app, app'), app'.cfg = app.cfg,
         app'.mode = app.mode, app'.final = app.final, app'.paused = app.paused,
         app'.media = app.media, srv' = srv, nq' = nq,
         app'.call \in {"ACTIVE"} \cup HeldStates,
         app'.ccs \in {"CONVO", "INBAND_RINGTONE_CONVO"}
  PROVE  Phases'
PROOF
  <1>1. /\ app'.up = app.up /\ app'.cid = app.cid /\ app'.list = app.list
        /\ app'.out = app.out /\ app'.ast = app.ast /\ app'.iso = app.iso
        /\ app'.releasing = app.releasing /\ app'.cigEvt = app.cigEvt
        /\ app'.big = app.big
    BY DEF SameStreams, SameIso
  <1>2. app'.call # "FREE" /\ app'.call # "INCOMING" /\ app'.call # "DIALING"
    BY DEF HeldStates
  <1>3. Control(app')
    BY <1>1, <1>2 DEF Plays, Control, Ranked
  <1>4. On(app') /\ app'.mode = app'.final
    BY <1>1, <1>2 DEF Plays, Running, On, Suits
  <1>5. \A a \in Ase : Unmoved(a)
    BY <1>1, SameQueue DEF Unmoved
  <1>6. \A a \in Ase : IF InList(app'.list, a) THEN Ready(a)' \/ Flowing(a)'
                       ELSE Resting(a)'
    BY <1>1, <1>5, StageKept DEF Plays, Running
  <1>7. Running'
    BY <1>1, <1>4, <1>6 DEF Plays, Running
  <1> QED  BY <1>3, <1>7 DEF Phases

\* The player rests, or a call rings without a stream.
Idles ==
    /\ Control(app) /\ (Rest \/ Rings) /\ Silent(app)
    /\ \A a \in Ase : Hushed(a)

\* A command leads to one of the first phases.
LEMMA IdleStep ==
  ASSUME StepKept, Idles, Fresh(app'), app'.ast = app.ast, srv' = srv, nq' = nq
  PROVE  Phases'
PROOF
  <1>1. \A a \in Ase : Resting(a)
    BY DEF Idles, Rest, Rings
  <1>2. \A a \in Ase : /\ None(nq'[Owner[a]], a) /\ srv'[a] = app'.ast[a]
                       /\ srv'[a] <= CODEC_CONFIGURED
    BY <1>1 DEF Resting, Hushed
  <1>3. Ok(app')
    BY DEF StepKept, IInv, AppInv
  <1> QED  BY <1>2, <1>3, FreshPhases

\* A player that rests without a broadcast, and may have registered a call.
Waits(s) ==
    /\ Ok(s) /\ Clear(s) /\ ~s.releasing /\ ~s.cigEvt /\ s.iso = {}
    /\ s.mode = NONE /\ s.paused = NONE /\ ~s.big
    /\ s.media # "PLAYING" /\ s.ccs = "IDLE"
    /\ s.call \in {"FREE", "INCOMING"}

\* The state of a player that rests.
LEMMA RestFacts ==
  ASSUME IInv, Idles, Rest
  PROVE  /\ Ok(app) /\ Clear(app) /\ app.up = Devices
         /\ ~app.releasing /\ ~app.cigEvt /\ app.iso = {} /\ app.list = EmptyList
         /\ app.mode \in {NONE, BROADCAST} /\ app.final = app.mode
         /\ app.paused = NONE /\ (app.big <=> app.mode = BROADCAST)
         /\ app.media # "PLAYING" /\ app.ccs = "IDLE" /\ app.call = "FREE"
         /\ app.mode = NONE => Waits(app)
PROOF
  <1>1. Ok(app) /\ app.mode \in {IN_TRANSIT, app.final}
    BY DEF IInv, AppInv
  <1>2. /\ Quiet(app) /\ app.mode \in {NONE, BROADCAST} /\ app.paused = NONE
        /\ Silent(app) /\ Control(app)
    BY DEF Idles, Rest, Rests
  <1>3. app.final = app.mode /\ app.final # CALL /\ app.final # MEDIA
    BY <1>1, <1>2 DEF NONE, BROADCAST, IN_TRANSIT, MEDIA, CALL
  <1>4. /\ Clear(app) /\ app.call = "FREE" /\ app.ccs = "IDLE"
        /\ app.media # "PLAYING" /\ (app.big <=> app.mode = BROADCAST)
    BY <1>2, <1>3 DEF Control, Clear, Quiet
  <1>5. app.mode = NONE => ~app.big
    BY <1>4, DistinctModes
  <1> QED  BY <1>1, <1>2, <1>3, <1>4, <1>5 DEF Quiet, Waits, Clear

\* A mode that is started while the player waits.
LEMMA WaitsFresh ==
  ASSUME Suited, NEW s, Waits(s), NEW c \in Devices, NEW cfg \in Cfg,
         NEW m, m \in {MEDIA, MIC, BIDIRMIC} \/ (m = CALL /\ Inband),
         s.call # "FREE" <=> m = CALL
  PROVE  LET g == ResumeCfg(s, c, m, cfg)
             r == ResumeStreaming(s, c, m, cfg)
             u == [r EXCEPT !.pcfg = g]
         IN  /\ Fresh(SetNextAudioMode(r, m, g)) /\ SetNextAudioMode(r, m, g).ast = s.ast
             /\ Fresh(SetNextAudioMode(u, m, g)) /\ SetNextAudioMode(u, m, g).ast = s.ast
PROOF
  <1> DEFINE g == ResumeCfg(s, c, m, cfg)
             r == ResumeStreaming(s, c, m, cfg)
             u == [r EXCEPT !.pcfg = g]
  <1>1. c \in Conn /\ g \in Cfg
    BY ConfigurationTypes, DeviceAssumption
  <1>2. Ok(r) /\ Launched(r, g, m) /\ ResumeFields(s, r, m)
    <2>1. Ok(s) /\ Clear(s) /\ s.media # "PLAYING"
      BY DEF Waits
    <2> QED  BY <2>1, ResumeLaunches
  <1> HIDE DEF g, r
  <1>3. /\ Ok(u) /\ SamePlay(r, u) /\ SameStreams(r, u) /\ u.ccs = r.ccs
    <2>1. u.ccs = r.ccs
      BY <1>2 DEF Ok, App
    <2> QED  BY <1>1, <1>2, <2>1, SetCfg, PlainFields
  <1> HIDE DEF u
  <1>4. Launched(u, g, m)
    BY <1>2, <1>3, LaunchedStays
  <1>5. /\ r.mode = NONE /\ r.paused = NONE /\ r.call = s.call /\ r.ast = s.ast
        /\ r.up = s.up /\ r.releasing = s.releasing /\ r.cigEvt = s.cigEvt
        /\ r.iso = s.iso /\ r.big = s.big
        /\ r.media = (IF m = MEDIA THEN "PLAYING" ELSE s.media)
        /\ r.ccs = (IF m = CALL THEN "INBAND_RINGTONE" ELSE s.ccs)
    BY <1>2 DEF ResumeFields, SameMode, SameIso, Waits
  <1>6. m \in UnicastModes /\ m \in FinalModes
    BY UnicastFacts
  <1>7. Eligible(r, m)
    <2>1. r.call \in {"FREE", "INCOMING"} /\ (r.call # "FREE" <=> m = CALL)
      BY <1>5 DEF Waits
    <2>2. r.call = "INCOMING" => Inband /\ r.ccs = "INBAND_RINGTONE"
      BY <1>5, <2>1 DEF MEDIA, MIC, BIDIRMIC, CALL
    <2>3. r.call = "FREE" => r.ccs = "IDLE"
      BY <1>5, <2>1 DEF Waits
    <2>4. /\ r.up = Devices /\ ~r.releasing /\ ~r.cigEvt /\ r.iso = {} /\ ~r.big
          /\ m # MEDIA => r.media # "PLAYING"
      BY <1>5 DEF Waits, Clear
    <2> QED  BY <1>6, <2>1, <2>2, <2>3, <2>4 DEF Eligible
  <1>8. Eligible(u, m) /\ u.mode = NONE /\ u.paused = NONE
    BY <1>3, <1>5, <1>7 DEF Eligible, SamePlay, SameMode, SameStreams, SameIso
  <1>9. Fresh(SetNextAudioMode(r, m, g)) /\ SetNextAudioMode(r, m, g).ast = s.ast
    <2>1. SameStreams(r, SetNextAudioMode(r, m, g))
      BY <1>1, <1>2, <1>6, SetNextFields
    <2>2. Fresh(SetNextAudioMode(r, m, g))
      BY <1>1, <1>2, <1>5, <1>7, StartsFresh
    <2> QED  BY <1>5, <2>1, <2>2 DEF SameStreams, SameIso
  <1>10. Fresh(SetNextAudioMode(u, m, g)) /\ SetNextAudioMode(u, m, g).ast = s.ast
    <2>1. SameStreams(u, SetNextAudioMode(u, m, g))
      BY <1>1, <1>3, <1>6, SetNextFields
    <2>2. Fresh(SetNextAudioMode(u, m, g))
      BY <1>1, <1>3, <1>4, <1>8, StartsFresh
    <2> QED  BY <1>3, <1>5, <2>1, <2>2 DEF SameStreams, SameIso
  <1> QED  BY <1>9, <1>10 DEF g, r, u

\* lepl_cap_resume_streaming, mode by mode.
LEMMA ResumeNames ==
  ASSUME NEW s, NEW c, NEW cfg
  PROVE  /\ ResumeCfg(s, c, MEDIA, cfg) = PlayCfg(s, c, cfg)
         /\ ResumeCfg(s, c, CALL, cfg) = IncomingCfg(s, c, cfg)
         /\ ResumeCfg(s, c, MIC, cfg) = MicCfg(s, c, cfg)
         /\ ResumeCfg(s, c, BIDIRMIC, cfg) = BidirCfg(s, c, cfg)
         /\ ResumeStreaming(s, c, MEDIA, cfg) = McsPlay(s, c, cfg)
         /\ ResumeStreaming(s, c, CALL, cfg) = IncomingCall(s, c, cfg)
         /\ ResumeStreaming(s, c, MIC, cfg) = StartStreaming(s, c, MicCfg(s, c, cfg))
         /\ ResumeStreaming(s, c, BIDIRMIC, cfg)
              = StartStreaming(s, c, BidirCfg(s, c, cfg))
PROOF
  <1>1. ResumeCfg(s, c, MEDIA, cfg) = PlayCfg(s, c, cfg)
    BY DEF ResumeCfg, MEDIA, MIC, BIDIRMIC, CALL
  <1>2. ResumeCfg(s, c, CALL, cfg) = IncomingCfg(s, c, cfg)
    BY DEF ResumeCfg, MEDIA, MIC, BIDIRMIC, CALL
  <1>3. ResumeCfg(s, c, MIC, cfg) = MicCfg(s, c, cfg)
    BY DEF ResumeCfg, MEDIA, MIC, BIDIRMIC, CALL
  <1>4. ResumeCfg(s, c, BIDIRMIC, cfg) = BidirCfg(s, c, cfg)
    BY DEF ResumeCfg, MEDIA, MIC, BIDIRMIC, CALL
  <1>5. ResumeStreaming(s, c, MEDIA, cfg) = McsPlay(s, c, cfg)
    BY DEF ResumeStreaming, MEDIA, MIC, BIDIRMIC, CALL
  <1>6. ResumeStreaming(s, c, CALL, cfg) = IncomingCall(s, c, cfg)
    BY DEF ResumeStreaming, MEDIA, MIC, BIDIRMIC, CALL
  <1>7. ResumeStreaming(s, c, MIC, cfg) = StartStreaming(s, c, MicCfg(s, c, cfg))
    BY DEF ResumeStreaming, MEDIA, MIC, BIDIRMIC, CALL
  <1>8. ResumeStreaming(s, c, BIDIRMIC, cfg) = StartStreaming(s, c, BidirCfg(s, c, cfg))
    BY DEF ResumeStreaming, MEDIA, MIC, BIDIRMIC, CALL
  <1> QED  BY <1>1, <1>2, <1>3, <1>4, <1>5, <1>6, <1>7, <1>8

\* Media, a capture of voice or a bidirectional stream is started from NONE.
LEMMA RestStarts ==
  ASSUME IInv, StepKept, Idles, Rest, Suited, app.mode = NONE, NEW c \in Devices,
         NEW cfg \in Cfg, srv' = srv, nq' = nq,
         \/ app' = RpcPlay(app, c, cfg)
         \/ app' = GmcsPlay(app, c)
         \/ app' = StartVoiceCapture(app, c, cfg)
         \/ app' = StartBidirMic(app, c, cfg)
  PROVE  Phases'
PROOF
  <1>1. Waits(app) /\ app.call = "FREE" /\ app.pcfg \in Cfg
    BY RestFacts, FinalType
  <1>2. \A m \in {MEDIA, MIC, BIDIRMIC} : ~(m = CALL)
    BY DEF MEDIA, MIC, BIDIRMIC, CALL
  <1>3. ASSUME NEW m \in {MEDIA, MIC, BIDIRMIC}, NEW f \in Cfg
        PROVE  LET g == ResumeCfg(app, c, m, f)
                   r == ResumeStreaming(app, c, m, f)
                   u == [r EXCEPT !.pcfg = g]
               IN  /\ Fresh(SetNextAudioMode(r, m, g))
                   /\ SetNextAudioMode(r, m, g).ast = app.ast
                   /\ Fresh(SetNextAudioMode(u, m, g))
                   /\ SetNextAudioMode(u, m, g).ast = app.ast
    BY <1>1, <1>2, WaitsFresh
  <1>4. CASE app' = RpcPlay(app, c, cfg)
    <2>1. app' = SetNextAudioMode(ResumeStreaming(app, c, MEDIA, cfg), MEDIA,
                                  ResumeCfg(app, c, MEDIA, cfg))
      BY <1>4, ResumeNames DEF RpcPlay
    <2> QED  BY <1>3, <2>1, IdleStep
  <1>5. CASE app' = GmcsPlay(app, c)
    <2> DEFINE g == ResumeCfg(app, c, MEDIA, app.pcfg)
               r == ResumeStreaming(app, c, MEDIA, app.pcfg)
               u == [r EXCEPT !.pcfg = g]
    <2>1. app' = SetNextAudioMode(u, MEDIA, g)
      BY <1>5, ResumeNames DEF GmcsPlay
    <2>2. Fresh(SetNextAudioMode(u, MEDIA, g)) /\ SetNextAudioMode(u, MEDIA, g).ast = app.ast
      BY <1>1, <1>3
    <2> HIDE DEF g, r, u
    <2> QED  BY <2>1, <2>2, IdleStep
  <1>6. CASE app' = StartVoiceCapture(app, c, cfg)
    <2>1. app' = SetNextAudioMode(ResumeStreaming(app, c, MIC, cfg), MIC,
                                  ResumeCfg(app, c, MIC, cfg))
      BY <1>6, ResumeNames DEF StartVoiceCapture
    <2> QED  BY <1>3, <2>1, IdleStep
  <1>7. CASE app' = StartBidirMic(app, c, cfg)
    <2>1. app' = SetNextAudioMode(ResumeStreaming(app, c, BIDIRMIC, cfg), BIDIRMIC,
                                  ResumeCfg(app, c, BIDIRMIC, cfg))
      BY <1>7, ResumeNames DEF StartBidirMic
    <2> QED  BY <1>3, <2>1, IdleStep
  <1> QED  BY <1>4, <1>5, <1>6, <1>7

\* A call comes in while the player waits.
LEMMA RestRings ==
  ASSUME IInv, StepKept, Idles, Rest, Suited, app.mode = NONE, NEW c \in Devices,
         NEW cfg \in Cfg, srv' = srv, nq' = nq, app' = GenerateCall(app, c, cfg)
  PROVE  Phases'
PROOF
  <1> DEFINE s == [app EXCEPT !.call = "INCOMING"]
  <1>1. Waits(app) /\ app.call = "FREE" /\ Ok(app)
    BY RestFacts
  <1>2. RegisterCall(app) = s
    BY <1>1 DEF RegisterCall
  <1>3. "INCOMING" \in CallStates /\ c \in Conn
    BY DeviceAssumption DEF CallStates
  <1>4. /\ Ok(s) /\ s.call = "INCOMING" /\ s.mode = app.mode /\ s.final = app.final
        /\ s.paused = app.paused /\ s.media = app.media /\ s.up = app.up
    BY <1>1, <1>3, SetCall
  <1>5. SameStreams(app, s) /\ s.ccs = app.ccs
    <2>1. s.ccs = app.ccs
      BY <1>1 DEF Ok, App
    <2> QED  BY <1>1, <2>1, PlainFields
  <1>6. app' = SetNextAudioMode(IncomingCall(s, c, cfg), CALL, IncomingCfg(app, c, cfg))
    BY <1>2 DEF GenerateCall
  <1> HIDE DEF s
  <1>7. IncomingCfg(app, c, cfg) = IncomingCfg(s, c, cfg)
    BY <1>4, CountedSame DEF IncomingCfg
  <1>8. Waits(s)
    <2>1. Clear(s)
      BY <1>1, <1>5, ClearStays DEF Waits
    <2> QED  BY <1>1, <1>4, <1>5, <2>1 DEF Waits, SameStreams, SameIso
  <1>9. CASE Inband
    <2>1. app' = SetNextAudioMode(ResumeStreaming(s, c, CALL, cfg), CALL,
                                  ResumeCfg(s, c, CALL, cfg))
      BY <1>6, <1>7, ResumeNames
    <2>2. Fresh(app') /\ app'.ast = s.ast
      <3> DEFINE m == CALL
                 g == ResumeCfg(s, c, m, cfg)
                 r == ResumeStreaming(s, c, m, cfg)
      <3>1. /\ m \in {MEDIA, MIC, BIDIRMIC} \/ (m = CALL /\ Inband)
            /\ s.call # "FREE" <=> m = CALL
        BY <1>4, <1>9
      <3> HIDE DEF m
      <3>2. Fresh(SetNextAudioMode(r, m, g)) /\ SetNextAudioMode(r, m, g).ast = s.ast
        BY <1>8, <3>1, WaitsFresh
      <3> HIDE DEF g, r
      <3>3. app' = SetNextAudioMode(r, m, g)
        BY <2>1 DEF g, r, m
      <3> QED  BY <3>2, <3>3
    <2>3. app'.ast = app.ast
      BY <1>5, <2>2 DEF SameStreams, SameIso
    <2> QED  BY <2>2, <2>3, IdleStep
  <1>10. CASE ~Inband
    <2> DEFINE t == [s EXCEPT !.ccs = "INBAND_RINGTONE"]
    <2>1. app' = SetNextAudioMode(t, CALL, cfg)
      BY <1>6, <1>10 DEF IncomingCall, IncomingCfg, RingtoneSupported
    <2>2. "INBAND_RINGTONE" \in CcsStates
      BY DEF CcsStates
    <2>3. Ok(t) /\ SamePlay(s, t) /\ SameStreams(s, t) /\ t.ccs = "INBAND_RINGTONE"
      <3>1. t.ccs = "INBAND_RINGTONE"
        BY <1>4 DEF Ok, App
      <3> QED  BY <1>4, <2>2, <3>1, SetCcs, PlainFields
    <2> HIDE DEF t
    <2>4. /\ SameStreams(t, app') /\ app'.ccs = "INBAND_RINGTONE"
          /\ app'.call = "INCOMING" /\ app'.media \in {t.media, "INACTIVE"}
          /\ app'.mode = IN_TRANSIT /\ app'.final = CALL
          /\ app'.paused = t.paused
      <3>1. CALL \in FinalModes
        BY ModeNames
      <3>2. t.mode = NONE
        BY <1>4, <2>3 DEF SamePlay, SameMode
      <3> QED  BY <1>4, <2>1, <2>3, <3>1, <3>2, SetNextOk, SetNextFields DEF SamePlay, SameMode
    <2>5. app'.ast = app.ast /\ Clear(app') /\ app'.paused = NONE
          /\ app'.media # "PLAYING" /\ ~app'.releasing /\ ~app'.cigEvt
          /\ app'.iso = {} /\ ~app'.big
      <3>1. Clear(t)
        BY <1>8, <2>3, ClearStays DEF Waits
      <3>2. Clear(app')
        BY <2>4, <3>1, ClearStays
      <3> QED
        BY <1>5, <1>8, <2>3, <2>4, <3>2 DEF Waits, SamePlay, SameMode, SameStreams, SameIso
    <2>6. Control(app')
      BY <2>4, <2>5 DEF Control, Clear, HeldStates, CALL, MEDIA, NONE, BROADCAST, IN_TRANSIT
    <2>7. Alerts(app') /\ Silent(app')
      BY <1>10, <2>4, <2>5 DEF Alerts, Quiet, Clear
    <2>8. Fresh(app')
      BY <2>6, <2>7 DEF Fresh
    <2> QED  BY <2>5, <2>8, IdleStep
  <1> QED  BY <1>9, <1>10

\* The player starts or stops broadcasting.
LEMMA RestBroadcasts ==
  ASSUME IInv, StepKept, Idles, Rest, srv' = srv, nq' = nq,
         \/ app.mode = NONE /\ app' = StartBroadcast(app)
         \/ app.mode = BROADCAST /\ app' = StopBroadcast(app)
  PROVE  Phases'
PROOF
  <1>1. /\ Ok(app) /\ Clear(app) /\ ~app.releasing /\ ~app.cigEvt /\ app.iso = {}
        /\ app.paused = NONE /\ app.media # "PLAYING" /\ app.ccs = "IDLE"
        /\ app.call = "FREE"
    BY RestFacts
  <1>2. /\ app'.up = app.up /\ app'.list = app.list /\ app'.cid = app.cid
        /\ app'.out = app.out /\ app'.ast = app.ast /\ app'.iso = app.iso
        /\ app'.releasing = app.releasing /\ app'.cigEvt = app.cigEvt
        /\ app'.call = app.call /\ app'.ccs = app.ccs
        /\ app'.paused = NONE /\ app'.media # "PLAYING"
        /\ app'.mode \in {NONE, BROADCAST} /\ app'.final = app'.mode
        /\ app'.big <=> app'.mode = BROADCAST
    <2>1. CASE app.mode = NONE /\ app' = StartBroadcast(app)
      BY <1>1, <2>1 DEF StartBroadcast, SetNextAudioMode, Ok, App
    <2>2. CASE app.mode = BROADCAST /\ app' = StopBroadcast(app)
      BY <1>1, <2>2, DistinctModes DEF StopBroadcast, SetNextAudioMode, Ok, App
    <2> QED  BY <2>1, <2>2
  <1>3. Clear(app')
    BY <1>1, <1>2 DEF Clear, Ranked, Silent
  <1>4. app'.final # CALL
    BY <1>2 DEF CALL, NONE, BROADCAST
  <1>5. Control(app')
    BY <1>1, <1>2, <1>3, <1>4, DistinctModes DEF Control, Clear, HeldStates
  <1>6. Rests(app') /\ Silent(app')
    BY <1>1, <1>2, <1>3 DEF Rests, Quiet, Clear
  <1>7. Fresh(app')
    BY <1>5, <1>6 DEF Fresh
  <1> QED  BY <1>2, <1>7, IdleStep

\* The state of a player that alerts to a call.
LEMMA RingsFacts ==
  ASSUME IInv, Idles, Rings
  PROVE  /\ Ok(app) /\ Clear(app) /\ app.up = Devices
         /\ ~app.releasing /\ ~app.cigEvt /\ app.iso = {} /\ app.list = EmptyList
         /\ app.mode = IN_TRANSIT /\ app.final = CALL /\ LeftMode(app) = CALL
         /\ app.paused \in {NONE, MEDIA, MIC, BIDIRMIC} /\ ~app.big
         /\ app.media # "PLAYING"
         /\ app.ccs = "INBAND_RINGTONE" /\ app.call = "INCOMING" /\ ~Inband
PROOF
  <1>1. Ok(app) /\ app.paused \in Resumable
    BY DEF IInv, AppInv
  <1>2. /\ Quiet(app) /\ app.mode = IN_TRANSIT /\ app.final = CALL
        /\ app.call = "INCOMING" /\ app.ccs = "INBAND_RINGTONE" /\ ~Inband
        /\ Silent(app) /\ Control(app)
    BY DEF Idles, Rings, Alerts
  <1>3. /\ Clear(app) /\ ~app.big /\ app.media # "PLAYING" /\ app.paused # CALL
    BY <1>2 DEF Control, Clear, Quiet, IN_TRANSIT, BROADCAST, CALL, MEDIA
  <1>4. app.paused \in {NONE, MEDIA, MIC, BIDIRMIC}
    BY <1>1, <1>3 DEF Resumable
  <1> QED  BY <1>1, <1>2, <1>3, <1>4 DEF Quiet, LeftMode, Clear

\* A call that rings without a stream is terminated: what it interrupted
\* comes back at once.
LEMMA RingsEnd ==
  ASSUME IInv, StepKept, Idles, Rings, Suited, NEW c \in Devices,
         srv' = srv, nq' = nq, app' = TerminateCall(app, c)
  PROVE  Phases'
PROOF
  <1> DEFINE x == StopStreaming(app, c)
             y == [x EXCEPT !.call = "FREE"]
             u == SetNextAudioMode(y, NONE, ZeroCfg)
             w == [u EXCEPT !.mode = NONE]
             v == IF u.paused = NONE THEN w ELSE ResumePaused(w, c)
  <1>1. /\ Ok(app) /\ Clear(app) /\ app.up = Devices /\ app.list = EmptyList
        /\ ~app.releasing /\ ~app.cigEvt /\ app.iso = {} /\ ~app.big
        /\ app.paused \in {NONE, MEDIA, MIC, BIDIRMIC} /\ app.mode = IN_TRANSIT
        /\ app.media # "PLAYING" /\ app.ccs = "INBAND_RINGTONE"
        /\ ~RingtoneSupported(c)
    BY RingsFacts DEF RingtoneSupported
  <1>2. app' = [v EXCEPT !.ccs = "IDLE"]
    BY <1>1 DEF TerminateCall
  <1>3. Ok(x) /\ SameButStop(app, x) /\ x.releasing = app.releasing /\ Silent(x)
    <2>1. Apart(app.list) /\ Silent(app)
      BY <1>1 DEF Apart, EmptyList, Clear
    <2> QED  BY <1>1, <2>1, StopReleases
  <1> HIDE DEF x
  <1>4. /\ SamePlay(app, x) /\ Clear(x) /\ ~x.releasing /\ ~x.cigEvt /\ x.iso = {}
        /\ ~x.big /\ x.ast = app.ast
    BY <1>1, <1>3 DEF SameButStop, Clear, Ranked, SamePlay, SameMode
  <1>5. "FREE" \in CallStates
    BY DEF CallStates
  <1>6. /\ Ok(y) /\ y.call = "FREE" /\ y.mode = x.mode /\ y.paused = x.paused
        /\ y.media = x.media /\ SameStreams(x, y)
    BY <1>3, <1>5, SetCall, PlainFields
  <1> HIDE DEF y
  <1>7. /\ Ok(u) /\ u.final = NONE /\ u.paused = y.paused /\ u.call = "FREE"
        /\ u.media \in {y.media, "INACTIVE"} /\ SameStreams(y, u)
    <2>1. NONE \in FinalModes /\ ZeroCfg \in Cfg
      BY ModeNames, ZeroCfgType
    <2> QED  BY <1>6, <2>1, SetNextOk, SetNextFields
  <1> HIDE DEF u
  <1>8. /\ Ok(w) /\ w.mode = NONE /\ w.final = NONE /\ w.paused = u.paused
        /\ w.media = u.media /\ w.call = "FREE" /\ SameStreams(u, w)
    <2>1. NONE \in Modes
      BY ModeFacts
    <2> QED  BY <1>7, <2>1, SetMode, PlainFields
  <1> HIDE DEF w
  <1>9. /\ Clear(w) /\ ~w.releasing /\ ~w.cigEvt /\ w.iso = {} /\ ~w.big
        /\ w.ast = app.ast /\ w.media # "PLAYING" /\ w.paused = app.paused
    <2>1. Clear(y)
      BY <1>4, <1>6, ClearStays
    <2>2. Clear(u)
      BY <1>7, <2>1, ClearStays
    <2>3. Clear(w)
      BY <1>8, <2>2, ClearStays
    <2> QED
      BY <1>1, <1>4, <1>6, <1>7, <1>8, <2>3
      DEF SameStreams, SameIso, SamePlay, SameMode
  <1>10. CASE u.paused = NONE
    <2>1. v = w
      BY <1>10
    <2> HIDE DEF v
    <2>2. app' = [w EXCEPT !.ccs = "IDLE"]
      BY <1>2, <2>1
    <2>3. /\ app'.mode = NONE /\ app'.final = NONE /\ app'.paused = NONE
          /\ app'.media = w.media /\ app'.call = "FREE" /\ app'.ccs = "IDLE"
      BY <1>8, <1>10, <2>2 DEF Ok, App
    <2>4. SameStreams(w, app')
      BY <1>8, <2>2 DEF Ok, App, SameStreams, SameIso
    <2>5. Clear(app') /\ app'.ast = app.ast /\ ~app'.releasing /\ ~app'.cigEvt
          /\ app'.iso = {} /\ ~app'.big
      <3>1. Clear(app')
        BY <1>9, <2>4, ClearStays
      <3> QED  BY <1>9, <2>4, <3>1 DEF SameStreams, SameIso
    <2>6. Control(app')
      BY <1>9, <2>3, <2>5, DistinctModes DEF Control, Clear, HeldStates
    <2>7. Rests(app') /\ Silent(app')
      BY <2>3, <2>5 DEF Rests, Quiet, Clear
    <2>8. Fresh(app')
      BY <2>6, <2>7 DEF Fresh
    <2> QED  BY <2>5, <2>8, IdleStep
  <1>11. CASE u.paused # NONE
    <2>1. v = ResumePaused(w, c)
      BY <1>11
    <2>2. w.paused \in {MEDIA, MIC, BIDIRMIC}
      BY <1>1, <1>8, <1>9, <1>11
    <2>3. /\ Ok(v) /\ Launched(v, v.cfg, v.final) /\ SameIso(w, v)
          /\ v.mode = IN_TRANSIT /\ v.final = w.paused /\ v.paused = NONE
          /\ v.call = w.call
          /\ v.media = IF w.paused = MEDIA THEN "PLAYING" ELSE w.media
      BY <1>8, <1>9, <2>1, <2>2, ReturnLaunches
    <2> HIDE DEF v
    <2>4. /\ app'.mode = v.mode /\ app'.final = v.final /\ app'.paused = v.paused
          /\ app'.media = v.media /\ app'.call = v.call /\ app'.ccs = "IDLE"
          /\ app'.cfg = v.cfg
      BY <1>2, <2>3 DEF Ok, App
    <2>5. SameStreams(v, app')
      BY <1>2, <2>3 DEF Ok, App, SameStreams, SameIso
    <2>6. Launched(app', app'.cfg, app'.final)
      BY <2>3, <2>4, <2>5, LaunchedStays
    <2>7. app'.final \in UnicastModes /\ app'.final # CALL
      BY <2>2, <2>3, <2>4 DEF UnicastModes, MEDIA, MIC, BIDIRMIC, CALL
    <2>8. Eligible(app', app'.final) /\ app'.ast = app.ast
      BY <1>8, <1>9, <2>3, <2>4, <2>5, <2>7
      DEF Eligible, SameIso, SameStreams, Clear
    <2>9. Fresh(app')
      BY <2>3, <2>4, <2>6, <2>8, DistinctModes, EligibleFresh
    <2> QED  BY <2>8, <2>9, IdleStep
  <1> QED  BY <1>10, <1>11

\* A call that rings without a stream is answered.
LEMMA RingsAccept ==
  ASSUME IInv, StepKept, Idles, Rings, Suited, NEW c \in Devices,
         srv' = srv, nq' = nq, app' = AcceptCall(app, c)
  PROVE  Phases'
PROOF
  <1> DEFINE f == [app.cfg EXCEPT !.ctx = "CONVERSATIONAL"]
             g == Counted(app, c, f)
             t == [app EXCEPT !.call = "ACTIVE"]
             x == [t EXCEPT !.ccs = "CONVO", !.cfg = g]
  <1>1. /\ Ok(app) /\ Clear(app) /\ app.up = Devices /\ app.list = EmptyList
        /\ ~app.releasing /\ ~app.cigEvt /\ app.iso = {} /\ ~app.big
        /\ app.mode = IN_TRANSIT /\ app.final = CALL
        /\ app.paused # CALL /\ app.media # "PLAYING" /\ ~Inband
    <2>1. app.paused # CALL
      BY RingsFacts DEF NONE, MEDIA, MIC, BIDIRMIC, CALL
    <2> QED  BY <2>1, RingsFacts
  <1>2. app' = StartStreaming(x, c, g)
    BY <1>1 DEF AcceptCall
  <1>3. c \in Conn /\ app.cfg \in Cfg /\ f \in Cfg
    <2>1. "CONVERSATIONAL" \in Contexts
      BY DEF Contexts
    <2> QED  BY <1>1, <2>1, FinalType, CfgCtxType, DeviceAssumption
  <1>4. g \in Cfg
    BY <1>3, CountedType
  <1>5. Fit(f.ctx, CALL)
    <2>1. f.ctx = "CONVERSATIONAL"
      BY <1>3 DEF Cfg
    <2> QED  BY <2>1 DEF Fit, KnownCtx, MIC, CALL
  <1> HIDE DEF f
  <1>6. Ok(t) /\ t.call = "ACTIVE" /\ SameStreams(app, t) /\ t.mode = app.mode
        /\ t.final = app.final /\ t.paused = app.paused /\ t.media = app.media
        /\ t.up = app.up
    <2>1. "ACTIVE" \in CallStates
      BY DEF CallStates
    <2> QED  BY <1>1, <2>1, SetCall, PlainFields
  <1> HIDE DEF t, g
  <1>7. Ok(x) /\ SamePlay(t, x) /\ SameStreams(t, x) /\ x.ccs = "CONVO" /\ x.cfg = g
    <2>1. "CONVO" \in CcsStates
      BY DEF CcsStates
    <2>2. x = [[t EXCEPT !.ccs = "CONVO"] EXCEPT !.cfg = g]
      BY <1>6 DEF Ok, App
    <2>3. /\ x.ccs = "CONVO" /\ x.cfg = g /\ SamePlay(t, x) /\ SameStreams(t, x)
      BY <1>6 DEF Ok, App, SamePlay, SameMode, SameStreams, SameIso
    <2>4. Ok(x)
      BY <1>4, <1>6, <2>1, <2>2, SetCcs, SetCfg
    <2> QED  BY <2>3, <2>4
  <1> HIDE DEF x
  <1>8. Clear(x)
    <2>1. Clear(t)
      BY <1>1, <1>6, ClearStays
    <2> QED  BY <1>7, <2>1, ClearStays
  <1>9. g = Counted(x, c, f)
    <2>1. x.up = app.up
      BY <1>6, <1>7 DEF SamePlay, SameMode
    <2> QED  BY <2>1, CountedSame DEF g
  <1>10. SameButStart(x, app') /\ Launched(app', g, CALL)
    BY <1>2, <1>3, <1>5, <1>7, <1>8, <1>9, StartLaunches DEF Clear
  <1>11. /\ app'.cfg = g /\ app'.ccs = "CONVO" /\ app'.call = "ACTIVE"
         /\ app'.mode = IN_TRANSIT /\ app'.final = CALL /\ app'.paused = app.paused
         /\ app'.media = app.media /\ app'.up = Devices /\ app'.ast = app.ast
         /\ ~app'.releasing /\ ~app'.cigEvt /\ app'.iso = {} /\ ~app'.big
    BY <1>1, <1>6, <1>7, <1>10
    DEF SameButStart, SamePlay, SameMode, SameIso, SameStreams
  <1>12. Control(app')
    BY <1>1, <1>10, <1>11
    DEF Control, Launched, HeldStates, IN_TRANSIT, BROADCAST
  <1>13. Begun(app')
    BY <1>10, <1>11, UnicastFacts DEF Begun, On, Launched
  <1>14. Fresh(app')
    BY <1>10, <1>11, <1>12, <1>13 DEF Fresh
  <1> QED  BY <1>11, <1>14, IdleStep

\* What a command does to the rest of the state.
LEMMA GivenFacts ==
  ASSUME Polite, NEW name, NEW next, Given(name, next)
  PROVE  /\ app' = next /\ srv' = srv /\ nq' = nq /\ Settled
         /\ name \in Cmds /\ name \notin {"disconnect", "originate"}
  BY DEF Given, Polite

\* The same of the commands but the accept.
LEMMA CommandFacts ==
  ASSUME Polite, NEW name, NEW next, Command(name, next)
  PROVE  /\ app' = next /\ srv' = srv /\ nq' = nq /\ Settled
         /\ name \notin {"disconnect", "originate"}
  BY GivenFacts DEF Command

\* A command that leaves everything as it was.
LEMMA NothingStep ==
  ASSUME Phases, app' = app, srv' = srv, nq' = nq
  PROVE  Phases'
PROOF
  <1>1. \A a \in Ase : Unmoved(a)
    BY SameQueue DEF Unmoved
  <1>2. /\ \A a \in Ase : Resting(a) => Resting(a)'
        /\ \A a \in Ase : Configuring(a) => Configuring(a)'
        /\ \A a \in Ase : Ready(a) => Ready(a)'
        /\ \A a \in Ase : Flowing(a) => Flowing(a)'
        /\ \A a \in Ase : Going(a) => Going(a)'
        /\ \A a \in Ase : Gone(a) => Gone(a)'
    BY <1>1, StageKept
  <1>3. Rest => Rest'
    BY <1>2 DEF Rest
  <1>4. Rings => Rings'
    BY <1>2 DEF Rings
  <1>5. Starting => Starting'
    BY <1>2 DEF Starting
  <1>6. Awaiting => Awaiting'
    BY <1>2 DEF Awaiting
  <1>7. Running => Running'
    BY <1>2 DEF Running
  <1>8. Leaving => Leaving'
    BY <1>2 DEF Leaving
  <1> QED  BY <1>3, <1>4, <1>5, <1>6, <1>7, <1>8 DEF Phases

\* The commands to a player that rests.
LEMMA RestCommands ==
  ASSUME IInv, StepKept, Idles, Rest, Suited, Polite, Commands
  PROVE  Phases'
PROOF
  <1>1. /\ app.up = Devices /\ app.mode \in {NONE, BROADCAST}
        /\ app.final = app.mode /\ app.call = "FREE"
        /\ app.big <=> app.mode = BROADCAST
    BY RestFacts
  <1>2. LeftMode(app) = app.mode /\ \A m : StopRefused(app, m) \/ app.mode = NONE
    BY <1>1 DEF LeftMode, StopRefused, NONE, BROADCAST, MEDIA, MIC, BIDIRMIC, CALL,
                IN_TRANSIT
  <1>3. app.mode # MEDIA /\ app.mode # MIC /\ app.mode # BIDIRMIC /\ app.mode # CALL
    BY <1>1 DEF NONE, BROADCAST, MEDIA, MIC, BIDIRMIC, CALL
  <1>4. ZeroCfg \in Cfg /\ \A two \in Stereo : HostCfg(two) \in Cfg
    BY ZeroCfgType, HostCfgType
  <1>5. ASSUME NEW c \in app.up, NEW two \in Stereo, Play(c, two)
        PROVE  Phases'
    <2>1. app.mode = NONE /\ app' = RpcPlay(app, c, HostCfg(two)) /\ srv' = srv /\ nq' = nq
      BY <1>5, CommandFacts DEF Play
    <2> QED  BY <1>1, <1>4, <2>1, RestStarts
  <1>6. ASSUME NEW c \in app.up, NEW two \in Stereo, StartBidir(c, two)
        PROVE  Phases'
    <2>1. /\ app.mode = NONE /\ app' = StartBidirMic(app, c, HostCfg(two))
          /\ srv' = srv /\ nq' = nq
      BY <1>2, <1>6, CommandFacts DEF StartBidir
    <2> QED  BY <1>1, <1>4, <2>1, RestStarts
  <1>7. ASSUME NEW c \in app.up, NEW two \in Stereo, Ring(c, two)
        PROVE  Phases'
    <2>1. /\ app.mode = NONE /\ app' = GenerateCall(app, c, HostCfg(two))
          /\ srv' = srv /\ nq' = nq
      BY <1>2, <1>7, CommandFacts DEF Ring
    <2> QED  BY <1>1, <1>4, <2>1, RestRings
  <1>8. ASSUME NEW c \in app.up, StartMic(c)
        PROVE  Phases'
    <2>1. /\ app.mode = NONE /\ app' = StartVoiceCapture(app, c, ZeroCfg)
          /\ srv' = srv /\ nq' = nq
      BY <1>2, <1>8, CommandFacts DEF StartMic
    <2> QED  BY <1>1, <1>4, <2>1, RestStarts
  <1>9. ASSUME NEW c \in app.up, PeerPlay(c)
        PROVE  Phases'
    <2>1. /\ app.mode = NONE /\ app' = GmcsPlay(app, c) /\ srv' = srv /\ nq' = nq
      BY <1>9, CommandFacts DEF PeerPlay
    <2> QED  BY <1>1, <1>4, <2>1, RestStarts
  <1>10. ASSUME NEW c \in app.up,
                \/ Pause(c) \/ StopMic(c) \/ StopBidir(c) \/ EndCall(c)
                \/ StopToDisconnect(c) \/ PeerPause(c) \/ PeerAccept(c)
                \/ PeerTerminate(c)
         PROVE  FALSE
    BY <1>1, <1>2, <1>3, <1>10, CommandFacts
    DEF Pause, StopMic, StopBidir, EndCall, StopToDisconnect, PeerPause, PeerAccept,
        PeerTerminate
  <1>11. ~PeerOriginate /\ ~PeerHold /\ ~PeerRetrieve /\ ~PeerJoin /\ ~RemoteHold
         /\ ~RemoteRetrieve
    BY <1>1, CommandFacts DEF PeerOriginate, PeerHold, PeerRetrieve, PeerJoin,
       RemoteHold, RemoteRetrieve
  <1>12. CASE BroadcastStart
    <2>1. app.mode = NONE /\ app' = StartBroadcast(app) /\ srv' = srv /\ nq' = nq
      BY <1>12, CommandFacts DEF BroadcastStart
    <2> QED  BY <2>1, RestBroadcasts
  <1>13. CASE BroadcastStop
    <2>1. app.mode = BROADCAST /\ app' = StopBroadcast(app) /\ srv' = srv /\ nq' = nq
      BY <1>1, <1>13, CommandFacts DEF BroadcastStop
    <2> QED  BY <2>1, RestBroadcasts
  <1> QED
    BY <1>5, <1>6, <1>7, <1>8, <1>9, <1>10, <1>11, <1>12, <1>13 DEF Commands

\* The commands to a player that alerts to a call.
LEMMA RingsCommands ==
  ASSUME IInv, StepKept, Phases, Idles, Rings, Suited, Polite, Commands
  PROVE  Phases'
PROOF
  <1>1. /\ Ok(app) /\ app.up = Devices /\ app.mode = IN_TRANSIT /\ app.final = CALL
        /\ LeftMode(app) = CALL /\ app.call = "INCOMING" /\ ~app.big
    BY RingsFacts
  <1>2. /\ app.mode # NONE /\ app.mode # CALL
        /\ app.mode # MEDIA /\ app.final # MEDIA /\ app.mode # MIC /\ app.final # MIC
        /\ app.mode # BIDIRMIC /\ app.final # BIDIRMIC
        /\ StopRefused(app, MIC) /\ StopRefused(app, BIDIRMIC)
    BY <1>1 DEF StopRefused, NONE, MEDIA, MIC, BIDIRMIC, CALL, IN_TRANSIT
  <1>3. "once" \in Manners /\ "answered" \in Manners
    BY DEF Polite
  <1>4. ASSUME NEW c \in app.up, EndCall(c) \/ PeerTerminate(c)
        PROVE  Phases'
    <2>1. app' = TerminateCall(app, c) /\ srv' = srv /\ nq' = nq
      BY <1>4, CommandFacts DEF EndCall, PeerTerminate
    <2> QED  BY <1>1, <2>1, RingsEnd
  <1>5. ASSUME NEW c \in app.up, PeerAccept(c)
        PROVE  Phases'
    <2>1. app' = AcceptCall(app, c) /\ srv' = srv /\ nq' = nq
      BY <1>5, GivenFacts DEF PeerAccept
    <2> QED  BY <1>1, <2>1, RingsAccept
  <1>6. ASSUME NEW c \in app.up, NEW two \in Stereo,
               Play(c, two) \/ StartBidir(c, two) \/ Ring(c, two)
        PROVE  FALSE
    BY <1>1, <1>2, <1>3, <1>6 DEF Play, StartBidir, Ring
  <1>7. ASSUME NEW c \in app.up,
               \/ Pause(c) \/ StartMic(c) \/ StopMic(c) \/ StopBidir(c)
               \/ StopToDisconnect(c) \/ PeerPlay(c) \/ PeerPause(c)
        PROVE  FALSE
    BY <1>1, <1>2, <1>7, CommandFacts, DistinctModes
    DEF Pause, StartMic, StopMic, StopBidir, StopToDisconnect, PeerPlay, PeerPause
  <1>8. CASE PeerRetrieve
    <2>1. app' = RetrieveCall(app) /\ srv' = srv /\ nq' = nq
      BY <1>8, CommandFacts DEF PeerRetrieve
    <2>2. app' = app
      BY <1>1, <2>1 DEF RetrieveCall, Ok, App
    <2> QED  BY <2>1, <2>2, NothingStep
  <1>9. ~PeerOriginate /\ ~PeerHold /\ ~PeerJoin /\ ~RemoteHold /\ ~RemoteRetrieve
    BY <1>1, <1>2, <1>3 DEF PeerOriginate, PeerHold, PeerJoin, RemoteHold,
                            RemoteRetrieve
  <1>10. ~BroadcastStart /\ ~BroadcastStop
    BY <1>1, <1>2 DEF BroadcastStart, BroadcastStop
  <1> QED  BY <1>4, <1>5, <1>6, <1>7, <1>8, <1>9, <1>10 DEF Commands

\* The commands to a player whose mode is on.
LEMMA RunningCommands ==
  ASSUME IInv, Phases, Plays, Suited, Polite, Commands
  PROVE  Phases'
PROOF
  <1>1. /\ Ok(app) /\ app \in App /\ app.up = Devices
        /\ app.mode = app.final /\ app.final \in UnicastModes
        /\ LeftMode(app) = app.final /\ app.mode # NONE
        /\ app.call # "FREE" <=> app.final = CALL
        /\ app.call = "INCOMING" => Inband /\ app.ccs = "INBAND_RINGTONE"
        /\ app.call # "DIALING"
        /\ app.call \in {"ACTIVE"} \cup HeldStates =>
             app.ccs \in {"CONVO", "INBAND_RINGTONE_CONVO"}
        /\ ~app.big
    BY PlaysFacts
  <1>2. "once" \in Manners /\ "answered" \in Manners
    BY DEF Polite
  <1>3. \A m \in {MIC, BIDIRMIC} : ~StopRefused(app, m) => app.final # CALL
    BY <1>1 DEF StopRefused, NONE, MEDIA, MIC, BIDIRMIC, CALL
  <1>4. \A two \in Stereo : HostCfg(two) \in Cfg
    BY HostCfgType
  <1>5. ASSUME NEW c \in app.up,
               Pause(c) \/ PeerPause(c) \/ StopMic(c) \/ StopBidir(c)
        PROVE  Phases'
    <2>1. srv' = srv /\ nq' = nq
      BY <1>5, CommandFacts DEF Pause, PeerPause, StopMic, StopBidir
    <2>2. CASE Pause(c) \/ PeerPause(c)
      <3>1. app.final = MEDIA /\ app' = RpcPause(app, c)
        BY <1>1, <2>2, CommandFacts DEF Pause, PeerPause
      <3>2. app' = RpcStopStreaming(app, c) /\ app.final # CALL
        BY <1>1, <3>1, DistinctModes DEF RpcPause, RpcStopStreaming, StopForNext
      <3> QED  BY <1>1, <2>1, <3>2, RunningStop
    <2>3. CASE StopMic(c) \/ StopBidir(c)
      <3>1. app.final \in {MIC, BIDIRMIC}
        BY <1>1, <2>3 DEF StopMic, StopBidir
      <3>2. app' = SetNextAudioMode(StopStreaming(app, c), NONE, ZeroCfg)
        BY <2>3, CommandFacts DEF StopMic, StopBidir, StopVoiceCapture, StopBidirMic
      <3>3. app.final # MEDIA /\ app.final # CALL
        BY <3>1 DEF MEDIA, MIC, BIDIRMIC, CALL
      <3>4. app' = RpcStopStreaming(app, c)
        BY <1>1, <3>2, <3>3 DEF RpcStopStreaming, StopForNext
      <3> QED  BY <1>1, <2>1, <3>3, <3>4, RunningStop
    <2> QED  BY <1>5, <2>2, <2>3
  <1>6. ASSUME NEW c \in app.up, StartMic(c)
        PROVE  Phases'
    <2>1. /\ app' = SetNextAudioMode(StopForNext(app, c), MIC, ZeroCfg)
          /\ srv' = srv /\ nq' = nq
      BY <1>1, <1>6, CommandFacts DEF StartMic, StartVoiceCapture
    <2>2. ~StopRefused(app, MIC)
      BY <1>1, <1>6 DEF StartMic
    <2>3. app.final # CALL
      BY <1>3, <2>2
    <2> QED  BY <1>1, <2>1, <2>3, ZeroCfgType, RunningStart
  <1>7. ASSUME NEW c \in app.up, NEW two \in Stereo, StartBidir(c, two)
        PROVE  Phases'
    <2> DEFINE g == [HostCfg(two) EXCEPT !.ctx = "GAME"]
    <2>1. /\ app' = SetNextAudioMode(StopForNext(app, c), BIDIRMIC, g)
          /\ srv' = srv /\ nq' = nq
      BY <1>1, <1>7, CommandFacts DEF StartBidir, StartBidirMic
    <2>2. ~StopRefused(app, BIDIRMIC)
      BY <1>1, <1>7 DEF StartBidir
    <2>3. app.final # CALL
      BY <1>3, <2>2
    <2>4. g \in Cfg
      <3>1. "GAME" \in Contexts
        BY DEF Contexts
      <3> QED  BY <1>4, <3>1, CfgCtxType
    <2> HIDE DEF g
    <2> QED  BY <1>1, <2>1, <2>3, <2>4, RunningStart
  <1>8. ASSUME NEW c \in app.up, NEW two \in Stereo, Ring(c, two)
        PROVE  Phases'
    <2>1. app.call = "FREE"
      BY <1>2, <1>8 DEF Ring
    <2>2. /\ app' = SetNextAudioMode(RegisterCall(StopForNext(app, c)), CALL, HostCfg(two))
          /\ srv' = srv /\ nq' = nq
      BY <1>1, <1>8, CommandFacts DEF Ring, GenerateCall
    <2> QED  BY <1>1, <1>4, <2>1, <2>2, RunningRing
  <1>9. ASSUME NEW c \in app.up, EndCall(c) \/ PeerTerminate(c)
        PROVE  Phases'
    <2>1. app.call # "FREE" /\ app' = TerminateCall(app, c) /\ srv' = srv /\ nq' = nq
      BY <1>9, CommandFacts DEF EndCall, PeerTerminate
    <2> QED  BY <1>1, <2>1, RunningEnd
  <1>10. ASSUME NEW c \in app.up, PeerAccept(c)
         PROVE  Phases'
    <2>1. /\ app.call = "INCOMING" /\ app' = AcceptCall(app, c)
          /\ srv' = srv /\ nq' = nq
      BY <1>1, <1>10, GivenFacts DEF PeerAccept
    <2>2. app' = [[app EXCEPT !.call = "ACTIVE"] EXCEPT !.ccs = "INBAND_RINGTONE_CONVO"]
      BY <1>1, <2>1 DEF AcceptCall
    <2>3. /\ SameStreams(app, app') /\ app'.cfg = app.cfg /\ app'.mode = app.mode
          /\ app'.final = app.final /\ app'.paused = app.paused
          /\ app'.media = app.media /\ app'.call = "ACTIVE"
          /\ app'.ccs = "INBAND_RINGTONE_CONVO"
      BY <1>1, <2>2 DEF App, SameStreams, SameIso
    <2> QED  BY <1>1, <2>1, <2>3, RunningCall
  <1>11. ASSUME NEW x \in HeldStates \cup {"ACTIVE"}, srv' = srv, nq' = nq,
                app' = [app EXCEPT !.call = x],
                app.call \in {"ACTIVE"} \cup HeldStates
         PROVE  Phases'
    <2>1. /\ SameStreams(app, app') /\ app'.cfg = app.cfg /\ app'.mode = app.mode
          /\ app'.final = app.final /\ app'.paused = app.paused
          /\ app'.media = app.media /\ app'.call = x /\ app'.ccs = app.ccs
      BY <1>1, <1>11 DEF App, SameStreams, SameIso
    <2>2. app.final = CALL
      BY <1>1, <1>11 DEF HeldStates
    <2>3. /\ app'.call \in {"ACTIVE"} \cup HeldStates
          /\ app'.ccs \in {"CONVO", "INBAND_RINGTONE_CONVO"}
      BY <1>1, <1>11, <2>1
    <2> QED  BY <1>11, <2>1, <2>2, <2>3, RunningCall
  <1>12. app.call \in {"FREE", "INCOMING", "ACTIVE"} \cup HeldStates
    BY <1>1 DEF App, CallStates, HeldStates
  <1>13. CASE PeerHold
    <2>1. /\ app.call \in {"ACTIVE"} \cup HeldStates /\ app' = HoldCall(app)
          /\ srv' = srv /\ nq' = nq
      BY <1>2, <1>12, <1>13, CommandFacts DEF PeerHold, HeldStates
    <2> QED  BY <1>1, <1>11, <2>1 DEF HoldCall, HeldStates
  <1>14. CASE PeerRetrieve \/ PeerJoin
    <2>1. /\ app.call # "FREE" /\ app' = RetrieveCall(app) /\ srv' = srv /\ nq' = nq
      BY <1>14, CommandFacts DEF PeerRetrieve, PeerJoin, JoinCall
    <2>2. CASE app.call = "INCOMING"
      <3>1. app' = app
        BY <1>1, <2>1, <2>2 DEF RetrieveCall, App
      <3> QED  BY <2>1, <3>1, NothingStep
    <2>3. CASE app.call # "INCOMING"
      <3> DEFINE x == CASE app.call = "LOCALLY_HELD" -> "ACTIVE"
                        [] app.call = "BOTH_HELD"    -> "REMOTELY_HELD"
                        [] OTHER                     -> app.call
      <3>1. app' = [app EXCEPT !.call = x]
        BY <1>1, <2>1 DEF RetrieveCall, App
      <3>2. app.call \in {"ACTIVE"} \cup HeldStates
        BY <1>12, <2>1, <2>3
      <3>3. x \in HeldStates \cup {"ACTIVE"}
        BY <3>2 DEF HeldStates
      <3> HIDE DEF x
      <3> QED  BY <1>11, <2>1, <3>1, <3>2, <3>3
    <2> QED  BY <2>2, <2>3
  <1>15. CASE RemoteHold
    <2>1. /\ app.call \in {"ACTIVE"} \cup HeldStates /\ app' = RemotelyHoldCall(app)
          /\ srv' = srv /\ nq' = nq
      BY <1>2, <1>12, <1>15, CommandFacts DEF RemoteHold
    <2> QED  BY <1>1, <1>11, <2>1 DEF RemotelyHoldCall, HeldStates
  <1>16. CASE RemoteRetrieve
    <2>1. /\ app.call # "FREE" /\ app' = RetrieveRemotelyHoldCall(app)
          /\ srv' = srv /\ nq' = nq
      BY <1>16, CommandFacts DEF RemoteRetrieve
    <2>2. CASE app.call = "INCOMING"
      <3>1. app' = app
        BY <1>1, <2>1, <2>2 DEF RetrieveRemotelyHoldCall, App
      <3> QED  BY <2>1, <3>1, NothingStep
    <2>3. CASE app.call # "INCOMING"
      <3> DEFINE x == CASE app.call = "REMOTELY_HELD" -> "ACTIVE"
                        [] app.call = "BOTH_HELD"     -> "LOCALLY_HELD"
                        [] OTHER                      -> app.call
      <3>1. app' = [app EXCEPT !.call = x]
        BY <1>1, <2>1 DEF RetrieveRemotelyHoldCall, App
      <3>2. app.call \in {"ACTIVE"} \cup HeldStates
        BY <1>12, <2>1, <2>3
      <3>3. x \in HeldStates \cup {"ACTIVE"}
        BY <3>2 DEF HeldStates
      <3> HIDE DEF x
      <3> QED  BY <1>11, <2>1, <3>1, <3>2, <3>3
    <2> QED  BY <2>2, <2>3
  <1>17. ASSUME NEW c \in app.up, NEW two \in Stereo, Play(c, two)
         PROVE  FALSE
    BY <1>1, <1>17 DEF Play
  <1>18. ASSUME NEW c \in app.up, StopToDisconnect(c) \/ PeerPlay(c)
         PROVE  FALSE
    BY <1>1, <1>18, CommandFacts DEF StopToDisconnect, PeerPlay
  <1>19. ~PeerOriginate /\ ~BroadcastStart /\ ~BroadcastStop
    BY <1>1, CommandFacts DEF PeerOriginate, BroadcastStart, BroadcastStop
  <1> QED
    BY <1>5, <1>6, <1>7, <1>8, <1>9, <1>10, <1>13, <1>14, <1>15, <1>16, <1>17, <1>18,
       <1>19 DEF Commands

\* Every command keeps the phases: it waits until everything has settled.
LEMMA CommandsStep ==
  ASSUME IInv, Phases, StepKept, Suited, Polite, Commands
  PROVE  Phases'
PROOF
  <1>1. Settled
    BY CommandFacts, GivenFacts
    DEF Commands, Play, StartBidir, Ring, Pause, StartMic, StopMic, StopBidir,
        EndCall, StopToDisconnect, PeerPlay, PeerPause, PeerAccept, PeerTerminate,
        PeerOriginate, PeerHold, PeerRetrieve, PeerJoin, RemoteHold, RemoteRetrieve,
        BroadcastStart, BroadcastStop
  <1>2. /\ Control(app)
        /\ \/ Rest \/ Rings
           \/ /\ Running
              /\ \A a \in Ase : InList(app.list, a) => srv[a] = STREAMING
                                                    /\ app.ast[a] = STREAMING
        /\ \A a \in Ase : Hushed(a)
        /\ Silent(app)
    BY <1>1, SettledPhases
  <1>3. CASE Rest
    BY <1>2, <1>3, RestCommands DEF Idles
  <1>4. CASE Rings
    BY <1>2, <1>4, RingsCommands DEF Idles
  <1>5. CASE /\ Running
             /\ \A a \in Ase : InList(app.list, a) => srv[a] = STREAMING
                                                   /\ app.ast[a] = STREAMING
    BY <1>2, <1>5, RunningCommands DEF Plays
  <1> QED  BY <1>2, <1>3, <1>4, <1>5

\* At the start the player rests.
LEMMA InitPhases == Init => Phases
PROOF
  <1> SUFFICES ASSUME Init
               PROVE  Phases
    OBVIOUS
  <1>1. /\ app.mode = NONE /\ app.final = NONE /\ app.paused = NONE
        /\ ~app.releasing /\ app.list = EmptyList /\ app.media = "INACTIVE"
        /\ app.ccs = "IDLE" /\ app.call = "FREE" /\ app.up = Devices
        /\ ~app.cigEvt /\ app.iso = {} /\ ~app.big
        /\ \A a \in Ase : app.ast[a] = IDLE /\ app.cid[a] = 0 /\ srv[a] = IDLE
        /\ \A c \in Conn : app.out[c] = << >> /\ nq[c] = << >>
    BY DEF Init, InitApp
  <1>2. Control(app)
    BY <1>1, DistinctModes DEF Control, Ranked, HeldStates
  <1>3. Rests(app)
    BY <1>1 DEF Rests, Quiet
  <1>4. \A a \in Ase : Resting(a)
    <2> SUFFICES ASSUME NEW a \in Ase
                 PROVE  Resting(a)
      OBVIOUS
    <2>1. app.out[Owner[a]] = << >> /\ nq[Owner[a]] = << >>
      BY <1>1, DeviceAssumption
    <2>2. None(<< >>, a)
      BY DEF None
    <2> QED  BY <1>1, <2>1, <2>2 DEF Resting, Hushed, IDLE, CODEC_CONFIGURED
  <1> QED  BY <1>2, <1>3, <1>4 DEF Phases, Rest

\* A step keeps the phases: without faults the links stay up.
LEMMA StepPhases ==
  ASSUME IInv, Phases, dropping = {}, Suited, Polite, Alike, [Next]_vars
  PROVE  Phases' /\ dropping' = {}
PROOF
  <1>1. StepKept
    BY StepInv
  <1>2. ASSUME Commands
        PROVE  Phases'
    BY <1>1, <1>2, CommandsStep
  <1>3. ASSUME Progress
        PROVE  Phases'
    BY <1>1, <1>3, ProgressStep
  <1>4. ~Faults
    <2>1. ~(faults < MaxFaults)
      BY DEF IInv, EnvInv, Polite
    <2>2. app.up = Devices
      BY DEF Phases, Control
    <2> QED  BY <2>1, <2>2 DEF Faults, Fault, ServerReject, PathFails, LinkLoss,
                               Reconnect, ServerDisable
  <1>5. ASSUME UNCHANGED vars
        PROVE  Phases'
    BY <1>5, NothingStep DEF vars
  <1>6. dropping' = {}
    <2>1. ASSUME NEW c \in app.up, PeerAccept(c)
          PROVE  AcceptDrops(app) = {}
      <3>1. "accept" \in Cmds
        BY <2>1, GivenFacts DEF PeerAccept
      <3> QED  BY <3>1 DEF Polite, AcceptDrops
    <2> QED  BY <2>1, DropsStep
  <1> QED  BY <1>2, <1>3, <1>4, <1>5, <1>6 DEF Next

\* When everything has settled, the audio mode tells what the servers do, and
\* a call what the mode is (lepl_cap.c, lepl_tbs.c): for a host that waits and
\* starts nothing twice, on links without faults, with devices that have the
\* ASEs and contexts of their role and caches of one kind; in a build that
\* streams the ringtone, for calls that are not accepted.
THEOREM SettledIsConsistent ==
  ASSUME Suited, Polite, Alike
  PROVE  Spec => []SettledConsistent
PROOF
  <1> DEFINE Steady == IInv /\ Phases /\ dropping = {}
  <1>1. Init => Steady
    BY InitInv, InitPhases DEF Init
  <1>2. Steady /\ [Next]_vars => Steady'
    BY StepInv, StepPhases DEF StepKept
  <1>3. Steady => SettledConsistent
    BY PhasesConsistent
  <1> QED  BY <1>1, <1>2, <1>3, PTL DEF Spec

=============================================================================
