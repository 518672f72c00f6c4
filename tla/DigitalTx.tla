------------------------------ MODULE DigitalTx ------------------------------
(***************************************************************************)
(* Program-audio transmission of QK4 Mobile.  Three threads share the      *)
(* radio's transmitter:                                                    *)
(*   ui     MainWindow: starts and stops FT8/FT4 slots, SSTV and voice PTT; *)
(*   io     TcpClient with DigitalTxGuard: owns the socket, the audio gate  *)
(*          and the 50 ms watchdog;                                         *)
(*   audio  Ft8Transmitter (tx) and AudioEngine (au): produce the packets.  *)
(* They talk through one FIFO event queue per thread (Qt queued            *)
(* connections) and through the atomics of DigitalTxControl (ctl).  A Qt   *)
(* event handler is one action, except where it touches an atomic more     *)
(* than once: it is then split, with a "pc", between those accesses.       *)
(* Time is abstract: an expired deadline is an action of its own.          *)
(***************************************************************************)
EXTENDS Naturals, Sequences

CONSTANTS
  Sources,  \* the program-audio sources in use: "ft8", "sstv"
  Frames,   \* packets of program audio in one transmission
  Budgets   \* bound: how much one behaviour may ask for, one of these at a time:
            \* gen, generations started; stop, halts of an FT8 slot, stops of an
            \* SSTV image and connections lost; ptt, presses of a voice PTT

LeftType == [gen : Nat, stop : Nat, ptt : Nat]

ASSUME Bounds ==
  /\ Sources \subseteq {"ft8", "sstv"}
  /\ Frames \in Nat \ {0} /\ Budgets \subseteq LeftType

VARIABLES
  ui,              \* MainWindow's transmit state
  ctl,             \* DigitalTxControl: gen, sched, fault
  io,              \* TcpClient and its DigitalTxGuard
  tx,              \* Ft8Transmitter
  au,              \* AudioEngine's transmit state
  uiQ, ioQ, auQ,   \* the threads' event queues
  line,            \* history: what the socket carried to the K4
  left             \* what the budget still allows

vars == <<ui, ctl, io, tx, au, uiQ, ioQ, auQ, line, left>>

(* A queued call or signal: its name, its generation and one flag (the      *)
(* final packet, preparation succeeded, PTT on ...).                        *)
Msg(t, g, x) == [t |-> t, g |-> g, x |-> x]
Silence == [t |-> "none", g |-> 0]
Item(t, g) == [t |-> t, g |-> g]

Init ==
  /\ ui = [gen |-> 0, ft8 |-> 0, starting |-> FALSE, active |-> FALSE, draining |-> FALSE,
           ptt |-> FALSE, held |-> FALSE, keyUp |-> 0, drain |-> 0, pc |-> "idle"]
  /\ ctl = [gen |-> 0, sched |-> 0, fault |-> 0]
  /\ io = [conn |-> TRUE, gate |-> FALSE, gateGen |-> 0, mode |-> "sstv", guard |-> FALSE,
           guardGen |-> 0, latched |-> FALSE, timer |-> FALSE, drain |-> 0, pc |-> "idle"]
  /\ tx = [phase |-> "Idle", gen |-> 0, keyed |-> FALSE, accepted |-> FALSE, emitted |-> 0,
           closing |-> FALSE]
  /\ au = [gen |-> 0, prepared |-> FALSE, active |-> FALSE, pacer |-> FALSE, emitted |-> 0,
           enc |-> 0, ptt |-> FALSE, starting |-> FALSE]
  /\ uiQ = <<>> /\ ioQ = <<>> /\ auQ = <<>>
  /\ line = [keyed |-> FALSE, lease |-> 0, spent |-> {}, wrote |-> Silence]
  /\ left \in Budgets

Spends(what) == left[what] > 0 /\ left' = [left EXCEPT ![what] = @ - 1]

(***************************************************************************)
(* DigitalTxControl                                                        *)
(***************************************************************************)
Allows(g) == g # 0 /\ ctl.gen = g
Close(c, g) == IF c.gen = g THEN [c EXCEPT !.gen = 0] ELSE c
Revoke(c, g) == IF c.sched = g THEN [c EXCEPT !.sched = 0] ELSE c
Fault(c, g) == Close([c EXCEPT !.fault = g], g)

Quiet == line' = [line EXCEPT !.wrote = Silence]

(***************************************************************************)
(* UI thread: operator actions.                                            *)
(***************************************************************************)
UiFree == ui.pc = "idle"
UiRest == UNCHANGED <<io, tx, au, left>> /\ Quiet
Operates(what) == UNCHANGED <<io, tx, au>> /\ Quiet /\ Spends(what)

DigitalOwnsTx == ui.active \/ ui.starting \/ ui.ft8 # 0
M_NothingTransmits == ~DigitalOwnsTx    \* mutant: voice PTT is forgotten
\* ft8TransmitReadiness and startSstvTransmit refuse while anything transmits.
NothingTransmits == ~ui.ptt /\ ~DigitalOwnsTx

StartFt8 ==
  /\ "ft8" \in Sources /\ UiFree /\ io.conn /\ NothingTransmits /\ ui.gen < left.gen
  /\ LET g == ui.gen + 1 IN
     /\ ui' = [ui EXCEPT !.gen = g, !.ft8 = g]
     /\ ctl' = [ctl EXCEPT !.sched = g]
     /\ auQ' = Append(auQ, Msg("schedule", g, FALSE))
  /\ UiRest /\ UNCHANGED <<uiQ, ioQ>>

\* The operator's Call/CQ (liveArmRequested) acknowledges a latched fault.
ArmFt8 ==
  /\ UiFree /\ io.conn /\ NothingTransmits /\ io.latched
  /\ \A i \in DOMAIN ioQ : ioQ[i].t # "ack"
  /\ ioQ' = Append(ioQ, Msg("ack", 0, FALSE))
  /\ UiRest /\ UNCHANGED <<ui, ctl, uiQ, auQ>>

StartSstv ==
  /\ "sstv" \in Sources /\ UiFree /\ io.conn /\ NothingTransmits /\ ui.gen < left.gen
  /\ LET g == ui.gen + 1 IN
     /\ ui' = [ui EXCEPT !.gen = g, !.starting = TRUE, !.active = FALSE, !.draining = FALSE]
     /\ auQ' = Append(auQ, Msg("prepare", g, FALSE))
  /\ ioQ' = Append(ioQ, Msg("ack", 0, FALSE))
  /\ UiRest /\ UNCHANGED <<ctl, uiQ>>

(* stopFt8Transmit: revoke the slot; then close the audio and post the two  *)
(* stops.  Called for HALT, a lost connection, a protection fault, changed  *)
(* radio settings, a reported RX, an external RX; and PTT release.          *)
RevokeFt8(u) == [u EXCEPT !.pc = "haltFt8"]
HaltFt8 ==
  /\ UiFree /\ ui.ft8 # 0
  /\ ui' = RevokeFt8(ui)
  /\ ctl' = Revoke(ctl, ui.ft8)
  /\ Operates("stop") /\ UNCHANGED <<uiQ, ioQ, auQ>>
HaltFt8Close ==
  /\ ui.pc \in {"haltFt8", "release"}
  /\ ui' = [ui EXCEPT !.pc = "idle", !.ptt = @ /\ ui.pc # "release"]
  /\ ctl' = Close(ctl, ui.ft8)
  /\ auQ' = auQ \o <<Msg("cancel", ui.ft8, FALSE)>>
                \o IF ui.pc = "release" THEN <<Msg("ptt", 0, FALSE)>> ELSE <<>>
  /\ ioQ' = ioQ \o <<Msg("stopSched", ui.ft8, FALSE)>>
                \o IF ui.pc = "release" /\ io.conn THEN <<Msg("rx", 0, FALSE)>> ELSE <<>>
  /\ UiRest /\ UNCHANGED uiQ

(* stopSstvTransmission: requestSstvStop closes the generation the audio    *)
(* engine last prepared, then clears its active flag; the UI moves on.      *)
StopSstv ==
  /\ UiFree /\ (ui.active \/ ui.starting)
  /\ ui' = [ui EXCEPT !.pc = "stopSstv"]
  /\ ctl' = Close(ctl, au.gen)
  /\ Operates("stop") /\ UNCHANGED <<uiQ, ioQ, auQ>>
StopSstvPost ==
  /\ ui.pc = "stopSstv"
  /\ ui' = [ui EXCEPT !.pc = "idle", !.gen = @ + 1, !.starting = FALSE, !.active = FALSE,
                      !.draining = FALSE]
  /\ au' = [au EXCEPT !.active = FALSE]
  /\ ioQ' = Append(ioQ, Msg("stop", 0, FALSE))
  /\ auQ' = Append(auQ, Msg("stopSstv", 0, FALSE))
  /\ Quiet /\ UNCHANGED <<ctl, io, tx, uiQ, left>>

(* onPttPressed refuses while a digital transmission owns TX; a key may be  *)
(* held all the same, and onPttReleased is not guarded.                     *)
PttPress ==
  /\ UiFree /\ ~ui.held
  /\ IF ~DigitalOwnsTx /\ io.conn
     THEN /\ ui' = [ui EXCEPT !.held = TRUE, !.ptt = TRUE]
          /\ ioQ' = Append(ioQ, Msg("tx", 0, FALSE))
          /\ auQ' = Append(auQ, Msg("ptt", 0, TRUE))
     ELSE ui' = [ui EXCEPT !.held = TRUE] /\ UNCHANGED <<ioQ, auQ>>
  /\ Operates("ptt") /\ UNCHANGED <<ctl, uiQ>>
PttRelease ==
  /\ UiFree /\ ui.held
  /\ IF ui.ft8 # 0
     THEN /\ ui' = [ui EXCEPT !.held = FALSE, !.pc = "release"]
          /\ ctl' = Revoke(ctl, ui.ft8)
          /\ UNCHANGED <<ioQ, auQ>>
     ELSE /\ ui' = [ui EXCEPT !.held = FALSE, !.ptt = FALSE]
          /\ ioQ' = IF io.conn THEN Append(ioQ, Msg("rx", 0, FALSE)) ELSE ioQ
          /\ auQ' = Append(auQ, Msg("ptt", 0, FALSE))
          /\ UNCHANGED ctl
  /\ UiRest /\ UNCHANGED uiQ

(***************************************************************************)
(* UI thread: queued signals and single-shot timers.                       *)
(***************************************************************************)
UiTakes(t) == UiFree /\ uiQ # <<>> /\ Head(uiQ).t = t /\ uiQ' = Tail(uiQ)

UiFinished ==
  /\ UiTakes("finished")
  /\ IF Head(uiQ).g = ui.ft8
     THEN ctl' = Revoke(ctl, ui.ft8) /\ ui' = [ui EXCEPT !.ft8 = 0]
     ELSE UNCHANGED <<ui, ctl>>
  /\ UiRest /\ UNCHANGED <<ioQ, auQ>>

M_Stale(m) == ~ui.starting              \* mutant: any generation will do
Stale(m) == m.g # ui.gen \/ ~ui.starting
UiSstvPrepared ==
  /\ UiTakes("prepared")
  /\ LET m == Head(uiQ) IN
     IF Stale(m) THEN UNCHANGED <<ui, ioQ>>
     ELSE IF m.x THEN ioQ' = Append(ioQ, Msg("beginSstv", m.g, FALSE)) /\ UNCHANGED ui
     ELSE ui' = [ui EXCEPT !.starting = FALSE] /\ UNCHANGED ioQ
  /\ UiRest /\ UNCHANGED <<ctl, auQ>>

\* The K4 was told TX; hold the audio for the fixed key-up guard.
UiSstvKeyRequested ==
  /\ UiTakes("keyReq")
  /\ ui' = IF Stale(Head(uiQ)) THEN ui
           ELSE [ui EXCEPT !.keyUp = Head(uiQ).g]
  /\ UiRest /\ UNCHANGED <<ctl, ioQ, auQ>>

UiKeyUpElapsed ==
  /\ UiFree /\ ui.keyUp # 0
  /\ IF ui.keyUp # ui.gen \/ ~ui.starting
     THEN ui' = [ui EXCEPT !.keyUp = 0] /\ UNCHANGED <<ctl, auQ>>
     ELSE IF ~io.conn
     THEN ui' = [ui EXCEPT !.keyUp = 0, !.pc = "stopSstv"] /\ ctl' = Close(ctl, au.gen) /\ UNCHANGED auQ
     ELSE /\ ui' = [ui EXCEPT !.keyUp = 0, !.starting = FALSE, !.active = TRUE, !.draining = FALSE]
          /\ auQ' = Append(auQ, Msg("beginSstv", 0, FALSE))
          /\ UNCHANGED ctl
  /\ UiRest /\ UNCHANGED <<uiQ, ioQ>>

\* sstvAudioTransmitFailed and sstvFailed: stop, unless it is an old generation.
UiSstvFailed ==
  /\ UiTakes("sstvFailed")
  /\ IF Head(uiQ).g # ui.gen \/ ~(ui.starting \/ ui.active) THEN UNCHANGED <<ui, ctl>>
     ELSE ui' = [ui EXCEPT !.pc = "stopSstv"] /\ ctl' = Close(ctl, au.gen)
  /\ UiRest /\ UNCHANGED <<ioQ, auQ>>

\* The last packet was accepted: drain, then unkey (finishSstvTransmission).
UiSstvAccepted ==
  /\ UiTakes("accepted")
  /\ ui' = IF Head(uiQ).g # ui.gen \/ ~ui.active \/ ui.draining THEN ui
           ELSE [ui EXCEPT !.draining = TRUE, !.drain = ui.gen]
  /\ UiRest /\ UNCHANGED <<ctl, ioQ, auQ>>

UiDrainElapsed ==
  /\ UiFree /\ ui.drain # 0
  /\ IF ui.drain = ui.gen /\ ui.active /\ ui.draining
     THEN /\ ui' = [ui EXCEPT !.drain = 0, !.gen = @ + 1, !.starting = FALSE, !.active = FALSE,
                              !.draining = FALSE]
          /\ ioQ' = Append(ioQ, Msg("stop", 0, FALSE))
     ELSE ui' = [ui EXCEPT !.drain = 0] /\ UNCHANGED ioQ
  /\ UiRest /\ UNCHANGED <<ctl, uiQ, auQ>>

\* A protection fault on the running FT8 slot halts it (setTransmitProtection).
UiFt8Fault ==
  /\ UiTakes("fault")
  /\ IF Head(uiQ).g = ui.ft8
     THEN ui' = RevokeFt8(ui) /\ ctl' = Revoke(ctl, ui.ft8)
     ELSE UNCHANGED <<ui, ctl>>
  /\ UiRest /\ UNCHANGED <<ioQ, auQ>>

\* Disconnected: clear voice PTT, stop the audio engine and whatever transmits.
UiDisconnected ==
  /\ UiTakes("disconnected")
  /\ auQ' = auQ \o <<Msg("ptt", 0, FALSE), Msg("stopEngine", 0, FALSE)>>
  /\ LET u == [ui EXCEPT !.ptt = FALSE] IN
     IF ui.ft8 # 0 THEN ui' = RevokeFt8(u) /\ ctl' = Revoke(ctl, ui.ft8)
     ELSE IF ui.starting \/ ui.active
          THEN ui' = [u EXCEPT !.pc = "stopSstv"] /\ ctl' = Close(ctl, au.gen)
     ELSE ui' = u /\ UNCHANGED ctl
  /\ UiRest /\ UNCHANGED ioQ

UiNext ==
  \/ StartFt8 \/ ArmFt8 \/ StartSstv \/ HaltFt8 \/ HaltFt8Close \/ StopSstv \/ StopSstvPost
  \/ PttPress \/ PttRelease
  \/ UiFinished \/ UiSstvPrepared \/ UiSstvKeyRequested \/ UiKeyUpElapsed \/ UiSstvFailed
  \/ UiSstvAccepted \/ UiDrainElapsed \/ UiFt8Fault \/ UiDisconnected

(***************************************************************************)
(* I/O thread.  A handler in progress keeps its message at the head of ioQ. *)
(***************************************************************************)
IoAt(t, pc) == ioQ # <<>> /\ Head(ioQ).t = t /\ io.pc = pc
IoTakes(t) == IoAt(t, "idle") /\ ioQ' = Tail(ioQ)
IoRest == UNCHANGED <<ui, tx, au, left>>

\* stopDigitalAudioAndUnkey, outside a calibration.  m_sstvAudioGeneration moves
\* on to no generation's number that a gate is open for; 0 stands for that.
Spend(l) == IF l.lease = 0 THEN l.spent ELSE l.spent \cup {l.lease}
Unkeyed(l) == IF io.conn
              THEN [keyed |-> FALSE, lease |-> 0, spent |-> Spend(l), wrote |-> Item("RX", 0)]
              ELSE [l EXCEPT !.wrote = Silence]
\* mutant: only the "RX;" is sent, the gate and the guard stay as they were
M_UnkeyOnly(i, c) == io' = [i EXCEPT !.pc = "idle"] /\ ctl' = c /\ line' = Unkeyed(line)
\* mutant: everything is closed but the K4 is not told
M_CloseOnly(i, c) ==
  /\ io' = [i EXCEPT !.gate = FALSE, !.guard = FALSE, !.timer = FALSE, !.gateGen = 0,
                     !.pc = "idle"]
  /\ ctl' = Close(c, i.guardGen) /\ Quiet
Unkey(i, c) ==
  /\ io' = [i EXCEPT !.gate = FALSE, !.guard = FALSE, !.timer = FALSE, !.gateGen = 0,
                     !.pc = "idle"]
  /\ ctl' = Close(c, i.guardGen)
  /\ line' = Unkeyed(line)

(* Signals about a generation reach both the Ft8Transmitter and the UI; each  *)
(* ignores a generation the other one owns, so only the owner's is queued.    *)
ToOwner(m, forFt8, forSstv) ==
  /\ auQ' = IF m = "ft8" THEN Append(auQ, forFt8) ELSE auQ
  /\ uiQ' = IF m = "sstv" THEN Append(uiQ, forSstv) ELSE uiQ

\* digitalAudioTransmitFailed, and sstvAudioTransmitFailed for SSTV.
Report(m, g) == ToOwner(m, Msg("cancel", g, FALSE), Msg("sstvFailed", g, FALSE))

\* DigitalTxGuard::trip latches; handleDigitalTxAction unkeys, then reports.
Trip(i) ==
  /\ Unkey([i EXCEPT !.latched = TRUE], ctl)
  /\ auQ' = IF i.mode = "ft8" THEN Append(auQ, Msg("cancel", i.guardGen, FALSE)) ELSE auQ
  /\ uiQ' = Append(uiQ, Msg(IF i.mode = "sstv" THEN "sstvFailed" ELSE "fault", i.guardGen, FALSE))

\* DigitalTxGuard::begin is refused while active or latched.
GuardFree == ~io.guard /\ ~io.latched
Begun(m, g) == [io EXCEPT !.mode = m, !.guard = TRUE, !.guardGen = g]
Armed(g) == [ctl EXCEPT !.gen = g, !.fault = 0]

M_Key(i) ==                             \* mutant: the watchdog is not started
  /\ io' = [i EXCEPT !.gate = TRUE, !.gateGen = i.guardGen, !.pc = "idle"]
  /\ line' = [line EXCEPT !.keyed = TRUE, !.lease = i.guardGen, !.wrote = Item("TX", i.guardGen)]
  /\ ToOwner(i.mode, Msg("keyed", i.guardGen, FALSE), Msg("keyReq", i.guardGen, FALSE))
\* "TM1;TM;TX;", open the gate, start the watchdog, report the key request.
Key(i) ==
  /\ io' = [i EXCEPT !.gate = TRUE, !.gateGen = i.guardGen, !.timer = TRUE, !.pc = "idle"]
  /\ line' = [line EXCEPT !.keyed = TRUE, !.lease = i.guardGen, !.wrote = Item("TX", i.guardGen)]
  /\ ToOwner(i.mode, Msg("keyed", i.guardGen, FALSE), Msg("keyReq", i.guardGen, FALSE))

(* beginScheduledDigitalAudio and beginDigitalAudioTransmit for an FT8 slot: *)
(* the slot is looked up before the guard is begun and once more after it.   *)
IoFt8Check ==
  /\ IoAt("beginFt8", "idle")
  /\ IF ctl.sched = Head(ioQ).g
     THEN io' = [io EXCEPT !.pc = "checked"] /\ UNCHANGED ioQ
     ELSE ioQ' = Tail(ioQ) /\ UNCHANGED io
  /\ IoRest /\ UNCHANGED <<ctl, uiQ, auQ>> /\ Quiet
IoFt8Guard ==
  /\ IoAt("beginFt8", "checked")
  /\ LET g == Head(ioQ).g IN
     IF io.conn /\ GuardFree
     THEN /\ io' = [Begun("ft8", g) EXCEPT !.pc = "armed"]
          /\ ctl' = Armed(g)
          /\ UNCHANGED <<ioQ, uiQ, auQ>>
     ELSE io' = [io EXCEPT !.pc = "idle"] /\ ioQ' = Tail(ioQ) /\ Report("ft8", g) /\ UNCHANGED ctl
  /\ IoRest /\ Quiet
IoFt8Key ==
  /\ IoAt("beginFt8", "armed") /\ ioQ' = Tail(ioQ)
  /\ IF ctl.sched = Head(ioQ).g
     THEN Key(io) /\ UNCHANGED ctl
     ELSE /\ io' = [io EXCEPT !.guard = FALSE, !.pc = "idle"]
          /\ ctl' = Close(ctl, io.guardGen)
          /\ UNCHANGED <<uiQ, auQ>> /\ Quiet
  /\ IoRest

\* The same call for SSTV consults nothing that another thread changes.
IoBeginSstv ==
  /\ IoTakes("beginSstv")
  /\ LET g == Head(ioQ).g IN
     IF io.conn /\ GuardFree
     THEN Key(Begun("sstv", g)) /\ ctl' = Armed(g)
     ELSE Report("sstv", g) /\ UNCHANGED <<io, ctl>> /\ Quiet
  /\ IoRest

(* sendDigitalAudio: the gate; the guard's tick; then the control again,     *)
(* because another thread may close it in between; then the write, which may *)
(* find the link stalled.                                                    *)
TickFails == ctl.fault = io.guardGen \/ ~Allows(io.guardGen)
SendGate ==
  /\ IoAt("audio", "idle")
  /\ IF ~(io.gate /\ Head(ioQ).g = io.gateGen /\ io.conn)
     THEN ioQ' = Tail(ioQ) /\ UNCHANGED <<io, ctl, uiQ, auQ>> /\ Quiet
     ELSE IF io.guard /\ TickFails
     THEN ioQ' = Tail(ioQ) /\ Trip(io)
     ELSE io' = [io EXCEPT !.pc = "ticked"] /\ UNCHANGED <<ioQ, ctl, uiQ, auQ>> /\ Quiet
  /\ IoRest

\* A final scheduled packet is confirmed only once it has left the socket.
Accepted(i, m) ==
  IF m.x /\ ctl.sched = m.g
  THEN io' = [i EXCEPT !.drain = m.g] /\ UNCHANGED <<uiQ, auQ>>
  ELSE /\ io' = i
       /\ IF m.x THEN ToOwner(i.mode, Msg("accepted", m.g, TRUE), Msg("accepted", m.g, TRUE))
                 ELSE UNCHANGED <<uiQ, auQ>>
SendWrite ==
  /\ IoAt("audio", "ticked") /\ ioQ' = Tail(ioQ)
  /\ LET m == Head(ioQ) IN
     \/ ~Allows(m.g) /\ io' = [io EXCEPT !.pc = "idle"] /\ UNCHANGED <<ctl, uiQ, auQ>> /\ Quiet
     \/ /\ Allows(m.g)
        /\ line' = [line EXCEPT !.wrote = Item("audio", m.g)]
        /\ Accepted([io EXCEPT !.pc = "idle"], m) /\ UNCHANGED ctl
     \/ Allows(m.g) /\ Trip(io)
  /\ IoRest

\* confirmScheduledAudioDrained, polled every 10 ms until its deadline.
DrainPoll ==
  /\ io.pc = "idle" /\ io.drain # 0
  /\ LET g == io.drain
         i == [io EXCEPT !.drain = 0] IN
     \/ /\ ~(io.gate /\ Allows(g) /\ io.gateGen = g)
        /\ io' = i /\ UNCHANGED <<ctl, uiQ, auQ>> /\ Quiet
     \/ /\ io.gate /\ Allows(g) /\ io.gateGen = g
        /\ io' = i /\ UNCHANGED ctl /\ Quiet
        /\ ToOwner(io.mode, Msg("accepted", g, TRUE), Msg("accepted", g, TRUE))
     \/ io.gate /\ Allows(g) /\ io.gateGen = g /\ Trip(i)
  /\ IoRest /\ UNCHANGED ioQ

\* stopScheduledDigitalAudio: revoke, unkey if this slot holds the gate, report.
IoStopSched ==
  /\ IoTakes("stopSched")
  /\ LET g == Head(ioQ).g IN
     /\ IF io.gate /\ io.gateGen = g
        THEN Unkey(io, Revoke(ctl, g))
        ELSE /\ ctl' = Revoke(ctl, g) /\ UNCHANGED io
             /\ line' = [line EXCEPT !.wrote = Silence, !.spent = @ \cup {g}]
     /\ auQ' = Append(auQ, Msg("unkeyed", g, FALSE))
  /\ IoRest /\ UNCHANGED uiQ

IoStop == IoTakes("stop") /\ Unkey(io, ctl) /\ IoRest /\ UNCHANGED <<uiQ, auQ>>

\* DigitalTxGuard::acknowledge clears a latched fault unless active.
IoAcknowledge ==
  /\ IoTakes("ack")
  /\ io' = IF io.guard THEN io ELSE [io EXCEPT !.latched = FALSE]
  /\ IoRest /\ UNCHANGED <<ctl, uiQ, auQ>> /\ Quiet

\* sendCAT("TX;" / "RX;") and sendRaw of a microphone packet, voice PTT only.
IoVoice ==
  /\ \/ IoTakes("tx") /\ line' = IF io.conn THEN [line EXCEPT !.keyed = TRUE, !.wrote = Item("TX", 0)]
                                ELSE [line EXCEPT !.wrote = Silence]
     \/ IoTakes("rx") /\ line' = IF io.conn THEN [line EXCEPT !.keyed = FALSE, !.wrote = Item("RX", 0)]
                                ELSE [line EXCEPT !.wrote = Silence]
     \/ IoTakes("mic") /\ line' = [line EXCEPT !.wrote = IF io.conn THEN Item("mic", 0) ELSE Silence]
  /\ IoRest /\ UNCHANGED <<io, ctl, uiQ, auQ>>

(* serviceDigitalTxProtection, every 50 ms: a closed or faulted control      *)
(* trips; so does a guard deadline (missing or high ALC, missing audio).     *)
WatchdogSees == io.pc = "idle" /\ io.timer /\ io.guard /\ TickFails /\ Trip(io) /\ IoRest /\ UNCHANGED ioQ
WatchdogExpires == io.pc = "idle" /\ io.timer /\ io.guard /\ ~TickFails /\ Trip(io) /\ IoRest /\ UNCHANGED ioQ

\* onSocketDisconnected / onSocketError, then setState(Disconnected).
Disconnect ==
  /\ io.pc = "idle" /\ io.conn
  /\ io' = [io EXCEPT !.conn = FALSE, !.gate = FALSE, !.guard = FALSE, !.timer = FALSE,
                      !.gateGen = 0]
  /\ ctl' = Close(ctl, io.guardGen)
  /\ line' = [keyed |-> FALSE, lease |-> 0, spent |-> Spend(line), wrote |-> Silence]
  /\ uiQ' = Append(uiQ, Msg("disconnected", 0, FALSE))
  /\ Spends("stop") /\ UNCHANGED <<ui, tx, au, ioQ, auQ>>
Reconnect ==
  /\ io.pc = "idle" /\ ~io.conn
  /\ io' = [io EXCEPT !.conn = TRUE]
  /\ IoRest /\ UNCHANGED <<ctl, uiQ, ioQ, auQ>> /\ Quiet

IoNext ==
  \/ IoFt8Check \/ IoFt8Guard \/ IoFt8Key \/ IoBeginSstv \/ SendGate \/ SendWrite \/ DrainPoll
  \/ IoStopSched \/ IoStop \/ IoAcknowledge \/ IoVoice \/ WatchdogSees \/ WatchdogExpires
  \/ Disconnect \/ Reconnect

(***************************************************************************)
(* Audio thread: Ft8Transmitter.                                           *)
(***************************************************************************)
\* A tick that enters Audio emits the first frame in the same call.
FirstFrame == tx.phase = "Audio" /\ tx.emitted = 0
AuFree == ~tx.closing /\ ~au.starting /\ ~FirstFrame
AuTakes(t) == AuFree /\ auQ # <<>> /\ Head(auQ).t = t /\ auQ' = Tail(auQ)
AuRest == UNCHANGED <<ui, io, left>> /\ Quiet

Finish(g, ok) == uiQ' = Append(uiQ, Msg("finished", g, ok))
StopEncoding(g) == au' = [au EXCEPT !.enc = IF @ = g THEN 0 ELSE @]

\* fail: close the audio; then revoke the slot, go idle and report.
Fail(t) == tx' = [t EXCEPT !.closing = TRUE] /\ ctl' = Close(ctl, t.gen)
TxFailed ==
  /\ tx.closing
  /\ tx' = [tx EXCEPT !.closing = FALSE, !.phase = "Idle"]
  /\ ctl' = Revoke(ctl, tx.gen)
  /\ ioQ' = Append(ioQ, Msg("stopSched", tx.gen, FALSE))
  /\ Finish(tx.gen, FALSE) /\ StopEncoding(tx.gen)
  /\ AuRest /\ UNCHANGED auQ

M_Refuse(g) == UNCHANGED <<uiQ, au>>    \* mutant: a refused slot is dropped silently
Refuse(g) == Finish(g, FALSE) /\ StopEncoding(g)
TxSchedule ==
  /\ AuTakes("schedule")
  /\ LET g == Head(auQ).g
         t == [tx EXCEPT !.gen = g, !.phase = "Waiting", !.keyed = FALSE, !.accepted = FALSE,
                         !.emitted = 0] IN
     IF ctl.sched # g \/ tx.phase # "Idle"
     THEN Refuse(g) /\ UNCHANGED <<tx, ctl>>
     ELSE /\ \/ tx' = t /\ UNCHANGED ctl
             \/ Fail(t)                         \* late slot, unusable message
          /\ UNCHANGED <<uiQ, au>>
  /\ AuRest /\ UNCHANGED ioQ

TxCancel ==
  /\ AuTakes("cancel")
  /\ IF tx.phase # "Idle" /\ Head(auQ).g = tx.gen THEN Fail(tx) ELSE UNCHANGED <<tx, ctl>>
  /\ AuRest /\ UNCHANGED <<au, uiQ, ioQ>>
TxKeyed ==
  /\ AuTakes("keyed")
  /\ tx' = IF Head(auQ).g = tx.gen /\ tx.phase = "Keying" THEN [tx EXCEPT !.keyed = TRUE] ELSE tx
  /\ AuRest /\ UNCHANGED <<ctl, au, uiQ, ioQ>>
TxAccepted ==
  /\ AuTakes("accepted")
  /\ tx' = IF Head(auQ).g = tx.gen /\ tx.phase = "Drain" THEN [tx EXCEPT !.accepted = TRUE] ELSE tx
  /\ AuRest /\ UNCHANGED <<ctl, au, uiQ, ioQ>>
TxUnkeyed ==
  /\ AuTakes("unkeyed")
  /\ IF Head(auQ).g = tx.gen /\ tx.phase = "Unkeying"
     THEN tx' = [tx EXCEPT !.phase = "Idle"] /\ Finish(tx.gen, TRUE) /\ StopEncoding(tx.gen)
     ELSE UNCHANGED <<tx, uiQ, au>>
  /\ AuRest /\ UNCHANGED <<ctl, ioQ>>

\* tick, every 5 ms: a revoked slot or closed audio fails ...
InSlot == AuFree /\ tx.phase \in {"Waiting", "Keying", "Audio", "Drain"} /\ ctl.sched = tx.gen
StartsFrame == ~tx.closing /\ FirstFrame
TickRevoked ==
  /\ \/ StartsFrame /\ ~Allows(tx.gen)
     \/ AuFree /\ tx.phase \in {"Waiting", "Keying", "Audio", "Drain"} /\ ctl.sched # tx.gen
     \/ AuFree /\ tx.phase \in {"Audio", "Drain"} /\ ~Allows(tx.gen)
     \/ AuFree /\ tx.phase = "Keying" /\ tx.keyed /\ ~Allows(tx.gen)
  /\ Fail(tx) /\ AuRest /\ UNCHANGED <<au, uiQ, ioQ, auQ>>
\* ... and so does any phase that outlives its deadline.
TickExpired ==
  /\ AuFree /\ tx.phase # "Idle"
  /\ Fail(tx) /\ AuRest /\ UNCHANGED <<au, uiQ, ioQ, auQ>>
TickKey ==
  /\ InSlot /\ tx.phase = "Waiting"
  /\ tx' = [tx EXCEPT !.phase = "Keying"]
  /\ ioQ' = Append(ioQ, Msg("beginFt8", tx.gen, FALSE))
  /\ AuRest /\ UNCHANGED <<ctl, au, uiQ, auQ>>
\* encodingStarted calls AudioEngine::beginFt8Encoding in place.
TickStart ==
  /\ InSlot /\ tx.phase = "Keying" /\ tx.keyed /\ Allows(tx.gen)
  /\ tx' = [tx EXCEPT !.phase = "Audio"]
  /\ IF au.prepared \/ au.ptt
     THEN ctl' = Fault(ctl, tx.gen) /\ UNCHANGED au
     ELSE au' = [au EXCEPT !.enc = tx.gen] /\ UNCHANGED ctl
  /\ AuRest /\ UNCHANGED <<uiQ, ioQ, auQ>>

(* frameReady calls encodeFt8Frame in place.  The level control may reject   *)
(* the samples, the codec may yield nothing: both fault the generation, the  *)
(* latter with sstvFailed and stopSstvTransmit.                              *)
M_StoppedSstv(a) == [a EXCEPT !.active = FALSE, !.pacer = FALSE]   \* mutant: prepared survives
StoppedSstv(a) == [a EXCEPT !.active = FALSE, !.pacer = FALSE, !.prepared = FALSE]
M_Emit(t) ==                            \* mutant: one packet too many
  [t EXCEPT !.emitted = @ + 1, !.phase = IF t.emitted = Frames THEN "Drain" ELSE @]
Emit(t) == [t EXCEPT !.emitted = @ + 1, !.phase = IF t.emitted + 1 = Frames THEN "Drain" ELSE @]
TickFrame ==
  /\ StartsFrame \/ (InSlot /\ tx.phase = "Audio")
  /\ Allows(tx.gen)
  /\ tx' = Emit(tx)
  /\ \/ au.enc # tx.gen /\ UNCHANGED <<ctl, au, uiQ, ioQ>>
     \/ /\ au.enc = tx.gen
        /\ ioQ' = Append(ioQ, Msg("audio", tx.gen, tx.emitted + 1 = Frames))
        /\ UNCHANGED <<ctl, au, uiQ>>
     \/ au.enc = tx.gen /\ ctl' = Fault(ctl, tx.gen) /\ UNCHANGED <<au, uiQ, ioQ>>
     \/ /\ au.enc = tx.gen /\ ctl' = Fault(ctl, tx.gen)
        /\ uiQ' = Append(uiQ, Msg("sstvFailed", tx.gen, FALSE))
        /\ au' = StoppedSstv(au) /\ UNCHANGED ioQ
  /\ AuRest /\ UNCHANGED auQ
TickUnkey ==
  /\ InSlot /\ tx.phase = "Drain" /\ tx.accepted /\ Allows(tx.gen)
  /\ tx' = [tx EXCEPT !.phase = "Unkeying"]
  /\ ioQ' = Append(ioQ, Msg("stopSched", tx.gen, FALSE))
  /\ AuRest /\ UNCHANGED <<ctl, au, uiQ, auQ>>

(***************************************************************************)
(* Audio thread: AudioEngine.                                              *)
(***************************************************************************)
AuOnly == AuRest /\ UNCHANGED tx

AuPrepare ==
  /\ AuTakes("prepare")
  /\ LET g == Head(auQ).g IN
     IF au.active
     THEN /\ au' = [au EXCEPT !.gen = g]
          /\ uiQ' = Append(uiQ, Msg("prepared", g, FALSE))
     ELSE \E ready \in BOOLEAN :
          /\ au' = [au EXCEPT !.gen = g, !.prepared = ready, !.emitted = 0]
          /\ uiQ' = Append(uiQ, Msg("prepared", g, ready))
  /\ AuOnly /\ UNCHANGED <<ctl, ioQ>>

\* beginSstvTransmit: the control is consulted before m_sstvActive is taken.
AuBegin ==
  /\ AuTakes("beginSstv")
  /\ au' = [au EXCEPT !.starting = Allows(au.gen) /\ au.prepared]
  /\ AuOnly /\ UNCHANGED <<ctl, uiQ, ioQ>>
AuBeginActive ==
  /\ au.starting
  /\ \/ au' = [au EXCEPT !.starting = FALSE, !.active = TRUE, !.pacer = @ \/ ~au.active]
        /\ UNCHANGED <<ctl, uiQ>>
     \/ /\ ~au.active                                  \* the codec cannot be reset
        /\ au' = [au EXCEPT !.starting = FALSE, !.prepared = FALSE]
        /\ ctl' = Fault(ctl, au.gen)
        /\ uiQ' = Append(uiQ, Msg("sstvFailed", au.gen, FALSE))
  /\ AuOnly /\ UNCHANGED <<ioQ, auQ>>

AuStop ==
  /\ \/ AuTakes("stopSstv") /\ au' = StoppedSstv(au)
     \/ AuTakes("stopEngine") /\ au' = [StoppedSstv(au) EXCEPT !.ptt = FALSE]
  /\ AuOnly /\ UNCHANGED <<ctl, uiQ, ioQ>>

(* onSstvPacer: denied or rejected samples stop the producer; a packet       *)
(* carries the FT8 generation if one is being encoded, else the SSTV one.    *)
AuPace ==
  /\ AuFree /\ au.pacer /\ au.active
  /\ LET g == IF au.enc # 0 THEN au.enc ELSE au.gen
         last == au.emitted + 1 = Frames IN
     \/ ~Allows(au.gen) /\ au' = StoppedSstv(au) /\ UNCHANGED <<ctl, uiQ, ioQ>>
     \/ /\ Allows(au.gen) /\ ctl' = Fault(ctl, au.gen)
        /\ au' = StoppedSstv(au) /\ UNCHANGED <<uiQ, ioQ>>
     \/ /\ Allows(au.gen) /\ ctl' = Fault(ctl, g)
        /\ uiQ' = Append(uiQ, Msg("sstvFailed", g, FALSE))
        /\ au' = StoppedSstv(au) /\ UNCHANGED ioQ
     \/ /\ Allows(au.gen)
        /\ ioQ' = Append(ioQ, Msg("audio", g, last))
        /\ au' = [IF last THEN StoppedSstv(au) ELSE au EXCEPT !.emitted = @ + 1]
        /\ UNCHANGED <<ctl, uiQ>>
  /\ AuOnly /\ UNCHANGED auQ

\* setPttActive: opening the microphone is refused while program audio is near.
AuPtt ==
  /\ AuTakes("ptt")
  /\ au' = IF Head(auQ).x /\ (au.prepared \/ ctl.gen # 0 \/ ctl.sched # 0)
           THEN au ELSE [au EXCEPT !.ptt = Head(auQ).x]
  /\ AuOnly /\ UNCHANGED <<ctl, uiQ, ioQ>>
AuMic ==
  /\ AuFree /\ au.ptt /\ ~au.active
  /\ \A i \in DOMAIN ioQ : ioQ[i].t # "mic"          \* bounds the model
  /\ ioQ' = Append(ioQ, Msg("mic", 0, FALSE))
  /\ AuOnly /\ UNCHANGED <<ctl, au, uiQ, auQ>>

AuNext ==
  \/ TxFailed \/ TxSchedule \/ TxCancel \/ TxKeyed \/ TxAccepted \/ TxUnkeyed
  \/ TickRevoked \/ TickExpired \/ TickKey \/ TickStart \/ TickFrame \/ TickUnkey
  \/ AuPrepare \/ AuBegin \/ AuBeginActive \/ AuStop \/ AuPace \/ AuPtt \/ AuMic

Next == UiNext \/ IoNext \/ AuNext

(* What the event loops run without the operator, the radio or the link:    *)
(* queued calls, the handlers in progress, and the timers.                   *)
UiHandler ==
  \/ HaltFt8Close \/ StopSstvPost \/ UiFinished \/ UiSstvPrepared \/ UiSstvKeyRequested
  \/ UiSstvFailed \/ UiSstvAccepted \/ UiFt8Fault \/ UiDisconnected
IoHandler ==
  \/ IoFt8Check \/ IoFt8Guard \/ IoFt8Key \/ IoBeginSstv \/ SendGate \/ SendWrite
  \/ IoStopSched \/ IoStop \/ IoAcknowledge \/ IoVoice
AuHandler ==
  \/ TxFailed \/ TxSchedule \/ TxCancel \/ TxKeyed \/ TxAccepted \/ TxUnkeyed
  \/ AuPrepare \/ AuBegin \/ AuBeginActive \/ AuStop \/ AuPtt
TxTick == TickRevoked \/ TickExpired \/ TickKey \/ TickStart \/ TickFrame \/ TickUnkey

Fairness ==
  /\ WF_vars(UiHandler) /\ WF_vars(UiKeyUpElapsed) /\ WF_vars(UiDrainElapsed)
  /\ WF_vars(IoHandler) /\ WF_vars(DrainPoll) /\ WF_vars(WatchdogSees)
  /\ WF_vars(AuHandler) /\ WF_vars(TxTick) /\ WF_vars(AuPace)

Spec == Init /\ [][Next]_vars
FairSpec == Spec /\ Fairness

(***************************************************************************)
(* Properties                                                              *)
(***************************************************************************)
Gen == Nat
UiCall == {"finished", "prepared", "keyReq", "sstvFailed", "accepted", "fault", "disconnected"}
IoCall == {"beginFt8", "beginSstv", "audio", "stopSched", "stop", "ack", "tx", "rx", "mic"}
AuCall == {"schedule", "cancel", "keyed", "accepted", "unkeyed", "prepare", "beginSstv", "stopSstv",
           "stopEngine", "ptt"}
Call(names) == [t : names, g : Gen, x : BOOLEAN]

UiType == [gen : Gen, ft8 : Gen, starting : BOOLEAN, active : BOOLEAN, draining : BOOLEAN,
           ptt : BOOLEAN, held : BOOLEAN, keyUp : Gen, drain : Gen,
           pc : {"idle", "haltFt8", "release", "stopSstv"}]
ControlType == [gen : Gen, sched : Gen, fault : Gen]
IoType == [conn : BOOLEAN, gate : BOOLEAN, gateGen : Gen, mode : {"ft8", "sstv"},
           guard : BOOLEAN, guardGen : Gen, latched : BOOLEAN, timer : BOOLEAN, drain : Gen,
           pc : {"idle", "checked", "armed", "ticked"}]
TxType == [phase : {"Idle", "Waiting", "Keying", "Audio", "Drain", "Unkeying"}, gen : Gen,
           keyed : BOOLEAN, accepted : BOOLEAN, emitted : 0 .. Frames, closing : BOOLEAN]
AuType == [gen : Gen, prepared : BOOLEAN, active : BOOLEAN, pacer : BOOLEAN,
           emitted : 0 .. Frames, enc : Gen, ptt : BOOLEAN, starting : BOOLEAN]
LineType == [keyed : BOOLEAN, lease : Gen, spent : SUBSET Gen,
             wrote : [t : {"none", "TX", "RX", "audio", "mic"}, g : Gen]]

\* The threads' states and event queues stay within their types; the counters
\* of emitted packets never pass the transmission's last packet.
TypeOK ==
  /\ ui \in UiType /\ ctl \in ControlType /\ io \in IoType /\ tx \in TxType /\ au \in AuType
  /\ uiQ \in Seq(Call(UiCall)) /\ ioQ \in Seq(Call(IoCall)) /\ auQ \in Seq(Call(AuCall))
  /\ line \in LineType /\ left \in LeftType

\* A thread that may still emit a packet has not emitted the last one.
PacketsLeft ==
  /\ tx.phase \in {"Waiting", "Keying"} => tx.emitted = 0
  /\ tx.phase = "Audio" => tx.emitted < Frames
  /\ au.prepared \/ au.starting \/ au.pacer => au.emitted < Frames

(* From "TX;" until "RX;" or the loss of the link, the K4 is keyed for one    *)
(* generation and the audio gate, the guard and its 50 ms watchdog all belong *)
(* to it: no path leaves the K4 transmitting program audio unwatched.         *)
LeaseIsGuarded ==
  line.lease # 0 =>
    /\ io.conn /\ io.gate /\ io.gateGen = line.lease
    /\ io.guard /\ io.guardGen = line.lease /\ io.timer

(* Inductive form: an open gate is the other side of a lease, and the two     *)
(* handlers that pause between two looks at the control keep what they saw.   *)
GateIsLease ==
  /\ line.lease # 0 => io.gate
  /\ io.gate => /\ io.conn /\ io.gateGen = line.lease
                /\ io.guard /\ io.guardGen = line.lease /\ io.timer
  /\ io.pc = "armed" => io.conn /\ io.guard /\ ~io.gate
  /\ io.pc = "ticked" => /\ io.gate /\ ioQ # <<>>
                         /\ Head(ioQ).t = "audio" /\ Head(ioQ).g = io.gateGen

(* A keyed generation is the one the operator still has on the screen, or a   *)
(* stop for it is on its way to the I/O thread.                               *)
Queued(q, calls) == \E i \in DOMAIN q : [t |-> q[i].t, g |-> q[i].g] \in calls
LeaseIsOwnedOrEnding ==
  line.lease # 0 =>
    \/ ui.ft8 = line.lease
    \/ ui.gen = line.lease /\ (ui.starting \/ ui.active)
    \/ Queued(ioQ, {Item("stop", 0), Item("stopSched", line.lease)})

(* No microphone packet reaches the K4 while it is keyed for program audio:   *)
(* speech and image or FT8 tones are never mixed on the air.                  *)
NoMicInLease == line.wrote.t = "mic" => line.lease = 0

(* A new transmission never meets the previous one still winding down on the  *)
(* audio thread: "Another FT transmission is active", "SSTV transmission is   *)
(* already active" and the fault in beginFt8Encoding cannot be reached.       *)
AudioThreadIsFree ==
  /\ auQ # <<>> /\ AuFree =>
       /\ Head(auQ).t = "schedule" /\ ctl.sched = Head(auQ).g => tx.phase = "Idle"
       /\ Head(auQ).t = "prepare" => ~au.active /\ ~au.prepared
  /\ tx.phase = "Keying" /\ tx.keyed /\ Allows(tx.gen) => ~au.prepared /\ ~au.ptt

(* While the K4 is keyed for program audio nothing but its owner's stop       *)
(* releases it.                                                               *)
KeyedThroughLease == line.lease # 0 => line.keyed

\* A keyed K4 is eventually released, whatever was lost, refused or faulted.
LeaseEnds == line.lease # 0 ~> line.lease = 0
\* An FT8 slot that was started is eventually finished on the screen.
Ft8Ends == ui.ft8 # 0 ~> ui.ft8 = 0
\* The SSTV screen never stays in its preparing or transmitting state.
SstvEnds == (ui.starting \/ ui.active) ~> ~(ui.starting \/ ui.active)
\* Whatever the operator has started comes to an end on his screen.
ProgramEnds == Ft8Ends /\ SstvEnds

(***************************************************************************)
(* The abstract specification: leases of the transmitter.                  *)
(***************************************************************************)
Lease == INSTANCE ProgramLease WITH
  Gens <- Nat \ {0}, lease <- line.lease, spent <- line.spent, said <- line.wrote

\* What the socket carries is a sequence of leases: one generation at a time is
\* keyed, its audio follows its TX, and a generation stopped never comes back.
ImplementsLease == Lease!Spec

=============================================================================
