------------------------------- MODULE MCPhone -------------------------------
(***************************************************************************)
(* Voice PTT, the connection, the mode saved for FT8, a calibration and    *)
(* playback share no state in these models, so one run checks them all: a  *)
(* behaviour is one of one of them, its part.  Each uses the variables of  *)
(* VoicePtt as its own.                                                    *)
(***************************************************************************)
EXTENDS VoicePtt

CONSTANTS
  Modes, ModeLimit,                             \* of Ft8RadioMode
  Calibrations, Cancels, Touches,               \* of DigitalCalibration
  Sizes, MaxQueue, Room, Packets, Restarts,     \* of Playback
  Radios, Locals, Secure, TlsAvailable, Tries, Clicks, Backlog  \* of TcpConnection

ASSUME ConnectionBounds == Tries \in Nat /\ Clicks \in Nat /\ Backlog \in Nat
ASSUME CalibrationBounds == Calibrations \in Nat /\ Cancels \in Nat /\ Touches \in Nat
ASSUME PlaybackBounds == Sizes \subseteq 1 .. MaxQueue /\ MaxQueue \in Nat /\ Room \in Nat

\* A mode has a code, and a data submode beside it (RadioState::Mode).
ASSUME KnownModes == Modes \subseteq (Nat \ {0}) \X Nat

VARIABLE part

all == <<part, vars>>

\* Two modes of the operator, a voice and a data mode.
TwoModes == {<<2, 1>>, <<6, 2>>}

F == INSTANCE Ft8RadioMode WITH
       Limit <- ModeLimit,
       active <- told, saved <- granted, pending <- ptt, busy <- shown, radio <- locked,
       mirror <- shield, wish <- gate, upset <- digital, left <- budget

C == INSTANCE DigitalCalibration WITH
       MaxTries <- Calibrations, MaxCancels <- Cancels, MaxTouches <- Touches,
       ui <- told, audio <- granted, io <- ptt, up <- link, ioQ <- toAudio, uiQ <- toPhone,
       k4 <- shown, cat <- toRadio, answers <- locked, original <- shield, mixed <- gate,
       left <- budget

L == INSTANCE Playback WITH
       queue <- toAudio, queueBytes <- granted, prebuffering <- ptt, staged <- shown,
       active <- link, track <- locked, received <- shield, written <- gate, cut <- digital,
       starts <- budget

K == INSTANCE TcpConnection WITH
       MaxTries <- Tries, MaxCancels <- Clicks,
       ui <- told, uiQ <- toPhone, ioQ <- toRadio, io <- ptt, lookups <- shown,
       sock <- link, rx <- locked, stale <- stray, left <- budget

ForConnection == <<granted, shield, gate, digital, toAudio, keyed, heard>>
ForMode == <<toAudio, keyed, heard, stray>>
ForCalibration == <<digital, keyed, heard, stray>>
ForPlayback == <<told, toRadio, toPhone, keyed, heard, stray>>

AllInit ==
  \/ part = "ptt" /\ Init
  \/ /\ part = "connection" /\ K!Init
     /\ granted = 0 /\ shield = 0 /\ gate = 0 /\ digital = 0 /\ toAudio = 0 /\ keyed = 0 /\ heard = 0
  \/ part = "mode" /\ F!Init /\ toAudio = 0 /\ keyed = 0 /\ heard = 0 /\ stray = 0
  \/ part = "calibration" /\ C!Init /\ digital = 0 /\ keyed = 0 /\ heard = 0 /\ stray = 0
  \/ part = "playback" /\ L!Init /\ told = 0 /\ toRadio = 0 /\ toPhone = 0 /\ keyed = 0 /\ heard = 0 /\ stray = 0

Ptt == part = "ptt" /\ UNCHANGED part
Connection == part = "connection" /\ UNCHANGED <<part, ForConnection>>
Mode == part = "mode" /\ UNCHANGED <<part, ForMode>>
Calibration == part = "calibration" /\ UNCHANGED <<part, ForCalibration>>
Loudspeaker == part = "playback" /\ UNCHANGED <<part, ForPlayback>>

AllNext ==
  \/ Ptt /\ Tap
  \/ Ptt /\ TapRelease
  \/ Ptt /\ LockTimeout
  \/ Ptt /\ Xmit
  \/ Ptt /\ MidiToggle
  \/ \E pressed \in BOOLEAN : Ptt /\ MidiPtt(pressed)
  \/ \E on \in BOOLEAN : Ptt /\ CatPtt(on)
  \/ Ptt /\ ClickDisconnect
  \/ Ptt /\ DigitalStarts
  \/ Ptt /\ DigitalEnds
  \/ Ptt /\ Lost
  \/ Ptt /\ Disconnected
  \/ Ptt /\ Connect
  \/ Ptt /\ AudioTakes
  \/ Ptt /\ Hear
  \/ Ptt /\ RadioTakes
  \/ Ptt /\ PanelTurns

  \/ \E r \in Radios : Connection /\ K!ConnectToRadio(r)
  \/ Connection /\ K!OnDisconnectClicked
  \/ Connection /\ K!OnStateChanged
  \/ \E lingers \in BOOLEAN : Connection /\ K!ConnectToHost(lingers)
  \/ \E lingers \in BOOLEAN : Connection /\ K!Disconnect(lingers)
  \/ \E lingers \in BOOLEAN : Connection /\ K!OnConnectTimeout(lingers)
  \/ \E lingers \in BOOLEAN : Connection /\ K!OnAuthTimeout(lingers)
  \/ Connection /\ \E l \in shown : K!LookupUnused(l)
  \/ Connection /\ \E l \in shown : K!LookupFailed(l)
  \/ Connection /\ \E l \in shown : K!LookupFound(l)
  \/ Connection /\ K!OnSocketConnected
  \/ Connection /\ K!OnSocketEncrypted
  \/ Connection /\ K!OnSocketDisconnected
  \/ \E tail \in 0 .. Backlog : Connection /\ K!OnReadyRead(tail)

  \/ Mode /\ F!OpenFt8Screen
  \/ Mode /\ F!CloseFt8Screen
  \/ Mode /\ F!Tick
  \/ Mode /\ F!Transmits
  \/ Mode /\ F!TransmitEnds
  \/ Mode /\ F!Hear
  \/ Mode /\ F!Connect
  \/ Mode /\ F!Disconnect
  \/ Mode /\ F!RadioTakes
  \/ Mode /\ F!PanelTurns

  \/ Calibration /\ C!StartDigitalCalibration
  \/ Calibration /\ C!AudioPrepares
  \/ Calibration /\ C!CancelDigitalCalibration
  \/ Calibration /\ C!UiHandles
  \/ Calibration /\ C!BeginDigitalCalibration
  \/ Calibration /\ C!IoCancels
  \/ Calibration /\ C!OnCatResponse
  \/ Calibration /\ C!GuardEnds
  \/ Calibration /\ C!DeadlinePasses
  \/ Calibration /\ C!Disconnected
  \/ Calibration /\ C!K4Obeys
  \/ Calibration /\ C!Touched

  \/ \E size \in Sizes : Loudspeaker /\ L!Enqueue(size)
  \/ Loudspeaker /\ L!FeedStaged
  \/ Loudspeaker /\ L!FeedPacket
  \/ Loudspeaker /\ L!Play
  \/ Loudspeaker /\ L!Stop
  \/ \E made \in BOOLEAN : Loudspeaker /\ L!Rebuild(made)
  \/ \E made \in BOOLEAN : Loudspeaker /\ L!Start(made)

\* The fairness of each part.
AllFairness ==
  /\ WF_all(Ptt /\ LockTimeout) /\ WF_all(Ptt /\ RadioTakes)
  /\ WF_all(Ptt /\ AudioTakes) /\ WF_all(Ptt /\ Disconnected)
  /\ WF_all(Connection /\ K!OnStateChanged)
  /\ WF_all(Connection /\ \E lingers \in BOOLEAN : K!ConnectToHost(lingers) \/ K!Disconnect(lingers))
  /\ WF_all(Connection /\ \E lingers \in BOOLEAN : K!OnConnectTimeout(lingers))
  /\ WF_all(Connection /\ \E lingers \in BOOLEAN : K!OnAuthTimeout(lingers))
  /\ WF_all(Mode /\ F!Tick) /\ WF_all(Mode /\ F!TransmitEnds)
  /\ WF_all(Calibration /\ C!AudioPrepares) /\ WF_all(Calibration /\ C!UiHandles)
  /\ WF_all(Calibration /\ C!BeginDigitalCalibration) /\ WF_all(Calibration /\ C!IoCancels)
  /\ WF_all(Calibration /\ C!GuardEnds) /\ WF_all(Calibration /\ C!DeadlinePasses)
  /\ WF_all(Loudspeaker /\ L!FeedStaged) /\ WF_all(Loudspeaker /\ L!FeedPacket)
  /\ WF_all(Loudspeaker /\ L!Play)

AllSpec == AllInit /\ [][AllNext]_all /\ AllFairness

----------------------------------------------------------------------------
(* The connection and a calibration keep their types, and each state of   *)
(* the connection its own timer; playback keeps its bound and its count.   *)
TypesOK ==
  /\ part = "connection" => K!TypeOK
  /\ part = "calibration" => C!TypeOK
  /\ part = "playback" => L!TypeOK

(* VoicePtt: the K4 keyed by this phone is shown, and a session that the   *)
(* operator closes leaves it receiving.                                    *)
KeyedKnowingly == part = "ptt" => KeyedIsShown /\ LeavesInRx

(* TcpConnection: the UI shows the state of the connection asked for, and  *)
(* the K4 at the other end is the one asked for.                           *)
UiAgrees == part = "connection" => K!UiAgrees
ConnectedAsAsked == part = "connection" => K!ConnectedAsAsked

(* Ft8RadioMode: the operator's mode is given back when FT8 is left.       *)
OwnModeReturns == part = "mode" => F!ModeGivenBack

(* DigitalCalibration: the tone sounds in TEST only, and TEST is put back. *)
TestIsKept == part = "calibration" => C!ToneInTest /\ C!TestRestored

(* Playback: no packet is cut, mixed or played out of order.               *)
PacketsAreWhole == [][part = "playback" => L!Continues]_all

(* What must end, ends: a latched transmission, by its timer at the latest,  *)
(* and the microphone frames of a lost session; an attempt to connect; the    *)
(* wait of a saved mode to be given back; a calibration; and the wait of the  *)
(* rest of a packet.                                                          *)
Begun ==
  \/ part = "ptt" /\ Owing
  \/ part = "connection" /\ K!Busy
  \/ part = "mode" /\ F!Kept
  \/ part = "calibration" /\ told.calibrating
  \/ part = "playback" /\ L!Waits
Over ==
  /\ part = "ptt" => Released
  /\ part = "connection" => ~K!Busy
  /\ part = "mode" => ~F!Kept
  /\ part = "calibration" => ~told.calibrating
  /\ part = "playback" => L!Served
AllEnds == Begun ~> Over
==============================================================================
