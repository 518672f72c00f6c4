----------------------------- MODULE MCDevices -----------------------------
(***************************************************************************)
(* FT8 reception, the copy of the radio's settings, the level of program   *)
(* audio, a transmit slot and the FT8 screen's dial share no state in      *)
(* these models, so one run checks them all: a behaviour is one of a       *)
(* single part.  Each part uses the variables of Ft8Receiver as its own.   *)
(***************************************************************************)
EXTENDS Ft8Receiver, RadioSettings

CONSTANTS
  MaximumGain, CalibrationStart, PolicyTimes, HighSamples, Transmissions,  \* of MeterPolicy
  DialTones, DialCallsigns, DialTurns, DialChanges,                        \* of Ft8Dial
  MirrorLimit,                                                             \* of RadioMirror
  SlotBegins, SlotStart, SlotPeriod, SlotOffset, SlotWave, SlotFrame, SlotDelays  \* of Ft8Slot

VARIABLE part

MCPeriod == [m \in {0, 1} |-> IF m = 0 THEN 3 ELSE 2]

\* Times in steps of some 400 ms; each age is counted as far as it matters.
Times == [settle |-> 1, stable |-> 2, pause |-> 1, reduction |-> 1, spacing |-> 1,
          high |-> 2, meter |-> 2, calibration |-> 6, tone |-> 2, firstPacket |-> 2, packet |-> 1,
          cap |-> [started |-> 6, adjusted |-> 1, meter |-> 2, stable |-> 2, high |-> 2,
                   sample |-> 1, reduction |-> 1, first |-> 1, audio |-> 2, late |-> 1]]

MCDelays == {[lag |-> 3, stall |-> 8], [lag |-> 6, stall |-> 50]}

M == INSTANCE RadioMirror WITH
       Follow <- DOMAIN Rows, Limit <- MirrorLimit,
       f <- capture, link <- mode, radio <- generation, toRadio <- pending, toPhone <- ui,
       mirror <- screen, shown <- io, fresh <- posted, due <- worker, crossed <- taking,
       behind <- heard, left <- signals

ASSUME SettingsAreSane == MirrorLimit \in Nat /\ \A s \in DOMAIN Rows : Sane(M!Rows[s])

ASSUME PolicyBounds ==
  /\ MaximumGain \in Nat /\ CalibrationStart \in 0..MaximumGain /\ HighSamples \in Nat /\ Transmissions \in Nat
  /\ PolicyTimes.stable \in Nat /\ PolicyTimes.meter \in Nat
  /\ PolicyTimes.cap.stable \in Nat /\ PolicyTimes.cap.meter \in Nat

P == INSTANCE MeterPolicy WITH
       Maximum <- MaximumGain, Start <- CalibrationStart, T <- PolicyTimes,
       MinimumHighSamples <- HighSamples, Tries <- Transmissions,
       guard <- capture, open <- mode, gain <- generation, age <- pending,
       lowering <- screen, tx <- io, ioQ <- posted, uiQ <- worker, steady <- taking,
       lowest <- signals, missed <- heard

S == INSTANCE Ft8Slot WITH
       Begin <- SlotBegins, Slot <- SlotStart, Period <- SlotPeriod, Offset <- SlotOffset,
       Wave <- SlotWave, Frame <- SlotFrame, Delays <- SlotDelays,
       now <- ui, tx <- capture, open <- mode, ioQ <- generation, auQ <- pending,
       line <- screen, max <- posted, lag <- worker, stall <- taking

\* A packet is 20, 40, 60 or 120 ms; the event loops are late by no more than the
\* pacing deadline; and a slot is begun in time for what a punctual one needs.
ASSUME SlotBounds ==
  /\ SlotBegins \subseteq Nat \ {0} /\ {SlotStart, SlotPeriod, SlotOffset, SlotWave} \subseteq Nat
  /\ SlotFrame \in {2, 4, 6, 12} /\ SlotWave > 5 /\ SlotOffset - 57 < (SlotPeriod * 3) \div 4
  /\ \A b \in SlotBegins : b + 3 < SlotStart + S!LatestStart
  /\ \A d \in SlotDelays : d.lag \in 0..S!Larger(8, SlotFrame) /\ d.stall \in Nat

L == INSTANCE Ft8Dial WITH
       Tones <- DialTones, Callsigns <- DialCallsigns, Turns <- DialTurns, Changes <- DialChanges,
       freq <- capture, known <- mode, dial <- generation, tone <- pending, tx <- ui,
       own <- screen, radio <- io, toRadio <- posted, toPhone <- worker, aim <- taking,
       turns <- signals

AllInit ==
  \/ part = "receiver" /\ Init
  \/ part = "mirror" /\ M!Init /\ shown = 0 /\ since = 0 /\ changes = 0
  \/ part = "meter" /\ P!Init /\ shown = 0 /\ since = 0 /\ changes = 0
  \/ part = "dial" /\ L!Init /\ heard = 0 /\ shown = 0 /\ since = 0
  \/ part = "slot" /\ S!Init /\ signals = 0 /\ heard = 0 /\ shown = 0 /\ since = 0 /\ changes = 0

Receiver == part = "receiver" /\ UNCHANGED part
Mirror == part = "mirror" /\ UNCHANGED <<part, shown, since, changes>>
Policy == part = "meter" /\ UNCHANGED <<part, shown, since, changes>>
TxSlot == part = "slot" /\ UNCHANGED <<part, signals, heard, shown, since, changes>>
Tuning == part = "dial" /\ UNCHANGED <<part, heard, shown, since>>

AllNext ==
  \/ \E on \in BOOLEAN : Receiver /\ Refresh(on)
  \/ \E m \in Modes, receives, ready \in BOOLEAN : Receiver /\ CaptureChanged(m, receives, ready)
  \/ Receiver /\ Begin
  \/ Receiver /\ StoreMode
  \/ Receiver /\ StoreGeneration
  \/ Receiver /\ StoreCapture
  \/ Receiver /\ Accept
  \/ \E delay \in {1, 2 + Gap} : Receiver /\ Hear(delay)
  \/ Receiver /\ Add
  \/ Receiver /\ TakeBack
  \/ Receiver /\ Restart
  \/ Receiver /\ LoadGeneration
  \/ Receiver /\ Post
  \/ Receiver /\ Take
  \/ Receiver /\ LoadCapture
  \/ Receiver /\ Consume

  \/ Mirror /\ M!Connect
  \/ Mirror /\ M!Disconnect
  \/ Mirror /\ M!RadioTakes
  \/ Mirror /\ M!PanelTurns
  \/ Mirror /\ M!PhoneTakes
  \/ Mirror /\ M!GuardExpires
  \/ Mirror /\ M!Turns
  \/ Mirror /\ M!TimerSends
  \/ Mirror /\ M!SendMacro

  \/ Policy /\ P!Pass
  \/ Policy /\ P!Tick
  \/ Policy /\ P!audioAccepted
  \/ \E r \in P!Readings : Policy /\ P!Meter(r)
  \/ Policy /\ P!Reduce
  \/ Policy /\ P!IoTakes
  \/ \E kind \in P!Kinds, ack \in BOOLEAN : Policy /\ P!Starts(kind, ack)
  \/ \E closes \in BOOLEAN : Policy /\ P!StopSstv(closes)
  \/ Policy /\ P!CancelCalibration
  \/ Policy /\ P!FtFinishes
  \/ Policy /\ P!UiTakes

  \/ \E step \in {-1, 1} : Tuning /\ L!TuneRf(step)
  \/ Tuning /\ L!EnterFrequency
  \/ Tuning /\ L!Ages
  \/ Tuning /\ L!PhoneTakes
  \/ Tuning /\ L!RadioTakes
  \/ Tuning /\ L!PanelTunes
  \/ Tuning /\ L!PanelMode
  \/ Tuning /\ L!Keys
  \/ Tuning /\ L!Disconnect
  \/ Tuning /\ L!Connect
  \/ Tuning /\ L!SelectDigit
  \/ \E t \in {"rx", "tx"} : Tuning /\ L!BeginDialAdjustment(t)
  \/ \E step \in {-1, 1} : Tuning /\ L!TuneTone(step)
  \/ Tuning /\ L!CommitDialAdjustment
  \/ \E hz \in DialTones : Tuning /\ L!SelectStation(hz)
  \/ \E hz \in DialTones, held \in BOOLEAN : Tuning /\ L!Tap(hz, held)
  \/ Tuning /\ L!BeginSlot
  \/ \E success \in BOOLEAN : Tuning /\ L!FinishLiveTransmit(success)
  \/ \E c \in DialCallsigns, on \in BOOLEAN : Tuning /\ L!SaveOptions(c, on)
  \/ Tuning /\ L!ChangeMode
  \/ Tuning /\ L!Suspend

  \/ TxSlot /\ S!TxTick
  \/ TxSlot /\ S!Keyed
  \/ TxSlot /\ S!Accepted
  \/ TxSlot /\ S!Unkeyed
  \/ TxSlot /\ S!Cancel
  \/ TxSlot /\ S!BeginScheduledDigitalAudio
  \/ TxSlot /\ S!StopScheduledDigitalAudio
  \/ \E call \in {"frame", "final"} : TxSlot /\ S!SendDigitalAudio(call)
  \/ TxSlot /\ S!Drained
  \/ TxSlot /\ S!DrainTimeout
  \/ TxSlot /\ S!ServiceDigitalTxProtection
  \/ TxSlot /\ S!Tick

all == <<part, vars>>
AllSpec == AllInit /\ [][AllNext]_all

----------------------------------------------------------------------------
(* Every part keeps its types; in Ft8Receiver the count of pending bytes,  *)
(* which two threads change, is that of the blocks posted.                 *)
TypesOK ==
  /\ part = "receiver" => TypeOK
  /\ part = "mirror" => M!TypeOK
  /\ part = "slot" => S!TypeOK

(* Ft8Receiver: decodes shown come from a window without a gap, and a      *)
(* stream is decoded in the mode on the screen.                            *)
WindowIsWhole == part = "receiver" => ShownIsWhole /\ StreamInMode

(* Ft8Receiver: no decode of an earlier capture is shown in this one.      *)
DecodesAreCurrent == [][part = "receiver" => FromThisCapture]_all

(* RadioMirror: when all is settled the copy is what the K4 has, and the   *)
(* widget shows it, after a reconnect too.                                 *)
CopyIsRadio == part = "mirror" => M!MirrorIsRadio /\ M!ShownIsMirror

(* RadioMirror: a command for one part of a setting changes that part.     *)
OthersAreKept == [][part = "mirror" => M!OnePartChanges]_all

(* MeterPolicy: a level lowered by the meter is not raised again.          *)
LevelIsNotRestored == part = "meter" => P!NeverRestored

(* MeterPolicy: a calibration reports a level only if it was good for the  *)
(* whole of the stable time, and a reading that comes too late does not    *)
(* keep a transmission alive.                                              *)
MeterIsStrict == [][part = "meter" => P!Proven /\ P!NotRevived]_all

(* Ft8Slot: the K4 has its key-up time before the first packet, the        *)
(* packets end with the slot's waveform or the pacing deadline later, the  *)
(* K4 is never keyed in silence for longer than the watchdog allows, and a *)
(* slot begun and served in time is transmitted as a whole.                *)
SlotIsTimely == part = "slot" => S!KeyUpFirst /\ S!EndsOnTime /\ S!SilenceIsShort /\ S!OnTimeSucceeds

(* Ft8Dial: the frequency and the callsigns of the screen are the K4's and *)
(* the operator's, and detents of the wheel add up.                        *)
DialIsTrue == part = "dial" => L!ShownIsTrue /\ L!DetentsAddUp

=============================================================================
