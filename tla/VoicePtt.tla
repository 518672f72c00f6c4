------------------------------- MODULE VoicePtt -------------------------------
(***************************************************************************)
(* Who keys the K4 by voice: the phone's latched TX/RX button with its input *)
(* shield and three-minute timer, XMIT, a MIDI pedal or button, and the CAT  *)
(* server's programs, which open only the microphone gate.  Commands and the *)
(* gate travel by queues to the I/O and audio threads; the K4's reports come *)
(* back; the connection is lost or closed at any point.                      *)
(***************************************************************************)
EXTENDS Integers, Sequences, SequencesExt

CONSTANT Limit  \* bound: how many acts of the operator, programs and the network

VARIABLES
  link,     \* TcpClient::isConnected
  told,     \* MainWindow has handled the last Disconnected
  granted,  \* the microphone permission
  ptt,      \* m_pttActive
  shown,    \* the bar's button reads TX ON
  locked,   \* m_pttLocked, m_pttLockTimer running
  shield,   \* the console is covered, only the release button can be tapped
  gate,     \* AudioEngine's m_pttActive: microphone frames are sent
  digital,  \* an FT8 or SSTV transmission owns the transmitter
  toAudio, toRadio, toPhone,  \* the queued calls, commands and reports
  keyed,    \* why the K4 transmits without audio: "no", "phone", "panel"
  heard,    \* RadioState's isTransmitting
  stray,    \* history: a program took the PTT of a keyed phone away
  budget    \* how many acts are left

control == <<ptt, shown, locked, shield>>
engine == <<gate, toAudio>>
wire == <<toRadio, toPhone, keyed, heard>>
session == <<link, told, granted>>
vars == <<session, control, engine, digital, wire, stray, budget>>

Spends == budget > 0 /\ budget' = budget - 1

Init ==
  /\ link = TRUE /\ told = TRUE /\ granted \in BOOLEAN
  /\ ptt = FALSE /\ shown = FALSE /\ locked = FALSE /\ shield = FALSE
  /\ gate = FALSE /\ digital = "no"
  /\ toAudio = <<>> /\ toRadio = <<>> /\ toPhone = <<>>
  /\ keyed = "no" /\ heard = FALSE /\ stray = FALSE /\ budget = Limit

(***************************************************************************)
(* MainWindow's parts                                                      *)
(***************************************************************************)
Send(c) == toRadio' = IF link THEN Append(toRadio, c) ELSE toRadio

\* m_pttActive, the audio engine's gate and the bar, set together; the bar
\* forgets its latch when it is cleared.
SetPtt(on, latch) ==
  /\ ptt' = on /\ shown' = on /\ locked' = (on /\ latch)
  /\ toAudio' = Append(toAudio, on)

\* The last command this phone gave in the session is TX.
Owed == IF toRadio = <<>> THEN keyed = "phone" ELSE Last(toRadio) = "TX"

Settles == stray' = (stray /\ Contains(toRadio, "BYE"))

onPttPressed(latch) ==
  IF digital # "no" \/ ~link \/ ~granted
  THEN locked' = latch /\ UNCHANGED <<ptt, shown, toAudio, toRadio, stray>>
  ELSE SetPtt(TRUE, latch) /\ Send("TX") /\ Settles

Shields == shield' = IF digital # "no" \/ ~link \/ ~granted THEN shield ELSE TRUE

StopsFt8 == digital' = IF digital = "ft8" THEN "no" ELSE digital
onPttReleased == SetPtt(FALSE, FALSE) /\ StopsFt8 /\ Send("RX") /\ Settles

(***************************************************************************)
(* The operator                                                            *)
(***************************************************************************)
\* The bar's button: the first tap locks, the second releases.
Tap ==
  /\ ~shield /\ Spends
  /\ IF locked THEN onPttReleased /\ shield' = FALSE
     ELSE onPttPressed(TRUE) /\ Shields /\ UNCHANGED digital
  /\ UNCHANGED <<session, gate, toPhone, keyed, heard>>

\* The release button on the shield hides it, then taps the bar's button.
TapRelease ==
  /\ shield /\ Spends
  /\ IF locked THEN onPttReleased /\ shield' = FALSE
     ELSE /\ onPttPressed(TRUE) /\ UNCHANGED digital
          /\ shield' = (digital = "no" /\ link /\ granted)
  /\ UNCHANGED <<session, gate, toPhone, keyed, heard>>

\* Mutant: the timer is taken for one that only clears the button.
M_LockTimeout ==
  /\ locked /\ locked' = FALSE
  /\ UNCHANGED <<ptt, shown, shield, toAudio, toRadio, digital, stray, session, gate, toPhone, keyed, heard, budget>>

\* The 180 s of m_pttLockTimer are over.
LockTimeout ==
  /\ locked
  /\ onPttReleased /\ shield' = FALSE
  /\ UNCHANGED <<session, gate, toPhone, keyed, heard, budget>>

\* Mutant: XMIT sends the switch only.
M_Xmit ==
  /\ ~shield /\ link /\ Spends
  /\ Send(IF heard THEN "RX" ELSE "TX")
  /\ UNCHANGED <<control, stray, toAudio, session, gate, digital, toPhone, keyed, heard>>

Xmit ==
  /\ ~shield /\ link /\ Spends
  /\ Send(IF heard THEN "RX" ELSE "TX") /\ SetPtt(~heard, locked) /\ Settles
  /\ UNCHANGED <<session, shield, gate, digital, toPhone, keyed, heard>>

\* A pedal assigned to PTT, pressed and released, and tx_rx_toggle.
MidiPtt(pressed) ==
  /\ Spends
  /\ IF pressed THEN onPttPressed(locked) /\ Shields /\ UNCHANGED digital
     ELSE onPttReleased /\ shield' = FALSE
  /\ UNCHANGED <<session, gate, toPhone, keyed, heard>>
MidiToggle == link /\ digital # "sstv" /\ MidiPtt(~(ptt \/ heard))

\* TX; or RX; of a program at the CAT server.
CatPtt(on) ==
  /\ Spends /\ ~(on /\ (digital # "no" \/ ~link))
  /\ SetPtt(on /\ granted, locked)
  /\ stray' = (stray \/ (~(on /\ granted) /\ ptt /\ Owed))
  /\ UNCHANGED <<session, shield, gate, digital, wire>>

\* onDisconnectClicked: release, then close the session.
ClickDisconnect ==
  /\ ~shield /\ Spends /\ link /\ ~Contains(toRadio, "BYE")
  /\ IF ptt THEN SetPtt(FALSE, FALSE) /\ StopsFt8 /\ Settles
                 /\ toRadio' = toRadio \o <<"RX", "BYE">>
            ELSE Send("BYE") /\ UNCHANGED <<ptt, shown, locked, digital, toAudio, stray>>
  /\ UNCHANGED <<session, shield, gate, toPhone, keyed, heard>>

(***************************************************************************)
(* Digital transmissions, the connection and the other threads             *)
(***************************************************************************)
DigitalStarts ==
  /\ link /\ ~ptt /\ ~heard /\ digital = "no" /\ Spends /\ digital' \in {"ft8", "sstv"}
  /\ UNCHANGED <<session, control, engine, wire, stray>>
DigitalEnds ==
  /\ digital # "no" /\ digital' = "no"
  /\ UNCHANGED <<session, control, engine, wire, stray, budget>>

Gone ==
  /\ link' = FALSE /\ told' = FALSE
  /\ toRadio' = <<>> /\ digital' = "no" /\ stray' = FALSE
  /\ keyed' \in {"no", IF keyed = "phone" THEN "panel" ELSE keyed}
Lost == link /\ Spends /\ Gone /\ UNCHANGED <<granted, control, engine, toPhone, heard>>

\* updateConnectionState(Disconnected): the local gate is cleared, the state reset.
Disconnected ==
  /\ ~link /\ ~told /\ told' = TRUE
  /\ SetPtt(FALSE, FALSE) /\ toPhone' = <<>> /\ heard' = FALSE
  /\ UNCHANGED <<link, granted, shield, gate, digital, toRadio, keyed, stray, budget>>

Connect ==
  /\ ~link /\ told /\ Spends /\ link' = TRUE
  /\ toPhone' = <<keyed # "no">>
  /\ UNCHANGED <<told, granted, control, engine, digital, toRadio, keyed, heard, stray>>

\* AudioEngine::setPttActive refuses while a digital transmission is prepared.
AudioTakes ==
  /\ toAudio # <<>> /\ toAudio' = Tail(toAudio)
  /\ gate' = IF Head(toAudio) /\ digital # "no" THEN gate ELSE Head(toAudio)
  /\ UNCHANGED <<session, control, digital, wire, stray, budget>>

Hear ==
  /\ link /\ toPhone # <<>> /\ toPhone' = Tail(toPhone) /\ heard' = Head(toPhone)
  /\ UNCHANGED <<session, control, engine, digital, toRadio, keyed, stray, budget>>

(***************************************************************************)
(* The K4                                                                  *)
(***************************************************************************)
Reports(k) == toPhone' = IF k # "no" /\ keyed = "no" THEN Append(toPhone, TRUE)
                         ELSE IF k = "no" /\ keyed # "no" THEN Append(toPhone, FALSE) ELSE toPhone
RadioTakes ==
  /\ toRadio # <<>>
  /\ IF Head(toRadio) = "BYE" THEN Gone /\ UNCHANGED toPhone
     ELSE /\ toRadio' = Tail(toRadio)
          /\ keyed' = (IF Head(toRadio) = "TX" THEN "phone" ELSE "no") /\ Reports(keyed')
          /\ UNCHANGED <<link, told, digital, stray>>
  /\ UNCHANGED <<granted, control, engine, heard, budget>>

\* The K4's own XMIT key, or a transmission that microphone frames start and end.
PanelTurns ==
  /\ link /\ Spends
  /\ keyed' = (IF keyed = "no" THEN "panel" ELSE "no") /\ Reports(keyed')
  /\ UNCHANGED <<session, control, engine, digital, toRadio, heard, stray>>

Next ==
  \/ Tap \/ TapRelease \/ LockTimeout \/ Xmit \/ MidiToggle
  \/ \E pressed \in BOOLEAN : MidiPtt(pressed)
  \/ \E on \in BOOLEAN : CatPtt(on)
  \/ ClickDisconnect \/ DigitalStarts \/ DigitalEnds
  \/ Lost \/ Disconnected \/ Connect \/ AudioTakes \/ Hear \/ RadioTakes \/ PanelTurns

Spec == Init /\ [][Next]_vars

(***************************************************************************)
(* Properties                                                              *)
(***************************************************************************)
\* While the K4 transmits on this phone's command, or that command is on its
\* way, the phone shows it, whichever control was used last: except after a
\* program's RX, which closes the gate and sends nothing (onPttPressed,
\* onPttReleased, XMIT, ClickDisconnect).
KeyedIsShown == told /\ Owed /\ ~stray => shown /\ ptt

\* A session that the operator closes does not leave the K4 in the transmission
\* the phone began (onDisconnectClicked).
LeavesInRx == toRadio # <<>> /\ Head(toRadio) = "BYE" /\ ~stray => keyed # "phone"

\* A latched transmission ends by itself, at the latest with the lock timer,
\* whatever was refused, lost or reconnected meanwhile; and the microphone
\* frames of a lost session end as well: what is owed leads to its end.
Owing == (keyed = "phone" /\ locked) \/ ~link
Released == (keyed # "phone" \/ stray) /\ (link \/ ~gate)
=============================================================================
