------------------------------- MODULE Ft8Dial --------------------------------
(***************************************************************************)
(* The dial of the FT8 screen.  A detent of the wheel asks the K4 for the  *)
(* next frequency before it has answered the last one, so that the screen  *)
(* counts from its own request; or it moves the preview of a tone that     *)
(* "Set" makes the tone.  Practice leaves the radio and the operator's     *)
(* own callsign alone.  Frequencies and tones are counted in steps.        *)
(***************************************************************************)
EXTENDS Integers, Sequences

CONSTANTS
  Tones,       \* 100..3200 Hz, in steps
  Callsigns,   \* callsigns an operator may enter
  Turns,       \* bound: what the operator does
  Changes      \* bound: what the K4 and the link do by themselves

ModeOf == {"DATA", "USB"}
Away == 9      \* a frequency far from the first
Home == 5

VARIABLES
  freq,     \* f: m_frequency, rf: m_radioFrequency, pending: m_pendingRfHz (0: none),
            \* young: m_rfRequestUtc is not older than a second
  known,    \* m_connected, m_radioMode, m_radioTx
  dial,     \* target, last: m_lastToneTarget; preview: m_dialPreviewActive; hz; commit:
            \* m_dialCommitRequired; for: history, the tone the preview was begun
            \* for, and whether in practice
  tone,     \* m_session's rxHz, txHz, holdTx; m_rxFocusHz (0: none)
  tx,       \* m_session.armed, m_livePending
  own,      \* m_practice; the callsign in use, m_stationCall, the stored one;
            \* entered: history, the one last entered outside practice
  radio,    \* the K4: VFO A, its mode, whether it transmits
  toRadio, toPhone,  \* frequencies asked for; values reported
  aim,      \* history: hz: first frequency plus all detents (0: no claim); dir: of the
            \* last detent; straight: no turn back while an answer was due
  turns, changes

vars == <<freq, known, dial, tone, tx, own, radio, toRadio, toPhone, aim, turns, changes>>

Init ==
  /\ freq = [f |-> Home, rf |-> 0, pending |-> 0, young |-> FALSE]
  /\ known = [on |-> FALSE, mode |-> "?", tx |-> FALSE]
  /\ dial = [target |-> "rx", last |-> "rx", preview |-> FALSE, hz |-> 2, commit |-> FALSE, for |-> <<"rx", FALSE>>]
  /\ tone = [rx |-> 2, tx |-> 2, hold |-> TRUE, focus |-> 0]
  /\ tx = [armed |-> FALSE, live |-> FALSE]
  /\ own \in {[practice |-> FALSE, call |-> c, station |-> c, stored |-> c, entered |-> c] : c \in Callsigns}
  /\ radio = [hz |-> Home, mode |-> "DATA", tx |-> FALSE]
  /\ toRadio = <<>> /\ toPhone = <<>>
  /\ aim = [hz |-> 0, dir |-> 0, straight |-> TRUE]
  /\ turns = 0 /\ changes = 0

NoAim == [hz |-> 0, dir |-> 0, straight |-> TRUE]
Settled == toRadio = <<>> /\ toPhone = <<>>
Stop == [tx EXCEPT !.armed = FALSE]   \* stopLiveTransmit and halt or clear; Finish follows
Operator == turns < Turns /\ turns' = turns + 1
Available == ~known.tx /\ ~tx.live

\* selectDialTarget, beginDialAdjustment
Selected(t) == [dial EXCEPT !.preview = FALSE, !.commit = FALSE, !.target = t,
                            !.last = IF t = "rf" THEN @ ELSE t]
Begun(t) == [target |-> t, last |-> t, commit |-> TRUE, preview |-> TRUE,
             hz |-> IF t = "tx" THEN tone.tx ELSE tone.rx, for |-> <<t, own.practice>>]

\* clearActivity, as far as it concerns dial and tones
Cleared(d) == [d EXCEPT !.preview = FALSE, !.commit = FALSE]
Unfocused == [tone EXCEPT !.focus = 0]
----------------------------------------------------------------------------
(* The radio frequency.                                                    *)

\* Mutant: what was asked for last is not kept.
M_SetFrequency(hz, d) ==
  /\ tx' = Stop /\ dial' = Cleared(d) /\ tone' = Unfocused
  /\ freq' = [freq EXCEPT !.f = IF own.practice \/ ~known.on THEN hz ELSE @,
                          !.young = own.practice => @]
  /\ toRadio' = IF own.practice \/ ~known.on THEN toRadio ELSE Append(toRadio, hz)

\* setFrequency for a frequency other than 0, with the radio receiving; d: the dial before
SetFrequency(hz, d) ==
  /\ tx' = Stop /\ dial' = Cleared(d) /\ tone' = Unfocused
  /\ freq' = [freq EXCEPT !.f = IF own.practice \/ ~known.on THEN hz ELSE @,
                          !.pending = IF own.practice THEN @ ELSE IF known.on THEN hz ELSE 0,
                          !.young = own.practice => @]
  /\ toRadio' = IF own.practice \/ ~known.on THEN toRadio ELSE Append(toRadio, hz)

\* tuneDial on the radio frequency
TuneRf(step) ==
  LET from == IF freq.young /\ freq.pending > 0 THEN freq.pending ELSE freq.f
  IN  /\ Operator /\ Available /\ dial.target = "rf" /\ from + step > 0
      /\ SetFrequency(from + step, dial)
      /\ aim' = IF Settled THEN [hz |-> freq.f + step, dir |-> step, straight |-> TRUE]
                ELSE IF aim.hz = 0 THEN aim
                ELSE [hz |-> aim.hz + step, dir |-> step,
                      straight |-> aim.straight /\ aim.dir \in {0, step}]
      /\ UNCHANGED <<known, own, radio, toPhone, changes>>

EnteredAim == IF Settled THEN [hz |-> Away, dir |-> 0, straight |-> TRUE] ELSE NoAim

\* selectBand, enterFrequency: their sheets stay open while a slot is prepared
EnterFrequency ==
  /\ Operator /\ ~known.tx
  /\ SetFrequency(Away, dial)
  /\ aim' = EnteredAim
  /\ UNCHANGED <<known, own, radio, toPhone, changes>>

\* A second passes after the last request.
Ages ==
  /\ freq.young
  /\ freq' = [freq EXCEPT !.young = FALSE]
  /\ aim' = IF Settled THEN aim ELSE NoAim
  /\ UNCHANGED <<known, dial, tone, tx, own, radio, toRadio, toPhone, turns, changes>>

\* MainWindow's updateRadio and setRadioState
SetRadioState(on, hz, mode, transmits) ==
  LET other == on # known.on \/ mode # known.mode \/ transmits # known.tx
      changed == on # known.on \/ mode # known.mode \/ hz # freq.rf
      keeps == on = known.on /\ dial.commit
      d == IF ~other THEN dial
           ELSE [dial EXCEPT !.preview = FALSE, !.target = IF keeps THEN @ ELSE "rx",
                             !.last = IF keeps THEN @ ELSE "rx"]
  IN  /\ known' = [on |-> on, mode |-> mode, tx |-> transmits]
      /\ freq' = [freq EXCEPT !.rf = hz,
                              !.pending = IF other \/ hz = @ THEN 0 ELSE @,
                              !.f = IF ~own.practice /\ changed /\ hz > 0 THEN hz ELSE @]
      /\ dial' = IF ~own.practice /\ changed THEN Cleared(d) ELSE d
      /\ tone' = IF ~own.practice /\ changed THEN Unfocused ELSE tone
      /\ tx' = IF ~own.practice /\ (changed \/ (transmits /\ ~known.tx /\ ~tx.live)) THEN Stop ELSE tx

PhoneTakes ==
  /\ toPhone # <<>>
  /\ toPhone' = Tail(toPhone)
  /\ LET m == Head(toPhone)
     IN  SetRadioState(TRUE, IF m.of = "hz" THEN m.is ELSE freq.rf,
                             IF m.of = "mode" THEN m.is ELSE known.mode,
                             IF m.of = "tx" THEN m.is ELSE known.tx)
  /\ UNCHANGED <<own, radio, toRadio, aim, turns, changes>>

\* FA<hz>;FA; at the K4
RadioTakes ==
  /\ toRadio # <<>>
  /\ toRadio' = Tail(toRadio)
  /\ radio' = [radio EXCEPT !.hz = Head(toRadio)]
  /\ toPhone' = Append(toPhone, [of |-> "hz", is |-> Head(toRadio)])
  /\ UNCHANGED <<freq, known, dial, tone, tx, own, aim, turns, changes>>

Reports(key, value) ==
  /\ changes < Changes /\ changes' = changes + 1
  /\ radio' = [radio EXCEPT ![key] = value]
  /\ toPhone' = IF known.on THEN Append(toPhone, [of |-> key, is |-> value]) ELSE toPhone
  /\ aim' = NoAim
  /\ UNCHANGED <<freq, known, dial, tone, tx, own, toRadio, turns>>

PanelTunes == Reports("hz", radio.hz + 1)
PanelMode == \E m \in ModeOf \ {radio.mode} : Reports("mode", m)
\* It is keyed and unkeyed, by the panel or for the phone's own transmission.
Keys == Reports("tx", ~radio.tx)

\* RadioState is reset; stateChanged reaches the screen.
Disconnect ==
  /\ known.on
  /\ SetRadioState(FALSE, 0, "?", FALSE)
  /\ toRadio' = <<>> /\ toPhone' = <<>>
  /\ aim' = NoAim
  /\ UNCHANGED <<own, radio, turns, changes>>

Connect ==
  /\ ~known.on /\ changes < Changes /\ changes' = changes + 1
  /\ SetRadioState(TRUE, 0, "?", FALSE)
  /\ toPhone' = <<[of |-> "hz", is |-> radio.hz], [of |-> "mode", is |-> radio.mode]>>
                \o (IF radio.tx THEN <<[of |-> "tx", is |-> TRUE]>> ELSE <<>>)
  /\ aim' = NoAim
  /\ UNCHANGED <<own, radio, toRadio, turns>>
----------------------------------------------------------------------------
(* The tones.                                                              *)

SelectDigit ==
  /\ Operator /\ Available
  /\ dial' = Selected("rf")
  /\ UNCHANGED <<freq, known, tone, tx, own, radio, toRadio, toPhone, aim, changes>>

\* The MIDI button takes the other tone, the sheet the one chosen.
BeginDialAdjustment(t) ==
  /\ Operator /\ Available
  /\ dial' = Begun(t)
  /\ UNCHANGED <<freq, known, tone, tx, own, radio, toRadio, toPhone, aim, changes>>

TuneTone(step) ==
  LET d == IF dial.commit THEN dial ELSE Begun(dial.target)
  IN  /\ Operator /\ Available /\ dial.target # "rf" /\ d.preview
      /\ dial' = [d EXCEPT !.hz = IF d.hz + step \in Tones THEN @ + step ELSE @]
      /\ UNCHANGED <<freq, known, tone, tx, own, radio, toRadio, toPhone, aim, changes>>

CommitDialAdjustment ==
  /\ Operator /\ Available /\ dial.preview
  /\ dial' = [dial EXCEPT !.preview = FALSE]
  /\ tone' = IF dial.target = "tx" THEN [tone EXCEPT !.tx = dial.hz, !.hold = TRUE]
             ELSE [tone EXCEPT !.rx = dial.hz, !.focus = dial.hz]
  /\ UNCHANGED <<freq, known, tx, own, radio, toRadio, toPhone, aim, changes>>

\* selectStation, and Call
SelectStation(hz) ==
  LET kept == tone.focus = hz
  IN  /\ Operator /\ ~tx.live
      /\ tone' = [tone EXCEPT !.rx = hz, !.tx = IF tone.hold THEN @ ELSE hz, !.focus = IF kept THEN @ ELSE 0]
      /\ dial' = [Selected("rx") EXCEPT !.commit = kept]
      /\ tx' \in {Stop, [Stop EXCEPT !.armed = own.practice \/ (known.on /\ ~known.tx)]}
      /\ UNCHANGED <<freq, known, own, radio, toRadio, toPhone, aim, changes>>

\* A tap or a long press on an open spot of the waterfall
Tap(hz, held) ==
  /\ Operator
  /\ dial' = Selected(IF held THEN "tx" ELSE "rx")
  /\ tone' = IF held THEN [tone EXCEPT !.tx = hz, !.hold = TRUE]
             ELSE [tone EXCEPT !.rx = hz, !.focus = 0, !.tx = IF tone.hold THEN @ ELSE hz]
  /\ UNCHANGED <<freq, known, tx, own, radio, toRadio, toPhone, aim, changes>>

\* tick: a period is about to begin
BeginSlot ==
  /\ ~own.practice /\ known.on /\ Available /\ tx.armed
  /\ dial' = [dial EXCEPT !.preview = FALSE]
  /\ tx' = [tx EXCEPT !.live = TRUE]
  /\ UNCHANGED <<freq, known, tone, own, radio, toRadio, toPhone, aim, turns, changes>>

\* finishLiveTransmit, after a transmission or a stop
FinishLiveTransmit(success) ==
  /\ tx.live
  /\ tx' = [live |-> FALSE, armed |-> success /\ tx.armed]
  /\ UNCHANGED <<freq, known, dial, tone, own, radio, toRadio, toPhone, aim, turns, changes>>
----------------------------------------------------------------------------
(* Practice, and the options.                                              *)

\* savePreferences, as far as the callsign goes
Stored(o) == IF o.practice THEN o ELSE [o EXCEPT !.stored = o.call]

\* setPractice, after the dialog's callsign was taken over
Switched(o, on) ==
  IF on THEN [Stored([o EXCEPT !.station = o.call]) EXCEPT !.practice = TRUE]
  ELSE [o EXCEPT !.practice = FALSE, !.call = o.station]

SaveOptions(c, on) ==
  LET leaving == own.practice /\ ~on
      o == IF leaving THEN own
           ELSE [own EXCEPT !.call = c, !.entered = IF own.practice THEN @ ELSE c]
      switches == on # own.practice
  IN  /\ Operator /\ ~tx.live
      /\ tx' = Stop
      /\ own' = Stored(IF switches THEN Switched(o, on) ELSE o)
      /\ freq' = [freq EXCEPT !.pending = IF switches THEN 0 ELSE @,
                              !.f = IF leaving /\ freq.rf > 0 THEN freq.rf ELSE @]
      /\ dial' = IF switches THEN [Cleared(dial) EXCEPT !.target = "rx"] ELSE dial
      /\ tone' = IF switches THEN Unfocused ELSE tone
      /\ aim' = IF switches THEN NoAim ELSE aim
      /\ UNCHANGED <<known, radio, toRadio, toPhone, changes>>

\* changeMode; on a band's frequency it enters the other mode's as well
ChangeMode ==
  /\ Operator /\ ~known.tx /\ ~tx.live
  /\ \/ /\ dial' = Cleared(Selected("rx")) /\ tone' = Unfocused
        /\ tx' = Stop
        /\ freq' = [freq EXCEPT !.pending = 0]
        /\ aim' = NoAim
        /\ UNCHANGED toRadio
     \/ SetFrequency(Away, Selected("rx")) /\ aim' = EnteredAim
  /\ UNCHANGED <<known, own, radio, toPhone, changes>>

\* suspend: the screen is left, and opened again
Suspend ==
  /\ Operator
  /\ dial' = Selected("rx")
  /\ tx' = Stop
  /\ freq' = [freq EXCEPT !.pending = 0]
  /\ own' = Stored(own)
  /\ aim' = NoAim
  /\ UNCHANGED <<known, tone, radio, toRadio, toPhone, changes>>

Next ==
  \/ \E step \in {-1, 1} : TuneRf(step)
  \/ EnterFrequency
  \/ Ages
  \/ PhoneTakes
  \/ RadioTakes
  \/ PanelTunes
  \/ PanelMode
  \/ Keys
  \/ Disconnect
  \/ Connect
  \/ SelectDigit
  \/ \E t \in {"rx", "tx"} : BeginDialAdjustment(t)
  \/ \E step \in {-1, 1} : TuneTone(step)
  \/ CommitDialAdjustment
  \/ \E hz \in Tones : SelectStation(hz)
  \/ \E hz \in Tones, held \in BOOLEAN : Tap(hz, held)
  \/ BeginSlot
  \/ \E success \in BOOLEAN : FinishLiveTransmit(success)
  \/ \E c \in Callsigns, on \in BOOLEAN : SaveOptions(c, on)
  \/ ChangeMode
  \/ Suspend

Spec == Init /\ [][Next]_vars

----------------------------------------------------------------------------
Arrived == Settled /\ known.on /\ ~own.practice

(* setRadioState, setPractice, savePreferences: when nothing is under way  *)
(* between phone and K4 the frequency shown, which a contact is logged     *)
(* with, is the K4's; the callsign in use and the one stored are those     *)
(* entered outside practice; Set makes the tone previewed the one it was   *)
(* previewed for, and in the same session, on the air or in practice; and  *)
(* the traffic filter My QSO is on the tone received.                      *)
ShownIsTrue ==
  /\ Arrived => freq.f = radio.hz
  /\ own.stored = own.entered /\ (~own.practice => own.call = own.entered)
  /\ dial.preview => dial.commit /\ dial.for = <<dial.target, own.practice>>
  /\ tone.focus \in {0, tone.rx}

(* tuneDial: detents add up: after a turn in one direction, however late   *)
(* the K4 answers within the second, it is where the detents lead.  Turned *)
(* back meanwhile it may not be: an older echo passes for the answer.      *)
DetentsAddUp == Arrived /\ aim.hz # 0 /\ aim.straight => radio.hz = aim.hz

=============================================================================
