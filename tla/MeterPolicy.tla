----------------------------- MODULE MeterPolicy ------------------------------
(***************************************************************************)
(* The level of generated audio: DigitalTxGuard on the I/O thread lowers it  *)
(* at high ALC readings, raises it only while it calibrates, and stops when  *)
(* readings or audio stay away.  MainWindow keeps the calibrated level and   *)
(* the reductions for the next transmission; it learns of them by signals    *)
(* that carry a generation.  One radio setup is modelled; the gain is an     *)
(* index of steps of 3 dB, a reading one of the classes the policy tells     *)
(* apart.  Time passes in steps; the 50 ms watchdog runs in each of them,    *)
(* before or after the readings and packets of that step.                    *)
(***************************************************************************)
EXTENDS Integers, Sequences

CONSTANTS
  Maximum, Start,  \* MaximumGain, CalibrationStartGain; MinimumGain is 0
  T,               \* the policy's times, in steps
  MinimumHighSamples,
  Tries            \* bound: transmissions and calibrations started

Gain == 0..Maximum
Readings == {"low", "good", "high", "fault"}
Kinds == {"ft", "sstv", "cal"}
Unset == -1

VARIABLES
  ui,     \* what MainWindow runs, m_sstvGeneration, the saved level and the
          \* entry of m_digitalReducedGains (Unset if there is none)
  guard,  \* kind and generation, "no" when inactive; latched; m_highSamples
  open,   \* the control's generation is the guard's
  gain,   \* the control's gain
  age,    \* time since each event, Unset if it has not happened; late: the watchdog is due
  lowering, \* a reading that asks for a reduction has passed the checks
  tx,     \* the generation Ft8Transmitter works on, or 0
  ioQ, uiQ, \* calls to the I/O thread, signals to the UI
  steady, \* history: time since the last change of gain or reading that was not good
  lowest, \* history: the level reached by reductions since the calibration
  missed  \* history: a reduction came too late for its generation

sent == <<ui, tx, uiQ, ioQ>>
history == <<lowest, missed>>
vars == <<ui, guard, open, gain, age, lowering, tx, ioQ, uiQ, steady, lowest, missed>>

Least(a, b) == IF a < b THEN a ELSE b
Never == [started |-> 0, adjusted |-> 0, meter |-> 0, stable |-> Unset, high |-> Unset,
          sample |-> Unset, reduction |-> Unset, first |-> Unset, audio |-> Unset, late |-> 0]

\* The setup may have been calibrated, and its level reduced since.
Init ==
  /\ \E saved, reduced \in Gain \cup {Unset} :
       /\ reduced <= saved
       /\ ui = [run |-> "no", gen |-> 0, saved |-> saved, reduced |-> reduced]
       /\ lowest = IF reduced = Unset THEN Maximum ELSE reduced
  /\ guard = [kind |-> "no", gen |-> 0, latched |-> FALSE, highs |-> 0]
  /\ open = FALSE /\ gain = Maximum /\ age = Never /\ lowering = FALSE
  /\ tx = 0 /\ ioQ = <<>> /\ uiQ = <<>> /\ missed = FALSE /\ steady = 0

(***************************************************************************)
(* DigitalTxGuard                                                          *)
(***************************************************************************)
Active == guard.kind # "no"
Calibrating == guard.kind = "cal"
Tell(signal) == uiQ' = Append(uiQ, signal)

Signal(name, kind, gen, g) == [name |-> name, kind |-> kind, gen |-> gen, gain |-> g]
Rests(latched) ==
  /\ guard' = [guard EXCEPT !.kind = "no", !.latched = @ \/ latched]
  /\ open' = FALSE /\ lowering' = FALSE /\ age' = Never

\* stop(), and TcpClient::handleDigitalTxAction for a trip or a success.
Ends(latched, ok) ==
  /\ Rests(latched)
  /\ Tell(Signal(IF ok THEN "calibrated" ELSE "ended", guard.kind, guard.gen, gain))

Since(name) == IF age[name] = Unset THEN age.started ELSE age[name]
Expired ==
  \/ ~open
  \/ age.meter >= T.meter
  \/ guard.highs >= MinimumHighSamples /\ age.high >= T.high
  \/ Calibrating /\ (age.started >= T.calibration \/ Since("audio") >= T.tone)
  \/ guard.kind = "ft" /\ Since("audio") >= IF age.audio = Unset THEN T.firstPacket ELSE T.packet

Tick ==
  /\ Active /\ age.late > 0 /\ ~lowering
  /\ IF Expired THEN Ends(TRUE, FALSE)
     ELSE age' = [age EXCEPT !.late = 0] /\ UNCHANGED <<guard, open, lowering, uiQ>>
  /\ UNCHANGED <<gain, ui, tx, ioQ, steady, history>>

\* Time passes; the watchdog is at most one step behind.  An age that nothing
\* asks for is not counted: SSTV's audio, the settling of a live transmission.
Counted(n) ==
  CASE n \in {"stable", "adjusted", "first"} -> Calibrating
    [] n = "audio" -> guard.kind # "sstv"
    [] n = "started" -> Calibrating \/ (guard.kind = "ft" /\ age.audio = Unset)
    [] OTHER -> TRUE
Pass ==
  /\ Active /\ age.late = 0 /\ ~lowering
  /\ age' = [n \in DOMAIN age |-> IF age[n] = Unset \/ ~Counted(n) THEN age[n] ELSE Least(age[n] + 1, T.cap[n])]
  /\ steady' = IF Calibrating THEN Least(steady + 1, T.stable) ELSE 0
  /\ UNCHANGED <<guard, open, gain, lowering, sent, history>>

audioAccepted ==
  /\ Active /\ open /\ ~lowering
  /\ age' = [age EXCEPT !.audio = 0, !.first = IF @ = Unset THEN 0 ELSE @,
                        !.adjusted = IF age.first = Unset THEN 0 ELSE @]
  /\ UNCHANGED <<guard, open, gain, lowering, steady, sent, history>>

Settling == age.first = Unset \/ age.first < T.settle \/ age.adjusted < T.settle

Calm == [age EXCEPT !.meter = 0, !.high = Unset, !.sample = Unset]
Forgets == guard' = [guard EXCEPT !.highs = 0] /\ UNCHANGED <<open, gain, lowering, uiQ, history>>
Trips == Ends(TRUE, FALSE) /\ UNCHANGED <<gain, history>>

\* Startup and settling of a calibration: moderate ALC is no evidence.
Provisional == age' = [Calm EXCEPT !.stable = Unset] /\ Forgets

Good ==
  IF ~Calibrating THEN age' = Calm /\ Forgets
  ELSE IF age.audio > T.pause THEN age' = [Calm EXCEPT !.stable = Unset] /\ Forgets
  ELSE IF age.stable >= T.stable THEN Ends(FALSE, TRUE) /\ UNCHANGED <<gain, history>>
  ELSE age' = [Calm EXCEPT !.stable = IF @ = Unset THEN 0 ELSE @] /\ Forgets

\* Mutant: a raised gain keeps the good readings of the lower one.
M_Low ==
  IF ~Calibrating \/ age.audio > T.pause THEN age' = [Calm EXCEPT !.stable = Unset] /\ Forgets
  ELSE IF gain = Maximum THEN Trips
  ELSE /\ gain' = gain + 1
       /\ age' = [Calm EXCEPT !.adjusted = 0]
       /\ guard' = [guard EXCEPT !.highs = 0] /\ UNCHANGED <<open, lowering, uiQ, history>>

Low ==
  IF ~Calibrating \/ age.audio > T.pause THEN age' = [Calm EXCEPT !.stable = Unset] /\ Forgets
  ELSE IF gain = Maximum THEN Trips
  ELSE /\ gain' = gain + 1
       /\ age' = [Calm EXCEPT !.stable = Unset, !.adjusted = 0]
       /\ guard' = [guard EXCEPT !.highs = 0] /\ UNCHANGED <<open, lowering, uiQ, history>>

\* A high reading counts once per T.spacing.
High ==
  LET spaced == age.sample = Unset \/ age.sample >= T.spacing
      highs == guard.highs + IF spaced THEN 1 ELSE 0
      since == IF age.high = Unset THEN 0 ELSE age.high
  IN IF gain = 0 /\ (age.reduction = Unset \/ age.reduction >= T.reduction)
        /\ highs >= MinimumHighSamples /\ since >= T.settle
     THEN Trips
     ELSE /\ guard' = [guard EXCEPT !.highs = Least(highs, MinimumHighSamples)]
          /\ age' = [age EXCEPT !.meter = 0, !.stable = Unset, !.high = since,
                                !.sample = IF spaced THEN 0 ELSE @]
          /\ lowering' = (gain > 0 /\ (age.reduction = Unset \/ age.reduction >= T.reduction))
          /\ UNCHANGED <<open, gain, uiQ, history>>

\* meter(): the watchdog's checks come before a reading counts.
Meter(r) ==
  /\ Active /\ ~lowering
  /\ IF r = "fault" \/ Expired THEN Trips
     ELSE IF Calibrating /\ Settling THEN Provisional
     ELSE CASE r = "low" -> Low [] r = "good" -> Good [] r = "high" -> High
  /\ steady' = (IF r = "good" THEN steady ELSE 0)
  /\ UNCHANGED <<ui, tx, ioQ>>

\* The rest of meter() for a reduction: other threads may have moved on.
Reduce ==
  /\ lowering /\ lowering' = FALSE
  /\ gain' = gain - 1 /\ steady' = 0
  /\ guard' = IF Calibrating THEN [guard EXCEPT !.highs = 0] ELSE guard
  /\ age' = [age EXCEPT !.adjusted = 0, !.reduction = 0,
                        !.high = IF Calibrating THEN Unset ELSE @,
                        !.sample = IF Calibrating THEN Unset ELSE @]
  /\ IF Calibrating THEN UNCHANGED uiQ   \* ignored by MainWindow
     ELSE Tell(Signal("reduced", guard.kind, guard.gen, gain'))
  /\ lowest' = IF Calibrating THEN lowest ELSE Least(lowest, gain')
  /\ UNCHANGED <<open, ui, tx, ioQ, missed>>

(***************************************************************************)
(* Calls to the I/O thread                                                 *)
(***************************************************************************)
Begin(call) ==
  IF Active \/ guard.latched
  THEN /\ Tell(Signal("ended", call.kind, call.gen, gain))
       /\ UNCHANGED <<guard, open, gain, lowering, age>>
  ELSE /\ guard' = [kind |-> call.kind, gen |-> call.gen, latched |-> FALSE, highs |-> 0]
       /\ open' = TRUE /\ age' = Never
       /\ gain' = IF call.kind = "cal" THEN Start ELSE gain
       /\ UNCHANGED <<lowering, uiQ>>
NoCall == UNCHANGED <<guard, open, gain, lowering, age, uiQ>>

\* acknowledgeDigitalTxFault, begin.., stop..AndUnkey, cancelDigitalCalibration;
\* an FT8 slot that was revoked is not begun, and only its own stop ends it.
IoTakes ==
  /\ ~lowering /\ ioQ # <<>> /\ ioQ' = Tail(ioQ)
  /\ LET call == Head(ioQ) IN
     CASE call.name = "ack" -> guard' = [guard EXCEPT !.latched = @ /\ Active]
                               /\ UNCHANGED <<open, gain, lowering, age, uiQ>>
       [] call.name = "begin" -> IF call.kind = "ft" /\ tx # call.gen THEN NoCall ELSE Begin(call)
       [] call.name = "stop" ->
            IF ~Active \/ (call.kind = "ft" /\ guard.gen # call.gen) THEN NoCall
            ELSE /\ IF Calibrating THEN Ends(FALSE, FALSE) ELSE Rests(FALSE) /\ UNCHANGED uiQ
                 /\ UNCHANGED gain
  /\ steady' = (IF guard'.gen # guard.gen THEN 0 ELSE steady)
  /\ UNCHANGED <<ui, tx, history>>

(***************************************************************************)
(* MainWindow and Ft8Transmitter                                           *)
(***************************************************************************)
Call(name, kind, gen) == [name |-> name, kind |-> kind, gen |-> gen]

\* Mutant: a transmission starts from the saved level.
M_Level == ui.saved
Level == IF ui.reduced = Unset THEN ui.saved ELSE Least(ui.saved, ui.reduced)

\* startFt8Transmit, the SSTV screen's send, startDigitalCalibration.
Starts(kind, ack) ==
  /\ ui.run = "no" /\ ui.gen < Tries /\ (kind = "cal" \/ ui.saved # Unset) /\ (kind # "ft" => ack)
  /\ ui' = [ui EXCEPT !.run = kind, !.gen = @ + 1]
  /\ gain' = IF kind = "cal" THEN gain ELSE Level
  /\ tx' = IF kind = "ft" THEN ui'.gen ELSE tx
  /\ ioQ' = ioQ \o (IF ack THEN <<Call("ack", kind, ui'.gen)>> ELSE <<>>) \o <<Call("begin", kind, ui'.gen)>>
  /\ UNCHANGED <<guard, open, lowering, age, uiQ, steady, history>>

\* stopSstvTransmission and finishSstvTransmission; only the first closes the gate.
EndsSstv(closes) ==
  /\ ui.run = "sstv" /\ ui' = [ui EXCEPT !.run = "no", !.gen = @ + 1]
  /\ open' = (open /\ ~(closes /\ guard.gen = ui.gen))
  /\ ioQ' = Append(ioQ, Call("stop", "sstv", ui.gen))

StopSstv(closes) == EndsSstv(closes) /\ UNCHANGED <<guard, gain, lowering, age, tx, uiQ, steady, history>>

CancelCalibration ==
  /\ ui.run = "cal" /\ open' = (open /\ guard.gen # ui.gen)
  /\ ~\E i \in DOMAIN ioQ : ioQ[i].name = "stop"
  /\ ioQ' = Append(ioQ, Call("stop", "cal", ui.gen))
  /\ UNCHANGED <<ui, guard, gain, lowering, age, tx, uiQ, steady, history>>

\* The slot is over, failed or cancelled: on its own thread.
FtFinishes ==
  /\ tx # 0 /\ tx' = 0 /\ open' = (open /\ guard.gen # tx)
  /\ ioQ' = Append(ioQ, Call("stop", "ft", tx)) /\ Tell(Signal("ended", "ft", tx, 0))
  /\ UNCHANGED <<ui, guard, gain, lowering, age, steady, history>>

\* A signal from the I/O thread counts only for what MainWindow still runs.
Concerns(s) == s.gen = ui.gen /\ (s.kind = "ft" => ui.run = "ft")

UiTakes ==
  /\ uiQ # <<>> /\ uiQ' = Tail(uiQ)
  /\ LET s == Head(uiQ) IN
     CASE s.name = "reduced" ->
            /\ ui' = IF Concerns(s) THEN [ui EXCEPT !.reduced = s.gain] ELSE ui
            /\ missed' = (missed \/ ~Concerns(s))
            /\ UNCHANGED <<open, ioQ, lowest>>
       [] s.name = "calibrated" /\ Concerns(s) ->
            \* The setup may have changed, or the settings not be writable.
            /\ \E saves \in BOOLEAN :
                 /\ ui' = IF saves THEN [ui EXCEPT !.run = "no", !.saved = s.gain, !.reduced = s.gain]
                          ELSE [ui EXCEPT !.run = "no"]
                 /\ lowest' = IF saves THEN s.gain ELSE lowest
                 /\ missed' = (missed /\ ~saves)
            /\ UNCHANGED <<open, ioQ>>
       [] s.name = "ended" /\ Concerns(s) ->
            IF s.kind = "sstv" /\ ui.run = "sstv" THEN EndsSstv(TRUE) /\ UNCHANGED history
            ELSE ui' = [ui EXCEPT !.run = "no"] /\ UNCHANGED <<open, ioQ, history>>
       [] OTHER -> UNCHANGED <<ui, open, ioQ, history>>
  /\ UNCHANGED <<guard, gain, lowering, age, tx, steady>>

Next ==
  \/ Pass \/ Tick \/ audioAccepted \/ (\E r \in Readings : Meter(r)) \/ Reduce \/ IoTakes
  \/ (\E kind \in Kinds, ack \in BOOLEAN : Starts(kind, ack))
  \/ (\E closes \in BOOLEAN : StopSstv(closes))
  \/ CancelCalibration \/ FtFinishes \/ UiTakes

Spec == Init /\ [][Next]_vars

(***************************************************************************)
(* Properties                                                              *)
(***************************************************************************)
Told == ~\E i \in DOMAIN uiQ : uiQ[i].name = "reduced"

\* A transmission never has a higher level than the one reductions have brought
\* it to since the last calibration, also not after a restart: once MainWindow
\* has heard of them (DigitalTxGuard::begin and meter, startFt8Transmit).
NeverRestored == Active /\ ~Calibrating /\ Told /\ ~missed => gain <= lowest

\* A calibrated level was held unchanged, with good readings only, for as long
\* as the policy asks for (DigitalTxGuard::meter, Calibrated).
Proven == \A i \in DOMAIN uiQ' : i > Len(uiQ) /\ uiQ'[i].name = "calibrated" => steady >= T.stable

\* A reading that arrives when the last one is too old does not revive the
\* transmission, whether the watchdog or the reading is first.
NotRevived == Active /\ Active' /\ guard'.gen = guard.gen /\ age'.meter < age.meter => age.meter < T.meter

=============================================================================
