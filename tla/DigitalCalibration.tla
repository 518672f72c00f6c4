-------------------------- MODULE DigitalCalibration --------------------------
(***************************************************************************)
(* Calibrating the program-audio level: MainWindow (ui), TcpClient (io) and *)
(* the K4, whose TEST setting is read, switched on, confirmed and put back. *)
(* Calls and signals between the threads are queued, CAT commands and their *)
(* answers arrive in order, and each answer may be late: a deadline passes  *)
(* whenever the phase it belongs to lasts.                                  *)
(*                                                                          *)
(* The level itself, its meters and how it is saved are left out: a running *)
(* calibration ends at any time.  A connection that is lost stays lost.     *)
(***************************************************************************)
EXTENDS Naturals, Sequences

CONSTANTS
  MaxTries,    \* bound: calibrations started
  MaxCancels,  \* bound: STOP, Back or the app in the background
  MaxTouches   \* bound: the operator switches TEST at the radio

VARIABLES
  ui,       \* m_digitalCalibrating, ...Started and ...Generation; whether
            \* "verify TEST" is or was on the screen
  audio,    \* the generation AudioEngine is asked to prepare, or 0
  io,       \* m_calibrationPhase, ...Generation and m_restoreTest
  up,       \* connected
  ioQ, uiQ, \* calls and signals queued to the two threads
  k4,       \* TEST, and transmitting
  cat, answers, \* commands and answers under way
  original, \* history: TEST before the first calibration
  mixed,    \* history: a calibration began among the answers to an earlier one
  left      \* the cancels and touches the bounds still allow

vars == <<ui, audio, io, up, ioQ, uiQ, k4, cat, answers, original, mixed, left>>
link == <<k4, cat, answers>>
history == <<original, mixed, left>>

Call(name, gen) == [name |-> name, gen |-> gen, verify |-> FALSE]
Finished(gen, verify) == [name |-> "finished", gen |-> gen, verify |-> verify]
Spends(what) == left[what] > 0 /\ left' = [left EXCEPT ![what] = @ - 1]

Init ==
  /\ ui = [calibrating |-> FALSE, started |-> FALSE, gen |-> 0, verify |-> FALSE]
  /\ audio = 0
  /\ io = [phase |-> "None", gen |-> 0, restore |-> FALSE]
  /\ up = TRUE
  /\ ioQ = <<>> /\ uiQ = <<>>
  /\ original \in BOOLEAN /\ k4 = [test |-> original, tx |-> FALSE]
  /\ cat = <<>> /\ answers = <<>>
  /\ mixed = FALSE
  /\ left = [cancel |-> MaxCancels, touch |-> MaxTouches]

(***************************************************************************)
(* MainWindow                                                              *)
(***************************************************************************)
StartDigitalCalibration ==
  /\ up /\ ~ui.calibrating /\ ui.gen < MaxTries
  /\ ui' = [ui EXCEPT !.calibrating = TRUE, !.started = FALSE, !.gen = @ + 1]
  /\ audio' = ui'.gen
  /\ UNCHANGED <<io, up, ioQ, uiQ, link, history>>

\* prepareDigitalCalibration; another transmission may be in the way.
AudioPrepares ==
  /\ audio # 0 /\ audio' = 0
  /\ \E name \in {"prepared", "preparationFailed"} : uiQ' = Append(uiQ, Call(name, audio))
  /\ UNCHANGED <<ui, io, up, ioQ, link, history>>

\* Once the I/O thread has been asked to begin, its verdict ends the calibration.
Cancelled == IF ui.started THEN ui ELSE [ui EXCEPT !.calibrating = FALSE]
CancelDigitalCalibration ==
  /\ ui.calibrating /\ Spends("cancel")
  /\ ui' = Cancelled /\ ioQ' = Append(ioQ, Call("cancel", 0))
  /\ UNCHANGED <<audio, io, up, uiQ, link, original, mixed>>

Mine(signal) == ui.calibrating /\ signal.gen = ui.gen
UiHandles ==
  /\ uiQ # <<>> /\ uiQ' = Tail(uiQ)
  /\ LET signal == Head(uiQ) IN
     CASE ~Mine(signal) -> UNCHANGED <<ui, ioQ>>
       [] Mine(signal) /\ signal.name = "prepared" ->
            ui' = [ui EXCEPT !.started = TRUE] /\ ioQ' = Append(ioQ, Call("begin", signal.gen))
       [] Mine(signal) /\ signal.name = "preparationFailed" ->
            ui' = Cancelled /\ ioQ' = Append(ioQ, Call("cancel", 0))
       [] Mine(signal) /\ signal.name = "finished" ->
            /\ ui' = [ui EXCEPT !.calibrating = FALSE, !.verify = @ \/ signal.verify]
            /\ UNCHANGED ioQ
  /\ UNCHANGED <<audio, io, up, link, history>>

(***************************************************************************)
(* TcpClient                                                               *)
(***************************************************************************)
Complete(verify) ==
  /\ io' = [io EXCEPT !.phase = "None"]
  /\ uiQ' = Append(uiQ, Finished(io.gen, verify))

\* RX goes out before TEST is put back.
M_Closing == IF io.restore THEN <<"TS0", "TS", "RX">> ELSE <<"RX">>   \* mutant: RX last
Closing == <<"RX">> \o IF io.restore THEN <<"TS0", "TS">> ELSE <<>>
FinishDigitalCalibration ==
  /\ cat' = cat \o Closing
  /\ IF io.restore THEN io' = [io EXCEPT !.phase = "RestoreTest"] /\ UNCHANGED uiQ
                   ELSE Complete(FALSE)

IoTakes(name) == ioQ # <<>> /\ Head(ioQ).name = name /\ ioQ' = Tail(ioQ)
IoRest == UNCHANGED <<ui, audio, up, original, left>>

BeginDigitalCalibration ==
  /\ IoTakes("begin") /\ IoRest /\ UNCHANGED <<k4, answers>>
  /\ LET gen == Head(ioQ).gen IN
     IF up /\ io.phase = "None"
     THEN /\ io' = [phase |-> "ReadTest", gen |-> gen, restore |-> FALSE]
          /\ cat' = Append(cat, "TS") /\ UNCHANGED uiQ
          /\ mixed' = (mixed \/ cat # <<>> \/ answers # <<>>)
     ELSE uiQ' = Append(uiQ, Finished(gen, FALSE)) /\ UNCHANGED <<io, cat, mixed>>

IoCancels ==
  /\ IoTakes("cancel") /\ IoRest /\ UNCHANGED <<k4, answers, mixed>>
  /\ IF io.phase \in {"None", "RestoreTest"} THEN UNCHANGED <<io, cat, uiQ>>
     ELSE FinishDigitalCalibration

MayKey(answer) == io.phase = "EnableTest" /\ answer = "TS1"
Read(answer) == [io EXCEPT !.phase = "EnableTest", !.restore = (answer = "TS0")]
OnCatResponse ==
  /\ answers # <<>> /\ answers' = Tail(answers) /\ IoRest /\ UNCHANGED <<ioQ, k4, mixed>>
  /\ LET answer == Head(answers) IN
     \/ /\ io.phase = "ReadTest"
        /\ io' = Read(answer) /\ cat' = cat \o <<"TS1", "TS">> /\ UNCHANGED uiQ
     \/ /\ MayKey(answer)
        /\ \/ io' = [io EXCEPT !.phase = "Running"] /\ cat' = Append(cat, "TX") /\ UNCHANGED uiQ
           \/ FinishDigitalCalibration                     \* the guard refuses
     \/ io.phase = "Running" /\ answer = "TS0" /\ FinishDigitalCalibration
     \/ io.phase = "RestoreTest" /\ answer = "TS0" /\ Complete(FALSE) /\ UNCHANGED cat
     \/ /\ io.phase # "ReadTest" /\ ~MayKey(answer)
        /\ ~(io.phase \in {"Running", "RestoreTest"} /\ answer = "TS0")
        /\ UNCHANGED <<io, cat, uiQ>>

\* The guard has found a level, or trips, by its own limits at the latest.
GuardEnds ==
  /\ io.phase = "Running" /\ IoRest /\ UNCHANGED <<ioQ, k4, answers, mixed>>
  /\ FinishDigitalCalibration

DeadlinePasses ==
  /\ io.phase \in {"ReadTest", "EnableTest", "RestoreTest"}
  /\ IoRest /\ UNCHANGED <<ioQ, k4, answers, mixed>>
  /\ IF io.phase = "RestoreTest" THEN Complete(TRUE) /\ UNCHANGED cat ELSE FinishDigitalCalibration

\* The K4 receives when its client is gone.
Disconnected ==
  /\ up /\ up' = FALSE
  /\ cat' = <<>> /\ answers' = <<>> /\ k4' = [k4 EXCEPT !.tx = FALSE]
  /\ IF io.phase = "None" THEN UNCHANGED <<io, uiQ>> ELSE Complete(TRUE)
  /\ UNCHANGED <<ui, audio, ioQ, history>>

(***************************************************************************)
(* The K4                                                                  *)
(***************************************************************************)
K4Obeys ==
  /\ cat # <<>> /\ cat' = Tail(cat)
  /\ CASE Head(cat) = "TS" ->
            answers' = Append(answers, IF k4.test THEN "TS1" ELSE "TS0") /\ UNCHANGED k4
       [] Head(cat) \in {"TS0", "TS1"} ->
            k4' = [k4 EXCEPT !.test = (Head(cat) = "TS1")] /\ UNCHANGED answers
       [] Head(cat) \in {"RX", "TX"} ->
            k4' = [k4 EXCEPT !.tx = (Head(cat) = "TX")] /\ UNCHANGED answers
  /\ UNCHANGED <<ui, audio, io, up, ioQ, uiQ, history>>

\* TEST is switched at the radio, which says so.
Touched ==
  /\ up /\ Spends("touch")
  /\ k4' = [k4 EXCEPT !.test = ~@]
  /\ answers' = Append(answers, IF k4'.test THEN "TS1" ELSE "TS0")
  /\ UNCHANGED <<ui, audio, io, up, ioQ, uiQ, cat, original, mixed>>

Next ==
  \/ StartDigitalCalibration \/ AudioPrepares \/ CancelDigitalCalibration \/ UiHandles
  \/ BeginDigitalCalibration \/ IoCancels \/ OnCatResponse \/ GuardEnds \/ DeadlinePasses
  \/ Disconnected \/ K4Obeys \/ Touched
Spec == Init /\ [][Next]_vars

(***************************************************************************)
(* Properties                                                              *)
(***************************************************************************)
\* Every thread, queue and the link stay within their types; no phase of a
\* calibration runs without the connection.
TypeOK ==
  /\ ui \in [calibrating : BOOLEAN, started : BOOLEAN, gen : 0 .. MaxTries, verify : BOOLEAN]
  /\ audio \in 0 .. MaxTries /\ up \in BOOLEAN
  /\ io \in [phase : {"None", "ReadTest", "EnableTest", "Running", "RestoreTest"},
             gen : 0 .. MaxTries, restore : BOOLEAN]
  /\ io.phase # "None" => up /\ io.gen # 0
  /\ uiQ \in Seq([name : {"prepared", "preparationFailed", "finished"},
                  gen : 1 .. MaxTries, verify : BOOLEAN])
  /\ ioQ \in Seq([name : {"begin", "cancel"}, gen : 0 .. MaxTries, verify : {FALSE}])
  /\ k4 \in [test : BOOLEAN, tx : BOOLEAN] /\ original \in BOOLEAN /\ mixed \in BOOLEAN
  /\ cat \in Seq({"TS", "TS0", "TS1", "RX", "TX"}) /\ answers \in Seq({"TS0", "TS1"})
  /\ left \in [cancel : 0 .. MaxCancels, touch : 0 .. MaxTouches]

(* "RX precedes restoration; no tone can reach normal TX": the K4 transmits   *)
(* only in TEST, through every order of answers, cancels and deadlines,       *)
(* unless the operator switches TEST off at the radio.                        *)
Untouched == left.touch = MaxTouches
ToneInTest == k4.tx /\ Untouched => k4.test

(* When everything has come to rest, TEST is what it was before the           *)
(* calibrations, or the screen said to verify it.  Excepted are calibrations  *)
(* begun while answers to an earlier one are under way (mixed): onCatResponse *)
(* does not tell those from its own.                                          *)
AtRest == ~ui.calibrating /\ audio = 0 /\ ioQ = <<>> /\ uiQ = <<>> /\ io.phase = "None" /\ cat = <<>>
RestoredOrTold == k4.test = original \/ ui.verify
TestRestored == AtRest /\ Untouched /\ ~mixed => RestoredOrTold

=============================================================================
