----------------------------- MODULE RadioSettings -----------------------------
(***************************************************************************)
(* The K4's settings that RadioState copies.  A setting's row says how its *)
(* command's code is stored, what reset() and updateConnectionState make   *)
(* of it and how MainWindow sets it.  A code carries a second part, sent   *)
(* along with the first, where tens = 10: code = level * 10 + flag.        *)
(***************************************************************************)
EXTENDS Integers, Sequences, TLC

Bounded(low, v, high) == IF v < low THEN low ELSE IF v > high THEN high ELSE v

(***************************************************************************)
(* How MainWindow sets a value.                                            *)
(*   By detents, from the copy: "step"; "power", the side panel's, and        *)
(*   "midi", the encoder's, each with its own rounding; "cut", which writes  *)
(*   the second part as 0; "nudge", with commands that move the K4 one step, *)
(*   and "slip", the same without a change of the copy.                      *)
(*   To a value of the operator's: "choose"; "fader", whose value has a      *)
(*   fraction that the command drops; "parse", through parseCATCommand;      *)
(*   "ask", with a query behind it; "confirm", the query after 250 ms;       *)
(*   "later" and "zoom", the copy at once and the command after the last     *)
(*   change; "local", the widget but not the copy; "blind", neither.         *)
(***************************************************************************)
Dial(how, low, high) ==
  [how |-> how, by |-> 1, low |-> low, high |-> high, floor |-> -999, ends |-> <<low, high>>]
Step(by, low, high) == [Dial("step", low, high) EXCEPT !.by = by]
Slide(by, low, high) == [Step(by, low, high) EXCEPT !.floor = low]

\* A setting that is stored as its code and set on the K4's panel only; the
\* members are -1 until the K4 has told.
Plain(codes) ==
  [codes |-> codes, low |-> -999, high |-> 99999, clamps |-> FALSE, unit |-> 1, tens |-> 1,
   reset |-> -1, keeps |-> FALSE, clears |-> <<>>, signal |-> "change", guarded |-> FALSE,
   dials |-> {}]
Level(low, high) == [Plain({low, high}) EXCEPT !.low = low, !.high = high]
Shown(row, v) == [row EXCEPT !.clears = <<v>>]
Flag == [Plain({0, 1}) EXCEPT !.reset = 0]
With(row, dials) == [row EXCEPT !.dials = dials]
Blind(low, high) == {Dial("blind", low, high)}
Always(row) == [row EXCEPT !.signal = "always"]
Pair(row) == [row EXCEPT !.tens = 10, !.codes = {v * 10 + b : v \in @, b \in {0, 1}}, !.reset = @ * 10]

Both(name, row) == (name :> row) @@ (name \o "B" :> row)

(***************************************************************************)
(* The settings                                                            *)
(***************************************************************************)
Tune == [Plain({7, 14}) EXCEPT !.reset = 0, !.clears = <<0>>,
           !.dials = {[Dial("parse", 7, 21) EXCEPT !.ends = <<9>>], [Dial("ask", 7, 21) EXCEPT !.ends = <<21>>]}]
VfoRows ==
  ("frequency" :> Always(Tune)) @@ ("frequencyB" :> Tune)
  @@ ("split" :> Shown(Flag, 0))
  @@ Both("mode", [Level(1, 9) EXCEPT !.reset = 0, !.clears = <<0>>,
                     !.dials = {[Dial("parse", 1, 9) EXCEPT !.ends = <<6>>]} \cup Blind(1, 9)])

FilterRows ==
  Both("filterBandwidth",
       With([Shown(Plain({40, 270}), 0) EXCEPT !.unit = 10],
            {Step(50, 50, 5000), Step(50, 150, 800), Slide(10, 50, 200)}))
  @@ Both("ifShift", With(Shown(Plain({50, 150}), 50),
                          {Step(1, 30, 300), Slide(1, 30, 200), Dial("choose", 30, 300)}))
  @@ ("cwPitch" :> With([Shown(Level(25, 95), 0) EXCEPT !.unit = 10], {Step(10, 300, 990)}))
  @@ Both("filterPosition", With(Shown(Level(1, 3), 1), {Dial("parse", 1, 3)}))

GainRows ==
  Both("squelch", With(Shown(Plain({0, 29}), 0), {Step(1, 0, 29)}))
  @@ ("micGain" :> With(Shown(Plain({0, 40}), 0), {Step(1, 0, 80)}))
  @@ ("compression" :> With(Shown(Plain({0, 30}), 0), {Step(1, 0, 30)}))
  @@ ("monitorLevel" :> Level(0, 100))
  @@ ("balance" :> [Level(-50, 50) EXCEPT !.reset = -99, !.clamps = TRUE])
  @@ ("audioMix" :> Level(0, 15))
  @@ ("keyerSpeed" :> With(Shown(Plain({8, 50}), 0), {Step(1, 8, 50), Slide(1, 8, 40)}))

\* In tenths of a watt; PCnnnL up to ten watts, PCnnnH in whole watts above.
PowerRows ==
  "rfPower" :> With([Shown(Plain({100, 120}), 0) EXCEPT !.reset = -10],
                    {Dial("power", 1, 1100), Dial("midi", 1, 1100), Dial("choose", 10, 1100),
                     [Dial("fader", 1, 1100) EXCEPT !.ends = <<53>>]})

MeterRows ==
  ("sMeter" :> Always(Shown(Flag, 0))) @@ ("sMeterB" :> Always(Shown(Flag, 0)))
  @@ ("powerMeter" :> Always(Shown(Flag, 0))) @@ ("txMeters" :> Always(Shown(Flag, 0)))

\* Level and switch; the noise blanker's level is cut at 15.
Processing(low, high, d) == Always(Shown([Pair(With(Level(low, high), d)) EXCEPT !.reset = 0], 0))
Blanker == [Processing(0, 15, {Step(1, 0, 15)}) EXCEPT !.clamps = TRUE, !.codes = {51, 161}]
BlankerRows == Both("noiseBlanker", Blanker)
ReductionRows ==
  Both("noiseReduction", Processing(0, 99, {Step(1, 0, 10)}))
  @@ Both("ssnr", Processing(0, 99, {Step(1, 0, 20)}))
AmplifierRows ==
  Both("preamp", Processing(0, 3, {}))
  @@ Both("attenuator", [Processing(0, 21, {[Dial(how, 0, 21) EXCEPT !.by = 3] : how \in {"nudge", "slip"}})
                          EXCEPT !.codes = {0, 31}])
  @@ Both("agc", Always([Shown(With(Level(0, 2), Blind(0, 2)), 1) EXCEPT !.reset = 1]))
NotchRows ==
  Both("autoNotch", Shown(Flag, 0))
  @@ Both("manualNotch",
          [Shown(Pair(With(Level(150, 5000), {Step(10, 150, 5000), Slide(10, 150, 5000)})), 10000)
             EXCEPT !.reset = 10000, !.codes = {1501, 10000}])

EffectRows ==
  ("afxMode" :> [With(Level(0, 2), Blind(0, 2)) EXCEPT !.reset = 0])
  @@ Both("apf", [Shown(With(Level(0, 12), Blind(0, 12)), 0) EXCEPT !.reset = 0])
  @@ ("vfoLink" :> With(Flag, Blind(0, 1))) @@ Both("lock", Shown(Flag, 0))
  @@ Both("tuningStep", With([Shown(Level(0, 5), 0) EXCEPT !.clamps = TRUE],
                             {[Dial("parse", 0, 4) EXCEPT !.ends = <<2, 3>>]}))

VoxRows ==
  ("vox" :> With(Shown(Flag, 0), Blind(0, 1)))
  @@ ("voxGain" :> With(Level(0, 60), {Dial("choose", 0, 60)}))
  @@ ("antiVox" :> With(Level(0, 60), {Dial("choose", 0, 60)}))

\* Outside reset(): the copy lives as long as the program.
FmRows ==
  Both("plTone", [Pair(With(Level(1, 50), {Dial("confirm", 1, 50)}))
                    EXCEPT !.keeps = TRUE, !.codes = {80, 81}, !.reset = 80])
  @@ ("dataTxBandwidth" :> [With(Level(20, 40), {Dial("parse", 20, 40)}) EXCEPT !.keeps = TRUE, !.reset = 28])
  @@ ("repeater" :> [With(Level(0, 99999), {Dial("parse", 0, 600)})
                       EXCEPT !.keeps = TRUE, !.reset = 0, !.codes = {0, 600}])

LineRows ==
  ("lineOut" :> Pair(With(Level(0, 40), Blind(0, 40))))
  @@ ("lineIn" :> Pair(With(Level(0, 250), {Dial("choose", 0, 250)})))
  @@ ("micInput" :> With(Level(0, 4), {Dial("choose", 0, 4)}))
  @@ ("micSetup" :> With(Level(0, 2), {Dial("choose", 0, 2)}))

\* setSsbTxBw bounds to 30..45, and the popup sends 24..28 too.
EssbRows ==
  "essb" :> Pair(With(Level(24, 45), {[Dial("choose", 30, 45) EXCEPT !.ends = <<26, 40>>]}))

\* The delay of the operating mode, with the QSK flag that CW has.  The side
\* panel writes the flag as 0 along with the delay, and keeps it in the copy.
DelayRows ==
  "delay" :> Pair(With(Shown(Plain({0, 20}), 0), {[Slide(1, 0, 255) EXCEPT !.how = "cut"]}))
SwitchRows ==
  ("subRx" :> Always(Shown(Flag, 0))) @@ ("diversity" :> Shown(Flag, 0))
  @@ ("testMode" :> Shown(Flag, 0)) @@ ("bSet" :> Shown(Flag, 0))

AntennaRows ==
  ("antenna" :> Shown(Level(1, 6), -1))
  @@ Both("receiveAntenna", Shown(Level(0, 7), -1)) @@ ("atuMode" :> Shown(Level(0, 2), -1))
  @@ ("mainRxAntCfg" :> With(Flag, Blind(0, 1)))
  @@ ("subRxAntCfg" :> With(Flag, Blind(0, 1)))
  @@ ("txAntCfg" :> With(Flag, Blind(0, 1)))

\* The wheels, the KPOD and MIDI move the offset with RU and RD, which leave the
\* copy as it was; MIDI turns RIT on first, its copy included.
OffsetRows ==
  Both("rit", With(Shown(Flag, 0), {[Dial("parse", 0, 1) EXCEPT !.ends = <<1>>]}))
  @@ ("xit" :> Shown(Flag, 0))
  @@ Both("ritXitOffset",
          With([Shown(Level(-9999, 9999), 0) EXCEPT !.reset = 0, !.codes = {-10, 20}],
               {Dial("parse", -10, 10), Dial("ask", -10, 10),
                [Dial("slip", -9999, 9999) EXCEPT !.by = 10]}))

TextRows ==
  Both("textDecodeMode", With(Plain({0, 4}), Blind(0, 4)))
  @@ Both("textDecodeLines", With(Level(1, 9), Blind(1, 9)))

DataRows ==
  Both("dataSubMode", With([Level(0, 3) EXCEPT !.guarded = TRUE], {Dial("choose", 0, 3)}))

EqRows ==
  ("rxEq" :> [With(Level(-16, 16), {Dial("later", -16, 16)}) EXCEPT !.reset = 0, !.codes = {-16, 5}])
  @@ ("txEq" :> [With(Level(-16, 16), {Dial("later", -16, 16)}) EXCEPT !.reset = 0, !.codes = {-16, 5}])

StatusRows ==
  ("supplyVoltage" :> [Plain({12, 14}) EXCEPT !.reset = 0, !.clears = <<0>>])
  @@ ("supplyCurrent" :> [Plain({1, 2}) EXCEPT !.reset = 0, !.clears = <<0>>])
  @@ ("paTemperature" :> [Plain({30, 40}) EXCEPT !.keeps = TRUE, !.clears = <<-1>>])
  @@ ("lpaTemperature" :> [Plain({30, 40}) EXCEPT !.keeps = TRUE, !.clears = <<-1>>])
  @@ ("messageBank" :> Shown(Level(1, 4), 1))

PanadapterRows ==
  Both("refLevel", [With(Plain({-110, -90}), {Step(1, -200, 60), [Dial("local", -140, 10) EXCEPT !.ends = <<-100>>]})
                         EXCEPT !.reset = -110])
  @@ ("scale" :> With(Level(10, 150), {[Dial("choose", 10, 150) EXCEPT !.ends = <<74, 76>>]}))
  @@ Both("span", [With(Plain({5000, 10000}), {Dial(how, 5000, 368000) : how \in {"choose", "zoom"}}) EXCEPT !.reset = 0])
  @@ Both("miniPan", With(Flag, {Dial("choose", 0, 1)}))

DisplayRows ==
  ("dualPanModeLcd" :> With(Level(0, 2), Blind(0, 2))) @@ ("dualPanModeExt" :> With(Level(0, 2), Blind(0, 2)))
  @@ ("displayModeLcd" :> With(Level(0, 1), Blind(0, 1))) @@ ("displayModeExt" :> With(Level(0, 1), Blind(0, 1)))
  @@ ("displayFps" :> [With(Level(12, 30), Blind(12, 30)) EXCEPT !.reset = 30])
  @@ ("waterfallColor" :> Level(0, 4))
  @@ ("waterfallHeight" :> [With(Level(0, 100), {Step(1, 10, 90)}) EXCEPT !.reset = 50, !.codes = {30, 50}])
  @@ ("waterfallHeightExt" :> [With(Level(0, 100), {Step(1, 10, 90)}) EXCEPT !.reset = 50, !.codes = {30, 50}])
  @@ ("averaging" :> With(Level(1, 20), {Step(1, 1, 20)}))
CursorRows ==
  ("peakMode" :> Level(0, 1)) @@ ("fixedTune" :> With(Level(0, 1), Blind(0, 1)))
  @@ ("fixedTuneMode" :> With(Level(0, 4), Blind(0, 4))) @@ ("freeze" :> With(Level(0, 1), Blind(0, 1)))
  @@ ("vfoACursor" :> Level(0, 3)) @@ ("vfoBCursor" :> Level(0, 3))
  @@ ("autoRefLevel" :> Level(0, 1))
  @@ ("ddcNbMode" :> With(Level(0, 2), {Dial("parse", 0, 2)}))
  @@ ("ddcNbLevel" :> With(Level(0, 14), {Dial("parse", 0, 14)}))

Rows ==
  VfoRows @@ FilterRows @@ GainRows @@ PowerRows @@ MeterRows @@ BlankerRows @@ ReductionRows
  @@ AmplifierRows @@ NotchRows @@ EffectRows @@ VoxRows @@ FmRows @@ LineRows @@ EssbRows
  @@ DelayRows @@ SwitchRows @@ AntennaRows @@ OffsetRows @@ TextRows @@ DataRows @@ EqRows
  @@ StatusRows @@ PanadapterRows @@ DisplayRows @@ CursorRows

(***************************************************************************)
(* What keeps a copy true, whatever the settings are: its values are whole *)
(* units, what a dial sends is in its range and, where it carries a second *)
(* part, in the handler's; and a row whose widget is cleared to another    *)
(* value than the copy is reset to ("Awaited") is told of it by any code.  *)
(***************************************************************************)
Awaited(r) == ~r.keeps /\ r.clears # <<>> /\ r.clears[1] # r.reset
Nudged(r) == \E d \in r.dials : d.how \in {"nudge", "slip"}

\* The dials that set the copy, too.
Setters == {"step", "power", "midi", "cut", "choose", "fader", "parse"}
Hows == Setters \cup {"nudge", "slip", "ask", "confirm", "later", "zoom", "local", "blind"}

SaneDial(r, d) ==
  /\ d.how \in Hows
  /\ {d.low, d.high, d.by, d.floor} \subseteq Int /\ d.low <= d.high /\ d.by >= 0
  /\ \A i \in DOMAIN d.ends : \/ d.ends[i] \in d.low..d.high
                              \/ d.how = "choose" /\ d.ends[i] \in r.low..r.high
  /\ r.clamps \/ r.tens = 10 => r.low <= d.low /\ d.high <= r.high
  /\ r.unit = 10 => /\ d.how = "step" /\ d.low % 10 = 0 /\ d.high % 10 = 0 /\ d.by % 10 = 0
                    /\ r.reset % 10 = 0 \/ r.reset + d.by <= d.low
                    /\ d.floor % 10 = 0 \/ d.floor + d.by <= d.low
  /\ d.how \in {"power", "midi"} => r.tens = 1 /\ d.low <= 1 /\ d.high >= 1100
  /\ d.how = "parse" => r.tens = 1 /\ ~r.guarded
  /\ d.how \in {"later", "zoom"} => r.tens = 1 /\ ~r.clamps
  /\ d.how \in {"nudge", "cut"} => r.tens = 10 /\ ~r.clamps
  /\ d.how = "nudge" \/ (d.how = "blind" /\ r.tens = 10) => ~r.clamps /\ d.low = r.low /\ d.high = r.high
  /\ d.how = "local" => r.clears = <<>> /\ ~r.keeps
  /\ Awaited(r) => /\ d.how \in Setters /\ r.reset \div r.tens \notin d.low..d.high
                   /\ d.how = "parse" => r.low <= d.low /\ d.high <= r.high

SaneCode(r, c) ==
  /\ c \in Int
  /\ r.tens = 10 /\ ~r.clamps => c \div 10 \in r.low..r.high
  /\ Awaited(r) => IF r.clamps THEN Bounded(r.low, c, r.high) # r.reset
                   ELSE c \div r.tens \in r.low..r.high /\ c * r.unit # r.reset

Sane(r) ==
  /\ r.tens \in {1, 10} /\ r.unit \in {1, 10} /\ (r.unit = 10 => r.tens = 1 /\ ~r.clamps)
  /\ {r.low, r.high, r.reset} \subseteq Int /\ r.low <= r.high
  /\ {r.clamps, r.keeps, r.guarded} \subseteq BOOLEAN
  /\ r.clears = <<>> \/ r.clears[1] \in Int
  /\ Awaited(r) => ~r.guarded /\ (r.clamps => r.tens = 1)
  /\ \A d \in r.dials : SaneDial(r, d)
  /\ \A c \in r.codes : SaneCode(r, c)

================================================================================
