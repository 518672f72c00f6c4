------------------------------ MODULE SlotProofs ------------------------------
(***************************************************************************)
(* Proofs about Ft8Slot as a part of MCDevices, for every value of its     *)
(* constants: a transmission nothing holds up starts in time, ends within  *)
(* its slot and reports done.                                              *)
(***************************************************************************)
EXTENDS MCDevices, CallQueues

----------------------------------------------------------------------------
(***************************************************************************)
(* A transmit slot.  Ft8Slot's names in the variables: now is ui, tx       *)
(* capture, open mode, ioQ generation, auQ pending, line screen, max       *)
(* posted, lag worker, stall taking.                                       *)
(***************************************************************************)
TxRecords ==
  [phase : {"Idle", "Waiting", "Keying", "Audio", "Drain", "Unkeying"}, start : Nat, keyRequest : Nat, keyed : Nat,
   emitted : 0 .. SlotWave, drain : Nat, result : {"none", "done", "failed"}]
IoRecords ==
  [gate : BOOLEAN, started : Nat, lastAudio : Nat, watch : Nat, drainBy : Nat, pending : 0 .. S!Backlog + 1,
   complete : BOOLEAN, trip : {"none", "stream", "cancelled", "stalled", "drain"}]
LineRecords == [keyed : Nat, first : Nat, last : Nat]
IoCalls == {"key", "frame", "final", "unkey"}
AuCalls == {"keyed", "accepted", "unkeyed", "cancel"}

HasKey == Has(generation, {"key"})
HasFrame == Has(generation, {"frame", "final"})
HasKeyed == Has(pending, {"keyed"})

SlotTypes ==
  /\ ui \in Nat \ {0} /\ mode \in BOOLEAN /\ posted \in SlotDelays /\ worker \in 0 .. posted.lag /\ taking \in 0 .. posted.stall
  /\ capture \in TxRecords /\ io \in IoRecords /\ screen \in LineRecords
  /\ generation \in Seq(IoCalls) /\ pending \in Seq(AuCalls)
  /\ capture.start = SlotStart + SlotOffset

\* The transmitter is told of TX after it was written, and TX is asked for once.
KeyOrder ==
  /\ Once(generation, {"key"})
  /\ capture.phase = "Waiting" => ~HasKey /\ ~HasKeyed /\ screen.keyed = 0 /\ capture.keyed = 0
  /\ HasKey => ~HasKeyed /\ screen.keyed = 0 /\ capture.keyed = 0
  /\ screen.keyed <= ui /\ capture.keyed <= ui
  /\ capture.keyed # 0 => screen.keyed <= capture.keyed
  /\ HasFrame \/ screen.first # 0 \/ screen.last # 0 \/ capture.phase \in {"Audio", "Drain", "Unkeying"}
       => capture.keyed # 0 /\ ui >= capture.keyed + 50
  /\ capture.phase \in {"Waiting", "Keying"} => ~HasFrame /\ screen.first = 0 /\ screen.last = 0
  /\ screen.first # 0 => screen.first >= capture.keyed + 50
  /\ screen.last # 0 => screen.first # 0

\* The watchdog is due soon after the deadline of the stream, and late by the delay only.
Deadline == IF screen.last = 0 THEN screen.keyed + 120 ELSE screen.last + 40
Watching ==
  /\ io.gate <=> screen.keyed # 0
  /\ io.lastAudio = screen.last
  /\ io.gate => /\ io.started = screen.keyed /\ io.watch # 0
                /\ io.watch <= ui + 5 /\ io.watch <= Deadline + 5
                /\ ui <= io.watch + (posted.lag - worker)

\* A packet is due before the end of the waveform, and late by the delay only.
Paced ==
  /\ capture.phase = "Audio" => capture.emitted < SlotWave /\ ui + worker <= capture.start + capture.emitted + posted.lag
  /\ HasFrame => ui + worker <= capture.start + SlotWave - 1 + posted.lag
  /\ screen.last # 0 => screen.last <= capture.start + SlotWave - 1 + posted.lag

(* A transmission that is punctual goes through these stages. *)
Silent == ~io.gate /\ io.watch = 0 /\ io.drainBy = 0
Asleep == Silent /\ io.lastAudio = 0 /\ io.pending = 0 /\ capture.keyed = 0 /\ capture.drain = 0
Requested == capture.keyRequest >= capture.start - 60
OnAir == io.gate /\ mode /\ capture.result = "none"
NoAudio == io.lastAudio = 0 /\ io.pending = 0 /\ io.drainBy = 0
           /\ io.started >= capture.keyRequest /\ io.started <= ui /\ capture.drain = 0
Calm(q, a) == generation = q /\ pending = a

WaitsForSlot ==
  /\ capture.phase = "Waiting" /\ capture.result = "none" /\ Calm(<<>>, <<>>) /\ Asleep
  /\ ui + worker < SlotStart + S!LatestStart
AsksForKey ==
  /\ capture.phase = "Keying" /\ capture.result = "none" /\ Calm(<<"key">>, <<>>) /\ Asleep /\ Requested
  /\ ui + worker <= capture.keyRequest + 3 /\ ui + worker <= capture.start + SlotWave - 61 /\ ui >= capture.keyRequest
KeyIsDown ==
  /\ capture.phase = "Keying" /\ Calm(<<>>, <<"keyed">>) /\ OnAir /\ NoAudio /\ Requested /\ capture.keyed = 0
  /\ ui + worker <= capture.keyRequest + 3 /\ ui + worker <= capture.start + SlotWave - 61
KeyRises ==
  /\ capture.phase = "Keying" /\ Calm(<<>>, <<>>) /\ OnAir /\ NoAudio /\ Requested /\ capture.keyed # 0
  /\ capture.keyed <= capture.keyRequest + 3 /\ capture.keyed <= capture.start + SlotWave - 61
  /\ ui + worker <= S!Larger(capture.start, capture.keyed + 50) + 3

\* How many packets the socket can hold, the last of them due at "at".
Held(at) == io.pending > 0 => ui + (io.pending - 1) * SlotFrame <= at + posted.lag + (posted.stall - taking)
\* A packet due at "at" is on its way to the socket.
OnItsWay(at) ==
  /\ ui >= at /\ ui + worker <= at + posted.lag
  /\ IF io.lastAudio = 0 THEN io.pending = 0 /\ ui + worker <= io.started + 63
     ELSE at - SlotFrame <= io.lastAudio /\ io.lastAudio <= ui /\ Held(at - SlotFrame)
Going ==
  /\ capture.phase = "Audio" /\ pending = <<>> /\ OnAir /\ io.drainBy = 0 /\ capture.drain = 0 /\ capture.emitted < SlotWave
Last(at) == at = capture.start + capture.emitted - SlotFrame
FrameLeaves == Going /\ generation = <<"frame">> /\ \E at \in Int : Last(at) /\ OnItsWay(at)
FrameWaits ==
  /\ Going /\ generation = <<>> /\ io.lastAudio # 0 /\ io.lastAudio <= ui
  /\ \E at \in Int : Last(at) /\ at <= io.lastAudio /\ Held(at) /\ ui + worker <= at + SlotFrame + posted.lag
Ends ==
  /\ capture.phase = "Drain" /\ Calm(<<"final">>, <<>>) /\ OnAir /\ io.drainBy = 0 /\ capture.drain = 0
  /\ \E at \in Int : at <= capture.start + SlotWave /\ OnItsWay(at)

Since == ui + worker - io.lastAudio
Drains ==
  /\ capture.phase = "Drain" /\ Calm(<<>>, <<>>) /\ OnAir /\ capture.drain = 0 /\ io.lastAudio # 0
  /\ io.drainBy = io.lastAudio + 50 /\ io.lastAudio <= capture.start + SlotWave + 3
  /\ Since <= 12 /\ ui >= io.lastAudio /\ (io.pending > 0 => ui - io.lastAudio <= posted.stall - taking)
HasDrained ==
  /\ capture.phase = "Drain" /\ Calm(<<>>, <<"accepted">>) /\ OnAir /\ capture.drain = 0 /\ io.lastAudio # 0
  /\ io.drainBy = 0 /\ io.lastAudio <= capture.start + SlotWave + 3 /\ Since <= 12 /\ ui >= io.lastAudio
RunsOut ==
  /\ OnAir /\ io.lastAudio # 0 /\ io.drainBy = 0 /\ pending = <<>> /\ capture.drain # 0 /\ capture.drain >= io.lastAudio
  /\ io.lastAudio <= capture.start + SlotWave + 3 /\ Since <= 27 + SlotFrame
  /\ \/ capture.phase = "Drain" /\ generation = <<>> /\ capture.drain + worker - io.lastAudio <= 27 + SlotFrame
     \/ capture.phase = "Unkeying" /\ generation = <<"unkey">>
KeyIsUp ==
  /\ capture.phase = "Unkeying" /\ capture.result = "none" /\ Silent /\ Calm(<<>>, <<"unkeyed">>)
  /\ ui + worker <= capture.drain + 27 + SlotFrame
IsDone == capture.phase = "Idle" /\ capture.result = "done" /\ Silent /\ Calm(<<>>, <<>>)

InTime ==
  \/ WaitsForSlot \/ AsksForKey \/ KeyIsDown \/ KeyRises \/ FrameLeaves \/ FrameWaits \/ Ends
  \/ Drains \/ HasDrained \/ RunsOut \/ KeyIsUp \/ IsDone

SlotSafe == SlotTypes /\ KeyOrder /\ Watching /\ Paced
SlotInv == SlotSafe /\ (S!Punctual => InTime)

----------------------------------------------------------------------------
(* Numbers, calls and records. *)
LEMMA SlotNumbers ==
  /\ S!Never = 0 /\ S!KeyLead = 60 /\ S!KeyUp = 50 /\ S!KeyLimit = 150 /\ S!FirstAudioLimit = 120 /\ S!StreamLimit = 40
  /\ S!WatchdogPeriod = 5 /\ S!DrainLimit = 50 /\ S!DrainGrace = 150 /\ S!UnkeyLimit = 200 /\ S!Backlog = 4
  BY DEF S!Never, S!KeyLead, S!KeyUp, S!KeyLimit, S!FirstAudioLimit, S!StreamLimit, S!WatchdogPeriod, S!DrainLimit,
         S!DrainGrace, S!UnkeyLimit, S!Backlog

LEMMA Extremes ==
  /\ \A a, b \in Int : S!Larger(a, b) \in {a, b} /\ S!Larger(a, b) >= a /\ S!Larger(a, b) >= b /\ S!Larger(a, b) \in Int
  /\ \A a, b \in Int : S!Smaller(a, b) \in {a, b} /\ S!Smaller(a, b) <= a /\ S!Smaller(a, b) <= b /\ S!Smaller(a, b) \in Int
  BY DEF S!Larger, S!Smaller

LEMMA SlotConstants ==
  /\ SlotStart \in Nat /\ SlotOffset \in Nat /\ SlotWave \in Nat /\ SlotWave > 5 /\ SlotFrame \in {2, 4, 6, 12}
  /\ S!LatestStart \in Int /\ S!LatestStart <= SlotOffset + SlotWave - 60
  /\ SlotOffset - 57 < S!LatestStart
  /\ \A d \in SlotDelays : d.lag \in Nat /\ d.stall \in Nat /\ d.lag <= S!Larger(8, SlotFrame)
  /\ S!Larger(8, SlotFrame) \in {8, 12} /\ SlotFrame <= S!Larger(8, SlotFrame)
<1>1. /\ SlotStart \in Nat /\ SlotPeriod \in Nat /\ SlotOffset \in Nat /\ SlotWave \in Nat /\ SlotWave > 5 /\ SlotFrame \in {2, 4, 6, 12}
      /\ SlotOffset - 57 < (SlotPeriod * 3) \div 4
  BY SlotBounds
<1>2. S!Larger(8, SlotFrame) \in {8, 12} /\ SlotFrame <= S!Larger(8, SlotFrame)
  BY <1>1 DEF S!Larger
<1>3. \A d \in SlotDelays : d.lag \in Nat /\ d.stall \in Nat /\ d.lag <= S!Larger(8, SlotFrame)
  BY <1>2, SlotBounds
<1>4. PICK a : a = (SlotPeriod * 3) \div 4
  OBVIOUS
<1>5. PICK b : b = SlotOffset + SlotWave - 60
  OBVIOUS
<1>6. a \in Int /\ b \in Int /\ S!LatestStart = S!Smaller(a, b)
  BY <1>1, <1>4, <1>5 DEF S!LatestStart
<1>7. S!LatestStart \in {a, b} /\ S!LatestStart <= b /\ S!LatestStart \in Int
  BY <1>6, Extremes
<1>8. SlotOffset - 57 < a /\ SlotOffset - 57 < b
  BY <1>1, <1>4, <1>5
<1> QED
  BY <1>1, <1>2, <1>3, <1>5, <1>7, <1>8

LEMMA SlotDelay == SlotTypes => posted.lag \in Nat /\ posted.stall \in Nat /\ worker \in Nat /\ taking \in Nat /\ posted.lag <= S!Larger(8, SlotFrame)
  BY SlotConstants DEF SlotTypes

LEMMA FirstPost == \A c : Append(<<>>, c) = <<c>>
<1> SUFFICES ASSUME NEW c PROVE Append(<<>>, c) = <<c>>
  OBVIOUS
<1>1. <<>> \in Seq({c}) /\ Len(<<>>) = 0
  OBVIOUS
<1>2. PICK q : q = Append(<<>>, c)
  OBVIOUS
<1>3. q \in Seq({c}) /\ Len(q) = 1 /\ q[1] = c
  BY <1>1, <1>2
<1>4. q = <<c>>
  BY <1>3
<1> QED
  BY <1>2, <1>4

\* A call is posted to the I/O thread.
LEMMA IoPosts ==
  ASSUME generation \in Seq(IoCalls), NEW c \in IoCalls, generation' = Append(generation, c)
  PROVE  /\ generation' \in Seq(IoCalls)
         /\ HasKey' <=> HasKey \/ c = "key"
         /\ HasFrame' <=> HasFrame \/ c \in {"frame", "final"}
         /\ Once(generation, {"key"}) /\ (c = "key" => ~HasKey) => Once(generation, {"key"})'
         /\ generation = <<>> => generation' = <<c>>
<1>0. generation' \in Seq(IoCalls)
  OBVIOUS
<1>1. generation = <<>> => generation' = <<c>>
  BY FirstPost
<1>2. (HasKey' <=> HasKey \/ c = "key") /\ (HasFrame' <=> HasFrame \/ c \in {"frame", "final"})
  BY HasPost DEF HasKey, HasFrame
<1>3. Once(generation, {"key"}) /\ (c = "key" => ~HasKey) => Once(generation, {"key"})'
  BY OncePost DEF HasKey, Once
<1> QED
  BY <1>0, <1>1, <1>2, <1>3

LEMMA IoTakesOne ==
  ASSUME generation \in Seq(IoCalls), NEW c, S!IoTakes(c)
  PROVE  /\ generation' \in Seq(IoCalls) /\ generation # <<>> /\ c \in IoCalls
         /\ HasKey' => HasKey
         /\ HasFrame' => HasFrame
         /\ c = "key" => HasKey
         /\ c \in {"frame", "final"} => HasFrame
         /\ Once(generation, {"key"}) => Once(generation, {"key"})' /\ (c = "key" => ~HasKey')
         /\ \A x : generation = <<x>> => c = x /\ generation' = <<>>
<1>1. generation # <<>> /\ Head(generation) = c /\ generation' = Tail(generation)
  BY DEF S!IoTakes
<1>2. generation' \in Seq(IoCalls) /\ c \in IoCalls
  BY <1>1
<1>3. (HasKey <=> c = "key" \/ HasKey') /\ (HasFrame <=> c \in {"frame", "final"} \/ HasFrame')
  BY <1>1, HasTake DEF HasKey, HasFrame
<1>4. Once(generation, {"key"}) => Once(generation, {"key"})' /\ (c = "key" => ~HasKey')
  BY <1>1, OnceTake DEF HasKey, Once, Has
<1>5. ASSUME NEW x, generation = <<x>> PROVE c = x /\ generation' = <<>>
  BY <1>1, <1>5
<1> QED
  BY <1>1, <1>2, <1>3, <1>4, <1>5

\* A call is posted to the audio thread.
LEMMA AuPosts ==
  ASSUME pending \in Seq(AuCalls), NEW c \in AuCalls, pending' = Append(pending, c)
  PROVE  /\ pending' \in Seq(AuCalls)
         /\ HasKeyed' <=> HasKeyed \/ c = "keyed"
         /\ pending = <<>> => pending' = <<c>>
<1>0. pending' \in Seq(AuCalls)
  OBVIOUS
<1>1. pending = <<>> => pending' = <<c>>
  BY FirstPost
<1>2. HasKeyed' <=> HasKeyed \/ c = "keyed"
  BY HasPost DEF HasKeyed
<1> QED
  BY <1>0, <1>1, <1>2

LEMMA AuTakesOne ==
  ASSUME pending \in Seq(AuCalls), NEW c, S!AuTakes(c)
  PROVE  /\ pending' \in Seq(AuCalls) /\ pending # <<>> /\ c \in AuCalls /\ UNCHANGED <<ui, io, screen, posted, worker, taking>>
         /\ HasKeyed' => HasKeyed
         /\ c = "keyed" => HasKeyed
         /\ \A x : pending = <<x>> => c = x /\ pending' = <<>>
<1>1. pending # <<>> /\ Head(pending) = c /\ pending' = Tail(pending) /\ UNCHANGED <<ui, io, screen, posted, worker, taking>>
  BY DEF S!AuTakes, S!AudioRest, S!delays
<1>2. pending' \in Seq(AuCalls) /\ c \in AuCalls
  BY <1>1
<1>3. HasKeyed <=> c = "keyed" \/ HasKeyed'
  BY <1>1, HasTake DEF HasKeyed
<1>5. ASSUME NEW x, pending = <<x>> PROVE c = x /\ pending' = <<>>
  BY <1>1, <1>5
<1> QED
  BY <1>1, <1>2, <1>3, <1>5

\* A frame or a key that is asked for is not lost among the calls that stay.
LEMMA QueuesStay ==
  /\ generation' = generation => (HasKey' <=> HasKey) /\ (HasFrame' <=> HasFrame) /\ (Once(generation, {"key"})' <=> Once(generation, {"key"}))
  /\ pending' = pending => (HasKeyed' <=> HasKeyed)
  BY DEF HasKey, HasFrame, HasKeyed, Once

----------------------------------------------------------------------------
(* What an action does to the transmitter and to the calls. *)
AuEnv == UNCHANGED <<ui, io, screen, posted, worker, taking>>
IoEnv == UNCHANGED <<ui, capture, posted, worker, taking>>

LEMMA Rests == (S!AudioRest <=> AuEnv) /\ (S!IoRest <=> IoEnv)
  BY DEF S!AudioRest, S!IoRest, S!delays, AuEnv, IoEnv

LEMMA KeyTicks ==
  ASSUME SlotTypes, S!TickKey
  PROVE  /\ capture.phase = "Waiting" /\ ui >= capture.start - 60 /\ ui - capture.start + SlotOffset < S!LatestStart
         /\ capture' \in TxRecords /\ capture'.phase = "Keying" /\ capture'.start = capture.start /\ capture'.keyRequest = ui
         /\ capture'.keyed = capture.keyed /\ capture'.emitted = capture.emitted /\ capture'.drain = capture.drain /\ capture'.result = capture.result
         /\ generation' = Append(generation, "key") /\ mode' = mode
<1>1. S!LatestStart \in Int /\ SlotOffset \in Nat /\ ui \in Nat /\ capture.start \in Nat
  BY SlotConstants DEF SlotTypes, TxRecords
<1>2. capture.phase = "Waiting" /\ ui >= capture.start - 60 /\ ui - capture.start + SlotOffset < S!LatestStart
  BY <1>1, SlotNumbers, SMTT(30) DEF S!TickKey, S!KeyTime, S!TooLateToKey
<1>3. capture' = [capture EXCEPT !.phase = "Keying", !.keyRequest = ui] /\ generation' = Append(generation, "key") /\ mode' = mode
  BY DEF S!TickKey
<1>4. capture \in TxRecords
  BY DEF SlotTypes
<1> QED
  BY <1>1, <1>2, <1>3, <1>4 DEF TxRecords

LEMMA FailTicks ==
  ASSUME SlotTypes, S!Fail
  PROVE  /\ capture' \in TxRecords /\ capture'.phase = "Idle" /\ capture'.result = "failed" /\ capture'.start = capture.start
         /\ capture'.keyRequest = capture.keyRequest /\ capture'.keyed = capture.keyed /\ capture'.emitted = capture.emitted /\ capture'.drain = capture.drain
         /\ generation' = Append(generation, "unkey") /\ mode' = FALSE
<1>1. capture \in TxRecords
  BY DEF SlotTypes
<1>2. capture' = [capture EXCEPT !.phase = "Idle", !.result = "failed"] /\ generation' = Append(generation, "unkey") /\ mode' = FALSE
  BY DEF S!Fail, S!Fails
<1> QED
  BY <1>1, <1>2 DEF TxRecords

\* A packet is as long as what is left of the waveform allows.
LEMMA EmitTicks ==
  ASSUME SlotTypes, NEW t \in TxRecords, t.emitted < SlotWave, t.phase = "Audio", S!Emits(t)
  PROVE  /\ capture' \in TxRecords /\ capture'.start = t.start /\ capture'.keyRequest = t.keyRequest
         /\ capture'.keyed = t.keyed /\ capture'.drain = t.drain /\ capture'.result = t.result
         /\ t.emitted < capture'.emitted /\ mode' = mode
         /\ \/ /\ capture'.phase = "Audio" /\ capture'.emitted < SlotWave /\ capture'.emitted = t.emitted + SlotFrame
               /\ generation' = Append(generation, "frame")
            \/ capture'.phase = "Drain" /\ generation' = Append(generation, "final")
<1>1. PICK n : n = t.emitted + S!Smaller(SlotFrame, SlotWave - t.emitted)
  OBVIOUS
<1>2. SlotFrame \in Nat \ {0} /\ SlotWave \in Nat /\ t.emitted \in Nat
  BY SlotConstants DEF TxRecords
<1>3. PICK w : w = SlotWave - t.emitted
  OBVIOUS
<1>4. w \in Int /\ SlotFrame \in Int /\ w > 0
  BY <1>2, <1>3
<1>5. S!Smaller(SlotFrame, w) \in {SlotFrame, w} /\ S!Smaller(SlotFrame, w) <= w
  BY <1>2, <1>4, Extremes
<1>6. n \in 0 .. SlotWave /\ t.emitted < n /\ (n # SlotWave => n = t.emitted + SlotFrame /\ n < SlotWave)
  BY <1>1, <1>2, <1>3, <1>4, <1>5
<1>7. capture' = [t EXCEPT !.emitted = n, !.phase = IF n = SlotWave THEN "Drain" ELSE @] /\ mode' = mode
  BY <1>1 DEF S!Emits, S!Emitted
<1>8. generation' = Append(generation, IF capture'.phase = "Drain" THEN "final" ELSE "frame")
  BY DEF S!Emits
<1>9. /\ capture' \in TxRecords /\ capture'.start = t.start /\ capture'.keyRequest = t.keyRequest /\ capture'.emitted = n
      /\ capture'.keyed = t.keyed /\ capture'.drain = t.drain /\ capture'.result = t.result
      /\ capture'.phase = IF n = SlotWave THEN "Drain" ELSE "Audio"
  BY <1>6, <1>7 DEF TxRecords
<1> QED
  BY <1>6, <1>7, <1>8, <1>9

LEMMA StartTicks ==
  ASSUME SlotTypes, S!TickStart
  PROVE  /\ capture.phase = "Keying" /\ capture.keyed # 0 /\ ui - capture.keyed >= 50 /\ ui >= capture.start /\ ui <= capture.start + SlotWave - 2
         /\ ui - capture.keyRequest <= 150 /\ mode
         /\ capture' \in TxRecords /\ capture'.start = capture.start /\ capture'.keyRequest = capture.keyRequest
         /\ capture'.keyed = capture.keyed /\ capture'.drain = capture.drain /\ capture'.result = capture.result /\ mode' = mode
         /\ capture'.emitted \in Nat /\ ui - capture.start < capture'.emitted
         /\ \/ /\ capture'.phase = "Audio" /\ capture'.emitted < SlotWave /\ capture'.emitted = ui - capture.start + SlotFrame
               /\ generation' = Append(generation, "frame")
            \/ capture'.phase = "Drain" /\ generation' = Append(generation, "final")
<1>1. SlotWave \in Nat /\ ui \in Nat /\ capture \in TxRecords /\ capture.start \in Nat /\ capture.keyed \in Nat /\ capture.keyRequest \in Nat
  BY SlotConstants DEF SlotTypes, TxRecords
<1>2. S!KeyedUp /\ mode /\ S!Emits(S!Begun(capture))
  BY DEF S!TickStart
<1>3. /\ capture.phase = "Keying" /\ capture.keyed # 0 /\ ui - capture.keyed >= 50 /\ ui >= capture.start
      /\ ui <= capture.start + SlotWave - 2 /\ ui - capture.keyRequest <= 150
  BY <1>1, <1>2, SlotNumbers DEF S!KeyedUp, S!KeyingExpired
<1>4. PICK t : t = S!Begun(capture)
  OBVIOUS
<1>5. PICK e : e = ui - capture.start
  OBVIOUS
<1>6. e \in 0 .. SlotWave /\ e < SlotWave
  BY <1>1, <1>3, <1>5
<1>7. S!Larger(0, e) = e
  BY <1>6, Extremes
<1>8. t = [capture EXCEPT !.phase = "Audio", !.emitted = e]
  BY <1>4, <1>5, <1>7 DEF S!Begun
<1>9. /\ t \in TxRecords /\ t.phase = "Audio" /\ t.emitted = e /\ t.start = capture.start /\ t.keyRequest = capture.keyRequest
      /\ t.keyed = capture.keyed /\ t.drain = capture.drain /\ t.result = capture.result
  BY <1>1, <1>6, <1>8 DEF TxRecords
<1>10. S!Emits(t)
  BY <1>2, <1>4
<1>11. /\ capture' \in TxRecords /\ capture'.start = t.start /\ capture'.keyRequest = t.keyRequest
       /\ capture'.keyed = t.keyed /\ capture'.drain = t.drain /\ capture'.result = t.result
       /\ t.emitted < capture'.emitted /\ mode' = mode
       /\ \/ /\ capture'.phase = "Audio" /\ capture'.emitted < SlotWave /\ capture'.emitted = t.emitted + SlotFrame
             /\ generation' = Append(generation, "frame")
          \/ capture'.phase = "Drain" /\ generation' = Append(generation, "final")
  BY <1>6, <1>9, <1>10, EmitTicks
<1>12. capture'.emitted \in Nat
  BY <1>11, <1>1 DEF TxRecords
<1> QED
  BY <1>2, <1>3, <1>5, <1>9, <1>11, <1>12

LEMMA FrameTicks ==
  ASSUME SlotTypes, Paced, S!TickFrame
  PROVE  /\ capture.phase = "Audio" /\ mode /\ ui >= capture.start + capture.emitted /\ capture.emitted < SlotWave
         /\ capture' \in TxRecords /\ capture'.start = capture.start /\ capture'.keyRequest = capture.keyRequest
         /\ capture'.keyed = capture.keyed /\ capture'.drain = capture.drain /\ capture'.result = capture.result /\ mode' = mode
         /\ capture'.emitted \in Nat /\ capture.emitted < capture'.emitted
         /\ \/ /\ capture'.phase = "Audio" /\ capture'.emitted < SlotWave /\ capture'.emitted = capture.emitted + SlotFrame
               /\ generation' = Append(generation, "frame")
            \/ capture'.phase = "Drain" /\ generation' = Append(generation, "final")
<1>1. SlotWave \in Nat /\ capture \in TxRecords
  BY SlotConstants DEF SlotTypes
<1>2. capture.phase = "Audio" /\ mode /\ ui >= capture.start + capture.emitted /\ S!Emits(capture)
  BY DEF S!TickFrame, S!FrameDue
<1>3. capture.emitted < SlotWave
  BY <1>2 DEF Paced
<1>4. /\ capture' \in TxRecords /\ capture'.start = capture.start /\ capture'.keyRequest = capture.keyRequest
      /\ capture'.keyed = capture.keyed /\ capture'.drain = capture.drain /\ capture'.result = capture.result
      /\ capture.emitted < capture'.emitted /\ mode' = mode
      /\ \/ /\ capture'.phase = "Audio" /\ capture'.emitted < SlotWave /\ capture'.emitted = capture.emitted + SlotFrame
            /\ generation' = Append(generation, "frame")
         \/ capture'.phase = "Drain" /\ generation' = Append(generation, "final")
  BY <1>1, <1>2, <1>3, EmitTicks
<1>5. capture'.emitted \in Nat
  BY <1>4, <1>1 DEF TxRecords
<1> QED
  BY <1>2, <1>3, <1>4, <1>5

LEMMA UnkeyTicks ==
  ASSUME SlotTypes, S!TickUnkey
  PROVE  /\ capture.phase = "Drain" /\ mode /\ capture.drain # 0 /\ ui >= capture.drain
         /\ capture' \in TxRecords /\ capture'.phase = "Unkeying" /\ capture'.start = capture.start /\ capture'.keyRequest = capture.keyRequest
         /\ capture'.keyed = capture.keyed /\ capture'.emitted = capture.emitted /\ capture'.drain = capture.drain /\ capture'.result = capture.result
         /\ generation' = Append(generation, "unkey") /\ mode' = mode
<1>1. capture \in TxRecords
  BY DEF SlotTypes
<1>2. capture.phase = "Drain" /\ mode /\ capture.drain # 0 /\ ui >= capture.drain
  BY SlotNumbers DEF S!TickUnkey
<1>3. capture' = [capture EXCEPT !.phase = "Unkeying"] /\ generation' = Append(generation, "unkey") /\ mode' = mode
  BY DEF S!TickUnkey
<1> QED
  BY <1>1, <1>2, <1>3 DEF TxRecords

LEMMA KeyedDoes ==
  ASSUME SlotTypes, S!Keyed
  PROVE  /\ S!AuTakes("keyed") /\ mode' = mode /\ generation' = generation
         /\ capture.phase # "Keying" => capture' = capture
         /\ capture.phase = "Keying" =>
              /\ capture' \in TxRecords /\ capture'.phase = "Keying" /\ capture'.start = capture.start /\ capture'.keyRequest = capture.keyRequest
              /\ capture'.keyed = ui /\ capture'.emitted = capture.emitted /\ capture'.drain = capture.drain /\ capture'.result = capture.result
<1>1. capture \in TxRecords /\ ui \in Nat
  BY DEF SlotTypes
<1>2. S!AuTakes("keyed") /\ mode' = mode /\ generation' = generation /\ capture' = IF capture.phase = "Keying" THEN [capture EXCEPT !.keyed = ui] ELSE capture
  BY DEF S!Keyed
<1> QED
  BY <1>1, <1>2 DEF TxRecords

LEMMA AcceptedDoes ==
  ASSUME SlotTypes, S!Accepted
  PROVE  /\ S!AuTakes("accepted") /\ mode' = mode /\ generation' = generation
         /\ capture.phase # "Drain" => capture' = capture
         /\ capture.phase = "Drain" =>
              /\ capture' \in TxRecords /\ capture'.phase = "Drain" /\ capture'.start = capture.start /\ capture'.keyRequest = capture.keyRequest
              /\ capture'.keyed = capture.keyed /\ capture'.emitted = capture.emitted /\ capture'.drain = ui + SlotFrame + 15
              /\ capture'.result = capture.result
<1>1. capture \in TxRecords /\ ui \in Nat /\ SlotFrame \in Nat
  BY SlotConstants DEF SlotTypes
<1>2. S!AuTakes("accepted") /\ mode' = mode /\ generation' = generation
      /\ capture' = IF capture.phase = "Drain" THEN [capture EXCEPT !.drain = ui + SlotFrame + 15] ELSE capture
  BY DEF S!Accepted
<1> QED
  BY <1>1, <1>2 DEF TxRecords

LEMMA UnkeyedDoes ==
  ASSUME SlotTypes, S!Unkeyed
  PROVE  /\ S!AuTakes("unkeyed") /\ mode' = mode /\ generation' = generation
         /\ capture.phase # "Unkeying" => capture' = capture
         /\ capture.phase = "Unkeying" =>
              /\ capture' \in TxRecords /\ capture'.phase = "Idle" /\ capture'.start = capture.start /\ capture'.keyRequest = capture.keyRequest
              /\ capture'.keyed = capture.keyed /\ capture'.emitted = capture.emitted /\ capture'.drain = capture.drain
              /\ capture'.result = "done"
<1>1. capture \in TxRecords
  BY DEF SlotTypes
<1>2. S!AuTakes("unkeyed") /\ mode' = mode /\ generation' = generation
      /\ capture' = IF capture.phase = "Unkeying" THEN [capture EXCEPT !.phase = "Idle", !.result = "done"] ELSE capture
  BY DEF S!Unkeyed
<1> QED
  BY <1>1, <1>2 DEF TxRecords

----------------------------------------------------------------------------
(* What an action does to the socket and to the guard. *)
LEMMA OffIs ==
  ASSUME SlotTypes
  PROVE  /\ S!Off(io) \in IoRecords /\ ~S!Off(io).gate /\ S!Off(io).watch = 0 /\ S!Off(io).drainBy = 0
         /\ S!Off(io).started = io.started /\ S!Off(io).lastAudio = io.lastAudio /\ S!Off(io).pending = io.pending
<1>1. io \in IoRecords
  BY DEF SlotTypes
<1>2. PICK i : i = S!Off(io)
  OBVIOUS
<1>3. i = [io EXCEPT !.gate = FALSE, !.watch = 0, !.drainBy = 0]
  BY <1>2, SlotNumbers DEF S!Off
<1>4. i \in IoRecords
  BY <1>1, <1>3 DEF IoRecords
<1>5. /\ ~i.gate /\ i.watch = 0 /\ i.drainBy = 0
      /\ i.started = io.started /\ i.lastAudio = io.lastAudio /\ i.pending = io.pending
  BY <1>1, <1>3 DEF IoRecords
<1> QED
  BY <1>2, <1>4, <1>5

LEMMA TripDoes ==
  ASSUME SlotTypes, NEW why \in {"stream", "cancelled", "stalled", "drain"}, S!Trip(io, why)
  PROVE  /\ io' \in IoRecords /\ ~io'.gate /\ io'.watch = 0 /\ io'.drainBy = 0 /\ io'.lastAudio = io.lastAudio
         /\ mode' = FALSE /\ pending' = Append(pending, "cancel")
         /\ screen' \in LineRecords /\ screen'.keyed = 0 /\ screen'.first = screen.first /\ screen'.last = screen.last
<1>1. screen \in LineRecords
  BY DEF SlotTypes
<1>2. PICK i : i = S!Off(io)
  OBVIOUS
<1>3. io' = [i EXCEPT !.trip = why] /\ mode' = FALSE /\ screen' = [screen EXCEPT !.keyed = 0] /\ pending' = Append(pending, "cancel")
  BY <1>2, SlotNumbers DEF S!Trip
<1>4. i \in IoRecords /\ ~i.gate /\ i.watch = 0 /\ i.drainBy = 0 /\ i.lastAudio = io.lastAudio
  BY <1>2, OffIs
<1>5. io' \in IoRecords /\ ~io'.gate /\ io'.watch = 0 /\ io'.drainBy = 0 /\ io'.lastAudio = io.lastAudio
  BY <1>3, <1>4 DEF IoRecords
<1>6. screen' \in LineRecords /\ screen'.keyed = 0 /\ screen'.first = screen.first /\ screen'.last = screen.last
  BY <1>1, <1>3 DEF LineRecords
<1> QED
  BY <1>3, <1>5, <1>6

LEMMA BeginDoes ==
  ASSUME SlotTypes, S!BeginScheduledDigitalAudio
  PROVE  /\ S!IoTakes("key") /\ IoEnv
         /\ capture.phase = "Idle" => UNCHANGED <<io, mode, screen, pending>>
         /\ capture.phase # "Idle" =>
              /\ io' \in IoRecords /\ io'.gate /\ io'.started = ui /\ io'.watch = ui + 5
              /\ io'.lastAudio = io.lastAudio /\ io'.drainBy = io.drainBy /\ io'.pending = io.pending
              /\ mode' = TRUE /\ pending' = Append(pending, "keyed")
              /\ screen' \in LineRecords /\ screen'.keyed = ui /\ screen'.first = screen.first /\ screen'.last = screen.last
<1>1. screen \in LineRecords /\ io \in IoRecords /\ ui \in Nat
  BY DEF SlotTypes
<1>2. S!IoTakes("key") /\ IoEnv /\ (capture.phase = "Idle" => UNCHANGED <<io, mode, screen, pending>>)
  BY Rests DEF S!BeginScheduledDigitalAudio
<1>3. ASSUME capture.phase # "Idle"
      PROVE  /\ io' = [io EXCEPT !.gate = TRUE, !.started = ui, !.watch = ui + 5] /\ mode' = TRUE
             /\ screen' = [screen EXCEPT !.keyed = ui] /\ pending' = Append(pending, "keyed")
  BY <1>3, SlotNumbers DEF S!BeginScheduledDigitalAudio
<1>6. ASSUME capture.phase # "Idle" PROVE io' \in IoRecords
  <2>1. ui + 5 \in Nat /\ TRUE \in BOOLEAN
    BY <1>1
  <2> QED
    BY <1>1, <1>3, <1>6, <2>1 DEF IoRecords
<1>4. ASSUME capture.phase # "Idle"
      PROVE  /\ io'.gate /\ io'.started = ui /\ io'.watch = ui + 5
             /\ io'.lastAudio = io.lastAudio /\ io'.drainBy = io.drainBy /\ io'.pending = io.pending
  BY <1>1, <1>3, <1>4 DEF IoRecords
<1>5. ASSUME capture.phase # "Idle"
      PROVE  screen' \in LineRecords /\ screen'.keyed = ui /\ screen'.first = screen.first /\ screen'.last = screen.last
  BY <1>1, <1>3, <1>5 DEF LineRecords
<1> QED
  BY <1>2, <1>3, <1>4, <1>5, <1>6

LEMMA WrittenIs ==
  ASSUME SlotTypes, io.pending <= 4, NEW final \in BOOLEAN
  PROVE  /\ S!Written(final) \in IoRecords /\ S!Written(final).gate = io.gate /\ S!Written(final).started = io.started
         /\ S!Written(final).watch = io.watch /\ S!Written(final).lastAudio = ui
         /\ S!Written(final).pending = io.pending + 1
         /\ S!Written(final).drainBy = IF final THEN ui + 50 ELSE io.drainBy
<1>1. io \in IoRecords /\ ui \in Nat
  BY DEF SlotTypes
<1>2. S!Written(final) = [io EXCEPT !.pending = @ + 1, !.lastAudio = ui, !.complete = final,
                             !.drainBy = IF final THEN ui + 50 ELSE @]
  BY SlotNumbers DEF S!Written
<1>3. io.pending + 1 \in 0 .. S!Backlog + 1
  BY <1>1, SlotNumbers DEF IoRecords
<1>4. (IF final THEN ui + 50 ELSE io.drainBy) \in Nat
  BY <1>1 DEF IoRecords
<1> QED
  BY <1>1, <1>2, <1>3, <1>4 DEF IoRecords

\* A packet is dropped, trips the guard, or is written.
LEMMA SendDoes ==
  ASSUME SlotTypes, NEW call, S!SendDigitalAudio(call)
  PROVE  /\ call \in {"frame", "final"} /\ S!IoTakes(call) /\ IoEnv
         /\ \/ ~io.gate /\ UNCHANGED <<io, mode, screen, pending>>
            \/ io.gate /\ (~mode \/ S!StreamLate \/ io.pending > 4)
               /\ \E why \in {"stream", "cancelled", "stalled", "drain"} : S!Trip(io, why)
            \/ /\ io.gate /\ mode /\ ~S!StreamLate /\ io.pending <= 4
               /\ io' \in IoRecords /\ io'.gate /\ io'.started = io.started /\ io'.watch = io.watch
               /\ io'.lastAudio = ui /\ io'.pending = io.pending + 1
               /\ io'.drainBy = (IF call = "final" THEN ui + 50 ELSE io.drainBy)
               /\ screen' \in LineRecords /\ screen'.keyed = screen.keyed /\ screen'.last = ui
               /\ screen'.first = (IF screen.first = 0 THEN ui ELSE screen.first)
               /\ mode' = mode /\ pending' = pending
<1>1. screen \in LineRecords /\ io \in IoRecords /\ ui \in Nat
  BY DEF SlotTypes
<1>2. call \in {"frame", "final"} /\ S!IoTakes(call) /\ IoEnv
  BY Rests DEF S!SendDigitalAudio
<1>3. CASE ~io.gate
  BY <1>2, <1>3 DEF S!SendDigitalAudio
<1>4. CASE io.gate /\ (~mode \/ S!StreamLate \/ io.pending > 4)
  <2>1. S!Trip(io, "cancelled") \/ S!Trip(io, "stream") \/ S!Trip(io, "stalled")
    BY <1>4, SlotNumbers DEF S!SendDigitalAudio
  <2> QED
    BY <1>2, <1>4, <2>1
<1>5. CASE io.gate /\ mode /\ ~S!StreamLate /\ ~(io.pending > 4)
  <2>0. io.pending <= 4
    BY <1>1, <1>5, SlotNumbers DEF IoRecords
  <2>1. /\ io' = S!Written(call = "final") /\ UNCHANGED <<mode, pending>>
        /\ screen' = [screen EXCEPT !.first = IF @ = 0 THEN ui ELSE @, !.last = ui]
    BY <1>5, SlotNumbers DEF S!SendDigitalAudio
  <2>2. PICK final \in BOOLEAN : final <=> call = "final"
    OBVIOUS
  <2>3. io' = S!Written(final)
    BY <2>1, <2>2
  <2>4. /\ io' \in IoRecords /\ io'.gate = io.gate /\ io'.started = io.started /\ io'.watch = io.watch
        /\ io'.lastAudio = ui /\ io'.pending = io.pending + 1
        /\ io'.drainBy = (IF final THEN ui + 50 ELSE io.drainBy)
    BY <2>0, <2>3, WrittenIs
  <2>5. /\ screen' \in LineRecords /\ screen'.keyed = screen.keyed /\ screen'.last = ui
        /\ screen'.first = (IF screen.first = 0 THEN ui ELSE screen.first)
    BY <1>1, <2>1 DEF LineRecords
  <2> QED
    BY <1>2, <1>5, <2>0, <2>1, <2>2, <2>4, <2>5
<1> QED
  BY <1>3, <1>4, <1>5

LEMMA DrainedDoes ==
  ASSUME SlotTypes, S!Drained
  PROVE  /\ io.drainBy # 0 /\ mode /\ io.pending = 0 /\ IoEnv /\ UNCHANGED <<mode, screen, generation>>
         /\ io' \in IoRecords /\ io'.gate = io.gate /\ io'.started = io.started /\ io'.watch = io.watch
         /\ io'.lastAudio = io.lastAudio /\ io'.pending = io.pending /\ io'.drainBy = 0
         /\ pending' = Append(pending, "accepted")
<1>1. io \in IoRecords
  BY DEF SlotTypes
<1>2. /\ io.drainBy # 0 /\ mode /\ io.pending = 0 /\ IoEnv /\ UNCHANGED <<mode, screen, generation>>
      /\ io' = [io EXCEPT !.drainBy = 0] /\ pending' = Append(pending, "accepted")
  BY Rests, SlotNumbers DEF S!Drained, S!Polls
<1> QED
  BY <1>1, <1>2 DEF IoRecords

LEMMA ServiceDoes ==
  ASSUME SlotTypes, S!ServiceDigitalTxProtection
  PROVE  /\ io.watch # 0 /\ ui >= io.watch /\ IoEnv /\ generation' = generation
         /\ \/ (~mode \/ S!StreamLate) /\ \E why \in {"stream", "cancelled", "stalled", "drain"} : S!Trip(io, why)
            \/ /\ mode /\ ~S!StreamLate /\ UNCHANGED <<mode, screen, pending>>
               /\ io' \in IoRecords /\ io'.gate = io.gate /\ io'.started = io.started /\ io'.watch = ui + 5
               /\ io'.lastAudio = io.lastAudio /\ io'.pending = io.pending /\ io'.drainBy = io.drainBy
<1>1. io \in IoRecords /\ ui \in Nat
  BY DEF SlotTypes
<1>2. io.watch # 0 /\ ui >= io.watch /\ IoEnv /\ generation' = generation
  BY Rests, SlotNumbers DEF S!ServiceDigitalTxProtection, S!WatchdogDue
<1>3. CASE ~mode \/ S!StreamLate
  <2>1. S!Trip(io, "cancelled") \/ S!Trip(io, "stream")
    BY <1>3 DEF S!ServiceDigitalTxProtection
  <2> QED
    BY <1>2, <1>3, <2>1
<1>4. CASE mode /\ ~S!StreamLate
  <2>1. io' = [io EXCEPT !.watch = ui + 5] /\ UNCHANGED <<mode, screen, pending>>
    BY <1>4, SlotNumbers DEF S!ServiceDigitalTxProtection
  <2>2. /\ io' \in IoRecords /\ io'.gate = io.gate /\ io'.started = io.started /\ io'.watch = ui + 5
        /\ io'.lastAudio = io.lastAudio /\ io'.pending = io.pending /\ io'.drainBy = io.drainBy
    BY <1>1, <2>1 DEF IoRecords
  <2> QED
    BY <1>2, <1>4, <2>1, <2>2
<1> QED
  BY <1>3, <1>4

LEMMA StopDoes ==
  ASSUME SlotTypes, S!StopScheduledDigitalAudio
  PROVE  /\ S!IoTakes("unkey") /\ IoEnv
         /\ io' \in IoRecords /\ ~io'.gate /\ io'.watch = 0 /\ io'.drainBy = 0
         /\ io'.lastAudio = io.lastAudio
         /\ mode' = FALSE /\ pending' = Append(pending, "unkeyed")
         /\ screen' \in LineRecords /\ screen'.keyed = 0 /\ screen'.first = screen.first /\ screen'.last = screen.last
<1>1. screen \in LineRecords
  BY DEF SlotTypes
<1>2. S!IoTakes("unkey") /\ IoEnv /\ io' = S!Off(io) /\ mode' = FALSE
      /\ screen' = [screen EXCEPT !.keyed = 0] /\ pending' = Append(pending, "unkeyed")
  BY Rests, SlotNumbers DEF S!StopScheduledDigitalAudio
<1>3. io' \in IoRecords /\ ~io'.gate /\ io'.watch = 0 /\ io'.drainBy = 0 /\ io'.lastAudio = io.lastAudio
  BY <1>2, OffIs
<1>4. screen' \in LineRecords /\ screen'.keyed = 0 /\ screen'.first = screen.first /\ screen'.last = screen.last
  BY <1>1, <1>2 DEF LineRecords
<1> QED
  BY <1>2, <1>3, <1>4

\* Time passes when nothing is due, or the event loops are late; the buffer is sent, or stalled.
LEMMA TimeDoes ==
  ASSUME SlotTypes, S!Tick
  PROVE  /\ ui' = ui + 1 /\ UNCHANGED <<capture, mode, generation, pending, screen, posted>>
         /\ worker' \in 0 .. posted.lag /\ taking' \in 0 .. posted.stall /\ taking' <= taking /\ worker' <= worker
         /\ \/ S!Idle
            \/ ~S!Idle /\ worker' = worker - 1
         /\ io' \in IoRecords /\ io'.gate = io.gate /\ io'.started = io.started /\ io'.watch = io.watch
         /\ io'.lastAudio = io.lastAudio /\ io'.drainBy = io.drainBy
         /\ \/ io'.pending = 0
            \/ io'.pending = io.pending /\ taking > 0 /\ taking' = taking - 1
<1>1. io \in IoRecords /\ posted.lag \in Nat /\ posted.stall \in Nat /\ worker \in 0 .. posted.lag /\ taking \in 0 .. posted.stall
  BY SlotDelay DEF SlotTypes
<1>2. ui' = ui + 1 /\ UNCHANGED <<capture, mode, generation, pending, screen, posted>>
  BY DEF S!Tick
<1>3. (S!Idle /\ worker' = S!Left(worker, posted.lag)) \/ (~S!Idle /\ worker > 0 /\ worker' = worker - 1)
  BY DEF S!Tick
<1>4. worker' \in 0 .. posted.lag /\ worker' <= worker
  BY <1>1, <1>3 DEF S!Left
<1>5. \/ io' = [io EXCEPT !.pending = 0] /\ taking' = S!Left(taking, posted.stall)
      \/ io.pending > 0 /\ taking > 0 /\ taking' = taking - 1 /\ io' = io
  BY DEF S!Tick
<1>6. taking' \in 0 .. posted.stall /\ taking' <= taking
  BY <1>1, <1>5 DEF S!Left
<1>7. CASE io' = [io EXCEPT !.pending = 0]
  <2>1. 0 \in 0 .. S!Backlog + 1
    BY SlotNumbers
  <2>2. /\ io' \in IoRecords /\ io'.gate = io.gate /\ io'.started = io.started /\ io'.watch = io.watch
        /\ io'.lastAudio = io.lastAudio /\ io'.drainBy = io.drainBy /\ io'.pending = 0
    BY <1>1, <1>7, <2>1 DEF IoRecords
  <2> QED
    BY <1>2, <1>3, <1>4, <1>6, <2>2
<1>8. CASE taking > 0 /\ taking' = taking - 1 /\ io' = io
  BY <1>1, <1>2, <1>3, <1>4, <1>6, <1>8
<1> QED
  BY <1>5, <1>7, <1>8

----------------------------------------------------------------------------
(* The audio thread leaves the types, the order of TX, the watchdog and the pace alone. *)
LEMMA AudioTypes ==
  ASSUME SlotTypes, AuEnv, capture' \in TxRecords, capture'.start = capture.start, mode' \in BOOLEAN,
         generation' \in Seq(IoCalls), pending' \in Seq(AuCalls)
  PROVE  SlotTypes'
  BY DEF SlotTypes, AuEnv

LEMMA AudioWatches == Watching /\ AuEnv => Watching'
  BY DEF Watching, AuEnv, Deadline

LEMMA SafeKeyTick ==
  ASSUME SlotSafe, S!TickKey, AuEnv, pending' = pending
  PROVE  SlotSafe'
<1>0. SlotTypes /\ KeyOrder /\ Watching /\ Paced /\ generation \in Seq(IoCalls) /\ pending \in Seq(AuCalls) /\ ui \in Nat /\ mode \in BOOLEAN
  BY DEF SlotSafe, SlotTypes
<1>1. /\ capture.phase = "Waiting" /\ capture' \in TxRecords /\ capture'.phase = "Keying" /\ capture'.start = capture.start /\ capture'.keyRequest = ui
      /\ capture'.keyed = capture.keyed /\ capture'.emitted = capture.emitted /\ capture'.drain = capture.drain /\ capture'.result = capture.result
      /\ generation' = Append(generation, "key") /\ mode' = mode
  BY <1>0, KeyTicks
<1>2. "key" \in IoCalls
  BY DEF IoCalls
<1>3. /\ generation' \in Seq(IoCalls) /\ (HasFrame' <=> HasFrame) /\ HasKey' /\ (HasKeyed' <=> HasKeyed)
      /\ (Once(generation, {"key"}) /\ ~HasKey => Once(generation, {"key"})')
  BY <1>0, <1>1, <1>2, IoPosts, QueuesStay
<1>4. SlotTypes'
  BY <1>0, <1>1, <1>3, AudioTypes
<1>5. KeyOrder'
  BY <1>0, <1>1, <1>3 DEF KeyOrder, AuEnv
<1>6. Paced'
  BY <1>0, <1>1, <1>3 DEF Paced, AuEnv
<1> QED
  BY <1>0, <1>4, <1>5, <1>6, AudioWatches DEF SlotSafe

LEMMA SafeFail ==
  ASSUME SlotSafe, S!Fail, AuEnv, pending' \in Seq(AuCalls), HasKeyed' => HasKeyed
  PROVE  SlotSafe'
<1>0. SlotTypes /\ KeyOrder /\ Watching /\ Paced /\ generation \in Seq(IoCalls) /\ ui \in Nat
  BY DEF SlotSafe, SlotTypes
<1>1. /\ capture' \in TxRecords /\ capture'.phase = "Idle" /\ capture'.result = "failed" /\ capture'.start = capture.start
      /\ capture'.keyRequest = capture.keyRequest /\ capture'.keyed = capture.keyed /\ capture'.emitted = capture.emitted /\ capture'.drain = capture.drain
      /\ generation' = Append(generation, "unkey") /\ mode' = FALSE
  BY <1>0, FailTicks
<1>2. "unkey" \in IoCalls
  BY DEF IoCalls
<1>3. /\ generation' \in Seq(IoCalls) /\ (HasFrame' <=> HasFrame) /\ (HasKey' <=> HasKey)
      /\ (Once(generation, {"key"}) => Once(generation, {"key"})')
  BY <1>0, <1>1, <1>2, IoPosts
<1>4. SlotTypes'
  BY <1>0, <1>1, <1>3, AudioTypes
<1>5. KeyOrder'
  BY <1>0, <1>1, <1>3 DEF KeyOrder, AuEnv
<1>6. Paced'
  BY <1>0, <1>1, <1>3 DEF Paced, AuEnv
<1> QED
  BY <1>0, <1>4, <1>5, <1>6, AudioWatches DEF SlotSafe

\* A packet is posted when it is due.
LEMMA SafeEmit ==
  ASSUME SlotSafe, AuEnv, pending' = pending, mode' = mode, capture.phase \in {"Keying", "Audio"},
         capture.keyed # 0, ui - capture.keyed >= 50, ui + worker <= capture.start + SlotWave - 1 + posted.lag,
         capture' \in TxRecords, capture'.start = capture.start, capture'.keyed = capture.keyed,
         ui + worker <= capture.start + capture'.emitted + posted.lag,
         \/ capture'.phase = "Audio" /\ capture'.emitted < SlotWave /\ generation' = Append(generation, "frame")
         \/ capture'.phase = "Drain" /\ generation' = Append(generation, "final")
  PROVE  SlotSafe'
<1>0. /\ SlotTypes /\ KeyOrder /\ Watching /\ Paced /\ generation \in Seq(IoCalls) /\ pending \in Seq(AuCalls)
      /\ ui \in Nat /\ mode \in BOOLEAN /\ capture.keyed \in Nat
  BY DEF SlotSafe, SlotTypes, TxRecords
<1>1. PICK c \in {"frame", "final"} : generation' = Append(generation, c)
  OBVIOUS
<1>2. c \in IoCalls /\ c # "key"
  BY DEF IoCalls
<1>3. /\ generation' \in Seq(IoCalls) /\ HasFrame' /\ (HasKey' <=> HasKey) /\ (HasKeyed' <=> HasKeyed)
      /\ (Once(generation, {"key"}) => Once(generation, {"key"})')
  BY <1>0, <1>1, <1>2, IoPosts, QueuesStay
<1>4. SlotTypes'
  BY <1>0, <1>3, AudioTypes
<1>5. KeyOrder'
  BY <1>0, <1>3 DEF KeyOrder, AuEnv
<1>6. Paced'
  BY <1>0, <1>3 DEF Paced, AuEnv
<1> QED
  BY <1>0, <1>4, <1>5, <1>6, AudioWatches DEF SlotSafe

LEMMA SafeStart ==
  ASSUME SlotSafe, S!TickStart, AuEnv, pending' = pending
  PROVE  SlotSafe'
<1>0. /\ SlotTypes /\ ui \in Nat /\ worker \in Nat /\ posted.lag \in Nat /\ worker <= posted.lag /\ SlotWave \in Nat /\ capture.start \in Nat
  BY SlotDelay, SlotConstants DEF SlotSafe, SlotTypes, TxRecords
<1>1. /\ capture.phase = "Keying" /\ capture.keyed # 0 /\ ui - capture.keyed >= 50 /\ ui >= capture.start /\ ui <= capture.start + SlotWave - 2
      /\ capture' \in TxRecords /\ capture'.start = capture.start /\ capture'.keyed = capture.keyed /\ mode' = mode
      /\ capture'.emitted \in Nat /\ ui - capture.start < capture'.emitted
      /\ \/ capture'.phase = "Audio" /\ capture'.emitted < SlotWave /\ generation' = Append(generation, "frame")
         \/ capture'.phase = "Drain" /\ generation' = Append(generation, "final")
  BY <1>0, StartTicks
<1>2. PICK e : e = capture'.emitted
  OBVIOUS
<1>3. e \in Nat /\ ui - capture.start < e /\ ui <= capture.start + SlotWave - 2
  BY <1>1, <1>2
<1>4. ui + worker <= capture.start + SlotWave - 1 + posted.lag /\ ui + worker <= capture.start + e + posted.lag
  BY <1>0, <1>3
<1> QED
  BY <1>1, <1>2, <1>4, SafeEmit

LEMMA SafeFrame ==
  ASSUME SlotSafe, S!TickFrame, AuEnv, pending' = pending
  PROVE  SlotSafe'
<1>0. /\ SlotTypes /\ Paced /\ KeyOrder /\ ui \in Nat /\ worker \in Nat /\ posted.lag \in Nat /\ SlotWave \in Nat
      /\ capture.start \in Nat /\ capture.keyed \in Nat /\ capture.emitted \in Nat
  BY SlotDelay, SlotConstants DEF SlotSafe, SlotTypes, TxRecords
<1>1. /\ capture.phase = "Audio"
      /\ capture' \in TxRecords /\ capture'.start = capture.start /\ capture'.keyed = capture.keyed /\ mode' = mode
      /\ capture'.emitted \in Nat /\ capture.emitted < capture'.emitted
      /\ \/ capture'.phase = "Audio" /\ capture'.emitted < SlotWave /\ generation' = Append(generation, "frame")
         \/ capture'.phase = "Drain" /\ generation' = Append(generation, "final")
  BY <1>0, FrameTicks
<1>2. capture.emitted < SlotWave /\ ui + worker <= capture.start + capture.emitted + posted.lag /\ capture.keyed # 0 /\ ui >= capture.keyed + 50
  BY <1>0, <1>1 DEF Paced, KeyOrder
<1>3. PICK e : e = capture'.emitted
  OBVIOUS
<1>4. e \in Nat /\ capture.emitted < e
  BY <1>1, <1>3
<1>5. ui + worker <= capture.start + SlotWave - 1 + posted.lag /\ ui + worker <= capture.start + e + posted.lag
  BY <1>0, <1>2, <1>4
<1>6. ui - capture.keyed >= 50
  BY <1>0, <1>2
<1> QED
  BY <1>1, <1>2, <1>3, <1>5, <1>6, SafeEmit

LEMMA SafeUnkey ==
  ASSUME SlotSafe, S!TickUnkey, AuEnv, pending' = pending
  PROVE  SlotSafe'
<1>0. SlotTypes /\ KeyOrder /\ Watching /\ Paced /\ generation \in Seq(IoCalls) /\ pending \in Seq(AuCalls) /\ ui \in Nat /\ mode \in BOOLEAN
  BY DEF SlotSafe, SlotTypes
<1>1. /\ capture.phase = "Drain" /\ capture' \in TxRecords /\ capture'.phase = "Unkeying" /\ capture'.start = capture.start /\ capture'.keyed = capture.keyed
      /\ generation' = Append(generation, "unkey") /\ mode' = mode
  BY <1>0, UnkeyTicks
<1>2. "unkey" \in IoCalls
  BY DEF IoCalls
<1>3. /\ generation' \in Seq(IoCalls) /\ (HasFrame' <=> HasFrame) /\ (HasKey' <=> HasKey) /\ (HasKeyed' <=> HasKeyed)
      /\ (Once(generation, {"key"}) => Once(generation, {"key"})')
  BY <1>0, <1>1, <1>2, IoPosts, QueuesStay
<1>4. SlotTypes'
  BY <1>0, <1>1, <1>3, AudioTypes
<1>5. KeyOrder'
  BY <1>0, <1>1, <1>3 DEF KeyOrder, AuEnv
<1>6. Paced'
  BY <1>0, <1>1, <1>3 DEF Paced, AuEnv
<1> QED
  BY <1>0, <1>4, <1>5, <1>6, AudioWatches DEF SlotSafe

\* What the I/O thread has told the audio thread.
LEMMA SafeTold ==
  ASSUME SlotSafe, NEW c, S!AuTakes(c), mode' = mode, generation' = generation,
         capture' \in TxRecords, capture'.start = capture.start, capture'.emitted = capture.emitted,
         capture'.phase = capture.phase \/ (capture.phase = "Unkeying" /\ capture'.phase = "Idle"),
         capture'.keyed = capture.keyed \/ (capture.phase = "Keying" /\ c = "keyed" /\ capture'.keyed = ui)
  PROVE  SlotSafe'
<1>0. SlotTypes /\ KeyOrder /\ Watching /\ Paced /\ generation \in Seq(IoCalls) /\ pending \in Seq(AuCalls) /\ ui \in Nat \ {0} /\ mode \in BOOLEAN
  BY DEF SlotSafe, SlotTypes
<1>1. /\ pending' \in Seq(AuCalls) /\ AuEnv /\ (HasKeyed' => HasKeyed) /\ (c = "keyed" => HasKeyed)
  BY <1>0, AuTakesOne DEF AuEnv
<1>3. (HasFrame' <=> HasFrame) /\ (HasKey' <=> HasKey) /\ (Once(generation, {"key"}) => Once(generation, {"key"})')
  BY QueuesStay
<1>4. SlotTypes'
  BY <1>0, <1>1, AudioTypes
<1>5. KeyOrder'
  <2>1. CASE capture'.keyed = capture.keyed
    BY <1>0, <1>1, <1>3, <2>1 DEF KeyOrder, AuEnv
  <2>2. CASE capture.phase = "Keying" /\ c = "keyed" /\ capture'.keyed = ui
    BY <1>0, <1>1, <1>3, <2>2 DEF KeyOrder, AuEnv
  <2> QED
    BY <2>1, <2>2
<1>6. Paced'
  BY <1>0, <1>1, <1>3 DEF Paced, AuEnv
<1> QED
  BY <1>0, <1>1, <1>4, <1>5, <1>6, AudioWatches DEF SlotSafe

LEMMA SafeReplies == SlotSafe /\ (S!Keyed \/ S!Accepted \/ S!Unkeyed) => SlotSafe'
<1> SUFFICES ASSUME SlotSafe, S!Keyed \/ S!Accepted \/ S!Unkeyed PROVE SlotSafe'
  OBVIOUS
<1>0. SlotTypes /\ capture \in TxRecords
  BY DEF SlotSafe, SlotTypes
<1>1. CASE S!Keyed
  BY <1>0, <1>1, KeyedDoes, SafeTold
<1>2. CASE S!Accepted
  BY <1>0, <1>2, AcceptedDoes, SafeTold
<1>3. CASE S!Unkeyed
  BY <1>0, <1>3, UnkeyedDoes, SafeTold
<1> QED
  BY <1>1, <1>2, <1>3

LEMMA SafeCancel == SlotSafe /\ S!Cancel => SlotSafe'
<1> SUFFICES ASSUME SlotSafe, S!Cancel PROVE SlotSafe'
  OBVIOUS
<1>0. SlotTypes /\ pending \in Seq(AuCalls) /\ capture \in TxRecords
  BY DEF SlotSafe, SlotTypes
<1>1. S!AuTakes("cancel") /\ (capture.phase = "Idle" => UNCHANGED <<capture, mode, generation>>) /\ (capture.phase # "Idle" => S!Fail)
  BY DEF S!Cancel
<1>2. pending' \in Seq(AuCalls) /\ AuEnv /\ (HasKeyed' => HasKeyed)
  BY <1>0, <1>1, AuTakesOne DEF AuEnv
<1>3. CASE capture.phase = "Idle"
  BY <1>0, <1>1, <1>3, SafeTold
<1>4. CASE capture.phase # "Idle"
  BY <1>1, <1>2, <1>4, SafeFail
<1> QED
  BY <1>3, <1>4

LEMMA SafeTicks == SlotSafe /\ S!TxTick => SlotSafe'
<1> SUFFICES ASSUME SlotSafe, S!TxTick PROVE SlotSafe'
  OBVIOUS
<1>1. AuEnv /\ pending' = pending /\ pending \in Seq(AuCalls) /\ (HasKeyed' => HasKeyed)
  BY Rests, QueuesStay DEF S!TxTick, SlotSafe, SlotTypes
<1>2. S!TickKey \/ S!TickStart \/ S!TickFrame \/ S!TickUnkey \/ S!Fail
  BY DEF S!TxTick, S!TickFail
<1> QED
  BY <1>1, <1>2, SafeKeyTick, SafeStart, SafeFrame, SafeUnkey, SafeFail

----------------------------------------------------------------------------
(* The I/O thread. *)
LEMMA IoTypes ==
  ASSUME SlotTypes, IoEnv, io' \in IoRecords, screen' \in LineRecords, mode' \in BOOLEAN,
         generation' \in Seq(IoCalls), pending' \in Seq(AuCalls)
  PROVE  SlotTypes'
  BY DEF SlotTypes, IoEnv

LEMMA SafeTrip ==
  ASSUME SlotSafe, IoEnv, NEW why \in {"stream", "cancelled", "stalled", "drain"}, S!Trip(io, why),
         generation' \in Seq(IoCalls), HasKey' => HasKey, HasFrame' => HasFrame, Once(generation, {"key"})'
  PROVE  SlotSafe'
<1>0. SlotTypes /\ KeyOrder /\ Watching /\ Paced /\ pending \in Seq(AuCalls) /\ ui \in Nat /\ capture.keyed \in Nat /\ screen.first \in Nat
  BY DEF SlotSafe, SlotTypes, TxRecords, LineRecords
<1>1. /\ io' \in IoRecords /\ ~io'.gate /\ io'.lastAudio = io.lastAudio
      /\ mode' = FALSE /\ pending' = Append(pending, "cancel")
      /\ screen' \in LineRecords /\ screen'.keyed = 0 /\ screen'.first = screen.first /\ screen'.last = screen.last
  BY <1>0, TripDoes
<1>2. "cancel" \in AuCalls
  BY DEF AuCalls
<1>3. pending' \in Seq(AuCalls) /\ (HasKeyed' <=> HasKeyed)
  BY <1>0, <1>1, <1>2, AuPosts
<1>4. SlotTypes'
  BY <1>0, <1>1, <1>3, IoTypes
<1>5. KeyOrder'
  BY <1>0, <1>1, <1>3 DEF KeyOrder, IoEnv
<1>6. Watching'
  BY <1>0, <1>1 DEF Watching
<1>7. Paced'
  BY <1>0, <1>1, <1>3 DEF Paced, IoEnv
<1> QED
  BY <1>4, <1>5, <1>6, <1>7 DEF SlotSafe

LEMMA SafeBegin == SlotSafe /\ S!BeginScheduledDigitalAudio => SlotSafe'
<1> SUFFICES ASSUME SlotSafe, S!BeginScheduledDigitalAudio PROVE SlotSafe'
  OBVIOUS
<1>0. /\ SlotTypes /\ KeyOrder /\ Watching /\ Paced /\ generation \in Seq(IoCalls) /\ pending \in Seq(AuCalls)
      /\ ui \in Nat \ {0} /\ screen \in LineRecords /\ io \in IoRecords /\ mode \in BOOLEAN
  BY DEF SlotSafe, SlotTypes
<1>1. S!IoTakes("key") /\ IoEnv
  BY <1>0, BeginDoes
<1>2. /\ generation' \in Seq(IoCalls) /\ HasKey /\ ~HasKey' /\ (HasFrame' => HasFrame) /\ Once(generation, {"key"})'
  BY <1>0, <1>1, IoTakesOne DEF KeyOrder
<1>3. CASE capture.phase = "Idle"
  <2>1. UNCHANGED <<io, mode, screen, pending>> /\ (HasKeyed' <=> HasKeyed)
    BY <1>0, <1>3, BeginDoes, QueuesStay
  <2>2. SlotTypes'
    BY <1>0, <1>1, <1>2, <2>1, IoTypes
  <2>3. KeyOrder'
    BY <1>0, <1>1, <1>2, <2>1 DEF KeyOrder, IoEnv
  <2>4. Watching'
    BY <1>0, <1>1, <2>1 DEF Watching, Deadline, IoEnv
  <2>5. Paced'
    BY <1>0, <1>1, <1>2, <2>1 DEF Paced, IoEnv
  <2> QED
    BY <2>2, <2>3, <2>4, <2>5 DEF SlotSafe
<1>4. CASE capture.phase # "Idle"
  <2>1. /\ io' \in IoRecords /\ io'.gate /\ io'.started = ui /\ io'.watch = ui + 5 /\ io'.lastAudio = io.lastAudio
        /\ mode' = TRUE /\ pending' = Append(pending, "keyed")
        /\ screen' \in LineRecords /\ screen'.keyed = ui /\ screen'.first = screen.first /\ screen'.last = screen.last
    BY <1>0, <1>4, BeginDoes
  <2>2. "keyed" \in AuCalls
    BY DEF AuCalls
  <2>3. pending' \in Seq(AuCalls)
    BY <1>0, <2>1, <2>2, AuPosts
  <2>4. SlotTypes'
    BY <1>0, <1>1, <1>2, <2>1, <2>3, IoTypes
  <2>5. capture.keyed = 0 /\ capture.phase # "Waiting" /\ ~HasFrame /\ screen.first = 0 /\ screen.last = 0
        /\ capture.phase \notin {"Audio", "Drain", "Unkeying"}
    BY <1>0, <1>2 DEF KeyOrder
  <2>6. KeyOrder'
    BY <1>0, <1>1, <1>2, <2>1, <2>5 DEF KeyOrder, IoEnv
  <2>7. Watching'
    <3>1. Deadline' = ui + 120
      BY <2>1, <2>5 DEF Deadline
    <3>2. posted.lag \in Nat /\ worker \in Nat /\ worker <= posted.lag
      BY <1>0, SlotDelay DEF SlotTypes
    <3>3. io'.gate /\ screen'.keyed # 0 /\ io'.started = screen'.keyed /\ io'.watch # 0
      BY <1>0, <2>1
    <3>4. io'.watch <= ui' + 5 /\ io'.watch <= Deadline' + 5 /\ ui' <= io'.watch + (posted.lag' - worker')
      BY <1>0, <1>1, <2>1, <3>1, <3>2 DEF IoEnv
    <3> QED
      BY <1>0, <2>1, <3>3, <3>4 DEF Watching
  <2>8. Paced'
    BY <1>0, <1>1, <1>2, <2>1, <2>5 DEF Paced, IoEnv
  <2> QED
    BY <2>4, <2>6, <2>7, <2>8 DEF SlotSafe
<1> QED
  BY <1>3, <1>4

LEMMA SafeSend == ASSUME SlotSafe, NEW call, S!SendDigitalAudio(call) PROVE SlotSafe'
<1>0. /\ SlotTypes /\ KeyOrder /\ Watching /\ Paced /\ generation \in Seq(IoCalls) /\ pending \in Seq(AuCalls)
      /\ ui \in Nat \ {0} /\ screen \in LineRecords /\ io \in IoRecords /\ mode \in BOOLEAN /\ capture \in TxRecords
  BY DEF SlotSafe, SlotTypes
<1>1. S!IoTakes(call) /\ IoEnv /\ call \in {"frame", "final"}
  BY <1>0, SendDoes
<1>2. /\ generation' \in Seq(IoCalls) /\ (HasKey' => HasKey) /\ HasFrame /\ (HasFrame' => HasFrame) /\ Once(generation, {"key"})'
  BY <1>0, <1>1, IoTakesOne DEF KeyOrder
<1>3. CASE UNCHANGED <<io, mode, screen, pending>>
  <2>1. HasKeyed' <=> HasKeyed
    BY <1>3, QueuesStay
  <2>2. SlotTypes'
    BY <1>0, <1>1, <1>2, <1>3, IoTypes
  <2>3. KeyOrder'
    BY <1>0, <1>1, <1>2, <1>3, <2>1 DEF KeyOrder, IoEnv
  <2>4. Watching'
    BY <1>0, <1>1, <1>3 DEF Watching, Deadline, IoEnv
  <2>5. Paced'
    BY <1>0, <1>1, <1>2, <1>3 DEF Paced, IoEnv
  <2> QED
    BY <2>2, <2>3, <2>4, <2>5 DEF SlotSafe
<1>4. CASE \E why \in {"stream", "cancelled", "stalled", "drain"} : S!Trip(io, why)
  BY <1>1, <1>2, <1>4, SafeTrip
<1>5. CASE /\ io.gate
           /\ io' \in IoRecords /\ io'.gate /\ io'.started = io.started /\ io'.watch = io.watch
           /\ io'.lastAudio = ui
           /\ screen' \in LineRecords /\ screen'.keyed = screen.keyed /\ screen'.last = ui
           /\ screen'.first = (IF screen.first = 0 THEN ui ELSE screen.first)
           /\ mode' = mode /\ pending' = pending
  <2>1. HasKeyed' <=> HasKeyed
    BY <1>5, QueuesStay
  <2>2. SlotTypes'
    BY <1>0, <1>1, <1>2, <1>5, IoTypes
  <2>3. capture.keyed # 0 /\ ui >= capture.keyed + 50 /\ capture.phase \notin {"Waiting", "Keying"} /\ ui + worker <= capture.start + SlotWave - 1 + posted.lag
    BY <1>0, <1>2 DEF KeyOrder, Paced
  <2>4. KeyOrder'
    BY <1>0, <1>1, <1>2, <1>5, <2>1, <2>3 DEF KeyOrder, IoEnv
  <2>5. Watching'
    <3>1. Deadline' = ui + 40
      BY <1>0, <1>5 DEF Deadline
    <3>2. io.watch \in Nat /\ io.watch <= ui + 5 /\ io.watch # 0 /\ io.started = screen.keyed /\ screen.keyed # 0
          /\ ui <= io.watch + (posted.lag - worker)
      BY <1>0, <1>5 DEF IoRecords, Watching
    <3>3. io'.watch <= ui' + 5 /\ io'.watch <= Deadline' + 5 /\ ui' <= io'.watch + (posted.lag' - worker')
      BY <1>0, <1>1, <1>5, <3>1, <3>2 DEF IoEnv
    <3> QED
      BY <1>5, <3>2, <3>3 DEF Watching
  <2>6. Paced'
    <3>1. worker \in Nat /\ posted.lag \in Nat /\ capture.start \in Nat /\ SlotWave \in Nat
      BY <1>0, SlotDelay, SlotConstants DEF TxRecords
    <3>2. ui <= capture.start + SlotWave - 1 + posted.lag
      BY <1>0, <2>3, <3>1
    <3> QED
      BY <1>0, <1>1, <1>2, <1>5, <3>2 DEF Paced, IoEnv
  <2> QED
    BY <2>2, <2>4, <2>5, <2>6 DEF SlotSafe
<1> QED
  BY <1>0, <1>3, <1>4, <1>5, SendDoes

LEMMA SafeDrained == SlotSafe /\ S!Drained => SlotSafe'
<1> SUFFICES ASSUME SlotSafe, S!Drained PROVE SlotSafe'
  OBVIOUS
<1>0. /\ SlotTypes /\ KeyOrder /\ Watching /\ Paced /\ generation \in Seq(IoCalls) /\ pending \in Seq(AuCalls)
      /\ ui \in Nat /\ screen \in LineRecords /\ mode \in BOOLEAN
  BY DEF SlotSafe, SlotTypes
<1>1. /\ IoEnv /\ UNCHANGED <<mode, screen, generation>>
      /\ io' \in IoRecords /\ io'.gate = io.gate /\ io'.started = io.started /\ io'.watch = io.watch
      /\ io'.lastAudio = io.lastAudio /\ pending' = Append(pending, "accepted")
  BY <1>0, DrainedDoes
<1>2. "accepted" \in AuCalls
  BY DEF AuCalls
<1>3. pending' \in Seq(AuCalls) /\ (HasKeyed' <=> HasKeyed)
  BY <1>0, <1>1, <1>2, AuPosts
<1>4. (HasKey' <=> HasKey) /\ (HasFrame' <=> HasFrame) /\ (Once(generation, {"key"})' <=> Once(generation, {"key"}))
  BY <1>1, QueuesStay
<1>5. SlotTypes'
  BY <1>0, <1>1, <1>3, IoTypes
<1>6. KeyOrder'
  BY <1>0, <1>1, <1>3, <1>4 DEF KeyOrder, IoEnv
<1>7. Watching'
  BY <1>0, <1>1 DEF Watching, Deadline, IoEnv
<1>8. Paced'
  BY <1>0, <1>1, <1>4 DEF Paced, IoEnv
<1> QED
  BY <1>5, <1>6, <1>7, <1>8 DEF SlotSafe

LEMMA SafeTimeout == SlotSafe /\ S!DrainTimeout => SlotSafe'
<1> SUFFICES ASSUME SlotSafe, S!DrainTimeout PROVE SlotSafe'
  OBVIOUS
<1>1. S!Trip(io, "drain") /\ IoEnv /\ generation' = generation
  BY Rests DEF S!DrainTimeout
<1>2. (HasKey' <=> HasKey) /\ (HasFrame' <=> HasFrame) /\ Once(generation, {"key"})' /\ generation' \in Seq(IoCalls)
  BY <1>1, QueuesStay DEF SlotSafe, SlotTypes, KeyOrder
<1> QED
  BY <1>1, <1>2, SafeTrip

LEMMA SafeService == SlotSafe /\ S!ServiceDigitalTxProtection => SlotSafe'
<1> SUFFICES ASSUME SlotSafe, S!ServiceDigitalTxProtection PROVE SlotSafe'
  OBVIOUS
<1>0. /\ SlotTypes /\ KeyOrder /\ Watching /\ Paced /\ generation \in Seq(IoCalls) /\ pending \in Seq(AuCalls)
      /\ ui \in Nat /\ screen \in LineRecords /\ io \in IoRecords /\ mode \in BOOLEAN
  BY DEF SlotSafe, SlotTypes
<1>1. IoEnv /\ generation' = generation /\ io.watch # 0
  BY <1>0, ServiceDoes
<1>2. (HasKey' <=> HasKey) /\ (HasFrame' <=> HasFrame) /\ Once(generation, {"key"})' /\ generation' \in Seq(IoCalls)
  BY <1>0, <1>1, QueuesStay DEF KeyOrder
<1>3. CASE \E why \in {"stream", "cancelled", "stalled", "drain"} : S!Trip(io, why)
  BY <1>1, <1>2, <1>3, SafeTrip
<1>4. CASE /\ mode /\ ~S!StreamLate /\ UNCHANGED <<mode, screen, pending>>
           /\ io' \in IoRecords /\ io'.gate = io.gate /\ io'.started = io.started /\ io'.watch = ui + 5
           /\ io'.lastAudio = io.lastAudio
  <2>1. HasKeyed' <=> HasKeyed
    BY <1>4, QueuesStay
  <2>2. SlotTypes'
    BY <1>0, <1>1, <1>2, <1>4, IoTypes
  <2>3. KeyOrder'
    BY <1>0, <1>1, <1>2, <1>4, <2>1 DEF KeyOrder, IoEnv
  <2>4. Watching'
    <3>1. IF io.lastAudio = 0 THEN ~(ui - io.started >= 120) ELSE ~(ui - io.lastAudio >= 40)
      BY <1>4, SlotNumbers DEF S!StreamLate
    <3>2. /\ posted.lag \in Nat /\ worker \in Nat /\ worker <= posted.lag /\ io.started \in Nat /\ io.lastAudio \in Nat
          /\ screen.keyed \in Nat /\ screen.last \in Nat
      BY <1>0, SlotDelay DEF SlotTypes, IoRecords, LineRecords
    <3>3. Deadline' = Deadline /\ io.lastAudio = screen.last
      BY <1>0, <1>4 DEF Deadline, Watching
    <3>4. ASSUME io.gate PROVE io'.watch <= ui' + 5 /\ io'.watch <= Deadline' + 5 /\ ui' <= io'.watch + (posted.lag' - worker')
      <4>1. io.started = screen.keyed
        BY <1>0, <3>4 DEF Watching
      <4>2. ui <= Deadline
        BY <1>0, <3>1, <3>2, <3>3, <4>1 DEF Deadline
      <4>3. Deadline \in Int
        BY <3>2 DEF Deadline
      <4> QED
        BY <1>0, <1>1, <1>4, <3>2, <3>3, <4>2, <4>3 DEF IoEnv
    <3>5. ui + 5 # 0
      BY <1>0
    <3> QED
      BY <1>0, <1>4, <3>4, <3>5 DEF Watching
  <2>5. Paced'
    BY <1>0, <1>1, <1>2, <1>4 DEF Paced, IoEnv
  <2> QED
    BY <2>2, <2>3, <2>4, <2>5 DEF SlotSafe
<1> QED
  BY <1>0, <1>3, <1>4, ServiceDoes

LEMMA SafeStop == SlotSafe /\ S!StopScheduledDigitalAudio => SlotSafe'
<1> SUFFICES ASSUME SlotSafe, S!StopScheduledDigitalAudio PROVE SlotSafe'
  OBVIOUS
<1>0. SlotTypes /\ KeyOrder /\ Watching /\ Paced /\ generation \in Seq(IoCalls) /\ pending \in Seq(AuCalls) /\ ui \in Nat
      /\ capture.keyed \in Nat /\ screen.first \in Nat
  BY DEF SlotSafe, SlotTypes, TxRecords, LineRecords
<1>1. /\ S!IoTakes("unkey") /\ IoEnv /\ io' \in IoRecords /\ ~io'.gate /\ io'.lastAudio = io.lastAudio
      /\ mode' = FALSE /\ pending' = Append(pending, "unkeyed")
      /\ screen' \in LineRecords /\ screen'.keyed = 0 /\ screen'.first = screen.first /\ screen'.last = screen.last
  BY <1>0, StopDoes
<1>2. "unkeyed" \in AuCalls
  BY DEF AuCalls
<1>3. pending' \in Seq(AuCalls) /\ (HasKeyed' <=> HasKeyed)
  BY <1>0, <1>1, <1>2, AuPosts
<1>4. generation' \in Seq(IoCalls) /\ (HasKey' => HasKey) /\ (HasFrame' => HasFrame) /\ Once(generation, {"key"})'
  BY <1>0, <1>1, IoTakesOne DEF KeyOrder
<1>5. SlotTypes'
  BY <1>0, <1>1, <1>3, <1>4, IoTypes
<1>6. KeyOrder'
  BY <1>0, <1>1, <1>3, <1>4 DEF KeyOrder, IoEnv
<1>7. Watching'
  BY <1>0, <1>1 DEF Watching
<1>8. Paced'
  BY <1>0, <1>1, <1>4 DEF Paced, IoEnv
<1> QED
  BY <1>5, <1>6, <1>7, <1>8 DEF SlotSafe

\* Nothing that is due is left lying for longer than the event loops are late.
LEMMA SafeTime == SlotSafe /\ S!Tick => SlotSafe'
<1> SUFFICES ASSUME SlotSafe, S!Tick PROVE SlotSafe'
  OBVIOUS
<1>0. /\ SlotTypes /\ KeyOrder /\ Watching /\ Paced /\ generation \in Seq(IoCalls) /\ pending \in Seq(AuCalls)
      /\ ui \in Nat \ {0} /\ screen \in LineRecords /\ io \in IoRecords /\ mode \in BOOLEAN /\ capture \in TxRecords
  BY DEF SlotSafe, SlotTypes
<1>1. /\ ui' = ui + 1 /\ UNCHANGED <<capture, mode, generation, pending, screen, posted>>
      /\ worker' \in 0 .. posted.lag /\ taking' \in 0 .. posted.stall
      /\ \/ S!Idle
         \/ worker' = worker - 1
      /\ io' \in IoRecords /\ io'.gate = io.gate /\ io'.started = io.started /\ io'.watch = io.watch
      /\ io'.lastAudio = io.lastAudio
  BY <1>0, TimeDoes
<1>9. posted.lag \in Nat /\ worker \in Nat /\ SlotWave \in Nat /\ worker <= posted.lag
  BY <1>0, SlotDelay, SlotConstants DEF SlotTypes
<1>10. worker' \in Nat /\ worker' <= posted.lag
  BY <1>1, <1>9
<1>11. capture.start \in Nat /\ capture.emitted \in Nat /\ io.watch \in Nat
  BY <1>0, SlotConstants DEF TxRecords, IoRecords
<1>2. /\ posted.lag \in Nat /\ worker \in Nat /\ worker' \in Nat /\ worker' <= posted.lag /\ capture.start \in Nat /\ capture.emitted \in Nat
      /\ io.watch \in Nat /\ SlotWave \in Nat
  BY <1>9, <1>10, <1>11
<1>3. (HasKey' <=> HasKey) /\ (HasFrame' <=> HasFrame) /\ (Once(generation, {"key"})' <=> Once(generation, {"key"})) /\ (HasKeyed' <=> HasKeyed)
  BY <1>1, QueuesStay
<1>4. SlotTypes'
  BY <1>0, <1>1 DEF SlotTypes
<1>5. KeyOrder'
  <2>1. capture.keyed \in Nat /\ screen.keyed \in Nat
    BY <1>0 DEF TxRecords, LineRecords
  <2>2. screen.keyed <= ui => screen.keyed <= ui'
    BY <1>0, <1>1, <2>1
  <2>3. capture.keyed <= ui => capture.keyed <= ui'
    BY <1>0, <1>1, <2>1
  <2>4. ui >= capture.keyed + 50 => ui' >= capture.keyed + 50
    BY <1>0, <1>1, <2>1
  <2> QED
    BY <1>0, <1>1, <1>3, <2>2, <2>3, <2>4 DEF KeyOrder
<1>6. Watching'
  <2>1. Deadline' = Deadline
    BY <1>1 DEF Deadline
  <2>2. ASSUME io.gate PROVE io'.watch <= ui' + 5 /\ ui' <= io'.watch + (posted.lag' - worker')
    <3>1. io.watch # 0 /\ io.watch <= ui + 5 /\ ui <= io.watch + (posted.lag - worker)
      BY <1>0, <2>2 DEF Watching
    <3>2. S!Idle => ui < io.watch
      BY <1>0, <1>2, <3>1, SlotNumbers DEF S!Idle, S!IoDue, S!WatchdogDue
    <3>3. PICK left \in Nat : left = worker'
      BY <1>2
    <3>4. left <= posted.lag /\ (S!Idle \/ left = worker - 1)
      BY <1>1, <1>2, <3>3
    <3>5. ui + 1 <= io.watch + (posted.lag - left) /\ io.watch <= ui + 1 + 5
      BY <1>0, <1>2, <3>1, <3>2, <3>4, SMTT(30)
    <3> QED
      BY <1>1, <3>3, <3>5
  <2> QED
    BY <1>0, <1>1, <2>1, <2>2 DEF Watching
<1>7. Paced'
  <2>1. ASSUME capture.phase = "Audio" PROVE ui' + worker' <= capture.start + capture.emitted + posted.lag
    <3>1. ui + worker <= capture.start + capture.emitted + posted.lag
      BY <1>0, <2>1 DEF Paced
    <3>2. S!Idle => ui < capture.start + capture.emitted
      BY <1>0, <1>2, <2>1 DEF S!Idle, S!TxDue, S!FrameDue
    <3> QED
      BY <1>0, <1>1, <1>2, <3>1, <3>2, SMTT(30)
  <2>2. ASSUME HasFrame PROVE ui' + worker' <= capture.start + SlotWave - 1 + posted.lag
    <3>1. ui + worker <= capture.start + SlotWave - 1 + posted.lag
      BY <1>0, <2>2 DEF Paced
    <3>2. ~S!Idle
      BY <2>2 DEF S!Idle, HasFrame, Has
    <3> QED
      BY <1>0, <1>1, <1>2, <3>1, <3>2, SMTT(30)
  <2> QED
    BY <1>0, <1>1, <1>3, <2>1, <2>2 DEF Paced
<1> QED
  BY <1>4, <1>5, <1>6, <1>7 DEF SlotSafe

LEMMA SafeNext == SlotSafe /\ S!Next => SlotSafe'
<1> SUFFICES ASSUME SlotSafe, S!Next PROVE SlotSafe'
  OBVIOUS
<1> QED
  BY SafeTicks, SafeReplies, SafeCancel, SafeBegin, SafeStop, SafeSend, SafeDrained, SafeTimeout, SafeService, SafeTime
  DEF S!Next

----------------------------------------------------------------------------
(* A punctual transmission, stage by stage. *)
LEMMA Quiet ==
  /\ generation = <<>> => ~S!BeginScheduledDigitalAudio /\ ~S!StopScheduledDigitalAudio
  /\ generation = <<>> => \A call : ~S!SendDigitalAudio(call)
  /\ pending = <<>> => ~S!Keyed /\ ~S!Accepted /\ ~S!Unkeyed /\ ~S!Cancel
  /\ io.drainBy = 0 => ~S!Drained /\ ~S!DrainTimeout
  /\ io.watch = 0 => ~S!ServiceDigitalTxProtection
  BY SlotNumbers DEF S!BeginScheduledDigitalAudio, S!StopScheduledDigitalAudio, S!SendDigitalAudio, S!IoTakes,
       S!Keyed, S!Accepted, S!Unkeyed, S!Cancel, S!AuTakes, S!Drained, S!DrainTimeout, S!Polls,
       S!ServiceDigitalTxProtection, S!WatchdogDue

LEMMA OneCall ==
  ASSUME SlotSafe, NEW c
  PROVE  /\ generation = <<c>> =>
              /\ S!BeginScheduledDigitalAudio => c = "key" /\ generation' = <<>>
              /\ S!StopScheduledDigitalAudio => c = "unkey" /\ generation' = <<>>
              /\ \A call : S!SendDigitalAudio(call) => c = call /\ generation' = <<>>
         /\ pending = <<c>> =>
              /\ S!Keyed => c = "keyed" /\ pending' = <<>> /\ AuEnv
              /\ S!Accepted => c = "accepted" /\ pending' = <<>> /\ AuEnv
              /\ S!Unkeyed => c = "unkeyed" /\ pending' = <<>> /\ AuEnv
              /\ S!Cancel => c = "cancel"
<1>1. generation \in Seq(IoCalls) /\ pending \in Seq(AuCalls)
  BY DEF SlotSafe, SlotTypes
<1>2. ASSUME generation = <<c>>, NEW d, S!IoTakes(d) PROVE c = d /\ generation' = <<>>
  BY <1>1, <1>2, IoTakesOne
<1>3. ASSUME pending = <<c>>, NEW d, S!AuTakes(d) PROVE c = d /\ pending' = <<>> /\ AuEnv
  BY <1>1, <1>3, AuTakesOne DEF AuEnv
<1> QED
  BY <1>2, <1>3 DEF S!BeginScheduledDigitalAudio, S!StopScheduledDigitalAudio, S!SendDigitalAudio,
       S!Keyed, S!Accepted, S!Unkeyed, S!Cancel

LEMMA PostsOne ==
  /\ generation = <<>> => \A c : generation' = Append(generation, c) => generation' = <<c>>
  /\ pending = <<>> => \A c : pending' = Append(pending, c) => pending' = <<c>>
  BY FirstPost

\* The ticks of the transmitter, by its phase.
LEMMA Phases ==
  ASSUME SlotSafe, S!TxTick
  PROVE  /\ AuEnv /\ pending' = pending
         /\ \/ capture.phase = "Waiting" /\ S!TickKey
            \/ capture.phase = "Keying" /\ capture.keyed # 0 /\ S!TickStart
            \/ capture.phase = "Audio" /\ S!TickFrame
            \/ capture.phase = "Drain" /\ capture.drain # 0 /\ ui >= capture.drain /\ S!TickUnkey
            \/ S!MustFail
  BY Rests, SlotNumbers DEF S!TxTick, S!TickFail, S!TickKey, S!KeyTime, S!TickStart, S!KeyedUp, S!TickFrame, S!TickUnkey

LEMMA Failures ==
  ASSUME SlotSafe, S!MustFail
  PROVE  \/ capture.phase = "Waiting" /\ ui - capture.start + SlotOffset >= S!LatestStart
         \/ /\ capture.phase = "Keying" /\ ui >= capture.start
            /\ ui > capture.start + SlotWave - 2 \/ ui - capture.keyRequest > 150
         \/ capture.phase = "Keying" /\ capture.keyed # 0 /\ ~mode
         \/ capture.phase \in {"Audio", "Drain"} /\ ~mode
         \/ capture.phase = "Audio" /\ ui - (capture.start + capture.emitted) > S!Larger(8, SlotFrame)
         \/ capture.phase = "Drain" /\ ui > capture.start + SlotWave + 150
         \/ capture.phase = "Unkeying" /\ ui > capture.drain + 200
  BY SlotNumbers DEF S!MustFail, S!KeyTime, S!TooLateToKey, S!KeyingExpired, S!KeyedUp, S!PacingMissed, S!FrameDue, S!DrainExpired

\* What a punctual transmission may count on.
LEMMA OnTime ==
  ASSUME SlotSafe, S!Punctual
  PROVE  /\ posted.lag \in Nat /\ posted.stall \in Nat /\ worker \in Nat /\ taking \in Nat /\ worker <= posted.lag /\ taking <= posted.stall
         /\ posted.lag <= 3 /\ posted.lag < SlotFrame /\ posted.stall <= 8 /\ posted.lag + posted.stall < 5 * SlotFrame
         /\ SlotFrame \in {2, 4, 6, 12} /\ SlotFrame \in Nat /\ SlotWave \in Nat /\ SlotWave > 5 /\ SlotStart \in Nat /\ SlotOffset \in Nat
         /\ capture.start \in Nat /\ capture.start = SlotStart + SlotOffset
         /\ ui \in Nat /\ ui # 0 /\ capture.keyRequest \in Nat /\ capture.keyed \in Nat /\ capture.emitted \in Nat /\ capture.drain \in Nat
         /\ io.started \in Nat /\ io.lastAudio \in Nat /\ io.pending \in Nat /\ io.watch \in Nat /\ io.drainBy \in Nat
<1>1. SlotTypes
  BY DEF SlotSafe
<1>2. /\ posted.lag <= 3 /\ posted.lag < SlotFrame /\ posted.stall <= 8 /\ posted.lag + posted.stall < (4 + 1) * SlotFrame
  BY SlotNumbers DEF S!Punctual
<1>3. (4 + 1) * SlotFrame = 5 * SlotFrame /\ SlotFrame \in Nat
  BY SlotConstants
<1>4. posted.lag \in Nat /\ posted.stall \in Nat /\ worker \in Nat /\ taking \in Nat /\ worker <= posted.lag /\ taking <= posted.stall
  BY <1>1, SlotDelay DEF SlotTypes
<1>5. capture \in TxRecords /\ io \in IoRecords /\ ui \in Nat /\ ui # 0 /\ capture.start = SlotStart + SlotOffset
  BY <1>1 DEF SlotTypes
<1>6. capture.start \in Nat /\ capture.keyRequest \in Nat /\ capture.keyed \in Nat /\ capture.emitted \in Nat /\ capture.drain \in Nat
  BY <1>5, SlotConstants DEF TxRecords
<1>7. io.started \in Nat /\ io.lastAudio \in Nat /\ io.pending \in Nat /\ io.watch \in Nat /\ io.drainBy \in Nat
  BY <1>5, SlotNumbers DEF IoRecords
<1> QED
  BY <1>2, <1>3, <1>4, <1>5, <1>6, <1>7, SlotConstants

LEMMA TimeRuns ==
  ASSUME SlotSafe, S!Punctual, S!Tick
  PROVE  /\ ui' = ui + 1 /\ UNCHANGED <<capture, mode, generation, pending, screen, posted>>
         /\ worker' \in Nat /\ worker' <= worker /\ taking' \in Nat /\ taking' <= taking
         /\ S!Idle \/ (ui' + worker' = ui + worker /\ worker' = worker - 1)
         /\ io'.gate = io.gate /\ io'.started = io.started /\ io'.watch = io.watch
         /\ io'.lastAudio = io.lastAudio /\ io'.drainBy = io.drainBy
         /\ io'.pending = 0 \/ (io'.pending = io.pending /\ taking' = taking - 1)
<1>1. SlotTypes /\ worker \in Nat /\ taking \in Nat /\ ui \in Nat /\ posted.lag \in Nat /\ posted.stall \in Nat
  BY OnTime DEF SlotSafe
<1>2. /\ ui' = ui + 1 /\ UNCHANGED <<capture, mode, generation, pending, screen, posted>>
      /\ worker' \in 0 .. posted.lag /\ taking' \in 0 .. posted.stall /\ taking' <= taking /\ worker' <= worker
      /\ \/ S!Idle
         \/ ~S!Idle /\ worker' = worker - 1
      /\ io'.gate = io.gate /\ io'.started = io.started /\ io'.watch = io.watch
      /\ io'.lastAudio = io.lastAudio /\ io'.drainBy = io.drainBy
      /\ \/ io'.pending = 0
         \/ io'.pending = io.pending /\ taking > 0 /\ taking' = taking - 1
  BY <1>1, TimeDoes
<1>3. worker' \in Nat /\ taking' \in Nat
  BY <1>1, <1>2
<1>4. S!Idle \/ (ui' + worker' = ui + worker /\ worker' = worker - 1)
  <2>1. PICK left \in Nat : left = worker'
    BY <1>3
  <2>2. left = worker - 1 => ui + 1 + left = ui + worker
    BY <1>1, <2>1
  <2> QED
    BY <1>2, <2>1, <2>2
<1> QED
  BY <1>2, <1>3, <1>4

LEMMA WatchRuns ==
  ASSUME SlotSafe, OnAir, ~S!StreamLate, S!ServiceDigitalTxProtection
  PROVE  /\ IoEnv /\ UNCHANGED <<mode, screen, generation, pending>>
         /\ io'.gate = io.gate /\ io'.started = io.started
         /\ io'.lastAudio = io.lastAudio /\ io'.pending = io.pending /\ io'.drainBy = io.drainBy
  BY ServiceDoes DEF SlotSafe, OnAir

LEMMA SendRuns ==
  ASSUME SlotSafe, OnAir, ~S!StreamLate, io.pending <= 4, NEW call \in {"frame", "final"}, S!SendDigitalAudio(call)
  PROVE  /\ IoEnv /\ io'.gate /\ io'.lastAudio = ui /\ io'.pending = io.pending + 1
         /\ io'.drainBy = (IF call = "final" THEN ui + 50 ELSE io.drainBy)
         /\ mode' = mode /\ pending' = pending
<1>1. SlotTypes /\ io.gate /\ mode
  BY DEF SlotSafe, OnAir
<1>2. ~(io.pending > 4)
  <2>1. io.pending \in Int
    BY <1>1, SlotNumbers DEF SlotTypes, IoRecords
  <2> QED
    BY <2>1
<1> QED
  BY <1>1, <1>2, SendDoes

\* Three twentieths after a time sixty before the slot's start are early enough.
LEMMA StillEarly ==
  ASSUME NEW t \in Nat, NEW left \in Nat, NEW first \in Nat, NEW off \in Nat, NEW latest \in Int,
         t < first + off - 60, off - 57 < latest, left <= 3
  PROVE  t + 1 + left < first + latest
  OBVIOUS

LEMMA FromWaiting == ASSUME SlotSafe, S!Punctual, WaitsForSlot, S!Next PROVE InTime'
<1>0. /\ capture.phase = "Waiting" /\ capture.result = "none" /\ generation = <<>> /\ pending = <<>> /\ Asleep /\ SlotTypes
      /\ ui + worker < SlotStart + S!LatestStart /\ io.watch = 0 /\ io.drainBy = 0 /\ io.pending = 0
  BY DEF WaitsForSlot, Calm, Asleep, Silent, SlotSafe
<1>1. /\ ui \in Nat /\ worker \in Nat /\ SlotStart \in Nat /\ SlotOffset \in Nat /\ capture.start = SlotStart + SlotOffset
      /\ SlotWave \in Nat /\ posted.lag \in Nat /\ posted.lag <= 3 /\ worker <= posted.lag
      /\ S!LatestStart \in Int /\ S!LatestStart <= SlotOffset + SlotWave - 60 /\ SlotOffset - 57 < S!LatestStart
  BY OnTime, SlotConstants
<1>2. S!TxTick \/ S!Tick
  BY <1>0, Quiet DEF S!Next
<1>3. CASE S!TxTick
  <2>1. ~S!MustFail
    BY <1>0, <1>1, Failures
  <2>2. AuEnv /\ pending' = pending /\ S!TickKey
    BY <1>0, <1>3, <2>1, Phases
  <2>3. /\ ui >= capture.start - 60 /\ capture'.phase = "Keying" /\ capture'.start = capture.start /\ capture'.keyRequest = ui
        /\ capture'.keyed = capture.keyed /\ capture'.drain = capture.drain /\ capture'.result = capture.result /\ generation' = Append(generation, "key")
    BY <1>0, <2>2, KeyTicks
  <2>4. generation' = <<"key">>
    BY <1>0, <2>3, PostsOne
  <2>5. ui + worker <= ui + 3 /\ ui + worker <= capture.start + SlotWave - 61 /\ ui >= ui
    BY <1>0, <1>1
  <2>6. Asleep' /\ Requested'
    BY <1>0, <2>2, <2>3 DEF Asleep, Silent, Requested, AuEnv
  <2>7. AsksForKey'
    BY <1>0, <2>2, <2>3, <2>4, <2>5, <2>6 DEF AsksForKey, Calm, AuEnv
  <2> QED
    BY <2>7 DEF InTime
<1>4. CASE S!Tick
  <2>1. /\ ui' = ui + 1 /\ UNCHANGED <<capture, mode, generation, pending, screen, posted>>
        /\ worker' \in Nat /\ worker' <= worker
        /\ S!Idle \/ ui' + worker' = ui + worker
        /\ io'.gate = io.gate /\ io'.watch = io.watch /\ io'.lastAudio = io.lastAudio /\ io'.drainBy = io.drainBy
        /\ io'.pending = 0
    BY <1>0, <1>4, TimeRuns
  <2>2. S!Idle => ui < capture.start - 60
    BY <1>0, <1>1, SlotNumbers DEF S!Idle, S!TxDue, S!KeyTime
  <2>3. ui' + worker' < SlotStart + S!LatestStart
    <3>1. PICK left \in Nat : left = worker'
      BY <2>1
    <3>2. PICK latest \in Int : latest = S!LatestStart
      BY <1>1
    <3>3. left <= 3 /\ left <= worker
      BY <1>1, <2>1, <3>1
    <3>4. ui + 1 + left < SlotStart + latest
      <4>1. CASE S!Idle
        <5>1. ui < SlotStart + SlotOffset - 60 /\ SlotOffset - 57 < latest
          BY <1>1, <2>2, <3>2, <4>1
        <5>2. PICK t \in Nat : t = ui
          BY <1>1
        <5>3. PICK first \in Nat, off \in Nat : first = SlotStart /\ off = SlotOffset
          BY <1>1
        <5>4. t < first + off - 60 /\ off - 57 < latest
          BY <5>1, <5>2, <5>3
        <5>5. left <= 3
          BY <3>3
        <5>6. t + 1 + left < first + latest
          BY <3>1, <3>2, <5>2, <5>3, <5>4, <5>5, StillEarly
        <5> QED
          BY <5>2, <5>3, <5>6
      <4>2. CASE ui' + worker' = ui + worker
        <5>1. ui + 1 + left = ui + worker /\ ui + worker < SlotStart + latest
          BY <1>0, <2>1, <3>1, <3>2, <4>2
        <5> QED
          BY <5>1
      <4> QED
        BY <2>1, <4>1, <4>2
    <3> QED
      BY <2>1, <3>1, <3>2, <3>4
  <2>4. Asleep'
    BY <1>0, <2>1 DEF Asleep, Silent
  <2>5. SlotStart' = SlotStart /\ S!LatestStart' = S!LatestStart
    BY DEF S!LatestStart, S!Smaller
  <2>6. WaitsForSlot'
    BY <1>0, <2>1, <2>3, <2>4, <2>5 DEF WaitsForSlot, Calm
  <2> QED
    BY <2>6 DEF InTime
<1> QED
  BY <1>2, <1>3, <1>4

LEMMA FromAsking == ASSUME SlotSafe, S!Punctual, AsksForKey, S!Next PROVE InTime'
<1>0. /\ capture.phase = "Keying" /\ capture.result = "none" /\ generation = <<"key">> /\ pending = <<>> /\ Asleep /\ Requested /\ SlotTypes
      /\ ui + worker <= capture.keyRequest + 3 /\ ui + worker <= capture.start + SlotWave - 61 /\ ui >= capture.keyRequest
      /\ io.watch = 0 /\ io.drainBy = 0 /\ io.pending = 0 /\ capture.keyed = 0 /\ capture.drain = 0 /\ io.lastAudio = 0 /\ ~io.gate
  BY DEF AsksForKey, Calm, Asleep, Silent, SlotSafe
<1>1. ui \in Nat /\ worker \in Nat /\ capture.start \in Nat /\ capture.keyRequest \in Nat /\ SlotWave \in Nat
  BY OnTime
<1>6. S!BeginScheduledDigitalAudio => generation' = <<>>
  BY <1>0, OneCall
<1>7. ~S!StopScheduledDigitalAudio /\ \A call \in {"frame", "final"} : ~S!SendDigitalAudio(call)
  BY <1>0, OneCall
<1>2. S!TxTick \/ S!Tick \/ (S!BeginScheduledDigitalAudio /\ generation' = <<>>)
  BY <1>0, <1>6, <1>7, Quiet DEF S!Next
<1>3. CASE S!TxTick
  <2>1. ~S!MustFail
    BY <1>0, <1>1, Failures
  <2> QED
    BY <1>0, <1>3, <2>1, Phases
<1>4. CASE S!Tick
  <2>1. /\ ui' = ui + 1 /\ UNCHANGED <<capture, mode, generation, pending, screen, posted>>
        /\ S!Idle \/ ui' + worker' = ui + worker
        /\ io'.gate = io.gate /\ io'.watch = io.watch /\ io'.lastAudio = io.lastAudio /\ io'.drainBy = io.drainBy
        /\ io'.pending = 0
    BY <1>0, <1>4, TimeRuns
  <2>2. ui' + worker' = ui + worker
    BY <1>0, <2>1 DEF S!Idle
  <2>3. Asleep' /\ Requested'
    BY <1>0, <2>1 DEF Asleep, Silent, Requested
  <2>4. ui' >= capture.keyRequest
    BY <1>0, <1>1, <2>1
  <2>5. AsksForKey'
    BY <1>0, <2>1, <2>2, <2>3, <2>4 DEF AsksForKey, Calm
  <2> QED
    BY <2>5 DEF InTime
<1>5. CASE S!BeginScheduledDigitalAudio /\ generation' = <<>>
  <2>1. /\ IoEnv /\ io'.gate /\ io'.started = ui /\ io'.lastAudio = io.lastAudio /\ io'.drainBy = io.drainBy
        /\ io'.pending = io.pending /\ mode' = TRUE /\ pending' = Append(pending, "keyed")
    BY <1>0, <1>5, BeginDoes
  <2>2. pending' = <<"keyed">>
    BY <1>0, <2>1, PostsOne
  <2>3. OnAir' /\ NoAudio' /\ Requested'
    <3>1. ui >= capture.keyRequest /\ ui <= ui
      BY <1>0, <1>1
    <3> QED
      BY <1>0, <2>1, <3>1 DEF OnAir, NoAudio, Requested, IoEnv
  <2>4. KeyIsDown'
    BY <1>0, <1>5, <2>1, <2>2, <2>3 DEF KeyIsDown, Calm, IoEnv
  <2> QED
    BY <2>4 DEF InTime
<1> QED
  BY <1>2, <1>3, <1>4, <1>5

LEMMA FromKeyed == ASSUME SlotSafe, S!Punctual, KeyIsDown, S!Next PROVE InTime'
<1>0. /\ capture.phase = "Keying" /\ generation = <<>> /\ pending = <<"keyed">> /\ OnAir /\ NoAudio /\ Requested /\ SlotTypes /\ capture.keyed = 0
      /\ ui + worker <= capture.keyRequest + 3 /\ ui + worker <= capture.start + SlotWave - 61
      /\ io.drainBy = 0 /\ io.pending = 0 /\ io.lastAudio = 0 /\ mode /\ io.started >= capture.keyRequest /\ io.started <= ui
  BY DEF KeyIsDown, Calm, OnAir, NoAudio, SlotSafe
<1>1. /\ ui \in Nat /\ ui # 0 /\ worker \in Nat /\ capture.start \in Nat /\ capture.keyRequest \in Nat /\ SlotWave \in Nat
      /\ io.started \in Nat /\ worker <= 3
  BY OnTime
<1>7. (S!Keyed => pending' = <<>> /\ AuEnv) /\ ~S!Accepted /\ ~S!Unkeyed /\ ~S!Cancel
  BY <1>0, OneCall
<1>2. S!TxTick \/ S!Tick \/ S!ServiceDigitalTxProtection \/ (S!Keyed /\ pending' = <<>> /\ AuEnv)
  BY <1>0, <1>7, Quiet DEF S!Next
<1>3. CASE S!TxTick
  <2>1. ~S!MustFail
    BY <1>0, <1>1, Failures
  <2> QED
    BY <1>0, <1>3, <2>1, Phases
<1>4. CASE S!Tick
  <2>1. /\ ui' = ui + 1 /\ UNCHANGED <<capture, mode, generation, pending, screen, posted>>
        /\ S!Idle \/ ui' + worker' = ui + worker
        /\ io'.gate = io.gate /\ io'.started = io.started /\ io'.lastAudio = io.lastAudio /\ io'.drainBy = io.drainBy
        /\ io'.pending = 0
    BY <1>0, <1>4, TimeRuns
  <2>2. ui' + worker' = ui + worker
    BY <1>0, <2>1 DEF S!Idle
  <2>3. io.started <= ui'
    BY <1>0, <1>1, <2>1
  <2>4. OnAir' /\ NoAudio' /\ Requested'
    BY <1>0, <2>1, <2>3 DEF OnAir, NoAudio, Requested
  <2>5. KeyIsDown'
    BY <1>0, <2>1, <2>2, <2>4 DEF KeyIsDown, Calm
  <2> QED
    BY <2>5 DEF InTime
<1>5. CASE S!ServiceDigitalTxProtection
  <2>0. ~S!StreamLate
    BY <1>0, <1>1, SlotNumbers DEF S!StreamLate
  <2>1. /\ IoEnv /\ UNCHANGED <<mode, screen, generation, pending>>
        /\ io'.gate = io.gate /\ io'.started = io.started
        /\ io'.lastAudio = io.lastAudio /\ io'.pending = io.pending /\ io'.drainBy = io.drainBy
    BY <1>0, <1>5, <2>0, WatchRuns
  <2>2. OnAir' /\ NoAudio' /\ Requested'
    BY <1>0, <2>1 DEF OnAir, NoAudio, Requested, IoEnv
  <2>3. KeyIsDown'
    BY <1>0, <2>1, <2>2 DEF KeyIsDown, Calm, IoEnv
  <2> QED
    BY <2>3 DEF InTime
<1>6. CASE S!Keyed /\ pending' = <<>> /\ AuEnv
  <2>1. /\ capture'.phase = "Keying" /\ capture'.start = capture.start /\ capture'.keyRequest = capture.keyRequest
        /\ capture'.keyed = ui /\ capture'.drain = capture.drain /\ capture'.result = capture.result /\ mode' = mode /\ generation' = generation
    BY <1>0, <1>6, KeyedDoes
  <2>2. OnAir' /\ NoAudio' /\ Requested'
    BY <1>0, <1>6, <2>1 DEF OnAir, NoAudio, Requested, AuEnv
  <2>3. ui <= capture.keyRequest + 3 /\ ui <= capture.start + SlotWave - 61
    BY <1>0, <1>1
  <2>4. PICK k \in Int : k = ui + 50
    BY <1>1
  <2>7. capture.start \in Int
    BY <1>1
  <2>8. S!Larger(capture.start, k) >= k /\ S!Larger(capture.start, k) \in Int
    BY <2>4, <2>7, Extremes
  <2>9. ui + worker <= S!Larger(capture.start, k) + 3
    BY <1>1, <2>4, <2>8
  <2>5. ui + worker <= S!Larger(capture.start, ui + 50) + 3
    BY <2>4, <2>9
  <2>6. KeyRises'
    BY <1>0, <1>1, <1>6, <2>1, <2>2, <2>3, <2>5 DEF KeyRises, Calm, AuEnv, S!Larger
  <2> QED
    BY <2>6 DEF InTime
<1> QED
  BY <1>2, <1>3, <1>4, <1>5, <1>6

LEMMA FromRising == ASSUME SlotSafe, S!Punctual, KeyRises, S!Next PROVE InTime'
<1>0. /\ capture.phase = "Keying" /\ generation = <<>> /\ pending = <<>> /\ OnAir /\ NoAudio /\ Requested /\ SlotTypes /\ capture.keyed # 0
      /\ capture.keyed <= capture.keyRequest + 3 /\ capture.keyed <= capture.start + SlotWave - 61
      /\ ui + worker <= S!Larger(capture.start, capture.keyed + 50) + 3
      /\ io.drainBy = 0 /\ io.pending = 0 /\ io.lastAudio = 0 /\ mode /\ io.started >= capture.keyRequest /\ io.started <= ui
      /\ capture.keyRequest >= capture.start - 60 /\ capture.drain = 0
  BY DEF KeyRises, Calm, OnAir, NoAudio, SlotSafe, Requested
<1>1. /\ ui \in Nat /\ ui # 0 /\ worker \in Nat /\ capture.start \in Nat /\ capture.keyRequest \in Nat /\ SlotWave \in Nat /\ capture.keyed \in Nat
      /\ io.started \in Nat /\ worker <= 3 /\ worker <= posted.lag /\ posted.lag \in Nat /\ SlotWave > 5 /\ SlotFrame \in {2, 4, 6, 12}
  BY OnTime
<1>2. S!TxTick \/ S!Tick \/ S!ServiceDigitalTxProtection
  BY <1>0, Quiet DEF S!Next
<1>3. PICK k \in Int : k = capture.keyed + 50
  BY <1>1
<1>4. PICK from \in Int : from = S!Larger(capture.start, k) /\ from >= capture.start /\ from >= k /\ from \in {capture.start, k}
  <2>1. capture.start \in Int
    BY <1>1
  <2> QED
    BY <2>1, <1>3, Extremes, ZenonT(40)
<1>10. ui + worker <= from + 3
  BY <1>0, <1>3, <1>4
<1>11. from <= capture.keyRequest + 60 /\ from <= capture.start + SlotWave - 5
  <2>1. /\ capture.keyRequest >= capture.start - 60 /\ capture.keyed <= capture.keyRequest + 3 /\ capture.keyed <= capture.start + SlotWave - 61
        /\ capture.start \in Nat /\ capture.keyRequest \in Nat /\ SlotWave \in Nat /\ capture.keyed \in Nat /\ SlotWave > 5
    BY <1>0, <1>1
  <2>2. PICK s, r, d, w \in Nat : s = capture.start /\ r = capture.keyRequest /\ d = capture.keyed /\ w = SlotWave
    BY <2>1
  <2>3. r >= s - 60 /\ d <= r + 3 /\ d <= s + w - 61 /\ w > 5
    BY <2>1, <2>2
  <2>4. from = s \/ from = d + 50
    BY <1>3, <1>4, <2>2
  <2>5. from <= r + 60 /\ from <= s + w - 5
    BY <1>4, <2>2, <2>3, <2>4
  <2> QED
    BY <2>2, <2>5
<1>5. ui + worker <= from + 3 /\ from <= io.started + 60
  <2>1. io.started >= capture.keyRequest
    BY <1>0
  <2> QED
    BY <1>1, <1>4, <1>10, <1>11, <2>1
<1>6. ui <= capture.start + SlotWave - 2 /\ ui - capture.keyRequest <= 63 /\ ui + worker <= io.started + 63
  BY <1>1, <1>4, <1>5, <1>11
<1>7. CASE S!TxTick
  <2>1. ~S!MustFail
    BY <1>0, <1>1, <1>6, Failures, SMTT(30)
  <2>2. AuEnv /\ pending' = pending /\ S!TickStart
    BY <1>0, <1>7, <2>1, Phases
  <2>3. /\ ui >= capture.start /\ mode
        /\ capture'.start = capture.start /\ capture'.drain = capture.drain /\ capture'.result = capture.result /\ mode' = mode
        /\ capture'.emitted \in Nat
        /\ \/ /\ capture'.phase = "Audio" /\ capture'.emitted < SlotWave /\ capture'.emitted = ui - capture.start + SlotFrame
              /\ generation' = Append(generation, "frame")
           \/ capture'.phase = "Drain" /\ generation' = Append(generation, "final")
    BY <1>0, <2>2, StartTicks
  <2>4. OnItsWay(ui)'
    <3>1. ui >= ui /\ ui + worker <= ui + posted.lag
      BY <1>1
    <3> QED
      BY <1>0, <1>6, <2>2, <3>1 DEF OnItsWay, AuEnv
  <2>5. OnAir'
    BY <1>0, <2>2, <2>3 DEF OnAir, AuEnv
  <2>6. CASE /\ capture'.phase = "Audio" /\ capture'.emitted < SlotWave /\ capture'.emitted = ui - capture.start + SlotFrame
             /\ generation' = Append(generation, "frame")
    <3>1. generation' = <<"frame">>
      BY <1>0, <2>6, PostsOne
    <3>2. capture'.start + capture'.emitted - SlotFrame = ui
      <4>1. PICK e \in Nat : e = capture'.emitted
        BY <2>3
      <4>2. capture.start + e - SlotFrame = ui
        BY <1>1, <2>6, <4>1
      <4> QED
        BY <2>3, <4>1, <4>2
    <3>3. Last(ui)'
      BY <2>2, <3>2 DEF Last, AuEnv
    <3>4. Going'
      BY <1>0, <2>2, <2>3, <2>5, <2>6 DEF Going, AuEnv
    <3>5. FrameLeaves'
      BY <1>1, <2>2, <2>4, <3>1, <3>3, <3>4 DEF FrameLeaves, AuEnv
    <3> QED
      BY <3>5 DEF InTime
  <2>7. CASE capture'.phase = "Drain" /\ generation' = Append(generation, "final")
    <3>1. generation' = <<"final">>
      BY <1>0, <2>7, PostsOne
    <3>2. ui \in Int /\ ui <= capture.start + SlotWave
      BY <1>1, <1>6
    <3>3. Ends'
      BY <1>0, <2>2, <2>3, <2>4, <2>5, <2>7, <3>1, <3>2 DEF Ends, Calm, AuEnv
    <3> QED
      BY <3>3 DEF InTime
  <2> QED
    BY <2>3, <2>6, <2>7
<1>8. CASE S!Tick
  <2>1. /\ ui' = ui + 1 /\ UNCHANGED <<capture, mode, generation, pending, screen, posted>>
        /\ S!Idle \/ ui' + worker' = ui + worker
        /\ worker' \in Nat /\ worker' <= worker
        /\ io'.gate = io.gate /\ io'.started = io.started /\ io'.lastAudio = io.lastAudio /\ io'.drainBy = io.drainBy
        /\ io'.pending = 0
    BY <1>0, <1>8, TimeRuns
  <2>2. ui' + worker' <= from + 3
    <3>1. CASE S!Idle
      <4>1. ~S!KeyedUp /\ ~S!KeyingExpired
        BY <3>1 DEF S!Idle, S!TxDue, S!MustFail
      <4>2. ui < capture.start \/ ui - capture.keyed < 50
        BY <1>0, <1>1, <4>1, SlotNumbers DEF S!KeyedUp
      <4>3. ui + 1 <= from
        BY <1>1, <1>3, <1>4, <4>2
      <4>4. PICK left \in Nat : left = worker' /\ left <= 3
        BY <1>1, <2>1
      <4>5. ui + 1 + left <= from + 3
        <5>1. ui \in Nat
          BY <1>1
        <5> QED
          BY <1>4, <4>3, <4>4, <5>1
      <4> QED
        BY <2>1, <4>4, <4>5
    <3>2. CASE ui' + worker' = ui + worker
      BY <1>5, <3>2
    <3> QED
      BY <2>1, <3>1, <3>2
  <2>3. io.started <= ui'
    BY <1>0, <1>1, <2>1
  <2>4. OnAir' /\ NoAudio' /\ Requested'
    BY <1>0, <2>1, <2>3 DEF OnAir, NoAudio, Requested
  <2>5. S!Larger(capture.start, capture.keyed + 50)' = from
    BY <1>3, <1>4, <2>1 DEF S!Larger
  <2>6. KeyRises'
    BY <1>0, <2>1, <2>2, <2>4, <2>5 DEF KeyRises, Calm
  <2> QED
    BY <2>6 DEF InTime
<1>9. CASE S!ServiceDigitalTxProtection
  <2>0. ~S!StreamLate
    BY <1>0, <1>1, <1>6, SlotNumbers DEF S!StreamLate
  <2>1. /\ IoEnv /\ UNCHANGED <<mode, screen, generation, pending>>
        /\ io'.gate = io.gate /\ io'.started = io.started
        /\ io'.lastAudio = io.lastAudio /\ io'.pending = io.pending /\ io'.drainBy = io.drainBy
    BY <1>0, <1>9, <2>0, WatchRuns
  <2>2. OnAir' /\ NoAudio' /\ Requested'
    BY <1>0, <2>1 DEF OnAir, NoAudio, Requested, IoEnv
  <2>5. S!Larger(capture.start, capture.keyed + 50)' = S!Larger(capture.start, capture.keyed + 50)
    BY <2>1 DEF S!Larger, IoEnv
  <2>3. KeyRises'
    BY <1>0, <2>1, <2>2, <2>5 DEF KeyRises, Calm, IoEnv
  <2> QED
    BY <2>3 DEF InTime
<1> QED
  BY <1>2, <1>7, <1>8, <1>9

\* A packet on its way is not late for the guard, and the socket has room for it.
LEMMA WayIsClear ==
  ASSUME SlotSafe, S!Punctual, NEW at \in Int, OnItsWay(at)
  PROVE  /\ ~S!StreamLate /\ io.pending <= 4 /\ ui - at <= 3
         /\ ui + io.pending * SlotFrame <= at + posted.lag + posted.stall - taking \/ io.pending = 0
<1>1. /\ ui \in Nat /\ worker \in Nat /\ posted.lag \in Nat /\ posted.stall \in Nat /\ taking \in Nat /\ taking <= posted.stall /\ posted.lag <= 3
      /\ posted.lag + posted.stall < 5 * SlotFrame /\ SlotFrame \in {2, 4, 6, 12}
      /\ io.started \in Nat /\ io.lastAudio \in Nat /\ io.pending \in Nat
  BY OnTime
<1>2. /\ ui >= at /\ ui + worker <= at + posted.lag
      /\ io.lastAudio = 0 => io.pending = 0 /\ ui + worker <= io.started + 63
      /\ io.lastAudio # 0 => at - SlotFrame <= io.lastAudio /\ Held(at - SlotFrame)
  BY DEF OnItsWay
<1>3. ui - at <= 3
  BY <1>1, <1>2
<1>4. ~S!StreamLate
  BY <1>1, <1>2, SlotNumbers DEF S!StreamLate
<1>5. ASSUME io.pending # 0 PROVE ui + io.pending * SlotFrame <= at + posted.lag + posted.stall - taking
  <2>1. io.pending > 0 /\ io.lastAudio # 0
    BY <1>1, <1>2, <1>5
  <2>2. ui + (io.pending - 1) * SlotFrame <= at - SlotFrame + posted.lag + (posted.stall - taking)
    BY <1>2, <2>1 DEF Held
  <2>3. (io.pending - 1) * SlotFrame = io.pending * SlotFrame - SlotFrame
    BY <1>1
  <2>4. PICK p \in Int : p = io.pending * SlotFrame
    BY <1>1
  <2> QED
    BY <1>1, <2>2, <2>3, <2>4
<1>6. io.pending <= 4
  <2>1. ASSUME io.pending # 0 PROVE io.pending * SlotFrame < 5 * SlotFrame
    <3>1. PICK p \in Int : p = io.pending * SlotFrame
      BY <1>1
    <3> QED
      BY <1>1, <1>2, <1>5, <2>1, <3>1
  <2> QED
    BY <1>1, <2>1
<1> QED
  BY <1>3, <1>4, <1>5, <1>6

\* The buffer is sent, or the stall is used up.
LEMMA HeldInTime ==
  ASSUME SlotSafe, S!Punctual, NEW at \in Int, Held(at), S!Tick
  PROVE  Held(at)'
<1>1. /\ ui \in Nat /\ posted.lag \in Nat /\ posted.stall \in Nat /\ taking \in Nat /\ SlotFrame \in Nat /\ io.pending \in Nat
  BY OnTime
<1>2. /\ ui' = ui + 1 /\ posted' = posted
      /\ io'.pending = 0 \/ (io'.pending = io.pending /\ taking' = taking - 1)
  BY TimeRuns
<1>3. CASE io'.pending = 0
  BY <1>3 DEF Held
<1>4. CASE io'.pending = io.pending /\ taking' = taking - 1
  <2>1. PICK p \in Int : p = (io.pending - 1) * SlotFrame
    BY <1>1
  <2>2. io.pending > 0 => ui + p <= at + posted.lag + (posted.stall - taking)
    BY <2>1 DEF Held
  <2>3. io.pending > 0 => ui + 1 + p <= at + posted.lag + (posted.stall - (taking - 1))
    BY <1>1, <2>1, <2>2
  <2> QED
    BY <1>2, <1>4, <2>1, <2>3 DEF Held
<1> QED
  BY <1>2, <1>3, <1>4

\* Time passes while a packet waits for the I/O thread.
LEMMA WayInTime ==
  ASSUME SlotSafe, S!Punctual, NEW at \in Int, OnItsWay(at), S!Tick, generation # <<>>
  PROVE  OnItsWay(at)'
<1>1. /\ ui \in Nat /\ worker \in Nat /\ posted.stall \in Nat /\ taking \in Nat /\ SlotFrame \in Nat /\ io.lastAudio \in Nat
      /\ posted.lag \in Nat /\ io.pending \in Nat
  BY OnTime
<1>2. /\ ui' = ui + 1 /\ UNCHANGED <<capture, mode, generation, pending, screen, posted>>
      /\ S!Idle \/ ui' + worker' = ui + worker
      /\ taking' \in Nat
      /\ io'.gate = io.gate /\ io'.started = io.started /\ io'.lastAudio = io.lastAudio
      /\ io'.pending = 0 \/ (io'.pending = io.pending /\ taking' = taking - 1)
  BY TimeRuns
<1>3. ui' + worker' = ui + worker
  BY <1>2 DEF S!Idle
<1>4. ui' >= at
  BY <1>1, <1>2 DEF OnItsWay
<1>5. CASE io.lastAudio = 0
  BY <1>1, <1>2, <1>3, <1>4, <1>5 DEF OnItsWay
<1>6. CASE io.lastAudio # 0
  <2>1. at - SlotFrame <= io.lastAudio /\ io.lastAudio <= ui /\ Held(at - SlotFrame) /\ ui + worker <= at + posted.lag
    BY <1>6 DEF OnItsWay
  <2>2. io.lastAudio <= ui'
    BY <1>1, <1>2, <2>1
  <2>3. Held(at - SlotFrame)'
    <3>1. PICK late \in Int : late = at - SlotFrame
      BY <1>1
    <3> QED
      BY <2>1, <3>1, HeldInTime
  <2> QED
    BY <1>2, <1>3, <1>4, <1>6, <2>1, <2>2, <2>3 DEF OnItsWay
<1> QED
  BY <1>5, <1>6

\* A packet on its way reaches the socket.
LEMMA WayEnds ==
  ASSUME SlotSafe, S!Punctual, NEW at \in Int, OnItsWay(at), IoEnv, io'.pending = io.pending + 1, io'.lastAudio = ui
  PROVE  Held(at)' /\ at <= ui /\ ui # 0
<1>1. /\ ui \in Nat /\ ui # 0 /\ worker \in Nat /\ posted.lag \in Nat /\ posted.stall \in Nat /\ taking \in Nat /\ taking <= posted.stall
      /\ SlotFrame \in Nat /\ io.pending \in Nat
  BY OnTime
<1>2. ui + io.pending * SlotFrame <= at + posted.lag + posted.stall - taking \/ io.pending = 0
  BY WayIsClear
<1>3. at <= ui /\ ui + worker <= at + posted.lag
  BY DEF OnItsWay
<1>4. ui + io.pending * SlotFrame <= at + posted.lag + (posted.stall - taking)
  <2>1. PICK p \in Int : p = io.pending * SlotFrame
    BY <1>1
  <2>2. CASE io.pending = 0
    <3>1. p = 0
      BY <1>1, <2>1, <2>2
    <3>2. ui <= at + posted.lag + (posted.stall - taking)
      BY <1>1, <1>3
    <3> QED
      BY <1>1, <2>1, <3>1, <3>2
  <2>3. CASE io.pending # 0
    BY <1>1, <1>2, <2>1, <2>3
  <2> QED
    BY <2>2, <2>3
<1>5. io'.pending - 1 = io.pending
  BY <1>1
<1> QED
  BY <1>1, <1>3, <1>4, <1>5 DEF Held, IoEnv

\* The packet that is on its way while the waveform goes on.
LEMMA FromLeaving == ASSUME SlotSafe, S!Punctual, FrameLeaves, S!Next PROVE InTime'
<1>0. /\ Going /\ generation = <<"frame">> /\ capture.phase = "Audio" /\ pending = <<>> /\ OnAir /\ SlotTypes
      /\ io.drainBy = 0 /\ capture.drain = 0 /\ capture.emitted < SlotWave /\ mode /\ io.gate
  BY DEF FrameLeaves, Going, OnAir, SlotSafe
<1>1. /\ ui \in Nat /\ worker \in Nat /\ capture.start \in Nat /\ capture.emitted \in Nat /\ SlotFrame \in Nat /\ posted.lag \in Nat
      /\ posted.lag < SlotFrame /\ io.pending \in Nat
  BY OnTime
<1>2. PICK at \in Int : Last(at) /\ OnItsWay(at)
  BY DEF FrameLeaves
<1>3. at = capture.start + capture.emitted - SlotFrame /\ ui + worker <= at + posted.lag
  BY <1>2 DEF OnItsWay, Last
<1>4. ~S!StreamLate /\ io.pending <= 4 /\ ui - at <= 3
  BY <1>2, WayIsClear
<1>5. ui < capture.start + capture.emitted
  BY <1>1, <1>2, <1>3
<1>6. /\ S!SendDigitalAudio("frame") => generation' = <<>>
      /\ ~S!SendDigitalAudio("final") /\ ~S!StopScheduledDigitalAudio /\ ~S!BeginScheduledDigitalAudio
  BY <1>0, OneCall
<1>7. S!TxTick \/ S!Tick \/ S!ServiceDigitalTxProtection \/ (S!SendDigitalAudio("frame") /\ generation' = <<>>)
  BY <1>0, <1>6, Quiet DEF S!Next
<1>8. CASE S!TxTick
  <2>1. S!Larger(8, SlotFrame) \in Int /\ S!Larger(8, SlotFrame) >= 8
    BY SlotConstants
  <2>2. ~(ui - (capture.start + capture.emitted) > S!Larger(8, SlotFrame))
    BY <1>1, <1>5, <2>1
  <2>3. ~S!MustFail
    BY <1>0, <2>2, Failures
  <2>4. S!TickFrame
    BY <1>0, <1>8, <2>3, Phases
  <2> QED
    BY <1>1, <1>5, <2>4 DEF S!TickFrame, S!FrameDue
<1>9. CASE S!Tick
  <2>1. /\ UNCHANGED <<capture, mode, generation, pending>>
        /\ io'.gate = io.gate /\ io'.drainBy = io.drainBy
    BY <1>9, TimeRuns
  <2>0. generation # <<>>
    BY <1>0
  <2>2. OnItsWay(at)' /\ Last(at)'
    BY <1>2, <1>9, <2>0, <2>1, WayInTime DEF Last
  <2>3. Going'
    BY <1>0, <2>1 DEF Going, OnAir
  <2>4. FrameLeaves'
    BY <1>0, <1>2, <2>1, <2>2, <2>3 DEF FrameLeaves
  <2> QED
    BY <2>4 DEF InTime
<1>10. CASE S!ServiceDigitalTxProtection
  <2>1. /\ IoEnv /\ UNCHANGED <<mode, generation, pending>>
        /\ io'.gate = io.gate /\ io'.started = io.started
        /\ io'.lastAudio = io.lastAudio /\ io'.pending = io.pending /\ io'.drainBy = io.drainBy
    BY <1>0, <1>4, <1>10, WatchRuns
  <2>2. OnItsWay(at)' /\ Last(at)'
    BY <1>2, <2>1 DEF OnItsWay, Held, IoEnv, Last
  <2>3. Going'
    BY <1>0, <2>1 DEF Going, OnAir, IoEnv
  <2>4. FrameLeaves'
    BY <1>0, <1>2, <2>1, <2>2, <2>3 DEF FrameLeaves
  <2> QED
    BY <2>4 DEF InTime
<1>11. CASE S!SendDigitalAudio("frame") /\ generation' = <<>>
  <2>1. /\ IoEnv /\ io'.gate /\ io'.lastAudio = ui /\ io'.pending = io.pending + 1 /\ io'.drainBy = io.drainBy
        /\ mode' = mode /\ pending' = pending
    BY <1>0, <1>4, <1>11, SendRuns
  <2>2. Held(at)' /\ at <= ui /\ ui # 0
    BY <1>2, <2>1, WayEnds
  <2>3. Last(at)'
    BY <1>2, <2>1 DEF Last, IoEnv
  <2>4. Going'
    BY <1>0, <2>1 DEF Going, OnAir, IoEnv
  <2>5. /\ generation' = <<>> /\ io'.lastAudio # 0 /\ at <= io'.lastAudio
        /\ io'.lastAudio <= ui' /\ ui' + worker' <= at + SlotFrame + posted'.lag
    BY <1>1, <1>2, <1>3, <1>11, <2>1, <2>2 DEF IoEnv
  <2>6. FrameWaits'
    BY <1>2, <2>2, <2>3, <2>4, <2>5 DEF FrameWaits
  <2> QED
    BY <2>6 DEF InTime
<1> QED
  BY <1>7, <1>8, <1>9, <1>10, <1>11

\* Between two packets.
LEMMA FromPausing == ASSUME SlotSafe, S!Punctual, FrameWaits, S!Next PROVE InTime'
<1>0. /\ Going /\ generation = <<>> /\ capture.phase = "Audio" /\ pending = <<>> /\ OnAir /\ SlotTypes
      /\ io.drainBy = 0 /\ capture.drain = 0 /\ capture.emitted < SlotWave /\ mode /\ io.gate
      /\ io.lastAudio # 0 /\ io.lastAudio <= ui
  BY DEF FrameWaits, Going, OnAir, SlotSafe
<1>1. /\ ui \in Nat /\ worker \in Nat /\ capture.start \in Nat /\ capture.emitted \in Nat /\ SlotFrame \in Nat /\ posted.lag \in Nat
      /\ posted.lag <= 3 /\ SlotWave \in Nat /\ io.lastAudio \in Nat /\ SlotFrame \in {2, 4, 6, 12} /\ worker <= posted.lag
  BY OnTime
<1>2. PICK at \in Int : Last(at) /\ at <= io.lastAudio /\ Held(at) /\ ui + worker <= at + SlotFrame + posted.lag
  BY DEF FrameWaits
<1>3. PICK due \in Int : due = at + SlotFrame
  BY <1>1, <1>2
<1>9. due = capture.start + capture.emitted /\ due - SlotFrame = at
  BY <1>1, <1>2, <1>3 DEF Last
<1>10. ui + worker <= due + posted.lag /\ ui <= due + 3 /\ due - SlotFrame <= io.lastAudio
  BY <1>1, <1>2, <1>3, <1>9
<1>4. ~S!StreamLate
  <2>1. ~(ui - io.lastAudio >= 40)
    BY <1>1, <1>3, <1>10
  <2> QED
    BY <1>0, <2>1, SlotNumbers DEF S!StreamLate
<1>5. S!TxTick \/ S!Tick \/ S!ServiceDigitalTxProtection
  BY <1>0, Quiet DEF S!Next
<1>6. CASE S!TxTick
  <2>1. S!Larger(8, SlotFrame) \in Int /\ S!Larger(8, SlotFrame) >= 8
    BY SlotConstants
  <2>2. ~(ui - (capture.start + capture.emitted) > S!Larger(8, SlotFrame))
    BY <1>1, <1>3, <1>9, <1>10, <2>1
  <2>3. ~S!MustFail
    BY <1>0, <2>2, Failures
  <2>4. S!TickFrame /\ AuEnv /\ pending' = pending
    BY <1>0, <1>6, <2>3, Phases
  <2>5. /\ ui >= capture.start + capture.emitted
        /\ capture'.start = capture.start /\ capture'.drain = capture.drain /\ capture'.result = capture.result /\ mode' = mode
        /\ capture'.emitted \in Nat
        /\ \/ /\ capture'.phase = "Audio" /\ capture'.emitted < SlotWave /\ capture'.emitted = capture.emitted + SlotFrame
              /\ generation' = Append(generation, "frame")
           \/ capture'.phase = "Drain" /\ generation' = Append(generation, "final")
    BY <1>0, <2>4, FrameTicks DEF SlotSafe
  <2>6. OnItsWay(due)'
    <3>1. Held(due - SlotFrame)'
      BY <1>2, <1>9, <2>4 DEF Held, AuEnv
    <3>2. ui >= due
      BY <1>9, <2>5
    <3> QED
      BY <1>0, <1>10, <2>4, <3>1, <3>2 DEF OnItsWay, AuEnv
  <2>7. OnAir'
    BY <1>0, <2>4, <2>5 DEF OnAir, AuEnv
  <2>8. pending' = <<>> /\ io'.drainBy = 0 /\ capture'.drain = 0
    BY <1>0, <2>4, <2>5 DEF AuEnv
  <2>9. CASE /\ capture'.phase = "Audio" /\ capture'.emitted < SlotWave /\ capture'.emitted = capture.emitted + SlotFrame
             /\ generation' = Append(generation, "frame")
    <3>1. generation' = <<"frame">>
      BY <1>0, <2>9, PostsOne
    <3>2. Last(due)'
      <4>1. PICK e \in Nat : e = capture'.emitted
        BY <2>5
      <4>2. due = capture.start + e - SlotFrame
        BY <1>1, <1>9, <2>9, <4>1
      <4> QED
        BY <2>5, <4>1, <4>2 DEF Last
    <3>3. Going'
      BY <2>7, <2>8, <2>9 DEF Going
    <3>4. FrameLeaves'
      BY <1>3, <2>6, <3>1, <3>2, <3>3 DEF FrameLeaves
    <3> QED
      BY <3>4 DEF InTime
  <2>10. CASE capture'.phase = "Drain" /\ generation' = Append(generation, "final")
    <3>1. generation' = <<"final">>
      BY <1>0, <2>10, PostsOne
    <3>2. due <= capture'.start + SlotWave
      BY <1>0, <1>1, <1>9, <2>5
    <3>3. Ends'
      BY <1>3, <2>6, <2>7, <2>8, <2>10, <3>1, <3>2 DEF Ends, Calm
    <3> QED
      BY <3>3 DEF InTime
  <2> QED
    BY <2>5, <2>9, <2>10
<1>7. CASE S!Tick
  <2>1. /\ ui' = ui + 1 /\ UNCHANGED <<capture, mode, generation, pending, screen, posted>>
        /\ worker' \in Nat /\ worker' <= worker
        /\ S!Idle \/ ui' + worker' = ui + worker
        /\ io'.gate = io.gate /\ io'.lastAudio = io.lastAudio /\ io'.drainBy = io.drainBy
    BY <1>7, TimeRuns
  <2>2. ui' + worker' <= due + posted.lag
    <3>1. S!Idle => ui < due
      <4>1. S!Idle => ~(ui >= capture.start + capture.emitted)
        BY <1>0 DEF S!Idle, S!TxDue, S!FrameDue
      <4> QED
        BY <1>1, <1>3, <1>9, <4>1
    <3>2. PICK left \in Nat : left = worker' /\ left <= posted.lag
      BY <1>1, <2>1
    <3>3. ui < due => ui + 1 + left <= due + posted.lag
      BY <1>1, <1>3, <3>2
    <3> QED
      BY <1>10, <2>1, <3>1, <3>2, <3>3
  <2>3. Held(at)' /\ Last(at)'
    BY <1>2, <1>7, <2>1, HeldInTime DEF Last
  <2>4. io'.lastAudio <= ui'
    BY <1>0, <1>1, <2>1
  <2>5. Going'
    BY <1>0, <2>1 DEF Going, OnAir
  <2>6. generation' = <<>> /\ io'.lastAudio # 0 /\ at <= io'.lastAudio /\ ui' + worker' <= at + SlotFrame + posted'.lag
    BY <1>0, <1>2, <1>3, <2>1, <2>2
  <2>7. FrameWaits'
    BY <1>2, <2>3, <2>4, <2>5, <2>6 DEF FrameWaits
  <2> QED
    BY <2>7 DEF InTime
<1>8. CASE S!ServiceDigitalTxProtection
  <2>1. /\ IoEnv /\ UNCHANGED <<mode, generation, pending>>
        /\ io'.gate = io.gate /\ io'.started = io.started
        /\ io'.lastAudio = io.lastAudio /\ io'.pending = io.pending /\ io'.drainBy = io.drainBy
    BY <1>0, <1>4, <1>8, WatchRuns
  <2>2. Held(at)' /\ Last(at)'
    BY <1>2, <2>1 DEF Held, IoEnv, Last
  <2>3. Going'
    BY <1>0, <2>1 DEF Going, OnAir, IoEnv
  <2>4. FrameWaits'
    BY <1>0, <1>2, <2>1, <2>2, <2>3 DEF FrameWaits, IoEnv
  <2> QED
    BY <2>4 DEF InTime
<1> QED
  BY <1>5, <1>6, <1>7, <1>8

\* The last packet is on its way.
LEMMA FromEnding == ASSUME SlotSafe, S!Punctual, Ends, S!Next PROVE InTime'
<1>0. /\ capture.phase = "Drain" /\ pending = <<>> /\ generation = <<"final">> /\ OnAir /\ SlotTypes /\ io.drainBy = 0 /\ capture.drain = 0
      /\ mode /\ io.gate
  BY DEF Ends, OnAir, SlotSafe, Calm
<1>1. /\ ui \in Nat /\ ui # 0 /\ worker \in Nat /\ capture.start \in Nat /\ SlotWave \in Nat /\ posted.lag \in Nat /\ worker <= 3
      /\ posted.stall \in Nat /\ taking \in Nat /\ taking <= posted.stall /\ io.pending \in Nat
  BY OnTime
<1>2. PICK at \in Int : at <= capture.start + SlotWave /\ OnItsWay(at)
  BY DEF Ends
<1>4. ~S!StreamLate /\ io.pending <= 4 /\ ui - at <= 3
  BY <1>2, WayIsClear
<1>5. ui <= capture.start + SlotWave + 3
  BY <1>1, <1>2, <1>4
<1>6. /\ S!SendDigitalAudio("final") => generation' = <<>>
      /\ ~S!SendDigitalAudio("frame") /\ ~S!StopScheduledDigitalAudio /\ ~S!BeginScheduledDigitalAudio
  BY <1>0, OneCall
<1>7. S!TxTick \/ S!Tick \/ S!ServiceDigitalTxProtection \/ (S!SendDigitalAudio("final") /\ generation' = <<>>)
  BY <1>0, <1>6, Quiet DEF S!Next
<1>8. CASE S!TxTick
  <2>1. ~S!MustFail
    BY <1>0, <1>1, <1>5, Failures
  <2> QED
    BY <1>0, <1>8, <2>1, Phases
<1>9. CASE S!Tick
  <2>1. /\ UNCHANGED <<capture, mode, generation, pending>>
        /\ io'.gate = io.gate /\ io'.drainBy = io.drainBy
    BY <1>9, TimeRuns
  <2>0. generation # <<>>
    BY <1>0
  <2>2. OnItsWay(at)'
    BY <1>2, <1>9, <2>0, WayInTime
  <2>4. OnAir'
    BY <1>0, <2>1 DEF OnAir
  <2>5. Ends'
    BY <1>0, <1>2, <2>1, <2>2, <2>4 DEF Ends, Calm
  <2> QED
    BY <2>5 DEF InTime
<1>10. CASE S!ServiceDigitalTxProtection
  <2>1. /\ IoEnv /\ UNCHANGED <<mode, generation, pending>>
        /\ io'.gate = io.gate /\ io'.started = io.started
        /\ io'.lastAudio = io.lastAudio /\ io'.pending = io.pending /\ io'.drainBy = io.drainBy
    BY <1>0, <1>4, <1>10, WatchRuns
  <2>2. OnItsWay(at)'
    BY <1>2, <2>1 DEF OnItsWay, Held, IoEnv
  <2>3. OnAir'
    BY <1>0, <2>1 DEF OnAir, IoEnv
  <2>4. Ends'
    BY <1>0, <1>2, <2>1, <2>2, <2>3 DEF Ends, Calm, IoEnv
  <2> QED
    BY <2>4 DEF InTime
<1>11. CASE S!SendDigitalAudio("final") /\ generation' = <<>>
  <2>1. /\ IoEnv /\ io'.gate /\ io'.lastAudio = ui /\ io'.drainBy = ui + 50
        /\ mode' = mode /\ pending' = pending
    BY <1>0, <1>4, <1>11, SendRuns
  <2>2. OnAir'
    BY <1>0, <2>1 DEF OnAir, IoEnv
  <2>3. ui + worker - ui <= 12 /\ ui >= ui /\ ui - ui <= posted.stall - taking
    BY <1>1
  <2>4. Drains'
    BY <1>0, <1>1, <1>5, <1>11, <2>1, <2>2, <2>3 DEF Drains, Calm, Since, IoEnv
  <2> QED
    BY <2>4 DEF InTime
<1> QED
  BY <1>7, <1>8, <1>9, <1>10, <1>11

LEMMA FromDraining == ASSUME SlotSafe, S!Punctual, Drains, S!Next PROVE InTime'
<1>0. /\ capture.phase = "Drain" /\ pending = <<>> /\ generation = <<>> /\ OnAir /\ SlotTypes /\ capture.drain = 0 /\ io.lastAudio # 0
      /\ mode /\ io.gate /\ io.drainBy = io.lastAudio + 50 /\ io.lastAudio <= capture.start + SlotWave + 3
      /\ ui + worker - io.lastAudio <= 12 /\ ui >= io.lastAudio
      /\ io.pending > 0 => ui - io.lastAudio <= posted.stall - taking
  BY DEF Drains, OnAir, SlotSafe, Calm, Since
<1>1. /\ ui \in Nat /\ ui # 0 /\ worker \in Nat /\ capture.start \in Nat /\ SlotWave \in Nat /\ posted.lag \in Nat /\ worker <= 3
      /\ posted.stall \in Nat /\ taking \in Nat /\ taking <= posted.stall /\ posted.stall <= 8 /\ io.lastAudio \in Nat /\ io.pending \in Nat
      /\ io.drainBy \in Nat
  BY OnTime
<1>9. PICK last, end \in Nat : last = io.lastAudio /\ end = capture.start + SlotWave
  BY <1>1
<1>10. ui + worker - last <= 12 /\ ui >= last /\ last <= end + 3 /\ io.drainBy = last + 50
  BY <1>0, <1>9
<1>11. ~(ui - last >= 40) /\ ~(ui >= last + 50) /\ ui <= end + 15
  BY <1>1, <1>9, <1>10
<1>2. ~(ui - io.lastAudio >= 40) /\ ~(ui >= io.drainBy) /\ ui <= capture.start + SlotWave + 15
  BY <1>9, <1>10, <1>11
<1>3. ~S!StreamLate
  BY <1>0, <1>2, SlotNumbers DEF S!StreamLate
<1>4. S!TxTick \/ S!Tick \/ S!ServiceDigitalTxProtection \/ S!Drained
  BY <1>0, <1>2, Quiet DEF S!Next, S!DrainTimeout
<1>5. CASE S!TxTick
  <2>1. ~(ui > capture.start + SlotWave + 150)
    BY <1>1, <1>2
  <2>2. ~S!MustFail
    BY <1>0, <2>1, Failures
  <2> QED
    BY <1>0, <1>5, <2>2, Phases
<1>6. CASE S!Tick
  <2>1. /\ ui' = ui + 1 /\ UNCHANGED <<capture, mode, generation, pending, screen, posted>>
        /\ worker' \in Nat /\ worker' <= worker /\ taking' \in Nat
        /\ S!Idle \/ worker' = worker - 1
        /\ io'.gate = io.gate /\ io'.lastAudio = io.lastAudio /\ io'.drainBy = io.drainBy
        /\ io'.pending = 0 \/ (io'.pending = io.pending /\ taking' = taking - 1)
    BY <1>6, TimeRuns
  <2>2. ui' + worker' - io.lastAudio <= 12
    <3>1. S!Idle => io.pending > 0
      <4>1. S!Polls
        BY <1>0, <1>1, SlotNumbers DEF S!Polls
      <4>2. S!Idle => io.pending # 0
        BY <4>1 DEF S!Idle, S!IoDue
      <4> QED
        BY <1>1, <4>2
    <3>2. PICK left \in Nat : left = worker' /\ left <= 3
      BY <1>1, <2>1
    <3>3. io.pending > 0 => ui + 1 + left - last <= 12
      <4>1. io.pending > 0 => ui - last <= posted.stall - taking
        BY <1>0, <1>9
      <4>2. posted.stall - taking <= 8
        BY <1>1
      <4>3. io.pending > 0 => ui - last <= 8
        BY <1>1, <1>9, <4>1, <4>2
      <4> QED
        BY <1>1, <1>9, <3>2, <4>3
    <3>4. S!Idle => ui + 1 + left - last <= 12
      BY <3>1, <3>3
    <3>5. ui' + worker' - last <= 12
      <4>1. CASE S!Idle
        BY <2>1, <3>2, <3>4, <4>1
      <4>2. ASSUME worker' = worker - 1 PROVE ui' + worker' - last <= 12
        <5>1. ui + 1 + left - last <= 12
          BY <1>1, <1>9, <1>10, <3>2, <4>2
        <5> QED
          BY <2>1, <3>2, <5>1
      <4> QED
        BY <2>1, <4>1, <4>2
    <3> QED
      BY <1>9, <3>5
  <2>3. io'.pending > 0 => ui' - io'.lastAudio <= posted'.stall - taking'
    <3>1. CASE io'.pending = 0
      BY <3>1
    <3>2. CASE io'.pending = io.pending /\ taking' = taking - 1
      <4>1. io.pending > 0 => ui - last <= posted.stall - taking
        BY <1>0, <1>9
      <4>2. io.pending > 0 => ui + 1 - last <= posted.stall - (taking - 1)
        BY <1>1, <1>9, <4>1
      <4>3. io'.pending > 0 => io.pending > 0
        BY <3>2
      <4>4. PICK n \in Int : n = ui' /\ n = ui + 1
        BY <1>1, <2>1
      <4>5. PICK u \in Int : u = taking' /\ u = taking - 1
        BY <1>1, <3>2
      <4>6. io.pending > 0 => n - last <= posted.stall - u
        BY <1>1, <1>9, <4>2, <4>4, <4>5
      <4>7. io'.lastAudio = last /\ posted'.stall = posted.stall
        BY <1>9, <2>1
      <4> QED
        BY <4>3, <4>4, <4>5, <4>6, <4>7
    <3> QED
      BY <2>1, <3>1, <3>2
  <2>4. ui' >= io'.lastAudio
    BY <1>0, <1>1, <2>1
  <2>5. OnAir'
    BY <1>0, <2>1 DEF OnAir
  <2>6. Drains'
    BY <1>0, <2>1, <2>2, <2>3, <2>4, <2>5 DEF Drains, Calm, Since
  <2> QED
    BY <2>6 DEF InTime
<1>7. CASE S!ServiceDigitalTxProtection
  <2>1. /\ IoEnv /\ UNCHANGED <<mode, generation, pending>>
        /\ io'.gate = io.gate /\ io'.started = io.started
        /\ io'.lastAudio = io.lastAudio /\ io'.pending = io.pending /\ io'.drainBy = io.drainBy
    BY <1>0, <1>3, <1>7, WatchRuns
  <2>2. OnAir'
    BY <1>0, <2>1 DEF OnAir, IoEnv
  <2>3. Drains'
    BY <1>0, <2>1, <2>2 DEF Drains, Calm, Since, IoEnv
  <2> QED
    BY <2>3 DEF InTime
<1>8. CASE S!Drained
  <2>1. /\ IoEnv /\ UNCHANGED <<mode, screen, generation>>
        /\ io'.gate = io.gate /\ io'.lastAudio = io.lastAudio /\ io'.drainBy = 0
        /\ pending' = Append(pending, "accepted")
    BY <1>0, <1>8, DrainedDoes
  <2>2. pending' = <<"accepted">>
    BY <1>0, <2>1, PostsOne
  <2>3. OnAir'
    BY <1>0, <2>1 DEF OnAir, IoEnv
  <2>4. HasDrained'
    BY <1>0, <2>1, <2>2, <2>3 DEF HasDrained, Calm, Since, IoEnv
  <2> QED
    BY <2>4 DEF InTime
<1> QED
  BY <1>4, <1>5, <1>6, <1>7, <1>8

LEMMA FromDrained == ASSUME SlotSafe, S!Punctual, HasDrained, S!Next PROVE InTime'
<1>0. /\ capture.phase = "Drain" /\ pending = <<"accepted">> /\ generation = <<>> /\ OnAir /\ SlotTypes /\ capture.drain = 0 /\ io.lastAudio # 0
      /\ mode /\ io.gate /\ io.drainBy = 0 /\ io.lastAudio <= capture.start + SlotWave + 3
      /\ ui + worker - io.lastAudio <= 12 /\ ui >= io.lastAudio
  BY DEF HasDrained, OnAir, SlotSafe, Calm, Since
<1>1. /\ ui \in Nat /\ ui # 0 /\ worker \in Nat /\ capture.start \in Nat /\ SlotWave \in Nat /\ io.lastAudio \in Nat /\ SlotFrame \in Nat
  BY OnTime
<1>2. ~(ui - io.lastAudio >= 40) /\ ui <= capture.start + SlotWave + 15
  BY <1>0, <1>1, SMTT(30)
<1>3. ~S!StreamLate
  BY <1>0, <1>2, SlotNumbers DEF S!StreamLate
<1>9. (S!Accepted => pending' = <<>> /\ AuEnv) /\ ~S!Keyed /\ ~S!Unkeyed /\ ~S!Cancel
  BY <1>0, OneCall
<1>4. S!TxTick \/ S!Tick \/ S!ServiceDigitalTxProtection \/ (S!Accepted /\ pending' = <<>> /\ AuEnv)
  BY <1>0, <1>9, Quiet DEF S!Next
<1>5. CASE S!TxTick
  <2>1. ~(ui > capture.start + SlotWave + 150)
    BY <1>1, <1>2
  <2>2. ~S!MustFail
    BY <1>0, <2>1, Failures
  <2> QED
    BY <1>0, <1>5, <2>2, Phases
<1>6. CASE S!Tick
  <2>1. /\ ui' = ui + 1 /\ UNCHANGED <<capture, mode, generation, pending, screen, posted>> /\ worker' \in Nat
        /\ S!Idle \/ (ui' + worker' = ui + worker /\ worker' = worker - 1)
        /\ io'.gate = io.gate /\ io'.lastAudio = io.lastAudio /\ io'.drainBy = io.drainBy
    BY <1>6, TimeRuns
  <2>2. ui' + worker' = ui + worker
    BY <1>0, <2>1 DEF S!Idle
  <2>3. ui' >= io'.lastAudio
    BY <1>0, <1>1, <2>1
  <2>4. OnAir'
    BY <1>0, <2>1 DEF OnAir
  <2>6. ui' + worker' - io'.lastAudio <= 12
    <3>1. PICK left, last \in Nat : left = worker' /\ last = io.lastAudio /\ left = worker - 1
      BY <1>0, <1>1, <2>1 DEF S!Idle
    <3>2. ui + 1 + left - last <= 12
      BY <1>0, <1>1, <3>1
    <3> QED
      BY <2>1, <3>1, <3>2
  <2>5. HasDrained'
    BY <1>0, <2>1, <2>3, <2>4, <2>6 DEF HasDrained, Calm, Since
  <2> QED
    BY <2>5 DEF InTime
<1>7. CASE S!ServiceDigitalTxProtection
  <2>1. /\ IoEnv /\ UNCHANGED <<mode, generation, pending>>
        /\ io'.gate = io.gate /\ io'.lastAudio = io.lastAudio /\ io'.drainBy = io.drainBy
    BY <1>0, <1>3, <1>7, WatchRuns
  <2>2. OnAir'
    BY <1>0, <2>1 DEF OnAir, IoEnv
  <2>3. HasDrained'
    BY <1>0, <2>1, <2>2 DEF HasDrained, Calm, Since, IoEnv
  <2> QED
    BY <2>3 DEF InTime
<1>8. CASE S!Accepted /\ pending' = <<>> /\ AuEnv
  <2>1. /\ capture'.phase = "Drain" /\ capture'.start = capture.start /\ capture'.drain = ui + SlotFrame + 15
        /\ capture'.result = capture.result /\ mode' = mode /\ generation' = generation
    BY <1>0, <1>8, AcceptedDoes
  <2>2. /\ ui + SlotFrame + 15 # 0 /\ ui + SlotFrame + 15 >= io.lastAudio /\ ui + worker - io.lastAudio <= 27 + SlotFrame
        /\ ui + SlotFrame + 15 + worker - io.lastAudio <= 27 + SlotFrame
    BY <1>0, <1>1
  <2>3. OnAir'
    BY <1>0, <1>8, <2>1 DEF OnAir, AuEnv
  <2>4. RunsOut'
    BY <1>0, <1>8, <2>1, <2>2, <2>3 DEF RunsOut, Since, AuEnv
  <2> QED
    BY <2>4 DEF InTime
<1> QED
  BY <1>4, <1>5, <1>6, <1>7, <1>8

\* The K4 plays what it has been sent, and goes back to receive.
LEMMA FromRunningOut == ASSUME SlotSafe, S!Punctual, RunsOut, S!Next PROVE InTime'
<1>0. /\ pending = <<>> /\ OnAir /\ SlotTypes /\ io.lastAudio # 0 /\ capture.drain # 0 /\ capture.drain >= io.lastAudio
      /\ mode /\ io.gate /\ io.drainBy = 0 /\ io.lastAudio <= capture.start + SlotWave + 3
      /\ ui + worker - io.lastAudio <= 27 + SlotFrame
  BY DEF RunsOut, OnAir, SlotSafe, Since
<1>1. /\ ui \in Nat /\ ui # 0 /\ worker \in Nat /\ capture.start \in Nat /\ SlotWave \in Nat /\ io.lastAudio \in Nat /\ SlotFrame \in Nat
      /\ SlotFrame \in {2, 4, 6, 12} /\ capture.drain \in Nat
  BY OnTime
<1>9. PICK last, end, d \in Nat : last = io.lastAudio /\ end = capture.start + SlotWave /\ d = capture.drain
  BY <1>1
<1>10. ui + worker - last <= 27 + SlotFrame /\ last <= end + 3 /\ d >= last
  BY <1>0, <1>9
<1>11. ~(ui - last >= 40) /\ ui <= end + 50 /\ ui + worker <= d + 27 + SlotFrame
  BY <1>1, <1>9, <1>10
<1>2. ~(ui - io.lastAudio >= 40) /\ ui <= capture.start + SlotWave + 50 /\ ui + worker <= capture.drain + 27 + SlotFrame
  BY <1>9, <1>11
<1>3. ~S!StreamLate
  BY <1>0, <1>2, SlotNumbers DEF S!StreamLate
<1>4. ~S!MustFail
  <2>1. ~(ui > capture.start + SlotWave + 150) /\ ~(ui > capture.drain + 200)
    BY <1>1, <1>2
  <2>2. capture.phase \in {"Drain", "Unkeying"}
    BY DEF RunsOut
  <2> QED
    BY <1>0, <2>1, <2>2, Failures
<1>5. CASE capture.phase = "Drain" /\ generation = <<>> /\ capture.drain + worker - io.lastAudio <= 27 + SlotFrame
  <2>1. S!TxTick \/ S!Tick \/ S!ServiceDigitalTxProtection
    BY <1>0, <1>5, Quiet DEF S!Next
  <2>2. CASE S!TxTick
    <3>1. S!TickUnkey /\ AuEnv /\ pending' = pending
      BY <1>4, <1>5, <2>2, Phases
    <3>2. /\ capture'.phase = "Unkeying" /\ capture'.start = capture.start /\ capture'.drain = capture.drain /\ capture'.result = capture.result
          /\ generation' = Append(generation, "unkey") /\ mode' = mode
      BY <1>0, <3>1, UnkeyTicks
    <3>3. generation' = <<"unkey">>
      BY <1>5, <3>2, PostsOne
    <3>4. OnAir'
      BY <1>0, <3>1, <3>2 DEF OnAir, AuEnv
    <3>5. RunsOut'
      BY <1>0, <3>1, <3>2, <3>3, <3>4 DEF RunsOut, Since, AuEnv
    <3> QED
      BY <3>5 DEF InTime
  <2>3. CASE S!Tick
    <3>1. /\ ui' = ui + 1 /\ UNCHANGED <<capture, mode, generation, pending, screen, posted>>
          /\ S!Idle \/ (ui' + worker' = ui + worker /\ worker' = worker - 1)
          /\ worker' \in Nat /\ worker' <= worker
          /\ io'.gate = io.gate /\ io'.lastAudio = io.lastAudio /\ io'.drainBy = io.drainBy
      BY <2>3, TimeRuns
    <3>2. PICK left \in Nat : left = worker' /\ left <= worker
      BY <1>1, <3>1
    <3>3. capture.drain + left - io.lastAudio <= 27 + SlotFrame
      BY <1>1, <1>5, <3>2
    <3>4. S!Idle => ~(ui >= capture.drain)
      BY <1>0, <1>5, SlotNumbers DEF S!Idle, S!TxDue
    <3>5. ui < capture.drain => ui + 1 + left - io.lastAudio <= 27 + SlotFrame
      BY <1>1, <3>2, <3>3
    <3>9. S!Idle => ui < capture.drain
      BY <1>1, <3>4
    <3>6. ui' + worker' - io.lastAudio <= 27 + SlotFrame
      <4>1. CASE S!Idle
        BY <3>1, <3>2, <3>5, <3>9, <4>1
      <4>2. ASSUME worker' = worker - 1 PROVE ui' + worker' - io.lastAudio <= 27 + SlotFrame
        <5>1. ui + 1 + left - last <= 27 + SlotFrame
          BY <1>1, <1>9, <1>10, <3>2, <4>2
        <5> QED
          BY <1>9, <3>1, <3>2, <5>1
      <4> QED
        BY <3>1, <4>1, <4>2
    <3>7. OnAir'
      BY <1>0, <3>1 DEF OnAir
    <3>8. RunsOut'
      BY <1>0, <1>5, <3>1, <3>2, <3>3, <3>6, <3>7 DEF RunsOut, Since
    <3> QED
      BY <3>8 DEF InTime
  <2>4. CASE S!ServiceDigitalTxProtection
    <3>1. /\ IoEnv /\ UNCHANGED <<mode, generation, pending>>
          /\ io'.gate = io.gate /\ io'.lastAudio = io.lastAudio /\ io'.drainBy = io.drainBy
      BY <1>0, <1>3, <2>4, WatchRuns
    <3>2. OnAir'
      BY <1>0, <3>1 DEF OnAir, IoEnv
    <3>3. RunsOut'
      BY <1>0, <1>5, <3>1, <3>2 DEF RunsOut, Since, IoEnv
    <3> QED
      BY <3>3 DEF InTime
  <2> QED
    BY <2>1, <2>2, <2>3, <2>4
<1>6. CASE capture.phase = "Unkeying" /\ generation = <<"unkey">>
  <2>0. /\ S!StopScheduledDigitalAudio => generation' = <<>>
        /\ ~S!BeginScheduledDigitalAudio /\ \A call \in {"frame", "final"} : ~S!SendDigitalAudio(call)
    BY <1>6, OneCall
  <2>1. S!TxTick \/ S!Tick \/ S!ServiceDigitalTxProtection \/ (S!StopScheduledDigitalAudio /\ generation' = <<>>)
    BY <1>0, <2>0, Quiet DEF S!Next
  <2>2. CASE S!TxTick
    BY <1>4, <1>6, <2>2, Phases
  <2>3. CASE S!Tick
    <3>1. /\ ui' = ui + 1 /\ UNCHANGED <<capture, mode, generation, pending, screen, posted>> /\ worker' \in Nat
          /\ S!Idle \/ (ui' + worker' = ui + worker /\ worker' = worker - 1)
          /\ io'.gate = io.gate /\ io'.lastAudio = io.lastAudio /\ io'.drainBy = io.drainBy
      BY <2>3, TimeRuns
    <3>2. ui' + worker' = ui + worker
      BY <1>6, <3>1 DEF S!Idle
    <3>3. OnAir'
      BY <1>0, <3>1 DEF OnAir
    <3>6. PICK left \in Nat : left = worker' /\ left = worker - 1
      BY <1>6, <3>1 DEF S!Idle
    <3>7. ui + 1 + left - last <= 27 + SlotFrame
      BY <1>1, <1>9, <1>10, <3>6
    <3>5. ui' + worker' - io'.lastAudio <= 27 + SlotFrame
      BY <1>9, <3>1, <3>6, <3>7
    <3>4. RunsOut'
      BY <1>0, <1>6, <3>1, <3>3, <3>5 DEF RunsOut, Since
    <3> QED
      BY <3>4 DEF InTime
  <2>4. CASE S!ServiceDigitalTxProtection
    <3>1. /\ IoEnv /\ UNCHANGED <<mode, generation, pending>>
          /\ io'.gate = io.gate /\ io'.lastAudio = io.lastAudio /\ io'.drainBy = io.drainBy
      BY <1>0, <1>3, <2>4, WatchRuns
    <3>2. OnAir'
      BY <1>0, <3>1 DEF OnAir, IoEnv
    <3>3. RunsOut'
      BY <1>0, <1>6, <3>1, <3>2 DEF RunsOut, Since, IoEnv
    <3> QED
      BY <3>3 DEF InTime
  <2>5. CASE S!StopScheduledDigitalAudio /\ generation' = <<>>
    <3>1. IoEnv /\ ~io'.gate /\ io'.watch = 0 /\ io'.drainBy = 0 /\ pending' = Append(pending, "unkeyed")
      BY <1>0, <2>5, StopDoes
    <3>2. pending' = <<"unkeyed">>
      BY <1>0, <3>1, PostsOne
    <3>3. capture.result = "none"
      BY <1>0 DEF OnAir
    <3>4. KeyIsUp'
      BY <1>2, <1>6, <2>5, <3>1, <3>2, <3>3 DEF KeyIsUp, Silent, Calm, IoEnv
    <3> QED
      BY <3>4 DEF InTime
  <2> QED
    BY <2>1, <2>2, <2>3, <2>4, <2>5
<1> QED
  BY <1>5, <1>6 DEF RunsOut

LEMMA FromUnkeyed == ASSUME SlotSafe, S!Punctual, KeyIsUp, S!Next PROVE InTime'
<1>0. /\ capture.phase = "Unkeying" /\ capture.result = "none" /\ pending = <<"unkeyed">> /\ generation = <<>> /\ Silent /\ SlotTypes
      /\ ~io.gate /\ io.watch = 0 /\ io.drainBy = 0 /\ ui + worker <= capture.drain + 27 + SlotFrame
  BY DEF KeyIsUp, Silent, SlotSafe, Calm
<1>1. ui \in Nat /\ worker \in Nat /\ capture.drain \in Nat /\ SlotFrame \in Nat /\ SlotFrame \in {2, 4, 6, 12}
  BY OnTime
<1>2. ~(ui > capture.drain + 200)
  BY <1>0, <1>1
<1>3. (S!Unkeyed => pending' = <<>> /\ AuEnv) /\ ~S!Keyed /\ ~S!Accepted /\ ~S!Cancel
  BY <1>0, OneCall
<1>4. S!TxTick \/ S!Tick \/ (S!Unkeyed /\ pending' = <<>> /\ AuEnv)
  BY <1>0, <1>3, Quiet DEF S!Next
<1>5. CASE S!TxTick
  <2>1. ~S!MustFail
    BY <1>0, <1>2, Failures
  <2> QED
    BY <1>0, <1>5, <2>1, Phases
<1>6. CASE S!Tick
  <2>1. /\ UNCHANGED <<capture, mode, generation, pending>>
        /\ S!Idle \/ (ui' + worker' = ui + worker /\ worker' = worker - 1)
        /\ io'.gate = io.gate /\ io'.watch = io.watch /\ io'.drainBy = io.drainBy
    BY <1>6, TimeRuns
  <2>2. ui' + worker' = ui + worker
    BY <1>0, <2>1 DEF S!Idle
  <2>3. KeyIsUp'
    BY <1>0, <2>1, <2>2 DEF KeyIsUp, Silent, Calm
  <2> QED
    BY <2>3 DEF InTime
<1>7. CASE S!Unkeyed /\ pending' = <<>> /\ AuEnv
  <2>1. capture'.phase = "Idle" /\ capture'.result = "done" /\ generation' = generation
    BY <1>0, <1>7, UnkeyedDoes
  <2>2. IsDone'
    BY <1>0, <1>7, <2>1 DEF IsDone, Silent, Calm, AuEnv
  <2> QED
    BY <2>2 DEF InTime
<1> QED
  BY <1>4, <1>5, <1>6, <1>7

LEMMA FromDone == ASSUME SlotSafe, S!Punctual, IsDone, S!Next PROVE InTime'
<1>0. /\ capture.phase = "Idle" /\ capture.result = "done" /\ pending = <<>> /\ generation = <<>> /\ Silent /\ SlotTypes
      /\ io.watch = 0 /\ io.drainBy = 0
  BY DEF IsDone, Silent, SlotSafe, Calm
<1>1. S!TxTick \/ S!Tick
  BY <1>0, Quiet DEF S!Next
<1>2. CASE S!TxTick
  <2>1. ~S!MustFail
    BY <1>0, Failures
  <2> QED
    BY <1>0, <1>2, <2>1, Phases
<1>3. CASE S!Tick
  <2>1. UNCHANGED <<capture, generation, pending>> /\ io'.gate = io.gate /\ io'.watch = io.watch /\ io'.drainBy = io.drainBy
    BY <1>3, TimeRuns
  <2>2. IsDone'
    BY <1>0, <2>1 DEF IsDone, Silent, Calm
  <2> QED
    BY <2>2 DEF InTime
<1> QED
  BY <1>1, <1>2, <1>3

LEMMA InTimeNext == SlotSafe /\ S!Punctual /\ InTime /\ S!Next => InTime'
<1> SUFFICES ASSUME SlotSafe, S!Punctual, InTime, S!Next PROVE InTime'
  OBVIOUS
<1> QED
  BY FromWaiting, FromAsking, FromKeyed, FromRising, FromLeaving, FromPausing, FromEnding, FromDraining, FromDrained,
     FromRunningOut, FromUnkeyed, FromDone DEF InTime

----------------------------------------------------------------------------
(* The whole part. *)
OfSlot == part = "slot" => SlotInv

LEMMA SlotStarts == AllInit => OfSlot
<1> SUFFICES ASSUME AllInit, part = "slot" PROVE SlotInv
  BY DEF OfSlot
<1>1. S!Init
  BY DEF AllInit
<1>2. /\ ui \in SlotBegins
      /\ capture = [phase |-> "Waiting", start |-> SlotStart + SlotOffset, keyRequest |-> 0, keyed |-> 0,
               emitted |-> 0, drain |-> 0, result |-> "none"]
      /\ io = [gate |-> FALSE, started |-> 0, lastAudio |-> 0, watch |-> 0,
               drainBy |-> 0, pending |-> 0, complete |-> FALSE, trip |-> "none"]
      /\ mode = FALSE /\ generation = <<>> /\ pending = <<>> /\ screen = [keyed |-> 0, first |-> 0, last |-> 0]
      /\ posted \in SlotDelays /\ worker = posted.lag /\ taking = posted.stall
  BY <1>1, SlotNumbers DEF S!Init
<1>3. /\ capture.phase = "Waiting" /\ capture.start = SlotStart + SlotOffset /\ capture.keyed = 0 /\ capture.drain = 0 /\ capture.result = "none"
      /\ ~io.gate /\ io.started = 0 /\ io.lastAudio = 0 /\ io.watch = 0 /\ io.drainBy = 0 /\ io.pending = 0
      /\ screen.keyed = 0 /\ screen.first = 0 /\ screen.last = 0
  BY <1>2
<1>4. /\ ui \in Nat \ {0} /\ SlotStart \in Nat /\ SlotOffset \in Nat /\ SlotWave \in Nat
      /\ posted.lag \in Nat /\ posted.stall \in Nat /\ ui + 3 < SlotStart + S!LatestStart /\ S!LatestStart \in Int
  BY <1>2, SlotConstants, SlotBounds
<1>5. ~HasKey /\ ~HasFrame /\ ~HasKeyed /\ Once(generation, {"key"})
  BY <1>2 DEF HasKey, HasFrame, HasKeyed, Has, Once
<1>6. capture \in TxRecords /\ io \in IoRecords /\ screen \in LineRecords
  <2>1. 0 \in 0 .. SlotWave /\ 0 \in 0 .. S!Backlog + 1 /\ SlotStart + SlotOffset \in Nat
    BY <1>4, SlotNumbers
  <2>2. capture \in TxRecords
    BY <1>2, <2>1 DEF TxRecords
  <2>3. io \in IoRecords
    BY <1>2, <2>1 DEF IoRecords
  <2>4. screen \in LineRecords
    BY <1>2 DEF LineRecords
  <2> QED
    BY <2>2, <2>3, <2>4
<1>7. SlotTypes
  <2>1. worker \in 0 .. posted.lag /\ taking \in 0 .. posted.stall
    BY <1>2, <1>4
  <2>3. <<>> \in Seq(IoCalls) /\ <<>> \in Seq(AuCalls) /\ FALSE \in BOOLEAN
    OBVIOUS
  <2>2. generation \in Seq(IoCalls) /\ pending \in Seq(AuCalls) /\ mode \in BOOLEAN
    BY <1>2, <2>3
  <2> QED
    BY <1>2, <1>3, <1>4, <1>6, <2>1, <2>2 DEF SlotTypes
<1>8. KeyOrder
  <2>1. 0 <= ui
    BY <1>4
  <2> QED
    BY <1>3, <1>5, <2>1 DEF KeyOrder
<1>9. Watching
  BY <1>3 DEF Watching
<1>10. Paced
  BY <1>3, <1>5 DEF Paced
<1>11. ASSUME S!Punctual PROVE InTime
  <2>1. worker <= 3
    BY <1>2, <1>4, <1>11 DEF S!Punctual
  <2>2. ui + worker < SlotStart + S!LatestStart
    BY <1>2, <1>4, <2>1
  <2>3. WaitsForSlot
    BY <1>2, <1>3, <2>2 DEF WaitsForSlot, Calm, Asleep, Silent
  <2> QED
    BY <2>3 DEF InTime
<1> QED
  BY <1>7, <1>8, <1>9, <1>10, <1>11 DEF SlotInv, SlotSafe

LEMMA PunctualStays == posted' = posted => (S!Punctual' <=> S!Punctual)
  BY DEF S!Punctual

LEMMA NextKeepsDelays == SlotTypes /\ S!Next => posted' = posted
<1> SUFFICES ASSUME SlotTypes, S!Next PROVE posted' = posted
  OBVIOUS
<1>1. CASE S!TxTick \/ S!Keyed \/ S!Accepted \/ S!Unkeyed \/ S!Cancel
  <2>1. S!AudioRest
    BY <1>1 DEF S!TxTick, S!Keyed, S!Accepted, S!Unkeyed, S!Cancel, S!AuTakes
  <2> QED
    BY <2>1, Rests DEF AuEnv
<1>2. CASE S!BeginScheduledDigitalAudio \/ S!StopScheduledDigitalAudio \/ (\E call \in {"frame", "final"} : S!SendDigitalAudio(call))
           \/ S!Drained \/ S!DrainTimeout \/ S!ServiceDigitalTxProtection
  <2>1. S!IoRest
    BY <1>2 DEF S!BeginScheduledDigitalAudio, S!StopScheduledDigitalAudio, S!SendDigitalAudio, S!Drained, S!DrainTimeout,
                S!ServiceDigitalTxProtection
  <2> QED
    BY <2>1, Rests DEF IoEnv
<1>3. CASE S!Tick
  BY <1>3 DEF S!Tick
<1> QED
  BY <1>1, <1>2, <1>3 DEF S!Next

LEMMA SlotNext == SlotInv /\ S!Next => SlotInv'
<1> SUFFICES ASSUME SlotInv, S!Next PROVE SlotInv'
  OBVIOUS
<1>1. SlotSafe /\ (S!Punctual => InTime)
  BY DEF SlotInv
<1>2. SlotSafe'
  BY <1>1, SafeNext
<1>3. S!Punctual' <=> S!Punctual
  BY <1>1, NextKeepsDelays, PunctualStays DEF SlotSafe
<1> QED
  BY <1>1, <1>2, <1>3, InTimeNext DEF SlotInv

LEMMA InTimeStays == UNCHANGED <<ui, capture, io, mode, generation, pending, screen, posted, worker, taking>> /\ InTime => InTime'
<1> SUFFICES ASSUME UNCHANGED <<ui, capture, io, mode, generation, pending, screen, posted, worker, taking>>, InTime PROVE InTime'
  OBVIOUS
<1>1. CASE WaitsForSlot
  <2>1. WaitsForSlot'
    BY <1>1 DEF WaitsForSlot, Calm, Asleep, Silent, S!LatestStart, S!Smaller
  <2> QED
    BY <2>1 DEF InTime
<1>2. CASE AsksForKey
  <2>1. AsksForKey'
    BY <1>2 DEF AsksForKey, Calm, Asleep, Silent, Requested
  <2> QED
    BY <2>1 DEF InTime
<1>3. CASE KeyIsDown
  <2>1. KeyIsDown'
    BY <1>3 DEF KeyIsDown, Calm, OnAir, NoAudio, Requested
  <2> QED
    BY <2>1 DEF InTime
<1>4. CASE KeyRises
  <2>1. KeyRises'
    BY <1>4 DEF KeyRises, Calm, OnAir, NoAudio, Requested, S!Larger
  <2> QED
    BY <2>1 DEF InTime
<1>5. CASE FrameLeaves
  <2>1. FrameLeaves'
    BY <1>5 DEF FrameLeaves, Going, OnAir, Last, OnItsWay, Held
  <2> QED
    BY <2>1 DEF InTime
<1>6. CASE FrameWaits
  <2>1. FrameWaits'
    BY <1>6 DEF FrameWaits, Going, OnAir, Last, Held
  <2> QED
    BY <2>1 DEF InTime
<1>7. CASE Ends
  <2>1. Ends'
    BY <1>7 DEF Ends, Calm, OnAir, OnItsWay, Held
  <2> QED
    BY <2>1 DEF InTime
<1>8. CASE Drains
  <2>1. Drains'
    BY <1>8 DEF Drains, Calm, OnAir, Since
  <2> QED
    BY <2>1 DEF InTime
<1>9. CASE HasDrained
  <2>1. HasDrained'
    BY <1>9 DEF HasDrained, Calm, OnAir, Since
  <2> QED
    BY <2>1 DEF InTime
<1>10. CASE RunsOut
  <2>1. RunsOut'
    BY <1>10 DEF RunsOut, OnAir, Since
  <2> QED
    BY <2>1 DEF InTime
<1>11. CASE KeyIsUp
  <2>1. KeyIsUp'
    BY <1>11 DEF KeyIsUp, Silent, Calm
  <2> QED
    BY <2>1 DEF InTime
<1>12. CASE IsDone
  <2>1. IsDone'
    BY <1>12 DEF IsDone, Silent, Calm
  <2> QED
    BY <2>1 DEF InTime
<1> QED
  BY <1>1, <1>2, <1>3, <1>4, <1>5, <1>6, <1>7, <1>8, <1>9, <1>10, <1>11, <1>12 DEF InTime

LEMMA SlotSteps == OfSlot /\ [AllNext]_all => OfSlot'
<1> SUFFICES ASSUME OfSlot, [AllNext]_all PROVE OfSlot'
  OBVIOUS
<1>1. part' = part
  BY DEF AllNext, Receiver, Mirror, Policy, Tuning, TxSlot, all
<1>2. CASE part # "slot"
  BY <1>1, <1>2 DEF OfSlot
<1>3. CASE part = "slot" /\ UNCHANGED all
  <2>1. UNCHANGED <<ui, capture, io, mode, generation, pending, screen, posted, worker, taking>>
    BY <1>3 DEF all, vars
  <2>2. HasKey' <=> HasKey
    BY <2>1, QueuesStay
  <2>3. HasFrame' <=> HasFrame
    BY <2>1, QueuesStay
  <2>4. HasKeyed' <=> HasKeyed
    BY <2>1, QueuesStay
  <2>5. Once(generation, {"key"})' <=> Once(generation, {"key"})
    BY <2>1, QueuesStay
  <2>6. SlotTypes' <=> SlotTypes
    BY <2>1 DEF SlotTypes
  <2>7. KeyOrder' <=> KeyOrder
    BY <2>1, <2>2, <2>3, <2>4, <2>5 DEF KeyOrder
  <2>8. Watching' <=> Watching
    BY <2>1 DEF Watching, Deadline
  <2>9. Paced' <=> Paced
    BY <2>1, <2>3 DEF Paced
  <2>10. S!Punctual' <=> S!Punctual
    BY <2>1, PunctualStays
  <2>11. InTime => InTime'
    BY <2>1, InTimeStays
  <2> QED
    BY <1>1, <1>3, <2>6, <2>7, <2>8, <2>9, <2>10, <2>11 DEF OfSlot, SlotInv, SlotSafe
<1>4. CASE part = "slot" /\ AllNext
  <2>1. ~Receiver /\ ~Policy /\ ~Mirror /\ ~Tuning /\ SlotInv
    BY <1>4 DEF Receiver, Policy, Mirror, Tuning, OfSlot
  <2>2. S!Next
    BY <1>4, <2>1 DEF AllNext, S!Next
  <2> QED
    BY <2>1, <2>2, SlotNext DEF OfSlot
<1> QED
  BY <1>2, <1>3, <1>4

LEMMA SlotIsTyped == OfSlot /\ part = "slot" => S!TypeOK
<1> SUFFICES ASSUME SlotTypes PROVE S!TypeOK
  BY DEF OfSlot, SlotInv, SlotSafe
<1> QED
  BY DEF SlotTypes, TxRecords, IoRecords, LineRecords, IoCalls, AuCalls, S!TypeOK, S!Time

\* The K4 has its key-up time before the first packet; the packets end with the slot's waveform,
\* or the pacing deadline later; a keyed K4 in silence goes back to receive within a watchdog
\* period of the limit; and a punctual transmission does not fail.  For every length of slot,
\* waveform and packet that the code uses, and for event loops as late as the pacing deadline.
THEOREM KeepsToItsSlot == AllSpec => []SlotIsTimely
<1>1. OfSlot => SlotIsTimely
  <2> SUFFICES ASSUME OfSlot, part = "slot" PROVE S!KeyUpFirst /\ S!EndsOnTime /\ S!SilenceIsShort /\ S!OnTimeSucceeds
    BY DEF SlotIsTimely
  <2>0. SlotTypes /\ KeyOrder /\ Watching /\ Paced /\ (S!Punctual => InTime)
    BY DEF OfSlot, SlotInv, SlotSafe
  <2>1. /\ ui \in Nat /\ worker \in Nat /\ posted.lag \in Nat /\ worker <= posted.lag /\ posted.lag <= S!Larger(8, SlotFrame)
        /\ S!Larger(8, SlotFrame) \in Int /\ SlotStart \in Nat /\ SlotOffset \in Nat /\ SlotWave \in Nat
        /\ capture.start = SlotStart + SlotOffset
    BY <2>0, SlotDelay, SlotConstants DEF SlotTypes
  <2>2. screen.keyed \in Nat /\ screen.first \in Nat /\ screen.last \in Nat /\ capture.keyed \in Nat /\ io.watch \in Nat
    BY <2>0 DEF SlotTypes, LineRecords, IoRecords, TxRecords
  <2>3. S!KeyUpFirst
    <3> SUFFICES ASSUME screen.keyed # 0, screen.first # 0 PROVE screen.first - screen.keyed >= 50
      BY SlotNumbers DEF S!KeyUpFirst
    <3>1. screen.first >= capture.keyed + 50 /\ capture.keyed # 0 /\ screen.keyed <= capture.keyed
      BY <2>0 DEF KeyOrder
    <3> QED
      BY <2>2, <3>1
  <2>4. S!EndsOnTime
    <3> SUFFICES ASSUME screen.last # 0 PROVE screen.last < SlotStart + SlotOffset + SlotWave + S!Larger(8, SlotFrame)
      BY SlotNumbers DEF S!EndsOnTime
    <3>1. screen.last <= SlotStart + SlotOffset + SlotWave - 1 + posted.lag
      BY <2>0, <2>1 DEF Paced
    <3> QED
      BY <2>1, <2>2, <3>1
  <2>5. S!SilenceIsShort
    <3> SUFFICES ASSUME screen.keyed # 0
                 PROVE  ui <= posted.lag + 5 + IF screen.last = 0 THEN screen.keyed + 120 ELSE screen.last + 40
      BY SlotNumbers DEF S!SilenceIsShort
    <3>1. io.watch <= Deadline + 5 /\ ui <= io.watch + (posted.lag - worker)
      BY <2>0 DEF Watching
    <3>2. Deadline \in Int
      BY <2>2 DEF Deadline
    <3>3. ui <= posted.lag + 5 + Deadline
      BY <2>1, <2>2, <3>1, <3>2
    <3> QED
      BY <3>3 DEF Deadline
  <2>6. S!OnTimeSucceeds
    <3> SUFFICES ASSUME S!Punctual PROVE capture.result # "failed"
      BY DEF S!OnTimeSucceeds
    <3>1. capture.result \in {"none", "done"}
      BY <2>0 DEF InTime, WaitsForSlot, AsksForKey, KeyIsDown, KeyRises, FrameLeaves, FrameWaits, Going, Ends, Drains,
                  HasDrained, RunsOut, KeyIsUp, IsDone, OnAir
    <3> QED
      BY <3>1
  <2> QED
    BY <2>3, <2>4, <2>5, <2>6
<1> QED
  BY <1>1, SlotStarts, SlotSteps, PTL DEF AllSpec

==============================================================================
