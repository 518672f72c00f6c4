------------------------------- MODULE Ft8Slot -------------------------------
(***************************************************************************)
(* The timing of one FT8/FT4 transmission: Ft8Transmitter (tx) on the audio *)
(* thread keys ahead of its slot, waits out the K4's key-up, paces the      *)
(* waveform and waits for it to drain; TcpClient (io) writes the packets    *)
(* under the 50 ms watchdog of DigitalTxGuard.  DigitalTx models the same   *)
(* two without time, with halts, faults and the UI.                         *)
(*                                                                          *)
(* Time is in units of 10 ms (120 samples).  A handler runs in the unit in  *)
(* which it is due, but once the event loops are late, for up to max.lag;   *)
(* and the socket's buffer is sent within a unit, but once the link stalls, *)
(* for up to max.stall.                                                     *)
(***************************************************************************)
EXTENDS Integers, Sequences

CONSTANTS
  Begin,    \* when schedule() may run
  Slot,     \* when the transmit period starts
  Period,   \* its length
  Offset,   \* audio starts this much later
  Wave,     \* length of the waveform
  Frame,    \* length of a packet
  Delays    \* bound: how long the event loops are late and the link is stalled

KeyLead == 60      \* TX this long before the audio
KeyUp == 50        \* the K4 needs this long
KeyLimit == 150
FirstAudioLimit == 120
StreamLimit == 40
WatchdogPeriod == 5
DrainLimit == 50
DrainGrace == 150
UnkeyLimit == 200
Backlog == 4       \* packets

Never == 0

VARIABLES
  now,
  tx,        \* Ft8Transmitter
  io,        \* TcpClient, DigitalTxGuard and the socket's buffer
  open,      \* DigitalTxControl: the generation is allowed
  ioQ, auQ,  \* calls queued to the two threads
  line,      \* history: when TX, the first and the last packet were written
  max,       \* the delays of this behaviour
  lag, stall \* what is left of them

delays == <<max, lag, stall>>
vars == <<now, tx, io, open, ioQ, auQ, line, delays>>

Smaller(a, b) == IF a < b THEN a ELSE b
Larger(a, b) == IF a > b THEN a ELSE b
LatestStart == Smaller((Period * 3) \div 4, Offset + Wave - 60)

Init ==
  /\ now \in Begin
  /\ tx = [phase |-> "Waiting", start |-> Slot + Offset, keyRequest |-> Never, keyed |-> Never,
           emitted |-> 0, drain |-> Never, result |-> "none"]
  /\ io = [gate |-> FALSE, started |-> Never, lastAudio |-> Never, watch |-> Never,
           drainBy |-> Never, pending |-> 0, complete |-> FALSE, trip |-> "none"]
  /\ open = FALSE
  /\ ioQ = <<>> /\ auQ = <<>>
  /\ line = [keyed |-> Never, first |-> Never, last |-> Never]
  /\ max \in Delays /\ lag = max.lag /\ stall = max.stall

(***************************************************************************)
(* Ft8Transmitter::tick, every 5 ms, where it does something               *)
(***************************************************************************)
Fails(t) == [t EXCEPT !.phase = "Idle", !.result = "failed"]
Fail ==
  /\ tx' = Fails(tx) /\ open' = FALSE
  /\ ioQ' = Append(ioQ, "unkey")
AudioRest == UNCHANGED <<now, io, line, delays>>

TooLateToKey == now - tx.start + Offset >= LatestStart
KeyTime == tx.phase = "Waiting" /\ now >= tx.start - KeyLead
TickKey ==
  /\ KeyTime /\ ~TooLateToKey
  /\ tx' = [tx EXCEPT !.phase = "Keying", !.keyRequest = now]
  /\ ioQ' = Append(ioQ, "key") /\ UNCHANGED open

KeyingExpired ==
  /\ tx.phase = "Keying" /\ now >= tx.start
  /\ now > tx.start + Wave - 2 \/ now - tx.keyRequest > KeyLimit
KeyedUp ==
  /\ tx.phase = "Keying" /\ now >= tx.start /\ ~KeyingExpired
  /\ tx.keyed # Never /\ now - tx.keyed >= KeyUp

\* A late start skips what should have been sent: the waveform keeps its place.
M_Begun(t) == [t EXCEPT !.phase = "Audio", !.start = now]    \* mutant: it is shifted
Begun(t) == [t EXCEPT !.phase = "Audio", !.emitted = Larger(0, now - t.start)]
Emitted(t) == LET n == t.emitted + Smaller(Frame, Wave - t.emitted)
              IN [t EXCEPT !.emitted = n, !.phase = IF n = Wave THEN "Drain" ELSE @]
Emits(t) ==
  /\ tx' = Emitted(t)
  /\ ioQ' = Append(ioQ, IF tx'.phase = "Drain" THEN "final" ELSE "frame") /\ UNCHANGED open
TickStart == KeyedUp /\ open /\ Emits(Begun(tx))

FrameDue == tx.start + tx.emitted
PacingMissed == now - FrameDue > Larger(8, Frame)
TickFrame == tx.phase = "Audio" /\ open /\ now >= FrameDue /\ ~PacingMissed /\ Emits(tx)

DrainExpired == tx.phase = "Drain" /\ now > tx.start + Wave + DrainGrace
TickUnkey ==
  /\ tx.phase = "Drain" /\ open /\ ~DrainExpired /\ tx.drain # Never /\ now >= tx.drain
  /\ tx' = [tx EXCEPT !.phase = "Unkeying"]
  /\ ioQ' = Append(ioQ, "unkey") /\ UNCHANGED open

MustFail ==
  \/ KeyTime /\ TooLateToKey
  \/ KeyingExpired
  \/ KeyedUp /\ ~open
  \/ tx.phase \in {"Audio", "Drain"} /\ ~open
  \/ tx.phase = "Audio" /\ PacingMissed
  \/ DrainExpired
  \/ tx.phase = "Unkeying" /\ now > tx.drain + UnkeyLimit
TickFail == MustFail /\ Fail

TxTick == (TickKey \/ TickStart \/ TickFrame \/ TickUnkey \/ TickFail)
          /\ AudioRest /\ UNCHANGED auQ

(***************************************************************************)
(* The calls that reach the audio thread                                   *)
(***************************************************************************)
AuTakes(call) == auQ # <<>> /\ Head(auQ) = call /\ auQ' = Tail(auQ) /\ AudioRest

Keyed ==
  /\ AuTakes("keyed")
  /\ tx' = IF tx.phase = "Keying" THEN [tx EXCEPT !.keyed = now] ELSE tx
  /\ UNCHANGED <<open, ioQ>>
Accepted ==
  /\ AuTakes("accepted")
  /\ tx' = IF tx.phase = "Drain" THEN [tx EXCEPT !.drain = now + Frame + 15] ELSE tx
  /\ UNCHANGED <<open, ioQ>>
Unkeyed ==
  /\ AuTakes("unkeyed")
  /\ tx' = IF tx.phase = "Unkeying" THEN [tx EXCEPT !.phase = "Idle", !.result = "done"] ELSE tx
  /\ UNCHANGED <<open, ioQ>>
Cancel ==
  /\ AuTakes("cancel")
  /\ IF tx.phase = "Idle" THEN UNCHANGED <<tx, open, ioQ>> ELSE Fail

(***************************************************************************)
(* The I/O thread                                                          *)
(***************************************************************************)
IoTakes(call) == ioQ # <<>> /\ Head(ioQ) = call /\ ioQ' = Tail(ioQ)
IoRest == UNCHANGED <<now, tx, delays>>

Off(i) == [i EXCEPT !.gate = FALSE, !.watch = Never, !.drainBy = Never]
Trip(i, why) ==
  /\ io' = [Off(i) EXCEPT !.trip = why] /\ open' = FALSE
  /\ line' = [line EXCEPT !.keyed = Never]
  /\ auQ' = Append(auQ, "cancel")

BeginScheduledDigitalAudio ==
  /\ IoTakes("key") /\ IoRest
  /\ IF tx.phase = "Idle"                  \* scheduledGeneration is 0
     THEN UNCHANGED <<io, open, line, auQ>>
     ELSE /\ io' = [io EXCEPT !.gate = TRUE, !.started = now, !.watch = now + WatchdogPeriod]
          /\ open' = TRUE
          /\ line' = [line EXCEPT !.keyed = now]
          /\ auQ' = Append(auQ, "keyed")

StreamLate == IF io.lastAudio = Never THEN now - io.started >= FirstAudioLimit
                                      ELSE now - io.lastAudio >= StreamLimit
Written(final) == [io EXCEPT !.pending = @ + 1, !.lastAudio = now, !.complete = final,
                             !.drainBy = IF final THEN now + DrainLimit ELSE @]
SendDigitalAudio(call) ==
  /\ call \in {"frame", "final"} /\ IoTakes(call) /\ IoRest
  /\ CASE ~io.gate -> UNCHANGED <<io, open, line, auQ>>
       [] io.gate /\ ~open -> Trip(io, "cancelled")
       [] io.gate /\ open /\ StreamLate -> Trip(io, "stream")
       [] io.gate /\ open /\ ~StreamLate /\ io.pending > Backlog -> Trip(io, "stalled")
       [] OTHER -> /\ io' = Written(call = "final")
                   /\ line' = [line EXCEPT !.first = IF @ = Never THEN now ELSE @, !.last = now]
                   /\ UNCHANGED <<open, auQ>>

\* confirmScheduledAudioDrained, every 10 ms until the final packet has left
Polls == io.drainBy # Never /\ open
Drained ==
  /\ Polls /\ io.pending = 0
  /\ io' = [io EXCEPT !.drainBy = Never]
  /\ auQ' = Append(auQ, "accepted") /\ IoRest /\ UNCHANGED <<open, line, ioQ>>
DrainTimeout ==
  /\ Polls /\ io.pending > 0 /\ now >= io.drainBy
  /\ Trip(io, "drain") /\ IoRest /\ UNCHANGED ioQ

WatchdogDue == io.watch # Never /\ now >= io.watch
ServiceDigitalTxProtection ==
  /\ WatchdogDue /\ IoRest /\ UNCHANGED ioQ
  /\ CASE ~open -> Trip(io, "cancelled")
       [] open /\ StreamLate -> Trip(io, "stream")
       [] OTHER -> io' = [io EXCEPT !.watch = now + WatchdogPeriod] /\ UNCHANGED <<open, line, auQ>>

StopScheduledDigitalAudio ==
  /\ IoTakes("unkey")
  /\ io' = Off(io) /\ open' = FALSE
  /\ line' = [line EXCEPT !.keyed = Never]
  /\ auQ' = Append(auQ, "unkeyed") /\ IoRest

(***************************************************************************)
(* Time passes when nothing is due, or when an event loop is late.         *)
(***************************************************************************)
TxDue ==
  \/ MustFail
  \/ KeyTime \/ KeyedUp
  \/ tx.phase = "Audio" /\ now >= FrameDue
  \/ tx.phase = "Drain" /\ tx.drain # Never /\ now >= tx.drain
IoDue ==
  \/ WatchdogDue
  \/ Polls /\ (io.pending = 0 \/ now >= io.drainBy)
Idle == auQ = <<>> /\ ioQ = <<>> /\ ~TxDue /\ ~IoDue
Over == tx.phase = "Idle" /\ Idle /\ ~io.gate

Left(left, all) == IF left = all THEN all ELSE 0     \* a delay that has ended is used up
Tick ==
  /\ ~Over
  /\ now' = now + 1
  /\ \/ Idle /\ lag' = Left(lag, max.lag)
     \/ ~Idle /\ lag > 0 /\ lag' = lag - 1
  /\ \/ io' = [io EXCEPT !.pending = 0] /\ stall' = Left(stall, max.stall)
     \/ io.pending > 0 /\ stall > 0 /\ stall' = stall - 1 /\ UNCHANGED io
  /\ UNCHANGED <<tx, open, ioQ, auQ, line, max>>

Next ==
  \/ TxTick \/ Keyed \/ Accepted \/ Unkeyed \/ Cancel
  \/ BeginScheduledDigitalAudio \/ StopScheduledDigitalAudio
  \/ (\E call \in {"frame", "final"} : SendDigitalAudio(call))
  \/ Drained \/ DrainTimeout \/ ServiceDigitalTxProtection
  \/ Tick
Spec == Init /\ [][Next]_vars

(***************************************************************************)
(* Properties                                                              *)
(***************************************************************************)
Time == Nat
TypeOK ==
  /\ now \in Time /\ open \in BOOLEAN /\ max \in Delays
  /\ lag \in 0 .. max.lag /\ stall \in 0 .. max.stall
  /\ tx \in [phase : {"Idle", "Waiting", "Keying", "Audio", "Drain", "Unkeying"}, start : Time,
             keyRequest : Time, keyed : Time, emitted : 0 .. Wave, drain : Time,
             result : {"none", "done", "failed"}]
  /\ io \in [gate : BOOLEAN, started : Time, lastAudio : Time, watch : Time, drainBy : Time,
             pending : 0 .. Backlog + 1, complete : BOOLEAN,
             trip : {"none", "stream", "cancelled", "stalled", "drain"}]
  /\ ioQ \in Seq({"key", "frame", "final", "unkey"})
  /\ auQ \in Seq({"keyed", "accepted", "unkeyed", "cancel"})
  /\ line \in [keyed : Time, first : Time, last : Time]

(* The K4 has its key-up time between TX and the first packet: keyed() is     *)
(* told of TX after it was written, however late the two threads run.         *)
KeyUpFirst == line.keyed # Never /\ line.first # Never => line.first - line.keyed >= KeyUp
(* A late start skips samples instead of shifting them: the packets end where *)
(* the slot's waveform ends, or the pacing deadline (PacingMissed) later.     *)
EndsOnTime == line.last # Never => line.last < Slot + Offset + Wave + Larger(8, Frame)

(* A keyed K4 that gets no packet goes back to receive 1.2 s after it was     *)
(* keyed, or 0.4 s after the last one, within a watchdog period of 50 ms.     *)
SilenceIsShort ==
  line.keyed # Never =>
    now <= max.lag + 5 + IF line.last = Never THEN line.keyed + FirstAudioLimit
                                             ELSE line.last + StreamLimit

(* A transmission scheduled before the latest start, less the time the event  *)
(* loops may be late, is completed while they and the link are late by little: *)
(* by less than a packet, and by no more packets than the socket may hold.     *)
Punctual ==
  /\ max.lag <= 3 /\ max.lag < Frame
  /\ max.stall <= 8 /\ max.lag + max.stall < (Backlog + 1) * Frame
OnTimeSucceeds == Punctual => tx.result # "failed"

=============================================================================
