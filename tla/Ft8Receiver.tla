------------------------------ MODULE Ft8Receiver ------------------------------
(***************************************************************************)
(* Received audio on its way to the FT8/FT4 decoder.  Three threads meet:    *)
(* the I/O thread enqueues each block the radio sends, the worker assembles  *)
(* receive periods and decodes them, and the UI thread switches capture and  *)
(* mode and takes the decodes.  They share four atomics and no lock; what    *)
(* belongs together is told by a generation number.                          *)
(*                                                                           *)
(* The unit of time and of audio is one block.  A block carries its number   *)
(* and the time it came in; a window is the list of the numbers decoded      *)
(* together.                                                                 *)
(***************************************************************************)
EXTENDS Integers, Sequences

CONSTANTS
  Period,     \* length of a receive period in blocks, by mode
  MaxQueued,  \* maxQueued of enqueue, in blocks
  Gap,        \* how far a block may lie from its place, in blocks
  Blocks,     \* bound: blocks that come in
  Changes     \* bound: times the operator or the readiness changes capture

Modes == DOMAIN Period

\* Lengths of time and audio; mode 0, FT8, is the one at the start.
ASSUME ReceiverBounds ==
  /\ Period \in [DOMAIN Period -> Nat \ {0}] /\ 0 \in DOMAIN Period
  /\ MaxQueued \in Nat /\ Gap \in Nat /\ Blocks \in Nat /\ Changes \in Nat

VARIABLES
  capture, mode, generation,  \* m_capture, m_mode, m_generation
  pending,  \* m_pendingBytes, in blocks
  ui,       \* the UI thread: calls of setCapture still to make, and where it is in one
  screen,   \* Ft8Screen: mode, receiving
  io,       \* the I/O thread in enqueue: where, the block, what it has loaded
  posted,   \* blocks posted to the worker
  worker,   \* consume: generation, mode, slot, position, window, earlyDecoded
  taking,   \* the worker's lambda: where, and its block
  signals,  \* decoded signals posted to the UI
  heard,    \* blocks that came in, and the time of the last
  shown,    \* history: the window of the decodes taken last in this capture
  since,    \* history: blocks done with when setCapture last began to change anything
  changes   \* how often capture may still be changed

vars == <<capture, mode, generation, pending, ui, screen, io, posted, worker, taking,
          signals, heard, shown, since, changes>>
shared == <<capture, mode, generation, pending>>
uiVars == <<ui, screen, shown, since, changes>>
ioVars == <<io, heard>>
workerVars == <<worker, taking>>

Idle == [at |-> "idle"]
NoDsp == [generation |-> 0, mode |-> 0, slot |-> -1, position |-> 0, window |-> <<>>, early |-> FALSE]

Init ==
  /\ capture = FALSE /\ mode = 0 /\ generation = 0 /\ pending = 0
  /\ ui = [at |-> "idle", calls |-> <<>>]
  /\ screen = [mode |-> 0, receiving |-> TRUE]
  /\ io = Idle /\ posted = <<>> /\ worker = NoDsp /\ taking = Idle /\ signals = <<>>
  /\ heard = [count |-> 0, time |-> 0]
  /\ shown = <<>> /\ since = 0 /\ changes = Changes

----------------------------------------------------------------------------
(* The UI thread. *)

Calls(calls) == ui' = [at |-> IF calls = <<>> THEN "idle" ELSE "call", calls |-> calls]

\* refreshFt8Capture: readiness changed with the radio, another transmission or the app.
Refresh(on) ==
  /\ ui.at = "idle" /\ changes > 0
  /\ on => screen.receiving
  /\ Calls(<<[on |-> on, mode |-> screen.mode]>>)
  /\ changes' = changes - 1
  /\ UNCHANGED <<shared, screen, shown, since, ioVars, posted, workerVars, signals>>

\* captureChanged: the operator toggles Receive, retunes or changes the mode.
CaptureChanged(m, receives, ready) ==
  /\ ui.at = "idle" /\ changes > 0
  /\ screen' = [mode |-> m, receiving |-> receives]
  /\ Calls(<<[on |-> FALSE, mode |-> m], [on |-> receives /\ ready, mode |-> m]>>)
  /\ changes' = changes - 1
  /\ UNCHANGED <<shared, shown, since, ioVars, posted, workerVars, signals>>

\* setCapture, its comparison and m_capture.store(false).
Begin ==
  LET call == Head(ui.calls) IN
  /\ ui.at = "call"
  /\ IF capture = call.on /\ mode = call.mode
     THEN Calls(Tail(ui.calls)) /\ UNCHANGED <<capture, shown, since>>
     ELSE /\ ui' = [ui EXCEPT !.at = "mode"] /\ capture' = FALSE
          /\ shown' = <<>> /\ since' = IF io = Idle THEN heard.count ELSE heard.count - 1
  /\ UNCHANGED <<mode, generation, pending, screen, changes, ioVars, posted, workerVars, signals>>

StoreMode ==
  /\ ui.at = "mode" /\ ui' = [ui EXCEPT !.at = "generation"]
  /\ mode' = Head(ui.calls).mode
  /\ UNCHANGED <<capture, generation, pending, screen, shown, since, changes, ioVars, posted, workerVars, signals>>

StoreGeneration ==
  /\ ui.at = "generation" /\ ui' = [ui EXCEPT !.at = "capture"]
  /\ generation' = generation + 1
  /\ UNCHANGED <<capture, mode, pending, screen, shown, since, changes, ioVars, posted, workerVars, signals>>

StoreCapture ==
  /\ ui.at = "capture"
  /\ capture' = Head(ui.calls).on
  /\ Calls(Tail(ui.calls))
  /\ UNCHANGED <<mode, generation, pending, screen, shown, since, changes, ioVars, posted, workerVars, signals>>

\* Mutant: decodes of any generation are taken.
M_Accept ==
  LET signal == Head(signals) IN
  /\ ui.at = "idle" /\ signals # <<>> /\ signals' = Tail(signals)
  /\ shown' = IF screen.receiving /\ signal.mode = screen.mode THEN signal.window ELSE shown
  /\ UNCHANGED <<shared, ui, screen, since, changes, ioVars, posted, workerVars>>

\* MainWindow's handler of decoded, and addDecodes.
Accept ==
  LET signal == Head(signals) IN
  /\ ui.at = "idle" /\ signals # <<>> /\ signals' = Tail(signals)
  /\ shown' = IF signal.generation = generation /\ screen.receiving /\ signal.mode = screen.mode
              THEN signal.window ELSE shown
  /\ UNCHANGED <<shared, ui, screen, since, changes, ioVars, posted, workerVars>>

----------------------------------------------------------------------------
(* The I/O thread: enqueue of one block. *)

\* A block comes in on time or after a stall.
Hear(delay) ==
  /\ io = Idle /\ heard.count < Blocks
  /\ heard' = [count |-> heard.count + 1, time |-> heard.time + delay]
  /\ io' = IF capture THEN [at |-> "add", block |-> heard.count + 1, time |-> heard.time + delay] ELSE Idle
  /\ UNCHANGED <<shared, uiVars, posted, workerVars, signals>>

Add ==
  /\ io.at = "add"
  /\ pending' = pending + 1
  /\ io' = [io EXCEPT !.at = IF pending + 1 > MaxQueued THEN "drop" ELSE "generation"]
  /\ UNCHANGED <<capture, mode, generation, heard, uiVars, posted, workerVars, signals>>

\* Mutant: the block that does not fit stays counted.
M_TakeBack ==
  /\ io.at = "drop" /\ io' = [io EXCEPT !.at = "restart"]
  /\ UNCHANGED <<shared, heard, uiVars, posted, workerVars, signals>>

\* The block does not fit: its bytes are taken off again.
TakeBack ==
  /\ io.at = "drop" /\ io' = [io EXCEPT !.at = "restart"]
  /\ pending' = pending - 1
  /\ UNCHANGED <<capture, mode, generation, heard, uiVars, posted, workerVars, signals>>

\* Mutant: a lost block does not end the stream.
M_Restart ==
  /\ io.at = "restart" /\ io' = Idle
  /\ UNCHANGED <<shared, heard, uiVars, posted, workerVars, signals>>

\* The stream it is missing from ends with it.
Restart ==
  /\ io.at = "restart" /\ io' = Idle
  /\ generation' = generation + 1
  /\ UNCHANGED <<capture, mode, pending, heard, uiVars, posted, workerVars, signals>>

LoadGeneration ==
  /\ io.at = "generation"
  /\ io' = [at |-> "post", block |-> io.block, time |-> io.time, generation |-> generation]
  /\ UNCHANGED <<shared, heard, uiVars, posted, workerVars, signals>>

\* The mode is loaded and the block posted; only this thread posts.
Post ==
  /\ io.at = "post" /\ io' = Idle
  /\ posted' = Append(posted, [block |-> io.block, time |-> io.time,
                               generation |-> io.generation, mode |-> mode])
  /\ UNCHANGED <<shared, heard, uiVars, workerVars, signals>>

----------------------------------------------------------------------------
(* The worker thread. *)

Take ==
  /\ taking.at = "idle" /\ posted # <<>>
  /\ pending' = pending - 1
  /\ taking' = [at |-> "capture", block |-> Head(posted)] /\ posted' = Tail(posted)
  /\ UNCHANGED <<capture, mode, generation, uiVars, ioVars, worker, signals>>

LoadCapture ==
  /\ taking.at = "capture"
  /\ taking' = IF capture THEN [taking EXCEPT !.at = "consume"] ELSE Idle
  /\ UNCHANGED <<shared, uiVars, ioVars, posted, worker, signals>>

\* A new stream: a new Dsp, or the old one reset, zeros up to where the block lies.
Fresh(b) ==
  LET first == b.time - 1 IN
  [generation |-> b.generation, mode |-> b.mode, slot |-> (first \div Period[b.mode]) * Period[b.mode],
   position |-> first % Period[b.mode], window |-> <<>>, early |-> FALSE]

\* The stream the block is appended to.
Base(b) ==
  LET off == (b.time - 1) - (worker.slot + worker.position) IN
  IF b.generation # worker.generation \/ worker.slot < 0 \/ off > Gap \/ -off > Gap
  THEN Fresh(b) ELSE worker

\* consume: the early decode before the period's end and the final one at it.
Consumed(b) ==
  LET base == Base(b)
      window == Append(base.window, b.block)
      decode == [generation |-> b.generation, mode |-> b.mode, window |-> window]
      atEarly == ~base.early /\ base.position + 1 >= Period[b.mode] - 1
      atEnd == base.position + 1 >= Period[b.mode]
  IN /\ worker' = IF atEnd
                  THEN [base EXCEPT !.slot = @ + Period[b.mode], !.position = 0, !.window = <<>>, !.early = FALSE]
                  ELSE [base EXCEPT !.position = @ + 1, !.window = window, !.early = @ \/ atEarly]
     /\ signals' = signals \o (IF atEarly THEN <<decode>> ELSE <<>>) \o (IF atEnd THEN <<decode>> ELSE <<>>)

Consume ==
  /\ taking.at = "consume" /\ taking' = Idle
  /\ IF taking.block.generation = generation THEN Consumed(taking.block)
     ELSE UNCHANGED <<worker, signals>>
  /\ UNCHANGED <<shared, uiVars, ioVars, posted>>

Next ==
  \/ \E on \in BOOLEAN : Refresh(on)
  \/ \E m \in Modes, receives, ready \in BOOLEAN : CaptureChanged(m, receives, ready)
  \/ Begin \/ StoreMode \/ StoreGeneration \/ StoreCapture \/ Accept
  \/ \E delay \in {1, 2 + Gap} : Hear(delay)
  \/ Add \/ TakeBack \/ Restart \/ LoadGeneration \/ Post
  \/ Take \/ LoadCapture \/ Consume

Spec == Init /\ [][Next]_vars

----------------------------------------------------------------------------
\* The bytes counted as pending are those posted and the one block enqueue has in hand:
\* refusals, restarts and the worker's own subtraction leave nothing behind, so a full
\* queue always becomes usable again.
PendingIsQueued ==
  pending = Len(posted) + (IF io.at \in {"generation", "post", "drop"} THEN 1 ELSE 0)

TypeOK ==
  /\ capture \in BOOLEAN /\ mode \in Modes /\ generation \in Nat /\ pending \in 0 .. MaxQueued + 1
  /\ worker.mode \in Modes /\ worker.position \in 0 .. Period[worker.mode] - 1
  /\ Len(worker.window) <= worker.position
  /\ PendingIsQueued

\* A period that is shown holds consecutive blocks, whatever the queue refused and
\* however capture went on and off.  Only its first block may stand apart: one that passed
\* enqueue's look at m_capture before setCapture began and loaded m_generation after it.
ShownIsWhole == \A i \in 2 .. Len(shown) - 1 : shown[i + 1] = shown[i] + 1

\* What is shown was heard since the operator last changed what to receive, but for the
\* block enqueue had in hand: no decode of the earlier band or mode is taken as a station
\* of this one.
FromThisCapture == shown' # shown => \A i \in 1 .. Len(shown') : shown'[i] > since

\* A stream of the current generation is decoded in the mode on the screen, so what is
\* received after a change is not lost to a decoder of the other mode.
StreamInMode ==
  ui.at = "idle" /\ capture /\ worker.generation = generation /\ worker.slot >= 0
    => worker.mode = screen.mode
================================================================================
