----------------------------- MODULE DevicesProofs -----------------------------
(***************************************************************************)
(* Proofs about the parts that MCDevices puts together, for every value of *)
(* their constants.  A step of one part is no step of another, so each     *)
(* part is proved for itself, about the variables it uses of Ft8Receiver,  *)
(* and what is proved holds while it is the part.  The transmit slot is in *)
(* SlotProofs.                                                             *)
(***************************************************************************)
EXTENDS SlotProofs

----------------------------------------------------------------------------
(***************************************************************************)
(* Reception.  The numbers of blocks grow along the worker's window, the   *)
(* block it has in hand, the queue and the block in enqueue's hand.  What  *)
(* is told of a generation holds for the current one only: a new one has   *)
(* no blocks yet.  While setCapture is between its first store and that of *)
(* the generation (~Steady) nothing is claimed, for what has the old       *)
(* generation then is never shown.                                         *)
(***************************************************************************)
Calling == [on : BOOLEAN, mode : Modes]
Posted == [block : Nat, time : Nat \ {0}, generation : Nat, mode : Modes]
Hands == [at : {"add", "drop", "restart", "generation"}, block : Nat, time : Nat \ {0}]
Loaded == [at : {"post"}, block : Nat, time : Nat \ {0}, generation : Nat]
Takings == [at : {"capture", "consume"}, block : Posted]
Dsps == [generation : Nat, mode : Modes, slot : Int, position : Nat, window : Seq(Nat), early : BOOLEAN]
UiStates == [at : {"idle", "call", "mode", "generation", "capture"}, calls : Seq(Calling)]
Decodings == [generation : Nat, mode : Modes, window : Seq(Nat)]

Fits(w) == w \in Dsps /\ w.position < Period[w.mode] /\ Len(w.window) <= w.position

RcvTypes ==
  /\ capture \in BOOLEAN /\ mode \in Modes /\ generation \in Nat
  /\ heard.count \in Nat /\ heard.time \in Nat /\ since \in Nat
  /\ posted \in Seq(Posted)
  /\ io = Idle \/ io \in Hands \/ io \in Loaded
  /\ taking = Idle \/ taking \in Takings
  /\ Fits(worker) /\ signals \in Seq(Decodings) /\ shown \in Seq(Nat)

RcvCounts ==
  /\ pending \in Nat /\ PendingIsQueued
  /\ pending <= MaxQueued + IF io.at = "drop" THEN 1 ELSE 0

\* The calls of setCapture still to make are for the mode on the screen.
Switching ==
  /\ ui \in UiStates /\ screen.mode \in Modes
  /\ ui.at # "idle" => ui.calls # <<>>
  /\ \A i \in DOMAIN ui.calls : ui.calls[i].mode = screen.mode
  /\ ui.at \in {"idle", "generation", "capture"} => mode = screen.mode
  /\ ui.at \in {"mode", "generation", "capture"} => ~capture

Taken == IF io = Idle THEN heard.count ELSE heard.count - 1
Sorted ==
  /\ since <= Taken
  /\ io # Idle => io.block = heard.count /\ io.time = heard.time
  /\ \A i \in DOMAIN posted : posted[i].block <= Taken
  /\ \A i, j \in DOMAIN posted : i < j => posted[i].block < posted[j].block
  /\ taking # Idle => /\ taking.block.block <= Taken
                      /\ \A i \in DOMAIN posted : taking.block.block < posted[i].block
  /\ \A k \in DOMAIN worker.window :
       /\ worker.window[k] <= Taken
       /\ \A i \in DOMAIN posted : worker.window[k] < posted[i].block
       /\ taking # Idle => worker.window[k] < taking.block.block
  /\ \A k, l \in DOMAIN worker.window : k < l => worker.window[k] < worker.window[l]

Generations ==
  /\ \A i \in DOMAIN posted : posted[i].generation <= generation
  /\ taking # Idle => taking.block.generation <= generation
  /\ worker.generation <= generation
  /\ \A i \in DOMAIN signals : signals[i].generation <= generation
  /\ io.at = "post" => io.generation <= generation

Steady == ui.at \notin {"mode", "generation"}
\* A block of the current generation is under way, in a window or in a queue.
Current(n) ==
  \/ \E i \in DOMAIN posted : posted[i].generation = generation /\ posted[i].block = n
  \/ taking # Idle /\ taking.block.generation = generation /\ taking.block.block = n
  \/ worker.generation = generation /\ \E k \in DOMAIN worker.window : worker.window[k] = n
  \/ io.at = "post" /\ io.generation = generation /\ io.block = n

\* No gap behind a block, unless it is the one enqueue had in hand when setCapture began.
Gapless ==
  /\ ~capture /\ io # Idle => heard.count = since + 1
  /\ Steady => \A n \in 0 .. heard.count : Current(n) =>
       /\ n > since
       /\ ~capture => n = since + 1
       /\ io.at = "post" => io.generation = generation
       /\ n > since + 1 => \A m \in n .. Taken : Current(m)

Whole(w) == \A i \in 2 .. Len(w) - 1 : w[i + 1] = w[i] + 1
Wholes ==
  /\ Steady /\ worker.generation = generation => Whole(worker.window)
  /\ Steady => \A i \in DOMAIN signals : signals[i].generation = generation =>
       Whole(signals[i].window) /\ \A k \in DOMAIN signals[i].window : signals[i].window[k] > since
  /\ Whole(shown)

\* A block has the mode that was stored before its generation.
InMode ==
  /\ ui.at # "generation" =>
       /\ \A i \in DOMAIN posted : posted[i].generation = generation => posted[i].mode = mode
       /\ taking # Idle /\ taking.block.generation = generation => taking.block.mode = mode
       /\ worker.generation = generation => worker.mode = mode
  /\ taking.at = "consume" /\ taking.block.generation = generation /\ worker.generation = generation
       => worker.mode = taking.block.mode

RcvInv == /\ RcvTypes /\ RcvCounts /\ Switching
          /\ Sorted /\ Generations /\ Gapless /\ Wholes /\ InMode

----------------------------------------------------------------------------
LEMMA ReceptionBegins == Init => RcvInv
<1> SUFFICES ASSUME Init PROVE RcvInv
  OBVIOUS
<1>1. posted = <<>> /\ signals = <<>> /\ shown = <<>> /\ io = Idle /\ taking = Idle /\ worker = NoDsp
  BY DEF Init
<1>2. /\ <<>> \in Seq(Posted) /\ <<>> \in Seq(Decodings) /\ <<>> \in Seq(Nat) /\ <<>> \in Seq(Calling)
      /\ DOMAIN <<>> = {} /\ Len(<<>>) = 0
  OBVIOUS
<1>3. Idle.at = "idle" /\ 0 \in Modes /\ Period[0] \in Nat /\ Period[0] > 0
  BY ReceiverBounds DEF Idle, Modes
<1>4. RcvTypes
  <2>1. Fits(worker)
    BY <1>1, <1>2, <1>3 DEF NoDsp, Fits, Dsps
  <2> QED
    BY <1>1, <1>2, <1>3, <2>1 DEF Init, RcvTypes
<1>5. RcvCounts
  BY <1>1, <1>2, <1>3, ReceiverBounds DEF Init, RcvCounts, PendingIsQueued
<1>6. Switching
  BY <1>2, <1>3 DEF Init, Switching, UiStates
<1>7. Sorted /\ Generations
  BY <1>1, <1>2, <1>3 DEF Init, Sorted, Generations, NoDsp, Taken
<1>8. Gapless
  BY <1>1, <1>3 DEF Init, Gapless, Current, NoDsp
<1>9. Wholes /\ InMode
  BY <1>1, <1>2, <1>3 DEF Init, Wholes, Whole, InMode, NoDsp
<1> QED
  BY <1>4, <1>5, <1>6, <1>7, <1>8, <1>9 DEF RcvInv

\* What the other threads see is left alone.
LEMMA ScreenChanges ==
  ASSUME RcvInv, Switching', Steady <=> Steady', ui.at # "generation", ui'.at # "generation",
         UNCHANGED <<capture, mode, generation, pending, io, heard, posted, worker, taking, signals, shown, since>>
  PROVE  RcvInv'
<1>1. RcvTypes' /\ RcvCounts' /\ Sorted' /\ Generations' /\ InMode'
  BY DEF RcvInv, RcvTypes, RcvCounts, PendingIsQueued, Sorted, Taken, Generations, InMode
<1>2. \A n : Current(n)' <=> Current(n)
  BY DEF Current
<1>3. Gapless'
  BY <1>2 DEF RcvInv, Gapless, Taken
<1>4. Wholes'
  BY DEF RcvInv, Wholes
<1> QED
  BY <1>1, <1>3, <1>4 DEF RcvInv

LEMMA ChangesKeep ==
  ASSUME RcvInv
  PROVE  /\ \A on \in BOOLEAN : Refresh(on) => RcvInv' /\ shown' = shown
         /\ \A m \in Modes, receives, ready \in BOOLEAN : CaptureChanged(m, receives, ready) => RcvInv' /\ shown' = shown
<1>1. ASSUME NEW on \in BOOLEAN, Refresh(on) PROVE RcvInv' /\ shown' = shown
  <2> DEFINE c == [on |-> on, mode |-> screen.mode]
  <2>1. ui' = [at |-> "call", calls |-> <<c>>] /\ ui.at = "idle"
    BY <1>1 DEF Refresh, Calls
  <2>2. c \in Calling
    BY DEF RcvInv, Switching, Calling
  <2>3. Switching'
    BY <1>1, <2>1, <2>2 DEF RcvInv, Switching, UiStates, Refresh, shared
  <2> QED
    BY <1>1, <2>1, <2>3, ScreenChanges DEF Refresh, shared, ioVars, workerVars, Steady
<1>2. ASSUME NEW m \in Modes, NEW receives \in BOOLEAN, NEW ready \in BOOLEAN, CaptureChanged(m, receives, ready)
      PROVE  RcvInv' /\ shown' = shown
  <2> DEFINE c == [on |-> FALSE, mode |-> m]
             d == [on |-> receives /\ ready, mode |-> m]
  <2>1. ui' = [at |-> "call", calls |-> <<c, d>>] /\ ui.at = "idle" /\ screen'.mode = m
    BY <1>2 DEF CaptureChanged, Calls
  <2>2. c \in Calling /\ d \in Calling
    BY DEF Calling
  <2>3. Switching'
    BY <1>2, <2>1, <2>2 DEF RcvInv, Switching, UiStates, CaptureChanged, shared
  <2> QED
    BY <1>2, <2>1, <2>3, ScreenChanges DEF CaptureChanged, shared, ioVars, workerVars, Steady
<1> QED
  BY <1>1, <1>2

\* The first call is done.
LEMMA NextCall ==
  ASSUME ui.calls \in Seq(Calling), ui.calls # <<>>, NEW m, \A i \in DOMAIN ui.calls : ui.calls[i].mode = m,
         Calls(Tail(ui.calls))
  PROVE  /\ ui'.at \in {"idle", "call"} /\ ui'.calls \in Seq(Calling) /\ (ui'.at # "idle" => ui'.calls # <<>>)
         /\ \A i \in DOMAIN ui'.calls : ui'.calls[i].mode = m
         /\ Head(ui.calls) \in Calling /\ Head(ui.calls).mode = m
<1>1. /\ Tail(ui.calls) \in Seq(Calling) /\ \A i \in DOMAIN Tail(ui.calls) : Tail(ui.calls)[i].mode = m
      /\ Head(ui.calls) \in Calling /\ Head(ui.calls).mode = m
  BY Taking
<1>2. ui' = [at |-> IF Tail(ui.calls) = <<>> THEN "idle" ELSE "call", calls |-> Tail(ui.calls)]
  BY DEF Calls
<1> QED
  BY <1>1, <1>2

LEMMA BeginKeeps == RcvInv /\ Begin => RcvInv' /\ (shown' # shown => shown' = <<>>)
<1> SUFFICES ASSUME RcvInv, Begin PROVE RcvInv' /\ (shown' # shown => shown' = <<>>)
  OBVIOUS
<1>1. /\ ui.at = "call" /\ ui.calls \in Seq(Calling) /\ ui.calls # <<>>
      /\ \A i \in DOMAIN ui.calls : ui.calls[i].mode = screen.mode
      /\ UNCHANGED <<mode, generation, pending, screen, io, heard, posted, worker, taking, signals>>
  BY DEF Begin, RcvInv, Switching, UiStates, ioVars, workerVars
<1>2. CASE capture = Head(ui.calls).on /\ mode = Head(ui.calls).mode
  <2>1. Calls(Tail(ui.calls)) /\ UNCHANGED <<capture, shown, since>>
    BY <1>2 DEF Begin
  <2>4. /\ ui'.at \in {"idle", "call"} /\ ui'.calls \in Seq(Calling) /\ (ui'.at # "idle" => ui'.calls # <<>>)
        /\ \A i \in DOMAIN ui'.calls : ui'.calls[i].mode = screen.mode
        /\ Head(ui.calls).mode = screen.mode
    BY <1>1, <2>1, NextCall
  <2>5. ui' \in UiStates
    BY <2>1, <2>4 DEF Calls, UiStates
  <2>2. Switching'
    BY <1>1, <1>2, <2>1, <2>4, <2>5 DEF RcvInv, Switching
  <2>3. ui'.at \in {"idle", "call"}
    BY <1>1, <2>1, NextCall
  <2> QED
    BY <1>1, <2>1, <2>2, <2>3, ScreenChanges DEF Steady
<1>3. CASE ~(capture = Head(ui.calls).on /\ mode = Head(ui.calls).mode)
  <2>1. /\ ui' = [ui EXCEPT !.at = "mode"] /\ capture' = FALSE
        /\ shown' = <<>> /\ since' = Taken
    BY <1>3 DEF Begin, Taken
  <2>2. ui'.at = "mode" /\ ui'.calls = ui.calls
    BY <1>1, <2>1 DEF RcvInv, Switching, UiStates
  <2>3. /\ io # Idle => heard.count > 0
        /\ since' \in Nat /\ since' <= Taken' /\ (io # Idle => heard.count = since' + 1)
    BY <1>1, <2>1 DEF RcvInv, RcvTypes, Sorted, Taken, Hands, Loaded
  <2>4. <<>> \in Seq(Nat) /\ Whole(<<>>)
    BY DEF Whole
  <2>5. RcvTypes' /\ RcvCounts' /\ Sorted' /\ Generations'
    BY <1>1, <2>1, <2>3, <2>4 DEF RcvInv, RcvTypes, RcvCounts, PendingIsQueued, Sorted, Taken, Generations
  <2>6. Switching'
    BY <1>1, <2>1, <2>2 DEF RcvInv, Switching, UiStates
  <2>7. Gapless' /\ Wholes'
    BY <1>1, <2>1, <2>2, <2>3, <2>4 DEF Gapless, Wholes, Steady
  <2>8. InMode'
    BY <1>1, <2>2 DEF RcvInv, InMode
  <2> QED
    BY <2>1, <2>5, <2>6, <2>7, <2>8 DEF RcvInv
<1> QED
  BY <1>2, <1>3

\* A new generation has no blocks yet.
LEMMA NoneYet ==
  ASSUME RcvTypes, Generations, generation' = generation + 1, UNCHANGED <<posted, taking, worker, signals>>,
         io' = io \/ io' = Idle
  PROVE  /\ Generations' /\ generation' \in Nat /\ \A n : ~Current(n)'
         /\ worker'.generation # generation' /\ \A i \in DOMAIN signals' : signals'[i].generation # generation'
         /\ \A i \in DOMAIN posted' : posted'[i].generation # generation'
         /\ taking' # Idle => taking'.block.generation # generation'
<1>1. generation \in Nat /\ worker.generation \in Nat /\ worker.generation <= generation
  BY DEF RcvTypes, Generations, Fits, Dsps
<1>2. ASSUME NEW i \in DOMAIN posted PROVE posted[i].generation \in Nat /\ posted[i].generation <= generation
  <2>1. posted[i] \in Posted
    BY DEF RcvTypes
  <2> QED
    BY <2>1 DEF Generations, Posted
<1>3. ASSUME taking # Idle PROVE taking.block.generation \in Nat /\ taking.block.generation <= generation
  BY <1>3 DEF RcvTypes, Takings, Posted, Generations
<1>4. ASSUME NEW i \in DOMAIN signals PROVE signals[i].generation \in Nat /\ signals[i].generation <= generation
  <2>1. signals[i] \in Decodings
    BY DEF RcvTypes
  <2> QED
    BY <2>1 DEF Generations, Decodings
<1>5. ASSUME io'.at = "post" PROVE io'.generation \in Nat /\ io'.generation <= generation
  BY <1>5 DEF RcvTypes, Generations, Idle, Hands, Loaded
<1>6. generation' \in Nat /\ \A g \in Nat : g <= generation => g <= generation' /\ g # generation'
  BY <1>1
<1>7. Generations'
  BY <1>1, <1>2, <1>3, <1>4, <1>5, <1>6 DEF Generations
<1>8. \A n : ~Current(n)'
  BY <1>1, <1>2, <1>3, <1>5, <1>6 DEF Current
<1> QED
  BY <1>1, <1>2, <1>3, <1>4, <1>6, <1>7, <1>8

LEMMA StoresKeep ==
  ASSUME RcvInv
  PROVE  /\ StoreMode => RcvInv' /\ shown' = shown
         /\ StoreGeneration => RcvInv' /\ shown' = shown
         /\ StoreCapture => RcvInv' /\ shown' = shown
<1>1. /\ ui \in UiStates /\ \A i \in DOMAIN ui.calls : ui.calls[i].mode = screen.mode
  BY DEF RcvInv, Switching
<1>2. ASSUME ui.calls # <<>>
      PROVE  Head(ui.calls) \in Calling /\ Head(ui.calls).mode = screen.mode /\ ui.calls \in Seq(Calling)
  <2>1. ui.calls \in Seq(Calling)
    BY <1>1 DEF UiStates
  <2> QED
    BY <1>1, <1>2, <2>1, Taking
<1>3. ASSUME StoreMode PROVE RcvInv' /\ shown' = shown
  <2>1. /\ ui.at = "mode" /\ ui' = [ui EXCEPT !.at = "generation"] /\ mode' = Head(ui.calls).mode
        /\ UNCHANGED <<capture, generation, pending, screen, shown, since, io, heard, posted, worker, taking, signals>>
    BY <1>3 DEF StoreMode, ioVars, workerVars
  <2>2. ui.calls # <<>> /\ ~capture
    BY <2>1 DEF RcvInv, Switching
  <2>3. ui' \in UiStates /\ ui'.at = "generation" /\ ui'.calls = ui.calls
    BY <1>1, <2>1 DEF UiStates
  <2>4. mode' = screen.mode /\ mode' \in Modes
    BY <1>2, <2>1, <2>2 DEF RcvInv, Switching
  <2>5. RcvTypes' /\ RcvCounts' /\ Sorted' /\ Generations'
    BY <2>1, <2>4 DEF RcvInv, RcvTypes, RcvCounts, PendingIsQueued, Sorted, Taken, Generations
  <2>6. Switching'
    BY <1>1, <2>1, <2>2, <2>3, <2>4 DEF RcvInv, Switching
  <2>7. Gapless'
    BY <2>1, <2>3 DEF RcvInv, Gapless, Steady
  <2>8. Wholes'
    BY <2>1, <2>3 DEF RcvInv, Wholes, Steady
  <2>9. InMode'
    BY <2>1, <2>3 DEF RcvInv, InMode
  <2> QED
    BY <2>1, <2>5, <2>6, <2>7, <2>8, <2>9 DEF RcvInv
<1>4. ASSUME StoreGeneration PROVE RcvInv' /\ shown' = shown
  <2>1. /\ ui.at = "generation" /\ ui' = [ui EXCEPT !.at = "capture"] /\ generation' = generation + 1
        /\ UNCHANGED <<capture, mode, pending, screen, shown, since, io, heard, posted, worker, taking, signals>>
    BY <1>4 DEF StoreGeneration, ioVars, workerVars
  <2>2. ui' \in UiStates /\ ui'.at = "capture" /\ ui'.calls = ui.calls
    BY <1>1, <2>1 DEF UiStates
  <2>3. /\ Generations' /\ generation' \in Nat /\ \A n : ~Current(n)'
        /\ worker'.generation # generation' /\ \A i \in DOMAIN signals' : signals'[i].generation # generation'
        /\ \A i \in DOMAIN posted' : posted'[i].generation # generation'
        /\ taking' # Idle => taking'.block.generation # generation'
    BY <2>1, NoneYet DEF RcvInv
  <2>4. RcvTypes' /\ RcvCounts' /\ Sorted'
    BY <2>1, <2>3 DEF RcvInv, RcvTypes, RcvCounts, PendingIsQueued, Sorted, Taken
  <2>5. Switching'
    BY <1>1, <2>1, <2>2 DEF RcvInv, Switching
  <2>6. Gapless'
    BY <2>1, <2>3 DEF RcvInv, Gapless
  <2>7. Wholes'
    BY <2>1, <2>3 DEF RcvInv, Wholes
  <2>8. InMode'
    BY <2>1, <2>3 DEF InMode
  <2> QED
    BY <2>1, <2>3, <2>4, <2>5, <2>6, <2>7, <2>8 DEF RcvInv
<1>5. ASSUME StoreCapture PROVE RcvInv' /\ shown' = shown
  <2>1. /\ ui.at = "capture" /\ Calls(Tail(ui.calls)) /\ capture' = Head(ui.calls).on
        /\ UNCHANGED <<generation, mode, pending, screen, shown, since, io, heard, posted, worker, taking, signals>>
    BY <1>5 DEF StoreCapture, ioVars, workerVars
  <2>2. ui.calls # <<>> /\ ~capture /\ mode = screen.mode
    BY <2>1 DEF RcvInv, Switching
  <2>3. /\ ui'.at \in {"idle", "call"} /\ ui'.calls \in Seq(Calling) /\ (ui'.at # "idle" => ui'.calls # <<>>)
        /\ \A i \in DOMAIN ui'.calls : ui'.calls[i].mode = screen.mode
    BY <1>1, <1>2, <2>1, <2>2, NextCall
  <2>4. capture' \in BOOLEAN
    BY <1>2, <2>1, <2>2 DEF Calling
  <2>5. RcvTypes' /\ RcvCounts' /\ Sorted' /\ Generations'
    BY <2>1, <2>4 DEF RcvInv, RcvTypes, RcvCounts, PendingIsQueued, Sorted, Taken, Generations
  <2>6. ui' \in UiStates
    BY <2>1, <2>3 DEF Calls, UiStates
  <2>7. Switching'
    BY <2>1, <2>2, <2>3, <2>6 DEF RcvInv, Switching
  <2>8. \A n : Current(n)' <=> Current(n)
    BY <2>1 DEF Current
  <2>9. Gapless'
    <3>1. Steady /\ Taken' = Taken
      BY <2>1 DEF Steady, Taken
    <3> QED
      BY <2>1, <2>2, <2>8, <3>1 DEF RcvInv, Gapless
  <2>10. Wholes'
    BY <2>1, <2>3 DEF RcvInv, Wholes, Steady
  <2>11. InMode'
    BY <2>1, <2>3 DEF RcvInv, InMode
  <2> QED
    BY <2>1, <2>5, <2>7, <2>9, <2>10, <2>11 DEF RcvInv
<1> QED
  BY <1>3, <1>4, <1>5

LEMMA AcceptKeeps == RcvInv /\ Accept => RcvInv' /\ FromThisCapture
<1> SUFFICES ASSUME RcvInv, Accept PROVE RcvInv' /\ FromThisCapture
  OBVIOUS
<1>1. /\ ui.at = "idle" /\ signals # <<>> /\ signals' = Tail(signals)
      /\ UNCHANGED <<capture, mode, generation, pending, ui, screen, since, io, heard, posted, worker, taking>>
  BY DEF Accept, shared, ioVars, workerVars
<1>2. signals \in Seq(Decodings) /\ Steady
  BY <1>1 DEF RcvInv, RcvTypes, Steady
<1>3. /\ Tail(signals) \in Seq(Decodings) /\ Head(signals) \in Decodings
      /\ 1 \in DOMAIN signals /\ Head(signals) = signals[1]
      /\ \A i \in DOMAIN Tail(signals) : i + 1 \in DOMAIN signals /\ Tail(signals)[i] = signals[i + 1]
  BY <1>1, <1>2, Taking
<1>4. /\ shown' \in Seq(Nat) /\ Whole(shown')
      /\ shown' # shown => \A i \in DOMAIN shown' : shown'[i] > since
  <2>1. CASE Head(signals).generation = generation /\ shown' = Head(signals).window
    BY <1>2, <1>3, <2>1 DEF RcvInv, Wholes, Decodings
  <2>2. CASE shown' = shown
    BY <2>2 DEF RcvInv, RcvTypes, Wholes
  <2> QED
    BY <2>1, <2>2 DEF Accept
<1>5. RcvTypes' /\ RcvCounts' /\ Switching' /\ Sorted' /\ Generations'
  BY <1>1, <1>3, <1>4 DEF RcvInv, RcvTypes, RcvCounts, PendingIsQueued, Switching, Sorted, Taken, Generations
<1>6. Gapless'
  BY <1>1 DEF RcvInv, Gapless, Steady, Current, Taken
<1>7. Wholes'
  BY <1>1, <1>3, <1>4 DEF RcvInv, Wholes, Steady
<1>8. InMode'
  BY <1>1 DEF RcvInv, InMode
<1>9. FromThisCapture
  <2>1. DOMAIN shown' = 1 .. Len(shown')
    BY <1>4
  <2> QED
    BY <1>1, <1>4, <2>1 DEF FromThisCapture
<1> QED
  BY <1>5, <1>6, <1>7, <1>8, <1>9 DEF RcvInv

----------------------------------------------------------------------------
(* enqueue: only a block that is posted is newer than those it is done with. *)
LEMMA Under ==
  ASSUME RcvTypes, Sorted
  PROVE  /\ Taken \in Nat /\ Taken <= heard.count
         /\ io # Idle => io.block = heard.count /\ io.time = heard.time /\ Taken = heard.count - 1 /\ io.time \in Nat \ {0}
         /\ io = Idle => Taken = heard.count
         /\ io.at = "idle" <=> io = Idle
         /\ io.at = "post" <=> io \in Loaded
         /\ io.at \in {"add", "drop", "restart", "generation"} <=> io \in Hands
<1>1. /\ io \in Hands => io.at \in {"add", "drop", "restart", "generation"} /\ io.block \in Nat /\ io.time \in Nat \ {0}
      /\ io \in Loaded => io.at = "post" /\ io.block \in Nat /\ io.time \in Nat \ {0}
      /\ io = Idle => io.at = "idle"
  BY DEF Hands, Loaded, Idle
<1>2. heard.count \in Nat /\ (io = Idle \/ io \in Hands \/ io \in Loaded)
  BY DEF RcvTypes
<1>3. io # Idle => io.block = heard.count /\ io.time = heard.time /\ since <= heard.count - 1 /\ since \in Nat
  BY DEF Sorted, Taken, RcvTypes
<1> QED
  BY <1>1, <1>2, <1>3 DEF Taken

LEMMA CurrentIsHeard ==
  ASSUME RcvTypes, Sorted, NEW n, Current(n)
  PROVE  n \in Nat /\ (n <= Taken \/ (io.at = "post" /\ n = heard.count))
<1>1. ASSUME NEW i \in DOMAIN posted, posted[i].block = n PROVE n \in Nat /\ n <= Taken
  <2>1. posted[i] \in Posted
    BY DEF RcvTypes
  <2> QED
    BY <1>1, <2>1 DEF Sorted, Posted
<1>2. ASSUME taking # Idle, taking.block.block = n PROVE n \in Nat /\ n <= Taken
  BY <1>2 DEF RcvTypes, Takings, Posted, Sorted
<1>3. ASSUME NEW k \in DOMAIN worker.window, worker.window[k] = n PROVE n \in Nat /\ n <= Taken
  <2>1. worker.window \in Seq(Nat)
    BY DEF RcvTypes, Fits, Dsps
  <2>2. worker.window[k] \in Nat
    BY <2>1
  <2> QED
    BY <1>3, <2>2 DEF Sorted
<1>4. ASSUME io.at = "post", io.block = n PROVE n \in Nat /\ n = heard.count
  <2>1. io # Idle
    BY <1>4 DEF Idle
  <2> QED
    BY <1>4, <2>1 DEF Sorted, RcvTypes
<1> QED
  BY <1>1, <1>2, <1>3, <1>4 DEF Current

LEMMA BlocksAreNumbers ==
  ASSUME RcvTypes
  PROVE  /\ \A i \in DOMAIN posted : posted[i].block \in Nat
         /\ taking # Idle => taking.block.block \in Nat
         /\ \A k \in DOMAIN worker.window : worker.window[k] \in Nat
<1>1. ASSUME NEW i \in DOMAIN posted PROVE posted[i].block \in Nat
  <2>1. posted[i] \in Posted
    BY DEF RcvTypes
  <2> QED
    BY <2>1 DEF Posted
<1>2. taking # Idle => taking.block.block \in Nat
  BY DEF RcvTypes, Takings, Posted
<1>3. ASSUME NEW k \in DOMAIN worker.window PROVE worker.window[k] \in Nat
  BY DEF RcvTypes, Fits, Dsps
<1> QED
  BY <1>1, <1>2, <1>3

\* A block that is done with is behind whatever comes.
LEMMA LaterStaysSorted ==
  ASSUME RcvTypes, Sorted, Taken \in Nat, Taken' = Taken \/ Taken' = Taken + 1,
         io' # Idle => io'.block = heard'.count /\ io'.time = heard'.time,
         UNCHANGED <<posted, taking, worker, since>>
  PROVE  Sorted'
<1>1. \A n \in Nat : n <= Taken => n <= Taken'
  OBVIOUS
<1>2. since \in Nat
  BY DEF RcvTypes
<1> QED
  BY <1>1, <1>2, BlocksAreNumbers DEF Sorted

LEMMA HearKeeps ==
  ASSUME RcvInv, NEW delay \in {1, 2 + Gap}, Hear(delay)
  PROVE  RcvInv' /\ shown' = shown
<1>1. /\ io = Idle /\ heard' = [count |-> heard.count + 1, time |-> heard.time + delay]
      /\ io' = IF capture THEN [at |-> "add", block |-> heard.count + 1, time |-> heard.time + delay] ELSE Idle
      /\ UNCHANGED <<capture, mode, generation, pending, ui, screen, shown, since, posted, worker, taking, signals>>
  BY DEF Hear, shared, uiVars, workerVars
<1>2. delay \in Nat \ {0}
  BY ReceiverBounds
<1>3. heard.count \in Nat /\ heard.time \in Nat
  BY DEF RcvInv, RcvTypes
<1>4. /\ heard'.count = heard.count + 1 /\ heard'.time = heard.time + delay
      /\ heard'.count \in Nat /\ heard'.time \in Nat
  BY <1>1, <1>2, <1>3
<1>5. IF capture THEN io' \in Hands /\ io'.at = "add" /\ io'.block = heard'.count /\ io'.time = heard'.time ELSE io' = Idle
  BY <1>1, <1>2, <1>3, <1>4 DEF Hands
<1>6. io.at = "idle" /\ Idle.at = "idle" /\ io'.at \in {"idle", "add"} /\ (capture => io' # Idle)
  BY <1>1, <1>5 DEF Idle
<1>7. Taken = heard.count /\ Taken' \in Nat /\ Taken <= Taken' /\ (capture => Taken' = Taken)
  BY <1>1, <1>3, <1>4, <1>5, <1>6 DEF Taken
<1>8. RcvTypes'
  BY <1>1, <1>4, <1>5 DEF RcvInv, RcvTypes, Fits
<1>9. RcvCounts'
  BY <1>1, <1>6 DEF RcvInv, RcvCounts, PendingIsQueued
<1>10. Switching' /\ Generations' /\ InMode'
  BY <1>1, <1>6 DEF RcvInv, Switching, Generations, InMode
<1>11. Sorted'
  BY <1>1, <1>3, <1>4, <1>5, <1>7, LaterStaysSorted DEF RcvInv, Taken
<1>12. \A n : Current(n)' <=> Current(n)
  BY <1>1, <1>6 DEF Current
<1>13. Gapless'
  <2>1. ~capture' => io' = Idle
    BY <1>1, <1>5
  <2>2. ASSUME Steady', NEW n \in 0 .. heard'.count, Current(n)'
        PROVE  /\ n > since' /\ (~capture' => n = since' + 1) /\ (io'.at = "post" => io'.generation = generation')
               /\ (n > since' + 1 => \A m \in n .. Taken' : Current(m)')
    <3>1. Steady /\ Current(n)
      BY <1>1, <1>12, <2>2 DEF Steady
    <3>2. n \in 0 .. heard.count
      BY <1>3, <1>6, <1>7, <3>1, CurrentIsHeard DEF RcvInv
    <3>3. n > since /\ (~capture => n = since + 1) /\ (n > since + 1 => \A m \in n .. Taken : Current(m))
      BY <3>1, <3>2 DEF RcvInv, Gapless
    <3>4. since \in Nat
      BY DEF RcvInv, RcvTypes
    <3>5. n > since + 1 => Taken' = Taken
      BY <1>7, <3>2, <3>3, <3>4
    <3> QED
      BY <1>1, <1>6, <1>12, <3>3, <3>5
  <2> QED
    BY <2>1, <2>2 DEF Gapless
<1>14. Wholes'
  BY <1>1 DEF RcvInv, Wholes, Steady
<1> QED
  BY <1>1, <1>8, <1>9, <1>10, <1>11, <1>13, <1>14 DEF RcvInv

LEMMA AddKeeps == RcvInv /\ (Add \/ TakeBack) => RcvInv' /\ shown' = shown
<1> SUFFICES ASSUME RcvInv, Add \/ TakeBack PROVE RcvInv' /\ shown' = shown
  OBVIOUS
<1>1. /\ UNCHANGED <<capture, mode, generation, heard, ui, screen, shown, since, posted, worker, taking, signals>>
      /\ io.at \in {"add", "drop"}
  BY DEF Add, TakeBack, uiVars, workerVars
<1>2. io \in Hands /\ io # Idle
  BY <1>1, Under DEF RcvInv, Idle
<1>3. /\ io' \in Hands /\ io'.block = io.block /\ io'.time = io.time
      /\ Add => /\ io'.at = (IF pending + 1 > MaxQueued THEN "drop" ELSE "generation")
                /\ io.at = "add" /\ pending' = pending + 1
      /\ TakeBack => io'.at = "restart" /\ io.at = "drop" /\ pending' = pending - 1
  BY <1>2 DEF Hands, Add, TakeBack
<1>4. io' # Idle /\ io.at # "post" /\ io'.at # "post"
  BY <1>2, <1>3 DEF Idle, Hands
<1>5. Taken' = Taken
  BY <1>1, <1>2, <1>4 DEF Taken
<1>6. RcvTypes'
  BY <1>1, <1>3 DEF RcvInv, RcvTypes, Fits
<1>7. RcvCounts'
  <2>1. /\ pending \in Nat /\ MaxQueued \in Nat /\ pending = Len(posted) + (IF io.at \in {"generation", "post", "drop"} THEN 1 ELSE 0)
        /\ pending <= MaxQueued + IF io.at = "drop" THEN 1 ELSE 0
    BY ReceiverBounds DEF RcvInv, RcvCounts, PendingIsQueued
  <2>2. Len(posted) \in Nat
    BY DEF RcvInv, RcvTypes
  <2>3. CASE Add
    BY <1>1, <1>3, <2>1, <2>2, <2>3 DEF RcvCounts, PendingIsQueued
  <2>4. CASE TakeBack
    BY <1>1, <1>3, <2>1, <2>2, <2>4 DEF RcvCounts, PendingIsQueued
  <2> QED
    BY <2>3, <2>4
<1>8. Switching' /\ Generations' /\ InMode'
  BY <1>1, <1>4 DEF RcvInv, Switching, Generations, InMode
<1>9. Sorted'
  BY <1>1, <1>2, <1>3, <1>5 DEF RcvInv, Sorted
<1>10. \A n : Current(n)' <=> Current(n)
  BY <1>1, <1>4 DEF Current
<1>11. Gapless'
  BY <1>1, <1>2, <1>4, <1>5, <1>10 DEF RcvInv, Gapless, Steady
<1>12. Wholes'
  BY <1>1 DEF RcvInv, Wholes, Steady
<1> QED
  BY <1>1, <1>6, <1>7, <1>8, <1>9, <1>11, <1>12 DEF RcvInv

\* The stream ends with the lost block.
LEMMA RestartKeeps == RcvInv /\ Restart => RcvInv' /\ shown' = shown
<1> SUFFICES ASSUME RcvInv, Restart PROVE RcvInv' /\ shown' = shown
  OBVIOUS
<1>1. /\ io.at = "restart" /\ io' = Idle /\ generation' = generation + 1
      /\ UNCHANGED <<capture, mode, pending, heard, ui, screen, shown, since, posted, worker, taking, signals>>
  BY DEF Restart, uiVars, workerVars
<1>2. /\ Generations' /\ generation' \in Nat /\ \A n : ~Current(n)'
      /\ worker'.generation # generation' /\ \A i \in DOMAIN signals' : signals'[i].generation # generation'
      /\ \A i \in DOMAIN posted' : posted'[i].generation # generation'
      /\ taking' # Idle => taking'.block.generation # generation'
  BY <1>1, NoneYet DEF RcvInv
<1>3. io'.at = "idle"
  BY <1>1 DEF Idle
<1>4. RcvTypes' /\ RcvCounts' /\ Switching'
  BY <1>1, <1>2, <1>3 DEF RcvInv, RcvTypes, RcvCounts, PendingIsQueued, Switching, Fits
<1>5. Sorted'
  <2>1. io # Idle /\ heard.count \in Nat /\ Taken = heard.count - 1 /\ Taken \in Nat
    BY <1>1, Under DEF RcvInv, RcvTypes, Idle
  <2>2. Taken' = heard.count /\ Taken' = Taken + 1
    BY <1>1, <2>1 DEF Taken
  <2> QED
    BY <1>1, <2>1, <2>2, LaterStaysSorted DEF RcvInv
<1>6. Gapless'
  BY <1>1, <1>2 DEF RcvInv, Gapless
<1>7. Wholes' /\ InMode'
  BY <1>1, <1>2, <1>3 DEF RcvInv, Wholes, InMode
<1> QED
  BY <1>1, <1>2, <1>4, <1>5, <1>6, <1>7 DEF RcvInv

LEMMA LoadGenerationKeeps == RcvInv /\ LoadGeneration => RcvInv' /\ shown' = shown
<1> SUFFICES ASSUME RcvInv, LoadGeneration PROVE RcvInv' /\ shown' = shown
  OBVIOUS
<1>1. /\ io.at = "generation" /\ io' = [at |-> "post", block |-> io.block, time |-> io.time, generation |-> generation]
      /\ UNCHANGED <<capture, mode, generation, pending, heard, ui, screen, shown, since, posted, worker, taking, signals>>
  BY DEF LoadGeneration, shared, uiVars, workerVars
<1>2. /\ io \in Hands /\ io # Idle /\ Taken = heard.count - 1 /\ io.block = heard.count /\ heard.count \in Nat
      /\ generation \in Nat /\ since \in Nat /\ since <= Taken
  BY <1>1, Under DEF RcvInv, RcvTypes, Sorted, Idle
<1>3. io' \in Loaded /\ io'.at = "post" /\ io'.block = io.block /\ io'.time = io.time /\ io'.generation = generation
  BY <1>1, <1>2 DEF Hands, Loaded
<1>4. io' # Idle
  BY <1>3 DEF Idle
<1>5. Taken' = Taken
  BY <1>1, <1>2, <1>4 DEF Taken
<1>6. RcvTypes' /\ RcvCounts' /\ Switching'
  BY <1>1, <1>3 DEF RcvInv, RcvTypes, RcvCounts, PendingIsQueued, Switching, Fits
<1>7. Sorted'
  BY <1>1, <1>2, <1>3, <1>5 DEF RcvInv, Sorted
<1>8. Generations' /\ InMode'
  BY <1>1, <1>2, <1>3 DEF RcvInv, Generations, InMode
<1>9. /\ \A n : Current(n)' <=> Current(n) \/ n = heard.count
      /\ \A n : Current(n) => Current(n)'
  BY <1>1, <1>2, <1>3 DEF Current
<1>10. Gapless'
  <2>1. ASSUME Steady', NEW n \in 0 .. heard'.count, Current(n)'
        PROVE  /\ n > since' /\ (~capture' => n = since' + 1) /\ (io'.at = "post" => io'.generation = generation')
               /\ (n > since' + 1 => \A m \in n .. Taken' : Current(m)')
    <3>1. CASE Current(n)
      BY <1>1, <1>3, <1>5, <1>9, <2>1, <3>1 DEF RcvInv, Gapless, Steady
    <3>2. CASE n = heard.count
      <4>1. n > since /\ \A m \in n .. Taken : FALSE
        BY <1>2, <3>2
      <4>2. ~capture => n = since + 1
        BY <1>2, <3>2 DEF RcvInv, Gapless
      <4> QED
        BY <1>1, <1>3, <1>5, <4>1, <4>2
    <3> QED
      BY <1>9, <2>1, <3>1, <3>2
  <2>2. ~capture' /\ io' # Idle => heard'.count = since' + 1
    BY <1>1, <1>2 DEF RcvInv, Gapless
  <2> QED
    BY <2>1, <2>2 DEF Gapless
<1>11. Wholes'
  BY <1>1 DEF RcvInv, Wholes, Steady
<1> QED
  BY <1>1, <1>6, <1>7, <1>8, <1>10, <1>11 DEF RcvInv

LEMMA PostKeeps == RcvInv /\ Post => RcvInv' /\ shown' = shown
<1> SUFFICES ASSUME RcvInv, Post PROVE RcvInv' /\ shown' = shown
  OBVIOUS
<1> DEFINE b == [block |-> io.block, time |-> io.time, generation |-> io.generation, mode |-> mode]
<1>1. /\ io.at = "post" /\ io' = Idle /\ posted' = Append(posted, b)
      /\ UNCHANGED <<capture, mode, generation, pending, heard, ui, screen, shown, since, worker, taking, signals>>
  BY DEF Post, shared, uiVars, workerVars
<1>2. /\ io \in Loaded /\ io # Idle /\ Taken = heard.count - 1 /\ io.block = heard.count /\ heard.count \in Nat
      /\ generation \in Nat /\ since \in Nat /\ since <= Taken /\ mode \in Modes /\ posted \in Seq(Posted)
  BY <1>1, Under DEF RcvInv, RcvTypes, Sorted, Idle
<1>3. /\ b \in Posted /\ b.block = heard.count /\ b.generation = io.generation /\ b.mode = mode
  BY <1>2 DEF Loaded, Posted
<1> HIDE DEF b
<1>4. /\ posted' \in Seq(Posted) /\ Len(posted') = Len(posted) + 1 /\ Len(posted) \in Nat
      /\ \A i \in DOMAIN posted : i \in DOMAIN posted' /\ posted'[i] = posted[i]
      /\ Len(posted) + 1 \in DOMAIN posted' /\ posted'[Len(posted) + 1] = b
      /\ \A i \in DOMAIN posted' : i \in DOMAIN posted \/ i = Len(posted) + 1
      /\ DOMAIN posted = 1 .. Len(posted)
  BY <1>1, <1>2, <1>3
<1>5. io'.at = "idle" /\ Taken' = heard.count /\ Taken' = Taken + 1
  BY <1>1, <1>2 DEF Idle, Taken
<1>6. RcvTypes'
  BY <1>1, <1>4 DEF RcvInv, RcvTypes, Fits
<1>7. RcvCounts'
  BY <1>1, <1>4, <1>5 DEF RcvInv, RcvCounts, PendingIsQueued
<1>8. Switching'
  BY <1>1 DEF RcvInv, Switching
<1>9. io.generation <= generation /\ Generations'
  BY <1>1, <1>3, <1>4, <1>5 DEF RcvInv, Generations
<1>10. InMode'
  BY <1>1, <1>3, <1>4 DEF RcvInv, InMode
<1>11. Sorted'
  <2> DEFINE Behind(q, t) == /\ \A i \in DOMAIN q : q[i].block <= t
                             /\ \A i, j \in DOMAIN q : i < j => q[i].block < q[j].block
                             /\ taking # Idle => /\ taking.block.block <= t
                                                 /\ \A i \in DOMAIN q : taking.block.block < q[i].block
                             /\ \A k \in DOMAIN worker.window :
                                  /\ worker.window[k] <= t
                                  /\ \A i \in DOMAIN q : worker.window[k] < q[i].block
  <2>1. /\ \A i \in DOMAIN posted : posted[i].block \in Nat
        /\ taking # Idle => taking.block.block \in Nat
        /\ \A k \in DOMAIN worker.window : worker.window[k] \in Nat
    BY BlocksAreNumbers DEF RcvInv
  <2>2. \A n \in Nat : n <= Taken => n < heard.count /\ n <= Taken'
    BY <1>2, <1>5
  <2>3. Behind(posted, Taken)
    BY DEF RcvInv, Sorted
  <2>4. \A i \in DOMAIN posted' : posted'[i].block <= Taken'
    BY <1>3, <1>4, <1>5, <1>2, <2>1, <2>2, <2>3
  <2>5. ASSUME NEW i \in DOMAIN posted', NEW j \in DOMAIN posted', i < j
        PROVE  posted'[i].block < posted'[j].block
    <3>1. i \in DOMAIN posted /\ posted'[i] = posted[i]
      BY <1>4, <2>5
    <3>2. CASE j \in DOMAIN posted
      BY <1>4, <2>3, <2>5, <3>1, <3>2
    <3>3. CASE j = Len(posted) + 1
      BY <1>3, <1>4, <2>1, <2>2, <2>3, <3>1, <3>3
    <3> QED
      BY <1>4, <3>2, <3>3
  <2>6. taking # Idle => /\ taking.block.block <= Taken'
                         /\ \A i \in DOMAIN posted' : taking.block.block < posted'[i].block
    BY <1>3, <1>4, <2>1, <2>2, <2>3
  <2>7. \A k \in DOMAIN worker.window :
          /\ worker.window[k] <= Taken'
          /\ \A i \in DOMAIN posted' : worker.window[k] < posted'[i].block
    BY <1>3, <1>4, <2>1, <2>2, <2>3
  <2>8. since <= Taken'
    BY <1>2, <2>2
  <2>9. /\ taking # Idle => \A k \in DOMAIN worker.window : worker.window[k] < taking.block.block
        /\ \A k, l \in DOMAIN worker.window : k < l => worker.window[k] < worker.window[l]
    BY DEF RcvInv, Sorted
  <2> HIDE DEF Behind
  <2> QED
    BY <1>1, <2>4, <2>5, <2>6, <2>7, <2>8, <2>9 DEF Sorted
<1>12. \A n : Current(n)' <=> Current(n)
  <2>1. ASSUME NEW n, Current(n)' PROVE Current(n)
    BY <1>1, <1>2, <1>3, <1>4, <1>5, <2>1 DEF Current
  <2>2. ASSUME NEW n, Current(n) PROVE Current(n)'
    BY <1>1, <1>2, <1>3, <1>4, <1>5, <2>2 DEF Current
  <2> QED
    BY <2>1, <2>2
<1>13. Gapless'
  <2>1. ASSUME Steady', NEW n \in 0 .. heard'.count, Current(n)'
        PROVE  /\ n > since' /\ (~capture' => n = since' + 1) /\ (io'.at = "post" => io'.generation = generation')
               /\ (n > since' + 1 => \A m \in n .. Taken' : Current(m)')
    <3>1. Steady /\ Current(n) /\ n \in 0 .. heard.count
      BY <1>1, <1>12, <2>1 DEF Steady
    <3>2. /\ n > since /\ (~capture => n = since + 1) /\ io.generation = generation
          /\ n > since + 1 => \A m \in n .. Taken : Current(m)
      BY <1>1, <3>1 DEF RcvInv, Gapless
    <3>3. Current(heard.count)
      BY <1>1, <1>2, <3>2 DEF Current
    <3>4. \A m \in n .. Taken' : m \in n .. Taken \/ m = heard.count
      BY <1>2, <1>5
    <3> QED
      BY <1>1, <1>5, <1>12, <3>2, <3>3, <3>4
  <2> QED
    BY <1>1, <2>1 DEF Gapless
<1>14. Wholes'
  BY <1>1 DEF RcvInv, Wholes, Steady
<1> QED
  BY <1>1, <1>6, <1>7, <1>8, <1>9, <1>10, <1>11, <1>13, <1>14 DEF RcvInv

----------------------------------------------------------------------------
(* The worker. *)
LEMMA TakeKeeps == RcvInv /\ Take => RcvInv' /\ shown' = shown
<1> SUFFICES ASSUME RcvInv, Take PROVE RcvInv' /\ shown' = shown
  OBVIOUS
<1>1. /\ taking.at = "idle" /\ posted # <<>> /\ pending' = pending - 1
      /\ taking' = [at |-> "capture", block |-> Head(posted)] /\ posted' = Tail(posted)
      /\ UNCHANGED <<capture, mode, generation, io, heard, ui, screen, shown, since, worker, signals>>
  BY DEF Take, uiVars, ioVars
<1>2. posted \in Seq(Posted) /\ taking = Idle
  BY <1>1 DEF RcvInv, RcvTypes, Takings
<1>3. /\ DOMAIN posted = 1 .. Len(posted) /\ Len(posted) \in Nat /\ 1 \in DOMAIN posted /\ Head(posted) = posted[1]
      /\ \A i \in DOMAIN Tail(posted) : i + 1 \in DOMAIN posted /\ Tail(posted)[i] = posted[i + 1] /\ i \in Nat /\ i > 0
      /\ \A i \in DOMAIN posted : i = 1 \/ (i - 1 \in DOMAIN Tail(posted) /\ Tail(posted)[i - 1] = posted[i])
  BY <1>1, <1>2, Taking
<1>4. Tail(posted) \in Seq(Posted) /\ Len(Tail(posted)) = Len(posted) - 1 /\ Len(posted) > 0
  BY <1>1, <1>2
<1>5. Head(posted) \in Posted
  BY <1>2, <1>3
<1>6. taking' \in Takings /\ taking' # Idle /\ taking'.at = "capture" /\ taking'.block = posted[1]
  BY <1>1, <1>3, <1>5 DEF Takings, Idle
<1>7. RcvTypes'
  BY <1>1, <1>4, <1>6 DEF RcvInv, RcvTypes, Fits
<1>8. RcvCounts'
  <2> DEFINE hand == IF io.at \in {"generation", "post", "drop"} THEN 1 ELSE 0
             over == IF io.at = "drop" THEN 1 ELSE 0
  <2>1. pending \in Nat /\ pending = Len(posted) + hand /\ pending <= MaxQueued + over
    BY DEF RcvInv, RcvCounts, PendingIsQueued
  <2>2. hand \in Nat /\ over \in Nat /\ MaxQueued \in Nat
    BY ReceiverBounds
  <2>3. pending' = pending - 1 /\ Len(posted') = Len(posted) - 1 /\ hand' = hand /\ over' = over
    BY <1>1, <1>4
  <2> HIDE DEF hand, over
  <2>4. pending' \in Nat /\ pending' = Len(posted') + hand' /\ pending' <= MaxQueued + over'
    BY <1>3, <1>4, <2>1, <2>2, <2>3
  <2> QED
    BY <2>4 DEF RcvCounts, PendingIsQueued, hand, over
<1>9. Switching'
  BY <1>1 DEF RcvInv, Switching
<1>10. Generations'
  BY <1>1, <1>3, <1>6 DEF RcvInv, Generations
<1>11. InMode'
  BY <1>1, <1>3, <1>6 DEF RcvInv, InMode
<1>12. Sorted'
  <2>1. Taken' = Taken
    BY <1>1 DEF Taken
  <2>2. /\ since <= Taken /\ (io # Idle => io.block = heard.count /\ io.time = heard.time)
        /\ \A i \in DOMAIN posted : posted[i].block <= Taken
        /\ \A i, j \in DOMAIN posted : i < j => posted[i].block < posted[j].block
        /\ \A k \in DOMAIN worker.window :
             worker.window[k] <= Taken /\ \A i \in DOMAIN posted : worker.window[k] < posted[i].block
        /\ \A k, l \in DOMAIN worker.window : k < l => worker.window[k] < worker.window[l]
    BY DEF RcvInv, Sorted
  <2>3. \A i, j \in DOMAIN posted' : i < j => posted'[i].block < posted'[j].block
    <3> SUFFICES ASSUME NEW i \in DOMAIN Tail(posted), NEW j \in DOMAIN Tail(posted), i < j
                 PROVE  Tail(posted)[i].block < Tail(posted)[j].block
      BY <1>1
    <3>1. i + 1 \in DOMAIN posted /\ j + 1 \in DOMAIN posted /\ i + 1 < j + 1
      BY <1>3
    <3> QED
      BY <1>3, <2>2, <3>1
  <2>4. \A i \in DOMAIN posted' : posted[1].block < posted'[i].block /\ posted'[i].block <= Taken
    <3> SUFFICES ASSUME NEW i \in DOMAIN Tail(posted)
                 PROVE  posted[1].block < Tail(posted)[i].block /\ Tail(posted)[i].block <= Taken
      BY <1>1
    <3>1. i + 1 \in DOMAIN posted /\ 1 < i + 1
      BY <1>3
    <3> QED
      BY <1>3, <2>2, <3>1
  <2>5. \A k \in DOMAIN worker.window :
          worker.window[k] < posted[1].block /\ \A i \in DOMAIN posted' : worker.window[k] < posted'[i].block
    BY <1>1, <1>3, <2>2
  <2> QED
    BY <1>1, <1>3, <1>6, <2>1, <2>2, <2>3, <2>4, <2>5 DEF Sorted
<1>13. \A n : Current(n)' <=> Current(n)
  <2>1. ASSUME NEW n, Current(n) PROVE Current(n)'
    <3>1. ASSUME NEW i \in DOMAIN posted, posted[i].generation = generation, posted[i].block = n PROVE Current(n)'
      <4>1. CASE i = 1
        BY <1>1, <1>6, <3>1, <4>1 DEF Current
      <4>2. CASE i # 1
        BY <1>1, <1>3, <3>1, <4>2 DEF Current
      <4> QED
        BY <4>1, <4>2
    <3>2. CASE \/ worker.generation = generation /\ \E k \in DOMAIN worker.window : worker.window[k] = n
               \/ io.at = "post" /\ io.generation = generation /\ io.block = n
      BY <1>1, <3>2 DEF Current
    <3> QED
      BY <1>1, <1>2, <2>1, <3>1, <3>2 DEF Current
  <2>2. ASSUME NEW n, Current(n)' PROVE Current(n)
    BY <1>1, <1>2, <1>3, <1>6, <2>2 DEF Current
  <2> QED
    BY <2>1, <2>2
<1>14. Gapless'
  BY <1>1, <1>13 DEF RcvInv, Gapless, Steady, Taken
<1>15. Wholes'
  BY <1>1 DEF RcvInv, Wholes, Steady
<1> QED
  BY <1>1, <1>7, <1>8, <1>9, <1>10, <1>11, <1>12, <1>14, <1>15 DEF RcvInv

\* With capture on setCapture is not at work, so the block has the stream's mode.
LEMMA LoadCaptureKeeps == RcvInv /\ LoadCapture => RcvInv' /\ shown' = shown
<1> SUFFICES ASSUME RcvInv, LoadCapture PROVE RcvInv' /\ shown' = shown
  OBVIOUS
<1>1. /\ taking.at = "capture" /\ taking' = IF capture THEN [taking EXCEPT !.at = "consume"] ELSE Idle
      /\ UNCHANGED <<capture, mode, generation, pending, io, heard, ui, screen, shown, since, posted, worker, signals>>
  BY DEF LoadCapture, uiVars, ioVars, shared
<1>2. taking \in Takings /\ taking # Idle
  BY <1>1 DEF RcvInv, RcvTypes, Idle
<1>3. Sorted' /\ Generations' /\ RcvTypes'
  <2>1. CASE capture
    <3>1. taking' \in Takings /\ taking'.block = taking.block /\ taking' # Idle
      BY <1>1, <1>2, <2>1 DEF Takings, Idle
    <3> QED
      BY <1>1, <1>2, <3>1 DEF RcvInv, Sorted, Taken, Generations, RcvTypes, Fits
  <2>2. CASE ~capture
    BY <1>1, <2>2 DEF RcvInv, Sorted, Taken, Generations, RcvTypes, Fits
  <2> QED
    BY <2>1, <2>2
<1>4. RcvCounts' /\ Switching' /\ Wholes'
  BY <1>1 DEF RcvInv, RcvCounts, PendingIsQueued, Switching, Wholes, Steady
<1>5. CASE capture
  <2>1. taking' # Idle /\ taking'.block = taking.block /\ taking'.at = "consume"
    BY <1>1, <1>2, <1>5 DEF Takings, Idle
  <2>2. Steady /\ ui.at # "generation"
    BY <1>5 DEF RcvInv, Switching, Steady
  <2>3. InMode'
    BY <1>1, <1>2, <2>1, <2>2 DEF RcvInv, InMode
  <2>4. \A n : Current(n)' <=> Current(n)
    BY <1>1, <1>2, <2>1 DEF Current
  <2>5. Gapless'
    BY <1>1, <2>4 DEF RcvInv, Gapless, Steady, Taken
  <2> QED
    BY <1>1, <1>3, <1>4, <2>3, <2>5 DEF RcvInv
<1>6. CASE ~capture
  <2>1. taking' = Idle /\ taking'.at # "consume"
    BY <1>1, <1>6 DEF Idle
  <2>2. InMode'
    BY <1>1, <2>1 DEF RcvInv, InMode
  <2>3. \A n : Current(n)' => Current(n)
    BY <1>1, <1>2, <2>1 DEF Current
  <2>4. Gapless'
    <3>1. ASSUME Steady', NEW n \in 0 .. heard'.count, Current(n)'
          PROVE  /\ n > since' /\ (~capture' => n = since' + 1) /\ (io'.at = "post" => io'.generation = generation')
                 /\ (n > since' + 1 => \A m \in n .. Taken' : Current(m)')
      <4>1. n > since /\ n = since + 1 /\ (io.at = "post" => io.generation = generation)
        BY <1>1, <1>6, <2>3, <3>1 DEF RcvInv, Gapless, Steady
      <4>2. since \in Nat
        BY DEF RcvInv, RcvTypes
      <4> QED
        BY <1>1, <4>1, <4>2
    <3> QED
      BY <1>1, <3>1 DEF RcvInv, Gapless
  <2> QED
    BY <1>1, <1>3, <1>4, <2>2, <2>4 DEF RcvInv
<1> QED
  BY <1>5, <1>6

\* Whichever stream the block is appended to, it lies within its period.
LEMMA Streams ==
  ASSUME RcvInv, taking.at = "consume", taking.block.generation = generation
  PROVE  /\ Fits(Base(taking.block)) /\ Base(taking.block).generation = generation
         /\ Base(taking.block).mode = taking.block.mode
         /\ \/ Base(taking.block).window = <<>>
            \/ (worker.generation = generation /\ Base(taking.block) = worker)
<1> DEFINE b == taking.block
<1>1. b \in Posted /\ b.mode \in Modes /\ b.time \in Nat \ {0} /\ b.generation \in Nat
  BY DEF RcvInv, RcvTypes, Idle, Takings, Posted
<1>2. CASE Base(b) = worker /\ b.generation = worker.generation
  BY <1>2 DEF RcvInv, RcvTypes, InMode
<1>3. CASE Base(b) = Fresh(b)
  <2>1. Period[b.mode] \in Nat \ {0}
    BY <1>1, ReceiverBounds DEF Modes
  <2>2. \A t \in Nat, p \in Nat \ {0} : (t \div p) * p \in Int /\ t % p \in Nat /\ t % p < p
    OBVIOUS
  <2>3. b.time - 1 \in Nat
    BY <1>1
  <2> DEFINE slot == ((b.time - 1) \div Period[b.mode]) * Period[b.mode]
             position == (b.time - 1) % Period[b.mode]
  <2>4. slot \in Int /\ position \in Nat /\ position < Period[b.mode]
    BY <2>1, <2>2, <2>3
  <2>5. Fresh(b) = [generation |-> b.generation, mode |-> b.mode, slot |-> slot, position |-> position,
                    window |-> <<>>, early |-> FALSE]
    BY DEF Fresh
  <2> HIDE DEF slot, position
  <2>6. <<>> \in Seq(Nat) /\ Len(<<>>) = 0
    OBVIOUS
  <2>7. Fresh(b) \in Dsps
    BY <1>1, <2>4, <2>5, <2>6 DEF Dsps
  <2>8. Fits(Fresh(b))
    BY <2>1, <2>4, <2>5, <2>6, <2>7 DEF Fits
  <2> QED
    BY <1>3, <2>5, <2>8
<1> QED
  BY <1>2, <1>3 DEF Base

LEMMA PeriodEnds ==
  ASSUME NEW w \in Dsps, NEW s \in Int, NEW v, v = [w EXCEPT !.slot = s, !.position = 0, !.window = <<>>, !.early = FALSE]
  PROVE  v \in Dsps /\ v.generation = w.generation /\ v.mode = w.mode /\ v.position = 0 /\ v.window = <<>>
<1>1. <<>> \in Seq(Nat) /\ 0 \in Nat
  OBVIOUS
<1> QED
  BY <1>1 DEF Dsps

LEMMA PeriodGoesOn ==
  ASSUME NEW w \in Dsps, NEW p \in Nat, NEW q \in Seq(Nat), NEW e \in BOOLEAN, NEW v,
         v = [w EXCEPT !.position = p, !.window = q, !.early = e]
  PROVE  v \in Dsps /\ v.generation = w.generation /\ v.mode = w.mode /\ v.position = p /\ v.window = q
  BY DEF Dsps

\* What consume leaves of the stream, and what it decodes.
LEMMA Consuming ==
  ASSUME RcvInv, taking.at = "consume", taking.block.generation = generation, Consumed(taking.block),
         NEW q, q = Append(Base(taking.block).window, taking.block.block)
  PROVE  /\ Fits(worker') /\ worker'.generation = generation /\ worker'.mode = taking.block.mode
         /\ worker'.window = <<>> \/ worker'.window = q
         /\ LET d == [generation |-> generation, mode |-> taking.block.mode, window |-> q] IN
              \E x, y \in {<<>>, <<d>>} : signals' = signals \o x \o y
<1> DEFINE b == taking.block
           base == Base(b)
           length == Period[b.mode]
           d == [generation |-> generation, mode |-> b.mode, window |-> q]
           atEarly == ~base.early /\ base.position + 1 >= length - 1
           atEnd == base.position + 1 >= length
<1>1. b \in Posted /\ b.mode \in Modes /\ b.block \in Nat
  BY DEF RcvInv, RcvTypes, Idle, Takings, Posted
<1>2. Fits(base) /\ base.generation = generation /\ base.mode = b.mode
  BY Streams
<1>3. length \in Nat \ {0}
  BY <1>1, ReceiverBounds DEF Modes
<1>4. /\ worker' = IF atEnd THEN [base EXCEPT !.slot = @ + length, !.position = 0, !.window = <<>>, !.early = FALSE]
                            ELSE [base EXCEPT !.position = @ + 1, !.window = q, !.early = @ \/ atEarly]
      /\ signals' = signals \o (IF atEarly THEN <<d>> ELSE <<>>) \o (IF atEnd THEN <<d>> ELSE <<>>)
  BY DEF Consumed
<1> HIDE DEF base, length, d
<1>5. /\ base \in Dsps /\ base.position < length /\ Len(base.window) <= base.position /\ base.window \in Seq(Nat)
      /\ base.position \in Nat /\ base.slot \in Int /\ base.early \in BOOLEAN
  BY <1>2 DEF Fits, Dsps, length
<1>6. q \in Seq(Nat) /\ Len(q) = Len(base.window) + 1 /\ Len(base.window) \in Nat
  BY <1>1, <1>5 DEF base
<1>7. atEnd \in BOOLEAN /\ atEarly \in BOOLEAN
  OBVIOUS
<1>8. /\ Fits(worker') /\ worker'.generation = generation /\ worker'.mode = b.mode
      /\ worker'.window = <<>> \/ worker'.window = q
  <2>1. CASE atEnd
    <3>1. base.slot + length \in Int /\ 0 \in Nat /\ <<>> \in Seq(Nat) /\ FALSE \in BOOLEAN /\ Len(<<>>) = 0
      BY <1>3, <1>5
    <3>2. worker' = [base EXCEPT !.slot = base.slot + length, !.position = 0, !.window = <<>>, !.early = FALSE]
      BY <1>4, <2>1
    <3>3. /\ worker' \in Dsps /\ worker'.generation = base.generation /\ worker'.mode = base.mode
          /\ worker'.position = 0 /\ worker'.window = <<>>
      <4> DEFINE at == base.slot + length
      <4>1. at \in Int
        BY <3>1
      <4>2. worker' = [base EXCEPT !.slot = at, !.position = 0, !.window = <<>>, !.early = FALSE]
        BY <3>2
      <4> HIDE DEF at
      <4> QED
        BY <1>5, <4>1, <4>2, PeriodEnds, ZenonT(40)
    <3> QED
      BY <1>2, <1>3, <3>1, <3>3 DEF Fits, length
  <2>2. CASE ~atEnd
    <3> DEFINE e == base.early \/ atEarly
    <3>1. base.position + 1 \in Nat /\ base.position + 1 < length /\ e \in BOOLEAN
      BY <1>3, <1>5, <2>2
    <3>2. worker' = [base EXCEPT !.position = base.position + 1, !.window = q, !.early = e]
      BY <1>4, <2>2
    <3> DEFINE p == base.position + 1
    <3>5. p \in Nat /\ worker' = [base EXCEPT !.position = p, !.window = q, !.early = e]
      BY <3>1, <3>2
    <3> HIDE DEF e, p
    <3>6. /\ worker' \in Dsps /\ worker'.generation = base.generation /\ worker'.mode = base.mode
          /\ worker'.position = p /\ worker'.window = q
      <4>1. base \in Dsps /\ q \in Seq(Nat) /\ e \in BOOLEAN /\ p \in Nat
        BY <1>5, <1>6, <3>1, <3>5
      <4> QED
        BY <3>5, <4>1 DEF Dsps
    <3>3. /\ worker' \in Dsps /\ worker'.generation = base.generation /\ worker'.mode = base.mode
          /\ worker'.position = base.position + 1 /\ worker'.window = q
      BY <3>6 DEF p
    <3>4. Len(q) <= base.position + 1
      BY <1>5, <1>6
    <3> QED
      BY <1>2, <1>3, <3>1, <3>3, <3>4 DEF Fits, length
  <2> QED
    BY <2>1, <2>2
<1>9. \E x, y \in {<<>>, <<d>>} : signals' = signals \o x \o y
  <2> DEFINE x == IF atEarly THEN <<d>> ELSE <<>>
             y == IF atEnd THEN <<d>> ELSE <<>>
  <2>1. x \in {<<>>, <<d>>} /\ y \in {<<>>, <<d>>}
    OBVIOUS
  <2>2. signals' = signals \o x \o y
    BY <1>4
  <2> HIDE DEF x, y
  <2> QED
    BY <2>1, <2>2
<1> QED
  BY <1>8, <1>9 DEF d

\* Decodes are added at the end.
Adds(s, d, t) ==
  t \in Seq(Decodings) /\ \A i \in DOMAIN t : (i \in DOMAIN s /\ t[i] = s[i]) \/ t[i] = d

LEMMA Decoding ==
  ASSUME NEW d \in Decodings, NEW s \in Seq(Decodings), NEW x \in {<<>>, <<d>>}, NEW y \in {<<>>, <<d>>}
  PROVE  Adds(s, d, s \o x \o y)
<1> USE DEF Adds
<1>1. /\ s \o <<>> = s /\ s \o <<d>> \in Seq(Decodings)
      /\ DOMAIN (s \o <<d>>) = 1 .. Len(s) + 1 /\ DOMAIN s = 1 .. Len(s) /\ Len(s) \in Nat
      /\ \A i \in DOMAIN (s \o <<d>>) : (i \in DOMAIN s /\ (s \o <<d>>)[i] = s[i]) \/ (s \o <<d>>)[i] = d
  OBVIOUS
<1> DEFINE t == s \o <<d>>
<1>2. /\ t \o <<>> = t /\ t \o <<d>> \in Seq(Decodings)
      /\ \A i \in DOMAIN (t \o <<d>>) : (i \in DOMAIN t /\ (t \o <<d>>)[i] = t[i]) \/ (t \o <<d>>)[i] = d
  <2>1. t \in Seq(Decodings)
    BY <1>1
  <2> HIDE DEF t
  <2> QED
    BY <2>1
<1>3. \A i \in DOMAIN (t \o <<d>>) : (i \in DOMAIN s /\ (t \o <<d>>)[i] = s[i]) \/ (t \o <<d>>)[i] = d
  <2> SUFFICES ASSUME NEW i \in DOMAIN (t \o <<d>>)
               PROVE  (i \in DOMAIN s /\ (t \o <<d>>)[i] = s[i]) \/ (t \o <<d>>)[i] = d
    OBVIOUS
  <2>1. (i \in DOMAIN t /\ (t \o <<d>>)[i] = t[i]) \/ (t \o <<d>>)[i] = d
    BY <1>2
  <2>2. i \in DOMAIN t => (i \in DOMAIN s /\ t[i] = s[i]) \/ t[i] = d
    BY <1>1
  <2> QED
    BY <2>1, <2>2
<1>4. s \o x \in {s, t}
  BY <1>1, Zenon
<1>5. CASE y = <<>>
  <2>1. s \o x \o y \in {s, t}
    BY <1>1, <1>2, <1>4, <1>5
  <2> QED
    BY <1>1, <2>1
<1>6. CASE y = <<d>>
  <2>1. s \o x \o y \in {t, t \o <<d>>}
    BY <1>4, <1>6
  <2> HIDE DEF t
  <2>2. CASE s \o x \o y = t
    BY <1>1, <2>2 DEF t
  <2>3. CASE s \o x \o y = t \o <<d>>
    BY <1>2, <1>3, <2>3
  <2> QED
    BY <2>1, <2>2, <2>3
<1> QED
  BY <1>5, <1>6

\* The stream goes on without a gap: what follows its last block is current, so it is the block.
LEMMA NoGap ==
  ASSUME RcvInv, Steady, taking.at = "consume", taking.block.generation = generation,
         NEW q, q = Append(Base(taking.block).window, taking.block.block)
  PROVE  /\ q \in Seq(Nat) /\ Whole(q) /\ \A k \in DOMAIN q : q[k] > since /\ Current(q[k]) /\ q[k] <= taking.block.block
         /\ \A k, l \in DOMAIN q : k < l => q[k] < q[l]
         /\ taking.block.block \in Nat /\ \E k \in DOMAIN q : q[k] = taking.block.block
<1> DEFINE b == taking.block
           w == Base(b).window
<1>1. /\ b \in Posted /\ b.block \in Nat /\ since \in Nat /\ heard.count \in Nat /\ taking # Idle
      /\ worker.window \in Seq(Nat)
  BY DEF RcvInv, RcvTypes, Idle, Takings, Posted, Fits, Dsps
<1>2. w = <<>> \/ (w = worker.window /\ worker.generation = generation)
  BY Streams
<1>3. w \in Seq(Nat)
  <2>1. <<>> \in Seq(Nat)
    OBVIOUS
  <2> QED
    BY <1>1, <1>2, <2>1
<1>4. /\ Taken \in Nat /\ Taken <= heard.count /\ (io.at = "post" => Taken = heard.count - 1)
  BY Under DEF RcvInv, Idle
<1>5. /\ Current(b.block) /\ b.block <= Taken
      /\ \A k \in DOMAIN w : Current(w[k]) /\ w[k] \in Nat /\ w[k] < b.block
      /\ \A k, l \in DOMAIN w : k < l => w[k] < w[l]
      /\ Whole(w)
  <2>1. Current(b.block) /\ b.block <= Taken
    BY <1>1 DEF RcvInv, Sorted, Current
  <2>2. CASE w = <<>>
    BY <2>1, <2>2 DEF Whole
  <2>3. CASE w = worker.window /\ worker.generation = generation
    BY <1>1, <2>1, <2>3 DEF RcvInv, Sorted, Current, Wholes
  <2> QED
    BY <1>2, <2>2, <2>3
<1> HIDE DEF w
<1>6. \A n \in Nat : Current(n) /\ n <= Taken => n > since /\ (n > since + 1 => \A m \in n .. Taken : Current(m))
  <2> SUFFICES ASSUME NEW n \in Nat, Current(n), n <= Taken
               PROVE  n > since /\ (n > since + 1 => \A m \in n .. Taken : Current(m))
    OBVIOUS
  <2>1. n \in 0 .. heard.count
    BY <1>1, <1>4
  <2> QED
    BY <2>1 DEF RcvInv, Gapless
<1>7. q = Append(w, b.block) /\ q \in Seq(Nat) /\ Len(w) \in Nat /\ DOMAIN w = 1 .. Len(w) /\ DOMAIN q = 1 .. Len(w) + 1
      /\ Len(q) = Len(w) + 1 /\ q[Len(w) + 1] = b.block /\ \A k \in DOMAIN w : q[k] = w[k]
  BY <1>1, <1>3 DEF w
<1>8. \A k \in DOMAIN q : q[k] > since /\ Current(q[k]) /\ q[k] <= b.block
  <2> SUFFICES ASSUME NEW k \in DOMAIN q PROVE q[k] > since /\ Current(q[k]) /\ q[k] <= b.block
    OBVIOUS
  <2>1. CASE k = Len(w) + 1
    BY <1>1, <1>5, <1>6, <1>7, <2>1
  <2>2. CASE k \in DOMAIN w
    BY <1>1, <1>4, <1>5, <1>6, <1>7, <2>2
  <2> QED
    BY <1>7, <2>1, <2>2
<1>9. \A k, l \in DOMAIN q : k < l => q[k] < q[l]
  <2> SUFFICES ASSUME NEW k \in DOMAIN q, NEW l \in DOMAIN q, k < l PROVE q[k] < q[l]
    OBVIOUS
  <2>1. k \in DOMAIN w
    BY <1>7
  <2>2. l \in DOMAIN w \/ l = Len(w) + 1
    BY <1>7
  <2> QED
    BY <1>5, <1>7, <2>1, <2>2
<1>10. Whole(q)
  <2> SUFFICES ASSUME NEW i \in 2 .. Len(q) - 1 PROVE q[i + 1] = q[i] + 1
    BY DEF Whole
  <2>1. i \in DOMAIN w /\ i \in Nat /\ 1 \in DOMAIN w /\ 1 < i
    BY <1>7
  <2>2. CASE i < Len(w)
    <3>1. i \in 2 .. Len(w) - 1 /\ i + 1 \in DOMAIN w
      BY <1>7, <2>2
    <3> QED
      BY <1>5, <1>7, <2>1, <3>1 DEF Whole
  <2>3. CASE i = Len(w)
    <3> DEFINE n == w[i]
    <3>1. n \in Nat /\ n < b.block /\ Current(n) /\ n <= Taken
      BY <1>1, <1>4, <1>5, <2>1
    <3>2. w[1] \in Nat /\ w[1] > since /\ w[1] < n
      BY <1>1, <1>4, <1>5, <1>6, <2>1
    <3>3. n > since + 1 /\ n + 1 \in n .. Taken /\ n + 1 <= b.block
      BY <1>1, <1>4, <1>5, <3>1, <3>2
    <3>4. Current(n + 1)
      BY <1>6, <3>1, <3>3
    <3>5. \A j \in DOMAIN worker.window : w = worker.window => worker.window[j] <= n
      <4> SUFFICES ASSUME w = worker.window, NEW j \in DOMAIN w PROVE w[j] <= n
        OBVIOUS
      <4>1. j = i \/ j < i
        BY <1>7, <2>3
      <4> QED
        BY <1>5, <2>1, <3>1, <4>1
    <3>6. w = worker.window
      <4>1. w # <<>>
        BY <2>1
      <4> QED
        BY <1>2, <4>1 DEF w
    <3>7. ~\E j \in DOMAIN worker.window : worker.window[j] = n + 1
      BY <3>1, <3>5, <3>6
    <3>8. ~\E j \in DOMAIN posted : posted[j].block = n + 1
      <4>1. \A j \in DOMAIN posted : b.block < posted[j].block /\ posted[j].block \in Nat
        BY <1>1, BlocksAreNumbers DEF RcvInv, Sorted
      <4> QED
        BY <1>1, <3>1, <3>3, <4>1
    <3>9. ~(io.at = "post" /\ io.block = n + 1)
      <4>1. io.at = "post" => io.block = heard.count /\ Taken = heard.count - 1
        BY Under DEF RcvInv, Idle
      <4>2. n + 1 <= Taken /\ n \in Nat
        BY <3>1, <3>3
      <4>3. heard.count \in Nat
        BY DEF RcvInv, RcvTypes
      <4> QED
        BY <4>1, <4>2, <4>3
    <3>10. b.block = n + 1
      BY <3>4, <3>7, <3>8, <3>9 DEF Current
    <3> QED
      BY <1>7, <2>1, <2>3, <3>10
  <2>4. Len(w) \in Nat /\ Len(q) = Len(w) + 1 /\ i \in 2 .. Len(q) - 1
    BY <1>7
  <2>5. i < Len(w) \/ i = Len(w)
    BY <2>4
  <2> QED
    BY <2>2, <2>3, <2>5
<1>11. \E k \in DOMAIN q : q[k] = b.block
  <2>1. Len(w) + 1 \in DOMAIN q
    BY <1>7
  <2> QED
    BY <1>7, <2>1
<1>12. q \in Seq(Nat) /\ b.block \in Nat
  BY <1>1, <1>7
<1> QED
  BY <1>8, <1>9, <1>10, <1>11, <1>12

LEMMA ConsumeKeeps == RcvInv /\ Consume => RcvInv' /\ shown' = shown
<1> SUFFICES ASSUME RcvInv, Consume PROVE RcvInv' /\ shown' = shown
  OBVIOUS
<1>1. /\ taking.at = "consume" /\ taking' = Idle
      /\ UNCHANGED <<capture, mode, generation, pending, io, heard, ui, screen, shown, since, posted>>
  BY DEF Consume, uiVars, ioVars, shared
<1>2. taking \in Takings /\ taking # Idle /\ taking'.at # "consume"
  BY <1>1 DEF RcvInv, RcvTypes, Idle
<1>3. RcvCounts' /\ Switching'
  BY <1>1 DEF RcvInv, RcvCounts, PendingIsQueued, Switching
<1>4. Steady' = Steady /\ Taken' = Taken
  BY <1>1 DEF Steady, Taken
<1>5. CASE taking.block.generation # generation
  <2>1. UNCHANGED <<worker, signals>>
    BY <1>5 DEF Consume
  <2>2. RcvTypes' /\ Sorted' /\ Generations' /\ Wholes' /\ InMode'
    BY <1>1, <1>2, <1>4, <2>1 DEF RcvInv, RcvTypes, Fits, Sorted, Generations, Wholes, InMode
  <2>3. \A n : Current(n)' <=> Current(n)
    BY <1>1, <1>5, <2>1 DEF Current
  <2>4. Gapless'
    BY <1>1, <1>4, <2>3 DEF RcvInv, Gapless
  <2> QED
    BY <1>1, <1>3, <2>2, <2>4 DEF RcvInv
<1>6. CASE taking.block.generation = generation
  <2> DEFINE b == taking.block
             q == Append(Base(b).window, b.block)
             d == [generation |-> generation, mode |-> b.mode, window |-> q]
  <2>1. Consumed(b)
    BY <1>6 DEF Consume
  <2>2. /\ Fits(worker') /\ worker'.generation = generation /\ worker'.mode = b.mode
        /\ worker'.window = <<>> \/ worker'.window = q
        /\ \E x, y \in {<<>>, <<d>>} : signals' = signals \o x \o y
    BY <1>1, <1>6, <2>1, Consuming
  <2>3. b \in Posted /\ b.block \in Nat /\ b.mode \in Modes /\ generation \in Nat
    BY <1>2 DEF RcvInv, RcvTypes, Takings, Posted
  <2>4. Base(b).window = <<>> \/ (Base(b).window = worker.window /\ worker.generation = generation)
    BY <1>1, <1>6, Streams
  <2>5. Base(b).window \in Seq(Nat)
    BY <1>1, <1>6, Streams DEF Fits, Dsps
  <2>6. q \in Seq(Nat)
    BY <2>3, <2>5
  <2>7. d \in Decodings
    BY <2>3, <2>6 DEF Decodings
  <2>8. /\ signals' \in Seq(Decodings)
        /\ \A i \in DOMAIN signals' : (i \in DOMAIN signals /\ signals'[i] = signals[i]) \/ signals'[i] = d
    <3> HIDE DEF d
    <3>1. PICK x \in {<<>>, <<d>>}, y \in {<<>>, <<d>>} : signals' = signals \o x \o y
      BY <2>2
    <3>2. signals \in Seq(Decodings)
      BY DEF RcvInv, RcvTypes
    <3>3. Adds(signals, d, signals \o x \o y)
      BY <2>7, <3>1, <3>2, Decoding, Zenon
    <3> QED
      BY <3>1, <3>3 DEF Adds
  <2>9. d.generation = generation /\ d.window = q
    OBVIOUS
  <2>10. RcvTypes'
    BY <1>1, <2>2, <2>8 DEF RcvInv, RcvTypes
  <2>11. Generations'
    <3> HIDE DEF d
    <3>1. \A i \in DOMAIN signals' : signals'[i].generation <= generation
      BY <2>3, <2>8, <2>9 DEF RcvInv, Generations
    <3>2. worker'.generation <= generation
      BY <2>2, <2>3
    <3> QED
      BY <1>1, <3>1, <3>2 DEF RcvInv, Generations
  <2>12. InMode'
    <3>1. ui.at # "generation" => b.mode = mode
      BY <1>2, <1>6 DEF RcvInv, InMode
    <3>2. taking' = Idle /\ ~(taking'.at = "consume")
      BY <1>1, <1>2
    <3>3. ui.at # "generation" => \A i \in DOMAIN posted : posted[i].generation = generation => posted[i].mode = mode
      BY DEF RcvInv, InMode
    <3> QED
      BY <1>1, <2>2, <3>1, <3>2, <3>3 DEF InMode
  <2>13. \A k \in DOMAIN q : q[k] = b.block \/ (k \in DOMAIN worker.window /\ q[k] = worker.window[k] /\ worker.generation = generation)
    <3>1. \A k \in DOMAIN q : q[k] = b.block \/ (k \in DOMAIN Base(b).window /\ q[k] = Base(b).window[k])
      BY <2>3, <2>5
    <3> QED
      BY <2>4, <3>1
  <2>14. \A k, l \in DOMAIN q : k < l => q[k] < q[l]
    <3>1. /\ \A k \in DOMAIN worker.window : worker.window[k] < b.block
          /\ \A k, l \in DOMAIN worker.window : k < l => worker.window[k] < worker.window[l]
      BY <1>2 DEF RcvInv, Sorted
    <3> SUFFICES ASSUME NEW k \in DOMAIN q, NEW l \in DOMAIN q, k < l PROVE q[k] < q[l]
      OBVIOUS
    <3> HIDE DEF b
    <3>2. k \in DOMAIN Base(b).window /\ q[k] = Base(b).window[k]
      BY <2>3, <2>5
    <3>3. (l \in DOMAIN Base(b).window /\ q[l] = Base(b).window[l]) \/ q[l] = b.block
      BY <2>3, <2>5
    <3>4. Base(b).window = worker.window
      BY <2>4, <3>2
    <3> QED
      BY <3>1, <3>2, <3>3, <3>4
  <2>15. Sorted'
    <3>1. /\ b.block <= Taken /\ \A i \in DOMAIN posted : b.block < posted[i].block
          /\ \A k \in DOMAIN worker.window :
               worker.window[k] <= Taken /\ \A i \in DOMAIN posted : worker.window[k] < posted[i].block
      BY <1>2 DEF RcvInv, Sorted
    <3> HIDE DEF b, q, d
    <3>2. \A k \in DOMAIN q : q[k] <= Taken /\ \A i \in DOMAIN posted : q[k] < posted[i].block
      BY <2>13, <3>1
    <3>3. \A k \in DOMAIN worker'.window : worker'.window[k] <= Taken /\ \A i \in DOMAIN posted : worker'.window[k] < posted[i].block
      BY <2>2, <3>2
    <3>4. \A k, l \in DOMAIN worker'.window : k < l => worker'.window[k] < worker'.window[l]
      BY <2>2, <2>14
    <3> QED
      BY <1>1, <1>4, <3>3, <3>4 DEF RcvInv, Sorted
  <2>16. ASSUME Steady
         PROVE  /\ Whole(q) /\ \A k \in DOMAIN q : q[k] > since /\ Current(q[k]) /\ q[k] <= b.block
                /\ \E k \in DOMAIN q : q[k] = b.block
    BY <1>1, <1>6, <2>16, NoGap
  <2>17. Wholes'
    <3>1. Whole(<<>>)
      BY DEF Whole
    <3> HIDE DEF b, q, d
    <3>2. Steady => Whole(worker'.window)
      BY <2>2, <2>16, <3>1
    <3>3. Steady => \A i \in DOMAIN signals' : signals'[i].generation = generation =>
             Whole(signals'[i].window) /\ \A k \in DOMAIN signals'[i].window : signals'[i].window[k] > since
      BY <2>8, <2>9, <2>16 DEF RcvInv, Wholes
    <3>4. Whole(shown)
      BY DEF RcvInv, Wholes
    <3> QED
      BY <1>1, <1>4, <3>2, <3>3, <3>4 DEF Wholes, Whole
  <2>18. Gapless'
    <3> DEFINE Queued(n) == \/ \E i \in DOMAIN posted : posted[i].generation = generation /\ posted[i].block = n
                            \/ io.at = "post" /\ io.generation = generation /\ io.block = n
    <3>1. \A n : Current(n)' <=> Queued(n) \/ \E k \in DOMAIN worker'.window : worker'.window[k] = n
      BY <1>1, <2>2 DEF Current
    <3>2. \A n : Current(n) <=> Queued(n) \/ n = b.block \/
             (worker.generation = generation /\ \E k \in DOMAIN worker.window : worker.window[k] = n)
      BY <1>2, <1>6 DEF Current
    <3>3. ASSUME Steady, NEW n \in 0 .. heard.count, Current(n)'
          PROVE  /\ n > since /\ (~capture => n = since + 1) /\ (io.at = "post" => io.generation = generation)
                 /\ (n > since + 1 => \A m \in n .. Taken : Current(m)')
      <4>1. Current(n)
        <5>1. CASE Queued(n)
          BY <3>2, <5>1
        <5>2. CASE \E k \in DOMAIN worker'.window : worker'.window[k] = n
          <6>1. worker'.window = q
            BY <2>2, <5>2
          <6> QED
            BY <2>16, <3>3, <5>2, <6>1
        <5> QED
          BY <3>1, <3>3, <5>1, <5>2
      <4>2. /\ n > since /\ (~capture => n = since + 1) /\ (io.at = "post" => io.generation = generation)
            /\ n > since + 1 => \A m \in n .. Taken : Current(m)
        BY <3>3, <4>1 DEF RcvInv, Gapless
      <4>3. ASSUME n > since + 1, NEW m \in n .. Taken PROVE Current(m)'
        <5>1. Current(m) /\ m \in Nat /\ n \in Nat /\ n <= m
          BY <3>3, <4>2, <4>3
        <5>2. CASE Queued(m)
          BY <3>1, <5>2
        <5>3. CASE ~Queued(m)
          <6>1. m <= b.block
            <7>1. \A k \in DOMAIN worker.window : worker.window[k] < b.block /\ worker.window[k] \in Nat
              BY <1>2, BlocksAreNumbers DEF RcvInv, Sorted
            <7> QED
              BY <2>3, <3>2, <5>1, <5>3, <7>1
          <6>2. ~Queued(n)
            <7>1. \A i \in DOMAIN posted : posted[i].block > b.block /\ posted[i].block \in Nat
              BY <1>2, BlocksAreNumbers DEF RcvInv, Sorted
            <7>2. io.at = "post" => io.block = heard.count /\ b.block <= heard.count - 1 /\ heard.count \in Nat
              BY <1>2, Under DEF RcvInv, Sorted, Idle, RcvTypes
            <7> QED
              BY <2>3, <5>1, <6>1, <7>1, <7>2
          <6>3. PICK k \in DOMAIN worker'.window : worker'.window[k] = n
            BY <3>1, <3>3, <6>2
          <6>4. worker'.window = q
            BY <2>2, <6>3
          <6>5. CASE m = b.block
            BY <2>16, <3>1, <3>3, <6>4, <6>5
          <6>6. CASE m # b.block
            <7>1. PICK j \in DOMAIN worker.window : worker.window[j] = m /\ worker.generation = generation
              BY <3>2, <5>1, <5>3, <6>6
            <7>2. m < b.block
              BY <1>2, <7>1 DEF RcvInv, Sorted
            <7>3. n # b.block
              BY <2>3, <5>1, <7>2
            <7>4. Base(b).window = worker.window
              <8>1. Base(b).window = <<>> => q = <<b.block>>
                BY <2>3
              <8>2. q # <<b.block>>
                BY <2>13, <6>3, <6>4, <7>3
              <8> QED
                BY <2>4, <8>1, <8>2
            <7>5. j \in DOMAIN q /\ q[j] = m
              BY <2>3, <2>5, <7>1, <7>4
            <7> QED
              BY <3>1, <6>4, <7>5
          <6> QED
            BY <6>5, <6>6
        <5> QED
          BY <5>2, <5>3
      <4> QED
        BY <4>2, <4>3
    <3>4. ~capture /\ io # Idle => heard.count = since + 1
      BY DEF RcvInv, Gapless
    <3> QED
      BY <1>1, <1>4, <3>3, <3>4 DEF Gapless
  <2> QED
    BY <1>1, <1>3, <2>10, <2>11, <2>12, <2>15, <2>17, <2>18 DEF RcvInv
<1> QED
  BY <1>5, <1>6

----------------------------------------------------------------------------
OfReceiver == part = "receiver" => RcvInv
FromThis == part = "receiver" => FromThisCapture

LEMMA ReceiverSteps == OfReceiver /\ [AllNext]_all => OfReceiver' /\ [FromThis]_all
<1> SUFFICES ASSUME OfReceiver, [AllNext]_all PROVE OfReceiver' /\ FromThis
  OBVIOUS
<1>1. part' = part
  BY DEF AllNext, Receiver, Mirror, Policy, Tuning, TxSlot, all
<1>2. CASE part # "receiver"
  BY <1>1, <1>2 DEF OfReceiver, FromThis
<1>3. CASE part = "receiver" /\ UNCHANGED all
  <2>1. UNCHANGED <<capture, mode, generation, pending, ui, screen, io, posted, worker, taking, signals, heard, shown, since>>
    BY <1>3 DEF all, vars
  <2>2. RcvTypes' /\ RcvCounts' /\ Switching' /\ Sorted' /\ Generations' /\ Wholes' /\ InMode'
    BY <1>3, <2>1 DEF OfReceiver, RcvInv, RcvTypes, Fits, RcvCounts, PendingIsQueued, Switching, Sorted, Taken,
                      Generations, Wholes, Steady, InMode
  <2>3. Gapless'
    BY <1>3, <2>1 DEF OfReceiver, RcvInv, Gapless, Steady, Current, Taken
  <2> QED
    BY <1>3, <2>1, <2>2, <2>3 DEF OfReceiver, RcvInv, FromThis, FromThisCapture
<1>4. CASE part = "receiver" /\ AllNext
  <2>1. ~Mirror /\ ~Policy /\ ~Tuning /\ ~TxSlot /\ RcvInv
    BY <1>4 DEF Mirror, Policy, Tuning, TxSlot, OfReceiver
  <2>2. \/ \E on \in BOOLEAN : Refresh(on)
        \/ \E m \in Modes, receives, ready \in BOOLEAN : CaptureChanged(m, receives, ready)
        \/ Begin \/ StoreMode \/ StoreGeneration \/ StoreCapture \/ Accept
        \/ \E delay \in {1, 2 + Gap} : Hear(delay)
        \/ Add \/ TakeBack \/ Restart \/ LoadGeneration \/ Post
        \/ Take \/ LoadCapture \/ Consume
    BY <1>4, <2>1 DEF AllNext
  <2>3. CASE Accept
    BY <2>1, <2>3, AcceptKeeps DEF OfReceiver, FromThis
  <2>4. CASE Begin
    <3>1. RcvInv' /\ (shown' # shown => shown' = <<>>)
      BY <2>1, <2>4, BeginKeeps
    <3>2. \A i \in 1 .. Len(<<>>) : FALSE
      OBVIOUS
    <3> QED
      BY <3>1, <3>2 DEF OfReceiver, FromThis, FromThisCapture
  <2>5. CASE ~Accept /\ ~Begin
    <3>1. RcvInv' /\ shown' = shown
      BY <2>1, <2>2, <2>5, ChangesKeep, StoresKeep, HearKeeps, AddKeeps, RestartKeeps, LoadGenerationKeeps, PostKeeps,
         TakeKeeps, LoadCaptureKeeps, ConsumeKeeps
    <3> QED
      BY <3>1 DEF OfReceiver, FromThis, FromThisCapture
  <2> QED
    BY <2>3, <2>4, <2>5
<1> QED
  BY <1>2, <1>3, <1>4

LEMMA ReceiverStarts == AllInit => OfReceiver
  BY ReceptionBegins DEF AllInit, OfReceiver

\* Decodes that are shown come from a period without a gap, behind its first block at
\* most: what the queue refuses ends the stream, and a block of an older generation is
\* not appended to it.  A stream of the current generation is decoded in the mode on
\* the screen.
THEOREM KeepsWindowsWhole == AllSpec => []WindowIsWhole
<1>1. OfReceiver => WindowIsWhole
  <2> SUFFICES ASSUME part = "receiver", RcvInv PROVE ShownIsWhole /\ StreamInMode
    BY DEF OfReceiver, WindowIsWhole
  <2>1. ShownIsWhole
    BY DEF RcvInv, Wholes, Whole, ShownIsWhole
  <2>2. StreamInMode
    BY DEF RcvInv, InMode, Switching, StreamInMode
  <2> QED
    BY <2>1, <2>2
<1> QED
  BY <1>1, ReceiverStarts, ReceiverSteps, PTL DEF AllSpec

\* Decodes are shown only of blocks heard since setCapture last changed anything, whatever
\* the threads have in hand then.
THEOREM ShowsCurrent == AllSpec => DecodesAreCurrent
<1>1. OfReceiver /\ [AllNext]_all => OfReceiver' /\ [part = "receiver" => FromThisCapture]_all
  BY ReceiverSteps DEF FromThis
<1> QED
  BY <1>1, ReceiverStarts, PTL DEF AllSpec, DecodesAreCurrent

\* The types of the receiver's state.
LEMMA ReceiverIsTyped == OfReceiver /\ part = "receiver" => TypeOK
<1> SUFFICES ASSUME RcvInv PROVE TypeOK
  BY DEF OfReceiver
<1>1. worker \in Dsps /\ worker.position < Period[worker.mode] /\ Len(worker.window) <= worker.position
  BY DEF RcvInv, RcvTypes, Fits
<1>2. worker.mode \in Modes /\ worker.position \in Nat /\ Period[worker.mode] \in Nat
  BY <1>1, ReceiverBounds DEF Dsps, Modes
<1>3. worker.position \in 0 .. Period[worker.mode] - 1
  BY <1>1, <1>2
<1>4. pending \in 0 .. MaxQueued + 1
  BY ReceiverBounds DEF RcvInv, RcvCounts
<1> QED
  BY <1>1, <1>2, <1>3, <1>4 DEF RcvInv, RcvTypes, RcvCounts, Switching, TypeOK

----------------------------------------------------------------------------
(***************************************************************************)
(* The level.  MeterPolicy's names in the variables: guard is capture,     *)
(* open mode, gain generation, age pending, lowering screen, tx io, ioQ    *)
(* posted, uiQ worker, steady taking, lowest signals, missed heard.        *)
(***************************************************************************)
Levels == P!Gain \cup {P!Unset}
Ordered == [name : {"ack", "begin", "stop"}, kind : P!Kinds, gen : Nat]
Reported == [name : {"calibrated", "ended", "reduced"}, kind : P!Kinds, gen : Nat, gain : P!Gain]
Runs == [run : P!Kinds \cup {"no"}, gen : Nat, saved : Levels, reduced : Levels]
Guards == [kind : P!Kinds \cup {"no"}, gen : Nat, latched : BOOLEAN, highs : Int]

LevelTypes ==
  /\ ui \in Runs /\ capture \in Guards /\ mode \in BOOLEAN /\ generation \in P!Gain /\ screen \in BOOLEAN
  /\ io \in Nat /\ posted \in Seq(Ordered) /\ worker \in Seq(Reported)
  /\ signals \in P!Gain /\ heard \in BOOLEAN

\* What is begun for a generation is begun before the next one.
LevelOrder ==
  /\ capture.gen <= ui.gen /\ io <= ui.gen
  /\ \A i \in DOMAIN posted : posted[i].gen <= ui.gen
  /\ \A i \in DOMAIN worker : worker[i].gen <= ui.gen

Beginning == \E i \in DOMAIN posted : posted[i].name = "begin"
Sends(call) == call.name = "begin" /\ call.kind # "cal"
\* A transmission, running or about to begin.
OnTheAir == (P!Active /\ ~P!Calibrating) \/ \E i \in DOMAIN posted : Sends(posted[i])

\* While MainWindow calibrates, all that concerns its generation is the calibration:
\* the call that begins it, behind those of earlier transmissions, the guard, or its end.
Calibration ==
  /\ ui.run = "cal" =>
       /\ io # ui.gen /\ (capture.gen = ui.gen => ~(P!Active /\ ~P!Calibrating))
       /\ \A i \in DOMAIN posted : posted[i].gen = ui.gen => posted[i].kind = "cal"
       /\ \A i \in DOMAIN worker : worker[i].gen = ui.gen => worker[i].kind = "cal" /\ worker[i].name # "reduced"
       /\ \A i, j \in DOMAIN worker : worker[i].gen = ui.gen /\ worker[j].gen = ui.gen => i = j
  /\ P!Calibrating => /\ ui.run = "cal" /\ capture.gen = ui.gen /\ ~Beginning
                      /\ \A i \in DOMAIN worker : worker[i].gen # ui.gen
  /\ \A i \in DOMAIN posted : posted[i].name = "begin" /\ posted[i].kind = "cal" =>
       /\ ui.run = "cal" /\ posted[i].gen = ui.gen /\ ~P!Calibrating
       /\ \A j \in DOMAIN posted : posted[j].name = "begin" => j <= i
       /\ \A j \in DOMAIN worker : worker[j].gen # ui.gen
  /\ \A i \in DOMAIN worker : worker[i].name = "calibrated" /\ worker[i].gen = ui.gen =>
       ui.run = "cal" /\ ~Beginning /\ ~P!Active

Reduction(s) == s.name = "reduced"
\* MainWindow will not take the reduction: the transmission it is of is over.
Late(s) == Reduction(s) /\ (s.gen < ui.gen \/ (s.kind = "ft" /\ ui.run # "ft"))
\* The level of the transmission is at most the one MainWindow starts from.
NotAbove ==
  /\ OnTheAir => /\ ui.saved # P!Unset /\ generation <= P!Level
                 /\ \A i \in DOMAIN worker : Reduction(worker[i]) => Late(worker[i]) \/ generation <= worker[i].gain
  /\ screen => P!Active /\ generation > 0

\* Reductions are kept, by MainWindow or on the way to it, unless one is late.
Kept ==
  /\ P!Told => P!Level <= signals
  /\ \A i \in DOMAIN worker : Reduction(worker[i]) /\ (\A j \in DOMAIN worker : j > i => ~Reduction(worker[j]))
       => worker[i].gain <= signals
  /\ OnTheAir => generation <= signals
Remembered == heard \/ (\E i \in DOMAIN worker : Late(worker[i])) \/ Kept

LevelInv == LevelTypes /\ LevelOrder /\ Calibration /\ NotAbove /\ Remembered

LEMMA Gains ==
  /\ P!Gain = 0 .. MaximumGain /\ MaximumGain \in P!Gain /\ 0 \in P!Gain /\ CalibrationStart \in P!Gain
  /\ P!Unset = -1 /\ P!Unset \notin P!Gain
  /\ \A g \in P!Gain : g \in Int /\ g >= 0
  /\ \A g \in Levels : g \in Int
BY PolicyBounds DEF P!Gain, P!Unset, Levels

\* The level a transmission starts with.
LEMMA LevelIsLeast ==
  ASSUME ui \in Runs
  PROVE  /\ P!Level \in Levels /\ (ui.saved # P!Unset => P!Level \in P!Gain /\ P!Level <= ui.saved)
         /\ ui.reduced # P!Unset => P!Level <= ui.reduced
<1>1. ui.saved \in Levels /\ ui.reduced \in Levels
  BY DEF Runs
<1> QED
  BY <1>1, Gains DEF P!Level, P!Least, Levels

LEMMA LevelBegins == P!Init => LevelInv
<1> SUFFICES ASSUME P!Init PROVE LevelInv
  OBVIOUS
<1>1. PICK saved \in P!Gain \cup {P!Unset}, reduced \in P!Gain \cup {P!Unset} :
        /\ reduced <= saved /\ ui = [run |-> "no", gen |-> 0, saved |-> saved, reduced |-> reduced]
        /\ signals = IF reduced = P!Unset THEN MaximumGain ELSE reduced
  BY DEF P!Init
<1>2. /\ capture = [kind |-> "no", gen |-> 0, latched |-> FALSE, highs |-> 0]
      /\ mode = FALSE /\ generation = MaximumGain /\ screen = FALSE /\ io = 0 /\ posted = <<>> /\ worker = <<>> /\ heard = FALSE
  BY DEF P!Init
<1>3. <<>> \in Seq(Ordered) /\ <<>> \in Seq(Reported) /\ DOMAIN <<>> = {}
  OBVIOUS
<1>4. ui \in Runs /\ capture \in Guards /\ ui.gen = 0 /\ capture.gen = 0 /\ capture.kind = "no" /\ ui.run = "no"
  BY <1>1, <1>2 DEF Runs, Guards, Levels
<1>5. signals \in P!Gain
  BY <1>1, Gains
<1>6. LevelTypes /\ LevelOrder
  BY <1>2, <1>3, <1>4, <1>5, Gains DEF LevelTypes, LevelOrder
<1>7. Calibration /\ NotAbove
  BY <1>2, <1>3, <1>4 DEF Calibration, NotAbove, OnTheAir, P!Active, P!Calibrating
<1>8. P!Level <= signals
  BY <1>1, Gains DEF P!Level, P!Least
<1>9. Remembered
  BY <1>2, <1>3, <1>4, <1>8 DEF Remembered, Kept, OnTheAir, P!Active, P!Calibrating
<1> QED
  BY <1>6, <1>7, <1>9 DEF LevelInv

\* The level and the readings of a guard that goes on change nothing the others know of.
LEMMA GoesOn ==
  ASSUME LevelInv, capture' \in Guards, capture'.kind = capture.kind, capture'.gen = capture.gen,
         mode' \in BOOLEAN, generation' \in P!Gain, P!Calibrating \/ generation' = generation,
         screen' \in BOOLEAN, screen' => P!Active /\ generation' > 0,
         UNCHANGED <<ui, io, posted, worker, signals, heard>>
  PROVE  LevelInv'
<1>1. LevelTypes' /\ LevelOrder'
  BY DEF LevelInv, LevelTypes, LevelOrder
<1>2. Calibration'
  BY DEF LevelInv, Calibration, Beginning, P!Active, P!Calibrating
<1>3. OnTheAir' => OnTheAir /\ generation' = generation
  <2>1. P!Calibrating => ~\E i \in DOMAIN posted : Sends(posted[i])
    BY DEF LevelInv, Calibration, Beginning, Sends
  <2> QED
    BY <2>1 DEF OnTheAir, Sends, P!Active, P!Calibrating
<1>4. NotAbove'
  BY <1>3 DEF LevelInv, NotAbove, Late, P!Level, P!Active
<1>5. Remembered'
  BY <1>3 DEF LevelInv, Remembered, Kept, Late, P!Told, P!Level
<1> QED
  BY <1>1, <1>2, <1>4, <1>5 DEF LevelInv

\* A signal that is no reduction, behind the others.
LEMMA Told ==
  ASSUME LevelTypes, NEW s \in Reported, worker' = Append(worker, s), s.name # "reduced", UNCHANGED ui
  PROVE  /\ worker' \in Seq(Reported) /\ (P!Told' <=> P!Told)
         /\ \A i \in DOMAIN worker : i \in DOMAIN worker' /\ worker'[i] = worker[i]
         /\ \A i \in DOMAIN worker' : (i \in DOMAIN worker /\ worker'[i] = worker[i]) \/ (i = Len(worker) + 1 /\ worker'[i] = s)
         /\ Len(worker) + 1 \in DOMAIN worker'
         /\ \A i \in DOMAIN worker' : Reduction(worker'[i]) => i \in DOMAIN worker
         /\ (\E i \in DOMAIN worker : Late(worker[i])) => (\E i \in DOMAIN worker : Late(worker[i]))'
<1>1. worker \in Seq(Reported)
  BY DEF LevelTypes
<1>2. /\ worker' \in Seq(Reported)
      /\ \A i \in DOMAIN worker : i \in DOMAIN worker' /\ worker'[i] = worker[i]
      /\ \A i \in DOMAIN worker' : (i \in DOMAIN worker /\ worker'[i] = worker[i]) \/ (i = Len(worker) + 1 /\ worker'[i] = s)
      /\ Len(worker) + 1 \in DOMAIN worker'
  BY <1>1, Posting
<1> QED
  BY <1>2 DEF P!Told, Reduction, Late

\* The guard stops: what MainWindow hears of a calibration is the first it hears of it.
LEMMA GuardEnds ==
  ASSUME LevelInv, P!Active, NEW latched \in BOOLEAN, NEW ok \in BOOLEAN, P!Ends(latched, ok), ok => P!Calibrating,
         UNCHANGED <<generation, ui, io, posted, signals, heard>>
  PROVE  LevelInv'
<1> DEFINE s == [name |-> IF ok THEN "calibrated" ELSE "ended", kind |-> capture.kind, gen |-> capture.gen, gain |-> generation]
<1>1. /\ capture' = [capture EXCEPT !.kind = "no", !.latched = @ \/ latched]
      /\ mode' = FALSE /\ screen' = FALSE /\ worker' = Append(worker, s)
  BY DEF P!Ends, P!Rests, P!Tell, P!Signal
<1>2. capture \in Guards /\ capture.kind \in P!Kinds /\ capture.gen \in Nat /\ generation \in P!Gain /\ capture.latched \in BOOLEAN
  BY DEF LevelInv, LevelTypes, Guards, P!Active
<1>3. s \in Reported /\ s.name \in {"calibrated", "ended"} /\ (s.name = "calibrated" => ok) /\ s.kind = capture.kind /\ s.gen = capture.gen
  BY <1>2 DEF Reported
<1> HIDE DEF s
<1>4. capture' \in Guards /\ capture'.kind = "no" /\ capture'.gen = capture.gen
  BY <1>1, <1>2 DEF Guards
<1>5. /\ worker' \in Seq(Reported) /\ (P!Told' <=> P!Told)
      /\ \A i \in DOMAIN worker : i \in DOMAIN worker' /\ worker'[i] = worker[i]
      /\ \A i \in DOMAIN worker' : (i \in DOMAIN worker /\ worker'[i] = worker[i]) \/ (i = Len(worker) + 1 /\ worker'[i] = s)
      /\ Len(worker) + 1 \in DOMAIN worker'
      /\ \A i \in DOMAIN worker' : Reduction(worker'[i]) => i \in DOMAIN worker
      /\ (\E i \in DOMAIN worker : Late(worker[i])) => (\E i \in DOMAIN worker : Late(worker[i]))'
  BY <1>1, <1>3, Told DEF LevelInv
<1>6. LevelTypes'
  BY <1>1, <1>4, <1>5 DEF LevelInv, LevelTypes
<1>7. LevelOrder'
  BY <1>3, <1>4, <1>5 DEF LevelInv, LevelOrder
<1>8. Calibration'
  <2>1. ui.run = "cal" /\ capture.gen = ui.gen => P!Calibrating
    BY DEF LevelInv, Calibration
  <2>2. P!Calibrating => ui.run = "cal" /\ capture.gen = ui.gen /\ ~Beginning /\ \A i \in DOMAIN worker : worker[i].gen # ui.gen
    BY DEF LevelInv, Calibration
  <2>3. ASSUME ui.run = "cal"
        PROVE  /\ \A i \in DOMAIN worker' : worker'[i].gen = ui.gen => worker'[i].kind = "cal" /\ worker'[i].name # "reduced"
               /\ \A i, j \in DOMAIN worker' : worker'[i].gen = ui.gen /\ worker'[j].gen = ui.gen => i = j
    <3>1. /\ \A i \in DOMAIN worker : worker[i].gen = ui.gen => worker[i].kind = "cal" /\ worker[i].name # "reduced"
          /\ \A i, j \in DOMAIN worker : worker[i].gen = ui.gen /\ worker[j].gen = ui.gen => i = j
      BY <2>3 DEF LevelInv, Calibration
    <3>2. CASE s.gen = ui.gen
      BY <1>3, <1>5, <2>1, <2>2, <2>3, <3>2 DEF P!Calibrating
    <3>3. CASE s.gen # ui.gen
      BY <1>5, <3>1, <3>3
    <3> QED
      BY <3>2, <3>3
  <2>4. ~P!Active' /\ ~P!Calibrating'
    BY <1>4 DEF P!Active, P!Calibrating
  <2>5. \A i \in DOMAIN posted : posted[i].name = "begin" /\ posted[i].kind = "cal" =>
          \A j \in DOMAIN worker' : worker'[j].gen # ui.gen
    <3> SUFFICES ASSUME NEW i \in DOMAIN posted, posted[i].name = "begin", posted[i].kind = "cal"
                 PROVE  \A j \in DOMAIN worker' : worker'[j].gen # ui.gen
      OBVIOUS
    <3>1. ui.run = "cal" /\ ~P!Calibrating /\ \A j \in DOMAIN worker : worker[j].gen # ui.gen
      BY DEF LevelInv, Calibration
    <3> QED
      BY <1>3, <1>5, <2>1, <3>1
  <2>6. \A i \in DOMAIN worker' : worker'[i].name = "calibrated" /\ worker'[i].gen = ui.gen => ui.run = "cal" /\ ~Beginning
    BY <1>3, <1>5, <2>2 DEF LevelInv, Calibration
  <2> QED
    BY <2>3, <2>4, <2>5, <2>6 DEF LevelInv, Calibration, Beginning
<1>9. OnTheAir' => OnTheAir
  BY <1>4 DEF OnTheAir, Sends, P!Active
<1>10. NotAbove'
  BY <1>1, <1>5, <1>9 DEF LevelInv, NotAbove, Late, P!Level
<1>11. Remembered'
  <2>1. Kept => Kept'
    BY <1>5, <1>9 DEF Kept, P!Level
  <2> QED
    BY <1>5, <2>1 DEF LevelInv, Remembered
<1> QED
  BY <1>6, <1>7, <1>8, <1>10, <1>11 DEF LevelInv

\* Time, the watchdog, packets and readings.
LEMMA GuardKeeps ==
  ASSUME LevelInv
  PROVE  /\ P!Pass \/ P!Tick \/ P!audioAccepted => LevelInv'
         /\ \A r \in P!Readings : P!Meter(r) => LevelInv'
<1>1. /\ capture \in Guards /\ capture.highs \in Int /\ generation \in P!Gain /\ mode \in BOOLEAN /\ screen \in BOOLEAN
      /\ screen => P!Active /\ generation > 0
  BY DEF LevelInv, LevelTypes, Guards, NotAbove
<1>2. CASE P!Pass \/ P!audioAccepted
  <2>1. UNCHANGED <<capture, mode, generation, screen, ui, io, posted, worker, signals, heard>>
    BY <1>2 DEF P!Pass, P!audioAccepted, P!sent, P!history
  <2> QED
    BY <1>1, <2>1, GoesOn
<1>3. CASE P!Tick
  <2>1. P!Active /\ UNCHANGED <<generation, ui, io, posted, signals, heard>>
    BY <1>3 DEF P!Tick, P!history
  <2>2. CASE P!Ends(TRUE, FALSE)
    BY <2>1, <2>2, GuardEnds
  <2>3. CASE UNCHANGED <<capture, mode, screen, worker>>
    BY <1>1, <2>1, <2>3, GoesOn
  <2> QED
    BY <1>3, <2>2, <2>3 DEF P!Tick
<1>4. ASSUME NEW r \in P!Readings, P!Meter(r) PROVE LevelInv'
  <2>1. P!Active /\ ~screen /\ UNCHANGED <<ui, io, posted>>
    BY <1>4 DEF P!Meter
  <2>2. ASSUME P!Trips PROVE LevelInv'
    BY <2>1, <2>2, GuardEnds DEF P!Trips, P!history
  <2>3. \A n \in Int : [capture EXCEPT !.highs = n] \in Guards /\ [capture EXCEPT !.highs = n].kind = capture.kind
                       /\ [capture EXCEPT !.highs = n].gen = capture.gen
    BY <1>1 DEF Guards
  <2>4. ASSUME P!Forgets, UNCHANGED generation PROVE LevelInv'
    BY <1>1, <2>1, <2>3, <2>4, GoesOn DEF P!Forgets, P!history
  <2>5. CASE P!Trips
    BY <2>2, <2>5
  <2>6. CASE P!Provisional
    BY <2>4, <2>6 DEF P!Provisional, P!Forgets
  <2>7. CASE P!Low /\ ~P!Trips
    <3>1. CASE P!Forgets
      BY <2>4, <3>1 DEF P!Forgets
    <3>2. CASE ~P!Forgets
      <4>1. /\ P!Calibrating /\ generation # MaximumGain /\ generation' = generation + 1
            /\ capture' = [capture EXCEPT !.highs = 0] /\ UNCHANGED <<mode, screen, worker, signals, heard>>
        BY <2>7, <3>2 DEF P!Low, P!history
      <4>2. generation' \in P!Gain
        BY <1>1, <4>1, Gains, PolicyBounds
      <4> QED
        BY <1>1, <2>1, <2>3, <4>1, <4>2, GoesOn
    <3> QED
      BY <3>1, <3>2
  <2>8. CASE P!Good
    <3>1. CASE P!Forgets
      BY <2>4, <3>1 DEF P!Forgets
    <3>2. CASE ~P!Forgets
      <4>1. P!Calibrating /\ P!Ends(FALSE, TRUE) /\ UNCHANGED <<generation, signals, heard>>
        BY <2>8, <3>2 DEF P!Good, P!history
      <4> QED
        BY <2>1, <4>1, GuardEnds
    <3> QED
      BY <3>1, <3>2
  <2>9. CASE P!High /\ ~P!Trips
    <3> DEFINE spaced == pending.sample = P!Unset \/ pending.sample >= PolicyTimes.spacing
               highs == capture.highs + IF spaced THEN 1 ELSE 0
               n == P!Least(highs, HighSamples)
    <3>1. /\ capture' = [capture EXCEPT !.highs = n] /\ (screen' => generation > 0) /\ screen' \in BOOLEAN
          /\ UNCHANGED <<mode, generation, worker, signals, heard>>
      BY <2>9 DEF P!High, P!history
    <3>2. n \in Int
      BY <1>1, PolicyBounds DEF P!Least
    <3> HIDE DEF n
    <3> QED
      BY <1>1, <2>1, <2>3, <3>1, <3>2, GoesOn
  <2> QED
    BY <1>4, <2>5, <2>6, <2>7, <2>8, <2>9 DEF P!Meter, P!Readings
<1> QED
  BY <1>2, <1>3, <1>4

\* A reduction on the air is on its way to MainWindow.
LEMMA ReduceKeeps == LevelInv /\ P!Reduce => LevelInv'
<1> SUFFICES ASSUME LevelInv, P!Reduce PROVE LevelInv'
  OBVIOUS
<1> DEFINE s == [name |-> "reduced", kind |-> capture.kind, gen |-> capture.gen, gain |-> generation - 1]
<1>1. /\ screen /\ screen' = FALSE /\ generation' = generation - 1
      /\ capture' = IF P!Calibrating THEN [capture EXCEPT !.highs = 0] ELSE capture
      /\ IF P!Calibrating THEN UNCHANGED worker ELSE worker' = Append(worker, s)
      /\ signals' = IF P!Calibrating THEN signals ELSE P!Least(signals, generation - 1)
      /\ UNCHANGED <<mode, ui, io, posted, heard>>
  BY DEF P!Reduce, P!Tell, P!Signal
<1>2. /\ capture \in Guards /\ generation \in P!Gain /\ generation > 0 /\ P!Active /\ mode \in BOOLEAN /\ signals \in P!Gain
      /\ worker \in Seq(Reported) /\ ui \in Runs
  BY <1>1 DEF LevelInv, LevelTypes, NotAbove
<1>3. generation - 1 \in P!Gain /\ generation \in Int /\ signals \in Int
  BY <1>2, Gains
<1>4. CASE P!Calibrating
  <2>1. capture' \in Guards /\ capture'.kind = capture.kind /\ capture'.gen = capture.gen
    BY <1>1, <1>2, <1>4 DEF Guards
  <2> QED
    BY <1>1, <1>2, <1>3, <1>4, <2>1, GoesOn
<1>5. CASE ~P!Calibrating
  <2>1. capture.kind \in P!Kinds /\ capture.gen \in Nat
    BY <1>2 DEF Guards, P!Active
  <2>2. s \in Reported /\ s.name = "reduced" /\ s.kind = capture.kind /\ s.gen = capture.gen /\ s.gain = generation'
    BY <1>1, <1>3, <2>1 DEF Reported
  <2>3. worker' = Append(worker, s) /\ signals' = P!Least(signals, generation') /\ capture' = capture
    BY <1>1, <1>5
  <2> HIDE DEF s
  <2>4. /\ worker' \in Seq(Reported) /\ Len(worker) \in Nat /\ DOMAIN worker = 1 .. Len(worker)
        /\ \A i \in DOMAIN worker : i \in DOMAIN worker' /\ worker'[i] = worker[i] /\ i < Len(worker) + 1
        /\ \A i \in DOMAIN worker' : (i \in DOMAIN worker /\ worker'[i] = worker[i]) \/ (i = Len(worker) + 1 /\ worker'[i] = s)
        /\ Len(worker) + 1 \in DOMAIN worker' /\ worker'[Len(worker) + 1] = s
    BY <1>2, <2>2, <2>3, Posting
  <2>5. OnTheAir /\ (OnTheAir' <=> OnTheAir)
    BY <1>1, <1>2, <1>5, <2>3 DEF OnTheAir, Sends, P!Active, P!Calibrating
  <2>6. signals' \in P!Gain /\ (generation <= signals => signals' = generation')
    BY <1>1, <1>2, <1>3, <2>3 DEF P!Least
  <2>7. LevelTypes' /\ LevelOrder'
    BY <1>1, <1>3, <2>2, <2>3, <2>4, <2>6 DEF LevelInv, LevelTypes, LevelOrder
  <2>8. Calibration'
    <3>1. ui.run = "cal" => s.gen # ui.gen
      BY <1>2, <1>5, <2>2 DEF LevelInv, Calibration
    <3>2. \A i \in DOMAIN posted : posted[i].name = "begin" /\ posted[i].kind = "cal" =>
            ui.run = "cal" /\ \A j \in DOMAIN worker' : worker'[j].gen # ui.gen
      BY <2>4, <3>1 DEF LevelInv, Calibration
    <3>3. ui.run = "cal" =>
            /\ \A i \in DOMAIN worker' : worker'[i].gen = ui.gen => worker'[i].kind = "cal" /\ worker'[i].name # "reduced"
            /\ \A i, j \in DOMAIN worker' : worker'[i].gen = ui.gen /\ worker'[j].gen = ui.gen => i = j
      BY <2>4, <3>1 DEF LevelInv, Calibration
    <3>4. \A i \in DOMAIN worker' : worker'[i].name = "calibrated" /\ worker'[i].gen = ui.gen =>
            ui.run = "cal" /\ ~Beginning /\ ~P!Active
      BY <2>2, <2>4 DEF LevelInv, Calibration
    <3> QED
      BY <1>1, <1>5, <2>3, <3>2, <3>3, <3>4 DEF LevelInv, Calibration, Beginning, P!Active, P!Calibrating
  <2>9. NotAbove'
    <3>1. ui.saved # P!Unset /\ generation <= P!Level
          /\ \A i \in DOMAIN worker : Reduction(worker[i]) => Late(worker[i]) \/ generation <= worker[i].gain
      BY <2>5 DEF LevelInv, NotAbove
    <3>2. P!Level \in Int
      BY <1>2, LevelIsLeast, Gains
    <3>3. \A i \in DOMAIN worker : worker[i].gain \in Int
      <4> SUFFICES ASSUME NEW i \in DOMAIN worker PROVE worker[i].gain \in Int
        OBVIOUS
      <4>1. worker[i] \in Reported
        BY <1>2
      <4> QED
        BY <4>1, Gains DEF Reported
    <3>4. \A i \in DOMAIN worker' : Reduction(worker'[i]) => Late(worker'[i]) \/ generation' <= worker'[i].gain
      BY <1>1, <1>3, <2>2, <2>4, <3>1, <3>3
    <3>5. generation' <= P!Level
      BY <1>1, <1>3, <3>1, <3>2
    <3> QED
      BY <1>1, <3>1, <3>4, <3>5 DEF NotAbove, Late, P!Level
  <2>10. Remembered'
    <3>1. CASE heard
      BY <1>1, <3>1 DEF Remembered
    <3>2. CASE \E i \in DOMAIN worker : Late(worker[i])
      BY <1>1, <2>4, <3>2 DEF Remembered, Late
    <3>3. CASE Kept
      <4>1. generation <= signals
        BY <2>5, <3>3 DEF Kept
      <4>2. signals' = generation' /\ generation' <= signals'
        BY <1>3, <2>6, <4>1, <1>1
      <4>3. ~P!Told'
        BY <2>2, <2>4 DEF P!Told
      <4>4. \A i \in DOMAIN worker' : (\A j \in DOMAIN worker' : j > i => ~Reduction(worker'[j])) => i = Len(worker) + 1
        BY <2>2, <2>4 DEF Reduction
      <4>5. \A i \in DOMAIN worker' : Reduction(worker'[i]) /\ (\A j \in DOMAIN worker' : j > i => ~Reduction(worker'[j]))
              => worker'[i].gain <= signals'
        BY <2>2, <2>4, <4>2, <4>4
      <4> QED
        BY <4>2, <4>3, <4>5 DEF Remembered, Kept
    <3> QED
      BY <3>1, <3>2, <3>3 DEF LevelInv, Remembered
  <2> QED
    BY <2>7, <2>8, <2>9, <2>10 DEF LevelInv
<1> QED
  BY <1>4, <1>5

----------------------------------------------------------------------------
(* Calls to the I/O thread. *)

\* One call fewer.
LEMMA OneLess ==
  ASSUME posted \in Seq(Ordered), posted # <<>>, posted' = Tail(posted)
  PROVE  /\ posted' \in Seq(Ordered) /\ Head(posted) \in Ordered
         /\ \A i \in DOMAIN posted' : i + 1 \in DOMAIN posted /\ posted'[i] = posted[i + 1] /\ i \in Nat
         /\ \E i \in DOMAIN posted : posted[i] = Head(posted)
         /\ Beginning' => Beginning
         /\ (\E i \in DOMAIN posted' : Sends(posted'[i])) => \E i \in DOMAIN posted : Sends(posted[i])
         /\ Head(posted).name = "begin" /\ (\A j \in DOMAIN posted : posted[j].name = "begin" => j <= 1) => ~Beginning'
<1>1. /\ \A i \in DOMAIN Tail(posted) : i + 1 \in DOMAIN posted /\ Tail(posted)[i] = posted[i + 1] /\ i \in Nat /\ i > 0
      /\ 1 \in DOMAIN posted /\ Head(posted) = posted[1] /\ Tail(posted) \in Seq(Ordered) /\ Head(posted) \in Ordered
  BY Taking
<1>2. /\ Beginning' => Beginning
      /\ (\E i \in DOMAIN posted' : Sends(posted'[i])) => \E i \in DOMAIN posted : Sends(posted[i])
  BY <1>1 DEF Beginning
<1>3. ASSUME \A j \in DOMAIN posted : posted[j].name = "begin" => j <= 1, Beginning' PROVE FALSE
  <2>1. PICK i \in DOMAIN Tail(posted) : Tail(posted)[i].name = "begin"
    BY <1>3 DEF Beginning
  <2>2. i + 1 <= 1 /\ i \in Nat /\ i > 0
    BY <1>1, <1>3, <2>1
  <2> QED
    BY <2>2
<1> QED
  BY <1>1, <1>2, <1>3

LEMMA CallDone ==
  ASSUME LevelInv, posted # <<>>, posted' = Tail(posted), capture' \in Guards, capture'.kind \in {capture.kind, "no"},
         capture'.gen = capture.gen, mode' \in BOOLEAN, screen' = FALSE,
         UNCHANGED <<generation, ui, io, worker, signals, heard>>
  PROVE  LevelInv'
<1>1. /\ posted' \in Seq(Ordered) /\ Head(posted) \in Ordered
      /\ \A i \in DOMAIN posted' : i + 1 \in DOMAIN posted /\ posted'[i] = posted[i + 1] /\ i \in Nat
      /\ Beginning' => Beginning
      /\ (\E i \in DOMAIN posted' : Sends(posted'[i])) => \E i \in DOMAIN posted : Sends(posted[i])
  BY OneLess DEF LevelInv, LevelTypes
<1>2. LevelTypes' /\ LevelOrder'
  BY <1>1 DEF LevelInv, LevelTypes, LevelOrder
<1>3. /\ P!Calibrating' => P!Calibrating
      /\ P!Active' => P!Active
      /\ P!Active' /\ ~P!Calibrating' => P!Active /\ ~P!Calibrating
  BY DEF P!Calibrating, P!Active
<1>4. OnTheAir' => OnTheAir
  BY <1>1, <1>3 DEF OnTheAir
<1>5. Calibration'
  <2>1. \A i \in DOMAIN posted' : posted'[i].gen = ui.gen /\ ui.run = "cal" => posted'[i].kind = "cal"
    BY <1>1 DEF LevelInv, Calibration
  <2>2. \A i \in DOMAIN posted' : posted'[i].name = "begin" /\ posted'[i].kind = "cal" =>
          /\ ui.run = "cal" /\ posted'[i].gen = ui.gen /\ ~P!Calibrating
          /\ \A j \in DOMAIN posted' : posted'[j].name = "begin" => j <= i
          /\ \A j \in DOMAIN worker : worker[j].gen # ui.gen
    <3> SUFFICES ASSUME NEW i \in DOMAIN posted', posted'[i].name = "begin", posted'[i].kind = "cal"
                 PROVE  /\ ui.run = "cal" /\ posted'[i].gen = ui.gen /\ ~P!Calibrating
                        /\ \A j \in DOMAIN posted' : posted'[j].name = "begin" => j <= i
                        /\ \A j \in DOMAIN worker : worker[j].gen # ui.gen
      OBVIOUS
    <3>1. /\ ui.run = "cal" /\ posted[i + 1].gen = ui.gen /\ ~P!Calibrating
          /\ \A j \in DOMAIN posted : posted[j].name = "begin" => j <= i + 1
          /\ \A j \in DOMAIN worker : worker[j].gen # ui.gen
      BY <1>1 DEF LevelInv, Calibration
    <3>2. \A j \in DOMAIN posted' : posted'[j].name = "begin" => j <= i
      BY <1>1, <3>1
    <3> QED
      BY <1>1, <3>1, <3>2
  <2> QED
    BY <1>1, <1>3, <2>1, <2>2 DEF LevelInv, Calibration
<1>6. NotAbove'
  BY <1>4 DEF LevelInv, NotAbove, Late, P!Level
<1>7. Remembered'
  BY <1>4 DEF LevelInv, Remembered, Kept, Late, P!Told, P!Level
<1> QED
  BY <1>2, <1>5, <1>6, <1>7 DEF LevelInv

\* A call that is refused or that ends a calibration is answered.
LEMMA CallAnswered ==
  ASSUME LevelInv, posted # <<>>, posted' = Tail(posted), capture' \in Guards, capture'.kind \in {capture.kind, "no"},
         capture'.gen = capture.gen, mode' \in BOOLEAN, screen' \in BOOLEAN, screen' => P!Active' /\ screen,
         NEW s \in Reported, s.name = "ended", worker' = Append(worker, s), s.gen <= ui.gen,
         ui.run = "cal" /\ s.gen = ui.gen =>
           /\ s.kind = "cal" /\ ~P!Calibrating' /\ ~Beginning' /\ \A j \in DOMAIN worker : worker[j].gen # ui.gen,
         UNCHANGED <<generation, ui, io, signals, heard>>
  PROVE  LevelInv'
<1>1. /\ posted' \in Seq(Ordered) /\ Head(posted) \in Ordered
      /\ \A i \in DOMAIN posted' : i + 1 \in DOMAIN posted /\ posted'[i] = posted[i + 1] /\ i \in Nat
      /\ Beginning' => Beginning
      /\ (\E i \in DOMAIN posted' : Sends(posted'[i])) => \E i \in DOMAIN posted : Sends(posted[i])
  BY OneLess DEF LevelInv, LevelTypes
<1>2. /\ worker' \in Seq(Reported) /\ (P!Told' <=> P!Told)
      /\ \A i \in DOMAIN worker : i \in DOMAIN worker' /\ worker'[i] = worker[i]
      /\ \A i \in DOMAIN worker' : (i \in DOMAIN worker /\ worker'[i] = worker[i]) \/ (i = Len(worker) + 1 /\ worker'[i] = s)
      /\ Len(worker) + 1 \in DOMAIN worker'
      /\ \A i \in DOMAIN worker' : Reduction(worker'[i]) => i \in DOMAIN worker
      /\ (\E i \in DOMAIN worker : Late(worker[i])) => (\E i \in DOMAIN worker : Late(worker[i]))'
  BY Told DEF LevelInv
<1>3. LevelTypes' /\ LevelOrder'
  BY <1>1, <1>2 DEF LevelInv, LevelTypes, LevelOrder
<1>4. /\ P!Calibrating' => P!Calibrating
      /\ P!Active' => P!Active
      /\ P!Active' /\ ~P!Calibrating' => P!Active /\ ~P!Calibrating
  BY DEF P!Calibrating, P!Active
<1>5. OnTheAir' => OnTheAir
  BY <1>1, <1>4 DEF OnTheAir
<1>6. Calibration'
  <2>1. \A i \in DOMAIN posted' : posted'[i].gen = ui.gen /\ ui.run = "cal" => posted'[i].kind = "cal"
    BY <1>1 DEF LevelInv, Calibration
  <2>2. ui.run = "cal" =>
          /\ \A i \in DOMAIN worker' : worker'[i].gen = ui.gen => worker'[i].kind = "cal" /\ worker'[i].name # "reduced"
          /\ \A i, j \in DOMAIN worker' : worker'[i].gen = ui.gen /\ worker'[j].gen = ui.gen => i = j
    <3> SUFFICES ASSUME ui.run = "cal"
                 PROVE  /\ \A i \in DOMAIN worker' : worker'[i].gen = ui.gen => worker'[i].kind = "cal" /\ worker'[i].name # "reduced"
                        /\ \A i, j \in DOMAIN worker' : worker'[i].gen = ui.gen /\ worker'[j].gen = ui.gen => i = j
      OBVIOUS
    <3>1. /\ \A i \in DOMAIN worker : worker[i].gen = ui.gen => worker[i].kind = "cal" /\ worker[i].name # "reduced"
          /\ \A i, j \in DOMAIN worker : worker[i].gen = ui.gen /\ worker[j].gen = ui.gen => i = j
      BY DEF LevelInv, Calibration
    <3>2. CASE s.gen = ui.gen
      BY <1>2, <3>2
    <3>3. CASE s.gen # ui.gen
      BY <1>2, <3>1, <3>3
    <3> QED
      BY <3>2, <3>3
  <2>3. P!Calibrating' => /\ ui.run = "cal" /\ capture.gen = ui.gen /\ ~Beginning'
                          /\ \A i \in DOMAIN worker' : worker'[i].gen # ui.gen
    BY <1>1, <1>2, <1>4 DEF LevelInv, Calibration
  <2>4. \A i \in DOMAIN posted' : posted'[i].name = "begin" /\ posted'[i].kind = "cal" =>
          /\ ui.run = "cal" /\ posted'[i].gen = ui.gen /\ ~P!Calibrating
          /\ \A j \in DOMAIN posted' : posted'[j].name = "begin" => j <= i
          /\ \A j \in DOMAIN worker' : worker'[j].gen # ui.gen
    <3> SUFFICES ASSUME NEW i \in DOMAIN posted', posted'[i].name = "begin", posted'[i].kind = "cal"
                 PROVE  /\ ui.run = "cal" /\ posted'[i].gen = ui.gen /\ ~P!Calibrating
                        /\ \A j \in DOMAIN posted' : posted'[j].name = "begin" => j <= i
                        /\ \A j \in DOMAIN worker' : worker'[j].gen # ui.gen
      OBVIOUS
    <3>1. /\ ui.run = "cal" /\ posted[i + 1].gen = ui.gen /\ ~P!Calibrating
          /\ \A j \in DOMAIN posted : posted[j].name = "begin" => j <= i + 1
          /\ \A j \in DOMAIN worker : worker[j].gen # ui.gen
      BY <1>1 DEF LevelInv, Calibration
    <3>2. \A j \in DOMAIN posted' : posted'[j].name = "begin" => j <= i
      BY <1>1, <3>1
    <3>3. Beginning'
      BY DEF Beginning
    <3> QED
      BY <1>1, <1>2, <3>1, <3>2, <3>3
  <2>5. \A i \in DOMAIN worker' : worker'[i].name = "calibrated" /\ worker'[i].gen = ui.gen =>
          ui.run = "cal" /\ ~Beginning' /\ ~P!Active'
    BY <1>1, <1>2, <1>4 DEF LevelInv, Calibration
  <2> QED
    BY <1>4, <2>1, <2>2, <2>3, <2>4, <2>5 DEF LevelInv, Calibration
<1>7. NotAbove'
  BY <1>2, <1>5 DEF LevelInv, NotAbove, Late, P!Level
<1>8. Remembered'
  <2>1. Kept => Kept'
    BY <1>2, <1>5 DEF Kept, P!Level
  <2> QED
    BY <1>2, <2>1 DEF LevelInv, Remembered
<1> QED
  BY <1>3, <1>6, <1>7, <1>8 DEF LevelInv

\* A begun transmission has the level MainWindow has set, a calibration its own.
LEMMA Begun ==
  ASSUME LevelInv, posted # <<>>, posted' = Tail(posted), Head(posted).name = "begin", ~P!Active,
         capture' = [kind |-> Head(posted).kind, gen |-> Head(posted).gen, latched |-> FALSE, highs |-> 0],
         mode' = TRUE, generation' = IF Head(posted).kind = "cal" THEN CalibrationStart ELSE generation,
         UNCHANGED <<screen, ui, io, worker, signals, heard>>
  PROVE  LevelInv'
<1> DEFINE c == Head(posted)
<1>1. /\ posted' \in Seq(Ordered) /\ c \in Ordered
      /\ \A i \in DOMAIN posted' : i + 1 \in DOMAIN posted /\ posted'[i] = posted[i + 1] /\ i \in Nat
      /\ Beginning' => Beginning
      /\ (\E i \in DOMAIN posted' : Sends(posted'[i])) => \E i \in DOMAIN posted : Sends(posted[i])
      /\ (\A j \in DOMAIN posted : posted[j].name = "begin" => j <= 1) => ~Beginning'
  BY OneLess DEF LevelInv, LevelTypes
<1>2. 1 \in DOMAIN posted /\ c = posted[1]
  BY Taking DEF LevelInv, LevelTypes
<1>3. ~screen /\ (c.kind = "cal" => ui.run = "cal" /\ c.gen = ui.gen /\ ~Beginning' /\ \A j \in DOMAIN worker : worker[j].gen # ui.gen)
  BY <1>1, <1>2 DEF LevelInv, Calibration, NotAbove
<1>4. c.kind \in P!Kinds /\ c.gen \in Nat /\ c.gen <= ui.gen
  BY <1>1, <1>2 DEF LevelInv, LevelOrder, Ordered
<1>5. capture' \in Guards /\ capture'.kind = c.kind /\ capture'.gen = c.gen /\ P!Active'
  BY <1>4 DEF Guards, P!Active, P!Kinds
<1>6. generation' \in P!Gain /\ (c.kind # "cal" => generation' = generation)
  BY Gains DEF LevelInv, LevelTypes
<1>7. Beginning
  BY <1>2 DEF Beginning
<1>8. LevelTypes' /\ LevelOrder'
  BY <1>1, <1>3, <1>4, <1>5, <1>6 DEF LevelInv, LevelTypes, LevelOrder
<1>9. OnTheAir' => OnTheAir /\ generation' = generation
  <2>1. CASE c.kind = "cal"
    BY <1>3, <1>5, <2>1 DEF OnTheAir, Beginning, Sends, P!Calibrating
  <2>2. CASE c.kind # "cal"
    BY <1>2, <1>6, <2>2 DEF OnTheAir, Sends
  <2> QED
    BY <2>1, <2>2
<1>10. Calibration'
  <2>1. ui.run = "cal" /\ c.gen = ui.gen => c.kind = "cal"
    BY <1>2 DEF LevelInv, Calibration
  <2>2. \A i \in DOMAIN posted' : posted'[i].gen = ui.gen /\ ui.run = "cal" => posted'[i].kind = "cal"
    BY <1>1 DEF LevelInv, Calibration
  <2>3. \A i \in DOMAIN posted' : posted'[i].name = "begin" /\ posted'[i].kind = "cal" =>
          /\ ui.run = "cal" /\ posted'[i].gen = ui.gen /\ c.kind # "cal"
          /\ \A j \in DOMAIN posted' : posted'[j].name = "begin" => j <= i
          /\ \A j \in DOMAIN worker : worker[j].gen # ui.gen
    <3> SUFFICES ASSUME NEW i \in DOMAIN posted', posted'[i].name = "begin", posted'[i].kind = "cal"
                 PROVE  /\ ui.run = "cal" /\ posted'[i].gen = ui.gen /\ c.kind # "cal"
                        /\ \A j \in DOMAIN posted' : posted'[j].name = "begin" => j <= i
                        /\ \A j \in DOMAIN worker : worker[j].gen # ui.gen
      OBVIOUS
    <3>1. /\ ui.run = "cal" /\ posted[i + 1].gen = ui.gen
          /\ \A j \in DOMAIN posted : posted[j].name = "begin" => j <= i + 1
          /\ \A j \in DOMAIN worker : worker[j].gen # ui.gen
      BY <1>1 DEF LevelInv, Calibration
    <3>2. \A j \in DOMAIN posted' : posted'[j].name = "begin" => j <= i
      BY <1>1, <3>1
    <3>3. Beginning'
      BY DEF Beginning
    <3> QED
      BY <1>1, <1>3, <3>1, <3>2, <3>3
  <2>4. \A i \in DOMAIN worker : worker[i].name = "calibrated" => worker[i].gen # ui.gen
    BY <1>7 DEF LevelInv, Calibration
  <2>5. P!Calibrating' <=> c.kind = "cal"
    BY <1>5 DEF P!Calibrating
  <2> HIDE DEF c
  <2> QED
    BY <1>3, <1>5, <2>1, <2>2, <2>3, <2>4, <2>5 DEF LevelInv, Calibration
<1>11. NotAbove'
  BY <1>3, <1>9 DEF LevelInv, NotAbove, Late, P!Level
<1>12. Remembered'
  BY <1>9 DEF LevelInv, Remembered, Kept, Late, P!Told, P!Level
<1> QED
  BY <1>8, <1>10, <1>11, <1>12 DEF LevelInv

LEMMA IoTakesKeeps == LevelInv /\ P!IoTakes => LevelInv'
<1> SUFFICES ASSUME LevelInv, P!IoTakes PROVE LevelInv'
  OBVIOUS
<1> DEFINE c == Head(posted)
<1>1. ~screen /\ posted # <<>> /\ posted' = Tail(posted) /\ UNCHANGED <<ui, io, signals, heard>>
  BY DEF P!IoTakes, P!history
<1>2. /\ c \in Ordered /\ \E i \in DOMAIN posted : posted[i] = c
      /\ c.name = "begin" /\ (\A j \in DOMAIN posted : posted[j].name = "begin" => j <= 1) => ~Beginning'
  BY <1>1, OneLess DEF LevelInv, LevelTypes
<1>3. /\ capture \in Guards /\ mode \in BOOLEAN /\ screen \in BOOLEAN /\ generation \in P!Gain /\ capture.latched \in BOOLEAN
  BY DEF LevelInv, LevelTypes, Guards
<1>4. CASE P!NoCall
  BY <1>1, <1>3, <1>4, CallDone DEF P!NoCall
<1>5. CASE c.name = "ack"
  <2>1. capture' = [capture EXCEPT !.latched = @ /\ P!Active] /\ UNCHANGED <<mode, generation, screen, worker>>
    BY <1>5 DEF P!IoTakes
  <2>2. capture' \in Guards /\ capture'.kind = capture.kind /\ capture'.gen = capture.gen
    BY <1>3, <2>1 DEF Guards, P!Active
  <2> QED
    BY <1>1, <1>3, <2>1, <2>2, CallDone
<1>6. CASE c.name = "begin" /\ P!Begin(c)
  <2>1. CASE ~P!Active /\ ~capture.latched
    <3>1. /\ capture' = [kind |-> c.kind, gen |-> c.gen, latched |-> FALSE, highs |-> 0]
          /\ mode' = TRUE /\ generation' = (IF c.kind = "cal" THEN CalibrationStart ELSE generation)
          /\ UNCHANGED <<screen, worker>>
      BY <1>6, <2>1 DEF P!Begin
    <3> QED
      BY <1>1, <1>6, <2>1, <3>1, Begun
  <2>2. CASE ~(~P!Active /\ ~capture.latched)
    <3> DEFINE s == [name |-> "ended", kind |-> c.kind, gen |-> c.gen, gain |-> generation]
    <3>1. worker' = Append(worker, s) /\ UNCHANGED <<capture, mode, generation, screen>>
      BY <1>6, <2>2 DEF P!Begin, P!Tell, P!Signal
    <3>2. s \in Reported /\ s.name = "ended" /\ s.kind = c.kind /\ s.gen = c.gen
      BY <1>2, <1>3 DEF Ordered, Reported
    <3>3. c.gen <= ui.gen
      BY <1>2 DEF LevelInv, LevelOrder
    <3>4. ui.run = "cal" /\ c.gen = ui.gen =>
            /\ c.kind = "cal" /\ ~P!Calibrating /\ ~Beginning' /\ \A j \in DOMAIN worker : worker[j].gen # ui.gen
      <4> SUFFICES ASSUME ui.run = "cal", c.gen = ui.gen
                   PROVE  c.kind = "cal" /\ ~P!Calibrating /\ ~Beginning' /\ \A j \in DOMAIN worker : worker[j].gen # ui.gen
        OBVIOUS
      <4>1. 1 \in DOMAIN posted /\ c = posted[1]
        BY <1>1, Taking DEF LevelInv, LevelTypes
      <4>2. c.kind = "cal"
        BY <4>1 DEF LevelInv, Calibration
      <4>3. /\ ~P!Calibrating /\ (\A j \in DOMAIN posted : posted[j].name = "begin" => j <= 1)
            /\ \A j \in DOMAIN worker : worker[j].gen # ui.gen
        BY <1>6, <4>1, <4>2 DEF LevelInv, Calibration
      <4> QED
        BY <1>2, <1>6, <4>2, <4>3
    <3>5. ~P!Calibrating' <=> ~P!Calibrating
      BY <3>1 DEF P!Calibrating
    <3> HIDE DEF s, c
    <3> QED
      BY <1>1, <1>3, <3>1, <3>2, <3>3, <3>4, <3>5, CallAnswered
  <2> QED
    BY <2>1, <2>2
<1>7. CASE c.name = "stop" /\ ~P!NoCall
  <2>1. P!Active /\ UNCHANGED generation
    BY <1>7 DEF P!IoTakes
  <2>2. CASE ~P!Calibrating
    <3>1. P!Rests(FALSE) /\ UNCHANGED worker
      BY <1>7, <2>2 DEF P!IoTakes
    <3>2. capture' = [capture EXCEPT !.kind = "no", !.latched = @ \/ FALSE] /\ mode' = FALSE /\ screen' = FALSE
      BY <3>1 DEF P!Rests
    <3>3. capture' \in Guards /\ capture'.kind = "no" /\ capture'.gen = capture.gen
      BY <1>3, <3>2 DEF Guards
    <3> QED
      BY <1>1, <2>1, <3>1, <3>2, <3>3, CallDone
  <2>3. CASE P!Calibrating
    <3> DEFINE s == [name |-> "ended", kind |-> capture.kind, gen |-> capture.gen, gain |-> generation]
    <3>1. P!Ends(FALSE, FALSE)
      BY <1>7, <2>3 DEF P!IoTakes
    <3>2. /\ capture' = [capture EXCEPT !.kind = "no", !.latched = @ \/ FALSE] /\ mode' = FALSE /\ screen' = FALSE
          /\ worker' = Append(worker, s)
      BY <3>1 DEF P!Ends, P!Rests, P!Tell, P!Signal
    <3>3. capture' \in Guards /\ capture'.kind = "no" /\ capture'.gen = capture.gen
      BY <1>3, <3>2 DEF Guards
    <3>4. s \in Reported /\ s.name = "ended" /\ s.kind = "cal" /\ s.gen = capture.gen
      BY <1>3, <2>3 DEF Reported, Guards, P!Calibrating, P!Kinds
    <3>5. ~P!Calibrating' /\ capture.gen <= ui.gen /\ ~Beginning /\ \A j \in DOMAIN worker : worker[j].gen # ui.gen
      BY <2>3, <3>3 DEF P!Calibrating, LevelInv, LevelOrder, Calibration
    <3>6. ~Beginning'
      BY <1>1, <3>5, OneLess DEF LevelInv, LevelTypes
    <3> HIDE DEF s
    <3> QED
      BY <1>1, <2>1, <3>2, <3>3, <3>4, <3>5, <3>6, CallAnswered
  <2> QED
    BY <2>2, <2>3
<1>8. c.name \in {"ack", "begin", "stop"}
  BY <1>2 DEF Ordered
<1> QED
  BY <1>4, <1>5, <1>6, <1>7, <1>8 DEF P!IoTakes

----------------------------------------------------------------------------
(* MainWindow and Ft8Transmitter. *)

\* MainWindow stops what it runs, or takes a signal that is no reduction: it keeps its
\* levels, and every reduction on its way.
LEMMA RunMoves ==
  ASSUME LevelInv, NEW d \in {0, 1},
         worker' \in Seq(Reported),
         \A i \in DOMAIN worker' : i + d \in DOMAIN worker /\ worker'[i] = worker[i + d] /\ i \in Nat,
         \A i \in DOMAIN worker : Reduction(worker[i]) => i - d \in DOMAIN worker' /\ worker'[i - d] = worker[i] /\ i \in Nat,
         posted' \in Seq(Ordered),
         \A i \in DOMAIN posted' :
           \/ i \in DOMAIN posted /\ posted'[i] = posted[i]
           \/ posted'[i].name = "stop" /\ posted'[i].gen = ui.gen /\ (ui.run = "cal" => posted'[i].kind = "cal"),
         ui' \in Runs, ui'.saved = ui.saved, ui'.reduced = ui.reduced,
         \/ ui' = ui
         \/ /\ ui'.run = "no" /\ ui'.gen >= ui.gen
            /\ ui.run = "cal" => /\ \E k \in DOMAIN worker : worker[k].gen = ui.gen
                                 /\ \A i \in DOMAIN worker' : worker'[i].gen # ui'.gen,
         mode' \in BOOLEAN, UNCHANGED <<capture, generation, screen, io, signals, heard>>
  PROVE  LevelInv'
<1>1. /\ ui \in Runs /\ ui.gen \in Nat /\ ui'.gen \in Nat /\ ui'.gen >= ui.gen /\ P!Level' = P!Level
      /\ capture.gen \in Nat /\ io \in Nat
  BY DEF LevelInv, LevelTypes, Runs, Guards, P!Level
<1>2. \A i \in DOMAIN posted : posted[i].gen \in Nat /\ posted[i].gen <= ui.gen
  <2> SUFFICES ASSUME NEW i \in DOMAIN posted PROVE posted[i].gen \in Nat /\ posted[i].gen <= ui.gen
    OBVIOUS
  <2>1. posted[i] \in Ordered
    BY DEF LevelInv, LevelTypes
  <2> QED
    BY <2>1 DEF LevelInv, LevelOrder, Ordered
<1>3. \A i \in DOMAIN worker : worker[i].gen \in Nat /\ worker[i].gen <= ui.gen
  <2> SUFFICES ASSUME NEW i \in DOMAIN worker PROVE worker[i].gen \in Nat /\ worker[i].gen <= ui.gen
    OBVIOUS
  <2>1. worker[i] \in Reported
    BY DEF LevelInv, LevelTypes
  <2> QED
    BY <2>1 DEF LevelInv, LevelOrder, Reported
<1>4. LevelTypes'
  BY DEF LevelInv, LevelTypes
<1>5. LevelOrder'
  <2>1. capture.gen <= ui'.gen /\ io <= ui'.gen
    BY <1>1 DEF LevelInv, LevelOrder
  <2>2. \A i \in DOMAIN posted' : posted'[i].gen <= ui'.gen
    BY <1>1, <1>2
  <2>3. \A i \in DOMAIN worker' : worker'[i].gen <= ui'.gen
    BY <1>1, <1>3
  <2> QED
    BY <2>1, <2>2, <2>3 DEF LevelOrder
<1>6. /\ \A i \in DOMAIN posted' : posted'[i].name = "begin" => i \in DOMAIN posted /\ posted'[i] = posted[i]
      /\ Beginning' => Beginning
      /\ OnTheAir' => OnTheAir
  BY DEF Beginning, OnTheAir, Sends, P!Active, P!Calibrating
<1>7. ASSUME ui' = ui PROVE Calibration'
  <2>1. ui.run = "cal" =>
          /\ \A i \in DOMAIN posted' : posted'[i].gen = ui.gen => posted'[i].kind = "cal"
          /\ \A i \in DOMAIN worker' : worker'[i].gen = ui.gen => worker'[i].kind = "cal" /\ worker'[i].name # "reduced"
    BY DEF LevelInv, Calibration
  <2>2. ASSUME ui.run = "cal"
        PROVE  \A i, j \in DOMAIN worker' : worker'[i].gen = ui.gen /\ worker'[j].gen = ui.gen => i = j
    <3>1. \A i, j \in DOMAIN worker : worker[i].gen = ui.gen /\ worker[j].gen = ui.gen => i = j
      BY <2>2 DEF LevelInv, Calibration
    <3> SUFFICES ASSUME NEW i \in DOMAIN worker', NEW j \in DOMAIN worker', worker'[i].gen = ui.gen, worker'[j].gen = ui.gen
                 PROVE  i = j
      OBVIOUS
    <3>2. i + d = j + d /\ i \in Nat /\ j \in Nat
      BY <3>1
    <3> QED
      BY <3>2
  <2>3. P!Calibrating => /\ ui.run = "cal" /\ capture.gen = ui.gen /\ ~Beginning'
                         /\ \A i \in DOMAIN worker' : worker'[i].gen # ui.gen
    BY <1>6 DEF LevelInv, Calibration
  <2>4. \A i \in DOMAIN posted' : posted'[i].name = "begin" /\ posted'[i].kind = "cal" =>
          /\ ui.run = "cal" /\ posted'[i].gen = ui.gen /\ ~P!Calibrating
          /\ \A j \in DOMAIN posted' : posted'[j].name = "begin" => j <= i
          /\ \A j \in DOMAIN worker' : worker'[j].gen # ui.gen
    BY <1>6 DEF LevelInv, Calibration
  <2>5. \A i \in DOMAIN worker' : worker'[i].name = "calibrated" /\ worker'[i].gen = ui.gen =>
          ui.run = "cal" /\ ~Beginning' /\ ~P!Active
    BY <1>6 DEF LevelInv, Calibration
  <2>6. Calibration'
    BY <1>7, <2>1, <2>2, <2>3, <2>4, <2>5 DEF LevelInv, Calibration, P!Active, P!Calibrating
  <2> QED
    BY <2>6
<1>8. ASSUME ui'.run = "no", ui' # ui PROVE Calibration'
  <2>1. ui.run = "cal" =>
          /\ ~P!Calibrating
          /\ \A i \in DOMAIN posted : ~(posted[i].name = "begin" /\ posted[i].kind = "cal")
          /\ \A i \in DOMAIN worker' : worker'[i].gen # ui'.gen
    BY <1>8 DEF LevelInv, Calibration
  <2>2. /\ ~P!Calibrating
        /\ \A i \in DOMAIN posted : ~(posted[i].name = "begin" /\ posted[i].kind = "cal")
    BY <2>1 DEF LevelInv, Calibration
  <2>3. \A i \in DOMAIN worker' : worker'[i].name = "calibrated" => worker'[i].gen # ui'.gen
    <3> SUFFICES ASSUME NEW i \in DOMAIN worker', worker'[i].name = "calibrated", worker'[i].gen = ui'.gen PROVE FALSE
      OBVIOUS
    <3>1. worker[i + d].gen = ui.gen
      BY <1>1, <1>3
    <3>2. ui.run = "cal"
      BY <3>1 DEF LevelInv, Calibration
    <3> QED
      BY <2>1, <3>2
  <2> QED
    BY <1>6, <1>8, <2>2, <2>3 DEF Calibration, Beginning, P!Active, P!Calibrating
<1>9. Calibration'
  BY <1>7, <1>8
<1>10. \A i \in DOMAIN worker : Late(worker[i]) =>
         worker[i].gen < ui'.gen \/ (worker[i].kind = "ft" /\ ui'.run # "ft")
  BY <1>1, <1>3 DEF Late
<1>11. NotAbove'
  <2>1. OnTheAir' =>
          \A i \in DOMAIN worker' : Reduction(worker'[i]) =>
            \/ worker'[i].gen < ui'.gen \/ (worker'[i].kind = "ft" /\ ui'.run # "ft")
            \/ generation <= worker'[i].gain
    BY <1>6, <1>10 DEF LevelInv, NotAbove
  <2> QED
    BY <1>1, <1>6, <2>1 DEF LevelInv, NotAbove, Late, P!Active
<1>12. Remembered'
  <2>1. CASE heard
    BY <2>1 DEF Remembered
  <2>2. CASE \E i \in DOMAIN worker : Late(worker[i])
    <3>1. PICK i \in DOMAIN worker : Late(worker[i])
      BY <2>2
    <3>2. i - d \in DOMAIN worker' /\ worker'[i - d] = worker[i] /\ Reduction(worker[i])
      BY <3>1 DEF Late
    <3>3. (\E k \in DOMAIN worker : Late(worker[k]))'
      BY <1>10, <3>1, <3>2 DEF Late
    <3> QED
      BY <3>3 DEF Remembered
  <2>3. CASE Kept
    <3>1. P!Told' => P!Told
      BY DEF P!Told, Reduction
    <3>2. ASSUME NEW i \in DOMAIN worker', Reduction(worker'[i]), \A j \in DOMAIN worker' : j > i => ~Reduction(worker'[j])
          PROVE  worker'[i].gain <= signals
      <4>1. i + d \in DOMAIN worker /\ worker'[i] = worker[i + d] /\ i \in Nat
        OBVIOUS
      <4>2. ASSUME NEW j \in DOMAIN worker, j > i + d, Reduction(worker[j]) PROVE FALSE
        <5>1. j - d \in DOMAIN worker' /\ worker'[j - d] = worker[j] /\ j \in Nat
          BY <4>2
        <5>2. j - d > i
          BY <4>1, <4>2, <5>1
        <5> QED
          BY <3>2, <4>2, <5>1, <5>2
      <4> QED
        BY <2>3, <3>2, <4>1, <4>2 DEF Kept
    <3> QED
      BY <1>1, <1>6, <2>3, <3>1, <3>2 DEF Remembered, Kept
  <2> QED
    BY <2>1, <2>2, <2>3 DEF LevelInv, Remembered
<1> QED
  BY <1>4, <1>5, <1>9, <1>11, <1>12 DEF LevelInv

\* A call behind the others, a signal less.
LEMMA OneMore ==
  ASSUME posted \in Seq(Ordered), NEW c \in Ordered, posted' = Append(posted, c)
  PROVE  /\ posted' \in Seq(Ordered)
         /\ \A i \in DOMAIN posted' : (i \in DOMAIN posted /\ posted'[i] = posted[i]) \/ (i = Len(posted) + 1 /\ posted'[i] = c)
         /\ \A i \in DOMAIN posted : i \in DOMAIN posted' /\ posted'[i] = posted[i] /\ i < Len(posted) + 1
         /\ Len(posted) + 1 \in DOMAIN posted' /\ posted'[Len(posted) + 1] = c
<1>1. Append(posted, c) \in Seq(Ordered)
  OBVIOUS
<1> QED
  BY <1>1, Posting

LEMMA SignalTaken ==
  ASSUME worker \in Seq(Reported), worker # <<>>, worker' = Tail(worker)
  PROVE  /\ worker' \in Seq(Reported) /\ 1 \in DOMAIN worker /\ Head(worker) = worker[1] /\ Head(worker) \in Reported
         /\ \A i \in DOMAIN worker' : i + 1 \in DOMAIN worker /\ worker'[i] = worker[i + 1] /\ i \in Nat /\ i > 0
         /\ \A i \in DOMAIN worker : i = 1 \/ (i - 1 \in DOMAIN worker' /\ worker'[i - 1] = worker[i])
         /\ \A i \in DOMAIN worker : i \in Nat
<1>1. Tail(worker) \in Seq(Reported) /\ DOMAIN worker = 1 .. Len(worker) /\ Len(worker) \in Nat /\ Head(worker) \in Reported
  OBVIOUS
<1> QED
  BY <1>1, Taking

LEMMA StopKeeps ==
  LevelInv /\ ((\E closes \in BOOLEAN : P!StopSstv(closes)) \/ P!CancelCalibration) => LevelInv'
<1> SUFFICES ASSUME LevelInv PROVE ((\E closes \in BOOLEAN : P!StopSstv(closes)) \/ P!CancelCalibration) => LevelInv'
  OBVIOUS
<1>1. /\ posted \in Seq(Ordered) /\ worker \in Seq(Reported) /\ ui \in Runs /\ ui.gen \in Nat /\ mode \in BOOLEAN
      /\ \A i \in DOMAIN worker : i + 0 = i /\ i - 0 = i /\ i \in Nat
  BY DEF LevelInv, LevelTypes, Runs
<1>2. ASSUME NEW closes \in BOOLEAN, P!StopSstv(closes) PROVE LevelInv'
  <2> DEFINE c == [name |-> "stop", kind |-> "sstv", gen |-> ui.gen]
  <2>1. /\ ui.run = "sstv" /\ ui' = [ui EXCEPT !.run = "no", !.gen = @ + 1] /\ posted' = Append(posted, c)
        /\ mode' = (mode /\ ~(closes /\ capture.gen = ui.gen))
        /\ UNCHANGED <<capture, generation, screen, io, worker, signals, heard>>
    BY <1>2 DEF P!StopSstv, P!EndsSstv, P!Call, P!history
  <2>2. c \in Ordered /\ c.name = "stop" /\ c.gen = ui.gen
    BY <1>1 DEF Ordered, P!Kinds
  <2>3. ui' \in Runs /\ ui'.run = "no" /\ ui'.gen >= ui.gen /\ ui'.saved = ui.saved /\ ui'.reduced = ui.reduced
    <3>1. ui' = [run |-> "no", gen |-> ui.gen + 1, saved |-> ui.saved, reduced |-> ui.reduced]
      BY <1>1, <2>1 DEF Runs
    <3>2. ui.saved \in Levels /\ ui.reduced \in Levels /\ ui.gen + 1 \in Nat
      BY <1>1 DEF Runs
    <3> QED
      BY <1>1, <3>1, <3>2 DEF Runs
  <2> HIDE DEF c
  <2>4. /\ posted' \in Seq(Ordered)
        /\ \A i \in DOMAIN posted' : (i \in DOMAIN posted /\ posted'[i] = posted[i]) \/ (i = Len(posted) + 1 /\ posted'[i] = c)
    BY <1>1, <2>1, <2>2, OneMore
  <2> QED
    BY <1>1, <2>1, <2>2, <2>3, <2>4, RunMoves
<1>3. CASE P!CancelCalibration
  <2> DEFINE c == [name |-> "stop", kind |-> "cal", gen |-> ui.gen]
  <2>1. /\ posted' = Append(posted, c) /\ mode' = (mode /\ capture.gen # ui.gen)
        /\ UNCHANGED <<ui, capture, generation, screen, io, worker, signals, heard>>
    BY <1>3 DEF P!CancelCalibration, P!Call, P!history
  <2>2. c \in Ordered /\ c.name = "stop" /\ c.gen = ui.gen /\ c.kind = "cal"
    BY <1>1 DEF Ordered, P!Kinds
  <2> HIDE DEF c
  <2>3. /\ posted' \in Seq(Ordered)
        /\ \A i \in DOMAIN posted' : (i \in DOMAIN posted /\ posted'[i] = posted[i]) \/ (i = Len(posted) + 1 /\ posted'[i] = c)
    BY <1>1, <2>1, <2>2, OneMore
  <2> QED
    BY <1>1, <2>1, <2>2, <2>3, RunMoves
<1> QED
  BY <1>2, <1>3

\* An FT8 slot is never the calibration MainWindow runs.
LEMMA FtKeeps == LevelInv /\ P!FtFinishes => LevelInv'
<1> SUFFICES ASSUME LevelInv, P!FtFinishes PROVE LevelInv'
  OBVIOUS
<1> DEFINE c == [name |-> "stop", kind |-> "ft", gen |-> io]
           s == [name |-> "ended", kind |-> "ft", gen |-> io, gain |-> 0]
<1>1. /\ io # 0 /\ io' = 0 /\ mode' = (mode /\ capture.gen # io)
      /\ posted' = Append(posted, c) /\ worker' = Append(worker, s)
      /\ UNCHANGED <<ui, capture, generation, screen, signals, heard>>
  BY DEF P!FtFinishes, P!Call, P!Signal, P!Tell, P!history
<1>2. /\ posted \in Seq(Ordered) /\ worker \in Seq(Reported) /\ io \in Nat /\ ui.gen \in Nat /\ io <= ui.gen /\ mode \in BOOLEAN
  BY DEF LevelInv, LevelTypes, LevelOrder, Runs
<1>3. /\ c \in Ordered /\ c.name = "stop" /\ c.gen = io
      /\ s \in Reported /\ s.name = "ended" /\ s.gen = io
      /\ ui.run = "cal" => io # ui.gen
  BY <1>2, Gains DEF Ordered, Reported, P!Kinds, LevelInv, Calibration
<1> HIDE DEF c, s
<1>4. /\ posted' \in Seq(Ordered)
      /\ \A i \in DOMAIN posted' : (i \in DOMAIN posted /\ posted'[i] = posted[i]) \/ (i = Len(posted) + 1 /\ posted'[i] = c)
      /\ \A i \in DOMAIN posted : i \in DOMAIN posted' /\ posted'[i] = posted[i]
  BY <1>1, <1>2, <1>3, OneMore
<1>5. /\ worker' \in Seq(Reported) /\ (P!Told' <=> P!Told)
      /\ \A i \in DOMAIN worker : i \in DOMAIN worker' /\ worker'[i] = worker[i]
      /\ \A i \in DOMAIN worker' : (i \in DOMAIN worker /\ worker'[i] = worker[i]) \/ (i = Len(worker) + 1 /\ worker'[i] = s)
      /\ \A i \in DOMAIN worker' : Reduction(worker'[i]) => i \in DOMAIN worker
      /\ (\E i \in DOMAIN worker : Late(worker[i])) => (\E i \in DOMAIN worker : Late(worker[i]))'
  BY <1>1, <1>3, Told DEF LevelInv
<1>6. LevelTypes'
  BY <1>1, <1>2, <1>4, <1>5 DEF LevelInv, LevelTypes
<1>7. LevelOrder'
  BY <1>1, <1>2, <1>3, <1>4, <1>5 DEF LevelInv, LevelOrder
<1>8. (Beginning' <=> Beginning) /\ (OnTheAir' => OnTheAir) /\ (P!Active' <=> P!Active) /\ (P!Calibrating' <=> P!Calibrating)
  BY <1>1, <1>3, <1>4 DEF Beginning, OnTheAir, Sends, P!Active, P!Calibrating
<1>9. Calibration'
  <2>1. ASSUME ui.run = "cal"
        PROVE  /\ io' # ui.gen
               /\ \A i \in DOMAIN posted' : posted'[i].gen = ui.gen => posted'[i].kind = "cal"
               /\ \A i \in DOMAIN worker' : worker'[i].gen = ui.gen => worker'[i].kind = "cal" /\ worker'[i].name # "reduced"
               /\ \A i, j \in DOMAIN worker' : worker'[i].gen = ui.gen /\ worker'[j].gen = ui.gen => i = j
    <3>1. io' # ui.gen
      BY <1>1, <1>2
    <3>2. \A i, j \in DOMAIN worker : worker[i].gen = ui.gen /\ worker[j].gen = ui.gen => i = j
      BY <2>1 DEF LevelInv, Calibration
    <3>3. \A i \in DOMAIN worker' : worker'[i].gen = ui.gen => i \in DOMAIN worker /\ worker'[i] = worker[i]
      BY <1>3, <1>5, <2>1
    <3>4. \A i, j \in DOMAIN worker' : worker'[i].gen = ui.gen /\ worker'[j].gen = ui.gen => i = j
      BY <3>2, <3>3
    <3> QED
      BY <1>3, <1>4, <2>1, <3>1, <3>3, <3>4 DEF LevelInv, Calibration
  <2>2. ui.run = "cal" => \A i \in DOMAIN worker' : worker'[i].gen = ui.gen => i \in DOMAIN worker /\ worker'[i] = worker[i]
    BY <1>3, <1>5
  <2>3. P!Calibrating => ui.run = "cal" /\ capture.gen = ui.gen /\ ~Beginning /\ \A i \in DOMAIN worker' : worker'[i].gen # ui.gen
    BY <2>2 DEF LevelInv, Calibration
  <2>4. \A i \in DOMAIN posted' : posted'[i].name = "begin" /\ posted'[i].kind = "cal" =>
          /\ ui.run = "cal" /\ posted'[i].gen = ui.gen /\ ~P!Calibrating
          /\ \A j \in DOMAIN posted' : posted'[j].name = "begin" => j <= i
          /\ \A j \in DOMAIN worker' : worker'[j].gen # ui.gen
    <3> SUFFICES ASSUME NEW i \in DOMAIN posted', posted'[i].name = "begin", posted'[i].kind = "cal"
                 PROVE  /\ ui.run = "cal" /\ posted'[i].gen = ui.gen /\ ~P!Calibrating
                        /\ \A j \in DOMAIN posted' : posted'[j].name = "begin" => j <= i
                        /\ \A j \in DOMAIN worker' : worker'[j].gen # ui.gen
      OBVIOUS
    <3>1. i \in DOMAIN posted /\ posted'[i] = posted[i]
      BY <1>3, <1>4
    <3>2. /\ ui.run = "cal" /\ posted[i].gen = ui.gen /\ ~P!Calibrating
          /\ \A j \in DOMAIN posted : posted[j].name = "begin" => j <= i
          /\ \A j \in DOMAIN worker : worker[j].gen # ui.gen
      BY <3>1 DEF LevelInv, Calibration
    <3>3. \A j \in DOMAIN posted' : posted'[j].name = "begin" => j <= i
      BY <1>3, <1>4, <3>2
    <3> QED
      BY <2>2, <3>1, <3>2, <3>3
  <2>5. \A i \in DOMAIN worker' : worker'[i].name = "calibrated" /\ worker'[i].gen = ui.gen =>
          ui.run = "cal" /\ ~Beginning /\ ~P!Active
    BY <1>3, <1>5 DEF LevelInv, Calibration
  <2>6. ui.run = "cal" => (capture.gen = ui.gen => ~(P!Active /\ ~P!Calibrating))
    BY DEF LevelInv, Calibration
  <2> QED
    BY <1>1, <1>8, <2>1, <2>3, <2>4, <2>5, <2>6 DEF Calibration
<1>10. NotAbove'
  BY <1>1, <1>5, <1>8 DEF LevelInv, NotAbove, Late, P!Level
<1>11. Remembered'
  <2>1. Kept => Kept'
    BY <1>1, <1>5, <1>8 DEF Kept, P!Level
  <2> QED
    BY <1>1, <1>5, <2>1 DEF LevelInv, Remembered
<1> QED
  BY <1>6, <1>7, <1>9, <1>10, <1>11 DEF LevelInv

\* A new generation makes every reduction on its way late.
LEMMA Starting ==
  ASSUME LevelInv, NEW kind \in P!Kinds, NEW ack \in BOOLEAN, P!Starts(kind, ack)
  PROVE  LevelInv'
<1> DEFINE a == [name |-> "ack", kind |-> kind, gen |-> ui.gen + 1]
           b == [name |-> "begin", kind |-> kind, gen |-> ui.gen + 1]
<1>1. /\ ui.run = "no" /\ (kind = "cal" \/ ui.saved # P!Unset)
      /\ ui' = [ui EXCEPT !.run = kind, !.gen = @ + 1]
      /\ generation' = IF kind = "cal" THEN generation ELSE P!Level
      /\ UNCHANGED <<capture, mode, screen, worker, signals, heard>>
  BY DEF P!Starts, P!history
<1>2. /\ posted \in Seq(Ordered) /\ worker \in Seq(Reported) /\ ui \in Runs /\ ui.gen \in Nat /\ io \in Nat
      /\ capture \in Guards /\ capture.gen \in Nat /\ generation \in P!Gain /\ generation \in Int
      /\ ui.saved \in Levels /\ ui.reduced \in Levels /\ io <= ui.gen /\ capture.gen <= ui.gen
  BY Gains DEF LevelInv, LevelTypes, LevelOrder, Runs, Guards
<1>3. ui' = [run |-> kind, gen |-> ui.gen + 1, saved |-> ui.saved, reduced |-> ui.reduced]
  BY <1>1, <1>2 DEF Runs
<1>4. /\ ui'.run = kind /\ ui'.gen = ui.gen + 1 /\ ui'.gen \in Nat /\ ui'.saved = ui.saved /\ ui'.reduced = ui.reduced
      /\ P!Level' = P!Level /\ ui' \in Runs
  <2>1. ui'.run = kind /\ ui'.gen = ui.gen + 1 /\ ui'.gen \in Nat /\ ui'.saved = ui.saved /\ ui'.reduced = ui.reduced
    BY <1>2, <1>3
  <2>2. ui.gen + 1 \in Nat /\ kind \in P!Kinds \cup {"no"}
    BY <1>2
  <2>3. ui' \in Runs
    BY <1>2, <1>3, <2>2 DEF Runs
  <2> QED
    BY <2>1, <2>3 DEF P!Level
<1>5. /\ io' = (IF kind = "ft" THEN ui.gen + 1 ELSE io)
      /\ posted' = posted \o (IF ack THEN <<a>> ELSE <<>>) \o <<b>>
  BY <1>3 DEF P!Starts, P!Call
<1>6. /\ a \in Ordered /\ b \in Ordered /\ a.name = "ack" /\ b.name = "begin" /\ a.kind = kind /\ b.kind = kind
      /\ a.gen = ui'.gen /\ b.gen = ui'.gen
  BY <1>2, <1>4 DEF Ordered
<1> HIDE DEF a, b
<1>7. PICK n \in Nat :
        /\ posted' \in Seq(Ordered) /\ n \in DOMAIN posted' /\ posted'[n] = b
        /\ \A i \in DOMAIN posted' : i <= n /\ ((i \in DOMAIN posted /\ posted'[i] = posted[i]) \/ posted'[i] = a \/ i = n)
        /\ \A i \in DOMAIN posted : i \in DOMAIN posted' /\ posted'[i] = posted[i] /\ i < n
  <2>1. CASE ~ack
    <3>1. posted' = Append(posted, b)
      BY <1>2, <1>5, <1>6, <2>1
    <3>2. Len(posted) + 1 \in Nat /\ \A i \in DOMAIN Append(posted, b) : i <= Len(posted) + 1
      BY <1>2, <1>6
    <3> QED
      BY <1>2, <1>6, <3>1, <3>2, OneMore
  <2>2. CASE ack
    <3> DEFINE q == Append(posted, a)
    <3>1. q \in Seq(Ordered) /\ Len(q) = Len(posted) + 1
      BY <1>2, <1>6
    <3>2. posted' = Append(q, b)
      <4>1. posted' = posted \o <<a>> \o <<b>>
        BY <1>5, <2>2
      <4>2. posted \o <<a>> = q
        BY <1>2, <1>6
      <4> HIDE DEF q
      <4>3. q \o <<b>> = Append(q, b)
        BY <1>6, <3>1
      <4> QED
        BY <4>1, <4>2, <4>3
    <3>3. /\ \A i \in DOMAIN q : (i \in DOMAIN posted /\ q[i] = posted[i]) \/ q[i] = a
          /\ \A i \in DOMAIN posted : i \in DOMAIN q /\ q[i] = posted[i]
      BY <1>2, <1>6, Posting
    <3> HIDE DEF q
    <3>4. Append(q, b) \in Seq(Ordered)
      BY <1>6, <3>1
    <3>5. /\ DOMAIN Append(q, b) = 1 .. Len(q) + 1 /\ Len(q) \in Nat
          /\ \A i \in DOMAIN q : i \in DOMAIN Append(q, b) /\ Append(q, b)[i] = q[i] /\ i < Len(q) + 1
          /\ Len(q) + 1 \in DOMAIN Append(q, b) /\ Append(q, b)[Len(q) + 1] = b
          /\ \A i \in DOMAIN Append(q, b) : i \in DOMAIN q \/ i = Len(q) + 1
      BY <1>6, <3>1, Posting
    <3>6. Len(q) + 1 \in Nat /\ \A i \in DOMAIN Append(q, b) : i <= Len(q) + 1
      BY <3>5
    <3> QED
      BY <3>2, <3>3, <3>4, <3>5, <3>6
  <2> QED
    BY <2>1, <2>2
<1>8. \A i \in DOMAIN posted : posted[i].gen \in Nat /\ posted[i].gen <= ui.gen /\ posted[i].gen < ui'.gen
  <2> SUFFICES ASSUME NEW i \in DOMAIN posted PROVE posted[i].gen \in Nat /\ posted[i].gen <= ui.gen
    BY <1>2, <1>4
  <2>1. posted[i] \in Ordered
    BY <1>2
  <2> QED
    BY <2>1 DEF LevelInv, LevelOrder, Ordered
<1>9. \A i \in DOMAIN worker : worker[i].gen \in Nat /\ worker[i].gen <= ui.gen /\ worker[i].gen < ui'.gen
  <2> SUFFICES ASSUME NEW i \in DOMAIN worker PROVE worker[i].gen \in Nat /\ worker[i].gen <= ui.gen
    BY <1>2, <1>4
  <2>1. worker[i] \in Reported
    BY <1>2
  <2> QED
    BY <2>1 DEF LevelInv, LevelOrder, Reported
<1>10. kind # "cal" => P!Level \in P!Gain /\ P!Level \in Int
  BY <1>1, <1>2, LevelIsLeast, Gains
<1>11. LevelTypes'
  <2>1. generation' \in P!Gain
    BY <1>1, <1>2, <1>10
  <2>2. io' \in Nat
    BY <1>2, <1>5
  <2> QED
    BY <1>1, <1>4, <1>7, <2>1, <2>2 DEF LevelInv, LevelTypes
<1>12. LevelOrder'
  <2>1. capture.gen <= ui'.gen /\ io' <= ui'.gen /\ ui'.gen <= ui'.gen
    BY <1>2, <1>4, <1>5
  <2>2. \A i \in DOMAIN posted' : posted'[i].gen <= ui'.gen
    <3> SUFFICES ASSUME NEW i \in DOMAIN posted' PROVE posted'[i].gen <= ui'.gen
      OBVIOUS
    <3>1. CASE i \in DOMAIN posted /\ posted'[i] = posted[i]
      <4>1. posted[i].gen \in Nat /\ posted[i].gen <= ui.gen
        BY <1>8, <3>1
      <4> QED
        BY <1>2, <1>4, <3>1, <4>1
    <3>2. CASE posted'[i] = a \/ posted'[i] = b
      BY <1>6, <2>1, <3>2
    <3> QED
      BY <1>7, <3>1, <3>2
  <2>3. \A i \in DOMAIN worker : worker[i].gen <= ui'.gen
    BY <1>9, <1>4
  <2> QED
    BY <1>1, <2>1, <2>2, <2>3 DEF LevelOrder
<1>13. ~P!Calibrating /\ ~P!Calibrating' /\ (P!Active' <=> P!Active)
       /\ \A i \in DOMAIN posted : ~(posted[i].name = "begin" /\ posted[i].kind = "cal")
  BY <1>1 DEF LevelInv, Calibration, P!Calibrating, P!Active
<1>14. Calibration'
  <2>1. kind = "cal" =>
          /\ io' # ui'.gen /\ capture.gen # ui'.gen
          /\ \A i \in DOMAIN posted' : posted'[i].gen = ui'.gen => posted'[i].kind = "cal"
    <3> SUFFICES ASSUME kind = "cal"
                 PROVE  /\ io' # ui'.gen /\ capture.gen # ui'.gen
                        /\ \A i \in DOMAIN posted' : posted'[i].gen = ui'.gen => posted'[i].kind = "cal"
      OBVIOUS
    <3>1. io' # ui'.gen /\ capture.gen # ui'.gen
      BY <1>2, <1>4, <1>5
    <3>2. \A i \in DOMAIN posted : posted[i].gen # ui'.gen
      BY <1>4, <1>8
    <3>3. \A i \in DOMAIN posted' : (i \in DOMAIN posted /\ posted'[i] = posted[i]) \/ posted'[i].kind = kind
      BY <1>6, <1>7
    <3> QED
      BY <3>1, <3>2, <3>3
  <2>2. \A i \in DOMAIN worker : worker[i].gen # ui'.gen
    BY <1>9, <1>4
  <2>3. \A i \in DOMAIN posted' : posted'[i].name = "begin" /\ posted'[i].kind = "cal" =>
          /\ kind = "cal" /\ posted'[i].gen = ui'.gen
          /\ \A j \in DOMAIN posted' : posted'[j].name = "begin" => j <= i
    BY <1>6, <1>7, <1>13
  <2> QED
    BY <1>1, <1>4, <1>13, <2>1, <2>2, <2>3 DEF Calibration
<1>15. \A i \in DOMAIN worker' : Reduction(worker'[i]) => worker'[i].gen < ui'.gen
  BY <1>1, <1>9
<1>16. OnTheAir' /\ kind = "cal" => OnTheAir
  BY <1>1, <1>6, <1>7 DEF OnTheAir, Sends, P!Active, P!Calibrating
<1>17. NotAbove'
  <2>1. OnTheAir' => ui.saved # P!Unset /\ generation' <= P!Level
    BY <1>1, <1>10, <1>16 DEF LevelInv, NotAbove
  <2>2. screen => P!Active /\ generation' > 0
    <3>1. screen => OnTheAir /\ generation > 0 /\ generation <= P!Level /\ P!Active
      BY <1>13 DEF LevelInv, NotAbove, OnTheAir
    <3> QED
      BY <1>1, <1>2, <1>10, <3>1
  <2> QED
    BY <1>1, <1>4, <1>13, <1>15, <2>1, <2>2 DEF NotAbove, Late
<1>18. Remembered'
  <2>1. CASE heard
    BY <1>1, <2>1 DEF Remembered
  <2>2. CASE ~P!Told
    BY <1>1, <1>15, <2>2 DEF Remembered, Late, P!Told, Reduction
  <2>3. CASE P!Told /\ Kept
    <3>1. P!Level <= signals /\ (OnTheAir => generation <= signals) /\ \A i \in DOMAIN worker : ~Reduction(worker[i])
      BY <2>3 DEF Kept, P!Told, Reduction
    <3>2. OnTheAir' => generation' <= signals
      BY <1>1, <1>16, <3>1
    <3> QED
      BY <1>1, <1>4, <3>1, <3>2 DEF Remembered, Kept
  <2> QED
    BY <2>1, <2>2, <2>3 DEF LevelInv, Remembered, P!Told, Late, Reduction
<1> QED
  BY <1>11, <1>12, <1>14, <1>17, <1>18 DEF LevelInv

\* A reduction is kept if it is of what MainWindow runs, and missed if not.
LEMMA ReducedTaken ==
  ASSUME LevelInv, worker # <<>>, worker' = Tail(worker), Head(worker).name = "reduced",
         ui' = IF P!Concerns(Head(worker)) THEN [ui EXCEPT !.reduced = Head(worker).gain] ELSE ui,
         heard' = (heard \/ ~P!Concerns(Head(worker))),
         UNCHANGED <<capture, mode, generation, screen, io, posted, signals>>
  PROVE  LevelInv'
<1> DEFINE s == Head(worker)
<1>1. worker \in Seq(Reported) /\ ui \in Runs /\ signals \in Int /\ generation \in P!Gain /\ generation \in Int
  BY Gains DEF LevelInv, LevelTypes
<1>2. /\ worker' \in Seq(Reported) /\ 1 \in DOMAIN worker /\ s = worker[1] /\ s \in Reported
      /\ \A i \in DOMAIN worker' : i + 1 \in DOMAIN worker /\ worker'[i] = worker[i + 1] /\ i \in Nat /\ i > 0
      /\ \A i \in DOMAIN worker : i = 1 \/ (i - 1 \in DOMAIN worker' /\ worker'[i - 1] = worker[i])
      /\ \A i \in DOMAIN worker : i \in Nat
  BY <1>1, SignalTaken
<1>3. s.gain \in P!Gain /\ s.gain \in Int /\ s.name = "reduced" /\ ui.saved \in Levels /\ ui.reduced \in Levels /\ ui.gen \in Nat
      /\ heard \in BOOLEAN
  BY <1>1, <1>2, Gains DEF Reported, Runs, LevelInv, LevelTypes
<1>4. ui' \in Runs /\ ui'.run = ui.run /\ ui'.gen = ui.gen /\ ui'.saved = ui.saved
      /\ ui'.reduced = (IF P!Concerns(s) THEN s.gain ELSE ui.reduced)
  <2>1. CASE P!Concerns(s)
    <3>1. ui' = [run |-> ui.run, gen |-> ui.gen, saved |-> ui.saved, reduced |-> s.gain]
      BY <1>1, <2>1 DEF Runs
    <3>2. ui.run \in P!Kinds \cup {"no"} /\ s.gain \in Levels
      BY <1>1, <1>3 DEF Runs, Levels
    <3> QED
      BY <1>3, <2>1, <3>1, <3>2 DEF Runs
  <2>2. CASE ~P!Concerns(s)
    BY <1>1, <2>2
  <2> QED
    BY <2>1, <2>2
<1>5. heard' = (heard \/ ~P!Concerns(s))
  OBVIOUS
<1> HIDE DEF s
<1>6. LevelTypes'
  BY <1>2, <1>3, <1>4, <1>5 DEF LevelInv, LevelTypes
<1>7. LevelOrder'
  BY <1>2, <1>4 DEF LevelInv, LevelOrder
<1>8. Calibration'
  <2>1. ASSUME ui.run = "cal"
        PROVE  \A i, j \in DOMAIN worker' : worker'[i].gen = ui.gen /\ worker'[j].gen = ui.gen => i = j
    <3>1. \A i, j \in DOMAIN worker : worker[i].gen = ui.gen /\ worker[j].gen = ui.gen => i = j
      BY <2>1 DEF LevelInv, Calibration
    <3> SUFFICES ASSUME NEW i \in DOMAIN worker', NEW j \in DOMAIN worker', worker'[i].gen = ui.gen, worker'[j].gen = ui.gen
                 PROVE  i = j
      OBVIOUS
    <3>2. i + 1 = j + 1 /\ i \in Nat /\ j \in Nat
      BY <1>2, <3>1
    <3> QED
      BY <3>2
  <2>2. ui.run = "cal" =>
          /\ io # ui.gen /\ (capture.gen = ui.gen => ~(P!Active /\ ~P!Calibrating))
          /\ \A i \in DOMAIN posted : posted[i].gen = ui.gen => posted[i].kind = "cal"
          /\ \A i \in DOMAIN worker' : worker'[i].gen = ui.gen => worker'[i].kind = "cal" /\ worker'[i].name # "reduced"
    BY <1>2 DEF LevelInv, Calibration
  <2>3. P!Calibrating => /\ ui.run = "cal" /\ capture.gen = ui.gen /\ ~Beginning
                         /\ \A i \in DOMAIN worker' : worker'[i].gen # ui.gen
    BY <1>2 DEF LevelInv, Calibration
  <2>4. \A i \in DOMAIN posted : posted[i].name = "begin" /\ posted[i].kind = "cal" =>
          /\ ui.run = "cal" /\ posted[i].gen = ui.gen /\ ~P!Calibrating
          /\ \A j \in DOMAIN posted : posted[j].name = "begin" => j <= i
          /\ \A j \in DOMAIN worker' : worker'[j].gen # ui.gen
    BY <1>2 DEF LevelInv, Calibration
  <2>5. \A i \in DOMAIN worker' : worker'[i].name = "calibrated" /\ worker'[i].gen = ui.gen =>
          ui.run = "cal" /\ ~Beginning /\ ~P!Active
    BY <1>2 DEF LevelInv, Calibration
  <2>6. (Beginning' <=> Beginning) /\ (P!Active' <=> P!Active) /\ (P!Calibrating' <=> P!Calibrating)
    BY DEF Beginning, P!Active, P!Calibrating
  <2> QED
    BY <1>4, <2>1, <2>2, <2>3, <2>4, <2>5, <2>6 DEF Calibration
<1>9. OnTheAir' <=> OnTheAir
  BY DEF OnTheAir, Sends, P!Active, P!Calibrating
<1>10. P!Concerns(s) <=> ~Late(s)
  <2>1. s.gen \in Nat /\ s.gen <= ui.gen
    BY <1>2 DEF Reported, LevelInv, LevelOrder
  <2> QED
    BY <1>3, <2>1 DEF P!Concerns, Late, Reduction
<1>11. ui.saved # P!Unset => P!Level \in P!Gain /\ P!Level <= ui.saved /\ ui.saved \in Int /\ P!Level \in Int
  BY <1>1, <1>3, LevelIsLeast, Gains
<1>12. ASSUME P!Concerns(s) PROVE P!Level' = P!Least(ui.saved, s.gain)
  <2>1. ui'.reduced # P!Unset
    BY <1>3, <1>4, <1>12, Gains
  <2> QED
    BY <1>4, <1>12, <2>1 DEF P!Level
<1>13. ~P!Concerns(s) => P!Level' = P!Level
  BY <1>4 DEF P!Level
<1>14. NotAbove'
  <2>1. ASSUME OnTheAir
        PROVE  /\ ui.saved # P!Unset /\ generation <= P!Level'
               /\ \A i \in DOMAIN worker' : Reduction(worker'[i]) =>
                    \/ worker'[i].gen < ui'.gen \/ (worker'[i].kind = "ft" /\ ui'.run # "ft")
                    \/ generation <= worker'[i].gain
    <3>1. /\ ui.saved # P!Unset /\ generation <= P!Level
          /\ \A i \in DOMAIN worker : Reduction(worker[i]) => Late(worker[i]) \/ generation <= worker[i].gain
      BY <2>1 DEF LevelInv, NotAbove
    <3>2. P!Concerns(s) => generation <= s.gain
      BY <1>2, <1>3, <1>10, <3>1 DEF Reduction
    <3>3. generation <= P!Level'
      BY <1>1, <1>3, <1>11, <1>12, <1>13, <3>1, <3>2 DEF P!Least
    <3> QED
      BY <1>2, <1>4, <3>1, <3>3 DEF Late
  <2> QED
    BY <1>4, <1>9, <2>1 DEF LevelInv, NotAbove, Late, P!Active
<1>15. Remembered'
  <2>1. CASE heard \/ ~P!Concerns(s)
    BY <1>5, <2>1 DEF Remembered
  <2>2. CASE P!Concerns(s) /\ \E i \in DOMAIN worker : Late(worker[i])
    <3>1. PICK i \in DOMAIN worker : Late(worker[i])
      BY <2>2
    <3>2. i - 1 \in DOMAIN worker' /\ worker'[i - 1] = worker[i]
      BY <1>2, <1>10, <2>2, <3>1
    <3>3. (\E k \in DOMAIN worker : Late(worker[k]))'
      BY <1>4, <3>1, <3>2 DEF Late
    <3> QED
      BY <3>3 DEF Remembered
  <2>3. CASE P!Concerns(s) /\ Kept
    <3>1. ASSUME NEW i \in DOMAIN worker', Reduction(worker'[i]), \A j \in DOMAIN worker' : j > i => ~Reduction(worker'[j])
          PROVE  worker'[i].gain <= signals
      <4>1. i + 1 \in DOMAIN worker /\ worker'[i] = worker[i + 1] /\ i \in Nat /\ i > 0
        BY <1>2
      <4>2. ASSUME NEW j \in DOMAIN worker, j > i + 1, Reduction(worker[j]) PROVE FALSE
        <5>1. j - 1 \in DOMAIN worker' /\ worker'[j - 1] = worker[j] /\ j \in Nat
          BY <1>2, <4>1, <4>2
        <5>2. j - 1 > i
          BY <4>1, <4>2, <5>1
        <5> QED
          BY <3>1, <4>2, <5>1, <5>2
      <4> QED
        BY <2>3, <3>1, <4>1, <4>2 DEF Kept
    <3>2. ASSUME P!Told' PROVE P!Level' <= signals
      <4>1. \A j \in DOMAIN worker : j > 1 => ~Reduction(worker[j])
        <5> SUFFICES ASSUME NEW j \in DOMAIN worker, j > 1, Reduction(worker[j]) PROVE FALSE
          OBVIOUS
        <5>1. j # 1
          OBVIOUS
        <5>2. j - 1 \in DOMAIN worker' /\ worker'[j - 1] = worker[j]
          BY <1>2, <5>1
        <5>3. worker'[j - 1].name = "reduced"
          BY <5>2 DEF Reduction
        <5> QED
          BY <3>2, <5>2, <5>3 DEF P!Told
      <4>2. s.gain <= signals
        BY <1>2, <1>3, <2>3, <4>1 DEF Kept, Reduction
      <4>3. P!Level' = P!Least(ui.saved, s.gain) /\ ui.saved \in Int
        BY <1>3, <1>12, <2>3, Gains
      <4> QED
        BY <1>1, <1>3, <4>2, <4>3 DEF P!Least
    <3> QED
      BY <1>9, <2>3, <3>1, <3>2 DEF Remembered, Kept
  <2> QED
    BY <2>1, <2>2, <2>3 DEF LevelInv, Remembered
<1> QED
  BY <1>6, <1>7, <1>8, <1>14, <1>15 DEF LevelInv

\* The end of a calibration sets the level from which reductions count.
LEMMA CalibratedTaken ==
  ASSUME LevelInv, worker # <<>>, worker' = Tail(worker), Head(worker).name = "calibrated", Head(worker).gen = ui.gen,
         ui' = [ui EXCEPT !.run = "no", !.saved = Head(worker).gain, !.reduced = Head(worker).gain],
         signals' = Head(worker).gain, heard' = FALSE,
         UNCHANGED <<capture, mode, generation, screen, io, posted>>
  PROVE  LevelInv'
<1> DEFINE s == Head(worker)
<1>1. worker \in Seq(Reported) /\ ui \in Runs /\ ui.gen \in Nat
  BY DEF LevelInv, LevelTypes, Runs
<1>2. /\ worker' \in Seq(Reported) /\ 1 \in DOMAIN worker /\ s = worker[1] /\ s \in Reported
      /\ \A i \in DOMAIN worker' : i + 1 \in DOMAIN worker /\ worker'[i] = worker[i + 1] /\ i \in Nat /\ i > 0
  BY <1>1, SignalTaken
<1>3. s.gain \in P!Gain /\ s.gain \in Int /\ s.gain # P!Unset
  BY <1>2, Gains DEF Reported
<1>4. /\ ui' = [run |-> "no", gen |-> ui.gen, saved |-> s.gain, reduced |-> s.gain]
      /\ signals' = s.gain
  BY <1>1 DEF Runs
<1>5. ui' \in Runs /\ ui'.run = "no" /\ ui'.gen = ui.gen /\ P!Level' = s.gain
  <2>1. ui' \in Runs
    BY <1>1, <1>3, <1>4 DEF Runs, Levels
  <2>2. ui'.saved = s.gain /\ ui'.reduced = s.gain /\ ui'.run = "no" /\ ui'.gen = ui.gen
    BY <1>4
  <2> QED
    BY <1>3, <2>1, <2>2 DEF P!Level, P!Least
<1>6. /\ ui.run = "cal" /\ ~Beginning /\ ~P!Active
      /\ \A i, j \in DOMAIN worker : worker[i].gen = ui.gen /\ worker[j].gen = ui.gen => i = j
  BY <1>2 DEF LevelInv, Calibration
<1>7. \A i \in DOMAIN worker' : worker'[i].gen \in Nat /\ worker'[i].gen < ui.gen
  <2> SUFFICES ASSUME NEW i \in DOMAIN worker' PROVE worker'[i].gen \in Nat /\ worker'[i].gen < ui.gen
    OBVIOUS
  <2>1. i + 1 \in DOMAIN worker /\ worker'[i] = worker[i + 1] /\ i + 1 # 1
    BY <1>2
  <2>2. worker[i + 1].gen # ui.gen
    BY <1>2, <1>6, <2>1
  <2>3. worker[i + 1].gen <= ui.gen /\ worker[i + 1] \in Reported
    BY <1>1, <2>1 DEF LevelInv, LevelOrder
  <2> QED
    BY <1>1, <2>1, <2>2, <2>3 DEF Reported
<1>8. LevelTypes' /\ LevelOrder'
  BY <1>1, <1>2, <1>3, <1>4, <1>5 DEF LevelInv, LevelTypes, LevelOrder
<1>9. ~Beginning' /\ ~P!Active' /\ ~P!Calibrating' /\ ~OnTheAir' /\ ~screen'
  <2>1. ~Beginning /\ ~P!Active /\ ~P!Calibrating /\ ~screen
    BY <1>6 DEF P!Active, P!Calibrating, LevelInv, NotAbove
  <2>2. ~OnTheAir
    BY <2>1 DEF OnTheAir, Beginning, Sends
  <2> QED
    BY <2>1, <2>2 DEF OnTheAir, Beginning, Sends, P!Active, P!Calibrating
<1>10. Calibration'
  BY <1>1, <1>5, <1>7, <1>9 DEF Calibration, Beginning
<1>11. NotAbove'
  BY <1>9 DEF NotAbove
<1>12. Remembered'
  <2>1. CASE \E i \in DOMAIN worker' : Reduction(worker'[i])
    BY <1>5, <1>7, <2>1 DEF Remembered, Late
  <2>2. CASE ~\E i \in DOMAIN worker' : Reduction(worker'[i])
    BY <1>3, <1>4, <1>5, <1>9, <2>2 DEF Remembered, Kept
  <2> QED
    BY <2>1, <2>2
<1> QED
  BY <1>8, <1>10, <1>11, <1>12 DEF LevelInv

LEMMA UiTakesKeeps == LevelInv /\ P!UiTakes => LevelInv'
<1> SUFFICES ASSUME LevelInv, P!UiTakes PROVE LevelInv'
  OBVIOUS
<1> DEFINE s == Head(worker)
<1>1. worker # <<>> /\ worker' = Tail(worker) /\ UNCHANGED <<capture, generation, screen, io>>
  BY DEF P!UiTakes
<1>2. worker \in Seq(Reported) /\ posted \in Seq(Ordered) /\ ui \in Runs /\ ui.gen \in Nat /\ mode \in BOOLEAN
  BY DEF LevelInv, LevelTypes, Runs
<1>3. /\ worker' \in Seq(Reported) /\ 1 \in DOMAIN worker /\ s = worker[1] /\ s \in Reported
      /\ \A i \in DOMAIN worker' : i + 1 \in DOMAIN worker /\ worker'[i] = worker[i + 1] /\ i \in Nat /\ i > 0
      /\ \A i \in DOMAIN worker : i = 1 \/ (i - 1 \in DOMAIN worker' /\ worker'[i - 1] = worker[i])
      /\ \A i \in DOMAIN worker : i \in Nat
  BY <1>1, <1>2, SignalTaken
<1>4. CASE s.name = "reduced"
  <2>1. /\ ui' = IF P!Concerns(s) THEN [ui EXCEPT !.reduced = s.gain] ELSE ui
        /\ heard' = (heard \/ ~P!Concerns(s)) /\ UNCHANGED <<mode, posted, signals>>
    BY <1>4 DEF P!UiTakes
  <2> QED
    BY <1>1, <1>4, <2>1, ReducedTaken
<1>5. ASSUME s.name # "reduced"
      PROVE  /\ \A i \in DOMAIN worker : Reduction(worker[i]) => i - 1 \in DOMAIN worker' /\ worker'[i - 1] = worker[i] /\ i \in Nat
             /\ ui.run = "cal" /\ s.gen = ui.gen =>
                  /\ \E k \in DOMAIN worker : worker[k].gen = ui.gen
                  /\ \A i \in DOMAIN worker' : worker'[i].gen # ui.gen
  <2>1. \A i \in DOMAIN worker : Reduction(worker[i]) => i - 1 \in DOMAIN worker' /\ worker'[i - 1] = worker[i] /\ i \in Nat
    BY <1>3, <1>5 DEF Reduction
  <2>2. ASSUME ui.run = "cal", s.gen = ui.gen PROVE \A i \in DOMAIN worker' : worker'[i].gen # ui.gen
    <3>1. \A i, j \in DOMAIN worker : worker[i].gen = ui.gen /\ worker[j].gen = ui.gen => i = j
      BY <2>2 DEF LevelInv, Calibration
    <3> SUFFICES ASSUME NEW i \in DOMAIN worker', worker'[i].gen = ui.gen PROVE FALSE
      OBVIOUS
    <3>2. i + 1 = 1 /\ i \in Nat /\ i > 0
      BY <1>3, <2>2, <3>1
    <3> QED
      BY <3>2
  <2> QED
    BY <1>3, <2>1, <2>2
<1>6. CASE UNCHANGED <<ui, mode, posted, signals, heard>> /\ s.name # "reduced"
  BY <1>1, <1>2, <1>3, <1>5, <1>6, RunMoves
<1>7. ASSUME ui' = [ui EXCEPT !.run = "no"], s.gen = ui.gen, s.name # "reduced", UNCHANGED <<mode, posted, signals, heard>>
      PROVE  LevelInv'
  <2>1. ui' = [run |-> "no", gen |-> ui.gen, saved |-> ui.saved, reduced |-> ui.reduced]
    BY <1>2, <1>7 DEF Runs
  <2>2. ui.saved \in Levels /\ ui.reduced \in Levels
    BY <1>2 DEF Runs
  <2>3. ui' \in Runs /\ ui'.run = "no" /\ ui'.gen = ui.gen /\ ui'.gen >= ui.gen /\ ui'.saved = ui.saved /\ ui'.reduced = ui.reduced
    BY <1>2, <2>1, <2>2 DEF Runs
  <2> QED
    BY <1>1, <1>2, <1>3, <1>5, <1>7, <2>3, RunMoves
<1>8. CASE s.name = "calibrated" /\ P!Concerns(s)
  <2>1. UNCHANGED <<mode, posted>> /\ s.gen = ui.gen
    BY <1>8 DEF P!UiTakes, P!Concerns
  <2>2. PICK saves \in BOOLEAN :
          /\ ui' = IF saves THEN [ui EXCEPT !.run = "no", !.saved = s.gain, !.reduced = s.gain] ELSE [ui EXCEPT !.run = "no"]
          /\ signals' = (IF saves THEN s.gain ELSE signals)
          /\ heard' = (heard /\ ~saves)
    BY <1>8 DEF P!UiTakes
  <2>3. CASE saves
    BY <1>1, <1>8, <2>1, <2>2, <2>3, CalibratedTaken
  <2>4. CASE ~saves
    <3>1. heard' = heard
      BY <2>2, <2>4 DEF LevelInv, LevelTypes
    <3> QED
      BY <1>7, <1>8, <2>1, <2>2, <2>4, <3>1
  <2> QED
    BY <2>3, <2>4
<1>9. CASE s.name = "ended" /\ P!Concerns(s)
  <2>1. s.gen = ui.gen
    BY <1>9 DEF P!Concerns
  <2>2. CASE s.kind = "sstv" /\ ui.run = "sstv"
    <3> DEFINE c == [name |-> "stop", kind |-> "sstv", gen |-> ui.gen]
    <3>1. P!EndsSstv(TRUE) /\ UNCHANGED <<signals, heard>>
      BY <1>9, <2>2 DEF P!UiTakes, P!history
    <3>2. /\ ui' = [ui EXCEPT !.run = "no", !.gen = @ + 1] /\ posted' = Append(posted, c)
          /\ mode' = (mode /\ ~(TRUE /\ capture.gen = ui.gen))
      BY <3>1 DEF P!EndsSstv, P!Call
    <3>3. c \in Ordered /\ c.name = "stop" /\ c.gen = ui.gen
      BY <1>2 DEF Ordered, P!Kinds
    <3>4. ui' = [run |-> "no", gen |-> ui.gen + 1, saved |-> ui.saved, reduced |-> ui.reduced]
      BY <1>2, <3>2 DEF Runs
    <3>5. ui.saved \in Levels /\ ui.reduced \in Levels /\ ui.gen + 1 \in Nat
      BY <1>2 DEF Runs
    <3>6. ui' \in Runs /\ ui'.run = "no" /\ ui'.gen >= ui.gen /\ ui'.saved = ui.saved /\ ui'.reduced = ui.reduced
      BY <1>2, <3>4, <3>5 DEF Runs
    <3> HIDE DEF c, s
    <3>7. /\ posted' \in Seq(Ordered)
          /\ \A i \in DOMAIN posted' : (i \in DOMAIN posted /\ posted'[i] = posted[i]) \/ (i = Len(posted) + 1 /\ posted'[i] = c)
      BY <1>2, <3>2, <3>3, OneMore
    <3>8. mode' \in BOOLEAN /\ ui.run # "cal" /\ s.name # "reduced"
      BY <1>2, <1>9, <2>2, <3>2
    <3> QED
      BY <1>1, <1>2, <1>3, <1>5, <3>1, <3>3, <3>6, <3>7, <3>8, RunMoves
  <2>3. CASE ~(s.kind = "sstv" /\ ui.run = "sstv")
    <3>1. ui' = [ui EXCEPT !.run = "no"] /\ UNCHANGED <<mode, posted, signals, heard>>
      BY <1>9, <2>3 DEF P!UiTakes, P!history
    <3> QED
      BY <1>7, <1>9, <2>1, <3>1
  <2> QED
    BY <2>2, <2>3
<1>10. CASE s.name \in {"calibrated", "ended"} /\ ~P!Concerns(s)
  <2>1. UNCHANGED <<ui, mode, posted, signals, heard>>
    BY <1>10 DEF P!UiTakes, P!history
  <2> QED
    BY <1>6, <1>10, <2>1
<1>11. s.name \in {"calibrated", "ended", "reduced"}
  BY <1>3 DEF Reported
<1> QED
  BY <1>4, <1>8, <1>9, <1>10, <1>11

----------------------------------------------------------------------------
(* The readings of a calibration, and those that come too late. *)

\* While it calibrates, the readings counted as stable are no older than the last change
\* or the last reading that was not good; one that asks for a reduction ends them.
Stabilized ==
  /\ {"meter", "stable"} \subseteq DOMAIN pending
  /\ pending.stable \in Int /\ pending.meter \in Nat /\ pending.meter <= PolicyTimes.cap.meter
  /\ taking \in Nat
  /\ P!Calibrating /\ pending.stable # P!Unset => taking >= pending.stable \/ taking >= PolicyTimes.stable
  /\ P!Calibrating /\ screen => pending.stable = P!Unset

Strictly == P!Proven /\ P!NotRevived

LEMMA NeverTyped ==
  /\ {"meter", "stable"} \subseteq DOMAIN P!Never /\ P!Never.stable = P!Unset /\ P!Never.meter = 0
  /\ P!Unset \in Int /\ 0 <= PolicyTimes.cap.meter
BY PolicyBounds DEF P!Never, P!Unset

\* No signal is new but one that says no level.
LEMMA NothingNew ==
  ASSUME LevelTypes, \/ worker' = worker \/ (worker # <<>> /\ worker' = Tail(worker))
                     \/ \E s \in Reported : s.name # "calibrated" /\ worker' = Append(worker, s)
  PROVE  P!Proven
<1>1. worker \in Seq(Reported) /\ Len(worker) \in Nat /\ DOMAIN worker = 1 .. Len(worker)
  BY DEF LevelTypes
<1>2. CASE worker' = worker
  BY <1>1, <1>2 DEF P!Proven
<1>3. CASE worker # <<>> /\ worker' = Tail(worker)
  <2>1. \A i \in DOMAIN Tail(worker) : i + 1 \in DOMAIN worker /\ i \in Nat
    BY <1>1, <1>3, Taking
  <2>2. \A i \in DOMAIN Tail(worker) : ~(i > Len(worker))
    BY <1>1, <2>1
  <2> QED
    BY <1>3, <2>2 DEF P!Proven
<1>4. CASE \E s \in Reported : s.name # "calibrated" /\ worker' = Append(worker, s)
  <2>1. PICK s \in Reported : s.name # "calibrated" /\ worker' = Append(worker, s)
    BY <1>4
  <2>2. /\ \A i \in DOMAIN Append(worker, s) : i \in DOMAIN worker \/ i = Len(worker) + 1
        /\ Append(worker, s)[Len(worker) + 1] = s
    BY <1>1, Posting
  <2>3. \A i \in DOMAIN worker' : ~(i > Len(worker)) \/ worker'[i] = s
    <3> SUFFICES ASSUME NEW i \in DOMAIN Append(worker, s) PROVE ~(i > Len(worker)) \/ Append(worker, s)[i] = s
      BY <2>1
    <3>1. CASE i \in DOMAIN worker
      BY <1>1, <3>1
    <3>2. CASE i = Len(worker) + 1
      BY <2>2, <3>2
    <3> QED
      BY <2>2, <3>1, <3>2
  <2> QED
    BY <2>1, <2>3 DEF P!Proven
<1> QED
  BY <1>2, <1>3, <1>4

\* The guard's ages do not change, or it stops.
LEMMA NoAge ==
  ASSUME Stabilized, UNCHANGED <<pending, capture, taking, screen>>
  PROVE  Stabilized' /\ P!NotRevived
<1>1. pending'.meter = pending.meter /\ pending.meter \in Int
  BY DEF Stabilized
<1>2. P!NotRevived
  BY <1>1 DEF P!NotRevived
<1> QED
  BY <1>2 DEF Stabilized, P!Calibrating

LEMMA RestsKeeps ==
  ASSUME LevelTypes, Stabilized, NEW latched, P!Rests(latched), taking' \in Nat
  PROVE  Stabilized' /\ P!NotRevived
<1>1. capture' = [capture EXCEPT !.kind = "no", !.latched = @ \/ latched] /\ pending' = P!Never
  BY DEF P!Rests
<1>2. ~P!Active' /\ ~P!Calibrating'
  BY <1>1 DEF LevelTypes, Guards, P!Active, P!Calibrating
<1> QED
  BY <1>1, <1>2, NeverTyped DEF Stabilized, P!NotRevived

LEMMA EndsStrictly ==
  ASSUME LevelTypes, Stabilized, P!Active, NEW latched, NEW ok \in BOOLEAN, P!Ends(latched, ok), taking' \in Nat,
         ok => taking >= PolicyTimes.stable
  PROVE  Stabilized' /\ Strictly
<1> DEFINE s == [name |-> IF ok THEN "calibrated" ELSE "ended", kind |-> capture.kind, gen |-> capture.gen, gain |-> generation]
<1>1. P!Rests(latched) /\ worker' = Append(worker, s)
  BY DEF P!Ends, P!Tell, P!Signal
<1>2. capture.kind \in P!Kinds /\ capture.gen \in Nat /\ generation \in P!Gain
  BY DEF LevelTypes, Guards, P!Active
<1>3. s \in Reported /\ (~ok => s.name # "calibrated")
  BY <1>2 DEF Reported
<1> HIDE DEF s
<1>4. P!Proven
  <2>1. CASE ok
    BY <2>1 DEF P!Proven
  <2>2. CASE ~ok
    BY <1>1, <1>3, <2>2, NothingNew
  <2> QED
    BY <2>1, <2>2
<1> QED
  BY <1>1, <1>4, RestsKeeps DEF Strictly

\* A reading that counts, or a reduction: the age of the last reading is new only if it was young enough.
LEMMA ReadingKeeps ==
  ASSUME LevelTypes, Stabilized, pending.meter < PolicyTimes.meter, {"meter", "stable"} \subseteq DOMAIN pending',
         pending'.meter = 0, pending'.stable \in {P!Unset, 0, pending.stable}, taking' \in Nat,
         capture'.kind = capture.kind, UNCHANGED worker,
         P!Calibrating /\ pending'.stable = pending.stable /\ pending.stable # P!Unset => taking' = taking,
         P!Calibrating /\ screen' => pending'.stable = P!Unset
  PROVE  Stabilized' /\ Strictly
<1>1. P!Proven
  BY NothingNew
<1>2. P!NotRevived
  BY DEF P!NotRevived
<1>3. P!Calibrating' <=> P!Calibrating
  BY DEF P!Calibrating
<1>4. pending'.stable \in Int /\ pending'.meter \in Nat /\ pending'.meter <= PolicyTimes.cap.meter
  BY NeverTyped DEF Stabilized
<1>5. ASSUME P!Calibrating, pending'.stable # P!Unset PROVE taking' >= pending'.stable \/ taking' >= PolicyTimes.stable
  BY <1>5 DEF Stabilized
<1> QED
  BY <1>1, <1>2, <1>3, <1>4, <1>5 DEF Stabilized, Strictly

LEMMA MeterStrictly ==
  ASSUME LevelInv, Stabilized, NEW r \in P!Readings, P!Meter(r)
  PROVE  Stabilized' /\ Strictly
<1>1. /\ LevelTypes /\ P!Active /\ ~screen /\ capture \in Guards /\ taking \in Nat
      /\ taking' = (IF r = "good" THEN taking ELSE 0) /\ taking' \in Nat
      /\ pending.stable \in Int /\ pending.meter \in Nat
      /\ {"meter", "stable"} \subseteq DOMAIN pending /\ P!Unset \in Int
  BY NeverTyped DEF P!Meter, LevelInv, LevelTypes, Stabilized
<1>2. ASSUME P!Trips PROVE Stabilized' /\ Strictly
  BY <1>1, <1>2, EndsStrictly DEF P!Trips
<1>3. ASSUME ~P!Trips PROVE pending.meter < PolicyTimes.meter
  <2>1. ~P!Expired
    BY <1>3 DEF P!Meter
  <2>2. ~(pending.meter >= PolicyTimes.meter)
    BY <2>1 DEF P!Expired
  <2> QED
    BY <1>1, <2>2, PolicyBounds
<1>4. /\ P!Calm.meter = 0 /\ P!Calm.stable = pending.stable /\ {"meter", "stable"} \subseteq DOMAIN P!Calm
      /\ \A v : [P!Calm EXCEPT !.stable = v].stable = v /\ [P!Calm EXCEPT !.stable = v].meter = 0
                /\ {"meter", "stable"} \subseteq DOMAIN [P!Calm EXCEPT !.stable = v]
  BY <1>1 DEF P!Calm
<1>5. P!Forgets => capture'.kind = capture.kind /\ UNCHANGED <<screen, worker>>
  BY <1>1 DEF P!Forgets, Guards
<1>6. ASSUME pending' = [P!Calm EXCEPT !.stable = P!Unset], P!Forgets, ~P!Trips PROVE Stabilized' /\ Strictly
  <2>1. pending'.stable = P!Unset /\ pending'.meter = 0 /\ {"meter", "stable"} \subseteq DOMAIN pending'
    BY <1>4, <1>6
  <2> QED
    BY <1>1, <1>3, <1>5, <1>6, <2>1, ReadingKeeps
<1>7. CASE P!Provisional /\ ~P!Trips
  BY <1>6, <1>7 DEF P!Provisional
<1>8. CASE r = "low" /\ P!Low /\ ~P!Trips
  <2>1. CASE ~P!Calibrating \/ pending.audio > PolicyTimes.pause
    BY <1>6, <1>8, <2>1 DEF P!Low
  <2>2. CASE ~(~P!Calibrating \/ pending.audio > PolicyTimes.pause)
    <3>1. /\ pending' = [P!Calm EXCEPT !.stable = P!Unset, !.adjusted = 0]
          /\ capture' = [capture EXCEPT !.highs = 0] /\ UNCHANGED <<screen, worker>>
      BY <1>8, <2>2 DEF P!Low
    <3>2. pending'.stable = P!Unset /\ pending'.meter = 0 /\ {"meter", "stable"} \subseteq DOMAIN pending'
      BY <1>4, <3>1
    <3>3. capture'.kind = capture.kind
      BY <1>1, <3>1 DEF Guards
    <3> QED
      BY <1>1, <1>3, <1>8, <3>1, <3>2, <3>3, ReadingKeeps
  <2> QED
    BY <2>1, <2>2
<1>9. CASE r = "good" /\ P!Good /\ ~P!Trips
  <2>1. CASE ~P!Calibrating
    <3>1. pending' = P!Calm /\ P!Forgets
      BY <1>9, <2>1 DEF P!Good
    <3> QED
      BY <1>1, <1>3, <1>4, <1>5, <1>9, <2>1, <3>1, ReadingKeeps
  <2>2. CASE P!Calibrating /\ pending.audio > PolicyTimes.pause
    BY <1>6, <1>9, <2>2 DEF P!Good
  <2>3. CASE P!Calibrating /\ ~(pending.audio > PolicyTimes.pause) /\ pending.stable >= PolicyTimes.stable
    <3>1. P!Ends(FALSE, TRUE)
      BY <1>9, <2>3 DEF P!Good
    <3>2. taking >= PolicyTimes.stable
      <4>1. pending.stable # P!Unset
        BY <1>1, <2>3, PolicyBounds DEF P!Unset
      <4> QED
        BY <1>1, <2>3, <4>1, PolicyBounds DEF Stabilized
    <3> QED
      BY <1>1, <3>1, <3>2, EndsStrictly
  <2>4. CASE P!Calibrating /\ ~(pending.audio > PolicyTimes.pause) /\ ~(pending.stable >= PolicyTimes.stable)
    <3>1. pending' = [P!Calm EXCEPT !.stable = IF @ = P!Unset THEN 0 ELSE @] /\ P!Forgets
      BY <1>9, <2>4 DEF P!Good
    <3>2. pending' = [P!Calm EXCEPT !.stable = IF pending.stable = P!Unset THEN 0 ELSE pending.stable]
      BY <1>4, <3>1
    <3>3. /\ pending'.stable = (IF pending.stable = P!Unset THEN 0 ELSE pending.stable)
          /\ pending'.meter = 0 /\ {"meter", "stable"} \subseteq DOMAIN pending'
      BY <1>4, <3>2
    <3> QED
      BY <1>1, <1>3, <1>5, <1>9, <3>1, <3>3, ReadingKeeps
  <2> QED
    BY <2>1, <2>2, <2>3, <2>4
<1>10. CASE r = "high" /\ P!High /\ ~P!Trips
  <2> DEFINE spaced == pending.sample = P!Unset \/ pending.sample >= PolicyTimes.spacing
             highs == capture.highs + IF spaced THEN 1 ELSE 0
             highest == IF pending.high = P!Unset THEN 0 ELSE pending.high
             n == P!Least(highs, HighSamples)
  <2>1. /\ capture' = [capture EXCEPT !.highs = n]
        /\ pending' = [pending EXCEPT !.meter = 0, !.stable = P!Unset, !.high = highest, !.sample = IF spaced THEN 0 ELSE @]
        /\ UNCHANGED worker
    BY <1>10 DEF P!High
  <2> HIDE DEF n, highest, spaced
  <2>2. pending'.stable = P!Unset /\ pending'.meter = 0 /\ {"meter", "stable"} \subseteq DOMAIN pending'
    BY <1>1, <2>1
  <2>3. capture'.kind = capture.kind
    BY <1>1, <2>1 DEF Guards
  <2> QED
    BY <1>1, <1>3, <1>10, <2>1, <2>2, <2>3, ReadingKeeps
<1> QED
  BY <1>2, <1>7, <1>8, <1>9, <1>10 DEF P!Meter, P!Readings

\* Time, the watchdog, packets and the rest of a reduction.
LEMMA GuardStrictly ==
  ASSUME LevelInv, Stabilized, P!Pass \/ P!Tick \/ P!audioAccepted \/ P!Reduce
  PROVE  Stabilized' /\ Strictly
<1>1. /\ LevelTypes /\ capture \in Guards /\ taking \in Nat /\ P!Unset \in Int
      /\ pending.stable \in Int /\ pending.meter \in Nat /\ pending.meter <= PolicyTimes.cap.meter
      /\ {"meter", "stable"} \subseteq DOMAIN pending
      /\ P!Calibrating /\ pending.stable # P!Unset => taking >= pending.stable \/ taking >= PolicyTimes.stable
  BY NeverTyped DEF LevelInv, LevelTypes, Stabilized
<1>2. CASE P!Pass
  <2>1. /\ pending' = [n \in DOMAIN pending |-> IF pending[n] = P!Unset \/ ~P!Counted(n) THEN pending[n]
                                                ELSE P!Least(pending[n] + 1, PolicyTimes.cap[n])]
        /\ taking' = (IF P!Calibrating THEN P!Least(taking + 1, PolicyTimes.stable) ELSE 0)
        /\ ~screen /\ UNCHANGED <<capture, screen, worker>>
    BY <1>2 DEF P!Pass, P!sent
  <2>2. DOMAIN pending' = DOMAIN pending
    BY <2>1
  <2>3. pending'.meter = pending.meter \/ pending'.meter = P!Least(pending.meter + 1, PolicyTimes.cap.meter)
    BY <1>1, <2>1
  <2>4. pending'.meter \in Nat /\ pending'.meter <= PolicyTimes.cap.meter /\ pending'.meter >= pending.meter
    BY <1>1, <2>3, PolicyBounds DEF P!Least
  <2>5. pending'.stable = pending.stable \/ (pending.stable # P!Unset /\ pending'.stable = P!Least(pending.stable + 1, PolicyTimes.cap.stable))
    BY <1>1, <2>1
  <2>6. pending'.stable \in Int /\ taking' \in Nat
    BY <1>1, <2>1, <2>5, PolicyBounds DEF P!Least
  <2>7. ASSUME P!Calibrating, pending'.stable # P!Unset PROVE taking' >= pending'.stable \/ taking' >= PolicyTimes.stable
    <3>1. pending.stable # P!Unset
      BY <2>5, <2>7
    <3>2. taking' = P!Least(taking + 1, PolicyTimes.stable)
      BY <2>1, <2>7
    <3> QED
      BY <1>1, <2>5, <2>6, <2>7, <3>1, <3>2, PolicyBounds DEF P!Least
  <2>8. P!NotRevived
    BY <1>1, <2>4 DEF P!NotRevived
  <2>9. P!Proven
    BY <1>1, <2>1, NothingNew
  <2>10. Stabilized'
    BY <1>1, <2>1, <2>2, <2>4, <2>6, <2>7 DEF Stabilized, P!Calibrating
  <2> QED
    BY <2>8, <2>9, <2>10 DEF Strictly
<1>3. CASE P!Tick
  <2>1. P!Active /\ taking' = taking /\ ~screen
    BY <1>3 DEF P!Tick
  <2>2. CASE P!Ends(TRUE, FALSE)
    BY <1>1, <2>1, <2>2, EndsStrictly
  <2>3. CASE pending' = [pending EXCEPT !.late = 0] /\ UNCHANGED <<capture, screen, worker>>
    <3>1. pending'.meter = pending.meter /\ pending'.stable = pending.stable /\ {"meter", "stable"} \subseteq DOMAIN pending'
      BY <1>1, <2>3
    <3> QED
      BY <1>1, <2>1, <2>3, <3>1, NothingNew DEF Stabilized, Strictly, P!NotRevived, P!Calibrating
  <2> QED
    BY <1>3, <2>2, <2>3 DEF P!Tick
<1>4. CASE P!audioAccepted
  <2>1. /\ pending' = [pending EXCEPT !.audio = 0, !.first = IF @ = P!Unset THEN 0 ELSE @,
                                      !.adjusted = IF pending.first = P!Unset THEN 0 ELSE @]
        /\ ~screen /\ UNCHANGED <<taking, capture, screen, worker>>
    BY <1>4 DEF P!audioAccepted, P!sent
  <2>2. pending'.meter = pending.meter /\ pending'.stable = pending.stable /\ {"meter", "stable"} \subseteq DOMAIN pending'
    BY <1>1, <2>1
  <2> QED
    BY <1>1, <2>1, <2>2, NothingNew DEF Stabilized, Strictly, P!NotRevived, P!Calibrating
<1>5. CASE P!Reduce
  <2>1. /\ screen /\ screen' = FALSE /\ taking' = 0
        /\ capture' = (IF P!Calibrating THEN [capture EXCEPT !.highs = 0] ELSE capture)
        /\ pending' = [pending EXCEPT !.adjusted = 0, !.reduction = 0,
                                      !.high = IF P!Calibrating THEN P!Unset ELSE @,
                                      !.sample = IF P!Calibrating THEN P!Unset ELSE @]
        /\ IF P!Calibrating THEN UNCHANGED worker
           ELSE worker' = Append(worker, [name |-> "reduced", kind |-> capture.kind, gen |-> capture.gen, gain |-> generation'])
        /\ generation' = generation - 1
    BY <1>5 DEF P!Reduce, P!Tell, P!Signal
  <2>2. pending'.meter = pending.meter /\ pending'.stable = pending.stable /\ {"meter", "stable"} \subseteq DOMAIN pending'
    BY <1>1, <2>1
  <2>3. capture'.kind = capture.kind /\ (P!Calibrating' <=> P!Calibrating)
    BY <1>1, <2>1 DEF Guards, P!Calibrating
  <2>4. P!Calibrating => pending.stable = P!Unset
    BY <2>1 DEF Stabilized
  <2>5. P!Proven
    <3>1. CASE P!Calibrating
      BY <1>1, <2>1, <3>1, NothingNew
    <3>2. CASE ~P!Calibrating
      <4> DEFINE s == [name |-> "reduced", kind |-> capture.kind, gen |-> capture.gen, gain |-> generation']
      <4>1. generation \in P!Gain /\ generation > 0 /\ P!Active
        BY <2>1 DEF LevelInv, LevelTypes, NotAbove
      <4>2. generation' \in P!Gain
        BY <2>1, <4>1, Gains
      <4>3. s \in Reported /\ s.name # "calibrated"
        BY <1>1, <4>1, <4>2 DEF Reported, Guards, P!Active
      <4>4. worker' = Append(worker, s)
        BY <2>1, <3>2
      <4> HIDE DEF s
      <4> QED
        BY <1>1, <4>3, <4>4, NothingNew
    <3> QED
      BY <3>1, <3>2
  <2> QED
    BY <1>1, <2>1, <2>2, <2>3, <2>4, <2>5 DEF Stabilized, Strictly, P!NotRevived
<1> QED
  BY <1>2, <1>3, <1>4, <1>5

LEMMA CallsStrictly ==
  ASSUME LevelInv, Stabilized, P!IoTakes
  PROVE  Stabilized' /\ Strictly
<1> DEFINE c == Head(posted)
<1>1. /\ LevelTypes /\ capture \in Guards /\ taking \in Nat /\ taking' = (IF capture'.gen # capture.gen THEN 0 ELSE taking)
      /\ taking' \in Nat /\ ~screen /\ capture.gen \in Nat /\ c \in Ordered
  <2>1. posted \in Seq(Ordered) /\ posted # <<>>
    BY DEF P!IoTakes, LevelInv, LevelTypes
  <2>2. c \in Ordered
    BY <2>1
  <2> QED
    BY <2>2 DEF P!IoTakes, LevelInv, LevelTypes, Stabilized, Guards
<1>2. CASE P!NoCall
  BY <1>1, <1>2, NoAge, NothingNew DEF P!NoCall, Strictly
<1>3. CASE c.name = "ack"
  <2>1. /\ capture' = [capture EXCEPT !.latched = @ /\ P!Active] /\ UNCHANGED <<screen, pending, worker>>
    BY <1>3 DEF P!IoTakes
  <2>2. capture'.kind = capture.kind /\ capture'.gen = capture.gen
    BY <1>1, <2>1 DEF Guards
  <2>3. P!Proven
    BY <1>1, <2>1, NothingNew
  <2>4. pending'.meter = pending.meter /\ pending.meter \in Int
    BY <2>1 DEF Stabilized
  <2> QED
    BY <1>1, <2>1, <2>2, <2>3, <2>4 DEF Stabilized, Strictly, P!NotRevived, P!Calibrating
<1>4. CASE c.name = "begin" /\ P!Begin(c)
  <2>1. CASE P!Active \/ capture.latched
    <3> DEFINE s == [name |-> "ended", kind |-> c.kind, gen |-> c.gen, gain |-> generation]
    <3>1. worker' = Append(worker, s) /\ UNCHANGED <<capture, pending, screen>>
      BY <1>4, <2>1 DEF P!Begin, P!Tell, P!Signal
    <3>2. s \in Reported /\ s.name # "calibrated"
      BY <1>1 DEF Ordered, Reported, LevelTypes
    <3> HIDE DEF s, c
    <3>3. P!Proven
      BY <1>1, <3>1, <3>2, NothingNew
    <3> QED
      BY <1>1, <3>1, <3>3, NoAge DEF Strictly
  <2>2. CASE ~(P!Active \/ capture.latched)
    <3>1. pending' = P!Never /\ UNCHANGED <<screen, worker>>
      BY <1>4, <2>2 DEF P!Begin
    <3> QED
      BY <1>1, <2>2, <3>1, NeverTyped, NothingNew DEF Stabilized, Strictly, P!NotRevived
  <2> QED
    BY <2>1, <2>2
<1>5. CASE c.name = "stop" /\ ~P!NoCall
  <2>1. P!Active
    BY <1>5 DEF P!IoTakes
  <2>2. CASE P!Calibrating
    <3>1. P!Ends(FALSE, FALSE)
      BY <1>5, <2>2 DEF P!IoTakes
    <3> QED
      BY <1>1, <2>1, <3>1, EndsStrictly
  <2>3. CASE ~P!Calibrating
    <3>1. P!Rests(FALSE) /\ UNCHANGED worker
      BY <1>5, <2>3 DEF P!IoTakes
    <3> QED
      BY <1>1, <3>1, RestsKeeps, NothingNew DEF Strictly
  <2> QED
    BY <2>2, <2>3
<1>6. c.name \in {"ack", "begin", "stop"}
  BY <1>1 DEF Ordered
<1> QED
  BY <1>2, <1>3, <1>4, <1>5, <1>6 DEF P!IoTakes

LEMMA UiStrictly ==
  ASSUME LevelInv, Stabilized,
         \/ \E kind \in P!Kinds, ack \in BOOLEAN : P!Starts(kind, ack)
         \/ \E closes \in BOOLEAN : P!StopSstv(closes)
         \/ P!CancelCalibration \/ P!FtFinishes \/ P!UiTakes
  PROVE  Stabilized' /\ Strictly
<1>1. LevelTypes /\ UNCHANGED <<pending, capture, taking, screen>>
  BY DEF LevelInv, P!Starts, P!StopSstv, P!CancelCalibration, P!FtFinishes, P!UiTakes
<1>2. P!Proven
  <2>1. CASE P!FtFinishes
    <3> DEFINE s == [name |-> "ended", kind |-> "ft", gen |-> io, gain |-> 0]
    <3>1. worker' = Append(worker, s)
      BY <2>1 DEF P!FtFinishes, P!Tell, P!Signal
    <3>2. s \in Reported /\ s.name # "calibrated"
      BY <1>1, Gains DEF Reported, LevelTypes, P!Kinds
    <3> HIDE DEF s
    <3> QED
      BY <1>1, <3>1, <3>2, NothingNew
  <2>2. CASE P!UiTakes
    BY <1>1, <2>2, NothingNew DEF P!UiTakes
  <2>3. CASE ~P!FtFinishes /\ ~P!UiTakes
    <3>1. UNCHANGED worker
      BY <2>3 DEF P!Starts, P!StopSstv, P!CancelCalibration
    <3> QED
      BY <1>1, <3>1, NothingNew
  <2> QED
    BY <2>1, <2>2, <2>3
<1> QED
  BY <1>1, <1>2, NoAge DEF Strictly

----------------------------------------------------------------------------
(* The whole part. *)
OfLevel == part = "meter" => LevelInv /\ Stabilized
StrictHere == part = "meter" => P!Proven /\ P!NotRevived

LEMMA LevelSteps == OfLevel /\ [AllNext]_all => OfLevel' /\ [StrictHere]_all
<1> SUFFICES ASSUME OfLevel, [AllNext]_all PROVE OfLevel' /\ StrictHere
  OBVIOUS
<1>1. part' = part
  BY DEF AllNext, Receiver, Mirror, Policy, Tuning, TxSlot, all
<1>2. CASE part # "meter"
  BY <1>1, <1>2 DEF OfLevel, StrictHere
<1>3. CASE part = "meter" /\ UNCHANGED all
  <2>1. UNCHANGED <<capture, mode, generation, pending, ui, screen, io, posted, worker, taking, signals, heard>>
    BY <1>3 DEF all, vars
  <2>2. LevelInv /\ Stabilized
    BY <1>3 DEF OfLevel
  <2>3. Stabilized' /\ P!NotRevived
    BY <2>1, <2>2, NoAge
  <2>4. P!Proven
    BY <2>1, <2>2, NothingNew DEF LevelInv
  <2>5. LevelInv'
    <3>1. capture \in Guards /\ mode \in BOOLEAN /\ generation \in P!Gain /\ screen \in BOOLEAN
          /\ (screen => P!Active /\ generation > 0)
      BY <2>2 DEF LevelInv, LevelTypes, NotAbove
    <3> QED
      BY <2>1, <2>2, <3>1, GoesOn
  <2> QED
    BY <2>3, <2>4, <2>5 DEF OfLevel, StrictHere
<1>4. CASE part = "meter" /\ AllNext
  <2>1. ~Mirror /\ ~Receiver /\ ~Tuning /\ ~TxSlot /\ LevelInv /\ Stabilized
    BY <1>4 DEF Mirror, Receiver, Tuning, TxSlot, OfLevel
  <2>2. \/ P!Pass \/ P!Tick \/ P!audioAccepted \/ \E r \in P!Readings : P!Meter(r)
        \/ P!Reduce \/ P!IoTakes
        \/ \E kind \in P!Kinds, ack \in BOOLEAN : P!Starts(kind, ack)
        \/ \E closes \in BOOLEAN : P!StopSstv(closes)
        \/ P!CancelCalibration \/ P!FtFinishes \/ P!UiTakes
    BY <1>4, <2>1 DEF AllNext
  <2>3. LevelInv'
    BY <2>1, <2>2, GuardKeeps, ReduceKeeps, IoTakesKeeps, Starting, StopKeeps, FtKeeps, UiTakesKeeps
  <2>4. Stabilized' /\ Strictly
    BY <2>1, <2>2, MeterStrictly, GuardStrictly, CallsStrictly, UiStrictly
  <2> QED
    BY <2>3, <2>4 DEF OfLevel, StrictHere, Strictly
<1> QED
  BY <1>2, <1>3, <1>4

LEMMA LevelStarts == AllInit => OfLevel
<1>1. P!Init => Stabilized
  BY NeverTyped DEF P!Init, Stabilized, P!Calibrating
<1> QED
  BY <1>1, LevelBegins DEF AllInit, OfLevel

\* A transmission never has a higher level than reductions have brought it to since the
\* last calibration, also when it is started while a reduction is on its way to
\* MainWindow: that one is then of an earlier generation.
THEOREM KeepsLevelDown == AllSpec => []LevelIsNotRestored
<1>1. OfLevel => LevelIsNotRestored
  <2> SUFFICES ASSUME LevelInv, P!Active, ~P!Calibrating, P!Told, ~heard PROVE generation <= signals
    BY DEF OfLevel, LevelIsNotRestored, P!NeverRestored
  <2>1. ~\E i \in DOMAIN worker : Late(worker[i])
    BY DEF P!Told, Late, Reduction
  <2>2. Kept /\ OnTheAir
    BY <2>1 DEF LevelInv, Remembered, OnTheAir
  <2> QED
    BY <2>2 DEF Kept
<1> QED
  BY <1>1, LevelStarts, LevelSteps, PTL DEF AllSpec

\* A level is reported as calibrated only after good readings at an unchanged gain for the
\* whole of the stable time, and no reading that comes after the meter's deadline makes a
\* transmission go on, in whichever order the watchdog and the readings run.
THEOREM CalibratesStrictly == AllSpec => MeterIsStrict
<1>1. OfLevel /\ [AllNext]_all => OfLevel' /\ [part = "meter" => P!Proven /\ P!NotRevived]_all
  BY LevelSteps DEF StrictHere
<1> QED
  BY <1>1, LevelStarts, PTL DEF AllSpec, MeterIsStrict

----------------------------------------------------------------------------
(***************************************************************************)
(* The dial.  Ft8Dial's names in the variables: freq is capture, known     *)
(* mode, dial generation, tone pending, tx ui, own screen, radio io,       *)
(* toRadio posted, toPhone worker, aim taking, turns signals.              *)
(***************************************************************************)
Positive == Nat \ {0}
Frequencies == [f : Positive, rf : Nat, pending : Nat, young : BOOLEAN]
Heard == [on : BOOLEAN, mode : L!ModeOf \cup {"?"}, tx : BOOLEAN]
K4s == [hz : Positive, mode : L!ModeOf, tx : BOOLEAN]
Reports == [of : {"hz"}, is : Positive] \cup [of : {"mode"}, is : L!ModeOf] \cup [of : {"tx"}, is : BOOLEAN]
Aims == [hz : Nat, dir : {-1, 0, 1}, straight : BOOLEAN]

DialTypes ==
  /\ capture \in Frequencies /\ mode \in Heard /\ io \in K4s /\ taking \in Aims
  /\ posted \in Seq(Positive) /\ worker \in Seq(Reports)

\* What the K4 has told of its frequency ends with the one it has; without a link nothing is under way.
OfHz(i) == worker[i].of = "hz"
Telling ==
  /\ ~mode.on => posted = <<>> /\ worker = <<>>
  /\ mode.on /\ ~(\E i \in DOMAIN worker : OfHz(i)) => capture.rf = io.hz
  /\ \A i \in DOMAIN worker : OfHz(i) /\ (\A j \in DOMAIN worker : j > i => ~OfHz(j)) => worker[i].is = io.hz
  /\ mode.on /\ ~screen.practice /\ capture.rf > 0 => capture.f = capture.rf

\* A request is kept until the K4 has answered it.
Asking ==
  /\ capture.pending > 0 => /\ mode.on /\ ~screen.practice
                            /\ \/ \E i \in DOMAIN posted : posted[i] = capture.pending
                               \/ \E i \in DOMAIN worker : OfHz(i) /\ worker[i].is = capture.pending

Callsign ==
  /\ {"practice", "call", "station", "stored", "entered"} \subseteq DOMAIN screen
  /\ screen.practice \in BOOLEAN /\ screen.stored = screen.entered
  /\ IF screen.practice THEN screen.station = screen.entered ELSE screen.call = screen.entered

Focused == {"rx", "focus"} \subseteq DOMAIN pending /\ pending.focus \in {0, pending.rx}
Previewed ==
  /\ {"target", "last", "preview", "hz", "commit", "for"} \subseteq DOMAIN generation
  /\ generation.preview \in BOOLEAN
  /\ generation.preview => generation.commit /\ generation.for = <<generation.target, screen.practice>>
  /\ Focused

\* On the way to where the detents lead all is before it, so that only the last answer
\* is the one asked for.
Claimed == mode.on /\ ~screen.practice /\ taking.hz # 0 /\ taking.straight
Before(v) == (taking.dir = 1 /\ v < taking.hz) \/ (taking.dir = -1 /\ v > taking.hz)
Straight ==
  Claimed =>
    /\ IF posted = <<>> THEN io.hz = taking.hz ELSE posted[Len(posted)] = taking.hz
    /\ ~L!Settled => capture.young /\ capture.pending = taking.hz
    /\ \A i \in DOMAIN worker : OfHz(i)
    /\ \A i \in DOMAIN posted : i < Len(posted) => Before(posted[i])
    /\ \A i \in DOMAIN worker : posted # <<>> \/ i < Len(worker) => Before(worker[i].is)

DialInv == DialTypes /\ Telling /\ Asking /\ Callsign /\ Previewed /\ Straight

LEMMA DialBegins == L!Init => DialInv
<1> SUFFICES ASSUME L!Init PROVE DialInv
  OBVIOUS
<1>1. /\ capture = [f |-> 5, rf |-> 0, pending |-> 0, young |-> FALSE]
      /\ mode = [on |-> FALSE, mode |-> "?", tx |-> FALSE]
      /\ generation = [target |-> "rx", last |-> "rx", preview |-> FALSE, hz |-> 2, commit |-> FALSE, for |-> <<"rx", FALSE>>]
      /\ pending = [rx |-> 2, tx |-> 2, hold |-> TRUE, focus |-> 0]
      /\ io = [hz |-> 5, mode |-> "DATA", tx |-> FALSE]
      /\ posted = <<>> /\ worker = <<>> /\ taking = [hz |-> 0, dir |-> 0, straight |-> TRUE]
  BY DEF L!Init, L!Home
<1>2. PICK c \in DialCallsigns : screen = [practice |-> FALSE, call |-> c, station |-> c, stored |-> c, entered |-> c]
  BY DEF L!Init
<1>3. DialTypes
  <2>1. posted \in Seq(Positive) /\ worker \in Seq(Reports)
    BY <1>1
  <2> QED
    BY <1>1, <2>1 DEF DialTypes, Frequencies, Heard, K4s, Aims, Positive, L!ModeOf
<1>4. Telling /\ Asking
  BY <1>1 DEF Telling, Asking
<1>5. Callsign /\ Previewed /\ Straight
  BY <1>1, <1>2 DEF Callsign, Previewed, Focused, Straight, Claimed
<1> QED
  BY <1>3, <1>4, <1>5 DEF DialInv

----------------------------------------------------------------------------
(* The tones. *)

LEMMA DialQuiet ==
  ASSUME DialInv, UNCHANGED <<capture, mode, screen, io, posted, worker, taking>>, Previewed'
  PROVE  DialInv'
<1>1. DialTypes' /\ Callsign'
  BY DEF DialInv, DialTypes, Callsign
<1>2. Telling' /\ Asking'
  BY DEF DialInv, Telling, Asking, OfHz
<1>3. Straight'
  BY DEF DialInv, Straight, Claimed, Before, OfHz, L!Settled
<1> QED
  BY <1>1, <1>2, <1>3 DEF DialInv

\* The focus of the traffic filter goes with the tone received.
LEMMA FocusKept == Focused /\ (pending' = pending \/ pending' = L!Unfocused) => Focused'
  BY DEF Focused, L!Unfocused

\* What the steps make of the preview.
LEMMA DialParts ==
  ASSUME Previewed, screen'.practice = screen.practice, Focused'
  PROVE  /\ \A t : generation' = L!Selected(t) => Previewed'
         /\ \A t, k : generation' = [L!Selected(t) EXCEPT !.commit = k] => Previewed'
         /\ \A t : generation' = L!Begun(t) => Previewed'
         /\ \A t, h : generation' = [L!Begun(t) EXCEPT !.hz = h] => Previewed'
         /\ \A h : generation' = [generation EXCEPT !.hz = h] => Previewed'
         /\ generation' = [generation EXCEPT !.preview = FALSE] => Previewed'
         /\ \A t, l : generation' = [generation EXCEPT !.preview = FALSE, !.target = t, !.last = l] => Previewed'
         /\ generation' = generation => Previewed'
<1>1. \A t : generation' = L!Selected(t) => Previewed'
  BY DEF Previewed, L!Selected
<1>2. \A t, k : generation' = [L!Selected(t) EXCEPT !.commit = k] => Previewed'
  BY DEF Previewed, L!Selected
<1>3. \A t : generation' = L!Begun(t) => Previewed'
  BY DEF Previewed, L!Begun
<1>4. \A t, h : generation' = [L!Begun(t) EXCEPT !.hz = h] => Previewed'
  BY DEF Previewed, L!Begun
<1>5. /\ \A h : generation' = [generation EXCEPT !.hz = h] => Previewed'
      /\ generation' = [generation EXCEPT !.preview = FALSE] => Previewed'
      /\ \A t, l : generation' = [generation EXCEPT !.preview = FALSE, !.target = t, !.last = l] => Previewed'
      /\ generation' = generation => Previewed'
  BY DEF Previewed
<1> QED
  BY <1>1, <1>2, <1>3, <1>4, <1>5

\* After clearActivity there is no preview, whatever there was.
LEMMA DialCleared ==
  ASSUME Previewed, Focused'
  PROVE  /\ generation' = L!Cleared(generation) => Previewed'
         /\ \A t : generation' = [L!Cleared(generation) EXCEPT !.target = t] => Previewed'
         /\ \A t : generation' = L!Cleared(L!Selected(t)) => Previewed'
         /\ \A t, l : generation' = L!Cleared([generation EXCEPT !.preview = FALSE, !.target = t, !.last = l]) => Previewed'
<1>1. generation' = L!Cleared(generation) => Previewed'
  BY DEF Previewed, L!Cleared
<1>2. \A t : generation' = [L!Cleared(generation) EXCEPT !.target = t] => Previewed'
  BY DEF Previewed, L!Cleared
<1>3. \A t : generation' = L!Cleared(L!Selected(t)) => Previewed'
  BY DEF Previewed, L!Cleared, L!Selected
<1>4. \A t, l : generation' = L!Cleared([generation EXCEPT !.preview = FALSE, !.target = t, !.last = l]) => Previewed'
  BY DEF Previewed, L!Cleared
<1> QED
  BY <1>1, <1>2, <1>3, <1>4

LEMMA TonesKeep ==
  /\ DialInv /\ (L!SelectDigit \/ L!CommitDialAdjustment \/ L!BeginSlot) => DialInv'
  /\ DialInv => \A t \in {"rx", "tx"} : L!BeginDialAdjustment(t) => DialInv'
  /\ DialInv => \A step \in {-1, 1} : L!TuneTone(step) => DialInv'
  /\ DialInv => \A hz \in DialTones : L!SelectStation(hz) => DialInv'
  /\ DialInv => \A hz \in DialTones, held \in BOOLEAN : L!Tap(hz, held) => DialInv'
  /\ DialInv => \A success \in BOOLEAN : L!FinishLiveTransmit(success) => DialInv'
<1> SUFFICES ASSUME DialInv
             PROVE  /\ L!SelectDigit \/ L!CommitDialAdjustment \/ L!BeginSlot => DialInv'
                    /\ \A t \in {"rx", "tx"} : L!BeginDialAdjustment(t) => DialInv'
                    /\ \A step \in {-1, 1} : L!TuneTone(step) => DialInv'
                    /\ \A hz \in DialTones : L!SelectStation(hz) => DialInv'
                    /\ \A hz \in DialTones, held \in BOOLEAN : L!Tap(hz, held) => DialInv'
                    /\ \A success \in BOOLEAN : L!FinishLiveTransmit(success) => DialInv'
  OBVIOUS
<1>1. Previewed /\ Focused
  BY DEF DialInv, Previewed
<1>2. ASSUME L!SelectDigit PROVE DialInv'
  <2>1. Previewed'
    BY <1>1, <1>2, FocusKept, DialParts DEF L!SelectDigit
  <2> QED
    BY <1>2, <2>1, DialQuiet DEF L!SelectDigit
<1>3. ASSUME L!CommitDialAdjustment \/ L!BeginSlot PROVE DialInv'
  <2>1. Focused'
    BY <1>1, <1>3 DEF L!CommitDialAdjustment, L!BeginSlot, Focused
  <2>2. Previewed'
    BY <1>1, <1>3, <2>1, DialParts DEF L!CommitDialAdjustment, L!BeginSlot
  <2> QED
    BY <1>3, <2>2, DialQuiet DEF L!CommitDialAdjustment, L!BeginSlot
<1>4. ASSUME NEW t \in {"rx", "tx"}, L!BeginDialAdjustment(t) PROVE DialInv'
  <2>1. Previewed'
    BY <1>1, <1>4, FocusKept, DialParts DEF L!BeginDialAdjustment
  <2> QED
    BY <1>4, <2>1, DialQuiet DEF L!BeginDialAdjustment
<1>5. ASSUME NEW step \in {-1, 1}, L!TuneTone(step) PROVE DialInv'
  <2>1. /\ screen' = screen /\ pending' = pending
        /\ \/ \E h : generation' = [generation EXCEPT !.hz = h]
           \/ \E h : generation' = [L!Begun(generation.target) EXCEPT !.hz = h]
    BY <1>5 DEF L!TuneTone
  <2>2. CASE \E h : generation' = [generation EXCEPT !.hz = h]
    <3>1. Previewed'
      BY <1>1, <2>1, <2>2, FocusKept, DialParts
    <3> QED
      BY <1>5, <3>1, DialQuiet DEF L!TuneTone
  <2>3. CASE \E h : generation' = [L!Begun(generation.target) EXCEPT !.hz = h]
    <3>1. PICK h : generation' = [L!Begun(generation.target) EXCEPT !.hz = h]
      BY <2>3
    <3>2. Previewed'
      BY <1>1, <2>1, <3>1, FocusKept, DialParts
    <3> QED
      BY <1>5, <3>2, DialQuiet DEF L!TuneTone
  <2> QED
    BY <2>1, <2>2, <2>3
<1>6. ASSUME NEW hz \in DialTones, L!SelectStation(hz) PROVE DialInv'
  <2>1. generation' = [L!Selected("rx") EXCEPT !.commit = (pending.focus = hz)]
    BY <1>6 DEF L!SelectStation
  <2>2. Focused' /\ screen' = screen
    BY <1>1, <1>6 DEF L!SelectStation, Focused
  <2>3. Previewed'
    BY <1>1, <2>1, <2>2, DialParts
  <2> QED
    BY <1>6, <2>3, DialQuiet DEF L!SelectStation
<1>7. ASSUME NEW hz \in DialTones, NEW held \in BOOLEAN, L!Tap(hz, held) PROVE DialInv'
  <2>1. Focused'
    BY <1>1, <1>7 DEF L!Tap, Focused
  <2>2. Previewed'
    BY <1>1, <1>7, <2>1, DialParts DEF L!Tap
  <2> QED
    BY <1>7, <2>2, DialQuiet DEF L!Tap
<1>8. ASSUME NEW success \in BOOLEAN, L!FinishLiveTransmit(success) PROVE DialInv'
  <2>1. Previewed'
    BY <1>1, <1>8, FocusKept, DialParts DEF L!FinishLiveTransmit
  <2> QED
    BY <1>8, <2>1, DialQuiet DEF L!FinishLiveTransmit
<1> QED
  BY <1>2, <1>3, <1>4, <1>5, <1>6, <1>7, <1>8

----------------------------------------------------------------------------
(* The operator's requests. *)

\* The K4 is asked for a frequency, unless it is not there or left alone.
LEMMA FrequencySet ==
  ASSUME DialInv, NEW hz \in Positive, NEW d, L!SetFrequency(hz, d), taking' \in Aims,
         d = generation \/ d = L!Selected("rx"), UNCHANGED <<mode, screen, io, worker>>
  PROVE  /\ DialTypes' /\ Telling' /\ Asking' /\ Callsign' /\ Previewed'
         /\ mode.on /\ ~screen.practice =>
              /\ capture'.young /\ capture'.pending = hz /\ posted' = Append(posted, hz)
              /\ posted' # <<>> /\ Len(posted') = Len(posted) + 1 /\ posted'[Len(posted')] = hz
              /\ \A i \in DOMAIN posted' : i < Len(posted') => i \in DOMAIN posted /\ posted'[i] = posted[i]
<1>1. /\ capture \in Frequencies /\ capture.f \in Positive /\ capture.rf \in Nat /\ capture.pending \in Nat /\ capture.young \in BOOLEAN
      /\ posted \in Seq(Positive) /\ worker \in Seq(Reports) /\ mode.on \in BOOLEAN /\ screen.practice \in BOOLEAN
  BY DEF DialInv, DialTypes, Frequencies, Heard, Callsign
<1> DEFINE f == IF screen.practice \/ ~mode.on THEN hz ELSE capture.f
           p == IF screen.practice THEN capture.pending ELSE IF mode.on THEN hz ELSE 0
           y == screen.practice => capture.young
<1>2. /\ capture' = [capture EXCEPT !.f = f, !.pending = p, !.young = y]
      /\ posted' = IF screen.practice \/ ~mode.on THEN posted ELSE Append(posted, hz)
      /\ generation' = L!Cleared(d) /\ pending' = L!Unfocused
  BY DEF L!SetFrequency
<1>3. f \in Positive /\ p \in Nat /\ y \in BOOLEAN
  BY <1>1 DEF Positive
<1> HIDE DEF f, p, y
<1>4. capture' = [f |-> f, rf |-> capture.rf, pending |-> p, young |-> y]
  BY <1>1, <1>2 DEF Frequencies
<1>5. capture' \in Frequencies /\ capture'.f = f /\ capture'.rf = capture.rf /\ capture'.pending = p /\ capture'.young = y
  BY <1>1, <1>3, <1>4 DEF Frequencies
<1>6. /\ Append(posted, hz) \in Seq(Positive) /\ Append(posted, hz) # <<>> /\ Len(Append(posted, hz)) = Len(posted) + 1
      /\ Append(posted, hz)[Len(posted) + 1] = hz /\ Len(posted) + 1 \in DOMAIN Append(posted, hz)
      /\ \A i \in DOMAIN Append(posted, hz) : i < Len(posted) + 1 => i \in DOMAIN posted /\ Append(posted, hz)[i] = posted[i]
  BY <1>1
<1>7. DialTypes'
  BY <1>1, <1>2, <1>5, <1>6 DEF DialInv, DialTypes
<1>8. Telling'
  <2>1. mode.on /\ ~screen.practice => f = capture.f
    BY DEF f
  <2>2. ~mode.on => posted' = posted
    BY <1>2
  <2> QED
    BY <1>5, <2>1, <2>2 DEF DialInv, Telling, OfHz
<1>9. Asking'
  <2>1. CASE screen.practice
    BY <1>5, <2>1 DEF DialInv, Asking, p
  <2>2. CASE ~screen.practice /\ ~mode.on
    BY <1>5, <2>2 DEF Asking, p
  <2>3. CASE ~screen.practice /\ mode.on
    <3>1. p = hz /\ posted' = Append(posted, hz)
      BY <1>2, <2>3 DEF p
    <3>2. \E i \in DOMAIN posted' : posted'[i] = hz
      BY <1>6, <3>1
    <3> QED
      BY <1>5, <2>3, <3>1, <3>2 DEF Asking
  <2> QED
    BY <2>1, <2>2, <2>3
<1>10. Callsign' /\ Previewed'
  <2>1. Callsign' /\ Previewed /\ Focused
    BY DEF DialInv, Callsign, Previewed
  <2>2. Focused'
    BY <1>2, <2>1, FocusKept
  <2> QED
    BY <1>2, <2>1, <2>2, DialCleared
<1>11. mode.on /\ ~screen.practice => y /\ p = hz /\ posted' = Append(posted, hz)
  BY <1>2 DEF y, p
<1> QED
  BY <1>5, <1>6, <1>7, <1>8, <1>9, <1>10, <1>11

\* When nothing is under way no request is kept.
LEMMA NothingAsked == DialInv /\ L!Settled => capture.pending = 0
<1>1. DialInv => capture.pending \in Nat
  BY DEF DialInv, DialTypes, Frequencies
<1> QED
  BY <1>1 DEF DialInv, L!Settled, Asking

\* A detent counts from the last request while it is young, and else from what is shown.
LEMMA TuneRfKeeps == DialInv => \A step \in {-1, 1} : L!TuneRf(step) => DialInv'
<1> SUFFICES ASSUME DialInv, NEW step \in {-1, 1}, L!TuneRf(step) PROVE DialInv'
  OBVIOUS
<1> DEFINE from == IF capture.young /\ capture.pending > 0 THEN capture.pending ELSE capture.f
           hz == from + step
<1>1. /\ hz > 0 /\ L!SetFrequency(hz, generation) /\ UNCHANGED <<mode, screen, io, worker>>
      /\ taking' = IF L!Settled THEN [hz |-> capture.f + step, dir |-> step, straight |-> TRUE]
                   ELSE IF taking.hz = 0 THEN taking
                   ELSE [hz |-> taking.hz + step, dir |-> step, straight |-> taking.straight /\ taking.dir \in {0, step}]
  BY DEF L!TuneRf
<1>2. /\ capture.f \in Nat /\ capture.pending \in Nat /\ taking \in Aims /\ taking.hz \in Nat /\ taking.straight \in BOOLEAN
      /\ taking.dir \in {-1, 0, 1} /\ posted \in Seq(Positive) /\ worker \in Seq(Reports)
  BY DEF DialInv, DialTypes, Frequencies, Positive, Aims
<1>3. hz \in Positive
  BY <1>1, <1>2 DEF Positive
<1>4. L!Settled => hz = capture.f + step
  BY <1>2, NothingAsked
<1>5. Claimed /\ ~L!Settled => hz = taking.hz + step
  <2> SUFFICES ASSUME Claimed, ~L!Settled PROVE hz = taking.hz + step
    OBVIOUS
  <2>1. capture.young /\ capture.pending = taking.hz /\ taking.hz # 0
    BY DEF DialInv, Straight, Claimed
  <2> QED
    BY <1>2, <2>1
<1> HIDE DEF hz, from
<1>6. taking' \in Aims
  <2>1. CASE L!Settled
    BY <1>1, <1>3, <1>4, <2>1 DEF Aims, Positive
  <2>2. CASE ~L!Settled /\ taking.hz = 0
    BY <1>1, <1>2, <2>2
  <2>3. CASE ~L!Settled /\ taking.hz # 0
    BY <1>1, <1>2, <2>3 DEF Aims
  <2> QED
    BY <2>1, <2>2, <2>3
<1>7. /\ DialTypes' /\ Telling' /\ Asking' /\ Callsign' /\ Previewed'
      /\ mode.on /\ ~screen.practice =>
              /\ capture'.young /\ capture'.pending = hz /\ posted' = Append(posted, hz)
              /\ posted' # <<>> /\ Len(posted') = Len(posted) + 1 /\ posted'[Len(posted')] = hz
              /\ \A i \in DOMAIN posted' : i < Len(posted') => i \in DOMAIN posted /\ posted'[i] = posted[i]
  BY <1>1, <1>3, <1>6, FrequencySet
<1>8. Straight'
  <2> SUFFICES ASSUME Claimed' PROVE (/\ IF posted = <<>> THEN io.hz = taking.hz ELSE posted[Len(posted)] = taking.hz
                                      /\ ~L!Settled => capture.young /\ capture.pending = taking.hz
                                      /\ \A i \in DOMAIN worker : OfHz(i)
                                      /\ \A i \in DOMAIN posted : i < Len(posted) => Before(posted[i])
                                      /\ \A i \in DOMAIN worker : posted # <<>> \/ i < Len(worker) => Before(worker[i].is))'
    BY DEF Straight
  <2>1. /\ mode.on /\ ~screen.practice /\ taking'.hz # 0 /\ taking'.straight
        /\ capture'.young /\ capture'.pending = hz
        /\ posted' # <<>> /\ posted'[Len(posted')] = hz /\ Len(posted') = Len(posted) + 1
        /\ \A i \in DOMAIN posted' : i < Len(posted') => i \in DOMAIN posted /\ posted'[i] = posted[i]
    BY <1>1, <1>7 DEF Claimed
  <2>2. CASE L!Settled
    <3>1. taking'.hz = hz /\ posted = <<>> /\ worker = <<>> /\ DOMAIN posted = {} /\ DOMAIN worker = {}
      BY <1>1, <1>4, <2>2 DEF L!Settled
    <3> QED
      BY <1>1, <2>1, <3>1
  <2>3. CASE ~L!Settled
    <3>1. /\ taking.hz # 0 /\ taking'.hz = taking.hz + step /\ taking'.dir = step
          /\ taking'.straight = (taking.straight /\ taking.dir \in {0, step})
      <4>1. taking.hz # 0
        <5>1. taking.hz = 0 => taking' = taking
          BY <1>1, <2>3
        <5> QED
          BY <2>1, <5>1
      <4> QED
        BY <1>1, <2>3, <4>1
    <3>2. Claimed /\ taking.dir \in {0, step} /\ hz = taking.hz + step /\ taking'.hz = hz
      BY <1>5, <2>1, <2>3, <3>1 DEF Claimed
    <3>3. /\ IF posted = <<>> THEN io.hz = taking.hz ELSE posted[Len(posted)] = taking.hz
          /\ \A i \in DOMAIN worker : OfHz(i)
          /\ \A i \in DOMAIN posted : i < Len(posted) => Before(posted[i])
          /\ \A i \in DOMAIN worker : posted # <<>> \/ i < Len(worker) => Before(worker[i].is)
      BY <3>2 DEF DialInv, Straight
    <3>4. /\ \A v \in Int : Before(v) \/ v = taking.hz =>
               (taking'.dir = 1 /\ v < taking'.hz) \/ (taking'.dir = -1 /\ v > taking'.hz)
      BY <1>2, <3>1, <3>2 DEF Before
    <3>5. \A i \in DOMAIN posted : posted[i] \in Int /\ (Before(posted[i]) \/ posted[i] = taking.hz)
      <4> SUFFICES ASSUME NEW i \in DOMAIN posted PROVE posted[i] \in Int /\ (Before(posted[i]) \/ posted[i] = taking.hz)
        OBVIOUS
      <4>1. posted[i] \in Positive /\ (i < Len(posted) \/ i = Len(posted)) /\ posted # <<>>
        BY <1>2
      <4> QED
        BY <3>3, <4>1 DEF Positive
    <3>6. \A i \in DOMAIN worker : worker[i].is \in Int /\ (Before(worker[i].is) \/ worker[i].is = taking.hz)
      <4> SUFFICES ASSUME NEW i \in DOMAIN worker PROVE worker[i].is \in Int /\ (Before(worker[i].is) \/ worker[i].is = taking.hz)
        OBVIOUS
      <4>1. worker[i] \in Reports /\ (i < Len(worker) \/ (i = Len(worker) /\ \A j \in DOMAIN worker : ~(j > i)))
        BY <1>2
      <4>2. worker[i].is \in Int
        BY <3>3, <4>1 DEF Reports, OfHz, Positive
      <4>3. i = Len(worker) /\ posted = <<>> => worker[i].is = io.hz
        BY <3>3, <4>1 DEF DialInv, Telling
      <4> QED
        BY <3>3, <4>1, <4>2, <4>3
    <3>7. \A i \in DOMAIN posted' : i < Len(posted') =>
            (taking'.dir = 1 /\ posted'[i] < taking'.hz) \/ (taking'.dir = -1 /\ posted'[i] > taking'.hz)
      BY <2>1, <3>4, <3>5
    <3>8. \A i \in DOMAIN worker : (taking'.dir = 1 /\ worker[i].is < taking'.hz) \/ (taking'.dir = -1 /\ worker[i].is > taking'.hz)
      BY <3>4, <3>6
    <3> QED
      BY <1>1, <2>1, <3>2, <3>3, <3>7, <3>8 DEF OfHz, Before
  <2> QED
    BY <2>2, <2>3
<1> QED
  BY <1>7, <1>8 DEF DialInv

\* A frequency entered, or the band's of the other mode
LEMMA Entered ==
  ASSUME DialInv, NEW d, L!SetFrequency(L!Away, d), d = generation \/ d = L!Selected("rx"),
         taking' = L!EnteredAim, UNCHANGED <<mode, screen, io, worker>>
  PROVE  DialInv'
<1>1. /\ L!SetFrequency(9, d) /\ UNCHANGED <<mode, screen, io, worker>>
      /\ taking' = IF L!Settled THEN [hz |-> 9, dir |-> 0, straight |-> TRUE] ELSE [hz |-> 0, dir |-> 0, straight |-> TRUE]
  BY DEF L!Away, L!NoAim, L!EnteredAim
<1>2. taking' \in Aims /\ 9 \in Positive
  BY <1>1 DEF Aims, Positive
<1>3. /\ DialTypes' /\ Telling' /\ Asking' /\ Callsign' /\ Previewed'
      /\ mode.on /\ ~screen.practice =>
              /\ capture'.young /\ capture'.pending = 9
              /\ posted' # <<>> /\ Len(posted') = Len(posted) + 1 /\ posted'[Len(posted')] = 9
              /\ \A i \in DOMAIN posted' : i < Len(posted') => i \in DOMAIN posted /\ posted'[i] = posted[i]
  BY <1>1, <1>2, FrequencySet
<1>4. Straight'
  <2>1. CASE ~L!Settled
    BY <1>1, <2>1 DEF Straight, Claimed
  <2>2. CASE L!Settled
    <3>1. posted = <<>> /\ worker = <<>> /\ DOMAIN posted = {} /\ DOMAIN worker = {} /\ taking'.hz = 9
      BY <1>1, <2>2 DEF L!Settled
    <3> QED
      BY <1>1, <1>3, <3>1 DEF Straight, Claimed
  <2> QED
    BY <2>1, <2>2
<1> QED
  BY <1>3, <1>4 DEF DialInv

LEMMA EnterKeeps == DialInv /\ L!EnterFrequency => DialInv'
  BY Entered DEF L!EnterFrequency

----------------------------------------------------------------------------
(* Time, the options and leaving the screen. *)

\* The request is given up, or no longer young.
LEMMA Forgotten ==
  ASSUME DialInv, capture' \in Frequencies, capture'.rf = capture.rf, capture'.pending \in {0, capture.pending},
         mode.on /\ ~screen'.practice /\ capture.rf > 0 => capture'.f = capture.rf,
         capture'.pending # 0 => screen'.practice = screen.practice,
         taking' \in Aims, taking'.hz = 0 \/ (L!Settled /\ taking' = taking /\ screen'.practice = screen.practice),
         Callsign', Previewed', UNCHANGED <<mode, io, posted, worker>>
  PROVE  DialInv'
<1>1. DialTypes'
  BY DEF DialInv, DialTypes
<1>2. Telling'
  BY DEF DialInv, Telling, OfHz
<1>3. Asking'
  <2>1. capture'.pending > 0 => capture'.pending = capture.pending
    BY DEF Frequencies
  <2> QED
    BY <2>1 DEF DialInv, Asking, OfHz
<1>4. Straight'
  BY DEF DialInv, Straight, Claimed, L!Settled, OfHz, Before
<1> QED
  BY <1>1, <1>2, <1>3, <1>4 DEF DialInv

LEMMA NoAimIsAim == L!NoAim \in Aims /\ L!NoAim.hz = 0
  BY DEF L!NoAim, Aims

LEMMA LeavingKeeps == DialInv /\ (L!Ages \/ L!ChangeMode \/ L!Suspend) => DialInv'
<1> SUFFICES ASSUME DialInv PROVE L!Ages \/ L!ChangeMode \/ L!Suspend => DialInv'
  OBVIOUS
<1>1. /\ capture \in Frequencies /\ taking \in Aims /\ Previewed /\ Focused /\ Callsign /\ 0 \in Nat
      /\ mode.on /\ ~screen.practice /\ capture.rf > 0 => capture.f = capture.rf
  BY DEF DialInv, DialTypes, Telling, Previewed
<1>2. ASSUME L!Ages PROVE DialInv'
  <2>1. /\ capture' = [capture EXCEPT !.young = FALSE]
        /\ taking' = (IF L!Settled THEN taking ELSE L!NoAim)
        /\ UNCHANGED <<mode, generation, pending, screen, io, posted, worker>>
    BY <1>2 DEF L!Ages
  <2>2. capture' \in Frequencies /\ capture'.rf = capture.rf /\ capture'.pending = capture.pending /\ capture'.f = capture.f
    BY <1>1, <2>1 DEF Frequencies
  <2>3. Callsign' /\ Previewed'
    BY <1>1, <2>1, FocusKept, DialParts DEF Callsign
  <2> QED
    BY <1>1, <2>1, <2>2, <2>3, NoAimIsAim, Forgotten
<1>3. ASSUME L!ChangeMode, L!SetFrequency(L!Away, L!Selected("rx")), taking' = L!EnteredAim PROVE DialInv'
  BY <1>3, Entered DEF L!ChangeMode
<1>4. ASSUME L!ChangeMode \/ L!Suspend,
             ~(L!ChangeMode /\ L!SetFrequency(L!Away, L!Selected("rx")) /\ taking' = L!EnteredAim)
      PROVE  DialInv'
  <2>1. /\ capture' = [capture EXCEPT !.pending = 0] /\ taking' = L!NoAim
        /\ \/ generation' = L!Selected("rx") /\ pending' = pending
           \/ generation' = L!Cleared(L!Selected("rx")) /\ pending' = L!Unfocused
        /\ screen' = screen \/ screen' = L!Stored(screen)
        /\ UNCHANGED <<mode, io, posted, worker>>
    BY <1>4 DEF L!ChangeMode, L!Suspend
  <2>2. capture' \in Frequencies /\ capture'.rf = capture.rf /\ capture'.pending = 0 /\ capture'.f = capture.f
    BY <1>1, <2>1 DEF Frequencies
  <2>3. Callsign' /\ screen'.practice = screen.practice
    BY <1>1, <2>1 DEF Callsign, L!Stored
  <2>4. Previewed'
    BY <1>1, <2>1, <2>3, FocusKept, DialParts, DialCleared
  <2> QED
    BY <1>1, <2>1, <2>2, <2>3, <2>4, NoAimIsAim, Forgotten
<1> QED
  BY <1>2, <1>3, <1>4

\* The options set the operator's callsign, or the one of the practice session.
LEMMA OptionsKeep == DialInv => \A c \in DialCallsigns, on \in BOOLEAN : L!SaveOptions(c, on) => DialInv'
<1> SUFFICES ASSUME DialInv, NEW c \in DialCallsigns, NEW on \in BOOLEAN, L!SaveOptions(c, on) PROVE DialInv'
  OBVIOUS
<1> DEFINE leaving == screen.practice /\ ~on
           switches == on # screen.practice
           o == IF leaving THEN screen
                ELSE [screen EXCEPT !.call = c, !.entered = IF screen.practice THEN @ ELSE c]
           p == IF switches THEN 0 ELSE capture.pending
           f == IF leaving /\ capture.rf > 0 THEN capture.rf ELSE capture.f
<1>1. /\ screen' = L!Stored(IF switches THEN L!Switched(o, on) ELSE o)
      /\ capture' = [capture EXCEPT !.pending = p, !.f = f]
      /\ generation' = (IF switches THEN [L!Cleared(generation) EXCEPT !.target = "rx"] ELSE generation)
      /\ pending' = (IF switches THEN L!Unfocused ELSE pending)
      /\ taking' = (IF switches THEN L!NoAim ELSE taking)
      /\ UNCHANGED <<mode, io, posted, worker>>
  BY DEF L!SaveOptions
<1>2. /\ capture \in Frequencies /\ taking \in Aims /\ Previewed /\ Focused /\ Callsign
      /\ mode.on /\ ~screen.practice /\ capture.rf > 0 => capture.f = capture.rf
      /\ screen.practice \in BOOLEAN
  BY DEF DialInv, DialTypes, Telling, Previewed, Callsign
<1>3. f \in Positive /\ p \in Nat
  BY <1>2 DEF Frequencies, Positive
<1>4. Callsign' /\ screen'.practice = on
  <2>1. /\ {"practice", "call", "station", "stored", "entered"} \subseteq DOMAIN screen
        /\ screen.stored = screen.entered
        /\ IF screen.practice THEN screen.station = screen.entered ELSE screen.call = screen.entered
    BY <1>2 DEF Callsign
  <2>2. CASE leaving
    <3>1. screen' = L!Stored([screen EXCEPT !.practice = FALSE, !.call = screen.station])
      BY <1>1, <2>2 DEF L!Switched
    <3> DEFINE s == [screen EXCEPT !.practice = FALSE, !.call = screen.station]
    <3>2. screen' = [s EXCEPT !.stored = s.call]
      BY <2>1, <3>1 DEF L!Stored
    <3> QED
      BY <2>1, <2>2, <3>2 DEF Callsign
  <2>3. CASE ~leaving /\ switches
    <3>1. ~screen.practice /\ on
      BY <1>2, <2>3
    <3> DEFINE e == [screen EXCEPT !.call = c, !.entered = c]
               d == [e EXCEPT !.station = e.call]
               s == [d EXCEPT !.stored = d.call]
    <3>2. o = e
      BY <2>1, <2>3, <3>1
    <3>3. L!Stored(d) = s
      BY <2>1, <3>1 DEF L!Stored
    <3>4. L!Switched(o, on) = [s EXCEPT !.practice = TRUE]
      BY <3>1, <3>2, <3>3 DEF L!Switched
    <3>5. screen' = L!Stored([s EXCEPT !.practice = TRUE])
      BY <1>1, <2>3, <3>4
    <3>6. screen' = [s EXCEPT !.practice = TRUE]
      BY <2>1, <3>5 DEF L!Stored
    <3> QED
      BY <2>1, <3>1, <3>6 DEF Callsign
  <2>4. CASE ~switches
    <3>1. screen' = L!Stored(o) /\ ~leaving /\ screen.practice = on
      BY <1>1, <1>2, <2>4
    <3> DEFINE e == [screen EXCEPT !.call = c, !.entered = IF screen.practice THEN @ ELSE c]
    <3>2. o = e
      BY <3>1
    <3> HIDE DEF o, e
    <3>3. screen' = IF e.practice THEN e ELSE [e EXCEPT !.stored = e.call]
      BY <3>1, <3>2 DEF L!Stored
    <3> QED
      BY <2>1, <3>1, <3>3 DEF e, Callsign
  <2> QED
    BY <2>2, <2>3, <2>4
<1>5. Previewed'
  <2>1. Focused'
    BY <1>1, <1>2, FocusKept
  <2>2. CASE switches
    BY <1>1, <1>2, <2>1, <2>2, DialCleared
  <2>3. CASE ~switches
    <3>1. generation' = generation /\ screen'.practice = screen.practice
      BY <1>1, <1>2, <1>4, <2>3
    <3> QED
      BY <1>2, <2>1, <3>1, DialParts
  <2> QED
    BY <2>2, <2>3
<1> HIDE DEF p, f
<1>6. capture' = [f |-> f, rf |-> capture.rf, pending |-> p, young |-> capture.young]
  BY <1>1, <1>2 DEF Frequencies
<1>7. capture' \in Frequencies /\ capture'.rf = capture.rf /\ capture'.pending = p /\ capture'.f = f
  BY <1>2, <1>3, <1>6 DEF Frequencies
<1>8. mode.on /\ ~screen'.practice /\ capture.rf > 0 => f = capture.rf
  BY <1>2, <1>4 DEF f
<1>9. p \in {0, capture.pending} /\ (p # 0 => on = screen.practice)
  BY DEF p
<1>10. CASE switches
  BY <1>1, <1>2, <1>4, <1>5, <1>7, <1>8, <1>9, <1>10, NoAimIsAim, Forgotten
<1>11. CASE ~switches
  <2>1. /\ taking' = taking /\ screen'.practice = screen.practice /\ p = capture.pending /\ f = capture.f
    BY <1>1, <1>2, <1>4, <1>11 DEF p, f
  <2>2. capture' = capture
    BY <1>2, <1>6, <2>1 DEF Frequencies
  <2>3. DialTypes' /\ Telling' /\ Asking' /\ Straight'
    BY <1>1, <2>1, <2>2 DEF DialInv, DialTypes, Telling, Asking, OfHz, Straight, Claimed, L!Settled, Before
  <2> QED
    BY <1>4, <1>5, <2>3 DEF DialInv
<1> QED
  BY <1>10, <1>11

----------------------------------------------------------------------------
(* The K4 and the link. *)

LEMMA DialTelling ==
  ASSUME DialTypes, NEW m \in Reports, worker' = Append(worker, m)
  PROVE  /\ worker' \in Seq(Reports) /\ Len(worker') = Len(worker) + 1 /\ Len(worker) \in Nat /\ worker' # <<>>
         /\ \A i \in DOMAIN worker : i \in DOMAIN worker' /\ worker'[i] = worker[i] /\ i < Len(worker')
         /\ \A i \in DOMAIN worker' : (i \in DOMAIN worker /\ worker'[i] = worker[i]) \/ (i = Len(worker') /\ worker'[i] = m)
         /\ Len(worker') \in DOMAIN worker' /\ worker'[Len(worker')] = m
<1>1. worker \in Seq(Reports)
  BY DEF DialTypes
<1>2. Append(worker, m) \in Seq(Reports) /\ Len(Append(worker, m)) = Len(worker) + 1 /\ Append(worker, m) # <<>>
  BY <1>1
<1> QED
  BY <1>1, <1>2, Posting

LEMMA RadioTakesKeeps == DialInv /\ L!RadioTakes => DialInv'
<1> SUFFICES ASSUME DialInv, L!RadioTakes PROVE DialInv'
  OBVIOUS
<1> DEFINE h == Head(posted)
           m == [of |-> "hz", is |-> h]
<1>1. /\ posted # <<>> /\ posted' = Tail(posted) /\ io' = [io EXCEPT !.hz = h] /\ worker' = Append(worker, m)
      /\ UNCHANGED <<capture, mode, generation, pending, screen, taking>>
  BY DEF L!RadioTakes
<1>2. /\ DialTypes /\ posted \in Seq(Positive) /\ io \in K4s /\ worker \in Seq(Reports)
  BY DEF DialInv, DialTypes
<1>3. /\ DOMAIN posted = 1 .. Len(posted) /\ Len(posted) \in Nat /\ 1 \in DOMAIN posted /\ h = posted[1] /\ h \in Positive
      /\ Tail(posted) \in Seq(Positive) /\ Len(posted') = Len(posted) - 1
      /\ \A i \in DOMAIN posted' : i + 1 \in DOMAIN posted /\ posted'[i] = posted[i + 1] /\ i \in Nat /\ i > 0
      /\ \A i \in DOMAIN posted : i = 1 \/ (i - 1 \in DOMAIN posted' /\ posted'[i - 1] = posted[i])
      /\ (posted' = <<>> <=> Len(posted) = 1)
      /\ posted' # <<>> => Len(posted') \in DOMAIN posted'
  <2>1. h = posted[1] /\ posted[1] \in Positive /\ Len(posted) \in Nat /\ DOMAIN posted = 1 .. Len(posted) /\ Len(posted) > 0
    BY <1>1, <1>2
  <2>2. Tail(posted) \in Seq(Positive) /\ Len(Tail(posted)) = Len(posted) - 1
    BY <1>1, <1>2
  <2>3. (Tail(posted) = <<>> <=> Len(Tail(posted)) = 0) /\ Len(Tail(posted)) \in Nat /\ DOMAIN Tail(posted) = 1 .. Len(Tail(posted))
    BY <2>2
  <2>4. /\ \A i \in DOMAIN Tail(posted) : i + 1 \in DOMAIN posted /\ Tail(posted)[i] = posted[i + 1]
        /\ \A i \in DOMAIN posted : i = 1 \/ (i - 1 \in DOMAIN Tail(posted) /\ Tail(posted)[i - 1] = posted[i])
    BY <1>1, <1>2, Taking
  <2>5. posted' = Tail(posted)
    BY <1>1
  <2>6. 1 \in DOMAIN posted /\ (\A i \in DOMAIN Tail(posted) : i \in Nat /\ i > 0)
    BY <2>1, <2>3
  <2>7. (Tail(posted) = <<>> <=> Len(posted) = 1) /\ (Tail(posted) # <<>> => Len(Tail(posted)) \in DOMAIN Tail(posted))
    BY <2>1, <2>2, <2>3
  <2> QED
    BY <2>1, <2>2, <2>4, <2>5, <2>6, <2>7
<1>4. m \in Reports /\ m.of = "hz" /\ m.is = h
  BY <1>3 DEF Reports
<1> HIDE DEF m, h
<1>5. /\ worker' \in Seq(Reports) /\ Len(worker') = Len(worker) + 1 /\ Len(worker) \in Nat /\ worker' # <<>>
      /\ \A i \in DOMAIN worker : i \in DOMAIN worker' /\ worker'[i] = worker[i] /\ i < Len(worker')
      /\ \A i \in DOMAIN worker' : (i \in DOMAIN worker /\ worker'[i] = worker[i]) \/ (i = Len(worker') /\ worker'[i] = m)
      /\ Len(worker') \in DOMAIN worker' /\ worker'[Len(worker')] = m
  BY <1>1, <1>2, <1>4, DialTelling
<1>6. io' \in K4s /\ io'.hz = h
  <2>1. io' = [hz |-> h, mode |-> io.mode, tx |-> io.tx]
    BY <1>1, <1>2 DEF K4s
  <2> QED
    BY <1>2, <1>3, <2>1 DEF K4s
<1>7. DialTypes'
  BY <1>1, <1>2, <1>3, <1>5, <1>6 DEF DialTypes
<1>8. mode.on
  BY <1>1 DEF DialInv, Telling
<1>9. Telling'
  <2>1. \E i \in DOMAIN worker' : worker'[i].of = "hz"
    BY <1>4, <1>5
  <2>2. \A i \in DOMAIN worker' : worker'[i].of = "hz" /\ (\A j \in DOMAIN worker' : j > i => ~(worker'[j].of = "hz")) =>
          worker'[i].is = h
    BY <1>4, <1>5
  <2> QED
    BY <1>1, <1>6, <1>8, <2>1, <2>2 DEF DialInv, Telling, OfHz
<1>10. Asking'
  <2> SUFFICES ASSUME capture.pending > 0
               PROVE  /\ mode.on /\ ~screen.practice
                      /\ \/ \E i \in DOMAIN posted' : posted'[i] = capture.pending
                         \/ \E i \in DOMAIN worker' : worker'[i].of = "hz" /\ worker'[i].is = capture.pending
    BY <1>1 DEF Asking, OfHz
  <2>1. CASE \E i \in DOMAIN posted : posted[i] = capture.pending
    <3>1. PICK i \in DOMAIN posted : posted[i] = capture.pending
      BY <2>1
    <3>2. CASE i = 1
      BY <1>3, <1>4, <1>5, <3>1, <3>2 DEF DialInv, Asking
    <3>3. CASE i # 1
      BY <1>3, <3>1, <3>3 DEF DialInv, Asking
    <3> QED
      BY <3>2, <3>3
  <2>2. CASE \E i \in DOMAIN worker : worker[i].of = "hz" /\ worker[i].is = capture.pending
    BY <1>5, <2>2 DEF DialInv, Asking
  <2> QED
    BY <2>1, <2>2 DEF DialInv, Asking, OfHz
<1>11. Straight'
  <2> SUFFICES ASSUME Claimed
               PROVE  /\ IF posted' = <<>> THEN h = taking.hz ELSE posted'[Len(posted')] = taking.hz
                      /\ capture.young /\ capture.pending = taking.hz
                      /\ \A i \in DOMAIN worker' : worker'[i].of = "hz"
                      /\ \A i \in DOMAIN posted' : i < Len(posted') => Before(posted'[i])
                      /\ \A i \in DOMAIN worker' : posted' # <<>> \/ i < Len(worker') => Before(worker'[i].is)
    BY <1>1, <1>6 DEF Straight, Claimed, Before, OfHz, L!Settled
  <2>1. /\ posted[Len(posted)] = taking.hz /\ capture.young /\ capture.pending = taking.hz
        /\ \A i \in DOMAIN worker : worker[i].of = "hz"
        /\ \A i \in DOMAIN posted : i < Len(posted) => Before(posted[i])
        /\ \A i \in DOMAIN worker : Before(worker[i].is)
    BY <1>1 DEF DialInv, Straight, OfHz, L!Settled
  <2>2. IF posted' = <<>> THEN h = taking.hz ELSE posted'[Len(posted')] = taking.hz
    BY <1>3, <2>1
  <2>3. \A i \in DOMAIN posted' : i < Len(posted') => Before(posted'[i])
    BY <1>3, <2>1
  <2>4. posted' # <<>> => Before(h)
    BY <1>3, <2>1
  <2>5. \A i \in DOMAIN worker' : posted' # <<>> \/ i < Len(worker') => Before(worker'[i].is)
    BY <1>4, <1>5, <2>1, <2>4
  <2> QED
    BY <1>4, <1>5, <2>1, <2>2, <2>3, <2>5
<1>12. Callsign' /\ Previewed'
  BY <1>1 DEF DialInv, Callsign, Previewed, Focused
<1> QED
  BY <1>7, <1>9, <1>10, <1>11, <1>12 DEF DialInv

\* A change at the K4's panel; the phone hears of it if it is connected.
LEMMA ReportsKeep == DialInv /\ (L!PanelTunes \/ L!PanelMode \/ L!Keys) => DialInv'
<1> SUFFICES ASSUME DialInv, L!PanelTunes \/ L!PanelMode \/ L!Keys PROVE DialInv'
  OBVIOUS
<1>1. /\ DialTypes /\ io \in K4s /\ io.hz \in Positive /\ io.hz + 1 \in Positive /\ io.mode \in L!ModeOf /\ io.tx \in BOOLEAN
      /\ mode.on \in BOOLEAN /\ worker \in Seq(Reports)
  BY DEF DialInv, DialTypes, K4s, Positive, Heard
<1>2. PICK m \in Reports :
        /\ worker' = (IF mode.on THEN Append(worker, m) ELSE worker)
        /\ io' \in K4s /\ io'.hz = (IF m.of = "hz" THEN m.is ELSE io.hz)
        /\ taking' = L!NoAim /\ UNCHANGED <<capture, mode, generation, pending, screen, posted>>
  <2>1. CASE L!PanelTunes
    <3>1. [of |-> "hz", is |-> io.hz + 1] \in Reports
      BY <1>1 DEF Reports
    <3>2. /\ worker' = (IF mode.on THEN Append(worker, [of |-> "hz", is |-> io.hz + 1]) ELSE worker)
          /\ io' = [io EXCEPT !.hz = io.hz + 1]
          /\ taking' = L!NoAim /\ UNCHANGED <<capture, mode, generation, pending, screen, posted>>
      BY <2>1 DEF L!PanelTunes, L!Reports
    <3>3. io' = [hz |-> io.hz + 1, mode |-> io.mode, tx |-> io.tx]
      BY <1>1, <3>2 DEF K4s
    <3>4. io' \in K4s /\ io'.hz = io.hz + 1
      BY <1>1, <3>3 DEF K4s
    <3> QED
      BY <3>1, <3>2, <3>4
  <2>2. CASE L!PanelMode
    <3>1. PICK k \in L!ModeOf \ {io.mode} : L!Reports("mode", k)
      BY <2>2 DEF L!PanelMode
    <3>2. [of |-> "mode", is |-> k] \in Reports
      BY <3>1 DEF Reports
    <3>3. /\ worker' = (IF mode.on THEN Append(worker, [of |-> "mode", is |-> k]) ELSE worker)
          /\ io' = [io EXCEPT !.mode = k]
          /\ taking' = L!NoAim /\ UNCHANGED <<capture, mode, generation, pending, screen, posted>>
      BY <3>1 DEF L!Reports
    <3>4. io' \in K4s /\ io'.hz = io.hz
      BY <1>1, <3>1, <3>3 DEF K4s
    <3> QED
      BY <3>2, <3>3, <3>4
  <2>3. CASE L!Keys
    <3>1. [of |-> "tx", is |-> ~io.tx] \in Reports
      BY <1>1 DEF Reports
    <3>2. /\ worker' = (IF mode.on THEN Append(worker, [of |-> "tx", is |-> ~io.tx]) ELSE worker)
          /\ io' = [io EXCEPT !.tx = ~io.tx]
          /\ taking' = L!NoAim /\ UNCHANGED <<capture, mode, generation, pending, screen, posted>>
      BY <2>3 DEF L!Keys, L!Reports
    <3>3. io' \in K4s /\ io'.hz = io.hz
      BY <1>1, <3>2 DEF K4s
    <3> QED
      BY <3>1, <3>2, <3>3
  <2> QED
    BY <2>1, <2>2, <2>3
<1>3. Straight' /\ Callsign' /\ Previewed' /\ taking' \in Aims
  BY <1>2, NoAimIsAim DEF DialInv, Straight, Claimed, Callsign, Previewed, Focused
<1>4. CASE ~mode.on
  <2>1. posted = <<>> /\ worker = <<>> /\ DOMAIN worker = {}
    BY <1>4 DEF DialInv, Telling
  <2>2. Telling'
    BY <1>2, <1>4, <2>1 DEF DialInv, Telling
  <2> QED
    BY <1>1, <1>2, <1>3, <1>4, <2>2 DEF DialInv, DialTypes, Asking, OfHz
<1>5. CASE mode.on
  <2>1. /\ worker' \in Seq(Reports) /\ Len(worker') = Len(worker) + 1 /\ Len(worker) \in Nat /\ worker' # <<>>
        /\ \A i \in DOMAIN worker : i \in DOMAIN worker' /\ worker'[i] = worker[i] /\ i < Len(worker')
        /\ \A i \in DOMAIN worker' : (i \in DOMAIN worker /\ worker'[i] = worker[i]) \/ (i = Len(worker') /\ worker'[i] = m)
        /\ Len(worker') \in DOMAIN worker' /\ worker'[Len(worker')] = m
    BY <1>1, <1>2, <1>5, DialTelling
  <2>2. \A i \in DOMAIN worker' : ~(i > Len(worker'))
    BY <2>1
  <2>3. ~(\E i \in DOMAIN worker' : worker'[i].of = "hz") => capture.rf = io'.hz
    <3> SUFFICES ASSUME ~(\E i \in DOMAIN worker' : worker'[i].of = "hz") PROVE capture.rf = io'.hz
      OBVIOUS
    <3>1. m.of # "hz" /\ ~\E i \in DOMAIN worker : worker[i].of = "hz"
      BY <2>1
    <3> QED
      BY <1>2, <1>5, <3>1 DEF DialInv, Telling, OfHz
  <2>4. ASSUME NEW i \in DOMAIN worker', worker'[i].of = "hz", \A j \in DOMAIN worker' : j > i => ~(worker'[j].of = "hz")
        PROVE  worker'[i].is = io'.hz
    <3>1. CASE m.of = "hz"
      <4>1. ~(Len(worker') > i)
        BY <2>1, <2>4, <3>1
      <4>2. i = Len(worker')
        BY <2>1, <4>1
      <4> QED
        BY <1>2, <2>1, <3>1, <4>2
    <3>2. CASE m.of # "hz"
      <4>1. i \in DOMAIN worker /\ worker'[i] = worker[i]
        BY <2>1, <2>4, <3>2
      <4>2. \A j \in DOMAIN worker : j > i => ~(worker[j].of = "hz")
        BY <2>1, <2>4
      <4> QED
        BY <1>2, <2>4, <3>2, <4>1, <4>2 DEF DialInv, Telling, OfHz
    <3> QED
      BY <3>1, <3>2
  <2>5. Telling'
    BY <1>2, <1>5, <2>3, <2>4 DEF DialInv, Telling, OfHz
  <2>6. DialTypes'
    BY <1>1, <1>2, <1>3, <2>1 DEF DialTypes
  <2>7. Asking'
    BY <1>2, <2>1 DEF DialInv, Asking, OfHz
  <2> QED
    BY <1>3, <2>5, <2>6, <2>7 DEF DialInv
<1> QED
  BY <1>1, <1>4, <1>5

\* What a report makes of what the screen shows.
LEMMA StateSet ==
  ASSUME DialInv, NEW on \in BOOLEAN, NEW hz \in Nat, NEW k \in L!ModeOf \cup {"?"}, NEW tx \in BOOLEAN,
         L!SetRadioState(on, hz, k, tx), screen' = screen
  PROVE  /\ mode' = [on |-> on, mode |-> k, tx |-> tx] /\ mode' \in Heard /\ mode'.on = on
         /\ capture' \in Frequencies /\ capture'.rf = hz /\ Previewed'
         /\ capture'.pending \in {0, capture.pending} /\ (hz = capture.pending => capture'.pending = 0)
         /\ on # mode.on => capture'.pending = 0
         /\ (on <=> mode.on) /\ k = mode.mode /\ (tx <=> mode.tx) /\ hz # capture.pending => capture'.pending = capture.pending
         /\ capture'.young = capture.young
         /\ ~screen.practice /\ hz > 0 => capture'.f = hz \/ (hz = capture.rf /\ on = mode.on /\ capture'.f = capture.f)
<1> DEFINE other == on # mode.on \/ k # mode.mode \/ tx # mode.tx
           changed == on # mode.on \/ k # mode.mode \/ hz # capture.rf
           p == IF other \/ hz = capture.pending THEN 0 ELSE capture.pending
           f == IF ~screen.practice /\ changed /\ hz > 0 THEN hz ELSE capture.f
           keeps == on = mode.on /\ generation.commit
           d == IF ~other THEN generation
                ELSE [generation EXCEPT !.preview = FALSE, !.target = IF keeps THEN @ ELSE "rx",
                                        !.last = IF keeps THEN @ ELSE "rx"]
<1>1. /\ mode' = [on |-> on, mode |-> k, tx |-> tx]
      /\ capture' = [capture EXCEPT !.rf = hz, !.pending = p, !.f = f]
      /\ generation' = IF ~screen.practice /\ changed THEN L!Cleared(d) ELSE d
      /\ pending' = IF ~screen.practice /\ changed THEN L!Unfocused ELSE pending
  BY DEF L!SetRadioState
<1>2. capture \in Frequencies /\ mode \in Heard /\ Previewed /\ Focused
  BY DEF DialInv, DialTypes, Previewed
<1>3. p \in Nat /\ f \in Positive
  BY <1>2 DEF Frequencies, Positive
<1>4. p \in {0, capture.pending} /\ (hz = capture.pending => p = 0) /\ (on # mode.on => p = 0)
      /\ ((on <=> mode.on) /\ k = mode.mode /\ (tx <=> mode.tx) /\ hz # capture.pending => p = capture.pending)
      /\ (~screen.practice /\ hz > 0 => f = hz \/ (hz = capture.rf /\ on = mode.on /\ f = capture.f))
  <2>1. mode.on \in BOOLEAN /\ mode.tx \in BOOLEAN
    BY <1>2 DEF Heard
  <2> QED
    BY <2>1
<1>5. Previewed'
  <2>1. d = generation \/ \E t, l : d = [generation EXCEPT !.preview = FALSE, !.target = t, !.last = l]
    OBVIOUS
  <2>2. Focused'
    BY <1>1, <1>2, FocusKept
  <2> HIDE DEF d
  <2>3. CASE generation' = d
    BY <1>2, <2>1, <2>2, <2>3, DialParts
  <2>4. CASE generation' = L!Cleared(d)
    BY <1>2, <2>1, <2>2, <2>4, DialCleared
  <2> QED
    BY <1>1, <2>3, <2>4
<1> HIDE DEF p, f, other, changed
<1>6. capture' = [f |-> f, rf |-> hz, pending |-> p, young |-> capture.young]
  BY <1>1, <1>2 DEF Frequencies
<1>7. capture' \in Frequencies /\ capture'.rf = hz /\ capture'.pending = p /\ capture'.f = f /\ capture'.young = capture.young
  BY <1>2, <1>3, <1>6 DEF Frequencies
<1>8. mode' \in Heard /\ mode'.on = on
  BY <1>1 DEF Heard
<1> QED
  BY <1>1, <1>4, <1>5, <1>7, <1>8

\* The phone takes the first report.
LEMMA DialTaking ==
  ASSUME DialTypes, worker # <<>>, worker' = Tail(worker)
  PROVE  /\ worker' \in Seq(Reports) /\ Len(worker') = Len(worker) - 1 /\ Len(worker) \in Nat /\ 1 \in DOMAIN worker
         /\ Head(worker) = worker[1] /\ worker[1] \in Reports
         /\ \A i \in DOMAIN worker' : i + 1 \in DOMAIN worker /\ worker'[i] = worker[i + 1] /\ i \in Nat /\ i > 0
         /\ \A i \in DOMAIN worker : i \in Nat /\ (i = 1 \/ (i - 1 \in DOMAIN worker' /\ worker'[i - 1] = worker[i]))
         /\ (worker' # <<>> => 1 < Len(worker))
<1>1. worker \in Seq(Reports)
  BY DEF DialTypes
<1>2. Tail(worker) \in Seq(Reports) /\ Len(Tail(worker)) = Len(worker) - 1
  BY <1>1
<1>3. Len(worker) \in Nat /\ DOMAIN worker = 1 .. Len(worker) /\ Len(worker) > 0
  BY <1>1
<1>4. 1 \in DOMAIN worker /\ worker[1] \in Reports
  BY <1>1, <1>3
<1>5. /\ Head(worker) = worker[1]
      /\ \A i \in DOMAIN Tail(worker) : i + 1 \in DOMAIN worker /\ Tail(worker)[i] = worker[i + 1] /\ i \in Nat /\ i > 0
      /\ \A i \in DOMAIN worker : i = 1 \/ (i - 1 \in DOMAIN Tail(worker) /\ Tail(worker)[i - 1] = worker[i])
  BY <1>1, Taking
<1>6. Tail(worker) # <<>> => 1 < Len(worker)
  <2>1. Len(Tail(worker)) = 0 => Tail(worker) = <<>>
    BY <1>2
  <2> QED
    BY <1>2, <1>3, <2>1
<1>7. \A i \in DOMAIN worker : i \in Nat
  BY <1>3
<1> QED
  BY <1>2, <1>3, <1>4, <1>5, <1>6, <1>7

LEMMA PhoneTakesKeeps == DialInv /\ L!PhoneTakes => DialInv'
<1> SUFFICES ASSUME DialInv, L!PhoneTakes PROVE DialInv'
  OBVIOUS
<1> DEFINE m == worker[1]
           hz == IF m.of = "hz" THEN m.is ELSE capture.rf
           k == IF m.of = "mode" THEN m.is ELSE mode.mode
           on == IF m.of = "tx" THEN m.is ELSE mode.tx
<1>1. /\ worker # <<>> /\ worker' = Tail(worker) /\ UNCHANGED <<screen, io, posted, taking>>
  BY DEF L!PhoneTakes
<1>2. DialTypes /\ capture \in Frequencies /\ capture.rf \in Nat /\ capture.pending \in Nat /\ mode \in Heard /\ mode.mode \in L!ModeOf \cup {"?"}
      /\ mode.tx \in BOOLEAN /\ mode.on \in BOOLEAN /\ io \in K4s /\ taking \in Aims /\ taking.hz \in Nat
      /\ screen.practice \in BOOLEAN
  BY DEF DialInv, DialTypes, Frequencies, Heard, Aims, Callsign
<1>3. /\ worker' \in Seq(Reports) /\ Len(worker') = Len(worker) - 1 /\ Len(worker) \in Nat /\ 1 \in DOMAIN worker
      /\ Head(worker) = worker[1] /\ worker[1] \in Reports
      /\ \A i \in DOMAIN worker' : i + 1 \in DOMAIN worker /\ worker'[i] = worker[i + 1] /\ i \in Nat /\ i > 0
      /\ \A i \in DOMAIN worker : i \in Nat /\ (i = 1 \/ (i - 1 \in DOMAIN worker' /\ worker'[i - 1] = worker[i]))
      /\ (worker' # <<>> => 1 < Len(worker))
  BY <1>1, <1>2, DialTaking
<1>4. L!SetRadioState(TRUE, hz, k, on)
  BY <1>3 DEF L!PhoneTakes
<1>5. hz \in Nat /\ k \in L!ModeOf \cup {"?"} /\ on \in BOOLEAN
  BY <1>2, <1>3 DEF Reports, Positive
<1>6. mode.on
  BY <1>1, <1>2 DEF DialInv, Telling
<1>7. m.of = "hz" => hz = m.is /\ k = mode.mode /\ (on <=> mode.tx) /\ hz \in Positive
  BY <1>2, <1>3 DEF Reports
<1>8. m.of # "hz" => hz = capture.rf
  OBVIOUS
<1> HIDE DEF hz, k, on
<1>9. /\ mode' \in Heard /\ mode'.on = TRUE
      /\ capture' \in Frequencies /\ capture'.rf = hz /\ Previewed'
      /\ capture'.pending \in {0, capture.pending} /\ (hz = capture.pending => capture'.pending = 0)
      /\ (k = mode.mode /\ (on <=> mode.tx) /\ hz # capture.pending => capture'.pending = capture.pending)
      /\ capture'.young = capture.young
      /\ (~screen.practice /\ hz > 0 => capture'.f = hz \/ (hz = capture.rf /\ capture'.f = capture.f))
  BY <1>1, <1>4, <1>5, <1>6, StateSet
<1>10. DialTypes' /\ Callsign'
  BY <1>1, <1>2, <1>3, <1>9 DEF DialInv, DialTypes, Callsign
<1>11. Telling'
  <2>1. ASSUME ~(\E i \in DOMAIN worker' : worker'[i].of = "hz") PROVE hz = io.hz
    <3>1. \A j \in DOMAIN worker : j > 1 => ~(worker[j].of = "hz")
      BY <1>3, <2>1
    <3>2. CASE m.of = "hz"
      BY <1>3, <1>7, <3>1, <3>2 DEF DialInv, Telling, OfHz
    <3>3. CASE m.of # "hz"
      <4>1. ~\E j \in DOMAIN worker : worker[j].of = "hz"
        BY <1>3, <2>1, <3>3
      <4> QED
        BY <1>6, <1>8, <3>3, <4>1 DEF DialInv, Telling, OfHz
    <3> QED
      BY <3>2, <3>3
  <2>2. ASSUME NEW i \in DOMAIN worker', worker'[i].of = "hz", \A j \in DOMAIN worker' : j > i => ~(worker'[j].of = "hz")
        PROVE  worker'[i].is = io.hz
    <3>1. \A j \in DOMAIN worker : j > i + 1 => ~(worker[j].of = "hz")
      <4> SUFFICES ASSUME NEW j \in DOMAIN worker, j > i + 1 PROVE ~(worker[j].of = "hz")
        OBVIOUS
      <4>1. i \in Nat /\ i > 0 /\ j \in Nat
        BY <1>3
      <4>2. j # 1 /\ j - 1 > i
        BY <4>1
      <4> QED
        BY <1>3, <2>2, <4>2
    <3>2. i + 1 \in DOMAIN worker /\ worker'[i] = worker[i + 1]
      BY <1>3
    <3> QED
      BY <2>2, <3>1, <3>2 DEF DialInv, Telling, OfHz
  <2>3. ~screen.practice /\ hz > 0 => capture'.f = hz
    BY <1>6, <1>9 DEF DialInv, Telling
  <2> QED
    BY <1>1, <1>9, <2>1, <2>2, <2>3 DEF Telling, OfHz
<1>12. Asking'
  <2> SUFFICES ASSUME capture'.pending > 0
               PROVE  /\ ~screen.practice
                      /\ \/ \E i \in DOMAIN posted : posted[i] = capture.pending
                         \/ \E i \in DOMAIN worker' : worker'[i].of = "hz" /\ worker'[i].is = capture.pending
    BY <1>1, <1>2, <1>9 DEF Asking, OfHz
  <2>1. capture'.pending = capture.pending /\ capture.pending > 0 /\ hz # capture.pending
    BY <1>9
  <2>2. /\ ~screen.practice
        /\ \/ \E i \in DOMAIN posted : posted[i] = capture.pending
           \/ \E i \in DOMAIN worker : worker[i].of = "hz" /\ worker[i].is = capture.pending
    BY <2>1 DEF DialInv, Asking, OfHz
  <2>3. ASSUME NEW i \in DOMAIN worker, worker[i].of = "hz", worker[i].is = capture.pending
        PROVE  \E j \in DOMAIN worker' : worker'[j].of = "hz" /\ worker'[j].is = capture.pending
    BY <1>3, <1>7, <2>1, <2>3
  <2> QED
    BY <2>2, <2>3
<1>13. Straight'
  <2> SUFFICES ASSUME Claimed
               PROVE  /\ IF posted = <<>> THEN io.hz = taking.hz ELSE posted[Len(posted)] = taking.hz
                      /\ ~(posted = <<>> /\ worker' = <<>>) => capture'.young /\ capture'.pending = taking.hz
                      /\ \A i \in DOMAIN worker' : worker'[i].of = "hz"
                      /\ \A i \in DOMAIN posted : i < Len(posted) => Before(posted[i])
                      /\ \A i \in DOMAIN worker' : posted # <<>> \/ i < Len(worker') => Before(worker'[i].is)
    BY <1>1, <1>6, <1>9 DEF Straight, Claimed, Before, OfHz, L!Settled
  <2>1. /\ IF posted = <<>> THEN io.hz = taking.hz ELSE posted[Len(posted)] = taking.hz
        /\ capture.young /\ capture.pending = taking.hz
        /\ \A i \in DOMAIN worker : worker[i].of = "hz"
        /\ \A i \in DOMAIN posted : i < Len(posted) => Before(posted[i])
        /\ \A i \in DOMAIN worker : posted # <<>> \/ i < Len(worker) => Before(worker[i].is)
    BY <1>1 DEF DialInv, Straight, OfHz, L!Settled
  <2>2. \A i \in DOMAIN worker' : worker'[i].of = "hz"
    BY <1>3, <2>1
  <2>3. \A i \in DOMAIN worker' : posted # <<>> \/ i < Len(worker') => Before(worker'[i].is)
    <3> SUFFICES ASSUME NEW i \in DOMAIN worker', posted # <<>> \/ i < Len(worker') PROVE Before(worker'[i].is)
      OBVIOUS
    <3>1. i + 1 \in DOMAIN worker /\ worker'[i] = worker[i + 1] /\ i \in Nat
      BY <1>3
    <3>2. posted # <<>> \/ i + 1 < Len(worker)
      BY <1>3, <3>1
    <3> QED
      BY <2>1, <3>1, <3>2
  <2>4. ASSUME ~(posted = <<>> /\ worker' = <<>>) PROVE capture'.pending = taking.hz
    <3>1. Before(m.is)
      BY <1>3, <2>1, <2>4
    <3>2. hz # taking.hz
      BY <1>2, <1>3, <1>5, <1>7, <2>1, <3>1 DEF Before
    <3> QED
      BY <1>3, <1>7, <1>9, <2>1, <3>2
  <2> QED
    BY <1>9, <2>1, <2>2, <2>3, <2>4
<1> QED
  BY <1>9, <1>10, <1>11, <1>12, <1>13 DEF DialInv

\* Without the link nothing is under way; a new one begins with what the K4 has.
LEMMA DisconnectKeeps == DialInv /\ L!Disconnect => DialInv'
<1> SUFFICES ASSUME DialInv, L!Disconnect PROVE DialInv'
  OBVIOUS
<1>1. /\ mode.on /\ L!SetRadioState(FALSE, 0, "?", FALSE) /\ posted' = <<>> /\ worker' = <<>> /\ taking' = L!NoAim
      /\ UNCHANGED <<screen, io>>
  BY DEF L!Disconnect
<1>2. /\ mode' \in Heard /\ mode'.on = FALSE /\ capture' \in Frequencies /\ Previewed' /\ capture'.pending = 0
  BY <1>1, StateSet
<1>3. posted' \in Seq(Positive) /\ worker' \in Seq(Reports)
  BY <1>1
<1>4. DialTypes'
  BY <1>1, <1>2, <1>3, NoAimIsAim DEF DialInv, DialTypes
<1>5. Telling' /\ Asking' /\ Straight'
  BY <1>1, <1>2 DEF Telling, Asking, Straight, Claimed
<1>6. Callsign'
  BY <1>1 DEF DialInv, Callsign
<1> QED
  BY <1>2, <1>4, <1>5, <1>6 DEF DialInv

LEMMA ConnectKeeps == DialInv /\ L!Connect => DialInv'
<1> SUFFICES ASSUME DialInv, L!Connect PROVE DialInv'
  OBVIOUS
<1> DEFINE a == [of |-> "hz", is |-> io.hz]
           b == [of |-> "mode", is |-> io.mode]
           c == [of |-> "tx", is |-> TRUE]
<1>1. /\ ~mode.on /\ L!SetRadioState(TRUE, 0, "?", FALSE) /\ taking' = L!NoAim /\ UNCHANGED <<screen, io, posted>>
      /\ worker' = <<a, b>> \o (IF io.tx THEN <<c>> ELSE <<>>)
  BY DEF L!Connect
<1>2. /\ mode' \in Heard /\ mode'.on = TRUE /\ capture' \in Frequencies /\ capture'.rf = 0 /\ Previewed' /\ capture'.pending = 0
  <2>1. TRUE # mode.on
    BY <1>1
  <2> QED
    BY <1>1, <2>1, StateSet
<1>3. io \in K4s /\ io.hz \in Positive /\ io.mode \in L!ModeOf
  BY DEF DialInv, DialTypes, K4s
<1>4. a \in Reports /\ b \in Reports /\ c \in Reports
  BY <1>3 DEF Reports
<1>5. a.of = "hz" /\ a.is = io.hz /\ b.of = "mode" /\ c.of = "tx"
  OBVIOUS
<1> HIDE DEF a, b, c
<1>6. PICK t \in Seq(Reports) : worker' = <<a, b>> \o t /\ \A i \in DOMAIN t : t[i] = c
  <2>1. <<c>> \in Seq(Reports) /\ <<>> \in Seq(Reports)
    BY <1>4
  <2>2. \A i \in DOMAIN <<c>> : <<c>>[i] = c
    OBVIOUS
  <2>3. \A i \in DOMAIN <<>> : <<>>[i] = c
    OBVIOUS
  <2>4. CASE io.tx
    BY <1>1, <2>1, <2>2, <2>4
  <2>5. CASE ~io.tx
    BY <1>1, <2>1, <2>3, <2>5
  <2> QED
    BY <2>4, <2>5
<1>7. /\ worker' \in Seq(Reports) /\ 1 \in DOMAIN worker' /\ worker'[1] = a
      /\ \A i \in DOMAIN worker' : i = 1 \/ worker'[i] \in {b, c}
  <2>1. <<a, b>> \in Seq(Reports) /\ Len(<<a, b>>) = 2 /\ <<a, b>>[1] = a /\ <<a, b>>[2] = b
    BY <1>4
  <2>2. worker' \in Seq(Reports) /\ Len(worker') = 2 + Len(t) /\ Len(t) \in Nat
    BY <1>6, <2>1
  <2>3. \A i \in 1 .. Len(worker') : worker'[i] = IF i <= 2 THEN <<a, b>>[i] ELSE t[i - 2]
    BY <1>6, <2>1
  <2>4. DOMAIN worker' = 1 .. Len(worker') /\ DOMAIN t = 1 .. Len(t)
    BY <2>2
  <2>5. ASSUME NEW i \in DOMAIN worker' PROVE i = 1 \/ worker'[i] \in {b, c}
    <3>1. i = 1 \/ i = 2 \/ (i > 2 /\ i - 2 \in DOMAIN t)
      BY <2>2, <2>4
    <3> QED
      BY <1>6, <2>1, <2>2, <2>3, <2>4, <3>1
  <2> QED
    BY <2>1, <2>2, <2>3, <2>4, <2>5
<1>8. DialTypes'
  BY <1>1, <1>2, <1>7, NoAimIsAim DEF DialInv, DialTypes
<1>9. Telling'
  BY <1>1, <1>2, <1>5, <1>7 DEF Telling, OfHz
<1>10. Asking' /\ Straight' /\ Callsign'
  BY <1>1, <1>2 DEF DialInv, Asking, Straight, Claimed, Callsign, L!NoAim
<1> QED
  BY <1>2, <1>8, <1>9, <1>10 DEF DialInv

----------------------------------------------------------------------------
(* The whole part. *)
OfDial == part = "dial" => DialInv

LEMMA DialSteps == OfDial /\ [AllNext]_all => OfDial'
<1> SUFFICES ASSUME OfDial, [AllNext]_all PROVE OfDial'
  OBVIOUS
<1>1. part' = part
  BY DEF AllNext, Receiver, Mirror, Policy, Tuning, TxSlot, all
<1>2. CASE part # "dial"
  BY <1>1, <1>2 DEF OfDial
<1>3. CASE part = "dial" /\ UNCHANGED all
  <2>1. UNCHANGED <<capture, mode, generation, pending, screen, io, posted, worker, taking>>
    BY <1>3 DEF all, vars
  <2>2. DialInv /\ Previewed'
    BY <1>3, <2>1 DEF OfDial, DialInv, Previewed, Focused
  <2> QED
    BY <2>1, <2>2, DialQuiet DEF OfDial
<1>4. CASE part = "dial" /\ AllNext
  <2>1. ~Mirror /\ ~Receiver /\ ~Policy /\ ~TxSlot /\ DialInv
    BY <1>4 DEF Mirror, Receiver, Policy, TxSlot, OfDial
  <2>2. \/ \E step \in {-1, 1} : L!TuneRf(step)
        \/ L!EnterFrequency \/ L!Ages \/ L!PhoneTakes \/ L!RadioTakes
        \/ L!PanelTunes \/ L!PanelMode \/ L!Keys \/ L!Disconnect \/ L!Connect \/ L!SelectDigit
        \/ \E t \in {"rx", "tx"} : L!BeginDialAdjustment(t)
        \/ \E step \in {-1, 1} : L!TuneTone(step)
        \/ L!CommitDialAdjustment
        \/ \E hz \in DialTones : L!SelectStation(hz)
        \/ \E hz \in DialTones, held \in BOOLEAN : L!Tap(hz, held)
        \/ L!BeginSlot
        \/ \E success \in BOOLEAN : L!FinishLiveTransmit(success)
        \/ \E c \in DialCallsigns, on \in BOOLEAN : L!SaveOptions(c, on)
        \/ L!ChangeMode \/ L!Suspend
    BY <1>4, <2>1 DEF AllNext
  <2>3. DialInv'
    BY <2>1, <2>2, TuneRfKeeps, EnterKeeps, LeavingKeeps, PhoneTakesKeeps, RadioTakesKeeps, ReportsKeep, DisconnectKeeps,
       ConnectKeeps, TonesKeep, OptionsKeep
  <2> QED
    BY <2>3 DEF OfDial
<1> QED
  BY <1>2, <1>3, <1>4

LEMMA DialStarts == AllInit => OfDial
  BY DialBegins DEF AllInit, OfDial

\* Once phone and K4 have told each other everything, the screen shows the K4's frequency,
\* and the detents turned in one direction have brought it where they lead; the callsigns
\* are the operator's; and Set makes the tone previewed the one it was previewed for.
THEOREM ShowsTheDial == AllSpec => []DialIsTrue
<1>1. OfDial => DialIsTrue
  <2> SUFFICES ASSUME DialInv PROVE L!ShownIsTrue /\ L!DetentsAddUp
    BY DEF OfDial, DialIsTrue
  <2>1. L!Arrived => capture.f = io.hz
    <3> SUFFICES ASSUME L!Arrived PROVE capture.f = io.hz
      OBVIOUS
    <3>1. mode.on /\ ~screen.practice /\ worker = <<>>
      BY DEF L!Arrived, L!Settled
    <3>2. io.hz \in Nat /\ io.hz > 0
      BY DEF DialInv, DialTypes, K4s, Positive
    <3>3. capture.rf = io.hz
      BY <3>1 DEF DialInv, Telling
    <3> QED
      BY <3>1, <3>2, <3>3 DEF DialInv, Telling
  <2>2. screen.stored = screen.entered /\ (~screen.practice => screen.call = screen.entered)
    BY DEF DialInv, Callsign
  <2>3. /\ generation.preview => generation.commit /\ generation.for = <<generation.target, screen.practice>>
        /\ pending.focus \in {0, pending.rx}
    BY DEF DialInv, Previewed, Focused
  <2>4. L!DetentsAddUp
    BY DEF DialInv, Straight, Claimed, L!DetentsAddUp, L!Arrived, L!Settled
  <2> QED
    BY <2>1, <2>2, <2>3, <2>4 DEF L!ShownIsTrue
<1> QED
  BY <1>1, DialStarts, DialSteps, PTL DEF AllSpec

----------------------------------------------------------------------------
(***************************************************************************)
(* The copy of the K4's settings.  RadioMirror's names in the variables: f *)
(* is capture, link mode, radio generation, toRadio pending, toPhone ui,   *)
(* mirror screen, shown io, fresh posted, due worker, crossed taking,      *)
(* behind heard, left signals.  The settings are any whose rows are sane.  *)
(***************************************************************************)
Commands == [op : {"get", "set", "nudge"}, arg : Int]

\* The codes the K4 can have.
Codes ==
  {c \in Int : M!Row.tens = 10 /\ ~M!Row.clamps => c \div 10 \in M!Row.low .. M!Row.high}

Sendable(c) == c \in Commands /\ (c.op = "set" => c.arg \in Codes) /\ (c.op = "nudge" => Nudged(M!Row))
Queued ==
  /\ pending \in Seq(Commands) /\ \A i \in DOMAIN pending : Sendable(pending[i])
  /\ mode = "down" => pending = <<>>

MirTypes ==
  /\ capture \in DOMAIN Rows /\ mode \in {"down", "up"} /\ generation \in Codes /\ ui \in Seq(Int) /\ (mode = "down" => ui = <<>>)
  /\ screen \in Int /\ io \in Int /\ posted \in BOOLEAN /\ worker \in {"no", "set", "zoom", "get"} /\ taking \in BOOLEAN
  /\ heard \in BOOLEAN /\ signals \in 0 .. MirrorLimit /\ Queued
  /\ posted => M!Row.guarded
  /\ worker = "set" => \E d \in M!Row.dials : d.how = "later"
  /\ worker = "zoom" => \E d \in M!Row.dials : d.how = "zoom"

\* A value of the copy: within what a handler or a dial allows, in whole units, or what reset() left.
InRange(v) ==
  \/ v \div M!Row.tens \in (M!Row.low * M!Row.unit) .. (M!Row.high * M!Row.unit)
  \/ \E d \in M!Row.dials : v \div M!Row.tens \in d.low .. d.high
Copied(v) == v \in Int /\ (v = M!Row.reset \/ (InRange(v) /\ (M!Row.unit = 10 => v % 10 = 0)))

\* Where the commands under way lead the K4, one after the other.
Moved(c, v) ==
  IF c.op = "set" THEN c.arg
  ELSE IF c.op = "nudge" THEN Bounded(M!Row.low, v \div M!Row.tens + c.arg, M!Row.high) * M!Row.tens + (v % M!Row.tens)
  ELSE v
Leads(p) == /\ Len(p) = Len(pending) + 1 /\ p[1] = generation
            /\ \A i \in DOMAIN pending : p[i + 1] = Moved(pending[i], p[i])
Agrees(c) == M!Stored(c) \in {<<>>, <<screen>>}

\* Unless a command and a report have passed each other or a control has left the copy
\* behind: a query is behind all commands,
\* behind the last report the K4 has not changed, and without either the commands lead
\* to what the copy has.
Asked == \E i \in DOMAIN pending : pending[i].op = "get"
Passing ==
  mode = "up" /\ ~taking /\ ~heard =>
    /\ Asked => pending[Len(pending)].op = "get"
    /\ ui # <<>> /\ ~Asked => pending = <<>> /\ ui[Len(ui)] = generation
    /\ ui = <<>> /\ ~Asked => \E p \in Seq(Codes) : Leads(p) /\ (worker = "no" => Agrees(p[Len(p)]))

\* A widget that is cleared to another value than its copy is reset to waits for a report.
Waits ==
  /\ Awaited(M!Row) /\ screen = M!Row.reset
  /\ mode = "up" =>
       /\ generation \in M!Row.codes /\ (Asked \/ ui # <<>>)
       /\ \A i \in DOMAIN pending : pending[i].op = "set" => pending[i].arg \in M!Row.codes
       /\ \A i \in DOMAIN ui : ui[i] \in M!Row.codes
Showing == M!Together => io = screen \/ Waits

MirInv == MirTypes /\ Copied(screen) /\ Passing /\ Showing

----------------------------------------------------------------------------
(* Codes and values. *)
LEMMA RowIsSane == capture \in DOMAIN Rows => Sane(M!Row)
  BY SettingsAreSane DEF M!Row

LEMMA RowStays ==
  capture' = capture =>
       /\ M!Row' = M!Row /\ Codes' = Codes
       /\ \A v : InRange(v)' <=> InRange(v)
       /\ \A v : Copied(v)' <=> Copied(v)
       /\ \A c : M!Stored(c)' = M!Stored(c)
       /\ \A c, v : Moved(c, v)' = Moved(c, v)
       /\ M!Together' = M!Together
<1> SUFFICES ASSUME capture' = capture
             PROVE
       /\ M!Row' = M!Row /\ Codes' = Codes
       /\ \A v : InRange(v)' <=> InRange(v)
       /\ \A v : Copied(v)' <=> Copied(v)
       /\ \A c : M!Stored(c)' = M!Stored(c)
       /\ \A c, v : Moved(c, v)' = Moved(c, v)
       /\ M!Together' = M!Together
  OBVIOUS
<1>1. M!Row' = M!Row
  BY DEF M!Row
<1>2. Codes' = Codes
  BY <1>1 DEF Codes
<1>3. \A v : InRange(v)' <=> InRange(v)
  BY <1>1 DEF InRange
<1>4. \A v : Copied(v)' <=> Copied(v)
  BY <1>1, <1>3 DEF Copied
<1>5. \A c : M!Stored(c)' = M!Stored(c)
  BY <1>1 DEF M!Stored
<1>6. \A c, v : Moved(c, v)' = Moved(c, v)
  BY <1>1 DEF Moved
<1> QED
  BY <1>1, <1>2, <1>3, <1>4, <1>5, <1>6 DEF M!Together

LEMMA Rounded ==
  ASSUME NEW low \in Int, NEW v \in Int, NEW high \in Int, low <= high
  PROVE  Bounded(low, v, high) \in low .. high /\ Bounded(low, v, high) \in Int /\ (v \in low .. high => Bounded(low, v, high) = v)
  BY DEF Bounded

\* A level and its flag are told from a value.
LEMMA TwoParts ==
  /\ \A v \in Int : v \div 1 = v /\ v % 1 = 0
  /\ \A v \in Int : v \div 10 \in Int /\ v % 10 \in 0 .. 9 /\ v = (v \div 10) * 10 + (v % 10)
  /\ \A l \in Int, k \in 0 .. 9 : (l * 10 + k) \div 10 = l /\ (l * 10 + k) % 10 = k /\ l * 10 + k \in Int
  /\ \A v \in Int : v % 10 = 0 => (v \div 10) * 10 = v
  /\ \A v \in Int : (v * 10) % 10 = 0 /\ v * 10 \in Int
<1>1. \A v \in Int : v \div 1 = v /\ v % 1 = 0
  OBVIOUS
<1>2. \A v \in Int : v \div 10 \in Int /\ v % 10 \in 0 .. 9 /\ v = (v \div 10) * 10 + (v % 10)
  OBVIOUS
<1>3. \A l \in Int, k \in 0 .. 9 : (l * 10 + k) \div 10 = l /\ (l * 10 + k) % 10 = k /\ l * 10 + k \in Int
  OBVIOUS
<1>4. \A v \in Int : (v * 10) % 10 = 0 /\ v * 10 \in Int
  OBVIOUS
<1> QED
  BY <1>1, <1>2, <1>3, <1>4

\* What a handler makes of a code is a value of the copy.
LEMMA Stores ==
  ASSUME capture \in DOMAIN Rows, NEW c \in Int
  PROVE  /\ M!Stored(c) = <<>> \/ \E x \in Int : /\ M!Stored(c) = <<x>> /\ Copied(x)
                                                 /\ M!Row.tens = 10 => x % 10 = c % 10
                                                 /\ M!Row.tens = 10 /\ ~M!Row.clamps => x = c
         /\ c \in Codes /\ M!Row.tens = 10 => M!Stored(c) # <<>>
         /\ Awaited(M!Row) /\ c \in M!Row.codes => M!Stored(c) # <<>> /\ M!Stored(c) # <<M!Row.reset>>
<1> DEFINE r == M!Row
           l == c \div r.tens
           x == IF r.clamps THEN Bounded(r.low, l, r.high) * r.tens + (c % r.tens) ELSE c * r.unit
<1>1. Sane(r)
  BY RowIsSane
<1>2. /\ r.tens = 1 \/ (r.tens = 10 /\ r.unit = 1)
      /\ r.unit = 1 \/ (r.unit = 10 /\ r.tens = 1 /\ ~r.clamps)
      /\ r.low \in Int /\ r.high \in Int /\ r.low <= r.high /\ r.reset \in Int /\ r.clamps \in BOOLEAN
      /\ \A k \in r.codes : SaneCode(r, k)
      /\ Awaited(r) /\ r.clamps => r.tens = 1
  BY <1>1 DEF Sane
<1>3. M!Stored(c) = IF r.clamps \/ l \in r.low .. r.high THEN <<x>> ELSE <<>>
  BY DEF M!Stored, M!Bounded, Bounded
<1> DEFINE b == Bounded(r.low, l, r.high)
           g == c % r.tens
<1>11. /\ l \in Int /\ g \in 0 .. 9 /\ c = l * r.tens + g /\ (r.tens = 1 => l = c /\ g = 0)
      /\ b \in r.low .. r.high /\ b \in Int
      /\ x = (IF r.clamps THEN b * r.tens + g ELSE c * r.unit)
  <2>1. l \in Int /\ g \in 0 .. 9 /\ c = l * r.tens + g /\ (r.tens = 1 => l = c /\ g = 0)
    <3>1. CASE r.tens = 1
      BY <3>1
    <3>2. CASE r.tens = 10
      BY <3>2, TwoParts
    <3> QED
      BY <1>2, <3>1, <3>2
  <2>2. b \in r.low .. r.high /\ b \in Int
    <3> HIDE DEF l
    <3>1. r.low \in Int /\ r.high \in Int /\ r.low <= r.high /\ l \in Int
      BY <1>2, <2>1
    <3> QED
      BY <3>1, Rounded
  <2> QED
    BY <2>1, <2>2
<1> HIDE DEF x, b, g
<1>4. x \in Int /\ l \in Int
  <2>1. CASE r.tens = 1
    BY <1>2, <1>11, <2>1
  <2>2. CASE r.tens = 10
    BY <1>2, <1>11, <2>2
  <2> QED
    BY <1>2, <2>1, <2>2
<1>5. ASSUME r.clamps \/ l \in r.low .. r.high PROVE Copied(x)
  <2>1. CASE r.tens = 1 /\ r.unit = 1
    <3>1. x \in r.low .. r.high
      BY <1>2, <1>5, <1>11, <2>1
    <3>2. x \div 1 = x /\ r.low * 1 = r.low /\ r.high * 1 = r.high
      BY <1>2, <1>4
    <3> QED
      BY <1>4, <2>1, <3>1, <3>2 DEF Copied, InRange
  <2>2. CASE r.tens = 10
    <3>1. x \div 10 \in r.low .. r.high
      BY <1>2, <1>5, <1>11, <2>2
    <3>2. r.low * 1 = r.low /\ r.high * 1 = r.high
      BY <1>2
    <3> QED
      BY <1>2, <1>4, <2>2, <3>1, <3>2 DEF Copied, InRange
  <2>3. CASE r.unit = 10
    <3>1. c \in r.low .. r.high /\ x = c * 10
      BY <1>2, <1>5, <1>11, <2>3
    <3>2. x \div 1 = x /\ x \in (r.low * 10) .. (r.high * 10) /\ x % 10 = 0
      BY <1>2, <3>1
    <3> QED
      BY <1>2, <1>4, <2>3, <3>2 DEF Copied, InRange
  <2> QED
    BY <1>2, <2>1, <2>2, <2>3
<1>6. r.tens = 10 => x % 10 = c % 10
  BY <1>2, <1>11 DEF g
<1>7. r.tens = 10 /\ ~r.clamps => x = c
  BY <1>2, <1>11
<1>8. c \in Codes /\ r.tens = 10 => r.clamps \/ l \in r.low .. r.high
  BY <1>2 DEF Codes
<1>9. Awaited(r) /\ c \in r.codes => (r.clamps \/ l \in r.low .. r.high) /\ x # r.reset
  <2> SUFFICES ASSUME Awaited(r), c \in r.codes PROVE (r.clamps \/ l \in r.low .. r.high) /\ x # r.reset
    OBVIOUS
  <2>1. r.clamps => r.tens = 1 /\ l = c /\ c % 1 = 0
    BY <1>2, TwoParts
  <2>2. IF r.clamps THEN Bounded(r.low, c, r.high) # r.reset ELSE l \in r.low..r.high /\ c * r.unit # r.reset
    BY <1>2 DEF SaneCode
  <2>3. Bounded(r.low, c, r.high) \in Int
    BY <1>2, Rounded
  <2> QED
    BY <2>1, <2>2, <2>3, <1>11 DEF b
<1> HIDE DEF l
<1>10. <<x>> # <<>> /\ (x # r.reset => <<x>> # <<r.reset>>)
  OBVIOUS
<1> QED
  BY <1>3, <1>4, <1>5, <1>6, <1>7, <1>8, <1>9, <1>10

\* What a dial sends, and makes of the copy.
LEMMA SendsValue ==
  ASSUME capture \in DOMAIN Rows, screen \in Int, NEW d \in M!Row.dials,
         NEW l \in d.low .. d.high, M!Row.unit = 10 => l % 10 = 0, NEW v, v = l * M!Row.tens + M!Flags
  PROVE  /\ M!Set(l, M!Flags) = [op |-> "set", arg |-> v \div M!Row.unit] /\ M!Set(l, M!Flags) \in Commands
         /\ v \div M!Row.unit \in Codes /\ Copied(v) /\ M!Stored(v \div M!Row.unit) \in {<<>>, <<v>>}
         /\ Awaited(M!Row) => v # M!Row.reset
         /\ M!Row.tens = 10 => (v \div M!Row.unit) % 10 = screen % 10
<1> DEFINE r == M!Row
           k == screen % r.tens
           a == v \div r.unit
<1>1. Sane(r)
  BY RowIsSane
<1>2. /\ r.tens = 1 \/ (r.tens = 10 /\ r.unit = 1)
      /\ r.unit = 1 \/ (r.unit = 10 /\ r.tens = 1 /\ ~r.clamps)
      /\ r.low \in Int /\ r.high \in Int /\ r.low <= r.high /\ r.clamps \in BOOLEAN
      /\ SaneDial(r, d) /\ r.reset \in Int
  BY <1>1 DEF Sane
<1>3. /\ d.low \in Int /\ d.high \in Int /\ l \in Int /\ d.low <= l /\ l <= d.high
      /\ (r.clamps \/ r.tens = 10 => r.low <= d.low /\ d.high <= r.high)
      /\ Awaited(r) => r.reset \div r.tens \notin d.low .. d.high
  BY <1>2 DEF SaneDial
<1>4. M!Flags = k /\ M!Set(l, M!Flags) = [op |-> "set", arg |-> a]
  BY DEF M!Set, M!Flags
<1>5. CASE r.tens = 1 /\ r.unit = 1
  <2>1. k = 0 /\ v = l /\ v \in Int /\ a = v /\ v \div 1 = v
    BY <1>3, <1>4, <1>5
  <2>2. InRange(v)
    BY <1>5, <2>1 DEF InRange
  <2>3. M!Stored(v) \in {<<>>, <<v>>}
    <3>1. v \div 1 = v /\ v % 1 = 0 /\ v * 1 = v
      BY <2>1
    <3>2. r.clamps => Bounded(r.low, v, r.high) = v
      BY <1>2, <1>3, <2>1 DEF Bounded
    <3>3. CASE r.clamps
      BY <1>5, <2>1, <3>1, <3>2, <3>3 DEF M!Stored, M!Bounded, Bounded
    <3>4. CASE ~r.clamps
      BY <1>5, <2>1, <3>1, <3>4 DEF M!Stored
    <3> QED
      BY <3>3, <3>4
  <2> QED
    BY <1>3, <1>4, <1>5, <2>1, <2>2, <2>3 DEF Codes, Copied, Commands
<1>6. CASE r.tens = 10
  <2>1. k \in 0 .. 9 /\ v = l * 10 + k /\ v \in Int /\ v \div 10 = l /\ v % 10 = k /\ a = v
    BY <1>2, <1>3, <1>4, <1>6, TwoParts
  <2>2. r.low <= l /\ l <= r.high
    BY <1>2, <1>3, <1>6
  <2>3. InRange(v)
    BY <1>6, <2>1 DEF InRange
  <2>4. M!Stored(v) \in {<<>>, <<v>>}
    <3>1. v * 1 = v
      BY <2>1
    <3>2. Bounded(r.low, l, r.high) = l
      BY <1>2, <1>3, <2>2 DEF Bounded
    <3>3. CASE r.clamps
      BY <1>2, <1>6, <2>1, <3>2, <3>3 DEF M!Stored, M!Bounded, Bounded
    <3>4. CASE ~r.clamps
      BY <1>2, <1>6, <2>1, <3>1, <3>4 DEF M!Stored
    <3> QED
      BY <3>3, <3>4
  <2>5. v \in Codes
    BY <1>2, <1>3, <1>6, <2>1, <2>2 DEF Codes
  <2>6. Awaited(r) => v # r.reset
    BY <1>3, <1>6, <2>1
  <2> QED
    BY <1>2, <1>4, <1>6, <2>1, <2>3, <2>4, <2>5, <2>6 DEF Copied, Commands
<1>7. CASE r.unit = 10
  <2>1. k = 0 /\ v = l /\ v \in Int /\ v % 10 = 0 /\ r.tens = 1
    BY <1>2, <1>3, <1>4, <1>7
  <2>2. a \in Int /\ a * 10 = v /\ v \div 1 = v /\ a \div 1 = a
    BY <1>7, <2>1
  <2>3. InRange(v)
    BY <2>1, <2>2 DEF InRange
  <2>4. M!Stored(a) \in {<<>>, <<v>>}
    BY <1>2, <1>7, <2>1, <2>2 DEF M!Stored
  <2> QED
    BY <1>2, <1>3, <1>4, <1>7, <2>1, <2>2, <2>3, <2>4 DEF Codes, Copied, Commands
<1> QED
  BY <1>2, <1>5, <1>6, <1>7

----------------------------------------------------------------------------
(* Commands. *)

LEMMA Joins ==
  ASSUME NEW X, NEW q \in Seq(X), NEW c \in X
  PROVE  /\ q \o <<c>> \in Seq(X) /\ Len(q \o <<c>>) = Len(q) + 1 /\ Len(q) \in Nat /\ q \o <<c>> # <<>>
         /\ DOMAIN q = 1 .. Len(q) /\ DOMAIN (q \o <<c>>) = 1 .. Len(q) + 1
         /\ \A i \in DOMAIN q : (q \o <<c>>)[i] = q[i]
         /\ (q \o <<c>>)[Len(q) + 1] = c
<1>1. <<c>> \in Seq(X) /\ Len(<<c>>) = 1 /\ <<c>>[1] = c
  OBVIOUS
<1>2. q \o <<c>> \in Seq(X) /\ Len(q \o <<c>>) = Len(q) + 1 /\ Len(q) \in Nat /\ DOMAIN q = 1 .. Len(q)
  BY <1>1
<1>3. \A i \in 1 .. Len(q) + 1 : (q \o <<c>>)[i] = IF i <= Len(q) THEN q[i] ELSE <<c>>[i - Len(q)]
  BY <1>1, <1>2
<1>4. \A i \in DOMAIN q : (q \o <<c>>)[i] = q[i]
  BY <1>2, <1>3
<1>5. (q \o <<c>>)[Len(q) + 1] = c
  <2>1. Len(q) + 1 \in 1 .. Len(q) + 1 /\ ~(Len(q) + 1 <= Len(q)) /\ (Len(q) + 1) - Len(q) = 1
    BY <1>2
  <2> QED
    BY <1>1, <1>3, <2>1
<1>6. DOMAIN (q \o <<c>>) = 1 .. Len(q) + 1 /\ q \o <<c>> # <<>>
  BY <1>2
<1> QED
  BY <1>2, <1>4, <1>5, <1>6

LEMMA Moves ==
  ASSUME capture \in DOMAIN Rows, NEW c, Sendable(c), c.op # "get", NEW v \in Codes
  PROVE  Moved(c, v) \in Codes
<1>1. CASE c.op = "set"
  BY <1>1 DEF Moved, Sendable
<1>2. CASE c.op = "nudge"
  <2>1. Sane(M!Row) /\ c.arg \in Int /\ v \in Int
    BY <1>2, RowIsSane DEF Sendable, Commands, Codes
  <2>2. /\ M!Row.tens \in {1, 10} /\ M!Row.low \in Int /\ M!Row.high \in Int /\ M!Row.low <= M!Row.high
    BY <2>1 DEF Sane
  <2> DEFINE l == v \div M!Row.tens
             g == v % M!Row.tens
             b == Bounded(M!Row.low, l + c.arg, M!Row.high)
  <2>3. l \in Int /\ g \in 0 .. 9 /\ (M!Row.tens = 1 => g = 0)
    BY <2>1, <2>2
  <2>4. b \in M!Row.low .. M!Row.high /\ b \in Int
    <3> HIDE DEF l
    <3>1. l + c.arg \in Int
      BY <2>1, <2>3
    <3> QED
      BY <2>2, <3>1, Rounded
  <2>5. Moved(c, v) = b * M!Row.tens + g
    BY <1>2 DEF Moved
  <2> HIDE DEF b, g, l
  <2>6. CASE M!Row.tens = 1
    BY <2>3, <2>4, <2>5, <2>6 DEF Codes
  <2>7. CASE M!Row.tens = 10
    <3>1. Moved(c, v) \in Int /\ Moved(c, v) \div 10 = b
      BY <2>3, <2>4, <2>5, <2>7
    <3> QED
      BY <2>4, <2>7, <3>1 DEF Codes
  <2> QED
    BY <2>2, <2>6, <2>7
<1> QED
  BY <1>1, <1>2 DEF Sendable, Commands

\* One command that is no query: if it passes no report, it goes on from where those before it lead.
LEMMA SendsOne ==
  ASSUME MirTypes, Passing, NEW c, Sendable(c), c.op # "get", NEW b \in BOOLEAN, M!Send(<<c>>, b), UNCHANGED <<capture, mode, generation, ui>>
  PROVE  /\ Queued' /\ taking' \in BOOLEAN /\ heard' \in BOOLEAN
         /\ mode = "up" /\ ~b => heard'
         /\ mode = "up" /\ ~taking' /\ ~heard' =>
              /\ ui = <<>> /\ ~Asked /\ ~Asked'
              /\ \E p \in Seq(Codes), v \in Codes : Leads(p)' /\ p[Len(p)] = Moved(c, v) /\ (worker = "no" => Agrees(v))
<1> DEFINE n == Len(pending)
<1>7. PICK q : q = pending \o <<c>>
  OBVIOUS
<1>1. /\ pending' = (IF mode = "up" THEN q ELSE pending)
      /\ taking' = (IF mode = "down" THEN taking ELSE taking \/ M!Answering)
      /\ heard' = (IF mode = "down" THEN heard ELSE heard \/ ~b)
  <2>1. <<c>> # <<>> /\ <<c>>[Len(<<c>>)] = c
    OBVIOUS
  <2> QED
    BY <1>7, <2>1 DEF M!Send, MirTypes
<1>2. /\ c \in Commands /\ pending \in Seq(Commands) /\ taking \in BOOLEAN /\ heard \in BOOLEAN /\ mode \in {"up", "down"} /\ generation \in Codes
      /\ \A i \in DOMAIN pending : Sendable(pending[i])
      /\ capture \in DOMAIN Rows
  BY DEF MirTypes, Queued, Sendable
<1>3. /\ q \in Seq(Commands) /\ Len(q) = n + 1 /\ n \in Nat
      /\ DOMAIN pending = 1 .. n /\ DOMAIN q = 1 .. n + 1
      /\ \A i \in DOMAIN pending : q[i] = pending[i]
      /\ q[n + 1] = c
  BY <1>2, <1>7, Joins
<1> HIDE DEF n
<1>4. \A d : Sendable(d)' <=> Sendable(d)
  BY RowStays DEF Sendable, Codes
<1>5. Queued'
  <2>1. CASE mode = "up"
    <3>1. pending' = q
      BY <1>1, <2>1
    <3>2. \A i \in DOMAIN q : Sendable(q[i])
      BY <1>2, <1>3
    <3> QED
      BY <1>3, <1>4, <2>1, <3>1, <3>2 DEF Queued
  <2>2. CASE mode = "down"
    BY <1>1, <1>2, <1>4, <2>2 DEF Queued, MirTypes
  <2> QED
    BY <1>2, <2>1, <2>2
<1>6. ASSUME mode = "up", ~taking', ~heard'
      PROVE  /\ ui = <<>> /\ ~Asked /\ ~Asked'
             /\ \E p \in Seq(Codes), v \in Codes : Leads(p)' /\ p[Len(p)] = Moved(c, v) /\ (worker = "no" => Agrees(v))
  <2>1. pending' = q /\ ~taking /\ ~heard /\ ~M!Answering
    BY <1>1, <1>2, <1>6
  <2>2. ui = <<>> /\ ~Asked
    BY <2>1 DEF M!Answering, Asked
  <2>3. ~Asked'
    <3>1. \A i \in DOMAIN q : q[i].op # "get"
      BY <1>3, <2>2 DEF Asked
    <3> QED
      BY <2>1, <3>1 DEF Asked
  <2>4. PICK p \in Seq(Codes) : Leads(p) /\ (worker = "no" => Agrees(p[Len(p)]))
    BY <1>6, <2>1, <2>2 DEF Passing
  <2>5. Len(p) = n + 1 /\ p[1] = generation /\ (\A i \in DOMAIN pending : p[i + 1] = Moved(pending[i], p[i])) /\ DOMAIN p = 1 .. n + 1
    BY <2>4 DEF Leads, n
  <2>11. PICK v : v = p[Len(p)]
    OBVIOUS
  <2>12. PICK w : w = Moved(c, v)
    OBVIOUS
  <2>13. PICK s : s = Append(p, w)
    OBVIOUS
  <2>6. v \in Codes
    BY <1>3, <2>5, <2>11
  <2>7. w \in Codes
    BY <1>2, <2>6, <2>12, Moves
  <2>8. /\ s \in Seq(Codes) /\ Len(s) = n + 2 /\ s[n + 2] = w
        /\ \A i \in 1 .. n + 1 : s[i] = p[i]
    <3>1. Len(p) \in Nat /\ Len(p) = n + 1 /\ n \in Nat
      BY <1>3, <2>5
    <3>2. Append(p, w) \in Seq(Codes)
      BY <2>7
    <3>3. Len(Append(p, w)) = Len(p) + 1 /\ Append(p, w)[Len(p) + 1] = w /\ \A i \in 1 .. Len(p) : Append(p, w)[i] = p[i]
      BY <2>7
    <3> QED
      BY <2>13, <3>1, <3>2, <3>3
  <2>9. Leads(s)'
    <3>1. Len(s) = Len(q) + 1 /\ s[1] = generation
      BY <1>3, <2>5, <2>8
    <3>2. ASSUME NEW i \in DOMAIN q PROVE s[i + 1] = Moved(q[i], s[i])
      <4>1. CASE i = n + 1
        <5>1. s[i + 1] = w /\ s[i] = v /\ q[i] = c
          BY <1>3, <2>5, <2>8, <2>11, <4>1
        <5> QED
          BY <2>12, <5>1
      <4>2. CASE i \in DOMAIN pending
        BY <1>3, <2>5, <2>8, <4>2
      <4>3. i = n + 1 \/ i \in DOMAIN pending
        BY <1>3
      <4> QED
        BY <4>1, <4>2, <4>3
    <3>3. \A i \in DOMAIN q : Moved(q[i], s[i])' = Moved(q[i], s[i])
      BY RowStays
    <3> QED
      BY <2>1, <3>1, <3>2, <3>3, RowStays DEF Leads
  <2>10. s[Len(s)] = Moved(c, v) /\ (worker = "no" => Agrees(v))
    BY <1>3, <2>4, <2>8, <2>11, <2>12
  <2> QED
    BY <2>2, <2>3, <2>6, <2>8, <2>9, <2>10
<1> QED
  BY <1>1, <1>2, <1>5, <1>6

LEMMA JoinsAll ==
  ASSUME NEW X, NEW q \in Seq(X), NEW s \in Seq(X)
  PROVE  /\ q \o s \in Seq(X) /\ Len(q \o s) = Len(q) + Len(s) /\ Len(q) \in Nat /\ Len(s) \in Nat
         /\ DOMAIN q = 1 .. Len(q) /\ DOMAIN s = 1 .. Len(s) /\ DOMAIN (q \o s) = 1 .. Len(q) + Len(s)
         /\ \A i \in DOMAIN q : (q \o s)[i] = q[i]
         /\ \A j \in DOMAIN s : (q \o s)[Len(q) + j] = s[j]
         /\ \A i \in DOMAIN (q \o s) : i \in DOMAIN q \/ \E j \in DOMAIN s : i = Len(q) + j
<1>1. q \o s \in Seq(X) /\ Len(q \o s) = Len(q) + Len(s) /\ Len(q) \in Nat /\ Len(s) \in Nat
  OBVIOUS
<1>2. DOMAIN q = 1 .. Len(q) /\ DOMAIN s = 1 .. Len(s) /\ DOMAIN (q \o s) = 1 .. Len(q) + Len(s)
  BY <1>1
<1>3. \A i \in 1 .. Len(q) + Len(s) : (q \o s)[i] = IF i <= Len(q) THEN q[i] ELSE s[i - Len(q)]
  BY <1>1
<1>4. \A i \in DOMAIN q : (q \o s)[i] = q[i]
  BY <1>1, <1>2, <1>3
<1>5. ASSUME NEW j \in DOMAIN s PROVE (q \o s)[Len(q) + j] = s[j]
  <2>1. Len(q) + j \in 1 .. Len(q) + Len(s) /\ ~(Len(q) + j <= Len(q)) /\ (Len(q) + j) - Len(q) = j
    BY <1>1, <1>2
  <2> QED
    BY <1>3, <2>1
<1>6. ASSUME NEW i \in DOMAIN (q \o s), i \notin DOMAIN q PROVE \E j \in DOMAIN s : i = Len(q) + j
  <2>1. i - Len(q) \in DOMAIN s /\ i = Len(q) + (i - Len(q))
    BY <1>1, <1>2, <1>6
  <2> QED
    BY <2>1
<1> QED
  BY <1>1, <1>2, <1>4, <1>5, <1>6

\* Commands with a query behind them.
LEMMA SendsGet ==
  ASSUME MirTypes, NEW s \in Seq(Commands), s # <<>>, s[Len(s)].op = "get", \A j \in DOMAIN s : Sendable(s[j]),
         M!Send(s, TRUE), UNCHANGED <<capture, mode, generation, ui>>
  PROVE  /\ Queued' /\ taking' \in BOOLEAN /\ heard' \in BOOLEAN /\ Passing' /\ (mode = "up" => Asked')
         /\ \A i \in DOMAIN pending' : \/ i \in DOMAIN pending /\ pending'[i] = pending[i]
                                       \/ \E j \in DOMAIN s : pending'[i] = s[j]
<1>1. PICK q : q = pending \o s
  OBVIOUS
<1>2. /\ pending \in Seq(Commands) /\ taking \in BOOLEAN /\ heard \in BOOLEAN /\ mode \in {"up", "down"}
      /\ \A i \in DOMAIN pending : Sendable(pending[i])
  BY DEF MirTypes, Queued
<1>3. /\ pending' = (IF mode = "up" THEN q ELSE pending)
      /\ taking' = (IF mode = "down" THEN taking ELSE FALSE)
      /\ heard' = (IF mode = "down" THEN heard ELSE FALSE)
  BY <1>1, <1>2 DEF M!Send
<1>4. /\ q \in Seq(Commands) /\ Len(q) = Len(pending) + Len(s) /\ Len(pending) \in Nat /\ Len(s) \in Nat
      /\ DOMAIN pending = 1 .. Len(pending) /\ DOMAIN s = 1 .. Len(s) /\ DOMAIN q = 1 .. Len(pending) + Len(s)
      /\ \A i \in DOMAIN pending : q[i] = pending[i]
      /\ \A j \in DOMAIN s : q[Len(pending) + j] = s[j]
      /\ \A i \in DOMAIN q : i \in DOMAIN pending \/ \E j \in DOMAIN s : i = Len(pending) + j
  BY <1>1, <1>2, JoinsAll
<1>5. \A d : Sendable(d)' <=> Sendable(d)
  BY RowStays DEF Sendable, Codes
<1>6. Len(s) >= 1 /\ Len(s) \in DOMAIN s /\ q[Len(q)].op = "get" /\ Len(q) \in DOMAIN q
  <2>1. Len(s) # 0
    BY <1>4
  <2>2. Len(s) >= 1 /\ Len(s) \in DOMAIN s
    BY <1>4, <2>1
  <2>3. q[Len(pending) + Len(s)] = s[Len(s)]
    BY <1>4, <2>2
  <2> QED
    BY <1>4, <2>2, <2>3
<1>7. \A i \in DOMAIN q : Sendable(q[i])
  BY <1>2, <1>4
<1>8. Queued'
  <2>1. CASE mode = "up"
    <3>1. pending' = q /\ mode' = "up"
      BY <1>3, <2>1
    <3> QED
      BY <1>4, <1>5, <1>7, <3>1 DEF Queued
  <2>2. CASE mode = "down"
    BY <1>2, <1>3, <1>5, <2>2 DEF Queued, MirTypes
  <2> QED
    BY <1>2, <2>1, <2>2
<1>9. mode = "up" => Asked' /\ pending'[Len(pending')].op = "get"
  <2> SUFFICES ASSUME mode = "up" PROVE Asked' /\ pending'[Len(pending')].op = "get"
    OBVIOUS
  <2>1. pending' = q
    BY <1>3
  <2> QED
    BY <1>6, <2>1 DEF Asked
<1>10. Passing'
  BY <1>2, <1>9 DEF Passing
<1>11. ASSUME NEW i \in DOMAIN pending'
       PROVE  \/ i \in DOMAIN pending /\ pending'[i] = pending[i]
              \/ \E j \in DOMAIN s : pending'[i] = s[j]
  <2>1. CASE mode = "up"
    <3>1. pending' = q
      BY <1>3, <2>1
    <3> QED
      BY <1>4, <1>11, <3>1
  <2>2. CASE mode = "down"
    BY <1>3, <1>11, <2>2
  <2> QED
    BY <1>2, <2>1, <2>2
<1> QED
  BY <1>2, <1>3, <1>8, <1>9, <1>10, <1>11

\* A command that leads the K4 to what the copy has.
LEMMA SendsOn ==
  ASSUME MirTypes, Passing, NEW c, Sendable(c), c.op # "get", NEW b \in BOOLEAN, M!Send(<<c>>, b), UNCHANGED <<capture, mode, generation, ui>>,
         b => \A v \in Codes : (worker = "no" => Agrees(v)) => (worker' = "no" => M!Stored(Moved(c, v)) \in {<<>>, <<screen'>>})
  PROVE  Queued' /\ taking' \in BOOLEAN /\ heard' \in BOOLEAN /\ Passing'
<1>1. /\ Queued' /\ taking' \in BOOLEAN /\ heard' \in BOOLEAN
      /\ mode = "up" /\ ~b => heard'
      /\ mode = "up" /\ ~taking' /\ ~heard' =>
           /\ ui = <<>> /\ ~Asked /\ ~Asked'
           /\ \E p \in Seq(Codes), v \in Codes : Leads(p)' /\ p[Len(p)] = Moved(c, v) /\ (worker = "no" => Agrees(v))
  BY SendsOne
<1>2. ASSUME mode' = "up", ~taking', ~heard'
      PROVE  ~Asked' /\ ui' = <<>> /\ \E p \in Seq(Codes)' : Leads(p)' /\ (worker' = "no" => Agrees(p[Len(p)])')
  <2>1. /\ ui = <<>> /\ ~Asked' /\ b
        /\ \E p \in Seq(Codes), v \in Codes : Leads(p)' /\ p[Len(p)] = Moved(c, v) /\ (worker = "no" => Agrees(v))
    BY <1>1, <1>2
  <2>2. PICK p \in Seq(Codes), v \in Codes : Leads(p)' /\ p[Len(p)] = Moved(c, v) /\ (worker = "no" => Agrees(v))
    BY <2>1
  <2>3. worker' = "no" => M!Stored(p[Len(p)]) \in {<<>>, <<screen'>>}
    BY <2>1, <2>2
  <2>4. worker' = "no" => Agrees(p[Len(p)])'
    BY <2>3, RowStays DEF Agrees
  <2> QED
    BY <2>1, <2>2, <2>4, RowStays
<1>3. Passing'
  BY <1>2 DEF Passing
<1> QED
  BY <1>1, <1>3

\* A setter of RadioState gives copy and widget a value that can be copied.
LEMMA SetCopy ==
  ASSUME MirTypes, Copied(screen), Showing, NEW v \in Int, Copied(v), Awaited(M!Row) => v # M!Row.reset,
         M!SetMirror(v), capture' = capture
  PROVE  /\ screen' = v /\ io' \in Int /\ Copied(screen)' /\ Showing'
         /\ posted' \in BOOLEAN /\ (posted' => M!Row'.guarded)
<1>1. screen' = v /\ io' = (IF v # screen THEN v ELSE io) /\ posted' = (posted \/ (M!Row.guarded /\ v # screen))
  BY DEF M!SetMirror
<1>2. screen \in Int /\ io \in Int /\ posted \in BOOLEAN /\ (posted => M!Row.guarded) /\ capture \in DOMAIN Rows
  BY DEF MirTypes
<1>3. M!Row.guarded \in BOOLEAN
  BY <1>2, RowIsSane DEF Sane
<1>4. M!Together => io' = v
  BY <1>1 DEF Showing, Waits
<1>5. Showing'
  BY <1>1, <1>4, RowStays DEF Showing
<1> QED
  BY <1>1, <1>2, <1>3, <1>5, RowStays

\* parseCATCommand.
LEMMA HearCopy ==
  ASSUME MirTypes, Copied(screen), NEW c \in Int, M!Hear(c), capture' = capture
  PROVE  /\ screen' \in Int /\ io' \in Int /\ Copied(screen)'
         /\ ~posted => M!Stored(c) \in {<<>>, <<screen'>>}
         /\ posted => screen' = screen
         /\ io = screen => io' = screen'
         /\ screen = M!Row.reset /\ ~posted /\ M!Stored(c) # <<>> /\ M!Stored(c) # <<M!Row.reset>> => io' = screen'
<1>1. screen \in Int /\ io \in Int /\ posted \in BOOLEAN /\ capture \in DOMAIN Rows
  BY DEF MirTypes
<1>2. CASE M!Stored(c) = <<>> \/ posted
  <2>1. screen' = screen /\ io' = io
    BY <1>2 DEF M!Hear
  <2> QED
    BY <1>1, <1>2, <2>1, RowStays
<1>3. CASE ~(M!Stored(c) = <<>> \/ posted)
  <2>1. PICK x \in Int : M!Stored(c) = <<x>> /\ Copied(x)
    BY <1>1, <1>3, Stores
  <2>2. screen' = x /\ io' = (IF M!Row.signal = "always" \/ x # screen THEN x ELSE io)
    BY <1>3, <2>1 DEF M!Hear
  <2> QED
    BY <1>1, <1>3, <2>1, <2>2, RowStays
<1> QED
  BY <1>2, <1>3

----------------------------------------------------------------------------
(* The connection and the K4. *)
LEMMA CodesAreCodes == capture \in DOMAIN Rows => M!Row.codes \subseteq Codes
  BY RowIsSane DEF Sane, SaneCode, Codes

LEMMA MirStarts == M!Init => MirInv
<1> SUFFICES ASSUME M!Init PROVE MirInv
  OBVIOUS
<1>1. /\ capture \in DOMAIN Rows /\ mode = "down" /\ generation \in M!Row.codes /\ pending = <<>> /\ ui = <<>>
      /\ screen = M!Row.reset /\ posted = FALSE /\ worker = "no" /\ taking = FALSE /\ heard = FALSE /\ signals = MirrorLimit
      /\ io = IF M!Row.clears = <<>> THEN M!Row.reset ELSE M!Row.clears[1]
  BY DEF M!Init
<1>2. /\ M!Row.reset \in Int /\ M!Row.keeps \in BOOLEAN /\ (M!Row.clears = <<>> \/ M!Row.clears[1] \in Int)
  BY <1>1, RowIsSane DEF Sane
<1>3. generation \in Codes
  BY <1>1, CodesAreCodes
<1>4. ui \in Seq(Int) /\ pending \in Seq(Commands) /\ DOMAIN pending = {}
  BY <1>1
<1>5. signals \in 0 .. MirrorLimit
  BY <1>1, SettingsAreSane
<1>6. MirTypes
  BY <1>1, <1>2, <1>3, <1>4, <1>5 DEF MirTypes, Queued
<1>7. Copied(screen)
  BY <1>1, <1>2 DEF Copied
<1>8. Showing
  BY <1>1, <1>2 DEF Showing, Waits, Awaited, M!Together
<1> QED
  BY <1>1, <1>6, <1>7, <1>8 DEF MirInv, Passing

LEMMA MirConnects == MirInv /\ M!Connect => MirInv'
<1> SUFFICES ASSUME MirInv, M!Connect PROVE MirInv'
  OBVIOUS
<1>1. /\ mode = "down" /\ mode' = "up" /\ generation' \in M!Row.codes /\ pending' = <<M!Get>> /\ taking' = FALSE /\ heard' = FALSE
      /\ signals > 0 /\ signals' = signals - 1 /\ UNCHANGED <<capture, ui, screen, io, posted, worker>>
  BY DEF M!Connect, M!Spends
<1>2. MirTypes /\ Copied(screen) /\ Showing
  BY DEF MirInv
<1>3. capture \in DOMAIN Rows /\ ui = <<>> /\ signals \in 0 .. MirrorLimit /\ MirrorLimit \in Nat
  BY <1>1, <1>2, SettingsAreSane DEF MirTypes
<1>4. generation' \in Codes
  BY <1>1, <1>3, CodesAreCodes
<1>5. M!Get \in Commands /\ M!Get.op = "get"
  BY DEF M!Get, Commands
<1>6. pending' \in Seq(Commands) /\ Len(pending') = 1 /\ DOMAIN pending' = {1} /\ pending'[1] = M!Get
  BY <1>1, <1>5
<1>7. Sendable(M!Get)
  BY <1>5 DEF Sendable
<1>8. Queued'
  BY <1>1, <1>6, <1>5 DEF Queued, Sendable
<1>9. Asked' /\ pending'[Len(pending')].op = "get"
  BY <1>5, <1>6 DEF Asked
<1>10. Passing'
  BY <1>9 DEF Passing
<1>11. Showing'
  <2>1. CASE M!Together /\ Waits
    <3>1. \A i \in DOMAIN pending' : pending'[i].op # "set"
      BY <1>5, <1>6
    <3>2. \A i \in DOMAIN ui' : FALSE
      BY <1>1, <1>3
    <3>3. Waits'
      BY <1>1, <1>9, <2>1, <3>1, <3>2, RowStays DEF Waits
    <3> QED
      BY <3>3 DEF Showing
  <2>2. CASE ~M!Together \/ io = screen
    BY <1>1, <2>2, RowStays DEF Showing
  <2> QED
    BY <1>2, <2>1, <2>2 DEF Showing
<1>12. signals' \in 0 .. MirrorLimit
  BY <1>1, <1>3
<1>13. MirTypes'
  BY <1>1, <1>2, <1>4, <1>8, <1>12, RowStays DEF MirTypes
<1>14. Copied(screen)'
  BY <1>1, <1>2, RowStays
<1> QED
  BY <1>10, <1>11, <1>13, <1>14 DEF MirInv

LEMMA MirDisconnects == MirInv /\ M!Disconnect => MirInv'
<1> SUFFICES ASSUME MirInv, M!Disconnect PROVE MirInv'
  OBVIOUS
<1>1. /\ mode = "up" /\ mode' = "down" /\ pending' = <<>> /\ ui' = <<>>
      /\ screen' = (IF M!Row.keeps THEN screen ELSE M!Row.reset)
      /\ io' = (IF M!Row.clears = <<>> THEN io ELSE M!Row.clears[1])
      /\ posted' = FALSE /\ taking' = FALSE /\ heard' = FALSE /\ signals > 0 /\ signals' = signals - 1 /\ UNCHANGED <<capture, generation, worker>>
  BY DEF M!Disconnect, M!Spends
<1>2. MirTypes /\ Copied(screen) /\ Showing
  BY DEF MirInv
<1>3. capture \in DOMAIN Rows /\ signals \in 0 .. MirrorLimit /\ MirrorLimit \in Nat /\ screen \in Int /\ io \in Int
  BY <1>2, SettingsAreSane DEF MirTypes
<1>4. M!Row.reset \in Int /\ M!Row.keeps \in BOOLEAN /\ (M!Row.clears = <<>> \/ M!Row.clears[1] \in Int)
  BY <1>3, RowIsSane DEF Sane
<1>5. Queued'
  BY <1>1 DEF Queued
<1>6. ui' \in Seq(Int)
  BY <1>1
<1>7. Copied(M!Row.reset)
  BY <1>4 DEF Copied
<1>8. Copied(screen)'
  BY <1>1, <1>2, <1>7, RowStays
<1>9. signals' \in 0 .. MirrorLimit
  BY <1>1, <1>3
<1>10. MirTypes'
  BY <1>1, <1>2, <1>3, <1>4, <1>5, <1>6, <1>9, RowStays DEF MirTypes
<1>11. Passing'
  BY <1>1 DEF Passing
<1>12. Showing'
  <2>1. CASE ~M!Together
    BY <1>1, <2>1, RowStays DEF Showing
  <2>2. CASE M!Together /\ M!Row.keeps
    <3>1. M!Row.clears = <<>> /\ ~Waits
      BY <1>4, <2>2 DEF M!Together, Waits, Awaited
    <3> QED
      BY <1>1, <1>2, <2>2, <3>1 DEF Showing
  <2>3. CASE M!Together /\ ~M!Row.keeps
    <3>1. M!Row.clears # <<>> /\ screen' = M!Row.reset /\ io' = M!Row.clears[1]
      BY <1>1, <1>4, <2>3 DEF M!Together
    <3>2. CASE M!Row.clears[1] = M!Row.reset
      BY <3>1, <3>2 DEF Showing
    <3>3. CASE M!Row.clears[1] # M!Row.reset
      <4>1. Awaited(M!Row)
        BY <2>3, <3>1, <3>3 DEF Awaited
      <4>2. Waits'
        BY <1>1, <3>1, <4>1, RowStays DEF Waits
      <4> QED
        BY <4>2 DEF Showing
    <3> QED
      BY <3>2, <3>3
  <2> QED
    BY <1>4, <2>1, <2>2, <2>3
<1> QED
  BY <1>8, <1>10, <1>11, <1>12 DEF MirInv

LEMMA MirTurnsPanel == MirInv /\ M!PanelTurns => MirInv'
<1> SUFFICES ASSUME MirInv, M!PanelTurns PROVE MirInv'
  OBVIOUS
<1>1. PICK q : q = Append(ui, generation')
  OBVIOUS
<1>2. /\ mode = "up" /\ generation' \in M!Row.codes /\ ui' = q /\ taking' = (taking \/ M!Unasked)
      /\ signals > 0 /\ signals' = signals - 1 /\ UNCHANGED <<capture, mode, pending, screen, io, posted, worker, heard>>
  BY <1>1 DEF M!PanelTurns, M!Spends
<1>3. MirTypes /\ Copied(screen) /\ Showing /\ Passing
  BY DEF MirInv
<1>4. /\ capture \in DOMAIN Rows /\ ui \in Seq(Int) /\ signals \in 0 .. MirrorLimit /\ MirrorLimit \in Nat /\ pending \in Seq(Commands)
      /\ \A i \in DOMAIN pending : pending[i] \in Commands
  BY <1>3, SettingsAreSane DEF MirTypes, Queued, Sendable
<1>5. generation' \in Codes /\ generation' \in Int
  BY <1>2, <1>4, CodesAreCodes DEF Codes
<1>6. /\ q \in Seq(Int) /\ Len(q) = Len(ui) + 1 /\ q # <<>> /\ q[Len(q)] = generation'
      /\ \A i \in DOMAIN q : (i \in DOMAIN ui /\ q[i] = ui[i]) \/ q[i] = generation'
  <2>1. q \in Seq(Int) /\ Len(q) = Len(ui) + 1 /\ q[Len(q)] = generation' /\ DOMAIN q = 1 .. Len(ui) + 1
        /\ DOMAIN ui = 1 .. Len(ui) /\ Len(ui) \in Nat
        /\ \A i \in 1 .. Len(ui) : q[i] = ui[i]
    BY <1>1, <1>4, <1>5
  <2>2. q # <<>>
    BY <2>1
  <2>3. ASSUME NEW i \in DOMAIN q PROVE (i \in DOMAIN ui /\ q[i] = ui[i]) \/ q[i] = generation'
    BY <2>1
  <2> QED
    BY <2>1, <2>2, <2>3
<1>7. ~Asked /\ ~taking' => pending = <<>>
  <2> SUFFICES ASSUME ~Asked, ~taking', pending # <<>> PROVE FALSE
    OBVIOUS
  <2>1. 1 \in DOMAIN pending
    BY <1>4
  <2>2. pending[1].op \in {"set", "nudge"}
    <3>1. pending[1].op \in {"get", "set", "nudge"}
      BY <1>4, <2>1 DEF Commands
    <3> QED
      BY <2>1, <3>1 DEF Asked
  <2>3. \A j \in 1 .. Len(pending) : pending[j].op # "get"
    BY <1>4 DEF Asked
  <2>4. M!Unasked
    BY <2>1, <2>2, <2>3 DEF M!Unasked
  <2> QED
    BY <1>2, <2>4
<1>8. Asked' <=> Asked
  BY <1>2 DEF Asked
<1>9. (~taking' => ~taking) /\ heard' = heard
  BY <1>2
<1>10. Passing'
  <2>1. ASSUME ~taking', ~heard'
        PROVE  /\ Asked' => pending'[Len(pending')].op = "get"
               /\ ~Asked' => pending' = <<>>
    BY <1>2, <1>3, <1>7, <1>8, <1>9, <2>1 DEF Passing
  <2> QED
    BY <1>2, <1>6, <2>1 DEF Passing
<1>11. Queued'
  BY <1>2, <1>3, RowStays DEF Queued, MirTypes, Sendable, Codes
<1>12. signals' \in 0 .. MirrorLimit
  BY <1>2, <1>4
<1>13. MirTypes'
  BY <1>2, <1>3, <1>5, <1>6, <1>11, <1>12, RowStays DEF MirTypes
<1>14. Showing'
  <2>1. CASE M!Together /\ Waits
    <3>1. M!Row' = M!Row
      BY <1>2, RowStays
    <3>2. \A i \in DOMAIN ui' : ui'[i] \in M!Row.codes
      BY <1>2, <1>6, <2>1 DEF Waits
    <3>3. Waits'
      BY <1>2, <1>6, <2>1, <3>1, <3>2 DEF Waits
    <3> QED
      BY <3>3 DEF Showing
  <2>2. CASE ~M!Together \/ io = screen
    BY <1>2, <2>2, RowStays DEF Showing
  <2> QED
    BY <1>3, <2>1, <2>2 DEF Showing
<1>15. Copied(screen)'
  BY <1>2, <1>3, RowStays
<1> QED
  BY <1>10, <1>13, <1>14, <1>15 DEF MirInv

LEMMA MirTakes == MirInv /\ M!RadioTakes => MirInv'
<1> SUFFICES ASSUME MirInv, M!RadioTakes PROVE MirInv'
  OBVIOUS
<1>1. PICK c : c = Head(pending)
  OBVIOUS
<1>2. PICK q : q = Tail(pending)
  OBVIOUS
<1>3. /\ pending # <<>> /\ pending' = q /\ generation' = Moved(c, generation)
      /\ ui' = (IF c.op = "get" THEN Append(ui, generation) ELSE ui)
      /\ UNCHANGED <<capture, mode, screen, io, posted, worker, taking, heard, signals>>
  BY <1>1, <1>2 DEF M!RadioTakes, Moved, M!Bounded, Bounded
<1>4. MirTypes /\ Copied(screen) /\ Showing /\ Passing
  BY DEF MirInv
<1>5. /\ capture \in DOMAIN Rows /\ ui \in Seq(Int) /\ generation \in Codes /\ mode \in {"up", "down"}
      /\ pending \in Seq(Commands) /\ (\A i \in DOMAIN pending : Sendable(pending[i])) /\ (mode = "down" => pending = <<>>)
  BY <1>4 DEF MirTypes, Queued
<1>6. /\ q \in Seq(Commands) /\ Len(q) = Len(pending) - 1 /\ Len(pending) \in Nat /\ Len(pending) >= 1
      /\ DOMAIN q = 1 .. Len(pending) - 1 /\ DOMAIN pending = 1 .. Len(pending)
      /\ c = pending[1] /\ 1 \in DOMAIN pending
      /\ \A i \in DOMAIN q : i + 1 \in DOMAIN pending /\ q[i] = pending[i + 1]
  <2>1. q \in Seq(Commands) /\ Len(q) = Len(pending) - 1 /\ Len(pending) \in Nat /\ Len(pending) >= 1 /\ c = pending[1]
    BY <1>1, <1>2, <1>3, <1>5
  <2>2. DOMAIN q = 1 .. Len(pending) - 1 /\ DOMAIN pending = 1 .. Len(pending) /\ 1 \in DOMAIN pending
    BY <1>5, <2>1
  <2>3. ASSUME NEW i \in DOMAIN q PROVE i + 1 \in DOMAIN pending /\ q[i] = pending[i + 1]
    BY <1>2, <1>3, <1>5, <2>1, <2>2
  <2> QED
    BY <2>1, <2>2, <2>3
<1>7. mode = "up" /\ mode' = "up" /\ Sendable(c) /\ c \in Commands
  BY <1>3, <1>5, <1>6 DEF Sendable
<1>8. /\ M!Row' = M!Row /\ Codes' = Codes /\ (\A d : Sendable(d)' <=> Sendable(d))
      /\ (\A d : Agrees(d)' <=> Agrees(d)) /\ (\A d, v : Moved(d, v)' = Moved(d, v))
  BY <1>3, RowStays DEF Sendable, Agrees
<1>9. generation' \in Codes /\ generation' \in Int
  <2>1. CASE c.op = "get"
    BY <1>3, <1>5, <2>1 DEF Moved, Codes
  <2>2. CASE c.op # "get"
    BY <1>3, <1>5, <1>7, <2>2, Moves DEF Codes
  <2> QED
    BY <2>1, <2>2
<1>10. PICK t : t = Append(ui, generation)
  OBVIOUS
<1>11. /\ t \in Seq(Int) /\ Len(t) = Len(ui) + 1 /\ t # <<>> /\ t[Len(t)] = generation
       /\ \A i \in DOMAIN t : (i \in DOMAIN ui /\ t[i] = ui[i]) \/ t[i] = generation
  <2>0. generation \in Int
    BY <1>5 DEF Codes
  <2>1. t \in Seq(Int) /\ Len(t) = Len(ui) + 1 /\ t[Len(t)] = generation /\ DOMAIN t = 1 .. Len(ui) + 1
        /\ DOMAIN ui = 1 .. Len(ui) /\ Len(ui) \in Nat
        /\ \A i \in 1 .. Len(ui) : t[i] = ui[i]
    BY <1>10, <1>5, <2>0
  <2>2. t # <<>>
    BY <2>1
  <2>3. ASSUME NEW i \in DOMAIN t PROVE (i \in DOMAIN ui /\ t[i] = ui[i]) \/ t[i] = generation
    BY <2>1
  <2> QED
    BY <2>1, <2>2, <2>3
<1>12. ui' = (IF c.op = "get" THEN t ELSE ui) /\ ui' \in Seq(Int)
  BY <1>3, <1>5, <1>10, <1>11
<1>13. /\ Asked' => Asked
       /\ Asked => c.op = "get" \/ Asked'
       /\ pending[Len(pending)].op = "get" /\ q # <<>> => Asked' /\ q[Len(q)].op = "get"
       /\ q = <<>> => ~Asked'
  <2>1. Asked' => Asked
    BY <1>3, <1>6 DEF Asked
  <2>2. ASSUME Asked, c.op # "get" PROVE Asked'
    <3>1. PICK i \in DOMAIN pending : pending[i].op = "get"
      BY <2>2 DEF Asked
    <3>2. i # 1 /\ i - 1 \in DOMAIN q /\ (i - 1) + 1 = i
      BY <1>6, <2>2, <3>1
    <3>3. q[i - 1].op = "get"
      BY <1>6, <3>1, <3>2
    <3> QED
      BY <1>3, <3>2, <3>3 DEF Asked
  <2>3. ASSUME pending[Len(pending)].op = "get", q # <<>> PROVE Asked' /\ q[Len(q)].op = "get"
    <3>1. Len(q) \in DOMAIN q /\ Len(q) + 1 = Len(pending)
      BY <1>6, <2>3
    <3>2. q[Len(q)].op = "get"
      BY <1>6, <2>3, <3>1
    <3> QED
      BY <1>3, <3>1, <3>2 DEF Asked
  <2>4. q = <<>> => ~Asked'
    BY <1>3 DEF Asked
  <2> QED
    BY <2>1, <2>2, <2>3, <2>4
<1>14. Queued'
  <2>1. \A i \in DOMAIN q : Sendable(q[i])
    BY <1>5, <1>6
  <2> QED
    BY <1>3, <1>6, <1>7, <1>8, <2>1 DEF Queued
<1>15. MirTypes'
  BY <1>3, <1>4, <1>7, <1>8, <1>9, <1>12, <1>14 DEF MirTypes
<1>16. ASSUME ~taking, ~heard
       PROVE  /\ Asked' => q[Len(q)].op = "get"
              /\ ui' # <<>> /\ ~Asked' => q = <<>> /\ ui'[Len(ui')] = generation'
              /\ ui' = <<>> /\ ~Asked' => \E p \in Seq(Codes) : Leads(p)' /\ (worker = "no" => Agrees(p[Len(p)]))
  <2>1. Asked => pending[Len(pending)].op = "get"
    BY <1>7, <1>4, <1>16 DEF Passing
  <2>2. CASE c.op = "get"
    <3>1. generation' = generation /\ ui' = t /\ Asked
      BY <1>3, <1>6, <1>12, <2>2 DEF Moved, Asked
    <3> QED
      BY <1>11, <1>13, <2>1, <3>1
  <2>3. CASE c.op # "get"
    <3>1. ui' = ui /\ (Asked' <=> Asked)
      BY <1>12, <1>13, <2>3
    <3>2. ui # <<>> => Asked
      BY <1>3, <1>7, <1>4, <1>16 DEF Passing
    <3>3. Asked' => q[Len(q)].op = "get"
      BY <1>13, <2>1, <3>1
    <3>4. ASSUME ui = <<>>, ~Asked
          PROVE  \E p \in Seq(Codes) : Leads(p)' /\ (worker = "no" => Agrees(p[Len(p)]))
      <4>1. PICK p \in Seq(Codes) : Leads(p) /\ (worker = "no" => Agrees(p[Len(p)]))
        BY <1>7, <1>4, <1>16, <3>4 DEF Passing
      <4>2. PICK s : s = Tail(p)
        OBVIOUS
      <4>3. Len(p) = Len(pending) + 1 /\ p[1] = generation /\ \A i \in DOMAIN pending : p[i + 1] = Moved(pending[i], p[i])
        BY <4>1 DEF Leads
      <4>4. /\ s \in Seq(Codes) /\ Len(s) = Len(pending)
            /\ \A i \in 1 .. Len(pending) : s[i] = p[i + 1]
        <5>1. p # <<>> /\ Len(p) \in Nat /\ Len(p) = Len(pending) + 1
          BY <1>6, <4>1, <4>3
        <5>2. s \in Seq(Codes) /\ Len(s) = Len(p) - 1 /\ \A i \in 1 .. Len(p) - 1 : s[i] = p[i + 1]
          BY <4>1, <4>2, <5>1
        <5> QED
          BY <1>6, <5>1, <5>2
      <4>5. s[1] = generation'
        BY <1>3, <1>6, <4>3, <4>4
      <4>6. ASSUME NEW i \in DOMAIN q PROVE s[i + 1] = Moved(q[i], s[i])
        <5>1. i \in 1 .. Len(pending) /\ i + 1 \in 1 .. Len(pending)
          BY <1>6
        <5>2. s[i] = p[i + 1] /\ s[i + 1] = p[(i + 1) + 1] /\ q[i] = pending[i + 1] /\ i + 1 \in DOMAIN pending
          BY <1>6, <4>4, <5>1
        <5> QED
          BY <4>3, <5>2
      <4>7. Len(s) = Len(q) + 1 /\ s[Len(s)] = p[Len(p)]
        <5>1. Len(pending) \in 1 .. Len(pending)
          BY <1>6
        <5> QED
          BY <1>6, <4>3, <4>4, <5>1
      <4>8. Leads(s)'
        BY <1>3, <1>8, <4>5, <4>6, <4>7 DEF Leads
      <4> QED
        BY <4>1, <4>4, <4>7, <4>8
    <3> QED
      BY <3>1, <3>2, <3>3, <3>4
  <2> QED
    BY <2>2, <2>3
<1>17. Passing'
  BY <1>3, <1>8, <1>16 DEF Passing
<1>18. Showing'
  <2>1. CASE M!Together /\ Waits
    <3>1. Awaited(M!Row) /\ Sane(M!Row)
      BY <1>5, <2>1, RowIsSane DEF Waits
    <3>2. ~Nudged(M!Row)
      BY <3>1 DEF Sane, SaneDial, Nudged, Setters
    <3>3. generation \in M!Row.codes /\ (Asked \/ ui # <<>>)
      BY <1>7, <2>1 DEF Waits
    <3>4. generation' \in M!Row.codes
      <4>1. c.op = "set" => c.arg \in M!Row.codes
        BY <1>6, <1>7, <2>1 DEF Waits
      <4>2. c.op \in {"get", "set"}
        BY <1>7, <3>2 DEF Sendable, Commands
      <4> QED
        BY <1>3, <3>3, <4>1, <4>2 DEF Moved
    <3>5. Asked' \/ ui' # <<>>
      BY <1>11, <1>12, <1>13, <3>3
    <3>6. \A i \in DOMAIN q : q[i].op = "set" => q[i].arg \in M!Row.codes
      BY <1>6, <1>7, <2>1 DEF Waits
    <3>7. \A i \in DOMAIN ui' : ui'[i] \in M!Row.codes
      BY <1>7, <1>11, <1>12, <2>1, <3>3 DEF Waits
    <3>8. Waits'
      BY <1>3, <1>8, <2>1, <3>4, <3>5, <3>6, <3>7 DEF Waits
    <3> QED
      BY <3>8 DEF Showing
  <2>2. CASE ~M!Together \/ io = screen
    BY <1>3, <2>2, RowStays DEF Showing
  <2> QED
    BY <1>4, <2>1, <2>2 DEF Showing
<1>19. Copied(screen)'
  BY <1>3, <1>4, RowStays
<1> QED
  BY <1>15, <1>17, <1>18, <1>19 DEF MirInv

LEMMA MirHears == MirInv /\ M!PhoneTakes => MirInv'
<1> SUFFICES ASSUME MirInv, M!PhoneTakes PROVE MirInv'
  OBVIOUS
<1>1. PICK c : c = Head(ui)
  OBVIOUS
<1>2. PICK q : q = Tail(ui)
  OBVIOUS
<1>3. /\ ui # <<>> /\ ui' = q /\ M!Hear(c)
      /\ taking' = (taking \/ (posted /\ M!Stored(c) \notin {<<>>, <<screen>>}))
      /\ UNCHANGED <<capture, mode, generation, pending, posted, worker, heard, signals>>
  BY <1>1, <1>2 DEF M!PhoneTakes
<1>4. MirTypes /\ Copied(screen) /\ Showing /\ Passing
  BY DEF MirInv
<1>5. /\ capture \in DOMAIN Rows /\ ui \in Seq(Int) /\ generation \in Codes /\ posted \in BOOLEAN /\ mode = "up"
      /\ (posted => M!Row.guarded) /\ taking \in BOOLEAN
  BY <1>3, <1>4 DEF MirTypes
<1>6. /\ q \in Seq(Int) /\ Len(q) = Len(ui) - 1 /\ Len(ui) \in Nat /\ Len(ui) >= 1
      /\ c = ui[1] /\ c \in Int /\ 1 \in DOMAIN ui
      /\ \A i \in DOMAIN q : i + 1 \in DOMAIN ui /\ q[i] = ui[i + 1]
      /\ (q # <<>> => q[Len(q)] = ui[Len(ui)])
      /\ (q = <<>> => c = ui[Len(ui)])
  <2>1. q \in Seq(Int) /\ Len(q) = Len(ui) - 1 /\ Len(ui) \in Nat /\ Len(ui) >= 1 /\ c = ui[1]
    BY <1>1, <1>2, <1>3, <1>5
  <2>2. DOMAIN q = 1 .. Len(ui) - 1 /\ DOMAIN ui = 1 .. Len(ui) /\ 1 \in DOMAIN ui /\ c \in Int
    BY <1>5, <2>1
  <2>3. ASSUME NEW i \in DOMAIN q PROVE i + 1 \in DOMAIN ui /\ q[i] = ui[i + 1]
    BY <1>2, <1>3, <1>5, <2>1, <2>2
  <2>4. ASSUME q # <<>> PROVE q[Len(q)] = ui[Len(ui)]
    <3>1. Len(q) \in DOMAIN q /\ Len(q) + 1 = Len(ui)
      BY <2>1, <2>2, <2>4
    <3> QED
      BY <2>3, <3>1
  <2>5. q = <<>> => Len(ui) = 1
    BY <2>1
  <2> QED
    BY <2>1, <2>2, <2>3, <2>4, <2>5
<1>7. /\ screen' \in Int /\ io' \in Int /\ Copied(screen)'
      /\ ~posted => M!Stored(c) \in {<<>>, <<screen'>>}
      /\ posted => screen' = screen
      /\ io = screen => io' = screen'
      /\ screen = M!Row.reset /\ ~posted /\ M!Stored(c) # <<>> /\ M!Stored(c) # <<M!Row.reset>> => io' = screen'
  BY <1>3, <1>4, <1>6, HearCopy
<1>8. (Asked' <=> Asked) /\ M!Row' = M!Row /\ Codes' = Codes
  BY <1>3, RowStays DEF Asked
<1>9. Queued'
  BY <1>3, <1>4, RowStays DEF Queued, MirTypes, Sendable
<1>10. MirTypes'
  BY <1>3, <1>4, <1>5, <1>6, <1>7, <1>8, <1>9 DEF MirTypes
<1>11. ASSUME ~taking', ~heard
       PROVE  /\ Asked => pending[Len(pending)].op = "get"
              /\ ~Asked => pending = <<>> /\ ui[Len(ui)] = generation
  BY <1>3, <1>4, <1>5, <1>11 DEF Passing
<1>12. ASSUME ~taking', ~heard, ~Asked, q = <<>>
       PROVE  \E p \in Seq(Codes) : Leads(p)' /\ (worker' = "no" => Agrees(p[Len(p)])')
  <2>1. c = generation /\ pending = <<>>
    BY <1>6, <1>11, <1>12
  <2>2. M!Stored(c) \in {<<>>, <<screen'>>}
    BY <1>3, <1>5, <1>7, <1>12
  <2>3. M!Stored(generation)' \in {<<>>, <<screen'>>}
    BY <1>3, <2>1, <2>2, RowStays
  <2>4. PICK p : p = <<generation>>
    OBVIOUS
  <2>5. p \in Seq(Codes) /\ Len(p) = 1 /\ p[1] = generation
    BY <1>5, <2>4
  <2>6. Leads(p)'
    <3>1. pending' = <<>> /\ generation' = generation /\ DOMAIN pending' = {} /\ Len(pending') = 0
      BY <1>3, <2>1
    <3> QED
      BY <2>5, <3>1 DEF Leads
  <2>7. Agrees(p[Len(p)])'
    BY <1>3, <2>3, <2>5 DEF Agrees
  <2> QED
    BY <2>5, <2>6, <2>7
<1>13. Passing'
  <2>1. ASSUME ~taking', ~heard'
        PROVE  /\ Asked' => pending'[Len(pending')].op = "get"
               /\ ui' # <<>> /\ ~Asked' => pending' = <<>> /\ ui'[Len(ui')] = generation'
               /\ ui' = <<>> /\ ~Asked' => \E p \in Seq(Codes)' : Leads(p)' /\ (worker' = "no" => Agrees(p[Len(p)])')
    BY <1>3, <1>6, <1>8, <1>11, <1>12, <2>1
  <2> QED
    BY <2>1 DEF Passing
<1>14. Showing'
  <2>1. ASSUME M!Together, Waits PROVE io' = screen'
    <3>1. Awaited(M!Row) /\ screen = M!Row.reset /\ c \in M!Row.codes
      BY <1>5, <1>6, <2>1 DEF Waits
    <3>2. ~posted
      BY <1>5, <3>1, RowIsSane DEF Sane
    <3>3. M!Stored(c) # <<>> /\ M!Stored(c) # <<M!Row.reset>>
      BY <1>5, <1>6, <3>1, Stores
    <3> QED
      BY <1>7, <3>1, <3>2, <3>3
  <2>2. M!Together' = M!Together
    BY <1>3, RowStays
  <2> QED
    BY <1>4, <1>7, <2>1, <2>2 DEF Showing
<1> QED
  BY <1>7, <1>10, <1>13, <1>14 DEF MirInv

LEMMA MirForgets == MirInv /\ M!GuardExpires => MirInv'
<1> SUFFICES ASSUME MirInv, M!GuardExpires PROVE MirInv'
  OBVIOUS
<1>1. posted' = FALSE /\ UNCHANGED <<capture, mode, generation, pending, ui, screen, io, worker, taking, heard, signals>>
  BY DEF M!GuardExpires
<1>2. MirTypes /\ Copied(screen) /\ Showing /\ Passing
  BY DEF MirInv
<1>3. /\ M!Row' = M!Row /\ Codes' = Codes /\ (\A d : Sendable(d)' <=> Sendable(d))
      /\ (\A d : Agrees(d)' <=> Agrees(d)) /\ (\A d, v : Moved(d, v)' = Moved(d, v))
  BY <1>1, RowStays DEF Sendable, Agrees
<1>4. \A p : Leads(p)' <=> Leads(p)
  BY <1>1, <1>3 DEF Leads
<1>5. MirTypes'
  BY <1>1, <1>2, <1>3 DEF MirTypes, Queued
<1>6. Passing'
  BY <1>1, <1>2, <1>3, <1>4 DEF Passing, Asked
<1>7. Showing' /\ Copied(screen)'
  BY <1>1, <1>2, <1>3, RowStays DEF Showing, Waits, Asked
<1> QED
  BY <1>5, <1>6, <1>7 DEF MirInv

----------------------------------------------------------------------------
(* MainWindow's controls. *)

LEMMA BoundedWithin ==
  ASSUME NEW low \in Int, NEW high \in Int, low <= 1, high >= 1100, NEW v \in Int
  PROVE  Bounded(1, v, 1100) \in low .. high
BY DEF Bounded

\* A detent of a dial ends in its range, and in whole units.
LEMMA Detents ==
  ASSUME capture \in DOMAIN Rows, Copied(screen), NEW d \in M!Row.dials, d.how \in M!Detents, NEW steps \in {-1, 1}, NEW next,
         next = IF d.how = "power" THEN M!NextPower(steps)
                ELSE IF d.how = "midi" THEN M!NextMidi(steps)
                ELSE Bounded(d.low, (IF M!LevelNow < d.floor THEN d.floor ELSE M!LevelNow) + steps * d.by, d.high)
  PROVE  next \in d.low .. d.high /\ (M!Row.unit = 10 => next % 10 = 0)
<1>1. SaneDial(M!Row, d) /\ Sane(M!Row)
  BY RowIsSane DEF Sane
<1>2. /\ d.low \in Int /\ d.high \in Int /\ d.by \in Int /\ d.floor \in Int /\ d.low <= d.high /\ d.by >= 0
      /\ M!Row.unit = 10 => /\ d.how = "step" /\ d.low % 10 = 0 /\ d.high % 10 = 0 /\ d.by % 10 = 0
                            /\ M!Row.reset % 10 = 0 \/ M!Row.reset + d.by <= d.low
                            /\ d.floor % 10 = 0 \/ d.floor + d.by <= d.low
      /\ d.how \in {"power", "midi"} => d.low <= 1 /\ d.high >= 1100
  BY <1>1 DEF SaneDial
<1>3. screen \in Int /\ M!Row.tens \in {1, 10} /\ M!Row.reset \in Int /\ (M!Row.unit = 10 => M!Row.tens = 1)
  BY <1>1 DEF Copied, Sane
<1>4. M!LevelNow \in Int /\ (M!Row.tens = 1 => M!LevelNow = screen)
  BY <1>3 DEF M!LevelNow
<1>5. CASE d.how = "power"
  <2>1. M!NextPower(steps) \in 1 .. 1100
    BY <1>3 DEF M!NextPower, M!Bounded, Bounded
  <2> QED
    BY <1>2, <1>5, <2>1, SMTT(30)
<1>7. CASE d.how = "midi"
  <2>1. PICK now : now = IF screen < 1 THEN 1 ELSE screen
    OBVIOUS
  <2>2. PICK to : to = now + steps * (IF now <= 100 THEN 1 ELSE 10)
    OBVIOUS
  <2>3. now \in Int /\ to \in Int
    BY <1>3, <2>1, <2>2
  <2>4. next = Bounded(1, to, 1100)
    BY <1>7, <2>1, <2>2 DEF M!NextMidi, M!Bounded, Bounded
  <2>5. d.low <= 1 /\ d.high >= 1100 /\ d.how # "step"
    BY <1>2, <1>7
  <2>6. M!Row.unit # 10
    BY <1>2, <2>5
  <2>7. Bounded(1, to, 1100) \in d.low .. d.high
    BY <1>2, <2>3, <2>5, BoundedWithin
  <2> QED
    BY <2>4, <2>6, <2>7
<1>6. CASE d.how \in {"step", "cut"}
  <2>1. PICK now : now = IF M!LevelNow < d.floor THEN d.floor ELSE M!LevelNow
    OBVIOUS
  <2>2. now \in Int
    BY <1>2, <1>4, <2>1
  <2>3. PICK to : to = now + steps * d.by
    OBVIOUS
  <2>4. to \in {now + d.by, now - d.by} /\ to \in Int /\ to <= now + d.by
    BY <1>2, <2>2, <2>3
  <2>5. next = Bounded(d.low, to, d.high)
    BY <1>6, <2>1, <2>3
  <2>6. next \in d.low .. d.high /\ next \in {d.low, to, d.high}
    BY <1>2, <2>4, <2>5 DEF Bounded
  <2>7. ASSUME M!Row.unit = 10 PROVE next % 10 = 0
    <3>1. now % 10 = 0 \/ now + d.by <= d.low
      <4>1. CASE now = d.floor
        BY <1>2, <2>7, <4>1
      <4>2. CASE now = screen
        <5>1. screen % 10 = 0 \/ screen = M!Row.reset
          BY <2>7 DEF Copied
        <5> QED
          BY <1>2, <2>7, <4>2, <5>1
      <4> QED
        BY <1>3, <1>4, <2>1, <2>7, <4>1, <4>2
    <3>2. CASE now % 10 = 0
      <4>1. to % 10 = 0
        <5>1. d.by % 10 = 0
          BY <1>2, <2>7
        <5>2. \A a, b \in Int : a % 10 = 0 /\ b % 10 = 0 => (a + b) % 10 = 0 /\ (a - b) % 10 = 0
          OBVIOUS
        <5>3. (now + d.by) % 10 = 0 /\ (now - d.by) % 10 = 0
          BY <1>2, <2>2, <3>2, <5>1, <5>2
        <5> QED
          BY <2>4, <5>3
      <4> QED
        BY <1>2, <2>6, <2>7, <4>1
    <3>3. CASE now + d.by <= d.low
      <4>1. to <= d.low
        BY <1>2, <2>2, <2>4, <3>3
      <4>2. next = d.low
        BY <1>2, <2>4, <2>5, <4>1 DEF Bounded
      <4> QED
        BY <1>2, <2>7, <4>2
    <3> QED
      BY <3>1, <3>2, <3>3
  <2> QED
    BY <2>6, <2>7
<1> QED
  BY <1>5, <1>6, <1>7 DEF M!Detents

\* What a control leaves behind.
CopyKept ==
  /\ Queued' /\ taking' \in BOOLEAN /\ heard' \in BOOLEAN /\ Passing'
  /\ screen' \in Int /\ io' \in Int /\ Copied(screen)' /\ Showing'
  /\ posted' \in BOOLEAN /\ (posted' => M!Row.guarded)
  /\ worker' \in {"no", "set", "zoom", "get"}
  /\ worker' = "set" => \E d \in M!Row.dials : d.how = "later"
  /\ worker' = "zoom" => \E d \in M!Row.dials : d.how = "zoom"

LEMMA KeptMirror ==
  ASSUME MirInv, CopyKept, signals' \in 0 .. MirrorLimit, UNCHANGED <<capture, mode, generation, ui>> PROVE MirInv'
<1>1. MirTypes
  BY DEF MirInv
<1>2. MirTypes'
  BY <1>1, RowStays DEF CopyKept, MirTypes
<1> QED
  BY <1>2 DEF MirInv, CopyKept

\* What a control sends can be sent.
LEMMA SendsCode ==
  ASSUME capture \in DOMAIN Rows, M!Row.unit = 1, NEW l \in Int, NEW g \in 0 .. 9, M!Row.tens = 1 => g = 0,
         M!Row.tens = 10 /\ ~M!Row.clamps => l \in M!Row.low .. M!Row.high
  PROVE  /\ M!Set(l, g) = [op |-> "set", arg |-> l * M!Row.tens + g] /\ M!Set(l, g) \in Commands
         /\ Sendable(M!Set(l, g)) /\ M!Set(l, g).op = "set"
<1>1. M!Row.tens \in {1, 10}
  BY RowIsSane DEF Sane
<1>2. PICK v : v = l * M!Row.tens + g
  OBVIOUS
<1>3. v \in Int /\ (M!Row.tens = 10 => v \div 10 = l)
  <2>1. CASE M!Row.tens = 1
    BY <1>2, <2>1
  <2>2. CASE M!Row.tens = 10
    BY <1>2, <2>2, TwoParts
  <2> QED
    BY <1>1, <2>1, <2>2
<1>4. v \div 1 = v
  BY <1>3
<1>5. M!Set(l, g) = [op |-> "set", arg |-> v]
  BY <1>2, <1>4 DEF M!Set
<1>6. v \in Codes
  BY <1>3 DEF Codes
<1> QED
  BY <1>2, <1>3, <1>5, <1>6 DEF Commands, Sendable

\* The copy is set, and a command sent: for the same value, or the copy is behind.
LEMMA SetsBoth ==
  ASSUME MirInv, NEW d \in M!Row.dials, NEW l \in d.low .. d.high, M!Row.unit = 10 => l % 10 = 0,
         NEW c, Sendable(c), c.op = "set", NEW b \in BOOLEAN, b => c = M!Set(l, M!Flags),
         M!Send(<<c>>, b), M!SetMirror(l * M!Row.tens + M!Flags), UNCHANGED <<capture, mode, generation, ui, worker>>
  PROVE  CopyKept
<1>1. PICK v : v = l * M!Row.tens + M!Flags
  OBVIOUS
<1>2. MirTypes /\ Copied(screen) /\ Showing /\ Passing /\ capture \in DOMAIN Rows /\ screen \in Int
  BY DEF MirInv, MirTypes
<1>3. /\ M!Set(l, M!Flags) = [op |-> "set", arg |-> v \div M!Row.unit]
      /\ v \div M!Row.unit \in Codes /\ Copied(v) /\ M!Stored(v \div M!Row.unit) \in {<<>>, <<v>>}
      /\ Awaited(M!Row) => v # M!Row.reset
  BY <1>1, <1>2, SendsValue
<1>4. v \in Int
  BY <1>3 DEF Copied
<1>5. /\ screen' = v /\ io' \in Int /\ Copied(screen)' /\ Showing'
      /\ posted' \in BOOLEAN /\ (posted' => M!Row'.guarded)
  BY <1>1, <1>2, <1>3, <1>4, SetCopy
<1>6. b => \A w : Moved(c, w) = v \div M!Row.unit
  BY <1>3 DEF Moved
<1>7. Queued' /\ taking' \in BOOLEAN /\ heard' \in BOOLEAN /\ Passing'
  BY <1>2, <1>3, <1>5, <1>6, SendsOn
<1> QED
  BY <1>2, <1>4, <1>5, <1>7, RowStays DEF CopyKept, MirTypes

\* The copy and the widget stay.
LEMMA CopyStays ==
  ASSUME MirInv, ~Awaited(M!Row), UNCHANGED <<capture, screen, io, posted>>, worker' \in {worker, "get"},
         Queued', taking' \in BOOLEAN, heard' \in BOOLEAN, Passing'
  PROVE  CopyKept
<1>1. MirTypes /\ Copied(screen) /\ Showing
  BY DEF MirInv
<1>2. M!Together' = M!Together /\ Copied(screen)'
  BY <1>1, RowStays
<1>3. Showing'
  BY <1>1, <1>2 DEF Showing, Waits
<1> QED
  BY <1>1, <1>2, <1>3 DEF CopyKept, MirTypes

LEMMA FlagsAre ==
  ASSUME MirInv
  PROVE  /\ capture \in DOMAIN Rows /\ screen \in Int /\ M!Row.tens \in {1, 10}
         /\ M!Flags \in 0 .. 9 /\ (M!Row.tens = 1 => M!Flags = 0 /\ M!LevelNow = screen) /\ M!LevelNow \in Int
         /\ screen = M!LevelNow * M!Row.tens + M!Flags
<1>1. capture \in DOMAIN Rows /\ screen \in Int
  BY DEF MirInv, MirTypes
<1>2. M!Row.tens \in {1, 10}
  BY <1>1, RowIsSane DEF Sane
<1>3. CASE M!Row.tens = 1
  BY <1>1, <1>3 DEF M!Flags, M!LevelNow
<1>4. CASE M!Row.tens = 10
  BY <1>1, <1>4, TwoParts DEF M!Flags, M!LevelNow
<1> QED
  BY <1>1, <1>2, <1>3, <1>4

LEMMA StepKeeps ==
  ASSUME MirInv, NEW d \in M!Row.dials, d.how \in M!Detents, NEW steps \in {-1, 1}, M!StepTurns(d, steps),
         UNCHANGED <<capture, mode, generation, ui>>
  PROVE  CopyKept
<1>1. PICK next : next = IF d.how = "power" THEN M!NextPower(steps)
                         ELSE IF d.how = "midi" THEN M!NextMidi(steps)
                         ELSE Bounded(d.low, (IF M!LevelNow < d.floor THEN d.floor ELSE M!LevelNow) + steps * d.by, d.high)
  OBVIOUS
<1>2. PICK flag : flag = IF d.how = "cut" THEN 0 ELSE M!Flags
  OBVIOUS
<1>3. PICK sent : sent = M!Sent(d, next)
  OBVIOUS
<1>4. PICK b \in BOOLEAN : b <=> sent = next /\ flag = M!Flags
  OBVIOUS
<1>5. PICK c : c = M!Set(sent, flag)
  OBVIOUS
<1>6. M!Send(<<c>>, sent = next /\ flag = M!Flags) /\ M!SetMirror(next * M!Row.tens + M!Flags) /\ UNCHANGED worker
  BY <1>1, <1>2, <1>3, <1>5 DEF M!StepTurns, M!Bounded, Bounded
<1>7. M!Send(<<c>>, b)
  <2>1. (sent = next /\ flag = M!Flags) \in BOOLEAN
    OBVIOUS
  <2>2. (sent = next /\ flag = M!Flags) = b
    BY <1>4, <2>1
  <2> QED
    BY <1>6, <2>2
<1>8. capture \in DOMAIN Rows /\ Copied(screen) /\ screen \in Int
  BY DEF MirInv, MirTypes
<1>9. next \in d.low .. d.high /\ (M!Row.unit = 10 => next % 10 = 0)
  BY <1>1, <1>8, Detents
<1>10. Sane(M!Row) /\ SaneDial(M!Row, d)
  BY <1>8, RowIsSane DEF Sane
<1>11. /\ M!Row.tens \in {1, 10} /\ M!Row.unit \in {1, 10} /\ (M!Row.unit = 10 => d.how = "step")
       /\ d.low \in Int /\ d.high \in Int /\ M!Row.low \in Int /\ M!Row.high \in Int
       /\ d.how \in {"power", "midi"} => M!Row.tens = 1
       /\ M!Row.tens = 10 => M!Row.low <= d.low /\ d.high <= M!Row.high
  BY <1>10 DEF Sane, SaneDial
<1>12. next \in Int
  BY <1>9, <1>11
<1>13. Sendable(c) /\ c.op = "set"
  <2>1. CASE d.how = "step"
    <3>1. sent = next /\ flag = M!Flags
      BY <1>2, <1>3, <2>1 DEF M!Sent
    <3>2. PICK v : v = next * M!Row.tens + M!Flags
      OBVIOUS
    <3>3. c = [op |-> "set", arg |-> v \div M!Row.unit] /\ c \in Commands /\ v \div M!Row.unit \in Codes
      BY <1>5, <1>8, <1>9, <3>1, <3>2, SendsValue
    <3> QED
      BY <3>3 DEF Sendable
  <2>2. CASE d.how # "step"
    <3>1. M!Row.unit = 1 /\ flag \in 0 .. 9 /\ (M!Row.tens = 1 => flag = 0)
      BY <1>2, <1>11, <2>2, FlagsAre
    <3>2. CASE d.how = "cut"
      <4>1. sent = next
        BY <1>3, <3>2 DEF M!Sent
      <4>2. M!Row.tens = 10 => next \in M!Row.low .. M!Row.high
        BY <1>9, <1>11, <1>12
      <4> QED
        BY <1>5, <1>8, <1>12, <3>1, <4>1, <4>2, SendsCode
    <3>3. CASE d.how \in {"power", "midi"}
      <4>1. sent \in Int
        BY <1>3, <1>12 DEF M!Sent
      <4> QED
        BY <1>5, <1>8, <1>11, <3>1, <3>3, <4>1, SendsCode
    <3> QED
      BY <2>2, <3>2, <3>3 DEF M!Detents
  <2> QED
    BY <2>1, <2>2
<1>14. b => c = M!Set(next, M!Flags)
  BY <1>4, <1>5
<1> QED
  BY <1>6, <1>7, <1>9, <1>13, <1>14, SetsBoth

LEMMA NudgeKeeps ==
  ASSUME MirInv, NEW d \in M!Row.dials, d.how = "nudge", NEW steps \in {-1, 1}, M!Nudges(d, steps),
         UNCHANGED <<capture, mode, generation, ui>>
  PROVE  CopyKept
<1>1. MirTypes /\ Copied(screen) /\ Showing /\ Passing /\ capture \in DOMAIN Rows /\ screen \in Int
  BY DEF MirInv, MirTypes
<1>2. Sane(M!Row) /\ SaneDial(M!Row, d) /\ Nudged(M!Row)
  BY <1>1, RowIsSane DEF Sane, Nudged
<1> DEFINE low == M!Row.low
           high == M!Row.high
<1>3. /\ M!Row.tens = 10 /\ M!Row.unit = 1 /\ ~M!Row.clamps /\ ~Awaited(M!Row)
      /\ low \in Int /\ high \in Int /\ low <= high
      /\ d.low = low /\ d.high = high /\ d.by \in Int /\ d.by >= 0
  BY <1>2 DEF Sane, SaneDial, Setters
<1>4. PICK now : now = M!LevelNow
  OBVIOUS
<1>5. PICK g : g = M!Flags
  OBVIOUS
<1>6. now = screen \div 10 /\ g = screen % 10 /\ now \in Int /\ g \in 0 .. 9
  BY <1>1, <1>3, <1>4, <1>5 DEF M!LevelNow, M!Flags
<1>7. PICK next : next = Bounded(low, now + steps * d.by, high)
  OBVIOUS
<1>8. PICK a : a = IF next >= now THEN d.by ELSE 0 - d.by
  OBVIOUS
<1>9. PICK c : c = [op |-> "nudge", arg |-> a]
  OBVIOUS
<1>10. PICK v : v = next * 10 + g
  OBVIOUS
<1>11. M!Send(IF next = now THEN <<>> ELSE <<c>>, TRUE) /\ M!SetMirror(v) /\ UNCHANGED worker
  BY <1>3, <1>4, <1>5, <1>7, <1>8, <1>9, <1>10 DEF M!Nudges, M!Nudge, M!Bounded, Bounded
<1> HIDE DEF low, high
<1>12. next \in low .. high /\ next \in Int /\ a \in Int /\ now + steps * d.by \in Int
  <2>1. now + steps * d.by \in Int /\ a \in Int
    BY <1>3, <1>6, <1>8
  <2> QED
    BY <1>3, <1>7, <2>1, Rounded
<1>13. c \in Commands /\ Sendable(c) /\ c.op = "nudge" /\ c.arg = a
  BY <1>2, <1>9, <1>12 DEF Commands, Sendable
<1>14. v \in Int /\ v \div 10 = next /\ v % 10 = g
  BY <1>6, <1>10, <1>12, TwoParts
<1>15. InRange(v) /\ Copied(v) /\ v \in Codes
  <2>1. InRange(v)
    BY <1>3, <1>12, <1>14 DEF InRange
  <2> QED
    BY <1>3, <1>12, <1>14, <2>1 DEF Copied, Codes, low, high
<1>16. /\ screen' = v /\ io' \in Int /\ Copied(screen)' /\ Showing'
       /\ posted' \in BOOLEAN /\ (posted' => M!Row'.guarded)
  BY <1>1, <1>3, <1>11, <1>14, <1>15, SetCopy
<1>17. CASE next = now
  <2>1. v = screen
    BY <1>1, <1>6, <1>10, <1>17
  <2>2. pending \in Seq(Commands) /\ pending \o <<>> = pending
    BY <1>1 DEF MirTypes, Queued
  <2>3. pending' = pending /\ taking' = taking /\ heard' = heard
    BY <1>11, <1>17, <2>2 DEF M!Send
  <2>4. /\ M!Row' = M!Row /\ Codes' = Codes /\ (\A e : Sendable(e)' <=> Sendable(e))
        /\ (\A e : Agrees(e)' <=> Agrees(e)) /\ (\A e, w : Moved(e, w)' = Moved(e, w))
    BY <1>16, <2>1, RowStays DEF Sendable, Agrees
  <2>5. \A p : Leads(p)' <=> Leads(p)
    BY <2>3, <2>4 DEF Leads
  <2>6. Queued' /\ taking' \in BOOLEAN /\ heard' \in BOOLEAN
    BY <1>1, <2>3, <2>4 DEF MirTypes, Queued
  <2>7. Passing'
    BY <1>1, <1>11, <2>3, <2>4, <2>5 DEF Passing, Asked
  <2> QED
    BY <1>1, <1>11, <1>14, <1>16, <2>6, <2>7, RowStays DEF CopyKept, MirTypes
<1>18. CASE next # now
  <2>1. M!Send(<<c>>, TRUE)
    BY <1>11, <1>18
  <2>2. ASSUME NEW w \in Codes, worker = "no" => Agrees(w), worker' = "no"
        PROVE  M!Stored(Moved(c, w)) \in {<<>>, <<screen'>>}
    <3>1. w \in Int /\ M!Stored(w) = <<w>> /\ w \div 10 \in low .. high
      BY <1>1, <1>3, <2>2, Stores DEF Codes, low, high
    <3>2. <<w>> # <<>> /\ (<<w>> = <<screen>> => w = screen)
      OBVIOUS
    <3>3. w = screen
      BY <1>11, <2>2, <3>1, <3>2 DEF Agrees
    <3>4. now \in low .. high
      BY <1>6, <3>1, <3>3
    <3>5. Bounded(low, now + a, high) = next
      <4>1. CASE steps = 1
        <5>1. now + steps * d.by = now + d.by
          BY <1>3, <4>1
        <5>2. next >= now
          BY <1>3, <1>6, <1>7, <3>4, <5>1 DEF Bounded
        <5> QED
          BY <1>7, <1>8, <5>1, <5>2
      <4>2. CASE steps = -1
        <5>1. now + steps * d.by = now + (0 - d.by) /\ now + steps * d.by <= now
          BY <1>3, <1>6, <4>2
        <5>2. next <= now
          BY <1>3, <1>6, <1>7, <1>12, <3>4, <5>1 DEF Bounded
        <5>3. ~(next >= now)
          BY <1>6, <1>12, <1>18, <3>4, <5>2
        <5> QED
          BY <1>7, <1>8, <5>1, <5>3
      <4> QED
        BY <4>1, <4>2
    <3>6. Moved(c, w) = v
      BY <1>3, <1>6, <1>10, <1>13, <3>3, <3>5 DEF Moved, low, high
    <3>7. M!Stored(v) = <<v>>
      BY <1>1, <1>3, <1>14, <1>15, Stores
    <3> QED
      BY <1>16, <3>6, <3>7
  <2>3. Queued' /\ taking' \in BOOLEAN /\ heard' \in BOOLEAN /\ Passing'
    BY <1>1, <1>13, <2>1, <2>2, SendsOn
  <2> QED
    BY <1>1, <1>11, <1>14, <1>16, <2>3, RowStays DEF CopyKept, MirTypes
<1> QED
  BY <1>17, <1>18

LEMMA SlipKeeps ==
  ASSUME MirInv, NEW d \in M!Row.dials, d.how = "slip", NEW steps \in {-1, 1}, M!Slips(d, steps),
         UNCHANGED <<capture, mode, generation, ui>>
  PROVE  CopyKept
<1>1. MirTypes /\ Passing /\ capture \in DOMAIN Rows
  BY DEF MirInv, MirTypes
<1>2. Sane(M!Row) /\ SaneDial(M!Row, d) /\ Nudged(M!Row)
  BY <1>1, RowIsSane DEF Sane, Nudged
<1>3. d.by \in Int /\ ~Awaited(M!Row)
  BY <1>2 DEF SaneDial, Setters
<1>4. PICK c : c = M!Nudge(steps * d.by)
  OBVIOUS
<1>5. steps * d.by \in Int
  BY <1>3
<1>6. c \in Commands /\ Sendable(c) /\ c.op # "get"
  BY <1>2, <1>4, <1>5 DEF M!Nudge, Commands, Sendable
<1>7. M!Send(<<c>>, FALSE) /\ UNCHANGED <<screen, io, posted, worker>>
  BY <1>4 DEF M!Slips
<1>8. Queued' /\ taking' \in BOOLEAN /\ heard' \in BOOLEAN /\ Passing'
  BY <1>1, <1>6, <1>7, SendsOn
<1> QED
  BY <1>3, <1>7, <1>8, CopyStays

LEMMA ChooseKeeps ==
  ASSUME MirInv, mode = "up", NEW d \in M!Row.dials, d.how \notin M!Detents \cup {"nudge", "slip"}, NEW i \in DOMAIN d.ends,
         M!Chooses(d, d.ends[i]), UNCHANGED <<capture, mode, generation, ui>>
  PROVE  CopyKept
<1>1. MirTypes /\ Copied(screen) /\ Showing /\ Passing /\ capture \in DOMAIN Rows /\ screen \in Int
  BY DEF MirInv, MirTypes
<1>2. Sane(M!Row) /\ SaneDial(M!Row, d)
  BY <1>1, RowIsSane DEF Sane
<1>3. PICK l : l = d.ends[i]
  OBVIOUS
<1>4. /\ M!Row.tens \in {1, 10} /\ M!Row.unit = 1 /\ M!Row.low \in Int /\ M!Row.high \in Int /\ M!Row.low <= M!Row.high
      /\ d.low \in Int /\ d.high \in Int /\ d.low <= d.high
      /\ l \in d.low .. d.high \/ (d.how = "choose" /\ l \in M!Row.low .. M!Row.high)
      /\ d.how \in {"choose", "fader", "parse", "ask", "confirm", "later", "zoom", "local", "blind"}
      /\ M!Row.guarded \in BOOLEAN /\ M!Row.clamps \in BOOLEAN
      /\ M!Row.tens = 10 => M!Row.low <= d.low /\ d.high <= M!Row.high
      /\ d.how \notin Setters => ~Awaited(M!Row)
  BY <1>2, <1>3 DEF Sane, SaneDial, Hows, Setters, M!Detents
<1>5. l \in Int /\ (M!Row.tens = 10 => l \in M!Row.low .. M!Row.high)
  BY <1>4
<1>6. M!Flags \in 0 .. 9 /\ (M!Row.tens = 1 => M!Flags = 0) /\ M!LevelNow \in Int
  BY FlagsAre
<1>7. PICK v : v = l * M!Row.tens + M!Flags
  OBVIOUS
<1>8. PICK c : c = M!Set(l, M!Flags)
  OBVIOUS
<1>9. c = [op |-> "set", arg |-> v] /\ c \in Commands /\ Sendable(c) /\ c.op = "set" /\ \A w : Moved(c, w) = v
  BY <1>1, <1>4, <1>5, <1>6, <1>7, <1>8, SendsCode DEF Moved
<1>10. v \in Int /\ v \div 1 = v
  BY <1>5, <1>4, <1>6, <1>7
<1>11. d.how # "choose" => Copied(v) /\ M!Stored(v) \in {<<>>, <<v>>}
  BY <1>1, <1>4, <1>7, <1>10, SendsValue
<1>12. /\ M!Row' = M!Row /\ M!Together' = M!Together
       /\ \A w : Copied(w)' <=> Copied(w)
  BY RowStays
<1>13. CASE d.how \in {"choose", "fader"}
  <2>1. PICK kept : kept = Bounded(d.low, l, d.high)
    OBVIOUS
  <2>2. PICK b \in BOOLEAN : b <=> kept = l /\ d.how = "choose"
    OBVIOUS
  <2>3. M!Send(<<c>>, kept = l /\ d.how = "choose") /\ M!SetMirror(kept * M!Row.tens + M!Flags) /\ UNCHANGED worker
    BY <1>3, <1>8, <1>13, <2>1 DEF M!Chooses, M!Bounded, Bounded
  <2>4. (kept = l /\ d.how = "choose") = b
    BY <2>2
  <2>5. kept \in d.low .. d.high
    BY <1>4, <1>5, <2>1, Rounded
  <2>6. (b => c = M!Set(kept, M!Flags)) /\ M!Row.unit # 10
    BY <1>3, <1>4, <1>8, <2>2
  <2>7. M!Send(<<c>>, b) /\ M!SetMirror(kept * M!Row.tens + M!Flags)
    BY <2>3, <2>4
  <2> QED
    BY <1>9, <2>2, <2>3, <2>5, <2>6, <2>7, SetsBoth
<1>14. CASE d.how = "parse"
  <2>1. M!Send(<<c>>, TRUE) /\ M!Hear(l) /\ UNCHANGED <<posted, worker>>
    BY <1>3, <1>8, <1>14 DEF M!Chooses
  <2>2. M!Row.tens = 1 /\ ~M!Row.guarded /\ ~posted
    BY <1>1, <1>2, <1>14 DEF SaneDial, MirTypes
  <2>3. v = l
    BY <1>5, <1>6, <1>7, <2>2
  <2>4. /\ screen' \in Int /\ io' \in Int /\ Copied(screen)'
        /\ M!Stored(l) \in {<<>>, <<screen'>>}
        /\ io = screen => io' = screen'
        /\ screen = M!Row.reset /\ M!Stored(l) # <<>> /\ M!Stored(l) # <<M!Row.reset>> => io' = screen'
    BY <1>1, <1>5, <2>1, <2>2, HearCopy
  <2>5. Queued' /\ taking' \in BOOLEAN /\ heard' \in BOOLEAN /\ Passing'
    BY <1>1, <1>9, <2>1, <2>3, <2>4, SendsOn
  <2>6. ASSUME Awaited(M!Row) PROVE M!Stored(l) # <<>> /\ M!Stored(l) # <<M!Row.reset>>
    <3>1. M!Row.low <= d.low /\ d.high <= M!Row.high /\ M!Row.reset \div 1 \notin d.low .. d.high /\ M!Row.reset \in Int
      BY <1>2, <1>14, <2>2, <2>6 DEF SaneDial, Sane
    <3>2. l \in M!Row.low .. M!Row.high /\ l # M!Row.reset
      BY <1>4, <1>14, <3>1
    <3>3. l \div 1 = l /\ l % 1 = 0 /\ l * 1 = l /\ l + 0 = l
      BY <1>5
    <3>4. Bounded(M!Row.low, l, M!Row.high) = l
      BY <1>4, <1>5, <3>2, Rounded
    <3>5. M!Stored(l) = <<l>>
      <4>1. CASE M!Row.clamps
        BY <2>2, <3>3, <3>4, <4>1 DEF M!Stored, M!Bounded, Bounded
      <4>2. CASE ~M!Row.clamps
        BY <1>4, <2>2, <3>2, <3>3, <4>2 DEF M!Stored
      <4> QED
        BY <4>1, <4>2
    <3>6. <<l>> # <<>> /\ (<<l>> = <<M!Row.reset>> => l = M!Row.reset)
      OBVIOUS
    <3> QED
      BY <3>2, <3>5, <3>6
  <2>7. Showing'
    BY <1>1, <1>12, <2>4, <2>6 DEF Showing, Waits
  <2> QED
    BY <1>1, <2>1, <2>2, <2>4, <2>5, <2>7 DEF CopyKept, MirTypes
<1>15. CASE d.how = "ask"
  <2>1. M!Send(<<c, M!Get>>, TRUE) /\ UNCHANGED <<screen, io, posted, worker>>
    BY <1>3, <1>8, <1>15 DEF M!Chooses
  <2>2. PICK s : s = <<c, M!Get>>
    OBVIOUS
  <2>3. M!Get \in Commands /\ M!Get.op = "get" /\ Sendable(M!Get)
    BY DEF M!Get, Commands, Sendable
  <2>4. s \in Seq(Commands) /\ s # <<>> /\ Len(s) = 2 /\ s[1] = c /\ s[2] = M!Get /\ DOMAIN s = {1, 2}
    BY <1>9, <2>2, <2>3
  <2>5. s[Len(s)].op = "get" /\ \A j \in DOMAIN s : Sendable(s[j])
    BY <1>9, <2>3, <2>4
  <2>6. Queued' /\ taking' \in BOOLEAN /\ heard' \in BOOLEAN /\ Passing'
    BY <1>1, <2>1, <2>2, <2>4, <2>5, SendsGet
  <2> QED
    BY <1>4, <1>15, <2>1, <2>6, CopyStays DEF Setters
<1>16. CASE d.how = "confirm"
  <2>1. M!Send(<<c>>, TRUE) /\ worker' = "get" /\ UNCHANGED <<screen, io, posted>>
    BY <1>3, <1>8, <1>16 DEF M!Chooses
  <2>2. Queued' /\ taking' \in BOOLEAN /\ heard' \in BOOLEAN /\ Passing'
    BY <1>1, <1>9, <2>1, SendsOn
  <2> QED
    BY <1>4, <1>16, <2>1, <2>2, CopyStays DEF Setters
<1>17. CASE d.how \in {"later", "zoom"}
  <2>1. M!SetMirror(l) /\ worker' = (IF d.how = "later" THEN "set" ELSE "zoom") /\ UNCHANGED <<pending, taking, heard>>
    BY <1>3, <1>17 DEF M!Chooses
  <2>2. M!Row.tens = 1 /\ ~Awaited(M!Row)
    BY <1>2, <1>17 DEF SaneDial, Setters
  <2>3. v = l
    BY <1>5, <1>6, <1>7, <2>2
  <2>4. /\ screen' = l /\ io' \in Int /\ Copied(screen)' /\ Showing'
        /\ posted' \in BOOLEAN /\ (posted' => M!Row'.guarded)
    BY <1>1, <1>5, <1>11, <1>17, <2>1, <2>2, <2>3, SetCopy
  <2>5. Codes' = Codes /\ (\A e : Sendable(e)' <=> Sendable(e)) /\ (\A e, w : Moved(e, w)' = Moved(e, w))
    BY RowStays DEF Sendable
  <2>6. \A p : Leads(p)' <=> Leads(p)
    BY <2>1, <2>5 DEF Leads
  <2>7. Queued' /\ taking' \in BOOLEAN /\ heard' \in BOOLEAN
    BY <1>1, <2>1, <2>5 DEF MirTypes, Queued
  <2>8. Passing'
    BY <1>1, <1>17, <2>1, <2>5, <2>6 DEF Passing, Asked
  <2> QED
    BY <1>5, <1>12, <1>17, <2>1, <2>4, <2>7, <2>8 DEF CopyKept
<1>18. CASE d.how = "local"
  <2>1. M!Send(<<c>>, FALSE) /\ io' = l /\ UNCHANGED <<screen, posted, worker>>
    BY <1>3, <1>8, <1>18 DEF M!Chooses
  <2>2. Queued' /\ taking' \in BOOLEAN /\ heard' \in BOOLEAN /\ Passing'
    BY <1>1, <1>9, <2>1, SendsOn
  <2>3. ~M!Together
    BY <1>2, <1>18 DEF SaneDial, M!Together
  <2>4. Showing' /\ Copied(screen)'
    BY <1>1, <1>12, <2>1, <2>3 DEF Showing
  <2> QED
    BY <1>1, <1>5, <2>1, <2>2, <2>4 DEF CopyKept, MirTypes
<1>19. CASE d.how = "blind"
  <2>1. PICK e : /\ M!Send(<<e>>, FALSE)
                 /\ \/ e = c
                    \/ /\ M!Row.tens = 10
                       /\ e = M!Set(Bounded(d.low, M!LevelNow, d.high), IF M!Flags = 0 THEN 1 ELSE 0)
    BY <1>3, <1>8, <1>19 DEF M!Chooses, M!Bounded, Bounded
  <2>2. UNCHANGED <<screen, io, posted, worker>>
    BY <1>19 DEF M!Chooses
  <2>3. Sendable(e) /\ e.op = "set"
    <3>1. CASE e = c
      BY <1>9, <3>1
    <3>2. CASE M!Row.tens = 10 /\ e = M!Set(Bounded(d.low, M!LevelNow, d.high), IF M!Flags = 0 THEN 1 ELSE 0)
      <4>1. PICK k : k = Bounded(d.low, M!LevelNow, d.high)
        OBVIOUS
      <4>2. PICK g : g = IF M!Flags = 0 THEN 1 ELSE 0
        OBVIOUS
      <4>3. k \in d.low .. d.high
        BY <1>4, <1>6, <4>1, Rounded
      <4>4. k \in Int /\ k \in M!Row.low .. M!Row.high /\ g \in 0 .. 9
        BY <1>4, <3>2, <4>2, <4>3
      <4> QED
        BY <1>1, <1>4, <3>2, <4>1, <4>2, <4>4, SendsCode
    <3> QED
      BY <2>1, <3>1, <3>2
  <2>4. Queued' /\ taking' \in BOOLEAN /\ heard' \in BOOLEAN /\ Passing'
    BY <1>1, <2>1, <2>3, SendsOn
  <2> QED
    BY <1>4, <1>19, <2>2, <2>4, CopyStays DEF Setters
<1> QED
  BY <1>4, <1>13, <1>14, <1>15, <1>16, <1>17, <1>18, <1>19

LEMMA MirTurns == MirInv /\ M!Turns => MirInv'
<1> SUFFICES ASSUME MirInv, M!Turns PROVE MirInv'
  OBVIOUS
<1>1. signals > 0 /\ signals' = signals - 1 /\ UNCHANGED <<capture, mode, generation, ui>>
  BY DEF M!Turns, M!Spends
<1>2. signals' \in 0 .. MirrorLimit
  BY <1>1, SettingsAreSane DEF MirInv, MirTypes
<1>3. PICK d \in M!Row.dials :
        \/ d.how \in M!Detents /\ \E steps \in {-1, 1} : M!StepTurns(d, steps)
        \/ d.how = "nudge" /\ mode = "up" /\ \E steps \in {-1, 1} : M!Nudges(d, steps)
        \/ d.how = "slip" /\ mode = "up" /\ \E steps \in {-1, 1} : M!Slips(d, steps)
        \/ /\ d.how \notin M!Detents \cup {"nudge", "slip"} /\ mode = "up"
           /\ \E i \in DOMAIN d.ends : M!Chooses(d, d.ends[i])
  BY DEF M!Turns
<1>4. CopyKept
  BY <1>1, <1>3, StepKeeps, NudgeKeeps, SlipKeeps, ChooseKeeps
<1> QED
  BY <1>1, <1>2, <1>4, KeptMirror

\* The timer of the equalizers sends what the copy has by then.
LEMMA MirFires == MirInv /\ M!TimerSends => MirInv'
<1> SUFFICES ASSUME MirInv, M!TimerSends PROVE MirInv'
  OBVIOUS
<1>1. /\ worker # "no" /\ worker' = "no"
      /\ UNCHANGED <<capture, mode, generation, ui, screen, io, posted, signals>>
  BY DEF M!TimerSends
<1>2. MirTypes /\ Copied(screen) /\ Showing /\ Passing /\ capture \in DOMAIN Rows /\ screen \in Int
  BY <1>1 DEF MirInv, MirTypes
<1>3. /\ M!Row' = M!Row /\ M!Together' = M!Together
      /\ \A w : Copied(w)' <=> Copied(w)
  BY <1>1, RowStays
<1>4. signals' \in 0 .. MirrorLimit
  BY <1>1, <1>2 DEF MirTypes
<1>5. CASE worker = "get" /\ M!Send(<<M!Get>>, TRUE)
  <2>1. PICK s : s = <<M!Get>>
    OBVIOUS
  <2>2. M!Get \in Commands /\ M!Get.op = "get" /\ Sendable(M!Get)
    BY DEF M!Get, Commands, Sendable
  <2>3. s \in Seq(Commands) /\ s # <<>> /\ Len(s) = 1 /\ s[1] = M!Get /\ DOMAIN s = {1}
    BY <2>1, <2>2
  <2>4. s[Len(s)].op = "get" /\ \A j \in DOMAIN s : Sendable(s[j])
    BY <2>2, <2>3
  <2>5. M!Send(s, TRUE)
    BY <1>5, <2>1
  <2>6. /\ Queued' /\ taking' \in BOOLEAN /\ heard' \in BOOLEAN /\ Passing' /\ (mode = "up" => Asked')
        /\ \A i \in DOMAIN pending' : \/ i \in DOMAIN pending /\ pending'[i] = pending[i]
                                      \/ \E j \in DOMAIN s : pending'[i] = s[j]
    BY <1>1, <1>2, <2>3, <2>4, <2>5, SendsGet
  <2>7. ASSUME Waits PROVE Waits'
    <3>1. ASSUME mode = "up", NEW i \in DOMAIN pending', pending'[i].op = "set" PROVE pending'[i].arg \in M!Row.codes
      BY <2>2, <2>3, <2>6, <2>7, <3>1 DEF Waits
    <3> QED
      BY <1>1, <1>3, <2>6, <2>7, <3>1 DEF Waits
  <2>8. Showing'
    BY <1>1, <1>2, <1>3, <2>7 DEF Showing
  <2>9. CopyKept
    BY <1>1, <1>2, <1>3, <2>6, <2>8 DEF CopyKept, MirTypes
  <2> QED
    BY <1>1, <1>4, <2>9, KeptMirror
<1>6. ASSUME NEW d \in M!Row.dials, d.how \in {"later", "zoom"}, NEW l \in Int, NEW b \in BOOLEAN, b => l = screen,
             M!Send(<<M!Set(l, M!Flags)>>, b)
      PROVE  MirInv'
  <2>1. Sane(M!Row) /\ SaneDial(M!Row, d)
    BY <1>2, RowIsSane DEF Sane
  <2>2. M!Row.tens = 1 /\ ~M!Row.clamps /\ M!Row.unit = 1 /\ ~Awaited(M!Row)
    BY <1>6, <2>1 DEF SaneDial, Sane, Setters
  <2>3. M!Flags = 0
    BY <2>2, FlagsAre
  <2>4. PICK c : c = M!Set(l, M!Flags)
    OBVIOUS
  <2>5. l * 1 + 0 = l
    OBVIOUS
  <2>6. c = [op |-> "set", arg |-> l] /\ c \in Commands /\ Sendable(c) /\ c.op # "get"
    BY <1>2, <2>2, <2>3, <2>4, <2>5, SendsCode
  <2>7. \A v : Moved(c, v) = l
    BY <2>6 DEF Moved
  <2>8. b => M!Stored(l) \in {<<>>, <<screen>>}
    <3>1. screen \div 1 = screen /\ screen * 1 = screen
      BY <1>2
    <3> QED
      BY <1>6, <2>2, <3>1 DEF M!Stored
  <2>9. M!Send(<<c>>, b)
    BY <1>6, <2>4
  <2>10. b => \A v \in Codes : M!Stored(Moved(c, v)) \in {<<>>, <<screen'>>}
    BY <1>1, <2>7, <2>8
  <2>11. Queued' /\ taking' \in BOOLEAN /\ heard' \in BOOLEAN /\ Passing'
    BY <1>1, <1>2, <1>6, <2>6, <2>9, <2>10, SendsOn
  <2>12. Showing'
    BY <1>1, <1>2, <1>3, <2>2 DEF Showing, Waits
  <2>13. CopyKept
    BY <1>1, <1>2, <1>3, <2>11, <2>12 DEF CopyKept, MirTypes
  <2> QED
    BY <1>1, <1>4, <2>13, KeptMirror
<1>7. CASE worker = "set" /\ M!Send(<<M!Set(M!LevelNow, M!Flags)>>, TRUE)
  <2>1. PICK d \in M!Row.dials : d.how = "later"
    BY <1>2, <1>7 DEF MirTypes
  <2>2. M!Row.tens = 1
    BY <1>2, <2>1, RowIsSane DEF Sane, SaneDial
  <2>3. M!LevelNow = screen
    BY <2>2, FlagsAre
  <2> QED
    BY <1>2, <1>6, <1>7, <2>1, <2>3
<1>8. CASE \E d \in M!Row.dials : \E i \in DOMAIN d.ends :
             d.how = "zoom" /\ M!Send(<<M!Set(d.ends[i], M!Flags)>>, d.ends[i] = M!LevelNow)
  <2>0. PICK d \in M!Row.dials : \E i \in DOMAIN d.ends :
          d.how = "zoom" /\ M!Send(<<M!Set(d.ends[i], M!Flags)>>, d.ends[i] = M!LevelNow)
    BY <1>8
  <2>1. PICK i \in DOMAIN d.ends :
          d.how = "zoom" /\ M!Send(<<M!Set(d.ends[i], M!Flags)>>, d.ends[i] = M!LevelNow)
    BY <2>0
  <2>2. SaneDial(M!Row, d)
    BY <1>2, RowIsSane DEF Sane
  <2>3. M!Row.tens = 1 /\ d.ends[i] \in Int
    BY <2>1, <2>2 DEF SaneDial
  <2>4. M!LevelNow = screen
    BY <2>3, FlagsAre
  <2>5. PICK l : l = d.ends[i]
    OBVIOUS
  <2>6. PICK b \in BOOLEAN : b <=> l = screen
    OBVIOUS
  <2>7. (d.ends[i] = M!LevelNow) = b
    BY <2>4, <2>5, <2>6
  <2>8. M!Send(<<M!Set(l, M!Flags)>>, b)
    BY <2>1, <2>5, <2>7
  <2> QED
    BY <1>6, <2>1, <2>3, <2>5, <2>6, <2>8
<1>9. \/ worker = "get" /\ M!Send(<<M!Get>>, TRUE)
      \/ worker = "set" /\ M!Send(<<M!Set(M!LevelNow, M!Flags)>>, TRUE)
      \/ \E d \in M!Row.dials : \E i \in DOMAIN d.ends :
            d.how = "zoom" /\ M!Send(<<M!Set(d.ends[i], M!Flags)>>, d.ends[i] = M!LevelNow)
  BY DEF M!TimerSends
<1> QED
  BY <1>5, <1>7, <1>8, <1>9

LEMMA MirMacro == MirInv /\ M!SendMacro => MirInv'
<1> SUFFICES ASSUME MirInv, M!SendMacro PROVE MirInv'
  OBVIOUS
<1>1. PICK k \in M!Row.codes : M!Send(<<[op |-> "set", arg |-> k], M!Get>>, TRUE)
  BY DEF M!SendMacro
<1>2. /\ mode = "up" /\ signals > 0 /\ signals' = signals - 1
      /\ UNCHANGED <<capture, mode, generation, ui, screen, io, posted, worker>>
  BY DEF M!SendMacro, M!Spends
<1>3. MirTypes /\ Copied(screen) /\ Showing /\ Passing /\ capture \in DOMAIN Rows /\ screen \in Int /\ signals \in 0 .. MirrorLimit
  BY DEF MirInv, MirTypes
<1>4. signals' \in 0 .. MirrorLimit
  BY <1>2, <1>3, SettingsAreSane
<1>5. k \in Codes /\ k \in Int
  BY <1>3, CodesAreCodes DEF Codes
<1>6. PICK c : c = [op |-> "set", arg |-> k]
  OBVIOUS
<1>7. PICK s : s = <<c, M!Get>>
  OBVIOUS
<1>8. /\ c \in Commands /\ Sendable(c) /\ c.arg = k
      /\ M!Get \in Commands /\ M!Get.op = "get" /\ Sendable(M!Get)
  BY <1>5, <1>6 DEF Commands, Sendable, M!Get
<1>9. s \in Seq(Commands) /\ s # <<>> /\ Len(s) = 2 /\ s[1] = c /\ s[2] = M!Get /\ DOMAIN s = {1, 2}
  BY <1>7, <1>8
<1>10. s[Len(s)].op = "get" /\ \A j \in DOMAIN s : Sendable(s[j])
  BY <1>8, <1>9
<1>11. /\ Queued' /\ taking' \in BOOLEAN /\ heard' \in BOOLEAN /\ Passing' /\ (mode = "up" => Asked')
       /\ \A i \in DOMAIN pending' : \/ i \in DOMAIN pending /\ pending'[i] = pending[i]
                                     \/ \E j \in DOMAIN s : pending'[i] = s[j]
  BY <1>1, <1>2, <1>3, <1>6, <1>7, <1>9, <1>10, SendsGet
<1>12. /\ M!Row' = M!Row /\ M!Together' = M!Together
       /\ \A w : Copied(w)' <=> Copied(w)
  BY <1>2, RowStays
<1>13. ASSUME Waits PROVE Waits'
  <2>1. ASSUME NEW i \in DOMAIN pending', pending'[i].op = "set" PROVE pending'[i].arg \in M!Row.codes
    BY <1>2, <1>8, <1>9, <1>11, <1>13, <2>1 DEF Waits
  <2> QED
    BY <1>2, <1>11, <1>12, <1>13, <2>1 DEF Waits
<1>14. Showing'
  BY <1>2, <1>3, <1>12, <1>13 DEF Showing
<1>15. CopyKept
  BY <1>2, <1>3, <1>11, <1>12, <1>14 DEF CopyKept, MirTypes
<1> QED
  BY <1>2, <1>4, <1>15, KeptMirror

----------------------------------------------------------------------------
(* The whole part. *)
OfMirror == part = "mirror" => MirInv

LEMMA MirrorStarts == AllInit => OfMirror
  BY MirStarts DEF AllInit, OfMirror

LEMMA MirrorSteps == OfMirror /\ [AllNext]_all => OfMirror'
<1> SUFFICES ASSUME OfMirror, [AllNext]_all PROVE OfMirror'
  OBVIOUS
<1>1. part' = part
  BY DEF AllNext, Receiver, Mirror, Policy, Tuning, TxSlot, all
<1>2. CASE part # "mirror"
  BY <1>1, <1>2 DEF OfMirror
<1>3. CASE part = "mirror" /\ UNCHANGED all
  <2>1. UNCHANGED <<capture, mode, generation, pending, ui, screen, io, posted, worker, taking, heard, signals>>
    BY <1>3 DEF all, vars
  <2>2. MirTypes /\ Copied(screen) /\ Showing /\ Passing
    BY <1>3 DEF OfMirror, MirInv
  <2>3. /\ M!Row' = M!Row /\ Codes' = Codes /\ (\A d : Sendable(d)' <=> Sendable(d)) /\ M!Together' = M!Together
        /\ (\A d : Agrees(d)' <=> Agrees(d)) /\ (\A d, v : Moved(d, v)' = Moved(d, v)) /\ Copied(screen)'
    BY <2>1, <2>2, RowStays DEF Sendable, Agrees
  <2>4. \A p : Leads(p)' <=> Leads(p)
    BY <2>1, <2>3 DEF Leads
  <2>5. MirTypes'
    BY <2>1, <2>2, <2>3 DEF MirTypes, Queued
  <2>6. Passing'
    BY <2>1, <2>2, <2>3, <2>4 DEF Passing, Asked
  <2>7. Showing'
    BY <2>1, <2>2, <2>3 DEF Showing, Waits, Asked
  <2> QED
    BY <2>3, <2>5, <2>6, <2>7 DEF OfMirror, MirInv
<1>4. CASE part = "mirror" /\ AllNext
  <2>1. ~Receiver /\ ~Policy /\ ~TxSlot /\ ~Tuning /\ MirInv
    BY <1>4 DEF Receiver, Policy, TxSlot, Tuning, OfMirror
  <2>2. \/ M!Connect \/ M!Disconnect \/ M!RadioTakes \/ M!PanelTurns \/ M!PhoneTakes \/ M!GuardExpires
        \/ M!Turns \/ M!TimerSends \/ M!SendMacro
    BY <1>4, <2>1 DEF AllNext
  <2>3. MirInv'
    BY <2>1, <2>2, MirConnects, MirDisconnects, MirTakes, MirTurnsPanel, MirHears, MirForgets, MirTurns, MirFires, MirMacro
  <2> QED
    BY <2>3 DEF OfMirror
<1> QED
  BY <1>2, <1>3, <1>4

LEMMA MirrorIsTyped == OfMirror /\ part = "mirror" => M!TypeOK
<1> SUFFICES ASSUME MirInv PROVE M!TypeOK
  BY DEF OfMirror
<1>1. MirTypes /\ Copied(screen)
  BY DEF MirInv
<1>2. generation \in Int
  BY <1>1 DEF MirTypes, Codes
<1> QED
  BY <1>1, <1>2 DEF MirTypes, Queued, Copied, InRange, M!TypeOK

\* When all is settled and nothing has passed anything, the copy is what the K4 has.
LEMMA CopyAgrees == MirInv /\ M!Settled /\ ~taking /\ ~heard => Agrees(generation)
<1> SUFFICES ASSUME MirInv, M!Settled, ~taking, ~heard PROVE Agrees(generation)
  OBVIOUS
<1>1. mode = "up" /\ pending = <<>> /\ ui = <<>> /\ worker = "no" /\ Passing
  BY DEF M!Settled, MirInv
<1>2. ~Asked
  BY <1>1 DEF Asked
<1>3. PICK p \in Seq(Codes) : Leads(p) /\ Agrees(p[Len(p)])
  BY <1>1, <1>2 DEF Passing
<1>4. Len(p) = 1 /\ p[1] = generation
  BY <1>1, <1>3 DEF Leads
<1> QED
  BY <1>3, <1>4

\* The phone's copy of a setting of RadioState is what the K4 has once all that was sent has
\* been taken, unless a command and a report passed each other or a control sent another
\* value than it stored; and a widget that is cleared together with its copy shows it again
\* after a reconnect.
THEOREM CopiesTheRadio == AllSpec => []CopyIsRadio
<1>1. OfMirror => CopyIsRadio
  <2> SUFFICES ASSUME OfMirror, part = "mirror" PROVE M!MirrorIsRadio /\ M!ShownIsMirror
    BY DEF CopyIsRadio
  <2>0. MirInv
    BY DEF OfMirror
  <2>1. M!MirrorIsRadio
    BY <2>0, CopyAgrees DEF M!MirrorIsRadio, Agrees
  <2>2. M!ShownIsMirror
    <3> SUFFICES ASSUME M!Settled, M!Together PROVE io = screen
      BY DEF M!ShownIsMirror
    <3>1. mode = "up" /\ pending = <<>> /\ ui = <<>> /\ ~Asked
      BY DEF M!Settled, Asked
    <3> QED
      BY <2>0, <3>1 DEF MirInv, Showing, Waits
  <2> QED
    BY <2>1, <2>2
<1> QED
  BY <1>1, MirrorStarts, MirrorSteps, PTL DEF AllSpec

----------------------------------------------------------------------------
(* Two parts of a setting in one command. *)

LEMMA OnlyOne ==
  ASSUME NEW c, pending' = <<>> \o <<c>>
  PROVE  pending'[1] = c
<1>1. <<>> \in Seq({c}) /\ Len(<<>>) = 0
  OBVIOUS
<1>2. (<<>> \o <<c>>)[0 + 1] = c
  BY <1>1, Joins
<1> QED
  BY <1>2

LEMMA NotOne ==
  ASSUME NEW c \in Commands, pending' = <<>> \o <<c, M!Get>>
  PROVE  Len(pending') # 1
<1>1. M!Get \in Commands
  BY DEF M!Get, Commands
<1>2. <<>> \in Seq(Commands) /\ <<c, M!Get>> \in Seq(Commands) /\ Len(<<>>) = 0 /\ Len(<<c, M!Get>>) = 2
  BY <1>1
<1>3. Len(<<>> \o <<c, M!Get>>) = 0 + 2
  BY <1>2, JoinsAll
<1> QED
  BY <1>3

\* A command with two parts has the level and the flag it was made of.
LEMMA HasParts ==
  ASSUME capture \in DOMAIN Rows, M!Row.tens = 10, NEW l \in Int, ~M!Row.clamps => l \in M!Row.low .. M!Row.high,
         NEW g \in 0 .. 9
  PROVE  M!Set(l, g) \in Commands /\ M!Set(l, g).arg \div 10 = l /\ M!Set(l, g).arg % 10 = g
<1>1. M!Row.unit = 1
  BY RowIsSane DEF Sane
<1>2. M!Set(l, g) = [op |-> "set", arg |-> l * 10 + g] /\ M!Set(l, g) \in Commands
  <2>1. M!Row.tens # 1
    OBVIOUS
  <2>2. M!Set(l, g) = [op |-> "set", arg |-> l * M!Row.tens + g] /\ M!Set(l, g) \in Commands
    BY <1>1, <2>1, SendsCode
  <2> QED
    BY <2>2
<1>3. (l * 10 + g) \div 10 = l /\ (l * 10 + g) % 10 = g
  BY TwoParts
<1> QED
  BY <1>2, <1>3

\* Within the handler's range: by a dial, or by the list that choose() sends from.
LEMMA WithinRow ==
  ASSUME capture \in DOMAIN Rows, M!Row.tens = 10, NEW d \in M!Row.dials, NEW l, l \in d.low .. d.high \/ l \in M!Row.low .. M!Row.high
  PROVE  l \in Int /\ l \in M!Row.low .. M!Row.high
<1>1. Sane(M!Row) /\ SaneDial(M!Row, d)
  BY RowIsSane DEF Sane
<1>2. d.low \in Int /\ d.high \in Int /\ M!Row.low \in Int /\ M!Row.high \in Int /\ M!Row.low <= d.low /\ d.high <= M!Row.high
  BY <1>1 DEF SaneDial, Sane
<1> QED
  BY <1>2

LEMMA TurnsKeepFlag ==
  ASSUME MirInv, M!Turns, M!Row.tens = 10, ~M!CutsFlag, pending = <<>>, mode = "up", Len(pending') = 1, pending'[1].op = "set",
         ~M!Row.clamps => screen \div 10 \in M!Row.low .. M!Row.high
  PROVE  \/ pending'[1].arg % 10 = screen % 10
         \/ ~M!Row.clamps /\ pending'[1].arg \div 10 = screen \div 10
<1>1. PICK d \in M!Row.dials :
        \/ d.how \in M!Detents /\ \E steps \in {-1, 1} : M!StepTurns(d, steps)
        \/ d.how = "nudge" /\ mode = "up" /\ \E steps \in {-1, 1} : M!Nudges(d, steps)
        \/ d.how = "slip" /\ mode = "up" /\ \E steps \in {-1, 1} : M!Slips(d, steps)
        \/ /\ d.how \notin M!Detents \cup {"nudge", "slip"} /\ mode = "up"
           /\ \E i \in DOMAIN d.ends : M!Chooses(d, d.ends[i])
  BY DEF M!Turns
<1>2. capture \in DOMAIN Rows /\ Copied(screen) /\ screen \in Int /\ M!Flags \in 0 .. 9 /\ M!LevelNow \in Int
  BY FlagsAre DEF MirInv
<1>3. M!Flags = screen % 10 /\ M!LevelNow = screen \div 10
  BY DEF M!Flags, M!LevelNow
<1>4. Sane(M!Row) /\ SaneDial(M!Row, d) /\ d.how # "cut"
  BY <1>2, RowIsSane DEF Sane, M!CutsFlag
<1>5. ASSUME NEW l, l \in d.low .. d.high \/ l \in M!Row.low .. M!Row.high, pending' = <<>> \o <<M!Set(l, M!Flags)>>
      PROVE  pending'[1].arg % 10 = screen % 10
  <2>1. l \in Int /\ l \in M!Row.low .. M!Row.high
    BY <1>2, <1>5, WithinRow
  <2> QED
    BY <1>2, <1>3, <1>5, <2>1, HasParts, OnlyOne
<1>6. ASSUME NEW a, pending' = <<>> \o <<M!Nudge(a)>> PROVE FALSE
  <2>1. pending'[1] = M!Nudge(a)
    BY <1>6, OnlyOne
  <2> QED
    BY <2>1 DEF M!Nudge
<1>7. CASE d.how \in M!Detents
  <2>1. PICK steps \in {-1, 1} : M!StepTurns(d, steps)
    BY <1>1, <1>7 DEF M!Detents
  <2>2. PICK next : next = IF d.how = "power" THEN M!NextPower(steps)
                           ELSE IF d.how = "midi" THEN M!NextMidi(steps)
                           ELSE Bounded(d.low, (IF M!LevelNow < d.floor THEN d.floor ELSE M!LevelNow) + steps * d.by, d.high)
    OBVIOUS
  <2>3. d.how = "step"
    BY <1>4, <1>7 DEF SaneDial, M!Detents
  <2>4. M!Sent(d, next) = next
    BY <2>3 DEF M!Sent
  <2>5. pending' = <<>> \o <<M!Set(next, M!Flags)>>
    BY <2>1, <2>2, <2>3, <2>4 DEF M!StepTurns, M!Bounded, Bounded, M!Send
  <2>6. next \in d.low .. d.high
    BY <1>2, <1>7, <2>2, Detents
  <2> QED
    BY <1>5, <2>5, <2>6
<1>8. CASE d.how = "nudge"
  <2>1. PICK steps \in {-1, 1} : M!Nudges(d, steps)
    BY <1>1, <1>8 DEF M!Detents
  <2>2. PICK cmds : M!Send(cmds, TRUE) /\ \/ cmds = <<>>
                                          \/ \E a : cmds = <<M!Nudge(a)>>
    BY <2>1 DEF M!Nudges
  <2>3. pending' = <<>> \o cmds
    BY <2>2 DEF M!Send
  <2>4. CASE cmds = <<>>
    BY <2>3, <2>4
  <2>5. CASE \E a : cmds = <<M!Nudge(a)>>
    BY <1>6, <2>3, <2>5
  <2> QED
    BY <2>2, <2>4, <2>5
<1>9. CASE d.how = "slip"
  <2>1. PICK steps \in {-1, 1} : M!Slips(d, steps)
    BY <1>1, <1>9 DEF M!Detents
  <2>2. pending' = <<>> \o <<M!Nudge(steps * d.by)>>
    BY <2>1 DEF M!Slips, M!Send
  <2> QED
    BY <1>6, <2>2
<1>10. CASE d.how \notin M!Detents \cup {"nudge", "slip"}
  <2>1. PICK i \in DOMAIN d.ends : M!Chooses(d, d.ends[i])
    BY <1>1, <1>10
  <2>2. PICK l : l = d.ends[i]
    OBVIOUS
  <2>3. l \in d.low .. d.high \/ l \in M!Row.low .. M!Row.high
    BY <1>4, <2>2 DEF SaneDial
  <2>4. d.how \in {"choose", "fader", "parse", "ask", "confirm", "local", "blind"}
    BY <1>4, <1>10 DEF SaneDial, Hows, Setters, M!Detents
  <2>5. CASE pending' = <<>> \o <<M!Set(l, M!Flags)>>
    BY <1>5, <2>3, <2>5
  <2>6. CASE pending' = <<>> \o <<M!Set(l, M!Flags), M!Get>>
    <3>1. l \in Int /\ l \in M!Row.low .. M!Row.high
      BY <1>2, <2>3, WithinRow
    <3>2. M!Set(l, M!Flags) \in Commands
      BY <1>2, <3>1, HasParts
    <3> QED
      BY <2>6, <3>2, NotOne
  <2>7. CASE /\ d.how = "blind"
             /\ pending' = <<>> \o <<M!Set(Bounded(d.low, M!LevelNow, d.high), IF M!Flags = 0 THEN 1 ELSE 0)>>
    <3>1. ~M!Row.clamps /\ d.low = M!Row.low /\ d.high = M!Row.high /\ d.low \in Int /\ d.high \in Int /\ d.low <= d.high
      BY <1>4, <2>7 DEF SaneDial
    <3>6. M!LevelNow \in d.low .. d.high
      BY <1>3, <3>1
    <3>2. Bounded(d.low, M!LevelNow, d.high) = screen \div 10
      BY <1>2, <1>3, <3>1, <3>6 DEF Bounded
    <3>3. PICK g \in 0 .. 9 : g = IF M!Flags = 0 THEN 1 ELSE 0
      OBVIOUS
    <3>4. pending' = <<>> \o <<M!Set(screen \div 10, g)>>
      BY <2>7, <3>2, <3>3
    <3>5. M!Set(screen \div 10, g).arg \div 10 = screen \div 10
      BY <1>2, <1>3, <3>1, HasParts
    <3> QED
      BY <3>1, <3>4, <3>5, OnlyOne
  <2>8. \/ pending' = <<>> \o <<M!Set(l, M!Flags)>>
        \/ pending' = <<>> \o <<M!Set(l, M!Flags), M!Get>>
        \/ /\ d.how = "blind"
           /\ pending' = <<>> \o <<M!Set(Bounded(d.low, M!LevelNow, d.high), IF M!Flags = 0 THEN 1 ELSE 0)>>
    BY <2>1, <2>2, <2>4 DEF M!Chooses, M!Send, M!Bounded, Bounded
  <2> QED
    BY <2>5, <2>6, <2>7, <2>8
<1> QED
  BY <1>1, <1>7, <1>8, <1>9, <1>10

LEMMA OnePartMirror == MirInv /\ AllNext /\ part = "mirror" => M!OnePartChanges
<1> SUFFICES ASSUME MirInv, AllNext, part = "mirror",
                    M!Row.tens = 10, ~M!CutsFlag, M!Settled, ~taking, ~heard, Len(pending') = 1, pending'[1].op = "set"
             PROVE  pending'[1].arg \div 10 = generation \div 10 \/ pending'[1].arg % 10 = generation % 10
  BY DEF M!OnePartChanges
<1>1. /\ mode = "up" /\ pending = <<>> /\ worker = "no" /\ capture \in DOMAIN Rows /\ generation \in Codes /\ screen \in Int
  BY DEF M!Settled, MirInv, MirTypes
<1>2. /\ screen % 10 = generation % 10
      /\ ~M!Row.clamps => screen = generation /\ screen \div 10 \in M!Row.low .. M!Row.high
  <2>1. Agrees(generation)
    BY CopyAgrees
  <2>2. generation \in Int
    BY <1>1 DEF Codes
  <2>3. PICK x \in Int : M!Stored(generation) = <<x>> /\ x % 10 = generation % 10
    BY <1>1, <2>2, Stores
  <2>4. <<x>> # <<>> /\ (<<x>> = <<screen>> => x = screen)
    OBVIOUS
  <2>5. x = screen
    BY <2>1, <2>3, <2>4 DEF Agrees
  <2>6. ASSUME ~M!Row.clamps PROVE screen = generation /\ screen \div 10 \in M!Row.low .. M!Row.high
    <3>1. M!Row.unit = 1 /\ generation * 1 = generation
      BY <1>1, <2>2, RowIsSane DEF Sane
    <3>2. generation \div 10 \in M!Row.low .. M!Row.high
      BY <1>1, <2>6 DEF Codes
    <3>3. M!Stored(generation) = <<generation>>
      BY <2>6, <3>1, <3>2 DEF M!Stored
    <3>4. <<x>> = <<generation>> => x = generation
      OBVIOUS
    <3> QED
      BY <2>3, <2>5, <3>2, <3>3, <3>4
  <2> QED
    BY <2>3, <2>5, <2>6
<1>3. ~Receiver /\ ~Policy /\ ~TxSlot /\ ~Tuning
  BY DEF Receiver, Policy, TxSlot, Tuning
<1>4. \/ M!Connect \/ M!Disconnect \/ M!RadioTakes \/ M!PanelTurns \/ M!PhoneTakes \/ M!GuardExpires
      \/ M!Turns \/ M!TimerSends \/ M!SendMacro
  BY <1>3 DEF AllNext
<1>5. CASE M!Turns
  BY <1>1, <1>2, <1>5, TurnsKeepFlag
<1>6. CASE M!SendMacro
  <2>1. PICK k \in M!Row.codes : M!Send(<<[op |-> "set", arg |-> k], M!Get>>, TRUE)
    BY <1>6 DEF M!SendMacro
  <2>2. [op |-> "set", arg |-> k] \in Commands
    BY <1>1, CodesAreCodes DEF Codes, Commands
  <2>3. pending' = <<>> \o <<[op |-> "set", arg |-> k], M!Get>>
    BY <1>1, <2>1 DEF M!Send
  <2> QED
    BY <2>2, <2>3, NotOne
<1>7. CASE M!TimerSends
  BY <1>1, <1>7 DEF M!TimerSends
<1>8. CASE M!Connect \/ M!Disconnect \/ M!RadioTakes \/ M!PanelTurns \/ M!PhoneTakes \/ M!GuardExpires
  <2>1. pending' = <<>> \/ (mode = "down")
    BY <1>1, <1>8 DEF M!Connect, M!Disconnect, M!RadioTakes, M!PanelTurns, M!PhoneTakes, M!GuardExpires
  <2> QED
    BY <1>1, <2>1
<1> QED
  BY <1>4, <1>5, <1>6, <1>7, <1>8

\* A command that carries two parts of a setting, its level and its switch, changes one of
\* them only: MainWindow takes the other from its copy, and the copy is what the K4 has.
\* Not so SD, the delay's command, which clears QSK.
THEOREM ChangesOnePart == AllSpec => OthersAreKept
<1>1. OfMirror /\ [AllNext]_all => [part = "mirror" => M!OnePartChanges]_all
  <2> SUFFICES ASSUME OfMirror, AllNext, part = "mirror" PROVE M!OnePartChanges
    OBVIOUS
  <2>1. MirInv
    BY DEF OfMirror
  <2> QED
    BY <2>1, OnePartMirror
<1> QED
  BY <1>1, MirrorStarts, MirrorSteps, PTL DEF AllSpec, OthersAreKept

----------------------------------------------------------------------------
(* The types of every part.                                               *)

\* Every part of MCDevices keeps its types, the sum of the pending blocks of Ft8Receiver too.
THEOREM KeepsAllTypes == AllSpec => []TypesOK
<1>1. OfReceiver /\ OfMirror /\ OfSlot => TypesOK
  BY ReceiverIsTyped, MirrorIsTyped, SlotIsTyped DEF TypesOK
<1>2. AllInit => OfReceiver /\ OfMirror /\ OfSlot
  BY ReceiverStarts, MirrorStarts, SlotStarts
<1>3. OfReceiver /\ OfMirror /\ OfSlot /\ [AllNext]_all => (OfReceiver /\ OfMirror /\ OfSlot)'
  BY ReceiverSteps, MirrorSteps, SlotSteps
<1> QED
  BY <1>1, <1>2, <1>3, PTL DEF AllSpec

================================================================================
