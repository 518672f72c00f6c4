--------------------------- MODULE DigitalTxProofs ---------------------------
(***************************************************************************)
(* Proofs about DigitalTx, for every value of its constants: what it keeps *)
(* of its types, the lease of the gate, and then, from an inductive        *)
(* invariant about the order of the calls in the three event queues, why a *)
(* stale call never keys, feeds or ends a later transmission and why the   *)
(* microphone is closed while program audio is on the air.                 *)
(***************************************************************************)
EXTENDS DigitalTx, CallQueues

-----------------------------------------------------------------------------
(* The operators keep the types.                                           *)

\* Closing, revoking or faulting a generation leaves a DigitalTxControl.
LEMMA ControlOps ==
  ASSUME NEW c \in ControlType, NEW g \in Nat
  PROVE  Close(c, g) \in ControlType /\ Revoke(c, g) \in ControlType /\ Fault(c, g) \in ControlType
  BY DEF ControlType, Close, Revoke, Fault, Gen

\* A step that writes nothing to the socket keeps the history's type.
LEMMA QuietOp == line \in LineType /\ Quiet => line' \in LineType
  BY DEF LineType, Quiet, Silence, Gen

\* Spending one of the bounded environment steps keeps the bounds' type.
LEMMA SpendsOp ==
  ASSUME left \in LeftType, NEW what \in {"stop", "ptt"}, Spends(what)
  PROVE  left' \in LeftType
  BY DEF LeftType, Spends

\* Posting a call to an event queue.
LEMMA Put ==
  ASSUME NEW names, NEW q \in Seq(Call(names)), NEW t \in names, NEW g \in Nat, NEW x \in BOOLEAN
  PROVE  Append(q, Msg(t, g, x)) \in Seq(Call(names)) /\ <<Msg(t, g, x)>> \in Seq(Call(names))
  BY DEF Call, Msg, Gen

\* Taking the first call of an event queue.
LEMMA Take ==
  ASSUME NEW names, NEW q \in Seq(Call(names)), q # <<>>
  PROVE  Tail(q) \in Seq(Call(names)) /\ Head(q).g \in Nat /\ Head(q).x \in BOOLEAN
<1>1. Head(q) \in Call(names) /\ Tail(q) \in Seq(Call(names))
  OBVIOUS
<1> QED
  BY <1>1 DEF Call, Gen

\* Posting two calls at once.
LEMMA Join ==
  ASSUME NEW names, NEW q \in Seq(Call(names)), NEW r \in Seq(Call(names))
  PROVE  q \o r \in Seq(Call(names)) /\ <<>> \in Seq(Call(names))
  OBVIOUS

\* The names the three queues carry.
LEMMA Names ==
  /\ \A t \in {"finished", "prepared", "keyReq", "sstvFailed", "accepted", "fault",
               "disconnected"} : t \in UiCall
  /\ \A t \in {"beginFt8", "beginSstv", "audio", "stopSched", "stop", "ack", "tx", "rx",
               "mic"} : t \in IoCall
  /\ \A t \in {"schedule", "cancel", "keyed", "accepted", "unkeyed", "prepare", "beginSstv",
               "stopSstv", "stopEngine", "ptt"} : t \in AuCall
  BY DEF UiCall, IoCall, AuCall

\* The generations the threads hold are numbers.
LEMMA UiFields ==
  ASSUME NEW u \in UiType
  PROVE  u.gen \in Nat /\ u.gen + 1 \in Nat /\ u.ft8 \in Nat /\ u.pc \in {"idle", "haltFt8", "release", "stopSstv"}
  BY DEF UiType, Gen

\* The I/O thread's generations are numbers, its mode one of the two.
LEMMA IoFields ==
  ASSUME NEW i \in IoType
  PROVE  i.guardGen \in Nat /\ i.gateGen \in Nat /\ i.drain \in Nat /\ i.mode \in {"ft8", "sstv"}
  BY DEF IoType, Gen

\* The audio engine's generations are numbers.
LEMMA AuFields ==
  ASSUME NEW a \in AuType
  PROVE  a.gen \in Nat /\ a.enc \in Nat /\ a.emitted \in Nat
  BY DEF AuType, Gen

\* The Ft8Transmitter's generation and packet counter are numbers.
LEMMA TxFields ==
  ASSUME NEW t \in TxType
  PROVE  t.gen \in Nat /\ t.emitted \in Nat
  BY DEF TxType, Gen

-----------------------------------------------------------------------------
(* Type correctness, thread by thread.                                     *)

\* Every assignment of the UI thread to its own state.
LEMMA UiUpdates ==
  ASSUME NEW u \in UiType, NEW p \in {"idle", "haltFt8", "release", "stopSstv"}
  PROVE  /\ [u EXCEPT !.pc = p] \in UiType
         /\ [u EXCEPT !.keyUp = 0, !.pc = p] \in UiType
         /\ [u EXCEPT !.held = FALSE, !.pc = p] \in UiType
         /\ [u EXCEPT !.ft8 = 0] \in UiType
         /\ [u EXCEPT !.ptt = FALSE] \in UiType
         /\ [u EXCEPT !.starting = FALSE] \in UiType
         /\ [u EXCEPT !.held = TRUE] \in UiType
         /\ [u EXCEPT !.held = TRUE, !.ptt = TRUE] \in UiType
         /\ [u EXCEPT !.held = FALSE, !.ptt = FALSE] \in UiType
         /\ [u EXCEPT !.keyUp = 0] \in UiType
         /\ [u EXCEPT !.keyUp = 0, !.starting = FALSE, !.active = TRUE, !.draining = FALSE] \in UiType
         /\ [u EXCEPT !.draining = TRUE, !.drain = u.gen] \in UiType
         /\ [u EXCEPT !.drain = 0] \in UiType
  BY DEF UiType, Gen

\* Starting and stopping a transmission at a number keeps the UI's type.
LEMMA UiRestarts ==
  ASSUME NEW u \in UiType
  PROVE  /\ [u EXCEPT !.gen = u.gen + 1, !.ft8 = u.gen + 1] \in UiType
         /\ [u EXCEPT !.gen = u.gen + 1, !.starting = TRUE, !.active = FALSE, !.draining = FALSE]
              \in UiType
         /\ [u EXCEPT !.pc = "idle", !.gen = u.gen + 1, !.starting = FALSE, !.active = FALSE,
                      !.draining = FALSE] \in UiType
         /\ [u EXCEPT !.drain = 0, !.gen = u.gen + 1, !.starting = FALSE, !.active = FALSE,
                      !.draining = FALSE] \in UiType
  BY UiFields DEF UiType, Gen

\* Every UI handler (mainwindow.cpp) keeps the types.
LEMMA UiTyped == TypeOK /\ UiNext => TypeOK'
<1> SUFFICES ASSUME TypeOK, UiNext PROVE TypeOK'
  OBVIOUS
<1> USE DEF TypeOK
<1>0. au.gen \in Nat
  BY AuFields
<1>1. CASE StartFt8
  BY <1>1, UiRestarts, UiFields, Put, Names, QuietOp DEF StartFt8, ControlType, Gen, UiRest
<1>2. CASE ArmFt8
  BY <1>2, Put, Names, QuietOp DEF ArmFt8, UiRest
<1>3. CASE StartSstv
  BY <1>3, UiRestarts, UiFields, Put, Names, QuietOp DEF StartSstv, UiRest
<1>4. CASE HaltFt8
  BY <1>4, UiUpdates, UiFields, ControlOps, SpendsOp, QuietOp DEF HaltFt8, RevokeFt8, Operates
<1>5. CASE HaltFt8Close
  <2>1. ui' \in UiType
    BY <1>5 DEF HaltFt8Close, UiType
  <2>2. ioQ' \in Seq(Call(IoCall)) /\ auQ' \in Seq(Call(AuCall))
    BY <1>5, UiFields, Put, Join, Names DEF HaltFt8Close
  <2> QED
    BY <1>5, <2>1, <2>2, UiFields, ControlOps, QuietOp DEF HaltFt8Close, UiRest
<1>6. CASE StopSstv
  BY <1>0, <1>6, UiUpdates, ControlOps, SpendsOp, QuietOp DEF StopSstv, Operates
<1>7. CASE StopSstvPost
  <2>1. au' \in AuType
    BY <1>7 DEF StopSstvPost, AuType
  <2> QED
    BY <1>7, <2>1, UiRestarts, Put, Names, QuietOp DEF StopSstvPost
<1>8. CASE PttPress
  <2>1. ui' \in UiType
    BY <1>8, UiUpdates DEF PttPress
  <2>2. ioQ' \in Seq(Call(IoCall)) /\ auQ' \in Seq(Call(AuCall))
    <3>1. /\ Append(ioQ, Msg("tx", 0, FALSE)) \in Seq(Call(IoCall))
          /\ Append(auQ, Msg("ptt", 0, TRUE)) \in Seq(Call(AuCall))
      BY Put, Names
    <3> QED
      BY <1>8, <3>1 DEF PttPress
  <2> QED
    BY <1>8, <2>1, <2>2, SpendsOp, QuietOp DEF PttPress, Operates
<1>9. CASE PttRelease
  <2>1. ui' \in UiType
    BY <1>9, UiUpdates DEF PttRelease
  <2>2. ioQ' \in Seq(Call(IoCall)) /\ auQ' \in Seq(Call(AuCall))
    <3>1. /\ Append(ioQ, Msg("rx", 0, FALSE)) \in Seq(Call(IoCall))
          /\ Append(auQ, Msg("ptt", 0, FALSE)) \in Seq(Call(AuCall))
      BY Put, Names
    <3> QED
      BY <1>9, <3>1 DEF PttRelease
  <2> QED
    BY <1>9, <2>1, <2>2, UiFields, ControlOps, QuietOp DEF PttRelease, UiRest
<1>10. CASE UiFinished
  BY <1>10, UiUpdates, UiFields, ControlOps, Take, QuietOp DEF UiFinished, UiTakes, UiRest
<1>11. CASE UiSstvPrepared
  <2>1. Head(uiQ).g \in Nat /\ uiQ' \in Seq(Call(UiCall))
    BY <1>11, Take DEF UiSstvPrepared, UiTakes
  <2>2. Append(ioQ, Msg("beginSstv", Head(uiQ).g, FALSE)) \in Seq(Call(IoCall))
    BY <2>1, Put, Names
  <2> QED
    BY <1>11, <2>1, <2>2, UiUpdates, QuietOp DEF UiSstvPrepared, UiRest
<1>12. CASE UiSstvKeyRequested
  <2>1. ui' \in UiType
    BY <1>12, Take DEF UiSstvKeyRequested, UiTakes, UiType, Gen
  <2> QED
    BY <1>12, <2>1, Take, QuietOp DEF UiSstvKeyRequested, UiTakes, UiRest
<1>13. CASE UiKeyUpElapsed
  <2>1. Append(auQ, Msg("beginSstv", 0, FALSE)) \in Seq(Call(AuCall))
    BY Put, Names
  <2> QED
    BY <1>0, <1>13, <2>1, UiUpdates, ControlOps, QuietOp DEF UiKeyUpElapsed, UiRest
<1>14. CASE UiSstvFailed
  BY <1>0, <1>14, UiUpdates, ControlOps, Take, QuietOp DEF UiSstvFailed, UiTakes, UiRest
<1>15. CASE UiSstvAccepted
  BY <1>15, UiUpdates, Take, QuietOp DEF UiSstvAccepted, UiTakes, UiRest
<1>16. CASE UiDrainElapsed
  <2>1. Append(ioQ, Msg("stop", 0, FALSE)) \in Seq(Call(IoCall))
    BY Put, Names
  <2> QED
    BY <1>16, <2>1, UiUpdates, UiRestarts, QuietOp DEF UiDrainElapsed, UiRest
<1>17. CASE UiFt8Fault
  BY <1>17, UiUpdates, UiFields, ControlOps, Take, QuietOp DEF UiFt8Fault, RevokeFt8, UiTakes, UiRest
<1>18. CASE UiDisconnected
  <2>1. ui' \in UiType
    BY <1>18, UiUpdates DEF UiDisconnected, RevokeFt8
  <2>2. auQ' \in Seq(Call(AuCall))
    <3>1. <<Msg("ptt", 0, FALSE), Msg("stopEngine", 0, FALSE)>> \in Seq(Call(AuCall))
      BY DEF Msg, Call, AuCall, Gen
    <3> QED
      BY <1>18, <3>1, Join DEF UiDisconnected
  <2> QED
    BY <1>0, <1>18, <2>1, <2>2, UiFields, ControlOps, Take, QuietOp
       DEF UiDisconnected, UiTakes, UiRest
<1> QED
  BY <1>1, <1>2, <1>3, <1>4, <1>5, <1>6, <1>7, <1>8, <1>9, <1>10,
     <1>11, <1>12, <1>13, <1>14, <1>15, <1>16, <1>17, <1>18
     DEF UiNext

\* Stopping, tripping, keying and reporting keep the types they touch.
LEMMA UnkeyedOp ==
  ASSUME TypeOK
  PROVE  Unkeyed(line) \in LineType
<1>1. Spend(line) \in SUBSET Nat
  BY DEF TypeOK, LineType, Spend, Gen
<1> QED
  BY <1>1 DEF TypeOK, LineType, Unkeyed, Silence, Item, Gen

\* stopDigitalAudioAndUnkey keeps the types.
LEMMA UnkeyOp ==
  ASSUME TypeOK, NEW i \in IoType, NEW c \in ControlType, Unkey(i, c)
  PROVE  io' \in IoType /\ ctl' \in ControlType /\ line' \in LineType
<1>1. io' \in IoType
  BY DEF Unkey, IoType, Gen
<1> QED
  BY <1>1, IoFields, ControlOps, UnkeyedOp DEF Unkey

\* Posting a signal to the owner of its generation keeps the queues' types.
LEMMA ToOwnerOp ==
  ASSUME TypeOK, NEW m, NEW g \in Nat, NEW x \in BOOLEAN, NEW a \in AuCall, NEW u \in UiCall,
         ToOwner(m, Msg(a, g, x), Msg(u, g, x))
  PROVE  uiQ' \in Seq(Call(UiCall)) /\ auQ' \in Seq(Call(AuCall))
<1>1. Append(auQ, Msg(a, g, x)) \in Seq(Call(AuCall)) /\ Append(uiQ, Msg(u, g, x)) \in Seq(Call(UiCall))
  BY Put DEF TypeOK
<1> QED
  BY <1>1 DEF TypeOK, ToOwner

\* A watchdog trip and its report keep the types.
LEMMA TripOp ==
  ASSUME TypeOK, NEW i \in IoType, Trip(i)
  PROVE  /\ io' \in IoType /\ ctl' \in ControlType /\ line' \in LineType
         /\ uiQ' \in Seq(Call(UiCall)) /\ auQ' \in Seq(Call(AuCall))
<1>1. [i EXCEPT !.latched = TRUE] \in IoType
  BY DEF IoType
<1>2. io' \in IoType /\ ctl' \in ControlType /\ line' \in LineType
  BY <1>1, UnkeyOp DEF Trip, TypeOK
<1>3. /\ Append(auQ, Msg("cancel", i.guardGen, FALSE)) \in Seq(Call(AuCall))
      /\ Append(uiQ, Msg("sstvFailed", i.guardGen, FALSE)) \in Seq(Call(UiCall))
      /\ Append(uiQ, Msg("fault", i.guardGen, FALSE)) \in Seq(Call(UiCall))
  BY IoFields, Put, Names DEF TypeOK
<1> QED
  BY <1>2, <1>3 DEF Trip, TypeOK

\* Keying the K4 keeps the types.
LEMMA KeyOp ==
  ASSUME TypeOK, NEW i \in IoType, Key(i)
  PROVE  /\ io' \in IoType /\ line' \in LineType
         /\ uiQ' \in Seq(Call(UiCall)) /\ auQ' \in Seq(Call(AuCall))
<1>1. io' \in IoType
  BY DEF Key, IoType, Gen
<1>2. line' \in LineType
  BY IoFields DEF Key, LineType, TypeOK, Item, Gen
<1> QED
  BY <1>1, <1>2, ToOwnerOp, IoFields, Names DEF Key

\* DigitalTxGuard::begin keeps the types of the guard and of the control.
LEMMA BegunOp ==
  ASSUME TypeOK, NEW m \in {"ft8", "sstv"}, NEW g \in Nat
  PROVE  Begun(m, g) \in IoType /\ Armed(g) \in ControlType
  BY DEF TypeOK, Begun, Armed, IoType, ControlType, Gen

\* Every other assignment of the I/O thread to its own state.
LEMMA IoUpdates ==
  ASSUME NEW i \in IoType, NEW p \in {"idle", "checked", "armed", "ticked"}, NEW g \in Nat
  PROVE  /\ [i EXCEPT !.pc = p] \in IoType
         /\ [i EXCEPT !.guard = FALSE, !.pc = p] \in IoType
         /\ [i EXCEPT !.drain = g] \in IoType
         /\ [i EXCEPT !.latched = FALSE] \in IoType
         /\ [i EXCEPT !.conn = TRUE] \in IoType
         /\ [i EXCEPT !.conn = FALSE, !.gate = FALSE, !.guard = FALSE, !.timer = FALSE,
                      !.gateGen = 0] \in IoType
  BY DEF IoType, Gen

\* Every handler of the I/O thread (tcpclient.cpp) keeps the types.
LEMMA IoTyped == TypeOK /\ IoNext => TypeOK'
<1> SUFFICES ASSUME TypeOK, IoNext PROVE TypeOK'
  OBVIOUS
<1> USE DEF TypeOK
<1>0. ASSUME NEW t, NEW p, IoAt(t, p)
      PROVE  Head(ioQ).g \in Nat /\ Head(ioQ).x \in BOOLEAN /\ Tail(ioQ) \in Seq(Call(IoCall))
  BY <1>0, Take DEF IoAt
<1>00. io.guardGen \in Nat /\ io.drain \in Nat
  BY IoFields
<1>1. CASE IoFt8Check
  BY <1>1, <1>0, IoUpdates, QuietOp DEF IoFt8Check, IoRest
<1>2. CASE IoFt8Guard
  <2>1. Head(ioQ).g \in Nat /\ Tail(ioQ) \in Seq(Call(IoCall))
    BY <1>2, <1>0 DEF IoFt8Guard
  <2>2. CASE io.conn /\ GuardFree
    BY <1>2, <2>1, <2>2, BegunOp, IoUpdates, QuietOp DEF IoFt8Guard, IoRest
  <2>3. CASE ~(io.conn /\ GuardFree)
    <3>1. uiQ' \in Seq(Call(UiCall)) /\ auQ' \in Seq(Call(AuCall))
      BY <1>2, <2>1, <2>3, ToOwnerOp, Names DEF IoFt8Guard, Report
    <3> QED
      BY <1>2, <2>1, <2>3, <3>1, IoUpdates, QuietOp DEF IoFt8Guard, IoRest
  <2> QED
    BY <2>2, <2>3
<1>3. CASE IoFt8Key
  <2>1. ioQ' \in Seq(Call(IoCall)) /\ UNCHANGED <<ui, tx, au, left>>
    BY <1>3, <1>0 DEF IoFt8Key, IoRest
  <2>2. CASE ctl.sched = Head(ioQ).g
    BY <1>3, <2>1, <2>2, KeyOp DEF IoFt8Key
  <2>3. CASE ctl.sched # Head(ioQ).g
    <3>1. /\ io' = [io EXCEPT !.guard = FALSE, !.pc = "idle"]
          /\ ctl' = Close(ctl, io.guardGen)
          /\ UNCHANGED <<uiQ, auQ>> /\ Quiet
      BY <1>3, <2>3 DEF IoFt8Key
    <3>2. ctl' \in ControlType
      BY <1>00, <3>1, IoFields, ControlOps
    <3>3. io' \in IoType
      BY <1>00, <3>1, IoUpdates
    <3> QED
      BY <1>00, <2>1, <3>1, <3>2, <3>3, QuietOp
  <2> QED
    BY <2>2, <2>3
<1>4. CASE IoBeginSstv
  <2>1. Head(ioQ).g \in Nat /\ ioQ' \in Seq(Call(IoCall)) /\ UNCHANGED <<ui, tx, au, left>>
    BY <1>4, <1>0 DEF IoBeginSstv, IoTakes, IoRest
  <2>2. CASE io.conn /\ GuardFree
    <3>1. Key(Begun("sstv", Head(ioQ).g)) /\ ctl' = Armed(Head(ioQ).g)
      BY <1>4, <2>2 DEF IoBeginSstv
    <3>2. Begun("sstv", Head(ioQ).g) \in IoType /\ Armed(Head(ioQ).g) \in ControlType
      BY <2>1, BegunOp
    <3> QED
      BY <2>1, <3>1, <3>2, KeyOp
  <2>3. CASE ~(io.conn /\ GuardFree)
    <3>1. uiQ' \in Seq(Call(UiCall)) /\ auQ' \in Seq(Call(AuCall))
      BY <1>4, <2>1, <2>3, ToOwnerOp, Names DEF IoBeginSstv, Report
    <3> QED
      BY <1>4, <2>1, <2>3, <3>1, QuietOp DEF IoBeginSstv
  <2> QED
    BY <2>2, <2>3
<1>5. CASE SendGate
  <2>1. Tail(ioQ) \in Seq(Call(IoCall)) /\ UNCHANGED <<ui, tx, au, left>>
    BY <1>5, <1>0 DEF SendGate, IoRest
  <2>2. CASE Trip(io) /\ ioQ' = Tail(ioQ)
    BY <2>1, <2>2, TripOp
  <2>3. CASE ~(Trip(io) /\ ioQ' = Tail(ioQ))
    BY <1>5, <2>1, <2>3, IoUpdates, QuietOp DEF SendGate
  <2> QED
    BY <2>2, <2>3
<1>6. CASE SendWrite
  <2>1. /\ Head(ioQ).g \in Nat /\ Head(ioQ).x \in BOOLEAN /\ ioQ' \in Seq(Call(IoCall))
        /\ UNCHANGED <<ui, tx, au, left>>
    BY <1>6, <1>0 DEF SendWrite, IoRest
  <2>2. CASE ~Allows(Head(ioQ).g)
    BY <1>6, <2>1, <2>2, IoUpdates, QuietOp DEF SendWrite
  <2>3. CASE Trip(io)
    BY <2>1, <2>3, TripOp
  <2>4. CASE /\ line' = [line EXCEPT !.wrote = Item("audio", Head(ioQ).g)]
             /\ Accepted([io EXCEPT !.pc = "idle"], Head(ioQ)) /\ UNCHANGED ctl
    <3>1. line' \in LineType
      BY <2>1, <2>4 DEF LineType, Item, Gen
    <3>2. [io EXCEPT !.pc = "idle"] \in IoType
      BY IoUpdates
    <3>3. io' \in IoType
      BY <2>1, <2>4, <3>2, IoUpdates DEF Accepted
    <3>4. uiQ' \in Seq(Call(UiCall)) /\ auQ' \in Seq(Call(AuCall))
      BY <2>1, <2>4, ToOwnerOp, Names DEF Accepted
    <3> QED
      BY <2>1, <2>4, <3>1, <3>3, <3>4
  <2> QED
    BY <1>6, <2>2, <2>3, <2>4 DEF SendWrite
<1>7. CASE DrainPoll
  <2>1. [io EXCEPT !.drain = 0] \in IoType
    BY IoUpdates
  <2>2. UNCHANGED <<ui, tx, au, left, ioQ>>
    BY <1>7 DEF DrainPoll, IoRest
  <2>3. CASE Trip([io EXCEPT !.drain = 0])
    BY <2>1, <2>2, <2>3, TripOp
  <2>4. CASE ~Trip([io EXCEPT !.drain = 0])
    <3>1. uiQ' \in Seq(Call(UiCall)) /\ auQ' \in Seq(Call(AuCall))
      BY <1>7, <1>00, <2>4, ToOwnerOp, Names DEF DrainPoll
    <3> QED
      BY <1>7, <2>1, <2>2, <2>4, <3>1, QuietOp DEF DrainPoll
  <2> QED
    BY <2>3, <2>4
<1>8. CASE IoStopSched
  <2>1. /\ Head(ioQ).g \in Nat /\ ioQ' \in Seq(Call(IoCall))
        /\ UNCHANGED <<ui, tx, au, left, uiQ>>
    BY <1>8, <1>0 DEF IoStopSched, IoTakes, IoRest
  <2>2. auQ' \in Seq(Call(AuCall))
    BY <1>8, <2>1, Put, Names DEF IoStopSched
  <2>3. io' \in IoType /\ ctl' \in ControlType /\ line' \in LineType
    <3>1. Revoke(ctl, Head(ioQ).g) \in ControlType
      BY <2>1, ControlOps
    <3>2. CASE io.gate /\ io.gateGen = Head(ioQ).g
      BY <1>8, <3>1, <3>2, UnkeyOp DEF IoStopSched
    <3>3. CASE ~(io.gate /\ io.gateGen = Head(ioQ).g)
      <4>1. line' = [line EXCEPT !.wrote = Silence, !.spent = line.spent \cup {Head(ioQ).g}]
        BY <1>8, <3>3 DEF IoStopSched
      <4>2. line.spent \cup {Head(ioQ).g} \in SUBSET Nat
        BY <2>1 DEF LineType, Gen
      <4>3. line' \in LineType
        BY <4>1, <4>2 DEF LineType, Silence, Gen
      <4> QED
        BY <1>8, <3>1, <3>3, <4>3 DEF IoStopSched
    <3> QED
      BY <3>2, <3>3
  <2> QED
    BY <2>1, <2>2, <2>3
<1>9. CASE IoStop
  BY <1>9, <1>0, UnkeyOp DEF IoStop, IoTakes, IoRest
<1>10. CASE IoAcknowledge
  BY <1>10, <1>0, IoUpdates, QuietOp DEF IoAcknowledge, IoTakes, IoRest
<1>11. CASE IoVoice
  <2>1. line' \in LineType
    <3>1. line' \in {[line EXCEPT !.keyed = TRUE, !.wrote = Item("TX", 0)],
                     [line EXCEPT !.keyed = FALSE, !.wrote = Item("RX", 0)],
                     [line EXCEPT !.wrote = Item("mic", 0)], [line EXCEPT !.wrote = Silence]}
      BY <1>11 DEF IoVoice
    <3>2. /\ [line EXCEPT !.keyed = TRUE, !.wrote = Item("TX", 0)] \in LineType
          /\ [line EXCEPT !.keyed = FALSE, !.wrote = Item("RX", 0)] \in LineType
      BY DEF LineType, Item, Gen
    <3>3. /\ [line EXCEPT !.wrote = Item("mic", 0)] \in LineType
          /\ [line EXCEPT !.wrote = Silence] \in LineType
      BY DEF LineType, Item, Silence, Gen
    <3> QED
      BY <3>1, <3>2, <3>3
  <2> QED
    BY <1>11, <1>0, <2>1 DEF IoVoice, IoTakes, IoRest
<1>12. CASE WatchdogSees
  BY <1>12, TripOp DEF WatchdogSees, IoRest
<1>13. CASE WatchdogExpires
  BY <1>13, TripOp DEF WatchdogExpires, IoRest
<1>14. CASE Disconnect
  <2>1. line' \in LineType
    BY <1>14 DEF Disconnect, LineType, Spend, Silence, Gen
  <2>2. uiQ' \in Seq(Call(UiCall))
    BY <1>14, Put, Names DEF Disconnect
  <2> QED
    BY <1>14, <1>00, <2>1, <2>2, IoUpdates, ControlOps, SpendsOp DEF Disconnect
<1>15. CASE Reconnect
  BY <1>15, IoUpdates, QuietOp DEF Reconnect, IoRest
<1> QED
  BY <1>1, <1>2, <1>3, <1>4, <1>5, <1>6, <1>7, <1>8, <1>9, <1>10, <1>11, <1>12, <1>13, <1>14,
     <1>15 DEF IoNext

\* Every assignment of the audio engine to its own state.
LEMMA AuUpdates ==
  ASSUME NEW a \in AuType, NEW g \in Nat, NEW b \in BOOLEAN
  PROVE  /\ [a EXCEPT !.enc = g] \in AuType
         /\ [a EXCEPT !.gen = g] \in AuType
         /\ [a EXCEPT !.gen = g, !.prepared = b, !.emitted = 0] \in AuType
         /\ [a EXCEPT !.starting = b] \in AuType
         /\ [a EXCEPT !.starting = FALSE, !.active = TRUE, !.pacer = b] \in AuType
         /\ [a EXCEPT !.starting = FALSE, !.prepared = FALSE] \in AuType
         /\ [a EXCEPT !.ptt = b] \in AuType
         /\ StoppedSstv(a) \in AuType
<1>1. 0 \in 0 .. Frames
  BY Bounds
<1>2. [a EXCEPT !.gen = g, !.prepared = b, !.emitted = 0] \in AuType
  BY <1>1 DEF AuType, Gen
<1>3. StoppedSstv(a) \in AuType
  BY DEF AuType, StoppedSstv
<1> QED
  BY <1>2, <1>3 DEF AuType, Gen

\* Every assignment of the Ft8Transmitter to its own state.
LEMMA TxUpdates ==
  ASSUME NEW t \in TxType, NEW p \in {"Idle", "Waiting", "Keying", "Audio", "Drain", "Unkeying"},
         NEW g \in Nat
  PROVE  /\ [t EXCEPT !.phase = p] \in TxType
         /\ [t EXCEPT !.closing = TRUE] \in TxType
         /\ [t EXCEPT !.closing = FALSE, !.phase = p] \in TxType
         /\ [t EXCEPT !.keyed = TRUE] \in TxType
         /\ [t EXCEPT !.accepted = TRUE] \in TxType
         /\ [t EXCEPT !.gen = g, !.phase = "Waiting", !.keyed = FALSE, !.accepted = FALSE,
                      !.emitted = 0] \in TxType
<1>1. 0 \in 0 .. Frames
  BY Bounds
<1> QED
  BY <1>1 DEF TxType, Gen

\* Reporting a finished slot and ending its encoding keep the types.
LEMMA EndOps ==
  ASSUME TypeOK, NEW g \in Nat, NEW ok \in BOOLEAN
  PROVE  /\ Finish(g, ok) => uiQ' \in Seq(Call(UiCall))
         /\ StopEncoding(g) => au' \in AuType
<1>1. Append(uiQ, Msg("finished", g, ok)) \in Seq(Call(UiCall))
  BY Put, Names DEF TypeOK
<1>2. StopEncoding(g) => au' \in {[au EXCEPT !.enc = 0], au}
  BY DEF StopEncoding, TypeOK, AuType
<1> QED
  BY <1>1, <1>2, AuUpdates DEF Finish, TypeOK

\* Ft8Transmitter::fail keeps the types.
LEMMA FailOp ==
  ASSUME TypeOK, NEW t \in TxType, Fail(t)
  PROVE  tx' \in TxType /\ ctl' \in ControlType
  BY TxUpdates, TxFields, ControlOps DEF Fail, TypeOK

\* Every handler and timer of the audio thread keeps the types.
LEMMA AuTyped == TypeOK /\ PacketsLeft /\ AuNext => TypeOK'
<1> SUFFICES ASSUME TypeOK, PacketsLeft, AuNext PROVE TypeOK'
  OBVIOUS
<1> USE DEF TypeOK
<1>0. ASSUME NEW t, AuTakes(t)
      PROVE  Head(auQ).g \in Nat /\ Head(auQ).x \in BOOLEAN /\ auQ' \in Seq(Call(AuCall))
  BY <1>0, Take DEF AuTakes
<1>00. tx.gen \in Nat /\ tx.emitted \in Nat /\ au.gen \in Nat /\ au.enc \in Nat
  BY TxFields, AuFields
<1>1. CASE TxFailed
  <2>1. Append(ioQ, Msg("stopSched", tx.gen, FALSE)) \in Seq(Call(IoCall))
    BY <1>00, Put, Names
  <2>2. uiQ' \in Seq(Call(UiCall)) /\ au' \in AuType
    BY <1>1, <1>00, EndOps DEF TxFailed
  <2> QED
    BY <1>1, <1>00, <2>1, <2>2, TxUpdates, ControlOps, QuietOp DEF TxFailed, AuRest
<1>2. CASE TxSchedule
  <2>1. Head(auQ).g \in Nat /\ auQ' \in Seq(Call(AuCall)) /\ AuRest /\ UNCHANGED ioQ
    BY <1>2, <1>0 DEF TxSchedule
  <2>2. CASE ctl.sched # Head(auQ).g \/ tx.phase # "Idle"
    <3>1. uiQ' \in Seq(Call(UiCall)) /\ au' \in AuType /\ UNCHANGED <<tx, ctl>>
      BY <1>2, <2>1, <2>2, EndOps DEF TxSchedule, Refuse
    <3> QED
      BY <2>1, <3>1, QuietOp DEF AuRest
  <2>3. CASE ~(ctl.sched # Head(auQ).g \/ tx.phase # "Idle")
    <3> DEFINE t == [tx EXCEPT !.gen = Head(auQ).g, !.phase = "Waiting", !.keyed = FALSE,
                               !.accepted = FALSE, !.emitted = 0]
    <3>1. t \in TxType
      BY <2>1, TxUpdates
    <3>2. (tx' = t /\ UNCHANGED ctl) \/ Fail(t)
      BY <1>2, <2>3 DEF TxSchedule
    <3>3. UNCHANGED <<uiQ, au>>
      BY <1>2, <2>3 DEF TxSchedule
    <3> HIDE DEF t
    <3>4. tx' \in TxType /\ ctl' \in ControlType
      BY <3>1, <3>2, FailOp
    <3> QED
      BY <2>1, <3>3, <3>4, QuietOp DEF AuRest
  <2> QED
    BY <2>2, <2>3
<1>3. CASE TxCancel
  BY <1>3, <1>0, FailOp, QuietOp DEF TxCancel, AuRest
<1>4. CASE TxKeyed
  BY <1>4, <1>0, TxUpdates, QuietOp DEF TxKeyed, AuRest
<1>5. CASE TxAccepted
  BY <1>5, <1>0, TxUpdates, QuietOp DEF TxAccepted, AuRest
<1>6. CASE TxUnkeyed
  <2>1. /\ auQ' \in Seq(Call(AuCall)) /\ tx' \in TxType
        /\ uiQ' \in Seq(Call(UiCall)) /\ au' \in AuType
    BY <1>6, <1>0, <1>00, TxUpdates, EndOps DEF TxUnkeyed
  <2> QED
    BY <1>6, <2>1, QuietOp DEF TxUnkeyed, AuRest
<1>7. CASE TickRevoked
  BY <1>7, FailOp, QuietOp DEF TickRevoked, AuRest
<1>8. CASE TickExpired
  BY <1>8, FailOp, QuietOp DEF TickExpired, AuRest
<1>9. CASE TickKey
  <2>1. Append(ioQ, Msg("beginFt8", tx.gen, FALSE)) \in Seq(Call(IoCall))
    BY <1>00, Put, Names
  <2> QED
    BY <1>9, <2>1, TxUpdates, QuietOp DEF TickKey, AuRest
<1>10. CASE TickStart
  <2>1. tx.gen \in Nat /\ Fault(ctl, tx.gen) \in ControlType
    BY <1>00, TxFields, ControlOps
  <2>2. tx' \in TxType
    BY <1>10, TxUpdates DEF TickStart
  <2>3. au' \in AuType /\ ctl' \in ControlType
    BY <1>10, <1>00, <2>1, AuUpdates DEF TickStart
  <2>4. UNCHANGED <<ui, io, left, uiQ, ioQ, auQ>> /\ Quiet
    BY <1>10 DEF TickStart, AuRest
  <2> QED
    BY <1>00, <2>2, <2>3, <2>4, QuietOp
<1>11. CASE TickFrame
  <2>1. tx.phase = "Audio" /\ tx.emitted + 1 \in 0 .. Frames
    BY <1>00, <1>11, Bounds DEF TickFrame, StartsFrame, FirstFrame, PacketsLeft
  <2>2. Emit(tx) \in TxType
    BY <2>1 DEF Emit, TxType, Gen
  <2>3. /\ \A x \in BOOLEAN : Append(ioQ, Msg("audio", tx.gen, x)) \in Seq(Call(IoCall))
        /\ Append(uiQ, Msg("sstvFailed", tx.gen, FALSE)) \in Seq(Call(UiCall))
    BY <1>00, Put, Names
  <2>4. ioQ' \in Seq(Call(IoCall)) /\ uiQ' \in Seq(Call(UiCall))
    BY <1>11, <2>3 DEF TickFrame
  <2>5. ctl' \in ControlType /\ au' \in AuType
    BY <1>00, <1>11, ControlOps, AuUpdates DEF TickFrame
  <2> QED
    BY <1>11, <2>2, <2>4, <2>5, QuietOp DEF TickFrame, AuRest
<1>12. CASE TickUnkey
  <2>1. Append(ioQ, Msg("stopSched", tx.gen, FALSE)) \in Seq(Call(IoCall))
    BY <1>00, Put, Names
  <2> QED
    BY <1>12, <2>1, TxUpdates, QuietOp DEF TickUnkey, AuRest
<1>13. CASE AuPrepare
  <2>1. Head(auQ).g \in Nat /\ auQ' \in Seq(Call(AuCall))
    BY <1>13, <1>0 DEF AuPrepare
  <2>2. \A x \in BOOLEAN : Append(uiQ, Msg("prepared", Head(auQ).g, x)) \in Seq(Call(UiCall))
    BY <2>1, Put, Names
  <2>3. au' \in AuType
    <3>1. CASE au.active
      BY <1>13, <2>1, <3>1, AuUpdates DEF AuPrepare
    <3>2. CASE ~au.active
      <4>1. PICK ready \in BOOLEAN :
              au' = [au EXCEPT !.gen = Head(auQ).g, !.prepared = ready, !.emitted = 0]
        BY <1>13, <3>2 DEF AuPrepare
      <4> QED
        BY <2>1, <4>1, AuUpdates
    <3> QED
      BY <3>1, <3>2
  <2>4. uiQ' \in Seq(Call(UiCall))
    BY <1>13, <2>2 DEF AuPrepare
  <2> QED
    BY <1>13, <2>1, <2>3, <2>4, QuietOp DEF AuPrepare, AuOnly, AuRest
<1>14. CASE AuBegin
  <2>1. au' \in AuType
    BY <1>14 DEF AuBegin, AuType, Gen
  <2> QED
    BY <1>14, <1>0, <2>1, QuietOp DEF AuBegin, AuOnly, AuRest
<1>15. CASE AuBeginActive
  <2>1. au' \in AuType
    BY <1>15 DEF AuBeginActive, AuType, Gen
  <2>2. Append(uiQ, Msg("sstvFailed", au.gen, FALSE)) \in Seq(Call(UiCall))
    BY <1>00, Put, Names
  <2> QED
    BY <1>15, <1>00, <2>1, <2>2, ControlOps, QuietOp DEF AuBeginActive, AuOnly, AuRest
<1>16. CASE AuStop
  <2>1. [StoppedSstv(au) EXCEPT !.ptt = FALSE] \in AuType
    BY AuUpdates
  <2> QED
    BY <1>16, <1>0, <2>1, AuUpdates, QuietOp DEF AuStop, AuOnly, AuRest
<1>17. CASE AuPace
  <2> DEFINE g == IF au.enc # 0 THEN au.enc ELSE au.gen
             last == au.emitted + 1 = Frames
  <2>1. g \in Nat /\ au.emitted + 1 \in 0 .. Frames
    <3>1. au.emitted \in 0 .. Frames /\ au.emitted < Frames
      BY <1>00, <1>17 DEF AuPace, PacketsLeft, AuType
    <3> QED
      BY <1>00, <3>1, AuFields, Bounds
  <2>2. /\ \A x \in BOOLEAN : Append(ioQ, Msg("audio", g, x)) \in Seq(Call(IoCall))
        /\ Append(uiQ, Msg("sstvFailed", g, FALSE)) \in Seq(Call(UiCall))
    BY <2>1, Put, Names
  <2>3. \A a \in AuType : [a EXCEPT !.emitted = au.emitted + 1] \in AuType
    BY <2>1 DEF AuType
  <2>4. \/ au' = StoppedSstv(au)
        \/ au' = [au EXCEPT !.emitted = au.emitted + 1]
        \/ au' = [StoppedSstv(au) EXCEPT !.emitted = au.emitted + 1]
    BY <1>17 DEF AuPace, StoppedSstv
  <2>5. au' \in AuType
    BY <2>3, <2>4, AuUpdates
  <2>6. ioQ' \in Seq(Call(IoCall)) /\ uiQ' \in Seq(Call(UiCall))
    BY <1>17, <2>2 DEF AuPace
  <2>7. ctl' \in ControlType
    BY <1>17, <1>00, <2>1, ControlOps DEF AuPace
  <2> QED
    BY <1>17, <2>5, <2>6, <2>7, QuietOp DEF AuPace, AuOnly, AuRest
<1>18. CASE AuPtt
  BY <1>18, <1>0, AuUpdates, QuietOp DEF AuPtt, AuOnly, AuRest
<1>19. CASE AuMic
  <2>1. Append(ioQ, Msg("mic", 0, FALSE)) \in Seq(Call(IoCall))
    BY Put, Names
  <2> QED
    BY <1>19, <2>1, QuietOp DEF AuMic, AuOnly, AuRest
<1> QED
  BY <1>1, <1>2, <1>3, <1>4, <1>5, <1>6, <1>7, <1>8, <1>9, <1>10, <1>11, <1>12, <1>13, <1>14,
     <1>15, <1>16, <1>17, <1>18, <1>19 DEF AuNext

\* PacketsLeft is inductive: only the audio thread touches what it is about.
LEMMA PacketsLeftKept == TypeOK /\ PacketsLeft /\ [Next]_vars => PacketsLeft'
<1> SUFFICES ASSUME TypeOK, PacketsLeft, [Next]_vars PROVE PacketsLeft'
  OBVIOUS
<1>1. au \in AuType /\ tx \in TxType /\ au.emitted \in Nat /\ tx.emitted \in Nat
  BY AuFields, TxFields DEF TypeOK
<1>2. CASE UNCHANGED vars
  BY <1>2 DEF vars, PacketsLeft
<1>3. CASE UiNext
  <2>1. UNCHANGED tx /\ au' \in {au, [au EXCEPT !.active = FALSE]}
    BY <1>3 DEF UiNext, UiRest, Operates, StartFt8, ArmFt8, StartSstv, HaltFt8, HaltFt8Close,
       StopSstv, StopSstvPost, PttPress, PttRelease, UiFinished, UiSstvPrepared,
       UiSstvKeyRequested, UiKeyUpElapsed, UiSstvFailed, UiSstvAccepted, UiDrainElapsed,
       UiFt8Fault, UiDisconnected
  <2> QED
    BY <1>1, <2>1 DEF PacketsLeft, AuType
<1>4. CASE IoNext
  <2>1. UNCHANGED <<tx, au>>
    BY <1>4 DEF IoNext, IoRest, IoFt8Check, IoFt8Guard, IoFt8Key, IoBeginSstv, SendGate,
       SendWrite, DrainPoll, IoStopSched, IoStop, IoAcknowledge, IoVoice, WatchdogSees,
       WatchdogExpires, Disconnect, Reconnect
  <2> QED
    BY <2>1 DEF PacketsLeft
<1>5. CASE AuNext
  <2> USE DEF PacketsLeft
  <2>1. CASE TxFailed
    BY <1>1, <2>1 DEF TxFailed, StopEncoding, TxType, AuType
  <2>2. CASE TxSchedule
    <3>1. tx' = tx \/ (tx'.emitted = 0 /\ tx'.phase = "Waiting")
      BY <1>1, <2>2 DEF TxSchedule, Fail, TxType
    <3>2. au' = au \/ au' = [au EXCEPT !.enc = 0]
      BY <1>1, <2>2 DEF TxSchedule, Refuse, StopEncoding, AuType
    <3> QED
      BY <1>1, <3>1, <3>2 DEF AuType
  <2>3. CASE TxCancel \/ TickRevoked \/ TickExpired
    BY <1>1, <2>3 DEF TxCancel, TickRevoked, TickExpired, Fail, TxType
  <2>4. CASE TxKeyed \/ TxAccepted
    BY <1>1, <2>4 DEF TxKeyed, TxAccepted, TxType
  <2>5. CASE TxUnkeyed
    BY <1>1, <2>5 DEF TxUnkeyed, StopEncoding, TxType, AuType
  <2>6. CASE TickKey \/ TickUnkey
    BY <1>1, <2>6 DEF TickKey, TickUnkey, InSlot, TxType
  <2>7. CASE TickStart
    <3>1. tx.emitted < Frames
      BY <1>1, <2>7, Bounds DEF TickStart
    <3> QED
      BY <1>1, <2>7, <3>1 DEF TickStart, TxType, AuType
  <2>8. CASE TickFrame
    <3>1. tx.phase = "Audio"
      BY <2>8 DEF TickFrame, StartsFrame, FirstFrame
    <3>2. tx' = Emit(tx) /\ au' \in {au, StoppedSstv(au)}
      BY <2>8 DEF TickFrame
    <3>3. /\ tx'.emitted = tx.emitted + 1
          /\ tx'.phase = IF tx.emitted + 1 = Frames THEN "Drain" ELSE "Audio"
      BY <1>1, <3>1, <3>2 DEF Emit, TxType
    <3>4. tx'.phase = "Audio" => tx'.emitted < Frames
      BY <1>1, <3>1, <3>3, Bounds
    <3>5. au'.prepared \/ au'.starting \/ au'.pacer => au'.emitted < Frames
      BY <1>1, <3>2 DEF StoppedSstv, AuType
    <3> QED
      BY <3>3, <3>4, <3>5
  <2>9. CASE AuPrepare
    <3>1. UNCHANGED tx /\ (au'.emitted = 0 \/ au' = [au EXCEPT !.gen = Head(auQ).g])
      BY <1>1, <2>9 DEF AuPrepare, AuOnly, AuType
    <3> QED
      BY <1>1, <3>1, Bounds DEF AuType
  <2>10. CASE AuBegin \/ AuBeginActive
    BY <1>1, <2>10 DEF AuBegin, AuBeginActive, AuOnly, AuType
  <2>11. CASE AuStop
    BY <1>1, <2>11 DEF AuStop, StoppedSstv, AuOnly, AuType
  <2>12. CASE AuPace
    <3>1. UNCHANGED tx /\ au.pacer
      BY <2>12 DEF AuPace, AuOnly
    <3>2. \/ au' = StoppedSstv(au)
          \/ au' = [StoppedSstv(au) EXCEPT !.emitted = au.emitted + 1]
          \/ au.emitted + 1 # Frames /\ au' = [au EXCEPT !.emitted = au.emitted + 1]
      <4>1. CASE au.emitted + 1 = Frames
        BY <2>12, <4>1 DEF AuPace, StoppedSstv
      <4>2. CASE au.emitted + 1 # Frames
        BY <2>12, <4>2 DEF AuPace
      <4> QED
        BY <4>1, <4>2
    <3>3. CASE au' = StoppedSstv(au)
      BY <1>1, <3>1, <3>3 DEF StoppedSstv, AuType
    <3>4. CASE au' = [StoppedSstv(au) EXCEPT !.emitted = au.emitted + 1]
      <4>1. ~(au'.prepared \/ au'.pacer) /\ ~au'.starting
        BY <1>1, <2>12, <3>4 DEF StoppedSstv, AuType, AuPace, AuFree
      <4> QED
        BY <3>1, <4>1
    <3>5. CASE au.emitted + 1 # Frames /\ au' = [au EXCEPT !.emitted = au.emitted + 1]
      <4>1. au'.emitted = au.emitted + 1
        BY <1>1, <3>5 DEF AuType
      <4> QED
        BY <1>1, <3>1, <3>5, <4>1, Bounds
    <3> QED
      BY <3>2, <3>3, <3>4, <3>5
  <2>13. CASE AuPtt \/ AuMic
    BY <1>1, <2>13 DEF AuPtt, AuMic, AuOnly, AuType
  <2> QED
    BY <1>5, <2>1, <2>2, <2>3, <2>4, <2>5, <2>6, <2>7, <2>8, <2>9, <2>10, <2>11, <2>12, <2>13
       DEF AuNext
<1> QED
  BY <1>2, <1>3, <1>4, <1>5 DEF Next

\* The initial state has its types and no packet emitted.
LEMMA TypeInit == Init => TypeOK /\ PacketsLeft
<1> SUFFICES ASSUME Init PROVE TypeOK /\ PacketsLeft
  OBVIOUS
<1>1. ui \in UiType /\ ctl \in ControlType /\ io \in IoType
  BY DEF Init, UiType, ControlType, IoType, Gen
<1>2. tx \in TxType /\ au \in AuType /\ PacketsLeft
  BY Bounds DEF Init, TxType, AuType, PacketsLeft, Gen
<1>3. line \in LineType /\ left \in LeftType
  BY Bounds DEF Init, LineType, Silence, Gen
<1> QED
  BY <1>1, <1>2, <1>3 DEF Init, TypeOK

\* The types are inductive together with PacketsLeft.
LEMMA TypeKept == TypeOK /\ PacketsLeft /\ [Next]_vars => TypeOK'
<1>1. TypeOK /\ UNCHANGED vars => TypeOK'
  BY DEF TypeOK, vars
<1> QED
  BY <1>1, UiTyped, IoTyped, AuTyped DEF Next

(* Type correctness of the three threads, their queues and the history: in  *)
(* particular Ft8Transmitter and AudioEngine never emit more packets than    *)
(* the transmission has.                                                     *)
THEOREM TypeCorrect == Spec => [](TypeOK /\ PacketsLeft)
<1>1. Init => TypeOK /\ PacketsLeft
  BY TypeInit
<1>2. (TypeOK /\ PacketsLeft) /\ [Next]_vars => (TypeOK /\ PacketsLeft)'
  BY TypeKept, PacketsLeftKept
<1> QED
  BY <1>1, <1>2, PTL DEF Spec

-----------------------------------------------------------------------------
(* The lease.                                                              *)

\* stopDigitalAudioAndUnkey ends whatever lease there is and closes the gate.
LEMMA UnkeyEndsLease ==
  ASSUME TypeOK, GateIsLease, NEW i \in IoType, NEW c, i.conn = io.conn, Unkey(i, c)
  PROVE  line'.lease = 0 /\ ~io'.gate /\ io'.pc = "idle" /\ line'.wrote.t # "audio"
<1>1. ~io'.gate /\ io'.pc = "idle"
  BY DEF Unkey, IoType
<1>2. line' = Unkeyed(line)
  BY DEF Unkey
<1>3. CASE io.conn
  BY <1>2, <1>3, <1>1 DEF Unkeyed, Item
<1>4. CASE ~io.conn
  BY <1>1, <1>2, <1>4 DEF Unkeyed, GateIsLease, TypeOK, LineType, Silence
<1> QED
  BY <1>3, <1>4

\* handleDigitalTxAction(Trip) ends whatever lease there is and closes the gate.
LEMMA TripEndsLease ==
  ASSUME TypeOK, GateIsLease, NEW i \in IoType, i.conn = io.conn, Trip(i)
  PROVE  line'.lease = 0 /\ ~io'.gate /\ io'.pc = "idle" /\ line'.wrote.t # "audio"
<1>1. [i EXCEPT !.latched = TRUE] \in IoType /\ [i EXCEPT !.latched = TRUE].conn = io.conn
  BY DEF IoType
<1> QED
  BY <1>1, UnkeyEndsLease DEF Trip

\* A step that leaves the gate closed and no lease satisfies GateIsLease.
LEMMA ClosedGate ==
  ASSUME line'.lease = 0, ~io'.gate, io'.pc = "idle"
  PROVE  GateIsLease'
  BY DEF GateIsLease

\* beginDigitalAudioTransmit opens the gate and takes the lease together.
LEMMA KeyTakesLease ==
  ASSUME TypeOK, NEW i \in IoType, i.conn, i.guard, Key(i)
  PROVE  GateIsLease' /\ line'.wrote.t # "audio"
<1>1. io' = [i EXCEPT !.gate = TRUE, !.gateGen = i.guardGen, !.timer = TRUE, !.pc = "idle"]
  BY DEF Key
<1>2. line' = [line EXCEPT !.keyed = TRUE, !.lease = i.guardGen,
                           !.wrote = Item("TX", i.guardGen)]
  BY DEF Key
<1>3. /\ io'.gate /\ io'.conn /\ io'.guard /\ io'.timer /\ io'.pc = "idle"
      /\ io'.gateGen = i.guardGen /\ io'.guardGen = i.guardGen
  BY <1>1 DEF IoType
<1>4. line'.lease = i.guardGen /\ line'.wrote.t # "audio"
  BY <1>2 DEF TypeOK, LineType, Item
<1> QED
  BY <1>3, <1>4 DEF GateIsLease

\* A step that neither closes nor opens anything and leaves the queue's head.
LEMMA Untouched ==
  ASSUME TypeOK, GateIsLease, line'.lease = line.lease,
         io'.gate = io.gate, io'.conn = io.conn, io'.gateGen = io.gateGen,
         io'.guard = io.guard, io'.guardGen = io.guardGen, io'.timer = io.timer,
         io'.pc = "idle"
  PROVE  GateIsLease'
  BY DEF GateIsLease

\* Adding to the end of a queue does not change its first call.
LEMMA HeadStays ==
  ASSUME NEW names, NEW q \in Seq(Call(names)), q # <<>>
  PROVE  /\ \A m \in Call(names) : Append(q, m) # <<>> /\ Head(Append(q, m)) = Head(q)
         /\ \A r \in Seq(Call(names)) : q \o r # <<>> /\ Head(q \o r) = Head(q)
<1>1. Len(q) > 0
  OBVIOUS
<1>2. ASSUME NEW r \in Seq(Call(names)) PROVE q \o r # <<>> /\ Head(q \o r) = Head(q)
  BY <1>1
<1> QED
  BY <1>1, <1>2

\* The two ways the other threads change the I/O thread's queue.
LEMMA Posted ==
  ASSUME NEW names, NEW q \in Seq(Call(names)), q # <<>>,
         NEW t \in names, NEW g \in Nat, NEW x \in BOOLEAN
  PROVE  Append(q, Msg(t, g, x)) # <<>> /\ Head(Append(q, Msg(t, g, x))) = Head(q)
<1>1. Msg(t, g, x) \in Call(names)
  BY DEF Msg, Call, Gen
<1> QED
  BY <1>1, HeadStays

\* The UI and the audio thread only add to the end of the I/O thread's queue.
SameHead == ioQ # <<>> => ioQ' # <<>> /\ Head(ioQ') = Head(ioQ)

\* The UI thread only adds to the end of the I/O thread's queue.
LEMMA UiPosts == TypeOK /\ UiNext => SameHead
<1> SUFFICES ASSUME TypeOK, UiNext, ioQ # <<>> PROVE ioQ' # <<>> /\ Head(ioQ') = Head(ioQ)
  BY DEF SameHead
<1> DEFINE Keeps(m) == Append(ioQ, m) # <<>> /\ Head(Append(ioQ, m)) = Head(ioQ)
<1>0. /\ ioQ \in Seq(Call(IoCall))
      /\ "ack" \in IoCall /\ "stop" \in IoCall /\ "tx" \in IoCall /\ "rx" \in IoCall
      /\ "beginSstv" \in IoCall
  BY DEF TypeOK, IoCall
<1>1. /\ Keeps(Msg("ack", 0, FALSE)) /\ Keeps(Msg("stop", 0, FALSE))
      /\ Keeps(Msg("tx", 0, FALSE)) /\ Keeps(Msg("rx", 0, FALSE))
  <2>1. Keeps(Msg("ack", 0, FALSE))
    BY <1>0, Posted
  <2>2. Keeps(Msg("stop", 0, FALSE))
    BY <1>0, Posted
  <2>3. Keeps(Msg("tx", 0, FALSE))
    BY <1>0, Posted
  <2>4. Keeps(Msg("rx", 0, FALSE))
    BY <1>0, Posted
  <2> QED
    BY <2>1, <2>2, <2>3, <2>4
<1>2. CASE ArmFt8 \/ StartSstv \/ StopSstvPost \/ PttPress \/ PttRelease \/ UiDrainElapsed
  BY <1>1, <1>2 DEF ArmFt8, StartSstv, StopSstvPost, PttPress, PttRelease, UiDrainElapsed
<1>3. CASE UiSstvPrepared
  <2>1. Head(uiQ).g \in Nat
    BY <1>3, Take DEF UiSstvPrepared, UiTakes, TypeOK
  <2>2. Keeps(Msg("beginSstv", Head(uiQ).g, FALSE))
    BY <1>0, <2>1, Posted
  <2> QED
    BY <1>3, <2>2 DEF UiSstvPrepared
<1>4. CASE HaltFt8Close
  <2>1. ui.ft8 \in Nat
    BY UiFields DEF TypeOK
  <2>2. <<Msg("stopSched", ui.ft8, FALSE)>> \in Seq(Call(IoCall))
    BY <2>1, Put, Names DEF TypeOK
  <2>3. <<Msg("rx", 0, FALSE)>> \in Seq(Call(IoCall)) /\ <<>> \in Seq(Call(IoCall))
    BY Put, Join, Names DEF TypeOK
  <2>4. PICK r \in Seq(Call(IoCall)) : ioQ' = ioQ \o <<Msg("stopSched", ui.ft8, FALSE)>> \o r
    BY <1>4, <2>3 DEF HaltFt8Close
  <2>5. ioQ \o <<Msg("stopSched", ui.ft8, FALSE)>> \in Seq(Call(IoCall))
    BY <2>2, Join DEF TypeOK
  <2> QED
    BY <2>2, <2>4, <2>5, HeadStays DEF TypeOK
<1>5. CASE \/ StartFt8 \/ HaltFt8 \/ StopSstv \/ UiFinished \/ UiSstvKeyRequested \/ UiKeyUpElapsed
           \/ UiSstvFailed \/ UiSstvAccepted \/ UiFt8Fault \/ UiDisconnected
  BY <1>5 DEF StartFt8, HaltFt8, StopSstv, UiFinished, UiSstvKeyRequested, UiKeyUpElapsed,
     UiSstvFailed, UiSstvAccepted, UiFt8Fault, UiDisconnected
<1> QED
  BY <1>2, <1>3, <1>4, <1>5 DEF UiNext

\* The audio thread only adds to the end of the I/O thread's queue.
LEMMA AuPosts == TypeOK /\ AuNext => SameHead
<1> SUFFICES ASSUME TypeOK, AuNext, ioQ # <<>> PROVE ioQ' # <<>> /\ Head(ioQ') = Head(ioQ)
  BY DEF SameHead
<1> DEFINE Keeps(m) == Append(ioQ, m) # <<>> /\ Head(Append(ioQ, m)) = Head(ioQ)
           g == IF au.enc # 0 THEN au.enc ELSE au.gen
<1>0. /\ ioQ \in Seq(Call(IoCall))
      /\ "stopSched" \in IoCall /\ "beginFt8" \in IoCall /\ "mic" \in IoCall /\ "audio" \in IoCall
  BY DEF TypeOK, IoCall
<1>1. tx.gen \in Nat /\ g \in Nat
  BY TxFields, AuFields DEF TypeOK
<1>2. /\ Keeps(Msg("stopSched", tx.gen, FALSE)) /\ Keeps(Msg("beginFt8", tx.gen, FALSE))
      /\ Keeps(Msg("mic", 0, FALSE))
  <2>1. Keeps(Msg("stopSched", tx.gen, FALSE))
    BY <1>0, <1>1, Posted
  <2>2. Keeps(Msg("beginFt8", tx.gen, FALSE))
    BY <1>0, <1>1, Posted
  <2>3. Keeps(Msg("mic", 0, FALSE))
    BY <1>0, <1>1, Posted
  <2> QED
    BY <2>1, <2>2, <2>3
<1>20. \A x \in BOOLEAN : Keeps(Msg("audio", tx.gen, x)) /\ Keeps(Msg("audio", g, x))
  BY <1>1, Posted, Names DEF TypeOK
<1>3. CASE TxFailed \/ TickKey \/ TickUnkey \/ AuMic
  BY <1>2, <1>3 DEF TxFailed, TickKey, TickUnkey, AuMic
<1>4. CASE TickFrame
  BY <1>20, <1>4 DEF TickFrame
<1>5. CASE AuPace
  <2>1. UNCHANGED ioQ \/ \E x \in BOOLEAN : ioQ' = Append(ioQ, Msg("audio", g, x))
    BY <1>5 DEF AuPace
  <2> HIDE DEF g
  <2> QED
    BY <1>20, <2>1
<1>6. CASE \/ TxSchedule \/ TxCancel \/ TxKeyed \/ TxAccepted \/ TxUnkeyed \/ TickRevoked \/ TickExpired
           \/ TickStart \/ AuPrepare \/ AuBegin \/ AuBeginActive \/ AuStop \/ AuPtt
  BY <1>6 DEF TxSchedule, TxCancel, TxKeyed, TxAccepted, TxUnkeyed, TickRevoked, TickExpired,
     TickStart, AuPrepare, AuBegin, AuBeginActive, AuStop, AuPtt
<1> QED
  BY <1>3, <1>4, <1>5, <1>6 DEF AuNext

\* They write nothing to the socket and leave the I/O thread's state alone.
LEMMA OthersAreQuiet == UiNext \/ AuNext => UNCHANGED io /\ Quiet
<1>1. UiNext => UNCHANGED io /\ Quiet
  BY DEF UiNext, UiRest, Operates, StartFt8, ArmFt8, StartSstv, HaltFt8, HaltFt8Close,
     StopSstv, StopSstvPost, PttPress, PttRelease, UiFinished, UiSstvPrepared,
     UiSstvKeyRequested, UiKeyUpElapsed, UiSstvFailed, UiSstvAccepted, UiDrainElapsed,
     UiFt8Fault, UiDisconnected
<1>2. AuNext => UNCHANGED io /\ Quiet
  BY DEF AuNext, AuRest, AuOnly, TxFailed, TxSchedule, TxCancel, TxKeyed, TxAccepted, TxUnkeyed,
     TickRevoked, TickExpired, TickKey, TickStart, TickFrame, TickUnkey, AuPrepare, AuBegin,
     AuBeginActive, AuStop, AuPace, AuPtt, AuMic
<1> QED
  BY <1>1, <1>2

\* A step that writes nothing to the socket leaves the lease.
LEMMA QuietLease ==
  ASSUME TypeOK, Quiet
  PROVE  line'.lease = line.lease /\ line'.wrote.t # "audio"
  BY DEF TypeOK, Quiet, LineType, Silence

\* GateIsLease is inductive, and program audio is written under the lease only.
LEMMA GateIsLeaseKept ==
  TypeOK /\ GateIsLease /\ [Next]_vars =>
    GateIsLease' /\ (line'.wrote.t = "audio" /\ line' # line => line'.wrote.g = line.lease)
<1> SUFFICES ASSUME TypeOK, GateIsLease, [Next]_vars
             PROVE  GateIsLease' /\ (line'.wrote.t = "audio" /\ line' # line =>
                                       line'.wrote.g = line.lease)
  OBVIOUS
<1>0. io \in IoType /\ line \in LineType
  BY DEF TypeOK
<1>1. CASE UNCHANGED vars
  BY <1>1 DEF vars, GateIsLease
<1>2. CASE UiNext \/ AuNext
  <2>1. UNCHANGED io /\ Quiet /\ SameHead
    BY <1>2, OthersAreQuiet, UiPosts, AuPosts
  <2> QED
    BY <2>1, QuietLease DEF GateIsLease, SameHead
<1>3. CASE IoNext
  <2>1. CASE IoFt8Check \/ IoAcknowledge \/ Reconnect
    <3>1. Quiet /\ io.pc = "idle"
      BY <2>1 DEF IoFt8Check, IoAcknowledge, Reconnect, IoAt, IoTakes
    <3>2. io' \in {io, [io EXCEPT !.pc = "checked"], [io EXCEPT !.latched = FALSE],
                  [io EXCEPT !.conn = TRUE]}
      BY <2>1 DEF IoFt8Check, IoAcknowledge, Reconnect
    <3> QED
      BY <1>0, <3>1, <3>2, QuietLease DEF GateIsLease, IoType
  <2>2. CASE IoFt8Guard
    <3>1. CASE io.conn /\ GuardFree
      <4>1. io' = [Begun("ft8", Head(ioQ).g) EXCEPT !.pc = "armed"] /\ Quiet
        BY <2>2, <3>1 DEF IoFt8Guard
      <4>2. io'.conn = io.conn /\ io'.guard /\ io'.gate = io.gate /\ io'.pc = "armed"
        BY <1>0, <4>1 DEF Begun, IoType
      <4> QED
        BY <1>0, <3>1, <4>1, <4>2, QuietLease DEF GateIsLease, GuardFree
    <3>2. CASE ~(io.conn /\ GuardFree)
      <4>1. io' = [io EXCEPT !.pc = "idle"] /\ Quiet
        BY <2>2, <3>2 DEF IoFt8Guard
      <4> QED
        BY <1>0, <4>1, QuietLease, Untouched DEF IoType
    <3> QED
      BY <3>1, <3>2
  <2>3. CASE IoFt8Key
    <3>1. io.conn /\ io.guard /\ ~io.gate /\ line.lease = 0
      BY <2>3 DEF IoFt8Key, IoAt, GateIsLease
    <3>2. CASE Key(io)
      BY <1>0, <3>1, <3>2, KeyTakesLease
    <3>3. CASE ~Key(io)
      <4>1. io' = [io EXCEPT !.guard = FALSE, !.pc = "idle"] /\ Quiet
        BY <2>3, <3>3 DEF IoFt8Key
      <4>2. ~io'.gate /\ io'.pc = "idle"
        BY <1>0, <3>1, <4>1 DEF IoType
      <4> QED
        BY <3>1, <4>1, <4>2, QuietLease, ClosedGate
    <3> QED
      BY <3>2, <3>3
  <2>4. CASE IoBeginSstv
    <3>1. CASE io.conn /\ GuardFree
      <4>1. Key(Begun("sstv", Head(ioQ).g))
        BY <2>4, <3>1 DEF IoBeginSstv
      <4>2. Head(ioQ).g \in Nat
        BY <2>4, Take DEF IoBeginSstv, IoTakes, IoAt, TypeOK
      <4>3. Begun("sstv", Head(ioQ).g) \in IoType
        BY <4>2, BegunOp
      <4>4. Begun("sstv", Head(ioQ).g).conn /\ Begun("sstv", Head(ioQ).g).guard
        BY <1>0, <3>1 DEF Begun, IoType
      <4> QED
        BY <4>1, <4>3, <4>4, KeyTakesLease
    <3>2. CASE ~(io.conn /\ GuardFree)
      <4>1. UNCHANGED io /\ Quiet /\ io.pc = "idle"
        BY <2>4, <3>2 DEF IoBeginSstv, IoTakes, IoAt
      <4> QED
        BY <4>1, QuietLease, Untouched
    <3> QED
      BY <3>1, <3>2
  <2>5. CASE SendGate
    <3>1. CASE Trip(io)
      BY <1>0, <3>1, TripEndsLease, ClosedGate
    <3>2. CASE ~Trip(io)
      <4>1. Quiet /\ io.pc = "idle" /\ ioQ # <<>> /\ Head(ioQ).t = "audio"
        BY <2>5, <3>2 DEF SendGate, IoAt
      <4>2. CASE io' = io
        BY <4>1, <4>2, QuietLease, Untouched
      <4>3. CASE io' # io
        <5>1. /\ io.gate /\ Head(ioQ).g = io.gateGen
              /\ io' = [io EXCEPT !.pc = "ticked"] /\ UNCHANGED ioQ
          BY <2>5, <3>2, <4>3 DEF SendGate
        <5> QED
          BY <1>0, <4>1, <5>1, QuietLease DEF GateIsLease, IoType
      <4> QED
        BY <4>2, <4>3
    <3> QED
      BY <3>1, <3>2
  <2>6. CASE SendWrite
    <3>1. io.gate /\ Head(ioQ).g = line.lease
      BY <2>6 DEF SendWrite, IoAt, GateIsLease
    <3>2. CASE Trip(io)
      BY <1>0, <3>2, TripEndsLease, ClosedGate
    <3>3. CASE Quiet /\ io' = [io EXCEPT !.pc = "idle"]
      BY <1>0, <3>3, QuietLease, Untouched DEF IoType
    <3>4. CASE /\ line' = [line EXCEPT !.wrote = Item("audio", Head(ioQ).g)]
               /\ Accepted([io EXCEPT !.pc = "idle"], Head(ioQ))
      <4>1. line'.lease = line.lease /\ line'.wrote.g = line.lease
        BY <1>0, <3>1, <3>4 DEF LineType, Item
      <4>2. io' \in {[io EXCEPT !.pc = "idle"],
                     [[io EXCEPT !.pc = "idle"] EXCEPT !.drain = Head(ioQ).g]}
        BY <3>4 DEF Accepted
      <4> QED
        BY <1>0, <4>1, <4>2, Untouched DEF IoType
    <3> QED
      BY <2>6, <3>2, <3>3, <3>4 DEF SendWrite
  <2>7. CASE DrainPoll
    <3>1. [io EXCEPT !.drain = 0] \in IoType /\ [io EXCEPT !.drain = 0].conn = io.conn
      BY <1>0 DEF IoType, Gen
    <3>2. CASE Trip([io EXCEPT !.drain = 0])
      BY <3>1, <3>2, TripEndsLease, ClosedGate
    <3>3. CASE ~Trip([io EXCEPT !.drain = 0])
      <4>1. Quiet /\ io.pc = "idle" /\ io' = [io EXCEPT !.drain = 0]
        BY <2>7, <3>3 DEF DrainPoll
      <4> QED
        BY <1>0, <4>1, QuietLease, Untouched DEF IoType
    <3> QED
      BY <3>2, <3>3
  <2>8. CASE IoStopSched
    <3>1. CASE io.gate /\ io.gateGen = Head(ioQ).g
      <4>1. Unkey(io, Revoke(ctl, Head(ioQ).g))
        BY <2>8, <3>1 DEF IoStopSched
      <4> QED
        BY <1>0, <4>1, UnkeyEndsLease, ClosedGate
    <3>2. CASE ~(io.gate /\ io.gateGen = Head(ioQ).g)
      <4>1. UNCHANGED io /\ io.pc = "idle"
        BY <2>8, <3>2 DEF IoStopSched, IoTakes, IoAt
      <4>2. line' = [line EXCEPT !.wrote = Silence, !.spent = line.spent \cup {Head(ioQ).g}]
        BY <2>8, <3>2 DEF IoStopSched
      <4>3. line'.lease = line.lease /\ line'.wrote = Silence
        BY <1>0, <4>2 DEF LineType
      <4>4. line'.wrote.t # "audio"
        BY <4>3 DEF Silence
      <4> QED
        BY <4>1, <4>3, <4>4, Untouched
    <3> QED
      BY <3>1, <3>2
  <2>9. CASE IoStop
    <3>1. Unkey(io, ctl)
      BY <2>9 DEF IoStop
    <3> QED
      BY <1>0, <3>1, UnkeyEndsLease, ClosedGate
  <2>10. CASE IoVoice
    <3>1. UNCHANGED io /\ io.pc = "idle"
      BY <2>10 DEF IoVoice, IoTakes, IoAt
    <3>2. line' \in {[line EXCEPT !.keyed = TRUE, !.wrote = Item("TX", 0)],
                     [line EXCEPT !.keyed = FALSE, !.wrote = Item("RX", 0)],
                     [line EXCEPT !.wrote = Item("mic", 0)], [line EXCEPT !.wrote = Silence]}
      BY <2>10 DEF IoVoice
    <3>3. line'.lease = line.lease
          /\ line'.wrote \in {Item("TX", 0), Item("RX", 0), Item("mic", 0), Silence}
      BY <1>0, <3>2 DEF LineType
    <3>4. line'.wrote.t # "audio"
      BY <3>3 DEF Item, Silence
    <3> QED
      BY <3>1, <3>3, <3>4, Untouched
  <2>11. CASE WatchdogSees \/ WatchdogExpires
    BY <1>0, <2>11, TripEndsLease, ClosedGate DEF WatchdogSees, WatchdogExpires
  <2>12. CASE Disconnect
    <3>1. /\ io.pc = "idle" /\ line'.lease = 0 /\ line'.wrote.t # "audio"
          /\ io' = [io EXCEPT !.conn = FALSE, !.gate = FALSE, !.guard = FALSE, !.timer = FALSE,
                             !.gateGen = 0]
      BY <2>12 DEF Disconnect, Silence
    <3>2. ~io'.gate /\ io'.pc = "idle"
      BY <1>0, <3>1 DEF IoType
    <3> QED
      BY <3>1, <3>2, ClosedGate
  <2> QED
    BY <1>3, <2>1, <2>2, <2>3, <2>4, <2>5, <2>6, <2>7, <2>8, <2>9, <2>10, <2>11, <2>12
       DEF IoNext
<1> QED
  BY <1>1, <1>2, <1>3 DEF Next

\* Initially the gate is closed and nothing is leased.
LEMMA GateInit == Init => GateIsLease
  BY DEF Init, GateIsLease

(* While the K4 is keyed for a generation, the gate, the guard and the 50 ms  *)
(* watchdog belong to that generation (tcpclient.cpp, beginDigitalAudioTransmit *)
(* and every path that ends it), for any number of generations and packets.   *)
THEOREM LeaseGuarded == Spec => []LeaseIsGuarded
<1>1. Init => TypeOK /\ PacketsLeft /\ GateIsLease
  BY TypeInit, GateInit
<1>2. (TypeOK /\ PacketsLeft /\ GateIsLease) /\ [Next]_vars
        => (TypeOK /\ PacketsLeft /\ GateIsLease)'
  BY TypeKept, PacketsLeftKept, GateIsLeaseKept
<1>3. GateIsLease => LeaseIsGuarded
  BY DEF GateIsLease, LeaseIsGuarded
<1> QED
  BY <1>1, <1>2, <1>3, PTL DEF Spec

(* sendDigitalAudio hands the socket a program packet only of the generation  *)
(* the K4 is keyed for.                                                       *)
AudioUnderLease ==
  line'.wrote.t = "audio" /\ line' # line => line'.wrote.g = line.lease
THEOREM AudioNeedsLease == Spec => [][AudioUnderLease]_vars
<1>1. Init => TypeOK /\ PacketsLeft /\ GateIsLease
  BY TypeInit, GateInit
<1>2. (TypeOK /\ PacketsLeft /\ GateIsLease) /\ [Next]_vars
        => (TypeOK /\ PacketsLeft /\ GateIsLease)' /\ [AudioUnderLease]_vars
  BY TypeKept, PacketsLeftKept, GateIsLeaseKept DEF AudioUnderLease
<1> QED
  BY <1>1, <1>2, PTL DEF Spec

-----------------------------------------------------------------------------
(* Classes of calls.                                                       *)
CallNames == UiCall \cup IoCall \cup AuCall
Calls == Call(CallNames)
Named(T) == {m \in Calls : m.t \in T}
The(t, g) == {m \in Calls : m.t = t /\ m.g = g}
Above(n) == {m \in Calls : m.g > n}

On == {m \in Named({"ptt"}) : m.x}
Off == {m \in Named({"ptt"}) : ~m.x}
Stops == Named({"stopSstv", "stopEngine"})
Prepares == {m \in Named({"prepare"}) : m.g # 0}
PreparesBut(g) == {m \in Prepares : m.g # g}
Schedules == Named({"schedule"})
Starts == Named({"schedule", "prepare"})
BeginsSstv == {m \in Named({"beginSstv"}) : m.g # 0}
BeginsBut(g) == {m \in BeginsSstv : m.g # g}
LiveBegins(g) == {m \in The("beginFt8", g) : g # 0}
Halts == The("stop", 0)
Ends(g) == Halts \cup The("stopSched", g)
Mics == Named({"mic"})
Last(g) == {m \in The("audio", g) : m.x}
Refused(g) == {m \in The("prepared", g) : ~m.x}
Ready(g) == {m \in The("prepared", g) : m.x}

-----------------------------------------------------------------------------
(* The invariant, part by part.                                            *)

\* The SSTV image on the operator's screen, 0 for none.
Own == IF ui.starting \/ ui.active THEN ui.gen ELSE 0
\* The audio engine has an image it prepared, begins or sends.
Busy == au.prepared \/ au.active \/ au.starting

\* MainWindow shows one transmission at most.
UiShape ==
  /\ ui.ft8 # 0 => ~ui.starting /\ ~ui.active
  /\ ui.ptt => ~ui.starting /\ ~ui.active /\ ui.ft8 = 0
  /\ ui.starting \/ ui.active => ui.gen # 0 /\ ~(ui.starting /\ ui.active)
  /\ ui.pc \in {"haltFt8", "release"} => ui.ft8 # 0
  /\ ui.pc = "stopSstv" => ui.starting \/ ui.active

\* No generation is known before MainWindow has counted up to it.
KnownFields ==
  /\ ui.ft8 <= ui.gen /\ ui.keyUp <= ui.gen /\ ui.drain <= ui.gen
  /\ io.gateGen <= ui.gen /\ io.guardGen <= ui.gen /\ io.drain <= ui.gen
  /\ tx.gen <= ui.gen /\ au.gen <= ui.gen /\ au.enc <= ui.gen
  /\ line.lease <= ui.gen /\ \A g \in line.spent : g <= ui.gen
KnownCalls ==
  ~Has(uiQ, Above(ui.gen)) /\ ~Has(ioQ, Above(ui.gen)) /\ ~Has(auQ, Above(ui.gen))

\* Every guard and every fault is about a generation, a slot's guard about that slot.
Numbered ==
  /\ io.guard => io.guardGen # 0
  /\ io.pc = "armed" => ioQ # <<>> /\ Head(ioQ).g = io.guardGen
  /\ ~Has(uiQ, The("fault", 0))

(* An FT8 slot is in one place: its schedule call, Ft8Transmitter, or its     *)
(* finished signal.                                                           *)
SlotChain ==
  /\ ctl.sched \in {0, ui.ft8}
  /\ \A g \in Nat : Has(auQ, The("schedule", g)) =>
       g # 0 /\ g = ui.ft8 /\ Once(auQ, The("schedule", g)) /\ tx.phase = "Idle"
  /\ tx.phase # "Idle" => tx.gen # 0 /\ tx.gen = ui.ft8
  /\ tx.closing => tx.phase # "Idle"
  /\ au.enc # 0 => au.enc = tx.gen /\ tx.phase # "Idle"
SlotEnd ==
  /\ \A g \in Nat : Has(uiQ, The("finished", g)) =>
       /\ g # 0 /\ g = ui.ft8 /\ g # ctl.sched
       /\ tx.phase = "Idle" /\ ~Has(auQ, The("schedule", g)) /\ Once(uiQ, The("finished", g))
       /\ line.lease = g => Has(ioQ, The("stopSched", g))
  /\ \A g \in Nat : Has(auQ, The("unkeyed", g)) => g # 0 /\ g # ctl.sched /\ g # line.lease /\ g \in line.spent
  /\ \A g \in Nat : Has(ioQ, The("stopSched", g)) => g # 0

\* A generation is asked to be keyed once.
Fresh(g) == g # line.lease /\ (g = ctl.sched => g \notin line.spent)
Ft8Token ==
  /\ \A g \in Nat : Has(auQ, The("schedule", g)) => Fresh(g) /\ ~Has(ioQ, The("beginFt8", g))
  /\ tx.phase = "Waiting" => Fresh(tx.gen) /\ ~Has(ioQ, The("beginFt8", tx.gen))
  /\ \A g \in Nat : Has(ioQ, The("beginFt8", g)) =>
       g # 0 /\ Fresh(g) /\ Once(ioQ, The("beginFt8", g))
Unborn(g) ==
  /\ g # 0 /\ g \notin line.spent /\ g # line.lease /\ g # tx.gen /\ g # ui.ft8
  /\ ~Has(ioQ, The("stopSched", g)) /\ ~Has(ioQ, The("beginFt8", g))
SstvToken ==
  /\ \A g \in Nat : Has(auQ, The("prepare", g)) =>
       /\ Unborn(g) /\ ~Has(uiQ, The("prepared", g)) /\ ~Has(ioQ, The("beginSstv", g))
       /\ Once(auQ, The("prepare", g)) /\ au.gen # g
  /\ \A g \in Nat : Has(uiQ, The("prepared", g)) =>
       Unborn(g) /\ ~Has(ioQ, The("beginSstv", g)) /\ Once(uiQ, The("prepared", g))
  /\ \A g \in Nat : Has(ioQ, The("beginSstv", g)) => Unborn(g) /\ Once(ioQ, The("beginSstv", g))

(* The audio engine is told to stop an image before the next transmission     *)
(* reaches the audio thread.                                                  *)
SstvOrder ==
  /\ Closed(auQ, Busy /\ (Own = 0 \/ au.gen # Own), PreparesBut(Own), Stops)
  /\ ClosedBefore(auQ, Busy, Prepares, Stops, Starts)
  /\ ClosedBefore(auQ, tx.phase # "Idle", Schedules, {}, Prepares)
  /\ tx.phase # "Idle" => ~Busy
\* An image whose last packet is on its way, or that was refused, is at its end.
Leaving(g) == Has(ioQ, Last(g)) \/ Has(uiQ, The("accepted", g)) \/ io.drain = g
SstvEnd ==
  Own # 0 /\ (Has(uiQ, Refused(Own)) \/ Leaving(Own) \/ ui.draining) =>
    (~Busy \/ Has(auQ, Stops)) /\ ~Has(auQ, The("prepare", Own))

(* The microphone is told to close before the next transmission reaches the   *)
(* audio thread, and not opened again while that one is shown.                *)
MicNear == au.ptt \/ Has(auQ, On)
MicOrder ==
  /\ ~ui.ptt => Closed(auQ, au.ptt, On, Off)
  /\ ClosedBefore(auQ, au.ptt, On, Off, Starts)
  /\ ClosedBefore(auQ, tx.phase # "Idle", Schedules, {}, On)
  /\ Own # 0 => ClosedBefore(auQ, FALSE, The("prepare", Own), {}, On)
  /\ tx.phase # "Idle" => ~au.ptt
MicAlone ==
  MicNear =>
    /\ Own # 0 => ~Has(uiQ, Ready(Own))
    /\ Closed(ioQ, FALSE, BeginsSstv, Halts)
    /\ line.lease # 0 => Has(ioQ, Ends(line.lease))
    /\ ctl.sched # 0 => ~Has(ioQ, The("beginFt8", ctl.sched))

\* A lease no screen owns is about to end, and so is one not yet taken.
Owned ==
  /\ line.lease # 0 => line.lease = ui.ft8 \/ line.lease = Own \/ Has(ioQ, Ends(line.lease))
  /\ Closed(ioQ, FALSE, BeginsBut(Own), Halts)
\* A microphone packet comes after the end of every lease.
MicAfter ==
  /\ ClosedBefore(ioQ, FALSE, BeginsSstv, Halts, Mics)
  /\ ClosedBefore(ioQ, line.lease # 0, {}, Ends(line.lease), Mics)
  /\ ClosedBefore(ioQ, FALSE, LiveBegins(ctl.sched), {}, Mics)

-----------------------------------------------------------------------------
(* Calls and classes.                                                      *)

\* The three queues carry calls.
LEMMA Queues ==
  ASSUME TypeOK
  PROVE  uiQ \in Seq(Calls) /\ ioQ \in Seq(Calls) /\ auQ \in Seq(Calls)
<1>1. /\ Call(UiCall) \subseteq Calls /\ Call(IoCall) \subseteq Calls
      /\ Call(AuCall) \subseteq Calls
  BY DEF Calls, Call, CallNames
<1>2. ASSUME NEW S, S \subseteq Calls, NEW q \in Seq(S) PROVE q \in Seq(Calls)
  BY <1>2
<1> QED
  BY <1>1, <1>2 DEF TypeOK

\* What a posted call is.
LEMMA Sent ==
  ASSUME NEW t \in CallNames, NEW g \in Nat, NEW x \in BOOLEAN
  PROVE  /\ Msg(t, g, x) \in Calls
         /\ Msg(t, g, x).t = t /\ Msg(t, g, x).g = g /\ Msg(t, g, x).x = x
  BY DEF Msg, Calls, Call, Gen

\* What a taken call is.
LEMMA Taken ==
  ASSUME NEW q \in Seq(Calls), q # <<>>
  PROVE  /\ Head(q) \in Calls /\ Tail(q) \in Seq(Calls)
         /\ Head(q).t \in CallNames /\ Head(q).g \in Nat /\ Head(q).x \in BOOLEAN
<1>1. Head(q) \in Calls /\ Tail(q) \in Seq(Calls)
  OBVIOUS
<1> QED
  BY <1>1 DEF Calls, Call, Gen

\* Posting a call to a queue of calls.
LEMMA PostedCall ==
  ASSUME NEW q \in Seq(Calls), NEW t \in CallNames, NEW g \in Nat, NEW x \in BOOLEAN
  PROVE  Append(q, Msg(t, g, x)) \in Seq(Calls)
  BY Sent

\* The calls of one name and generation, when one more is posted.
LEMMA ThePost ==
  ASSUME NEW q \in Seq(Calls), NEW t \in CallNames, NEW g \in Nat, NEW x \in BOOLEAN,
         NEW u, NEW h
  PROVE  /\ Has(Append(q, Msg(t, g, x)), The(u, h)) <=> Has(q, The(u, h)) \/ (u = t /\ h = g)
         /\ Once(q, The(u, h)) /\ (u = t /\ h = g => ~Has(q, The(u, h)))
              => Once(Append(q, Msg(t, g, x)), The(u, h))
<1>1. Msg(t, g, x) \in Calls /\ (Msg(t, g, x) \in The(u, h) <=> u = t /\ h = g)
  BY Sent DEF The
<1> QED
  BY <1>1, HasPost, OncePost

\* The calls of one name and generation, when the head is taken.
LEMMA TheTake ==
  ASSUME NEW q \in Seq(Calls), q # <<>>, NEW u, NEW h
  PROVE  /\ Has(q, The(u, h)) <=> Has(Tail(q), The(u, h)) \/ (Head(q).t = u /\ Head(q).g = h)
         /\ Once(q, The(u, h)) =>
              /\ Once(Tail(q), The(u, h))
              /\ (Head(q).t = u /\ Head(q).g = h => ~Has(Tail(q), The(u, h)))
<1>1. Head(q) \in The(u, h) <=> Head(q).t = u /\ Head(q).g = h
  BY Taken DEF The
<1> QED
  BY <1>1, HasTake, OnceTake

\* The same, for all names and generations at once.
Posts(q, q2, t, g) == \E x \in BOOLEAN : q2 = Append(q, Msg(t, g, x))
\* What posting a call does to the calls of every name and generation.
LEMMA PostCalls ==
  ASSUME NEW q \in Seq(Calls), NEW t \in CallNames, NEW g \in Nat, NEW q2, Posts(q, q2, t, g)
  PROVE  /\ q2 \in Seq(Calls)
         /\ \A u, h : /\ Has(q2, The(u, h)) <=> Has(q, The(u, h)) \/ (u = t /\ h = g)
                      /\ Once(q, The(u, h)) /\ (u = t /\ h = g => ~Has(q, The(u, h))) => Once(q2, The(u, h))
  BY ThePost, PostedCall DEF Posts
\* ... and for a call taken.
LEMMA TakeCalls ==
  ASSUME NEW q \in Seq(Calls), q # <<>>, NEW q2, q2 = Tail(q)
  PROVE  /\ q2 \in Seq(Calls)
         /\ \A u, h : /\ Has(q, The(u, h)) <=> Has(q2, The(u, h)) \/ (Head(q).t = u /\ Head(q).g = h)
                      /\ Once(q, The(u, h)) => Once(q2, The(u, h))
                      /\ Once(q, The(u, h)) /\ Head(q).t = u /\ Head(q).g = h => ~Has(q2, The(u, h))
  BY TheTake, Taken

\* A queue of known calls stays one when a known call is posted ...
LEMMA KnownPost ==
  ASSUME NEW q \in Seq(Calls), NEW t \in CallNames, NEW g \in Nat, NEW x \in BOOLEAN,
         NEW n \in Nat, ~Has(q, Above(n)), g <= n
  PROVE  ~Has(Append(q, Msg(t, g, x)), Above(n))
<1>1. Msg(t, g, x) \in Calls /\ Msg(t, g, x) \notin Above(n)
  BY Sent DEF Above
<1> QED
  BY <1>1, HasPost
\* ... and when its head is taken.
LEMMA KnownTake ==
  ASSUME NEW q \in Seq(Calls), q # <<>>, NEW n \in Nat, ~Has(q, Above(n))
  PROVE  ~Has(Tail(q), Above(n)) /\ Head(q).g <= n
<1>1. Head(q) \notin Above(n)
  BY HasTake
<1>2. Head(q).g \in Nat /\ Head(q) \in Calls
  BY Taken
<1> QED
  BY <1>1, <1>2, HasTake DEF Above
\* Counting up knows more; and a generation not yet counted is in no queue.
LEMMA KnownMore ==
  ASSUME NEW q \in Seq(Calls), NEW n \in Nat, NEW k \in Nat, n <= k, ~Has(q, Above(n))
  PROVE  ~Has(q, Above(k)) /\ \A u : \A g \in Nat : g > n => ~Has(q, The(u, g))
<1>1. Above(k) \subseteq Above(n)
  BY DEF Above, Calls, Call, Gen
<1>2. \A u : \A g \in Nat : g > n => The(u, g) \subseteq Above(n)
  BY DEF Above, The
<1> QED
  BY <1>1, <1>2, HasMore

-----------------------------------------------------------------------------
(* What a step of the UI thread changes, as far as the invariant can tell.   *)
SameLease == line'.lease = line.lease /\ line'.spent = line.spent
SameGens == ui'.gen = ui.gen /\ ui'.ft8 = ui.ft8
SameScreen == SameGens /\ Own' = Own /\ ui'.ptt = ui.ptt /\ ui'.draining = ui.draining
UiTakesCall == uiQ # <<>> /\ uiQ' = Tail(uiQ)

ShowsFt8 ==
  /\ ui.ft8 = 0 /\ Own = 0 /\ ~ui.ptt
  /\ ui'.gen = ui.gen + 1 /\ ui'.ft8 = ui.gen + 1 /\ Own' = 0 /\ ~ui'.ptt
  /\ ctl'.sched = ui.gen + 1
  /\ auQ' = Append(auQ, Msg("schedule", ui.gen + 1, FALSE)) /\ UNCHANGED <<au, uiQ, ioQ>>
ShowsSstv ==
  /\ ui.ft8 = 0 /\ Own = 0 /\ ~ui.ptt
  /\ ui'.gen = ui.gen + 1 /\ ui'.ft8 = 0 /\ Own' = ui.gen + 1 /\ ~ui'.ptt /\ ~ui'.draining
  /\ ctl'.sched = ctl.sched
  /\ auQ' = Append(auQ, Msg("prepare", ui.gen + 1, FALSE))
  /\ ioQ' = Append(ioQ, Msg("ack", 0, FALSE)) /\ UNCHANGED <<au, uiQ>>
Talks ==
  /\ ui.ft8 = 0 /\ Own = 0 /\ SameGens /\ Own' = 0 /\ ui'.ptt /\ ctl'.sched = ctl.sched
  /\ auQ' = Append(auQ, Msg("ptt", 0, TRUE))
  /\ ioQ' = Append(ioQ, Msg("tx", 0, FALSE)) /\ UNCHANGED <<au, uiQ>>
FallsSilent ==
  /\ SameGens /\ Own' = Own /\ ~ui'.ptt /\ ui'.draining = ui.draining /\ ctl'.sched = ctl.sched
  /\ auQ' = Append(auQ, Msg("ptt", 0, FALSE))
  /\ ioQ' = ioQ \/ ioQ' = Append(ioQ, Msg("rx", 0, FALSE))
  /\ UNCHANGED <<au, uiQ>>
HaltsSlot ==
  /\ ui.ft8 # 0 /\ SameGens /\ Own' = Own /\ ~ui'.ptt /\ ui'.draining = ui.draining
  /\ ctl'.sched = ctl.sched
  /\ LET cancelled == Append(auQ, Msg("cancel", ui.ft8, FALSE))
         stopped == Append(ioQ, Msg("stopSched", ui.ft8, FALSE)) IN
     /\ auQ' = cancelled \/ auQ' = Append(cancelled, Msg("ptt", 0, FALSE))
     /\ ioQ' = stopped \/ ioQ' = Append(stopped, Msg("rx", 0, FALSE))
  /\ UNCHANGED <<au, uiQ>>
StopsImage ==
  /\ Own # 0 /\ ui'.gen = ui.gen + 1 /\ ui'.ft8 = ui.ft8 /\ Own' = 0 /\ ui'.ptt = ui.ptt
  /\ ctl'.sched = ctl.sched /\ au' = [au EXCEPT !.active = FALSE]
  /\ auQ' = Append(auQ, Msg("stopSstv", 0, FALSE))
  /\ ioQ' = Append(ioQ, Msg("stop", 0, FALSE)) /\ UNCHANGED uiQ
FinishesSlot ==
  /\ UiTakesCall /\ Head(uiQ).t = "finished" /\ Head(uiQ).g = ui.ft8
  /\ ui'.gen = ui.gen /\ ui'.ft8 = 0 /\ Own' = Own /\ ui'.ptt = ui.ptt
  /\ ui'.draining = ui.draining
  /\ ctl'.sched = IF ctl.sched = ui.ft8 THEN 0 ELSE ctl.sched
  /\ UNCHANGED <<au, ioQ, auQ>>
KeysImage ==
  /\ UiTakesCall /\ Head(uiQ).t = "prepared" /\ Head(uiQ).x /\ Own # 0 /\ Head(uiQ).g = Own
  /\ SameScreen /\ ctl'.sched = ctl.sched
  /\ ioQ' = Append(ioQ, Msg("beginSstv", Own, FALSE)) /\ UNCHANGED <<au, auQ>>
DropsImage ==
  /\ UiTakesCall /\ Head(uiQ).t = "prepared" /\ ~Head(uiQ).x /\ Own # 0 /\ Head(uiQ).g = Own
  /\ SameGens /\ Own' = 0 /\ ui'.ptt = ui.ptt /\ ctl'.sched = ctl.sched
  /\ UNCHANGED <<au, ioQ, auQ>>
PlaysImage ==
  /\ Own # 0 /\ SameGens /\ Own' = Own /\ ui'.ptt = ui.ptt /\ ~ui'.draining
  /\ ctl'.sched = ctl.sched
  /\ auQ' = Append(auQ, Msg("beginSstv", 0, FALSE)) /\ UNCHANGED <<au, uiQ, ioQ>>
DrainsImage ==
  /\ UiTakesCall /\ Head(uiQ).t = "accepted" /\ Own # 0 /\ Head(uiQ).g = Own
  /\ SameGens /\ Own' = Own /\ ui'.ptt = ui.ptt /\ ctl'.sched = ctl.sched
  /\ UNCHANGED <<au, ioQ, auQ>>
FinishesImage ==
  /\ Own # 0 /\ ui.draining
  /\ ui'.gen = ui.gen + 1 /\ ui'.ft8 = ui.ft8 /\ Own' = 0 /\ ui'.ptt = ui.ptt
  /\ ctl'.sched = ctl.sched
  /\ ioQ' = Append(ioQ, Msg("stop", 0, FALSE)) /\ UNCHANGED <<au, uiQ, auQ>>
LosesLink ==
  /\ UiTakesCall /\ SameGens /\ Own' = Own /\ ~ui'.ptt /\ ui'.draining = ui.draining
  /\ ctl'.sched \in {ctl.sched, 0}
  /\ auQ' = Append(Append(auQ, Msg("ptt", 0, FALSE)), Msg("stopEngine", 0, FALSE))
  /\ UNCHANGED <<au, ioQ>>
UiIdles ==
  /\ SameScreen /\ ctl'.sched \in {ctl.sched, 0}
  /\ uiQ' = uiQ \/ UiTakesCall
  /\ ioQ' = ioQ \/ ioQ' = Append(ioQ, Msg("ack", 0, FALSE))
  /\ UNCHANGED <<au, auQ>>
UiStep ==
  \/ ShowsFt8 \/ ShowsSstv \/ Talks \/ FallsSilent \/ HaltsSlot \/ StopsImage \/ FinishesSlot
  \/ KeysImage \/ DropsImage \/ PlaysImage \/ DrainsImage \/ FinishesImage \/ LosesLink \/ UiIdles

\* UiShape is inductive: only the UI thread touches what it is about.
LEMMA UiShapeKept == TypeOK /\ UiShape /\ Numbered /\ UiNext => UiShape'
<1> SUFFICES ASSUME TypeOK, UiShape, Numbered, UiNext PROVE UiShape'
  OBVIOUS
<1>0. ui \in UiType
  BY DEF TypeOK
<1> USE DEF UiShape, UiType, Gen
<1>1. CASE StartFt8
  BY <1>0, <1>1 DEF StartFt8, NothingTransmits, DigitalOwnsTx, UiFree
<1>11. CASE ArmFt8
  BY <1>0, <1>11 DEF ArmFt8
<1>12. CASE StartSstv
  BY <1>0, <1>12 DEF StartSstv, NothingTransmits, DigitalOwnsTx, UiFree
<1>2. CASE HaltFt8 \/ HaltFt8Close
  BY <1>0, <1>2 DEF HaltFt8, HaltFt8Close, RevokeFt8, UiFree
<1>21. CASE StopSstv \/ StopSstvPost
  BY <1>0, <1>21 DEF StopSstv, StopSstvPost, UiFree
<1>3. CASE PttPress \/ PttRelease
  BY <1>0, <1>3 DEF PttPress, PttRelease, DigitalOwnsTx, UiFree
<1>4. CASE UiFinished \/ UiSstvPrepared \/ UiSstvKeyRequested
  BY <1>0, <1>4 DEF UiFinished, UiSstvPrepared, UiSstvKeyRequested, UiTakes, UiFree, Stale
<1>5. CASE UiKeyUpElapsed \/ UiSstvFailed
  BY <1>0, <1>5, ZenonT(40) DEF UiKeyUpElapsed, UiSstvFailed, UiTakes, UiFree
<1>6. CASE UiSstvAccepted \/ UiDrainElapsed
  BY <1>0, <1>6 DEF UiSstvAccepted, UiDrainElapsed, UiTakes, UiFree
<1>61. CASE UiFt8Fault
  <2>1. Head(uiQ).g # 0
    BY <1>61, Queues, TheTake DEF UiFt8Fault, UiTakes, Numbered
  <2> QED
    BY <1>0, <1>61, <2>1 DEF UiFt8Fault, RevokeFt8, UiTakes, UiFree
<1>7. CASE UiDisconnected
  BY <1>0, <1>7 DEF UiDisconnected, RevokeFt8, UiTakes, UiFree
<1> QED
  BY <1>1, <1>11, <1>12, <1>2, <1>21, <1>3, <1>4, <1>5, <1>6, <1>61, <1>7 DEF UiNext

\* Every handler of the UI thread does one of these, and counts up first.
LEMMA UiSteps ==
  ASSUME TypeOK, UiShape, KnownFields, KnownCalls, UiNext
  PROVE  UiStep /\ SameLease /\ UNCHANGED <<io, tx>> /\ KnownFields'
<1>0. /\ ui \in UiType /\ au \in AuType /\ ctl \in ControlType /\ line \in LineType
      /\ io \in IoType /\ tx \in TxType /\ ui.gen \in Nat /\ ui.ft8 \in Nat
  BY UiFields DEF TypeOK
<1>1. UNCHANGED <<io, tx>> /\ (UNCHANGED au \/ au' = [au EXCEPT !.active = FALSE]) /\ Quiet
  BY DEF UiNext, UiRest, Operates, StartFt8, ArmFt8, StartSstv, HaltFt8, HaltFt8Close,
     StopSstv, StopSstvPost, PttPress, PttRelease, UiFinished, UiSstvPrepared,
     UiSstvKeyRequested, UiKeyUpElapsed, UiSstvFailed, UiSstvAccepted, UiDrainElapsed,
     UiFt8Fault, UiDisconnected
<1>2. SameLease /\ au'.gen = au.gen /\ au'.enc = au.enc
  BY <1>0, <1>1 DEF Quiet, SameLease, LineType, AuType
<1>3. uiQ # <<>> => Head(uiQ).g \in Nat /\ Head(uiQ).g <= ui.gen
  BY <1>0, Queues, Taken, KnownTake DEF KnownCalls
<1>4. ui'.gen \in Nat /\ ui'.ft8 \in Nat /\ ui'.keyUp \in Nat /\ ui'.drain \in Nat
  BY UiTyped DEF TypeOK, UiType, Gen
<1>5. /\ \A c \in ControlType, g \in Nat : Close(c, g).sched = c.sched
      /\ \A c \in ControlType, g \in Nat :
           Revoke(c, g).sched = IF c.sched = g THEN 0 ELSE c.sched
  BY DEF Close, Revoke, ControlType
<1>6. ASSUME ui'.gen \in {ui.gen, ui.gen + 1}, ui'.ft8 \in {ui.ft8, 0, ui'.gen},
             ui'.keyUp \in {ui.keyUp, 0, Head(uiQ).g}, uiQ = <<>> => ui'.keyUp \in {ui.keyUp, 0},
             ui'.drain \in {ui.drain, 0, ui.gen}
      PROVE  KnownFields'
  <2>1. /\ ui.keyUp \in Nat /\ ui.drain \in Nat /\ io.gateGen \in Nat /\ io.guardGen \in Nat
        /\ io.drain \in Nat /\ tx.gen \in Nat /\ au.gen \in Nat /\ au.enc \in Nat
        /\ line.lease \in Nat /\ line.spent \in SUBSET Nat
    BY <1>0 DEF UiType, IoType, TxType, AuType, LineType, Gen
  <2>2. ui.gen <= ui'.gen /\ \A g \in Nat : g <= ui.gen => g <= ui'.gen
    BY <1>0, <1>4, <1>6
  <2>3. ui'.ft8 <= ui'.gen /\ ui'.keyUp <= ui'.gen /\ ui'.drain <= ui'.gen
    <3>1. ui.ft8 <= ui.gen /\ ui.keyUp <= ui.gen /\ ui.drain <= ui.gen
      BY DEF KnownFields
    <3>2. ui'.ft8 <= ui'.gen
      BY <1>0, <1>4, <1>6, <2>2, <3>1
    <3>3. ui'.keyUp <= ui'.gen
      BY <1>0, <1>3, <1>4, <1>6, <2>1, <2>2, <3>1
    <3>4. ui'.drain <= ui'.gen
      BY <1>0, <1>4, <1>6, <2>1, <2>2, <3>1, SMTT(30)
    <3> QED
      BY <3>2, <3>3, <3>4
  <2> QED
    BY <1>1, <1>2, <2>1, <2>2, <2>3 DEF KnownFields, SameLease
<1> USE <1>0 DEF Own, SameGens, SameScreen, UiType
<1>7. CASE StartFt8
  <2>1. ShowsFt8
    BY <1>7 DEF StartFt8, ShowsFt8, NothingTransmits, DigitalOwnsTx, UiRest, ControlType
  <2> QED
    BY <1>1, <1>2, <1>6, <1>7, <2>1 DEF StartFt8, UiStep
<1>8. CASE ArmFt8
  BY <1>1, <1>2, <1>6, <1>8 DEF ArmFt8, UiRest, UiStep, UiIdles
<1>9. CASE StartSstv
  <2>1. ShowsSstv
    BY <1>9 DEF StartSstv, ShowsSstv, NothingTransmits, DigitalOwnsTx, UiRest
  <2> QED
    BY <1>1, <1>2, <1>6, <1>9, <2>1 DEF StartSstv, UiStep
<1>10. CASE HaltFt8
  BY <1>1, <1>2, <1>5, <1>6, <1>10 DEF HaltFt8, RevokeFt8, Operates, UiStep, UiIdles
<1>11. CASE HaltFt8Close
  <2>1. /\ auQ \in Seq(Calls) /\ ioQ \in Seq(Calls)
        /\ \A q \in Seq(Calls), m, n \in Calls :
              q \o <<m>> \o <<>> = Append(q, m) /\ q \o <<m>> \o <<n>> = Append(Append(q, m), n)
    BY Queues
  <2>2. /\ Msg("cancel", ui.ft8, FALSE) \in Calls /\ Msg("stopSched", ui.ft8, FALSE) \in Calls
        /\ Msg("ptt", 0, FALSE) \in Calls /\ Msg("rx", 0, FALSE) \in Calls
    BY Sent DEF CallNames, UiCall, IoCall, AuCall
  <2>3. /\ auQ' = Append(auQ, Msg("cancel", ui.ft8, FALSE))
           \/ auQ' = Append(Append(auQ, Msg("cancel", ui.ft8, FALSE)), Msg("ptt", 0, FALSE))
        /\ ioQ' = Append(ioQ, Msg("stopSched", ui.ft8, FALSE))
           \/ ioQ' = Append(Append(ioQ, Msg("stopSched", ui.ft8, FALSE)), Msg("rx", 0, FALSE))
    BY <1>11, <2>1, <2>2, ZenonT(40) DEF HaltFt8Close
  <2>4. HaltsSlot
    BY <1>5, <1>11, <2>3 DEF HaltFt8Close, HaltsSlot, UiRest, UiShape
  <2> QED
    BY <1>1, <1>2, <1>6, <1>11, <2>4 DEF HaltFt8Close, UiStep
<1>12. CASE StopSstv
  BY <1>1, <1>2, <1>5, <1>6, <1>12, AuFields DEF StopSstv, Operates, UiStep, UiIdles
<1>13. CASE StopSstvPost
  <2>1. StopsImage
    BY <1>13 DEF StopSstvPost, StopsImage, UiShape
  <2> QED
    BY <1>1, <1>2, <1>6, <1>13, <2>1 DEF StopSstvPost, UiStep
<1>14. CASE PttPress
  <2>1. Talks \/ UiIdles
    BY <1>14 DEF PttPress, DigitalOwnsTx, Talks, UiIdles, Operates
  <2> QED
    BY <1>1, <1>2, <1>6, <1>14, <2>1 DEF PttPress, UiStep
<1>15. CASE PttRelease
  <2>1. CASE ui.ft8 # 0
    <3>1. ui' = [ui EXCEPT !.held = FALSE, !.pc = "release"] /\ UNCHANGED <<uiQ, ioQ, auQ, au>>
      BY <1>15, <2>1 DEF PttRelease, UiRest
    <3>2. ctl'.sched \in {ctl.sched, 0}
      BY <1>5, <1>15, <2>1 DEF PttRelease
    <3>3. UiIdles
      BY <3>1, <3>2 DEF UiIdles
    <3> QED
      BY <1>1, <1>2, <1>6, <3>1, <3>3 DEF UiStep
  <2>2. CASE ui.ft8 = 0
    <3>1. FallsSilent
      BY <1>15, <2>2 DEF PttRelease, UiRest, FallsSilent
    <3> QED
      BY <1>1, <1>2, <1>6, <1>15, <2>2, <3>1 DEF PttRelease, UiStep
  <2> QED
    BY <2>1, <2>2
<1>16. CASE UiFinished
  <2>1. FinishesSlot \/ UiIdles
    BY <1>5, <1>16 DEF UiFinished, UiTakes, UiTakesCall, UiRest, FinishesSlot, UiIdles
  <2> QED
    BY <1>1, <1>2, <1>6, <1>16, <2>1 DEF UiFinished, UiStep
<1>17. CASE UiSstvPrepared
  <2>1. KeysImage \/ DropsImage \/ UiIdles
    BY <1>17 DEF UiSstvPrepared, Stale, UiTakes, UiTakesCall, UiRest, KeysImage, DropsImage, UiIdles,
       UiShape
  <2> QED
    BY <1>1, <1>2, <1>6, <1>17, <2>1 DEF UiSstvPrepared, UiStep
<1>18. CASE UiSstvKeyRequested
  BY <1>1, <1>2, <1>3, <1>6, <1>18 DEF UiSstvKeyRequested, UiTakes, UiTakesCall, UiRest, UiStep, UiIdles
<1>19. CASE UiKeyUpElapsed
  <2>1. PlaysImage \/ UiIdles
    <3>1. UNCHANGED <<uiQ, ioQ, au>>
      BY <1>19 DEF UiKeyUpElapsed, UiRest
    <3>2. CASE ui.keyUp # ui.gen \/ ~ui.starting
      BY <1>19, <3>1, <3>2 DEF UiKeyUpElapsed, UiIdles
    <3>3. CASE ui.keyUp = ui.gen /\ ui.starting /\ ~io.conn
      <4>1. ctl'.sched = ctl.sched
        BY <1>5, <1>19, <3>3, AuFields DEF UiKeyUpElapsed
      <4>2. ui' = [ui EXCEPT !.keyUp = 0, !.pc = "stopSstv"] /\ UNCHANGED auQ
        BY <1>19, <3>3 DEF UiKeyUpElapsed
      <4> QED
        BY <3>1, <4>1, <4>2 DEF UiIdles
    <3>4. CASE ui.keyUp = ui.gen /\ ui.starting /\ io.conn
      BY <1>19, <3>1, <3>4 DEF UiKeyUpElapsed, PlaysImage, UiShape
    <3> QED
      BY <3>2, <3>3, <3>4
  <2> QED
    BY <1>1, <1>2, <1>6, <1>19, <2>1, ZenonT(40) DEF UiKeyUpElapsed, UiStep
<1>20. CASE UiSstvFailed
  BY <1>1, <1>2, <1>5, <1>6, <1>20, AuFields
     DEF UiSstvFailed, UiTakes, UiTakesCall, UiRest, UiStep, UiIdles
<1>21. CASE UiSstvAccepted
  <2>1. DrainsImage \/ UiIdles
    BY <1>21 DEF UiSstvAccepted, UiTakes, UiTakesCall, UiRest, DrainsImage, UiIdles, UiShape
  <2> QED
    BY <1>1, <1>2, <1>6, <1>21, <2>1 DEF UiSstvAccepted, UiStep
<1>22. CASE UiDrainElapsed
  <2>1. FinishesImage \/ UiIdles
    BY <1>22 DEF UiDrainElapsed, UiRest, FinishesImage, UiIdles, UiShape
  <2> QED
    BY <1>1, <1>2, <1>6, <1>22, <2>1 DEF UiDrainElapsed, UiStep
<1>23. CASE UiFt8Fault
  BY <1>1, <1>2, <1>5, <1>6, <1>23
     DEF UiFt8Fault, RevokeFt8, UiTakes, UiTakesCall, UiRest, UiStep, UiIdles
<1>24. CASE UiDisconnected
  <2>1. auQ' = Append(Append(auQ, Msg("ptt", 0, FALSE)), Msg("stopEngine", 0, FALSE))
    <3>1. auQ \in Seq(Calls) /\ Msg("ptt", 0, FALSE) \in Calls /\ Msg("stopEngine", 0, FALSE) \in Calls
      BY Queues, Sent DEF CallNames, UiCall, IoCall, AuCall
    <3>2. \A q \in Seq(Calls), m, n \in Calls : q \o <<m, n>> = Append(Append(q, m), n)
      OBVIOUS
    <3> QED
      BY <1>24, <3>1, <3>2 DEF UiDisconnected
  <2>2. LosesLink
    <3>1. UiTakesCall /\ UNCHANGED <<au, ioQ>>
      BY <1>24 DEF UiDisconnected, UiTakes, UiTakesCall, UiRest
    <3>2. ctl'.sched \in {ctl.sched, 0}
      BY <1>5, <1>24, AuFields DEF UiDisconnected
    <3>3. SameGens /\ Own' = Own /\ ~ui'.ptt /\ ui'.draining = ui.draining
      BY <1>24 DEF UiDisconnected, RevokeFt8
    <3> QED
      BY <2>1, <3>1, <3>2, <3>3 DEF LosesLink
  <2> QED
    BY <1>1, <1>2, <1>6, <1>24, <2>2 DEF UiDisconnected, RevokeFt8, UiStep
<1> QED
  BY <1>7, <1>8, <1>9, <1>10, <1>11, <1>12, <1>13, <1>14, <1>15, <1>16, <1>17, <1>18, <1>19,
     <1>20, <1>21, <1>22, <1>23, <1>24 DEF UiNext

-----------------------------------------------------------------------------
(* What a step of the I/O thread changes.                                    *)
IoTakesCall == ioQ # <<>> /\ ioQ' = Tail(ioQ)
Program(item) == item.t \in {"TX", "audio"} /\ item.g # 0

\* Signals to the transmitter and the screen; none of them begins anything.
IoTells ==
  /\ \/ UNCHANGED auQ
     \/ \E t \in {"cancel", "keyed", "accepted"}, g \in 0 .. ui.gen, x \in BOOLEAN :
          auQ' = Append(auQ, Msg(t, g, x))
  /\ \/ UNCHANGED uiQ
     \/ \E t \in {"sstvFailed", "keyReq", "disconnected", "fault", "accepted"},
           g \in 0 .. ui.gen, x \in BOOLEAN :
          /\ t = "fault" => g # 0
          /\ t = "accepted" => Leaving(g)
          /\ uiQ' = Append(uiQ, Msg(t, g, x))

IoIdles ==
  /\ SameLease /\ ctl'.sched = ctl.sched /\ IoTells
  /\ ioQ' = ioQ \/ (IoTakesCall /\ Head(ioQ).t \notin {"stop", "stopSched"})
  /\ Program(line'.wrote) => line'.wrote = Item("audio", line.lease)
  /\ line'.wrote.t = "mic" => IoTakesCall /\ Head(ioQ).t = "mic"
IoReleases ==
  /\ line'.lease = 0 /\ line'.spent = line.spent \cup ({line.lease} \ {0})
  /\ ctl'.sched = ctl.sched /\ IoTells
  /\ ioQ' = ioQ \/ IoTakesCall
  /\ ~Program(line'.wrote) /\ line'.wrote.t # "mic"
IoStops ==
  /\ IoTakesCall /\ Head(ioQ).t = "stopSched"
  /\ LET g == Head(ioQ).g IN
     /\ line'.lease = (IF line.lease = g THEN 0 ELSE line.lease)
     /\ line'.spent = line.spent \cup {g}
     /\ ctl'.sched = IF ctl.sched = g THEN 0 ELSE ctl.sched
     /\ auQ' = Append(auQ, Msg("unkeyed", g, FALSE)) /\ UNCHANGED uiQ
  /\ ~Program(line'.wrote) /\ line'.wrote.t # "mic"
IoKeys ==
  /\ IoTakesCall
  /\ Head(ioQ).t = "beginSstv" \/ (Head(ioQ).t = "beginFt8" /\ Head(ioQ).g = ctl.sched)
  /\ line.lease = 0 /\ line'.lease = Head(ioQ).g /\ Head(ioQ).g # 0
  /\ line'.spent = line.spent /\ line'.wrote = Item("TX", Head(ioQ).g)
  /\ ctl'.sched = ctl.sched /\ IoTells
IoStep == IoIdles \/ IoReleases \/ IoStops \/ IoKeys

\* stopDigitalAudioAndUnkey: the lease, if any, is spent.
LEMMA UnkeyDoes ==
  ASSUME TypeOK, GateIsLease, NEW i \in IoType, i.conn = io.conn, NEW c \in ControlType, Unkey(i, c)
  PROVE  /\ line'.lease = 0 /\ line'.spent = line.spent \cup ({line.lease} \ {0})
         /\ line'.wrote.t \in {"none", "RX"} /\ ctl'.sched = c.sched
         /\ ~io'.guard /\ io'.gateGen = 0 /\ io'.guardGen = i.guardGen /\ io'.drain = i.drain
         /\ io'.pc = "idle"
<1>1. ~io'.guard /\ io'.gateGen = 0 /\ io'.guardGen = i.guardGen /\ io'.drain = i.drain /\ io'.pc = "idle"
  BY DEF Unkey, IoType
<1>2. line' = Unkeyed(line) /\ ctl'.sched = c.sched
  BY DEF Unkey, Close, ControlType
<1>3. CASE io.conn
  BY <1>1, <1>2, <1>3 DEF Unkeyed, Spend, Item
<1>4. CASE ~io.conn
  <2>1. line.lease = 0 /\ line \in LineType
    BY <1>4 DEF GateIsLease, TypeOK
  <2> QED
    BY <1>1, <1>2, <1>4, <2>1 DEF Unkeyed, LineType, Silence
<1> QED
  BY <1>3, <1>4

\* ToOwner tells one of the two.
LEMMA OwnerTold ==
  ASSUME TypeOK, NEW g \in 0 .. ui.gen, NEW x \in BOOLEAN, NEW m,
         NEW a \in {"cancel", "keyed", "accepted"}, NEW u \in {"sstvFailed", "keyReq", "accepted"},
         u = "accepted" => Leaving(g), ToOwner(m, Msg(a, g, x), Msg(u, g, x))
  PROVE  IoTells
  BY DEF ToOwner, IoTells

\* A trip ends the lease and tells whoever transmits.
LEMMA TripDoes ==
  ASSUME TypeOK, GateIsLease, KnownFields, NEW i \in IoType, i.conn = io.conn,
         i.guardGen = io.guardGen, i.guardGen # 0, Trip(i)
  PROVE  /\ line'.lease = 0 /\ line'.spent = line.spent \cup ({line.lease} \ {0})
         /\ ~Program(line'.wrote) /\ line'.wrote.t # "mic" /\ ctl'.sched = ctl.sched
         /\ ~io'.guard /\ io'.gateGen = 0 /\ io'.guardGen = i.guardGen /\ io'.drain = i.drain
         /\ io'.pc = "idle" /\ IoTells
<1>1. [i EXCEPT !.latched = TRUE] \in IoType /\ ctl \in ControlType
      /\ [i EXCEPT !.latched = TRUE].conn = i.conn
      /\ [i EXCEPT !.latched = TRUE].guardGen = i.guardGen
      /\ [i EXCEPT !.latched = TRUE].drain = i.drain
  BY DEF IoType, TypeOK
<1>2. Unkey([i EXCEPT !.latched = TRUE], ctl)
  BY DEF Trip
<1>3. i.guardGen \in 0 .. ui.gen /\ i.guardGen \in Nat
  BY IoFields, UiFields DEF KnownFields, TypeOK
<1>4. IoTells
  BY <1>3 DEF Trip, IoTells
<1> QED
  BY <1>1, <1>2, <1>4, UnkeyDoes DEF Program

\* An image is on its way out only if its last packet was.
LEMMA Leaves ==
  ASSUME TypeOK, IoTells, ioQ' = ioQ \/ IoTakesCall,
         \/ io'.drain \in {io.drain, 0} \/ (ioQ # <<>> /\ Head(ioQ) \in Last(io'.drain))
  PROVE  \A g \in Nat : g # 0 /\ Leaving(g)' => Leaving(g)
<1> SUFFICES ASSUME NEW g \in Nat, g # 0, Leaving(g)' PROVE Leaving(g)
  OBVIOUS
<1>0. ui.gen \in Nat /\ uiQ \in Seq(Calls) /\ ioQ \in Seq(Calls)
  BY Queues, UiFields DEF TypeOK
<1>1. CASE Has(ioQ', Last(g)')
  <2>1. Last(g)' = Last(g)
    BY DEF Last, The
  <2> QED
    BY <1>0, <1>1, <2>1, HasTake DEF IoTakesCall, Leaving
<1>2. CASE Has(uiQ', The("accepted", g)')
  <2>1. The("accepted", g)' = The("accepted", g)
    BY DEF The
  <2>2. CASE UNCHANGED uiQ
    BY <1>2, <2>1, <2>2 DEF Leaving
  <2>3. CASE \E t \in {"sstvFailed", "keyReq", "disconnected", "fault", "accepted"},
                h \in 0 .. ui.gen, x \in BOOLEAN :
               (t = "accepted" => Leaving(h)) /\ uiQ' = Append(uiQ, Msg(t, h, x))
    <3>1. PICK t \in {"sstvFailed", "keyReq", "disconnected", "fault", "accepted"},
               h \in 0 .. ui.gen, x \in BOOLEAN :
                 (t = "accepted" => Leaving(h)) /\ uiQ' = Append(uiQ, Msg(t, h, x))
      BY <2>3
    <3>2. t \in CallNames /\ h \in Nat
      BY <1>0 DEF CallNames, UiCall
    <3>3. Has(uiQ, The("accepted", g)) \/ (t = "accepted" /\ h = g)
      BY <1>0, <1>2, <2>1, <3>1, <3>2, ThePost
    <3> QED
      BY <3>1, <3>3 DEF Leaving
  <2> QED
    BY <2>2, <2>3 DEF IoTells
<1>3. CASE io'.drain = g
  BY <1>0, <1>3, HasTake DEF Leaving
<1> QED
  BY <1>1, <1>2, <1>3 DEF Leaving

\* Every handler of the I/O thread does one of these.
LEMMA IoSteps ==
  ASSUME TypeOK, GateIsLease, KnownFields, KnownCalls, Numbered, SlotEnd, Ft8Token, SstvToken, IoNext
  PROVE  /\ IoStep /\ UNCHANGED <<ui, tx, au>> /\ KnownFields' /\ Numbered'
         /\ \A g \in Nat : g # 0 /\ Leaving(g)' => Leaving(g)
<1>0. /\ io \in IoType /\ line \in LineType /\ ctl \in ControlType
      /\ uiQ \in Seq(Calls) /\ ioQ \in Seq(Calls)
      /\ ui.gen \in Nat /\ io.guardGen \in Nat /\ io.gateGen \in Nat /\ io.drain \in Nat
      /\ line.lease \in Nat /\ line.spent \in SUBSET Nat /\ io.mode \in {"ft8", "sstv"}
  BY Queues, UiFields, IoFields DEF TypeOK, LineType, Gen
<1>1. UNCHANGED <<ui, tx, au>>
  BY DEF IoNext, IoRest, IoFt8Check, IoFt8Guard, IoFt8Key, IoBeginSstv, SendGate, SendWrite,
     DrainPoll, IoStopSched, IoStop, IoAcknowledge, IoVoice, WatchdogSees, WatchdogExpires,
     Disconnect, Reconnect
<1> DEFINE h == Head(ioQ)
           known == {g \in Nat : g <= ui.gen}
<1>2. ioQ # <<>> => h \in Calls /\ h.g \in known /\ h.x \in BOOLEAN
  BY <1>0, Taken, KnownTake DEF KnownCalls
<1>3. /\ 0 \in known /\ io.guardGen \in known /\ io.gateGen \in known /\ io.drain \in known
      /\ line.lease \in known /\ line.spent \subseteq known /\ known = 0 .. ui.gen
  BY <1>0 DEF KnownFields
<1>4. ioQ # <<>> /\ h.t = "stopSched" => h.g # 0
  BY <1>0, <1>2, TheTake DEF SlotEnd
<1>5. ioQ # <<>> /\ h.t \in {"beginFt8", "beginSstv"} => h.g # 0
  BY <1>0, <1>2, TheTake DEF Ft8Token, SstvToken, Unborn
<1>6. line.lease # 0 => io.gate /\ io.gateGen = line.lease /\ io.conn
  BY DEF GateIsLease
<1>7. Quiet => SameLease /\ line'.wrote.t = "none"
  BY <1>0 DEF Quiet, SameLease, LineType, Silence
\* What remains to be shown of a handler, once its step is known.
<1>8. ASSUME IoStep, io'.gateGen \in known, io'.guardGen \in known, io'.drain \in known,
             io'.guard => io'.guardGen # 0,
             io'.pc = "armed" => ioQ' # <<>> /\ Head(ioQ').g = io'.guardGen,
             io'.drain \in {io.drain, 0} \/ (ioQ # <<>> /\ h \in Last(io'.drain))
      PROVE  IoStep /\ KnownFields' /\ Numbered' /\ \A g \in Nat : g # 0 /\ Leaving(g)' => Leaving(g)
  <2>1. line'.lease \in known /\ line'.spent \subseteq known
    BY <1>2, <1>3, <1>8 DEF IoStep, IoIdles, IoReleases, IoStops, IoKeys, SameLease, IoTakesCall
  <2>2. KnownFields'
    BY <1>1, <1>8, <2>1 DEF KnownFields
  <2>3. ~Has(uiQ', The("fault", 0))
    <3>1. CASE UNCHANGED uiQ
      BY <3>1 DEF Numbered
    <3>2. CASE \E t \in {"sstvFailed", "keyReq", "disconnected", "fault", "accepted"},
                  g \in 0 .. ui.gen, x \in BOOLEAN :
                 (t = "fault" => g # 0) /\ uiQ' = Append(uiQ, Msg(t, g, x))
      <4>1. PICK t \in {"sstvFailed", "keyReq", "disconnected", "fault", "accepted"},
                 g \in 0 .. ui.gen, x \in BOOLEAN :
                   (t = "fault" => g # 0) /\ uiQ' = Append(uiQ, Msg(t, g, x))
        BY <3>2
      <4>2. t \in CallNames /\ g \in Nat
        BY <1>0 DEF CallNames, UiCall
      <4> QED
        BY <1>0, <4>1, <4>2, ThePost DEF Numbered
    <3> QED
      BY <1>8, <3>1, <3>2 DEF IoStep, IoIdles, IoReleases, IoStops, IoKeys, IoTells
  <2>4. Numbered'
    <3>1. The("fault", 0)' = The("fault", 0)
      BY DEF The
    <3> QED
      BY <1>8, <2>3, <3>1 DEF Numbered
  <2>5. \A g \in Nat : g # 0 /\ Leaving(g)' => Leaving(g)
    <3>1. CASE IoTells /\ (ioQ' = ioQ \/ IoTakesCall)
      BY <1>8, <3>1, Leaves
    <3>2. CASE IoTakesCall /\ UNCHANGED uiQ
      <4>1. \A g : Last(g)' = Last(g) /\ The("accepted", g)' = The("accepted", g)
        BY DEF Last, The
      <4> QED
        BY <1>0, <1>8, <3>2, <4>1, HasTake DEF Leaving, IoTakesCall
    <3> QED
      BY <1>8, <3>1, <3>2 DEF IoStep, IoIdles, IoReleases, IoStops, IoKeys
  <2> QED
    BY <1>8, <2>2, <2>4, <2>5
<1>9. IoTells /\ (ioQ' = ioQ \/ (IoTakesCall /\ h.t \notin {"stop", "stopSched", "mic"})) /\ Quiet
        /\ ctl'.sched = ctl.sched => IoIdles
  BY <1>7 DEF IoIdles, Program
<1>10. UNCHANGED <<uiQ, auQ>> => IoTells
  BY DEF IoTells
<1>11. ioQ # <<>> => \A m, x : x \in BOOLEAN =>
         /\ ToOwner(m, Msg("cancel", h.g, x), Msg("sstvFailed", h.g, x)) => IoTells
         /\ ToOwner(m, Msg("keyed", h.g, x), Msg("keyReq", h.g, x)) => IoTells
  BY <1>2, <1>3, OwnerTold
<1> HIDE DEF h, known
<1>12. CASE IoFt8Check
  <2>1. IoIdles
    BY <1>9, <1>10, <1>12 DEF IoFt8Check, IoAt, IoTakesCall, h
  <2>2. io' = io \/ io' = [io EXCEPT !.pc = "checked"]
    BY <1>12 DEF IoFt8Check
  <2>3. io'.pc = "armed" => FALSE
    BY <1>0, <1>12 DEF IoFt8Check, IoAt, IoType
  <2> QED
    BY <1>0, <1>1, <1>3, <1>8, <2>1, <2>2, <2>3 DEF IoStep, IoType, Numbered
<1>13. CASE IoFt8Guard
  <2>0. ioQ # <<>> /\ h.t = "beginFt8"
    BY <1>13 DEF IoFt8Guard, IoAt, h
  <2>1. CASE io.conn /\ GuardFree
    <3>1. /\ io' = [Begun("ft8", h.g) EXCEPT !.pc = "armed"] /\ ctl' = Armed(h.g)
          /\ UNCHANGED <<uiQ, auQ, ioQ>> /\ Quiet
      BY <1>13, <2>1 DEF IoFt8Guard, h
    <3>2. io'.guardGen = h.g /\ io'.gateGen = io.gateGen /\ io'.drain = io.drain /\ h = Head(ioQ')
      BY <1>0, <3>1 DEF Begun, IoType, h
    <3>3. ctl'.sched = ctl.sched
      BY <1>0, <3>1 DEF Armed, ControlType
    <3> QED
      BY <1>1, <1>2, <1>3, <1>5, <1>8, <1>9, <1>10, <2>0, <3>1, <3>2, <3>3 DEF IoStep
  <2>2. CASE ~(io.conn /\ GuardFree)
    <3>1. /\ io' = [io EXCEPT !.pc = "idle"] /\ ioQ' = Tail(ioQ) /\ Report("ft8", h.g)
          /\ UNCHANGED ctl /\ Quiet
      BY <1>13, <2>2 DEF IoFt8Guard, h
    <3>2. IoIdles
      BY <1>9, <1>11, <2>0, <3>1 DEF Report, IoTakesCall
    <3>3. io'.pc = "idle" /\ io'.guard = io.guard /\ io'.guardGen = io.guardGen
          /\ io'.gateGen = io.gateGen /\ io'.drain = io.drain
      BY <1>0, <3>1 DEF IoType
    <3> QED
      BY <1>1, <1>3, <1>8, <3>2, <3>3 DEF IoStep, Numbered
  <2> QED
    BY <2>1, <2>2
<1>14. CASE IoFt8Key
  <2>0. /\ ioQ # <<>> /\ h.t = "beginFt8" /\ io.pc = "armed" /\ IoTakesCall /\ h.g # 0
        /\ io.guardGen = h.g
    BY <1>5, <1>14 DEF IoFt8Key, IoAt, IoTakesCall, Numbered, h
  <2>1. CASE ctl.sched = h.g
    <3>1. Key(io) /\ UNCHANGED ctl
      BY <1>14, <2>1 DEF IoFt8Key, h
    <3>2. line.lease = 0
      BY <1>6, <2>0 DEF GateIsLease
    <3>3. /\ line'.lease = h.g /\ line'.spent = line.spent /\ line'.wrote = Item("TX", h.g)
      BY <1>0, <2>0, <3>1 DEF Key, LineType
    <3>4. /\ io'.pc = "idle" /\ io'.guardGen = io.guardGen
          /\ io'.gateGen = io.guardGen /\ io'.drain = io.drain
      BY <1>0, <3>1 DEF Key, IoType
    <3>5. IoTells
      BY <1>11, <2>0, <3>1 DEF Key
    <3>6. IoKeys
      BY <2>0, <2>1, <3>1, <3>2, <3>3, <3>5 DEF IoKeys, h
    <3> QED
      BY <1>1, <1>3, <1>8, <2>0, <3>4, <3>6 DEF IoStep
  <2>2. CASE ctl.sched # h.g
    <3>1. /\ io' = [io EXCEPT !.guard = FALSE, !.pc = "idle"] /\ ctl' = Close(ctl, io.guardGen)
          /\ UNCHANGED <<uiQ, auQ>> /\ Quiet
      BY <1>14, <2>2 DEF IoFt8Key, h
    <3>2. /\ io'.pc = "idle" /\ ~io'.guard /\ io'.guardGen = io.guardGen
          /\ io'.gateGen = io.gateGen /\ io'.drain = io.drain
      BY <1>0, <3>1 DEF IoType
    <3>3. ctl'.sched = ctl.sched
      BY <1>0, <3>1 DEF Close, ControlType
    <3> QED
      BY <1>1, <1>3, <1>8, <1>9, <1>10, <2>0, <3>1, <3>2, <3>3 DEF IoStep
  <2> QED
    BY <2>1, <2>2
<1>15. CASE IoBeginSstv
  <2>0. ioQ # <<>> /\ h.t = "beginSstv" /\ IoTakesCall /\ h.g # 0 /\ io.pc = "idle"
    BY <1>5, <1>15 DEF IoBeginSstv, IoTakes, IoAt, IoTakesCall, h
  <2>1. CASE io.conn /\ GuardFree
    <3>1. Key(Begun("sstv", h.g)) /\ ctl' = Armed(h.g)
      BY <1>15, <2>1 DEF IoBeginSstv, h
    <3>2. line.lease = 0
      BY <1>6, <2>1 DEF GateIsLease, GuardFree
    <3>20. h.g \in Nat
      BY <1>2, <2>0 DEF known
    <3>3. Begun("sstv", h.g).guardGen = h.g /\ Begun("sstv", h.g).drain = io.drain
          /\ Begun("sstv", h.g) \in IoType
      BY <1>0, <3>20, BegunOp DEF Begun, IoType
    <3>4. /\ line'.lease = h.g /\ line'.spent = line.spent /\ line'.wrote = Item("TX", h.g)
      BY <1>0, <3>1, <3>3 DEF Key, LineType
    <3>5. /\ io'.pc = "idle" /\ io'.guardGen = h.g /\ io'.gateGen = h.g /\ io'.drain = io.drain
      BY <3>1, <3>3 DEF Key, IoType
    <3>6. IoTells
      BY <1>11, <2>0, <3>1, <3>3 DEF Key
    <3>7. ctl'.sched = ctl.sched
      BY <1>0, <3>1 DEF Armed, ControlType
    <3>8. IoKeys
      BY <2>0, <3>2, <3>4, <3>6, <3>7 DEF IoKeys, h
    <3> QED
      BY <1>1, <1>2, <1>3, <1>8, <2>0, <3>5, <3>8 DEF IoStep
  <2>2. CASE ~(io.conn /\ GuardFree)
    <3>1. Report("sstv", h.g) /\ UNCHANGED <<io, ctl>> /\ Quiet
      BY <1>15, <2>2 DEF IoBeginSstv, h
    <3>2. IoIdles
      BY <1>9, <1>11, <2>0, <3>1 DEF Report
    <3> QED
      BY <1>1, <1>3, <1>8, <2>0, <3>1, <3>2 DEF IoStep, Numbered
  <2> QED
    BY <2>1, <2>2
\* A trip, with the call at the head taken or not.
<1>16. ASSUME NEW i \in IoType, i.conn = io.conn, i.guardGen = io.guardGen,
              i.drain \in {io.drain, 0}, io.guard, Trip(i), ioQ' = ioQ \/ IoTakesCall
       PROVE  IoStep /\ KnownFields' /\ Numbered' /\ \A g \in Nat : g # 0 /\ Leaving(g)' => Leaving(g)
  <2>1. io.guardGen # 0
    BY <1>16 DEF Numbered
  <2>2. /\ line'.lease = 0 /\ line'.spent = line.spent \cup ({line.lease} \ {0})
        /\ ~Program(line'.wrote) /\ line'.wrote.t # "mic" /\ ctl'.sched = ctl.sched
        /\ ~io'.guard /\ io'.gateGen = 0 /\ io'.guardGen = i.guardGen /\ io'.drain = i.drain
        /\ io'.pc = "idle" /\ IoTells
    BY <1>16, <2>1, TripDoes
  <2>3. IoReleases
    BY <1>16, <2>2 DEF IoReleases
  <2> QED
    BY <1>3, <1>8, <1>16, <2>2, <2>3 DEF IoStep
<1>17. CASE SendGate
  <2>0. ioQ # <<>> /\ h.t = "audio" /\ io.pc = "idle"
    BY <1>17 DEF SendGate, IoAt, h
  <2>1. CASE IoTakesCall /\ Trip(io) /\ io.guard
    BY <1>0, <1>1, <1>16, <2>1
  <2>2. CASE (UNCHANGED io \/ io' = [io EXCEPT !.pc = "ticked"]) /\ (UNCHANGED ioQ \/ IoTakesCall)
             /\ UNCHANGED <<ctl, uiQ, auQ>> /\ Quiet
    <3>1. IoIdles
      BY <1>9, <1>10, <2>0, <2>2
    <3>2. io'.pc # "armed" /\ io'.guard = io.guard /\ io'.guardGen = io.guardGen
          /\ io'.gateGen = io.gateGen /\ io'.drain = io.drain
      BY <1>0, <2>0, <2>2 DEF IoType
    <3> QED
      BY <1>1, <1>3, <1>8, <3>1, <3>2 DEF IoStep, Numbered
  <2> QED
    BY <1>17, <2>0, <2>1, <2>2 DEF SendGate, IoTakesCall
<1>18. CASE SendWrite
  <2>0. /\ ioQ # <<>> /\ h.t = "audio" /\ io.pc = "ticked" /\ IoTakesCall
        /\ io.gate /\ io.guard /\ h.g = line.lease
    BY <1>18 DEF SendWrite, IoAt, IoTakesCall, h, GateIsLease
  <2>1. CASE Trip(io)
    BY <1>0, <1>1, <1>16, <2>0, <2>1
  <2>2. CASE io' = [io EXCEPT !.pc = "idle"] /\ UNCHANGED <<ctl, uiQ, auQ>> /\ Quiet
    <3>1. IoIdles
      BY <1>9, <1>10, <2>0, <2>2
    <3>2. io'.pc = "idle" /\ io'.guard = io.guard /\ io'.guardGen = io.guardGen
          /\ io'.gateGen = io.gateGen /\ io'.drain = io.drain
      BY <1>0, <2>2 DEF IoType
    <3> QED
      BY <1>1, <1>3, <1>8, <3>1, <3>2 DEF IoStep, Numbered
  <2>3. CASE /\ line' = [line EXCEPT !.wrote = Item("audio", h.g)]
             /\ Accepted([io EXCEPT !.pc = "idle"], h) /\ UNCHANGED ctl
    <3>1. SameLease /\ line'.wrote = Item("audio", line.lease) /\ line'.wrote.t = "audio"
      BY <1>0, <2>0, <2>3 DEF SameLease, LineType, Item
    <3>2. h.x => h \in Last(h.g) /\ Leaving(h.g)
      BY <1>0, <1>2, <2>0, HasTake DEF Last, The, Leaving, h
    <3>3. IoTells
      BY <1>2, <1>3, <1>10, <2>0, <2>3, <3>2, OwnerTold DEF Accepted
    <3>4. IoIdles
      BY <2>0, <2>3, <3>1, <3>3 DEF IoIdles, h
    <3>5. /\ io'.pc = "idle" /\ io'.guard = io.guard /\ io'.guardGen = io.guardGen
          /\ io'.gateGen = io.gateGen /\ (io'.drain = io.drain \/ (h.x /\ io'.drain = h.g))
      BY <1>0, <2>3 DEF IoType, Accepted
    <3> QED
      BY <1>1, <1>2, <1>3, <1>8, <2>0, <3>2, <3>4, <3>5 DEF IoStep, Numbered
  <2> QED
    BY <1>18, <2>1, <2>2, <2>3 DEF SendWrite, h
<1>19. CASE DrainPoll
  <2>0. io.pc = "idle" /\ io.drain # 0 /\ UNCHANGED ioQ /\ [io EXCEPT !.drain = 0] \in IoType
        /\ [io EXCEPT !.drain = 0].conn = io.conn /\ [io EXCEPT !.drain = 0].guardGen = io.guardGen
        /\ [io EXCEPT !.drain = 0].drain = 0
    BY <1>0, <1>19 DEF DrainPoll, IoType, Gen
  <2>1. CASE io.gate /\ Trip([io EXCEPT !.drain = 0])
    <3>1. io.guard
      BY <2>1 DEF GateIsLease
    <3> QED
      BY <1>0, <1>1, <1>16, <2>0, <2>1, <3>1
  <2>2. CASE /\ io' = [io EXCEPT !.drain = 0] /\ UNCHANGED ctl /\ Quiet
             /\ \/ UNCHANGED <<uiQ, auQ>>
                \/ ToOwner(io.mode, Msg("accepted", io.drain, TRUE), Msg("accepted", io.drain, TRUE))
    <3>1. Leaving(io.drain)
      BY DEF Leaving
    <3>2. IoTells
      BY <1>3, <1>10, <2>2, <3>1, OwnerTold
    <3>3. IoIdles
      BY <1>9, <2>0, <2>2, <3>2
    <3>4. io'.pc = "idle" /\ io'.guard = io.guard /\ io'.guardGen = io.guardGen
          /\ io'.gateGen = io.gateGen /\ io'.drain = 0
      BY <1>0, <2>0, <2>2 DEF IoType
    <3> QED
      BY <1>1, <1>3, <1>8, <3>3, <3>4 DEF IoStep, Numbered
  <2> QED
    BY <1>19, <2>1, <2>2 DEF DrainPoll
<1>20. CASE IoStopSched
  <2>0. /\ ioQ # <<>> /\ h.t = "stopSched" /\ IoTakesCall /\ h.g # 0 /\ h.g \in Nat /\ io.pc = "idle"
        /\ auQ' = Append(auQ, Msg("unkeyed", h.g, FALSE)) /\ UNCHANGED uiQ
    BY <1>2, <1>4, <1>20 DEF IoStopSched, IoTakes, IoAt, IoTakesCall, h, known
  <2>01. Revoke(ctl, h.g) \in ControlType
         /\ Revoke(ctl, h.g).sched = IF ctl.sched = h.g THEN 0 ELSE ctl.sched
    BY <1>0, <2>0, ControlOps DEF Revoke, ControlType
  <2>1. CASE io.gate /\ io.gateGen = h.g
    <3>1. Unkey(io, Revoke(ctl, h.g))
      BY <1>20, <2>1 DEF IoStopSched, h
    <3>2. /\ line'.lease = 0 /\ line'.spent = line.spent \cup ({line.lease} \ {0})
          /\ line'.wrote.t \in {"none", "RX"} /\ ctl'.sched = Revoke(ctl, h.g).sched
          /\ ~io'.guard /\ io'.gateGen = 0 /\ io'.guardGen = io.guardGen /\ io'.drain = io.drain
          /\ io'.pc = "idle"
      BY <1>0, <2>01, <3>1, UnkeyDoes
    <3>3. line.lease = h.g
      BY <2>1 DEF GateIsLease
    <3>4. IoStops
      BY <2>0, <2>01, <3>2, <3>3 DEF IoStops, Program, h
    <3> QED
      BY <1>1, <1>3, <1>8, <2>0, <3>2, <3>4 DEF IoStep
  <2>2. CASE ~(io.gate /\ io.gateGen = h.g)
    <3>1. /\ ctl' = Revoke(ctl, h.g) /\ UNCHANGED io
          /\ line' = [line EXCEPT !.wrote = Silence, !.spent = @ \cup {h.g}]
      BY <1>20, <2>2 DEF IoStopSched, h
    <3>2. line'.lease = line.lease /\ line'.spent = line.spent \cup {h.g} /\ line'.wrote.t = "none"
      BY <1>0, <3>1 DEF LineType, Silence
    <3>3. line.lease # h.g
      BY <1>6, <2>0, <2>2
    <3>4. IoStops
      BY <2>0, <2>01, <3>1, <3>2, <3>3 DEF IoStops, Program, h
    <3> QED
      BY <1>1, <1>3, <1>8, <2>0, <3>1, <3>4 DEF IoStep, Numbered
  <2> QED
    BY <2>1, <2>2
<1>21. CASE IoStop
  <2>1. Unkey(io, ctl) /\ UNCHANGED <<uiQ, auQ>> /\ IoTakesCall
    BY <1>21 DEF IoStop, IoTakes, IoAt, IoTakesCall
  <2>2. /\ line'.lease = 0 /\ line'.spent = line.spent \cup ({line.lease} \ {0})
        /\ line'.wrote.t \in {"none", "RX"} /\ ctl'.sched = ctl.sched
        /\ ~io'.guard /\ io'.gateGen = 0 /\ io'.guardGen = io.guardGen /\ io'.drain = io.drain
        /\ io'.pc = "idle"
    BY <1>0, <2>1, UnkeyDoes
  <2>3. IoReleases
    BY <1>10, <2>1, <2>2 DEF IoReleases, Program
  <2> QED
    BY <1>1, <1>3, <1>8, <2>2, <2>3 DEF IoStep
<1>22. CASE IoAcknowledge
  <2>1. /\ IoTakesCall /\ h.t = "ack" /\ UNCHANGED <<ctl, uiQ, auQ>> /\ Quiet /\ io.pc = "idle"
    BY <1>22 DEF IoAcknowledge, IoTakes, IoAt, IoTakesCall, h
  <2>2. IoIdles
    BY <1>9, <1>10, <2>1
  <2>3. io'.pc = "idle" /\ io'.guard = io.guard /\ io'.guardGen = io.guardGen
        /\ io'.gateGen = io.gateGen /\ io'.drain = io.drain
    BY <1>0, <1>22, <2>1 DEF IoAcknowledge, IoType
  <2> QED
    BY <1>1, <1>3, <1>8, <2>2, <2>3 DEF IoStep, Numbered
<1>23. CASE IoVoice
  <2>1. /\ IoTakesCall /\ h.t \in {"tx", "rx", "mic"} /\ UNCHANGED <<io, ctl, uiQ, auQ>>
        /\ io.pc = "idle"
    BY <1>23 DEF IoVoice, IoTakes, IoAt, IoTakesCall, h
  <2>2. SameLease /\ ~Program(line'.wrote) /\ (line'.wrote.t = "mic" => h.t = "mic")
    <3>1. \/ line' = [line EXCEPT !.keyed = TRUE, !.wrote = Item("TX", 0)]
          \/ line' = [line EXCEPT !.keyed = FALSE, !.wrote = Item("RX", 0)]
          \/ line' = [line EXCEPT !.wrote = Silence]
          \/ h.t = "mic" /\ line' = [line EXCEPT !.wrote = Item("mic", 0)]
      BY <1>23 DEF IoVoice, IoTakes, IoAt, h
    <3>2. SameLease
      BY <1>0, <3>1 DEF SameLease, LineType
    <3>3. \/ line'.wrote \in {Item("TX", 0), Item("RX", 0), Silence}
          \/ h.t = "mic" /\ line'.wrote = Item("mic", 0)
      BY <1>0, <3>1 DEF LineType
    <3> QED
      BY <3>2, <3>3 DEF Program, Item, Silence
  <2>3. IoIdles
    BY <1>10, <2>1, <2>2 DEF IoIdles, h
  <2> QED
    BY <1>1, <1>3, <1>8, <2>1, <2>3 DEF IoStep, Numbered
<1>24. CASE WatchdogSees \/ WatchdogExpires
  <2>1. Trip(io) /\ io.guard /\ UNCHANGED ioQ
    BY <1>24 DEF WatchdogSees, WatchdogExpires
  <2> QED
    BY <1>0, <1>1, <1>16, <2>1
<1>25. CASE Disconnect
  <2>1. /\ io' = [io EXCEPT !.conn = FALSE, !.gate = FALSE, !.guard = FALSE, !.timer = FALSE,
                            !.gateGen = 0]
        /\ line' = [keyed |-> FALSE, lease |-> 0, spent |-> Spend(line), wrote |-> Silence]
        /\ uiQ' = Append(uiQ, Msg("disconnected", 0, FALSE)) /\ UNCHANGED <<ioQ, auQ>>
        /\ io.pc = "idle" /\ ctl'.sched = ctl.sched
    BY <1>0, <1>25 DEF Disconnect, Close, ControlType
  <2>2. IoTells
    <3>1. 0 \in 0 .. ui.gen
      BY <1>0
    <3> QED
      BY <2>1, <3>1 DEF IoTells
  <2>3. IoReleases
    BY <2>1, <2>2 DEF IoReleases, Program, Spend, Silence
  <2>4. io'.pc = "idle" /\ ~io'.guard /\ io'.guardGen = io.guardGen /\ io'.gateGen = 0
        /\ io'.drain = io.drain
    BY <1>0, <2>1 DEF IoType
  <2> QED
    BY <1>1, <1>3, <1>8, <2>3, <2>4 DEF IoStep
<1>26. CASE Reconnect
  <2>1. /\ io' = [io EXCEPT !.conn = TRUE] /\ UNCHANGED <<ctl, uiQ, ioQ, auQ>> /\ Quiet
        /\ io.pc = "idle"
    BY <1>26 DEF Reconnect
  <2>2. IoIdles
    BY <1>9, <1>10, <2>1
  <2>3. io'.pc = "idle" /\ io'.guard = io.guard /\ io'.guardGen = io.guardGen
        /\ io'.gateGen = io.gateGen /\ io'.drain = io.drain
    BY <1>0, <2>1 DEF IoType
  <2> QED
    BY <1>1, <1>3, <1>8, <2>2, <2>3 DEF IoStep, Numbered
<1> QED
  BY <1>1, <1>12, <1>13, <1>14, <1>15, <1>17, <1>18, <1>19, <1>20, <1>21, <1>22, <1>23, <1>24,
     <1>25, <1>26 DEF IoNext

-----------------------------------------------------------------------------
(* What a step of the audio thread changes.                                  *)
AuTakesCall == AuFree /\ auQ # <<>> /\ auQ' = Tail(auQ)
SameImage == au'.gen = au.gen /\ (Busy' => Busy)
SameMic == au'.ptt = au.ptt
SameRights == ctl'.sched = ctl.sched

SlotFails ==
  /\ tx.phase # "Idle" /\ tx'.gen = tx.gen /\ tx'.phase = "Idle" /\ ~tx'.closing
  /\ ctl'.sched = (IF ctl.sched = tx.gen THEN 0 ELSE ctl.sched)
  /\ SameImage /\ SameMic /\ au'.enc = 0
  /\ ioQ' = Append(ioQ, Msg("stopSched", tx.gen, FALSE))
  /\ uiQ' = Append(uiQ, Msg("finished", tx.gen, FALSE)) /\ UNCHANGED auQ
SlotEnds ==
  /\ AuTakesCall /\ Head(auQ).t = "unkeyed" /\ Head(auQ).g = tx.gen
  /\ tx.phase # "Idle" /\ tx'.gen = tx.gen /\ tx'.phase = "Idle" /\ ~tx'.closing
  /\ SameRights /\ SameImage /\ SameMic /\ au'.enc = 0
  /\ uiQ' = Append(uiQ, Msg("finished", tx.gen, TRUE)) /\ UNCHANGED ioQ
SlotRefused ==
  /\ AuTakesCall /\ Head(auQ).t = "schedule" /\ Head(auQ).g # ctl.sched
  /\ UNCHANGED tx /\ SameRights /\ SameImage /\ SameMic /\ au'.enc = 0
  /\ uiQ' = Append(uiQ, Msg("finished", Head(auQ).g, FALSE)) /\ UNCHANGED ioQ
SlotWaits ==
  /\ AuTakesCall /\ Head(auQ).t = "schedule" /\ Head(auQ).g = ctl.sched
  /\ tx.phase = "Idle" /\ tx'.gen = Head(auQ).g /\ tx'.phase = "Waiting"
  /\ SameRights /\ UNCHANGED <<au, uiQ, ioQ>>
SlotKeys ==
  /\ tx.phase = "Waiting" /\ ctl.sched = tx.gen
  /\ tx'.gen = tx.gen /\ tx'.phase = "Keying" /\ ~tx'.closing
  /\ ioQ' = Append(ioQ, Msg("beginFt8", tx.gen, FALSE))
  /\ SameRights /\ UNCHANGED <<au, uiQ, auQ>>
SlotGoesOn ==
  /\ tx'.gen = tx.gen /\ (tx'.phase = "Idle" <=> tx.phase = "Idle")
  /\ tx'.phase = "Waiting" => tx.phase = "Waiting"
  /\ tx'.closing => tx.phase # "Idle"
  /\ SameRights /\ SameImage /\ SameMic
  /\ au'.enc = au.enc \/ (au'.enc = tx.gen /\ tx.phase # "Idle")
  /\ \/ UNCHANGED ioQ
     \/ /\ tx.phase # "Idle"
        /\ \E t \in {"audio", "stopSched"}, x \in BOOLEAN : ioQ' = Append(ioQ, Msg(t, tx.gen, x))
  /\ uiQ' = uiQ \/ uiQ' = Append(uiQ, Msg("sstvFailed", tx.gen, FALSE))
  /\ auQ' = auQ \/ (AuTakesCall /\ Head(auQ).t \in {"cancel", "keyed", "accepted", "unkeyed"})
ImagePrepares ==
  /\ AuTakesCall /\ Head(auQ).t = "prepare" /\ ~Busy
  /\ UNCHANGED tx /\ SameRights /\ SameMic /\ au'.gen = Head(auQ).g /\ au'.enc = au.enc
  /\ \E ready \in BOOLEAN :
       (Busy' <=> ready) /\ uiQ' = Append(uiQ, Msg("prepared", Head(auQ).g, ready))
  /\ UNCHANGED ioQ
ImageGoesOn ==
  /\ UNCHANGED tx /\ SameRights /\ SameImage /\ SameMic /\ au'.enc = au.enc
  /\ \/ UNCHANGED ioQ
     \/ \E last \in BOOLEAN : (last => ~Busy') /\ ioQ' = Append(ioQ, Msg("audio", au.gen, last))
  /\ uiQ' = uiQ \/ uiQ' = Append(uiQ, Msg("sstvFailed", au.gen, FALSE))
  /\ auQ' = auQ \/ (AuTakesCall /\ Head(auQ).t = "beginSstv")
ImageStops ==
  /\ AuTakesCall /\ Head(auQ).t \in {"stopSstv", "stopEngine"}
  /\ UNCHANGED <<tx, uiQ, ioQ>> /\ SameRights /\ au'.gen = au.gen /\ au'.enc = au.enc
  /\ au'.ptt \in {au.ptt, FALSE} /\ ~Busy'
MicTurns ==
  /\ AuTakesCall /\ Head(auQ).t = "ptt"
  /\ UNCHANGED <<tx, uiQ, ioQ>> /\ SameRights /\ SameImage /\ au'.enc = au.enc
  /\ au'.ptt \in {au.ptt, Head(auQ).x} /\ (~Head(auQ).x => ~au'.ptt)
MicSpeaks ==
  /\ au.ptt /\ ioQ' = Append(ioQ, Msg("mic", 0, FALSE))
  /\ SameRights /\ UNCHANGED <<tx, au, uiQ, auQ>>
AuStep ==
  \/ SlotFails \/ SlotEnds \/ SlotRefused \/ SlotWaits \/ SlotKeys \/ SlotGoesOn
  \/ ImagePrepares \/ ImageGoesOn \/ ImageStops \/ MicTurns \/ MicSpeaks

\* Every handler and tick of the audio thread does one of these.
LEMMA AuSteps ==
  ASSUME TypeOK, KnownFields, KnownCalls, SlotChain, SstvOrder, AuNext
  PROVE  AuStep /\ SameLease /\ line'.wrote.t = "none" /\ UNCHANGED <<ui, io>> /\ KnownFields'
<1>0. /\ tx \in TxType /\ au \in AuType /\ ctl \in ControlType /\ line \in LineType
      /\ auQ \in Seq(Calls) /\ ui.gen \in Nat /\ tx.gen \in Nat /\ au.gen \in Nat
  BY Queues, UiFields, TxFields, AuFields DEF TypeOK
<1>1. UNCHANGED <<ui, io>> /\ Quiet
  BY DEF AuNext, AuRest, AuOnly, TxFailed, TxSchedule, TxCancel, TxKeyed, TxAccepted, TxUnkeyed,
     TickRevoked, TickExpired, TickKey, TickStart, TickFrame, TickUnkey, AuPrepare, AuBegin,
     AuBeginActive, AuStop, AuPace, AuPtt, AuMic
<1>2. SameLease /\ line'.wrote.t = "none"
  BY <1>0, <1>1 DEF Quiet, SameLease, LineType, Silence
<1>3. auQ # <<>> => Head(auQ) \in Calls /\ Head(auQ).g <= ui.gen /\ Head(auQ).x \in BOOLEAN
  BY <1>0, Taken, KnownTake DEF KnownCalls
<1>4. au.enc = 0 \/ (au.enc = tx.gen /\ tx.phase # "Idle")
  BY DEF SlotChain
<1>5. tx.closing \/ au.enc # 0 => tx.phase # "Idle"
  BY DEF SlotChain
<1>6. tx.phase # "Idle" => ~Busy
  BY DEF SstvOrder
<1>7. /\ \A c \in ControlType, g \in Nat : Close(c, g).sched = c.sched /\ Fault(c, g).sched = c.sched
      /\ \A c \in ControlType, g \in Nat :
           Revoke(c, g).sched = IF c.sched = g THEN 0 ELSE c.sched
  BY DEF Close, Fault, Revoke, ControlType, Gen
<1>8. \A t \in TxType : Fail(t) => /\ tx' = [t EXCEPT !.closing = TRUE] /\ ctl'.sched = ctl.sched
                                   /\ tx'.gen = t.gen /\ tx'.phase = t.phase /\ tx'.closing
  <2> SUFFICES ASSUME NEW t \in TxType, Fail(t)
               PROVE  /\ tx' = [t EXCEPT !.closing = TRUE] /\ ctl'.sched = ctl.sched
                      /\ tx'.gen = t.gen /\ tx'.phase = t.phase /\ tx'.closing
    OBVIOUS
  <2>1. tx' = [t EXCEPT !.closing = TRUE] /\ ctl' = Close(ctl, t.gen) /\ t.gen \in Nat
    BY TxFields DEF Fail
  <2> QED
    BY <1>0, <1>7, <2>1 DEF TxType
<1>9. AuStep /\ tx'.gen \in Nat /\ tx'.gen <= ui.gen /\ au'.gen \in Nat /\ au'.gen <= ui.gen
        /\ au'.enc \in {au.enc, tx.gen, 0} => KnownFields'
  BY <1>0, <1>1, <1>2 DEF KnownFields, SameLease
<1>10. \A t : AuTakes(t) => AuTakesCall /\ Head(auQ).t = t /\ ~au.starting /\ ~tx.closing
  BY DEF AuTakes, AuTakesCall, AuFree
<1>11. tx' = tx /\ au'.gen = au.gen /\ au'.enc = au.enc /\ AuStep => KnownFields'
  BY <1>0, <1>9 DEF KnownFields
<1>12. tx'.gen = tx.gen /\ au'.gen = au.gen /\ au'.enc \in {au.enc, tx.gen, 0} /\ AuStep => KnownFields'
  BY <1>0, <1>9 DEF KnownFields
<1>13. \A a \in AuType, g \in Nat : /\ [a EXCEPT !.enc = IF @ = g THEN 0 ELSE @] \in AuType
                                    /\ StoppedSstv(a) \in AuType /\ StoppedSstv(a).gen = a.gen
                                    /\ StoppedSstv(a).enc = a.enc /\ StoppedSstv(a).ptt = a.ptt
                                    /\ StoppedSstv(a).starting = a.starting
                                    /\ ~StoppedSstv(a).prepared /\ ~StoppedSstv(a).active
                                    /\ ~StoppedSstv(a).pacer
  BY DEF AuType, StoppedSstv, Gen
<1> USE DEF Busy, SameImage, SameMic, SameRights
<1>14. CASE TxFailed
  <2>1. /\ tx' = [tx EXCEPT !.closing = FALSE, !.phase = "Idle"] /\ tx.closing
        /\ ctl' = Revoke(ctl, tx.gen)
        /\ ioQ' = Append(ioQ, Msg("stopSched", tx.gen, FALSE))
        /\ uiQ' = Append(uiQ, Msg("finished", tx.gen, FALSE)) /\ UNCHANGED auQ
        /\ au' = [au EXCEPT !.enc = IF @ = tx.gen THEN 0 ELSE @]
    BY <1>14 DEF TxFailed, Finish, StopEncoding
  <2>2. tx'.gen = tx.gen /\ tx'.phase = "Idle" /\ ~tx'.closing
    BY <1>0, <2>1 DEF TxType
  <2>3. SameImage /\ SameMic /\ au'.enc = 0
    BY <1>0, <1>4, <2>1 DEF AuType
  <2>4. SlotFails
    BY <1>0, <1>5, <1>7, <2>1, <2>2, <2>3 DEF SlotFails
  <2> QED
    BY <1>1, <1>2, <1>12, <2>2, <2>3, <2>4 DEF AuStep
<1>15. CASE TxSchedule
  <2>0. /\ AuTakesCall /\ Head(auQ).t = "schedule" /\ UNCHANGED ioQ /\ ~tx.closing
        /\ Head(auQ).g \in Nat /\ Head(auQ).g <= ui.gen
    BY <1>0, <1>3, <1>10, <1>15, Taken DEF TxSchedule, AuTakesCall
  <2>1. tx.phase = "Idle"
    BY <1>0, <2>0, TheTake DEF SlotChain, AuTakesCall
  <2>2. CASE ctl.sched # Head(auQ).g
    <3>1. /\ UNCHANGED <<tx, ctl>> /\ uiQ' = Append(uiQ, Msg("finished", Head(auQ).g, FALSE))
          /\ au' = [au EXCEPT !.enc = IF @ = Head(auQ).g THEN 0 ELSE @]
      BY <1>15, <2>2 DEF TxSchedule, Refuse, Finish, StopEncoding
    <3>2. SameImage /\ SameMic /\ au'.enc = 0
      BY <1>0, <1>4, <2>1, <3>1 DEF AuType
    <3>3. SlotRefused
      BY <2>0, <2>2, <3>1, <3>2 DEF SlotRefused
    <3> QED
      BY <1>1, <1>2, <1>12, <3>1, <3>2, <3>3 DEF AuStep
  <2>3. CASE ctl.sched = Head(auQ).g
    <3> DEFINE t == [tx EXCEPT !.gen = Head(auQ).g, !.phase = "Waiting", !.keyed = FALSE,
                               !.accepted = FALSE, !.emitted = 0]
    <3>1. ((tx' = t /\ UNCHANGED ctl) \/ Fail(t)) /\ UNCHANGED <<uiQ, au>>
      BY <1>15, <2>1, <2>3 DEF TxSchedule
    <3>2. t \in TxType /\ t.gen = Head(auQ).g /\ t.phase = "Waiting"
      <4>1. 0 \in 0 .. Frames
        BY Bounds
      <4> QED
        BY <1>0, <2>0, <4>1 DEF TxType, Gen
    <3> HIDE DEF t
    <3>3. tx'.gen = Head(auQ).g /\ tx'.phase = "Waiting" /\ ctl'.sched = ctl.sched
      BY <1>8, <3>1, <3>2
    <3>4. SlotWaits
      BY <2>0, <2>1, <2>3, <3>1, <3>3 DEF SlotWaits
    <3> QED
      BY <1>0, <1>1, <1>2, <1>9, <2>0, <3>1, <3>3, <3>4 DEF AuStep, KnownFields
  <2> QED
    BY <2>2, <2>3
\* The slot goes on, is told to fail, or a call about it is ignored.
<1>16. ASSUME Fail(tx), tx.phase # "Idle", UNCHANGED <<au, uiQ, ioQ>>,
              auQ' = auQ \/ (AuTakesCall /\ Head(auQ).t = "cancel")
       PROVE  AuStep /\ KnownFields'
  <2>1. /\ tx'.gen = tx.gen /\ tx'.phase = tx.phase /\ tx'.closing /\ ctl'.sched = ctl.sched
    BY <1>0, <1>8, <1>16
  <2>2. SlotGoesOn
    BY <1>16, <2>1 DEF SlotGoesOn
  <2> QED
    BY <1>12, <1>16, <2>1, <2>2 DEF AuStep
<1>17. CASE TxCancel
  <2>1. AuTakesCall /\ Head(auQ).t = "cancel" /\ UNCHANGED <<au, uiQ, ioQ>>
    BY <1>10, <1>17 DEF TxCancel
  <2>2. CASE UNCHANGED <<tx, ctl>>
    <3>1. SlotGoesOn
      BY <1>5, <2>1, <2>2 DEF SlotGoesOn
    <3> QED
      BY <1>1, <1>2, <1>12, <2>1, <2>2, <3>1 DEF AuStep
  <2>3. CASE Fail(tx) /\ tx.phase # "Idle"
    BY <1>1, <1>2, <1>16, <2>1, <2>3
  <2> QED
    BY <1>17, <2>2, <2>3 DEF TxCancel
<1>18. CASE TxKeyed \/ TxAccepted
  <2>1. /\ AuTakesCall /\ Head(auQ).t \in {"keyed", "accepted"} /\ UNCHANGED <<ctl, au, uiQ, ioQ>>
    BY <1>10, <1>18 DEF TxKeyed, TxAccepted
  <2>2. tx' = tx \/ tx' = [tx EXCEPT !.keyed = TRUE] \/ tx' = [tx EXCEPT !.accepted = TRUE]
    BY <1>18 DEF TxKeyed, TxAccepted
  <2>3. tx'.gen = tx.gen /\ tx'.phase = tx.phase /\ tx'.closing = tx.closing
    BY <1>0, <2>2 DEF TxType
  <2>4. SlotGoesOn
    BY <1>5, <2>1, <2>3 DEF SlotGoesOn
  <2> QED
    BY <1>1, <1>2, <1>12, <2>1, <2>3, <2>4 DEF AuStep
<1>19. CASE TxUnkeyed
  <2>1. AuTakesCall /\ Head(auQ).t = "unkeyed" /\ UNCHANGED <<ctl, ioQ>> /\ ~tx.closing
    BY <1>10, <1>19 DEF TxUnkeyed
  <2>2. CASE Head(auQ).g = tx.gen /\ tx.phase = "Unkeying"
    <3>1. /\ tx' = [tx EXCEPT !.phase = "Idle"] /\ uiQ' = Append(uiQ, Msg("finished", tx.gen, TRUE))
          /\ au' = [au EXCEPT !.enc = IF @ = tx.gen THEN 0 ELSE @]
      BY <1>19, <2>2 DEF TxUnkeyed, Finish, StopEncoding
    <3>2. tx'.gen = tx.gen /\ tx'.phase = "Idle" /\ ~tx'.closing
      BY <1>0, <2>1, <3>1 DEF TxType
    <3>3. SameImage /\ SameMic /\ au'.enc = 0
      BY <1>0, <1>4, <3>1 DEF AuType
    <3>4. SlotEnds
      BY <2>1, <2>2, <3>1, <3>2, <3>3 DEF SlotEnds
    <3> QED
      BY <1>1, <1>2, <1>12, <3>2, <3>3, <3>4 DEF AuStep
  <2>3. CASE ~(Head(auQ).g = tx.gen /\ tx.phase = "Unkeying")
    <3>1. UNCHANGED <<tx, uiQ, au>>
      BY <1>19, <2>3 DEF TxUnkeyed
    <3>2. SlotGoesOn
      BY <1>5, <2>1, <3>1 DEF SlotGoesOn
    <3> QED
      BY <1>1, <1>2, <1>12, <3>1, <3>2 DEF AuStep
  <2> QED
    BY <2>2, <2>3
<1>20. CASE TickRevoked \/ TickExpired
  <2>1. Fail(tx) /\ tx.phase # "Idle" /\ UNCHANGED <<au, uiQ, ioQ, auQ>>
    BY <1>20 DEF TickRevoked, TickExpired, StartsFrame, FirstFrame
  <2> QED
    BY <1>1, <1>2, <1>16, <2>1
<1>21. CASE TickKey
  <2>1. /\ tx.phase = "Waiting" /\ ctl.sched = tx.gen /\ ~tx.closing
        /\ tx' = [tx EXCEPT !.phase = "Keying"]
        /\ ioQ' = Append(ioQ, Msg("beginFt8", tx.gen, FALSE)) /\ UNCHANGED <<ctl, au, uiQ, auQ>>
    BY <1>21 DEF TickKey, InSlot, AuFree
  <2>2. tx'.gen = tx.gen /\ tx'.phase = "Keying" /\ ~tx'.closing
    BY <1>0, <2>1 DEF TxType
  <2>3. SlotKeys
    BY <2>1, <2>2 DEF SlotKeys
  <2> QED
    BY <1>1, <1>2, <1>12, <2>1, <2>2, <2>3 DEF AuStep
<1>22. CASE TickStart
  <2>1. /\ tx.phase = "Keying" /\ ~tx.closing /\ tx' = [tx EXCEPT !.phase = "Audio"]
        /\ (ctl' = Fault(ctl, tx.gen) /\ UNCHANGED au)
           \/ (au' = [au EXCEPT !.enc = tx.gen] /\ UNCHANGED ctl)
        /\ UNCHANGED <<uiQ, ioQ, auQ>>
    BY <1>22 DEF TickStart, InSlot, AuFree
  <2>2. tx'.gen = tx.gen /\ tx'.phase = "Audio" /\ ~tx'.closing
    BY <1>0, <2>1 DEF TxType
  <2>3. SameImage /\ SameMic /\ (au'.enc = au.enc \/ au'.enc = tx.gen) /\ ctl'.sched = ctl.sched
    BY <1>0, <1>7, <2>1 DEF AuType
  <2>4. SlotGoesOn
    BY <2>1, <2>2, <2>3 DEF SlotGoesOn
  <2> QED
    BY <1>1, <1>2, <1>12, <2>2, <2>3, <2>4 DEF AuStep
<1>23. CASE TickFrame
  <2>1. /\ tx.phase = "Audio" /\ ~tx.closing /\ tx' = Emit(tx) /\ UNCHANGED auQ
        /\ UNCHANGED ioQ \/ \E x \in BOOLEAN : ioQ' = Append(ioQ, Msg("audio", tx.gen, x))
        /\ uiQ' = uiQ \/ uiQ' = Append(uiQ, Msg("sstvFailed", tx.gen, FALSE))
        /\ UNCHANGED au \/ au' = StoppedSstv(au)
        /\ UNCHANGED ctl \/ ctl' = Fault(ctl, tx.gen)
    BY <1>23 DEF TickFrame, InSlot, AuFree, StartsFrame, FirstFrame
  <2>2. tx'.gen = tx.gen /\ tx'.phase \in {"Audio", "Drain"} /\ ~tx'.closing
    BY <1>0, <2>1 DEF TxType, Emit
  <2>3. SameImage /\ SameMic /\ au'.enc = au.enc
    BY <1>0, <1>13, <2>1
  <2>30. SameRights
    BY <1>0, <1>7, <2>1
  <2>4. SlotGoesOn
    BY <2>1, <2>2, <2>3, <2>30 DEF SlotGoesOn
  <2> QED
    BY <1>1, <1>2, <1>12, <2>2, <2>3, <2>4 DEF AuStep
<1>24. CASE TickUnkey
  <2>1. /\ tx.phase = "Drain" /\ ~tx.closing /\ tx' = [tx EXCEPT !.phase = "Unkeying"]
        /\ ioQ' = Append(ioQ, Msg("stopSched", tx.gen, FALSE)) /\ UNCHANGED <<ctl, au, uiQ, auQ>>
    BY <1>24 DEF TickUnkey, InSlot, AuFree
  <2>2. tx'.gen = tx.gen /\ tx'.phase = "Unkeying" /\ ~tx'.closing
    BY <1>0, <2>1 DEF TxType
  <2>3. SlotGoesOn
    BY <2>1, <2>2 DEF SlotGoesOn
  <2> QED
    BY <1>1, <1>2, <1>12, <2>1, <2>2, <2>3 DEF AuStep
<1>25. CASE AuPrepare
  <2>1. /\ AuTakesCall /\ Head(auQ).t = "prepare" /\ ~au.starting /\ UNCHANGED <<tx, ctl, ioQ>>
        /\ Head(auQ).g \in Nat /\ Head(auQ).g <= ui.gen
    BY <1>0, <1>3, <1>10, <1>25, Taken DEF AuPrepare, AuOnly, AuTakesCall
  <2>2. Head(auQ) \in Starts /\ auQ # <<>>
    BY <1>3, <2>1 DEF Starts, Named, AuTakesCall
  <2>3. ~Busy
    BY <1>0, <2>2, BeforeTake DEF SstvOrder
  <2>4. PICK ready \in BOOLEAN :
          /\ au' = [au EXCEPT !.gen = Head(auQ).g, !.prepared = ready, !.emitted = 0]
          /\ uiQ' = Append(uiQ, Msg("prepared", Head(auQ).g, ready))
    BY <1>25, <2>3 DEF AuPrepare
  <2>5. /\ au'.gen = Head(auQ).g /\ (Busy' <=> ready) /\ au'.enc = au.enc /\ SameMic
    BY <1>0, <2>3, <2>4 DEF AuType
  <2>6. ImagePrepares
    BY <2>1, <2>3, <2>4, <2>5 DEF ImagePrepares
  <2> QED
    BY <1>0, <1>1, <1>2, <1>9, <2>1, <2>5, <2>6 DEF AuStep, KnownFields
<1>26. CASE AuBegin
  <2>1. /\ AuTakesCall /\ Head(auQ).t = "beginSstv" /\ UNCHANGED <<tx, ctl, uiQ, ioQ>>
        /\ au' = [au EXCEPT !.starting = Allows(au.gen) /\ au.prepared]
    BY <1>10, <1>26 DEF AuBegin, AuOnly
  <2>2. SameImage /\ SameMic /\ au'.enc = au.enc
    BY <1>0, <2>1 DEF AuType
  <2>3. ImageGoesOn
    BY <2>1, <2>2 DEF ImageGoesOn
  <2> QED
    BY <1>1, <1>2, <1>11, <2>1, <2>2, <2>3 DEF AuStep
<1>27. CASE AuBeginActive
  <2>1. /\ au.starting /\ UNCHANGED <<tx, ioQ, auQ>> /\ (UNCHANGED ctl \/ ctl' = Fault(ctl, au.gen))
        /\ au' = [au EXCEPT !.starting = FALSE, !.active = TRUE, !.pacer = @ \/ ~au.active]
           \/ au' = [au EXCEPT !.starting = FALSE, !.prepared = FALSE]
        /\ uiQ' = uiQ \/ uiQ' = Append(uiQ, Msg("sstvFailed", au.gen, FALSE))
    BY <1>27 DEF AuBeginActive, AuOnly
  <2>2. SameImage /\ SameMic /\ au'.enc = au.enc
    BY <1>0, <2>1 DEF AuType
  <2>20. SameRights
    BY <1>0, <1>7, <2>1
  <2>3. ImageGoesOn
    BY <2>1, <2>2, <2>20 DEF ImageGoesOn
  <2> QED
    BY <1>1, <1>2, <1>11, <2>1, <2>2, <2>3 DEF AuStep
<1>28. CASE AuStop
  <2>1. /\ AuTakesCall /\ Head(auQ).t \in {"stopSstv", "stopEngine"} /\ ~au.starting
        /\ UNCHANGED <<tx, ctl, uiQ, ioQ>>
        /\ au' = StoppedSstv(au) \/ au' = [StoppedSstv(au) EXCEPT !.ptt = FALSE]
    BY <1>10, <1>28 DEF AuStop, AuOnly
  <2>2. au'.gen = au.gen /\ au'.enc = au.enc /\ au'.ptt \in {au.ptt, FALSE} /\ ~Busy'
    <3> DEFINE a == StoppedSstv(au)
    <3>1. /\ a \in AuType /\ a.gen = au.gen /\ a.enc = au.enc /\ a.ptt = au.ptt /\ ~a.starting
          /\ ~a.prepared /\ ~a.active
      BY <1>0, <1>13, <2>1
    <3>2. au' = a \/ au' = [a EXCEPT !.ptt = FALSE]
      BY <2>1
    <3> HIDE DEF a
    <3> QED
      BY <3>1, <3>2 DEF AuType
  <2>3. ImageStops
    BY <2>1, <2>2 DEF ImageStops
  <2> QED
    BY <1>1, <1>2, <1>11, <2>1, <2>2, <2>3 DEF AuStep
<1>29. CASE AuPace
  <2>0. /\ au.active /\ ~au.starting /\ UNCHANGED <<tx, auQ>>
    BY <1>29 DEF AuPace, AuFree, AuOnly
  <2>1. au.enc = 0
    BY <1>5, <1>6, <2>0
  <2>2. /\ UNCHANGED ctl \/ ctl' = Fault(ctl, au.gen)
        /\ uiQ' = uiQ \/ uiQ' = Append(uiQ, Msg("sstvFailed", au.gen, FALSE))
        /\ \/ UNCHANGED ioQ /\ au' = StoppedSstv(au)
           \/ \E last \in BOOLEAN :
                /\ ioQ' = Append(ioQ, Msg("audio", au.gen, last))
                /\ au' = [IF last THEN StoppedSstv(au) ELSE au EXCEPT !.emitted = @ + 1]
    BY <1>29, <2>1 DEF AuPace
  <2>3. SameRights
    BY <1>0, <1>7, <2>2
  <2>4. CASE UNCHANGED ioQ /\ au' = StoppedSstv(au)
    <3>1. SameImage /\ SameMic /\ au'.enc = au.enc
      BY <1>0, <1>13, <2>0, <2>4
    <3>2. ImageGoesOn
      BY <2>0, <2>2, <2>3, <2>4, <3>1 DEF ImageGoesOn
    <3> QED
      BY <1>1, <1>2, <1>11, <2>0, <3>1, <3>2 DEF AuStep
  <2>5. ASSUME NEW last \in BOOLEAN, ioQ' = Append(ioQ, Msg("audio", au.gen, last)),
               au' = [IF last THEN StoppedSstv(au) ELSE au EXCEPT !.emitted = @ + 1]
        PROVE  AuStep /\ KnownFields'
    <3>1. SameImage /\ SameMic /\ au'.enc = au.enc /\ (last => ~Busy')
      <4> DEFINE a == IF last THEN StoppedSstv(au) ELSE au
      <4>1. /\ a \in AuType /\ a.gen = au.gen /\ a.enc = au.enc /\ a.ptt = au.ptt /\ ~a.starting
            /\ last => ~a.prepared /\ ~a.active
        BY <1>0, <1>13, <2>0
      <4>2. au' = [a EXCEPT !.emitted = @ + 1]
        BY <2>5
      <4> HIDE DEF a
      <4> QED
        BY <2>0, <4>1, <4>2 DEF AuType
    <3>2. ImageGoesOn
      BY <2>0, <2>2, <2>3, <2>5, <3>1 DEF ImageGoesOn
    <3> QED
      BY <1>11, <2>0, <3>1, <3>2 DEF AuStep
  <2> QED
    BY <1>1, <1>2, <2>2, <2>4, <2>5
<1>30. CASE AuPtt
  <2>1. /\ AuTakesCall /\ Head(auQ).t = "ptt" /\ UNCHANGED <<tx, ctl, uiQ, ioQ>>
        /\ au' = au \/ au' = [au EXCEPT !.ptt = Head(auQ).x]
        /\ ~Head(auQ).x => au' = [au EXCEPT !.ptt = Head(auQ).x]
    BY <1>10, <1>30 DEF AuPtt, AuOnly
  <2>2. SameImage /\ au'.enc = au.enc /\ au'.ptt \in {au.ptt, Head(auQ).x}
        /\ (~Head(auQ).x => ~au'.ptt)
    BY <1>0, <2>1 DEF AuType
  <2>3. MicTurns
    BY <2>1, <2>2 DEF MicTurns
  <2> QED
    BY <1>1, <1>2, <1>11, <2>1, <2>2, <2>3 DEF AuStep
<1>31. CASE AuMic
  <2>1. MicSpeaks
    BY <1>31 DEF AuMic, AuOnly, MicSpeaks
  <2> QED
    BY <1>1, <1>2, <1>11, <2>1 DEF AuStep, MicSpeaks
<1> QED
  BY <1>14, <1>15, <1>17, <1>18, <1>19, <1>20, <1>21, <1>22, <1>23, <1>24, <1>25, <1>26, <1>27,
     <1>28, <1>29, <1>30, <1>31 DEF AuNext

-----------------------------------------------------------------------------
(* The calls a step adds to the queues.                                      *)

\* The UI thread posts a schedule, a prepare, a beginSstv and a stop in these cases only.
LEMMA UiCalls ==
  ASSUME TypeOK, UiStep
  PROVE  /\ \A u : \A g \in Nat :
              /\ Has(uiQ', The(u, g)) => Has(uiQ, The(u, g))
              /\ Once(uiQ, The(u, g)) => Once(uiQ', The(u, g))
              /\ Has(ioQ, The(u, g)) => Has(ioQ', The(u, g))
              /\ Has(auQ, The(u, g)) => Has(auQ', The(u, g))
         /\ \A g \in Nat :
              /\ Has(ioQ', The("beginFt8", g)) => Has(ioQ, The("beginFt8", g))
              /\ Once(ioQ, The("beginFt8", g)) => Once(ioQ', The("beginFt8", g))
              /\ Has(ioQ', The("stopSched", g)) => Has(ioQ, The("stopSched", g)) \/ (HaltsSlot /\ g = ui.ft8)
              /\ Has(ioQ', The("beginSstv", g)) => Has(ioQ, The("beginSstv", g)) \/ (KeysImage /\ g = Own)
              /\ Once(ioQ, The("beginSstv", g)) /\ (KeysImage /\ g = Own => ~Has(ioQ, The("beginSstv", g)))
                   => Once(ioQ', The("beginSstv", g))
              /\ Has(auQ', The("unkeyed", g)) => Has(auQ, The("unkeyed", g))
              /\ Has(auQ', The("schedule", g)) => Has(auQ, The("schedule", g)) \/ (ShowsFt8 /\ g = ui.gen + 1)
              /\ Once(auQ, The("schedule", g)) /\ (ShowsFt8 /\ g = ui.gen + 1 => ~Has(auQ, The("schedule", g)))
                   => Once(auQ', The("schedule", g))
              /\ Has(auQ', The("prepare", g)) => Has(auQ, The("prepare", g)) \/ (ShowsSstv /\ g = ui.gen + 1)
              /\ Once(auQ, The("prepare", g)) /\ (ShowsSstv /\ g = ui.gen + 1 => ~Has(auQ, The("prepare", g)))
                   => Once(auQ', The("prepare", g))
<1>0. /\ uiQ \in Seq(Calls) /\ ioQ \in Seq(Calls) /\ auQ \in Seq(Calls)
      /\ ui.gen + 1 \in Nat /\ ui.ft8 \in Nat /\ Own \in Nat
  BY Queues, UiFields DEF TypeOK, Own
<1>1. uiQ' = uiQ \/ UiTakesCall
  BY DEF UiStep, ShowsFt8, ShowsSstv, Talks, FallsSilent, HaltsSlot, StopsImage, FinishesSlot,
     KeysImage, DropsImage, PlaysImage, DrainsImage, FinishesImage, LosesLink, UiIdles
<1>2. \/ ioQ' = ioQ
      \/ \E t \in {"ack", "tx", "rx", "stop"} : Posts(ioQ, ioQ', t, 0)
      \/ HaltsSlot /\ Posts(ioQ, ioQ', "stopSched", ui.ft8)
      \/ HaltsSlot /\ \E p : Posts(ioQ, p, "stopSched", ui.ft8) /\ Posts(p, ioQ', "rx", 0)
      \/ KeysImage /\ Posts(ioQ, ioQ', "beginSstv", Own)
  BY DEF UiStep, ShowsFt8, ShowsSstv, Talks, FallsSilent, HaltsSlot, StopsImage, FinishesSlot,
     KeysImage, DropsImage, PlaysImage, DrainsImage, FinishesImage, LosesLink, UiIdles, Posts
<1>3. \/ auQ' = auQ
      \/ ShowsFt8 /\ Posts(auQ, auQ', "schedule", ui.gen + 1)
      \/ ShowsSstv /\ Posts(auQ, auQ', "prepare", ui.gen + 1)
      \/ \E t \in {"ptt", "cancel", "stopSstv", "beginSstv"}, g \in {0, ui.ft8} :
           \/ Posts(auQ, auQ', t, g)
           \/ \E v \in {"ptt", "stopEngine"} : \E p : Posts(auQ, p, t, g) /\ Posts(p, auQ', v, 0)
  BY DEF UiStep, ShowsFt8, ShowsSstv, Talks, FallsSilent, HaltsSlot, StopsImage, FinishesSlot,
     KeysImage, DropsImage, PlaysImage, DrainsImage, FinishesImage, LosesLink, UiIdles, Posts
<1>4. \A u : \A g \in Nat : /\ Has(uiQ', The(u, g)) => Has(uiQ, The(u, g))
                            /\ Once(uiQ, The(u, g)) => Once(uiQ', The(u, g))
  <2>1. CASE UiTakesCall
    BY <1>0, <2>1, TakeCalls DEF UiTakesCall
  <2> QED
    BY <1>1, <2>1
<1>40. CallNames = {"finished", "prepared", "keyReq", "sstvFailed", "accepted", "fault", "disconnected",
                    "beginFt8", "beginSstv", "audio", "stopSched", "stop", "ack", "tx", "rx", "mic",
                    "schedule", "cancel", "keyed", "unkeyed", "prepare", "stopSstv", "stopEngine", "ptt"}
  BY DEF CallNames, UiCall, IoCall, AuCall
<1>5. ASSUME NEW u, NEW g \in Nat
      PROVE  /\ Has(ioQ, The(u, g)) => Has(ioQ', The(u, g))
             /\ Has(ioQ', The(u, g)) => \/ Has(ioQ, The(u, g)) \/ u \in {"ack", "tx", "rx", "stop"}
                                        \/ (u = "stopSched" /\ g = ui.ft8 /\ HaltsSlot)
                                        \/ (u = "beginSstv" /\ g = Own /\ KeysImage)
             /\ Once(ioQ, The(u, g)) /\ u \notin {"ack", "tx", "rx", "stop", "stopSched"}
                  /\ (u = "beginSstv" /\ g = Own /\ KeysImage => ~Has(ioQ, The(u, g)))
                    => Once(ioQ', The(u, g))
  <2>1. ASSUME NEW t \in {"ack", "tx", "rx", "stop"}, Posts(ioQ, ioQ', t, 0)
        PROVE  /\ Has(ioQ', The(u, g)) <=> Has(ioQ, The(u, g)) \/ (u = t /\ g = 0)
               /\ Once(ioQ, The(u, g)) /\ u # t => Once(ioQ', The(u, g))
    BY <1>0, <1>40, <2>1, PostCalls
  <2>2. CASE HaltsSlot /\ Posts(ioQ, ioQ', "stopSched", ui.ft8)
    BY <1>0, <1>40, <2>2, PostCalls
  <2>3. ASSUME HaltsSlot, NEW p, Posts(ioQ, p, "stopSched", ui.ft8), Posts(p, ioQ', "rx", 0)
        PROVE  /\ Has(ioQ', The(u, g)) <=> \/ Has(ioQ, The(u, g)) \/ (u = "stopSched" /\ g = ui.ft8)
                                          \/ (u = "rx" /\ g = 0)
               /\ Once(ioQ, The(u, g)) /\ u \notin {"stopSched", "rx"} => Once(ioQ', The(u, g))
    <3>1. /\ p \in Seq(Calls)
          /\ Has(p, The(u, g)) <=> Has(ioQ, The(u, g)) \/ (u = "stopSched" /\ g = ui.ft8)
          /\ Once(ioQ, The(u, g)) /\ u # "stopSched" => Once(p, The(u, g))
      BY <1>0, <1>40, <2>3, PostCalls
    <3> QED
      BY <1>40, <2>3, <3>1, PostCalls
  <2>4. CASE KeysImage /\ Posts(ioQ, ioQ', "beginSstv", Own)
    BY <1>0, <1>40, <2>4, PostCalls
  <2>5. CASE \E t \in {"ack", "tx", "rx", "stop"} : Posts(ioQ, ioQ', t, 0)
    BY <2>1, <2>5
  <2>6. CASE HaltsSlot /\ \E p : Posts(ioQ, p, "stopSched", ui.ft8) /\ Posts(p, ioQ', "rx", 0)
    BY <2>3, <2>6
  <2> QED
    BY <1>2, <2>2, <2>4, <2>5, <2>6
<1>6. ASSUME NEW u, NEW g \in Nat
      PROVE  /\ Has(auQ, The(u, g)) => Has(auQ', The(u, g))
             /\ Has(auQ', The(u, g)) => \/ Has(auQ, The(u, g))
                                        \/ u \in {"ptt", "cancel", "stopSstv", "stopEngine", "beginSstv"}
                                        \/ (u = "schedule" /\ g = ui.gen + 1 /\ ShowsFt8)
                                        \/ (u = "prepare" /\ g = ui.gen + 1 /\ ShowsSstv)
             /\ /\ Once(auQ, The(u, g)) /\ u \in {"schedule", "prepare"}
                /\ (u = "schedule" /\ g = ui.gen + 1 /\ ShowsFt8 => ~Has(auQ, The(u, g)))
                /\ (u = "prepare" /\ g = ui.gen + 1 /\ ShowsSstv => ~Has(auQ, The(u, g)))
                => Once(auQ', The(u, g))
  <2>1. CASE ShowsFt8 /\ Posts(auQ, auQ', "schedule", ui.gen + 1)
    BY <1>0, <1>40, <2>1, PostCalls
  <2>2. CASE ShowsSstv /\ Posts(auQ, auQ', "prepare", ui.gen + 1)
    BY <1>0, <1>40, <2>2, PostCalls
  <2>3. ASSUME NEW t \in {"ptt", "cancel", "stopSstv", "beginSstv"}, NEW h \in {0, ui.ft8}, NEW p,
               Posts(auQ, p, t, h)
        PROVE  /\ p \in Seq(Calls)
               /\ Has(p, The(u, g)) <=> Has(auQ, The(u, g)) \/ (u = t /\ g = h)
               /\ Once(auQ, The(u, g)) /\ u # t => Once(p, The(u, g))
    BY <1>0, <1>40, <2>3, PostCalls
  <2>4. ASSUME NEW p \in Seq(Calls), NEW v \in {"ptt", "stopEngine"}, Posts(p, auQ', v, 0)
        PROVE  /\ Has(auQ', The(u, g)) <=> Has(p, The(u, g)) \/ (u = v /\ g = 0)
               /\ Once(p, The(u, g)) /\ u # v => Once(auQ', The(u, g))
    BY <1>40, <2>4, PostCalls
  <2>5. ASSUME NEW t \in {"ptt", "cancel", "stopSstv", "beginSstv"}, NEW h \in {0, ui.ft8},
               Posts(auQ, auQ', t, h) \/ \E v \in {"ptt", "stopEngine"} : \E p : Posts(auQ, p, t, h) /\ Posts(p, auQ', v, 0)
        PROVE  /\ Has(auQ, The(u, g)) => Has(auQ', The(u, g))
               /\ Has(auQ', The(u, g)) =>
                    Has(auQ, The(u, g)) \/ u \in {"ptt", "cancel", "stopSstv", "stopEngine", "beginSstv"}
               /\ Once(auQ, The(u, g)) /\ u \in {"schedule", "prepare"} => Once(auQ', The(u, g))
    <3>1. CASE Posts(auQ, auQ', t, h)
      BY <2>3, <3>1
    <3>2. ASSUME NEW v \in {"ptt", "stopEngine"}, NEW p, Posts(auQ, p, t, h), Posts(p, auQ', v, 0)
          PROVE  /\ Has(auQ', The(u, g)) <=> Has(auQ, The(u, g)) \/ (u = t /\ g = h) \/ (u = v /\ g = 0)
                 /\ Once(auQ, The(u, g)) /\ u # t /\ u # v => Once(auQ', The(u, g))
      BY <2>3, <2>4, <3>2
    <3> QED
      BY <2>5, <3>1, <3>2
  <2> QED
    BY <1>3, <2>1, <2>2, <2>5
<1> QED
  BY <1>4, <1>5, <1>6

\* The I/O thread takes the head of its queue, reports, and posts nothing that begins.
LEMMA IoCalls ==
  ASSUME TypeOK, IoStep
  PROVE  /\ \A u : \A g \in Nat :
              /\ Has(ioQ', The(u, g)) => Has(ioQ, The(u, g))
              /\ Once(ioQ, The(u, g)) => Once(ioQ', The(u, g))
              /\ Has(ioQ, The(u, g)) => Has(ioQ', The(u, g)) \/ (IoTakesCall /\ Head(ioQ).t = u /\ Head(ioQ).g = g)
              /\ (IoTakesCall /\ Head(ioQ).t = u /\ Head(ioQ).g = g) =>
                    Has(ioQ, The(u, g)) /\ (Once(ioQ, The(u, g)) => ~Has(ioQ', The(u, g)))
              /\ Has(uiQ, The(u, g)) => Has(uiQ', The(u, g))
              /\ Has(auQ, The(u, g)) => Has(auQ', The(u, g))
         /\ \A u \in {"finished", "prepared"} : \A g \in Nat :
              /\ Has(uiQ', The(u, g)) => Has(uiQ, The(u, g))
              /\ Once(uiQ, The(u, g)) => Once(uiQ', The(u, g))
         /\ \A u \in {"schedule", "prepare", "unkeyed"} : \A g \in Nat :
              /\ Has(auQ', The(u, g)) =>
                   Has(auQ, The(u, g)) \/ (u = "unkeyed" /\ IoStops /\ g = Head(ioQ).g)
              /\ Once(auQ, The(u, g)) /\ u # "unkeyed" => Once(auQ', The(u, g))
<1>0. /\ uiQ \in Seq(Calls) /\ ioQ \in Seq(Calls) /\ auQ \in Seq(Calls) /\ ui.gen \in Nat
  BY Queues, UiFields DEF TypeOK
<1>1. ioQ' = ioQ \/ IoTakesCall
  BY DEF IoStep, IoIdles, IoReleases, IoStops, IoKeys
<1>2. ASSUME NEW u, NEW g \in Nat
      PROVE  /\ Has(ioQ', The(u, g)) => Has(ioQ, The(u, g))
             /\ Once(ioQ, The(u, g)) => Once(ioQ', The(u, g))
             /\ Has(ioQ, The(u, g)) => Has(ioQ', The(u, g)) \/ (IoTakesCall /\ Head(ioQ).t = u /\ Head(ioQ).g = g)
             /\ (IoTakesCall /\ Head(ioQ).t = u /\ Head(ioQ).g = g) =>
                   Has(ioQ, The(u, g)) /\ (Once(ioQ, The(u, g)) => ~Has(ioQ', The(u, g)))
  <2>1. CASE IoTakesCall
    <3>1. /\ Has(ioQ, The(u, g)) <=> Has(ioQ', The(u, g)) \/ (Head(ioQ).t = u /\ Head(ioQ).g = g)
          /\ Once(ioQ, The(u, g)) => Once(ioQ', The(u, g))
          /\ Once(ioQ, The(u, g)) /\ Head(ioQ).t = u /\ Head(ioQ).g = g => ~Has(ioQ', The(u, g))
      BY <1>0, <2>1, TakeCalls DEF IoTakesCall
    <3> QED
      BY <2>1, <3>1
  <2> QED
    BY <1>1, <2>1
<1>3. uiQ' = uiQ \/ \E t \in {"sstvFailed", "keyReq", "disconnected", "fault", "accepted"},
                       g \in 0 .. ui.gen, x \in BOOLEAN : uiQ' = Append(uiQ, Msg(t, g, x))
  BY DEF IoStep, IoIdles, IoReleases, IoStops, IoKeys, IoTells
<1>4. \/ auQ' = auQ
      \/ \E t \in {"cancel", "keyed", "accepted"}, g \in 0 .. ui.gen, x \in BOOLEAN :
           auQ' = Append(auQ, Msg(t, g, x))
      \/ IoStops /\ auQ' = Append(auQ, Msg("unkeyed", Head(ioQ).g, FALSE))
  BY DEF IoStep, IoIdles, IoReleases, IoStops, IoKeys, IoTells
<1>5. ASSUME NEW u, NEW g \in Nat
      PROVE  /\ Has(uiQ, The(u, g)) => Has(uiQ', The(u, g))
             /\ u \in {"finished", "prepared"} => /\ Has(uiQ', The(u, g)) => Has(uiQ, The(u, g))
                                                  /\ Once(uiQ, The(u, g)) => Once(uiQ', The(u, g))
  <2>1. ASSUME NEW t \in {"sstvFailed", "keyReq", "disconnected", "fault", "accepted"},
               NEW h \in 0 .. ui.gen, NEW x \in BOOLEAN, uiQ' = Append(uiQ, Msg(t, h, x))
        PROVE  /\ Has(uiQ', The(u, g)) <=> Has(uiQ, The(u, g)) \/ (u = t /\ g = h)
               /\ Once(uiQ, The(u, g)) /\ u # t => Once(uiQ', The(u, g))
    <3>1. t \in CallNames /\ h \in Nat
      BY <1>0 DEF CallNames, UiCall
    <3> QED
      BY <1>0, <2>1, <3>1, ThePost
  <2> QED
    BY <1>3, <2>1
<1>6. ASSUME NEW u, NEW g \in Nat
      PROVE  /\ Has(auQ, The(u, g)) => Has(auQ', The(u, g))
             /\ u \in {"schedule", "prepare", "unkeyed"} =>
                  /\ Has(auQ', The(u, g)) =>
                       Has(auQ, The(u, g)) \/ (u = "unkeyed" /\ IoStops /\ g = Head(ioQ).g)
                  /\ Once(auQ, The(u, g)) /\ u # "unkeyed" => Once(auQ', The(u, g))
  <2>1. ASSUME NEW t \in {"cancel", "keyed", "accepted", "unkeyed"}, NEW h \in Nat, NEW x \in BOOLEAN,
               auQ' = Append(auQ, Msg(t, h, x))
        PROVE  /\ Has(auQ', The(u, g)) <=> Has(auQ, The(u, g)) \/ (u = t /\ g = h)
               /\ Once(auQ, The(u, g)) /\ u # t => Once(auQ', The(u, g))
    <3>1. t \in CallNames
      BY DEF CallNames, AuCall
    <3> QED
      BY <1>0, <2>1, <3>1, ThePost
  <2>2. CASE IoStops /\ auQ' = Append(auQ, Msg("unkeyed", Head(ioQ).g, FALSE))
    <3>1. Head(ioQ).g \in Nat
      BY <1>0, <2>2, Taken DEF IoStops, IoTakesCall
    <3> QED
      BY <2>1, <2>2, <3>1
  <2>3. ASSUME NEW t \in {"cancel", "keyed", "accepted"}, NEW h \in 0 .. ui.gen, NEW x \in BOOLEAN,
               auQ' = Append(auQ, Msg(t, h, x))
        PROVE  /\ Has(auQ', The(u, g)) <=> Has(auQ, The(u, g)) \/ (u = t /\ g = h)
               /\ Once(auQ, The(u, g)) /\ u # t => Once(auQ', The(u, g))
    BY <1>0, <2>1, <2>3
  <2> QED
    BY <1>4, <2>2, <2>3
<1> QED
  BY <1>2, <1>5, <1>6

\* The audio thread takes the head of its queue; what it posts belongs to its transmission.
LEMMA AuCalls ==
  ASSUME TypeOK, AuStep
  PROVE  /\ \A u : \A g \in Nat :
              /\ Has(auQ', The(u, g)) => Has(auQ, The(u, g))
              /\ Once(auQ, The(u, g)) => Once(auQ', The(u, g))
              /\ (AuTakesCall /\ Head(auQ).t = u /\ Head(auQ).g = g) =>
                    Has(auQ, The(u, g)) /\ (Once(auQ, The(u, g)) => ~Has(auQ', The(u, g)))
              /\ Has(ioQ, The(u, g)) => Has(ioQ', The(u, g))
              /\ Has(uiQ, The(u, g)) => Has(uiQ', The(u, g))
              /\ Has(uiQ', The(u, g)) => Has(uiQ, The(u, g)) \/ u \in {"finished", "prepared", "sstvFailed"}
         /\ \A g \in Nat :
              /\ Has(ioQ', The("beginFt8", g)) => Has(ioQ, The("beginFt8", g)) \/ (SlotKeys /\ g = tx.gen)
              /\ Once(ioQ, The("beginFt8", g)) /\ (SlotKeys /\ g = tx.gen => ~Has(ioQ, The("beginFt8", g)))
                   => Once(ioQ', The("beginFt8", g))
              /\ Has(ioQ', The("beginSstv", g)) => Has(ioQ, The("beginSstv", g))
              /\ Once(ioQ, The("beginSstv", g)) => Once(ioQ', The("beginSstv", g))
              /\ Has(ioQ', The("stopSched", g)) =>
                   Has(ioQ, The("stopSched", g)) \/ ((SlotFails \/ SlotGoesOn) /\ tx.phase # "Idle" /\ g = tx.gen)
              /\ SlotFails => Has(ioQ', The("stopSched", tx.gen))
              /\ Has(uiQ', The("finished", g)) =>
                   \/ Has(uiQ, The("finished", g)) \/ ((SlotFails \/ SlotEnds) /\ g = tx.gen)
                   \/ (SlotRefused /\ g = Head(auQ).g)
              /\ Once(uiQ, The("finished", g)) /\ ~Has(uiQ, The("finished", g)) => Once(uiQ', The("finished", g))
              /\ ~SlotFails /\ ~SlotEnds /\ ~SlotRefused /\ Once(uiQ, The("finished", g)) => Once(uiQ', The("finished", g))
              /\ Has(uiQ', The("prepared", g)) =>
                   Has(uiQ, The("prepared", g)) \/ (ImagePrepares /\ g = Head(auQ).g)
              /\ Once(uiQ, The("prepared", g)) /\ (ImagePrepares /\ g = Head(auQ).g => ~Has(uiQ, The("prepared", g)))
                   => Once(uiQ', The("prepared", g))
<1>0. /\ uiQ \in Seq(Calls) /\ ioQ \in Seq(Calls) /\ auQ \in Seq(Calls)
      /\ tx.gen \in Nat /\ au.gen \in Nat /\ (auQ # <<>> => Head(auQ).g \in Nat)
  BY Queues, TxFields, AuFields, Taken DEF TypeOK
<1>1. auQ' = auQ \/ AuTakesCall
  BY DEF AuStep, SlotFails, SlotEnds, SlotRefused, SlotWaits, SlotKeys, SlotGoesOn,
     ImagePrepares, ImageGoesOn, ImageStops, MicTurns, MicSpeaks
<1>2. ASSUME NEW u, NEW g \in Nat
      PROVE  /\ Has(auQ', The(u, g)) => Has(auQ, The(u, g))
             /\ Once(auQ, The(u, g)) => Once(auQ', The(u, g))
             /\ (AuTakesCall /\ Head(auQ).t = u /\ Head(auQ).g = g) =>
                   Has(auQ, The(u, g)) /\ (Once(auQ, The(u, g)) => ~Has(auQ', The(u, g)))
  <2>1. CASE AuTakesCall
    BY <1>0, <2>1, TakeCalls DEF AuTakesCall
  <2> QED
    BY <1>1, <2>1
<1>3. \/ ioQ' = ioQ
      \/ \E x \in BOOLEAN : ioQ' = Append(ioQ, Msg("audio", tx.gen, x)) \/ ioQ' = Append(ioQ, Msg("audio", au.gen, x))
      \/ ioQ' = Append(ioQ, Msg("mic", 0, FALSE))
      \/ SlotKeys /\ ioQ' = Append(ioQ, Msg("beginFt8", tx.gen, FALSE))
      \/ /\ (SlotFails \/ SlotGoesOn) /\ tx.phase # "Idle"
         /\ \E x \in BOOLEAN : ioQ' = Append(ioQ, Msg("stopSched", tx.gen, x))
  BY DEF AuStep, SlotFails, SlotEnds, SlotRefused, SlotWaits, SlotKeys, SlotGoesOn,
     ImagePrepares, ImageGoesOn, ImageStops, MicTurns, MicSpeaks
<1>4. \/ uiQ' = uiQ
      \/ uiQ' = Append(uiQ, Msg("sstvFailed", tx.gen, FALSE)) \/ uiQ' = Append(uiQ, Msg("sstvFailed", au.gen, FALSE))
      \/ (SlotFails \/ SlotEnds) /\ \E x \in BOOLEAN : uiQ' = Append(uiQ, Msg("finished", tx.gen, x))
      \/ SlotRefused /\ uiQ' = Append(uiQ, Msg("finished", Head(auQ).g, FALSE))
      \/ ImagePrepares /\ \E x \in BOOLEAN : uiQ' = Append(uiQ, Msg("prepared", Head(auQ).g, x))
  BY DEF AuStep, SlotFails, SlotEnds, SlotRefused, SlotWaits, SlotKeys, SlotGoesOn,
     ImagePrepares, ImageGoesOn, ImageStops, MicTurns, MicSpeaks
<1>5. ASSUME NEW u, NEW g \in Nat
      PROVE  /\ Has(ioQ, The(u, g)) => Has(ioQ', The(u, g))
             /\ Has(ioQ', The(u, g)) =>
                  \/ Has(ioQ, The(u, g)) \/ u \in {"audio", "mic"}
                  \/ (u = "beginFt8" /\ SlotKeys /\ g = tx.gen)
                  \/ (u = "stopSched" /\ (SlotFails \/ SlotGoesOn) /\ tx.phase # "Idle" /\ g = tx.gen)
             /\ /\ Once(ioQ, The(u, g)) /\ u \in {"beginFt8", "beginSstv"}
                /\ (u = "beginFt8" /\ SlotKeys /\ g = tx.gen => ~Has(ioQ, The(u, g)))
                => Once(ioQ', The(u, g))
  <2>1. ASSUME NEW t \in {"audio", "mic", "beginFt8", "stopSched"}, NEW h \in Nat, NEW x \in BOOLEAN,
               ioQ' = Append(ioQ, Msg(t, h, x))
        PROVE  /\ Has(ioQ', The(u, g)) <=> Has(ioQ, The(u, g)) \/ (u = t /\ g = h)
               /\ Once(ioQ, The(u, g)) /\ (u = t /\ g = h => ~Has(ioQ, The(u, g))) => Once(ioQ', The(u, g))
    <3>1. t \in CallNames
      BY DEF CallNames, IoCall
    <3> QED
      BY <1>0, <2>1, <3>1, ThePost
  <2> QED
    BY <1>0, <1>3, <2>1
<1>6. ASSUME NEW u, NEW g \in Nat
      PROVE  /\ Has(uiQ, The(u, g)) => Has(uiQ', The(u, g))
             /\ Has(uiQ', The(u, g)) =>
                  \/ Has(uiQ, The(u, g)) \/ u = "sstvFailed"
                  \/ (u = "finished" /\ (SlotFails \/ SlotEnds) /\ g = tx.gen)
                  \/ (u = "finished" /\ SlotRefused /\ g = Head(auQ).g)
                  \/ (u = "prepared" /\ ImagePrepares /\ g = Head(auQ).g)
             /\ Once(uiQ, The(u, g)) /\ u # "sstvFailed" /\ ~Has(uiQ, The(u, g)) => Once(uiQ', The(u, g))
             /\ Once(uiQ, The(u, g)) /\ u = "finished" /\ ~SlotFails /\ ~SlotEnds /\ ~SlotRefused => Once(uiQ', The(u, g))
             /\ Once(uiQ, The(u, g)) /\ u = "prepared" /\ ~(ImagePrepares /\ g = Head(auQ).g) => Once(uiQ', The(u, g))
  <2>1. ASSUME NEW t \in {"sstvFailed", "finished", "prepared"}, NEW h \in Nat, NEW x \in BOOLEAN,
               uiQ' = Append(uiQ, Msg(t, h, x))
        PROVE  /\ Has(uiQ', The(u, g)) <=> Has(uiQ, The(u, g)) \/ (u = t /\ g = h)
               /\ Once(uiQ, The(u, g)) /\ (u = t /\ g = h => ~Has(uiQ, The(u, g))) => Once(uiQ', The(u, g))
    <3>1. t \in CallNames
      BY DEF CallNames, UiCall
    <3> QED
      BY <1>0, <2>1, <3>1, ThePost
  <2>2. SlotRefused \/ ImagePrepares => Head(auQ).g \in Nat
    BY <1>0 DEF SlotRefused, ImagePrepares, AuTakesCall
  <2> QED
    BY <1>0, <1>4, <2>1, <2>2
<1>7. SlotFails => Has(ioQ', The("stopSched", tx.gen))
  <2>1. "stopSched" \in CallNames
    BY DEF CallNames, IoCall
  <2>2. SlotFails => Posts(ioQ, ioQ', "stopSched", tx.gen)
    BY DEF SlotFails, Posts
  <2> QED
    BY <1>0, <2>1, <2>2, PostCalls
<1> QED
  BY <1>2, <1>5, <1>6, <1>7

-----------------------------------------------------------------------------
(***************************************************************************)
(* The invariant is inductive: every part of it is kept by every step of   *)
(* the three threads.  The theorems that follow from it.                   *)
(***************************************************************************)
\* A class of calls does not change with the state.
LEMMA Constants ==
  /\ \A u, g : The(u, g)' = The(u, g)
  /\ \A g : Last(g)' = Last(g)
  BY DEF The, Last

(* What the lemmas about UiNext, IoNext and AuNext have shown of a step.     *)
UiMoves == UiStep /\ SameLease /\ UNCHANGED <<io, tx>>
IoMoves == IoStep /\ UNCHANGED <<ui, tx, au>> /\ \A g \in Nat : g # 0 /\ Leaving(g)' => Leaving(g)
AuMoves == AuStep /\ SameLease /\ UNCHANGED <<ui, io>>

\* The slot on the screen and the right to transmit change together.
LEMMA UiSlot ==
  ASSUME UiStep
  PROVE  \/ ShowsFt8 \/ FinishesSlot
         \/ ui'.ft8 = ui.ft8 /\ ctl'.sched \in {ctl.sched, 0}
  BY DEF UiStep, ShowsSstv, Talks, FallsSilent, HaltsSlot, StopsImage,
     KeysImage, DropsImage, PlaysImage, DrainsImage, FinishesImage, LosesLink, UiIdles,
     SameGens, SameScreen

\* A generation not yet counted is in no queue.
LEMMA NotYet ==
  ASSUME TypeOK, KnownCalls
  PROVE  /\ ui.gen \in Nat /\ ui.gen + 1 \in Nat /\ ui.gen + 1 # 0
         /\ \A u : /\ ~Has(uiQ, The(u, ui.gen + 1)) /\ ~Has(ioQ, The(u, ui.gen + 1))
                   /\ ~Has(auQ, The(u, ui.gen + 1))
<1>1. ui.gen \in Nat
  BY UiFields DEF TypeOK
<1>2. ui.gen + 1 \in Nat /\ ui.gen + 1 # 0 /\ ui.gen + 1 > ui.gen /\ ui.gen <= ui.gen
  BY <1>1
<1> QED
  BY <1>1, <1>2, Queues, KnownMore DEF KnownCalls

-----------------------------------------------------------------------------
(* SlotChain.                                                                *)
LEMMA SlotChainUi ==
  ASSUME TypeOK, KnownCalls, SlotChain, SlotEnd, UiMoves
  PROVE  SlotChain'
<1>0. /\ ui.gen \in Nat /\ ui.gen + 1 \in Nat /\ ui.gen + 1 # 0 /\ ui.ft8 \in Nat
      /\ uiQ \in Seq(Calls) /\ au \in AuType
  BY Queues, UiFields, NotYet DEF TypeOK
<1>1. FinishesSlot => tx.phase = "Idle" /\ ~Has(auQ, The("schedule", ui.ft8))
  BY <1>0, TheTake DEF FinishesSlot, UiTakesCall, SlotEnd
<1>2. ShowsFt8 => ui.ft8 = 0
  BY DEF ShowsFt8
<1>3. tx' = tx /\ au'.enc = au.enc
  BY <1>0 DEF UiMoves, UiStep, ShowsFt8, ShowsSstv, Talks, FallsSilent, HaltsSlot, StopsImage,
     FinishesSlot, KeysImage, DropsImage, PlaysImage, DrainsImage, FinishesImage, LosesLink,
     UiIdles, AuType
<1>4. ctl'.sched \in {0, ui'.ft8}
  BY UiSlot DEF UiMoves, SlotChain, ShowsFt8, FinishesSlot
<1>5. tx'.phase # "Idle" => tx'.gen # 0 /\ tx'.gen = ui'.ft8
  BY <1>1, <1>2, <1>3, UiSlot DEF UiMoves, SlotChain
<1>6. ASSUME NEW g \in Nat, Has(auQ', The("schedule", g))
      PROVE  g # 0 /\ g = ui'.ft8 /\ Once(auQ', The("schedule", g)) /\ tx'.phase = "Idle"
  <2>1. CASE Has(auQ, The("schedule", g))
    <3>1. g # 0 /\ g = ui.ft8 /\ Once(auQ, The("schedule", g)) /\ tx.phase = "Idle"
      BY <2>1 DEF SlotChain
    <3>2. g = ui'.ft8
      BY <1>1, <1>2, <2>1, <3>1, UiSlot DEF UiMoves
    <3>3. Once(auQ', The("schedule", g))
      BY <1>2, <3>1, UiCalls DEF UiMoves
    <3> QED
      BY <1>3, <3>1, <3>2, <3>3
  <2>2. CASE ~Has(auQ, The("schedule", g))
    <3>1. ShowsFt8 /\ g = ui.gen + 1
      BY <1>6, <2>2, UiCalls DEF UiMoves
    <3>2. g # 0 /\ g = ui'.ft8
      BY <1>0, <3>1 DEF ShowsFt8
    <3>3. Once(auQ, The("schedule", g))
      BY <2>2 DEF Has, Once
    <3>4. Once(auQ', The("schedule", g))
      BY <2>2, <3>3, UiCalls DEF UiMoves
    <3>5. tx.phase = "Idle"
      BY <1>2, <3>1 DEF SlotChain
    <3> QED
      BY <1>3, <3>2, <3>4, <3>5
  <2> QED
    BY <2>1, <2>2
<1> QED
  BY <1>3, <1>4, <1>5, <1>6, Constants DEF SlotChain

\* The I/O thread leaves the slot where it is.
LEMMA SlotChainIo ==
  ASSUME TypeOK, SlotChain, IoMoves
  PROVE  SlotChain'
<1>1. ctl'.sched \in {ctl.sched, 0}
  BY DEF IoMoves, IoStep, IoIdles, IoReleases, IoStops, IoKeys
<1>2. ui' = ui /\ tx' = tx /\ au' = au
  BY DEF IoMoves
<1>3. \A g \in Nat : /\ Has(auQ', The("schedule", g)) => Has(auQ, The("schedule", g))
                     /\ Once(auQ, The("schedule", g)) => Once(auQ', The("schedule", g))
  BY IoCalls DEF IoMoves
<1> QED
  BY <1>1, <1>2, <1>3, Constants DEF SlotChain

\* The audio thread hands the slot from its schedule call on to its finished signal.
LEMMA SlotChainAu ==
  ASSUME TypeOK, SlotChain, AuMoves
  PROVE  SlotChain'
<1>0. auQ \in Seq(Calls) /\ (auQ # <<>> => Head(auQ).g \in Nat)
  BY Queues, Taken
<1>1. ctl'.sched \in {ctl.sched, 0} /\ ui' = ui
  BY DEF AuMoves, AuStep, SlotFails, SlotEnds, SlotRefused, SlotWaits, SlotKeys, SlotGoesOn,
     ImagePrepares, ImageGoesOn, ImageStops, MicTurns, MicSpeaks, SameRights
<1>2. \A g \in Nat : /\ Has(auQ', The("schedule", g)) => Has(auQ, The("schedule", g))
                     /\ Once(auQ, The("schedule", g)) => Once(auQ', The("schedule", g))
  BY AuCalls DEF AuMoves
<1>3. CASE SlotWaits
  <2>1. /\ auQ # <<>> /\ AuTakesCall /\ Head(auQ).t = "schedule" /\ tx'.gen = Head(auQ).g
        /\ tx'.phase = "Waiting" /\ au' = au /\ tx.phase = "Idle"
    BY <1>3 DEF SlotWaits, AuTakesCall
  <2>2. Has(auQ, The("schedule", tx'.gen)) /\ tx'.gen \in Nat
    BY <1>0, <2>1, AuCalls DEF AuMoves
  <2>3. tx'.gen # 0 /\ tx'.gen = ui.ft8 /\ Once(auQ, The("schedule", tx'.gen))
    BY <2>2 DEF SlotChain
  <2>4. ~Has(auQ', The("schedule", tx'.gen))
    BY <1>0, <2>1, <2>2, <2>3, AuCalls DEF AuMoves
  <2>5. au'.enc = 0
    BY <2>1 DEF SlotChain
  <2>6. \A g \in Nat : ~Has(auQ', The("schedule", g))
    BY <1>2, <2>3, <2>4 DEF SlotChain
  <2> QED
    BY <1>1, <2>1, <2>3, <2>5, <2>6, Constants DEF SlotChain
<1>4. CASE ~SlotWaits
  <2>1. /\ tx'.phase # "Idle" => tx.phase # "Idle" /\ tx'.gen = tx.gen
        /\ tx'.closing => tx'.phase # "Idle"
        /\ au'.enc # 0 => au'.enc = tx'.gen /\ tx'.phase # "Idle"
    BY <1>4 DEF AuMoves, AuStep, SlotFails, SlotEnds, SlotRefused, SlotKeys, SlotGoesOn,
     ImagePrepares, ImageGoesOn, ImageStops, MicTurns, MicSpeaks, SlotChain
  <2> QED
    BY <1>1, <1>2, <2>1, Constants DEF SlotChain
<1> QED
  BY <1>3, <1>4

-----------------------------------------------------------------------------
(* SlotEnd.                                                                  *)
LEMMA SlotEndUi ==
  ASSUME TypeOK, KnownCalls, SlotEnd, UiMoves
  PROVE  SlotEnd'
<1>0. /\ ui.gen \in Nat /\ ui.gen + 1 \in Nat /\ ui.gen + 1 # 0 /\ ui.ft8 \in Nat
      /\ uiQ \in Seq(Calls)
  BY Queues, UiFields, NotYet DEF TypeOK
<1>1. tx' = tx /\ line'.lease = line.lease /\ line'.spent = line.spent
  BY DEF UiMoves, SameLease
<1>2. ShowsFt8 => ui.ft8 = 0
  BY DEF ShowsFt8
<1>3. ASSUME NEW g \in Nat, Has(uiQ', The("finished", g))
      PROVE  /\ g # 0 /\ g = ui'.ft8 /\ g # ctl'.sched
             /\ tx'.phase = "Idle" /\ ~Has(auQ', The("schedule", g)) /\ Once(uiQ', The("finished", g))
             /\ line'.lease = g => Has(ioQ', The("stopSched", g))
  <2>1. Has(uiQ, The("finished", g))
    BY <1>3, UiCalls DEF UiMoves
  <2>2. /\ g # 0 /\ g = ui.ft8 /\ g # ctl.sched
        /\ tx.phase = "Idle" /\ ~Has(auQ, The("schedule", g)) /\ Once(uiQ, The("finished", g))
        /\ line.lease = g => Has(ioQ, The("stopSched", g))
    BY <2>1 DEF SlotEnd
  <2>3. ~ShowsFt8
    BY <1>2, <2>2
  <2>4. ~FinishesSlot
    <3>1. ASSUME FinishesSlot PROVE ~Has(uiQ', The("finished", g))
      BY <1>0, <2>2, <3>1, TakeCalls DEF FinishesSlot, UiTakesCall
    <3> QED
      BY <1>3, <3>1
  <2>5. ui'.ft8 = ui.ft8 /\ ctl'.sched \in {ctl.sched, 0}
    BY <2>3, <2>4, UiSlot DEF UiMoves
  <2>6. /\ ~Has(auQ', The("schedule", g)) /\ Once(uiQ', The("finished", g))
        /\ line.lease = g => Has(ioQ', The("stopSched", g))
    BY <2>2, <2>3, UiCalls DEF UiMoves
  <2> QED
    BY <1>1, <2>2, <2>5, <2>6
<1>4. ASSUME NEW g \in Nat, Has(auQ', The("unkeyed", g))
      PROVE  g # 0 /\ g # ctl'.sched /\ g # line'.lease /\ g \in line'.spent
  <2>1. Has(auQ, The("unkeyed", g))
    BY <1>4, UiCalls DEF UiMoves
  <2>2. g # 0 /\ g # ctl.sched /\ g # line.lease /\ g \in line.spent /\ g # ui.gen + 1
    BY <2>1, NotYet DEF SlotEnd
  <2>3. g # ctl'.sched
    BY <2>2, UiSlot DEF UiMoves, ShowsFt8, FinishesSlot
  <2> QED
    BY <1>1, <2>2, <2>3
<1>5. ASSUME NEW g \in Nat, Has(ioQ', The("stopSched", g)) PROVE g # 0
  BY <1>5, UiCalls DEF UiMoves, SlotEnd, HaltsSlot
<1> QED
  BY <1>3, <1>4, <1>5, Constants DEF SlotEnd

\* A finished slot is not keyed again by what the I/O thread still holds.
LEMMA SlotEndIo ==
  ASSUME TypeOK, SlotEnd, SstvToken, IoMoves
  PROVE  SlotEnd'
<1>0. ioQ \in Seq(Calls) /\ (ioQ # <<>> => Head(ioQ).g \in Nat)
  BY Queues, Taken
<1>1. ui' = ui /\ tx' = tx /\ ctl'.sched \in {ctl.sched, 0} /\ line.spent \subseteq line'.spent
  BY DEF IoMoves, IoStep, IoIdles, IoReleases, IoStops, IoKeys, SameLease
<1>2. IoKeys => \/ line'.lease = ctl.sched /\ line'.lease # 0
                \/ Unborn(line'.lease)
  <2>1. ASSUME IoKeys, Head(ioQ).t = "beginSstv" PROVE Unborn(Head(ioQ).g)
    <3>1. Has(ioQ, The("beginSstv", Head(ioQ).g)) /\ Head(ioQ).g \in Nat
      BY <1>0, <2>1, IoCalls DEF IoKeys, IoTakesCall, IoMoves
    <3> QED
      BY <3>1 DEF SstvToken
  <2> QED
    BY <2>1 DEF IoKeys
<1>3. ASSUME NEW g \in Nat, Has(uiQ', The("finished", g))
      PROVE  /\ g # 0 /\ g = ui'.ft8 /\ g # ctl'.sched
             /\ tx'.phase = "Idle" /\ ~Has(auQ', The("schedule", g)) /\ Once(uiQ', The("finished", g))
             /\ line'.lease = g => Has(ioQ', The("stopSched", g))
  <2>1. Has(uiQ, The("finished", g))
    BY <1>3, IoCalls DEF IoMoves
  <2>2. /\ g # 0 /\ g = ui.ft8 /\ g # ctl.sched
        /\ tx.phase = "Idle" /\ ~Has(auQ, The("schedule", g)) /\ Once(uiQ, The("finished", g))
        /\ line.lease = g => Has(ioQ, The("stopSched", g))
    BY <2>1 DEF SlotEnd
  <2>3. ~Has(auQ', The("schedule", g)) /\ Once(uiQ', The("finished", g))
    BY <2>2, IoCalls DEF IoMoves
  <2>4. ASSUME line'.lease = g PROVE Has(ioQ', The("stopSched", g))
    <3>1. ~IoKeys
      BY <1>2, <2>2, <2>4 DEF Unborn
    <3>2. line.lease = g /\ ~(IoTakesCall /\ Head(ioQ).t = "stopSched" /\ Head(ioQ).g = g)
      <4>1. IoIdles \/ IoStops
        BY <2>2, <2>4, <3>1 DEF IoMoves, IoStep, IoReleases
      <4>2. CASE IoIdles
        BY <2>4, <4>2 DEF IoIdles, SameLease, IoTakesCall
      <4>3. CASE IoStops
        BY <2>2, <2>4, <4>3 DEF IoStops
      <4> QED
        BY <4>1, <4>2, <4>3
    <3> QED
      BY <2>2, <3>2, IoCalls DEF IoMoves
  <2> QED
    BY <1>1, <2>2, <2>3, <2>4
<1>4. ASSUME NEW g \in Nat, Has(auQ', The("unkeyed", g))
      PROVE  g # 0 /\ g # ctl'.sched /\ g # line'.lease /\ g \in line'.spent
  <2>1. CASE Has(auQ, The("unkeyed", g))
    <3>1. g # 0 /\ g # ctl.sched /\ g # line.lease /\ g \in line.spent
      BY <2>1 DEF SlotEnd
    <3>2. g # line'.lease
      BY <1>2, <3>1 DEF IoMoves, IoStep, IoIdles, IoReleases, IoStops, SameLease, Unborn
    <3> QED
      BY <1>1, <3>1, <3>2
  <2>2. CASE ~Has(auQ, The("unkeyed", g))
    <3>1. IoStops /\ g = Head(ioQ).g
      BY <1>4, <2>2, IoCalls DEF IoMoves
    <3>2. Has(ioQ, The("stopSched", g))
      BY <3>1, IoCalls DEF IoMoves, IoStops
    <3> QED
      BY <3>1, <3>2 DEF SlotEnd, IoStops
  <2> QED
    BY <2>1, <2>2
<1>5. ASSUME NEW g \in Nat, Has(ioQ', The("stopSched", g)) PROVE g # 0
  BY <1>5, IoCalls DEF IoMoves, SlotEnd
<1> QED
  BY <1>3, <1>4, <1>5, Constants DEF SlotEnd

\* The audio thread posts the end of a slot together with its finished signal.
LEMMA SlotEndAu ==
  ASSUME TypeOK, SlotChain, SlotEnd, Ft8Token, AuMoves
  PROVE  SlotEnd'
<1>0. auQ \in Seq(Calls) /\ (auQ # <<>> => Head(auQ).g \in Nat) /\ tx.gen \in Nat
  BY Queues, Taken, TxFields DEF TypeOK
<1>1. ui' = ui /\ line'.lease = line.lease /\ line'.spent = line.spent /\ ctl'.sched \in {ctl.sched, 0}
  BY DEF AuMoves, AuStep, SlotFails, SlotEnds, SlotRefused, SlotWaits, SlotKeys, SlotGoesOn,
     ImagePrepares, ImageGoesOn, ImageStops, MicTurns, MicSpeaks, SameRights, SameLease
<1>2. AuTakesCall => Has(auQ, The(Head(auQ).t, Head(auQ).g)) /\ Head(auQ).g \in Nat
  BY <1>0, AuCalls DEF AuMoves, AuTakesCall
<1>3. ASSUME NEW g \in Nat, Has(uiQ', The("finished", g))
      PROVE  /\ g # 0 /\ g = ui'.ft8 /\ g # ctl'.sched
             /\ tx'.phase = "Idle" /\ ~Has(auQ', The("schedule", g)) /\ Once(uiQ', The("finished", g))
             /\ line'.lease = g => Has(ioQ', The("stopSched", g))
  <2>1. CASE Has(uiQ, The("finished", g))
    <3>1. /\ g # 0 /\ g = ui.ft8 /\ g # ctl.sched
          /\ tx.phase = "Idle" /\ ~Has(auQ, The("schedule", g)) /\ Once(uiQ, The("finished", g))
          /\ line.lease = g => Has(ioQ, The("stopSched", g))
      BY <2>1 DEF SlotEnd
    <3>2. ~SlotFails /\ ~SlotEnds
      BY <3>1 DEF SlotFails, SlotEnds
    <3>3. ~SlotRefused /\ ~SlotWaits
      BY <1>2, <3>1 DEF SlotRefused, SlotWaits, SlotChain
    <3>4. tx'.phase = "Idle"
      BY <3>1, <3>2, <3>3 DEF AuMoves, AuStep, SlotKeys, SlotGoesOn,
         ImagePrepares, ImageGoesOn, ImageStops, MicTurns, MicSpeaks
    <3>5. ~Has(auQ', The("schedule", g)) /\ Once(uiQ', The("finished", g))
      BY <3>1, <3>2, <3>3, AuCalls DEF AuMoves
    <3>6. line.lease = g => Has(ioQ', The("stopSched", g))
      BY <3>1, AuCalls DEF AuMoves
    <3> QED
      BY <1>1, <3>1, <3>4, <3>5, <3>6
  <2>2. CASE ~Has(uiQ, The("finished", g))
    <3>1. Once(uiQ', The("finished", g))
      <4>1. Once(uiQ, The("finished", g))
        BY <2>2 DEF Has, Once
      <4> QED
        BY <2>2, <4>1, AuCalls DEF AuMoves
    <3>2. CASE SlotFails /\ g = tx.gen
      <4>1. g # 0 /\ g = ui.ft8 /\ ~Has(auQ, The("schedule", g)) /\ tx'.phase = "Idle"
        BY <3>2 DEF SlotFails, SlotChain
      <4>2. g # ctl'.sched
        BY <3>2, <4>1 DEF SlotFails
      <4>3. Has(ioQ', The("stopSched", g)) /\ ~Has(auQ', The("schedule", g))
        BY <3>2, <4>1, AuCalls DEF AuMoves
      <4> QED
        BY <1>1, <3>1, <4>1, <4>2, <4>3
    <3>3. CASE SlotEnds /\ g = tx.gen
      <4>1. g # 0 /\ g = ui.ft8 /\ ~Has(auQ, The("schedule", g)) /\ tx'.phase = "Idle"
        BY <3>3 DEF SlotEnds, SlotChain
      <4>2. g # ctl.sched /\ g # line.lease
        BY <1>2, <3>3 DEF SlotEnds, SlotEnd
      <4>3. ~Has(auQ', The("schedule", g))
        BY <4>1, AuCalls DEF AuMoves
      <4> QED
        BY <1>1, <3>1, <4>1, <4>2, <4>3
    <3>4. CASE SlotRefused /\ g = Head(auQ).g
      <4>1. AuTakesCall /\ Head(auQ).t = "schedule" /\ g # ctl.sched /\ tx' = tx
        BY <3>4 DEF SlotRefused
      <4>2. Has(auQ, The("schedule", g))
        BY <1>2, <3>4, <4>1
      <4>3. g # 0 /\ g = ui.ft8 /\ Once(auQ, The("schedule", g)) /\ tx.phase = "Idle" /\ g # line.lease
        BY <4>2 DEF SlotChain, Ft8Token, Fresh
      <4>4. ~Has(auQ', The("schedule", g))
        BY <3>4, <4>1, <4>3, AuCalls DEF AuMoves
      <4> QED
        BY <1>1, <3>1, <4>1, <4>3, <4>4
    <3> QED
      BY <1>3, <2>2, <3>2, <3>3, <3>4, AuCalls DEF AuMoves
  <2> QED
    BY <2>1, <2>2
<1>4. ASSUME NEW g \in Nat, Has(auQ', The("unkeyed", g))
      PROVE  g # 0 /\ g # ctl'.sched /\ g # line'.lease /\ g \in line'.spent
  <2>1. Has(auQ, The("unkeyed", g))
    BY <1>4, AuCalls DEF AuMoves
  <2> QED
    BY <1>1, <2>1 DEF SlotEnd
<1>5. ASSUME NEW g \in Nat, Has(ioQ', The("stopSched", g)) PROVE g # 0
  BY <1>5, AuCalls DEF AuMoves, SlotEnd, SlotChain
<1> QED
  BY <1>3, <1>4, <1>5, Constants DEF SlotEnd

-----------------------------------------------------------------------------
(* Ft8Token.                                                                 *)
LEMMA Ft8TokenUi ==
  ASSUME TypeOK, KnownFields, KnownCalls, SlotChain, Ft8Token, UiMoves
  PROVE  Ft8Token'
<1>0. /\ ui.gen \in Nat /\ ui.gen + 1 \in Nat /\ ui.gen + 1 # 0
      /\ line.lease \in Nat /\ line.spent \in SUBSET Nat
  BY NotYet DEF TypeOK, LineType, Gen
<1>1. tx' = tx /\ line'.lease = line.lease /\ line'.spent = line.spent
  BY DEF UiMoves, SameLease
<1>2. line.lease # ui.gen + 1 /\ ui.gen + 1 \notin line.spent
  BY <1>0 DEF KnownFields
<1>3. ASSUME NEW g \in Nat, g # 0, Fresh(g) \/ g = ui.gen + 1 PROVE Fresh(g)'
  <2>1. g # line.lease
    BY <1>2, <1>3 DEF Fresh
  <2>2. ASSUME g = ctl'.sched PROVE g \notin line.spent
    <3>1. g = ui.gen + 1 \/ g = ctl.sched
      BY <1>3, <2>2, UiSlot DEF UiMoves, ShowsFt8, FinishesSlot
    <3> QED
      BY <1>2, <1>3, <3>1 DEF Fresh
  <2> QED
    BY <1>1, <2>1, <2>2 DEF Fresh
<1>4. \A g \in Nat : /\ Has(ioQ', The("beginFt8", g)) => Has(ioQ, The("beginFt8", g))
                     /\ Once(ioQ, The("beginFt8", g)) => Once(ioQ', The("beginFt8", g))
                     /\ Has(auQ', The("schedule", g)) => Has(auQ, The("schedule", g)) \/ g = ui.gen + 1
  BY UiCalls DEF UiMoves
<1>5. ASSUME NEW g \in Nat, Has(auQ', The("schedule", g))
      PROVE  Fresh(g)' /\ ~Has(ioQ', The("beginFt8", g))
  <2>1. CASE g = ui.gen + 1
    BY <1>0, <1>3, <1>4, <2>1, NotYet
  <2>2. CASE Has(auQ, The("schedule", g))
    BY <1>3, <1>4, <2>2 DEF Ft8Token, SlotChain
  <2> QED
    BY <1>4, <1>5, <2>1, <2>2
<1>6. ASSUME tx'.phase = "Waiting" PROVE Fresh(tx.gen)' /\ ~Has(ioQ', The("beginFt8", tx.gen))
  <2>1. tx.phase = "Waiting" /\ tx.gen # 0 /\ tx.gen \in Nat
    BY <1>1, <1>6, TxFields DEF SlotChain, TypeOK
  <2> QED
    BY <1>1, <1>3, <1>4, <2>1 DEF Ft8Token
<1>7. ASSUME NEW g \in Nat, Has(ioQ', The("beginFt8", g))
      PROVE  g # 0 /\ Fresh(g)' /\ Once(ioQ', The("beginFt8", g))
  BY <1>3, <1>4, <1>7 DEF Ft8Token
<1> QED
  BY <1>1, <1>5, <1>6, <1>7, Constants DEF Ft8Token

\* Only the keying of a generation ends its freshness.
LEMMA FreshIo ==
  ASSUME IoStep, NEW g \in Nat, g # 0, Fresh(g), ~(IoKeys /\ Head(ioQ).g = g)
  PROVE  Fresh(g)'
<1>1. CASE IoIdles
  BY <1>1 DEF IoIdles, SameLease, Fresh
<1>2. CASE IoReleases
  BY <1>2 DEF IoReleases, Fresh
<1>3. CASE IoStops
  <2>1. /\ line'.lease \in {0, line.lease} /\ line'.spent = line.spent \cup {Head(ioQ).g}
        /\ ctl'.sched = IF ctl.sched = Head(ioQ).g THEN 0 ELSE ctl.sched
    BY <1>3 DEF IoStops
  <2> QED
    BY <2>1 DEF Fresh
<1>4. CASE IoKeys
  BY <1>4 DEF IoKeys, Fresh
<1> QED
  BY <1>1, <1>2, <1>3, <1>4 DEF IoStep

\* The slot the K4 was keyed for is spent: its begin call was the only one.
LEMMA Ft8TokenIo ==
  ASSUME TypeOK, SlotChain, Ft8Token, SstvToken, IoMoves
  PROVE  Ft8Token'
<1>0. ioQ \in Seq(Calls) /\ (ioQ # <<>> => Head(ioQ).g \in Nat)
  BY Queues, Taken
<1>1. ui' = ui /\ tx' = tx /\ IoStep
  BY DEF IoMoves
<1>2. \A g \in Nat : /\ Has(ioQ', The("beginFt8", g)) => Has(ioQ, The("beginFt8", g))
                     /\ Once(ioQ, The("beginFt8", g)) => Once(ioQ', The("beginFt8", g))
                     /\ Has(auQ', The("schedule", g)) => Has(auQ, The("schedule", g))
  BY <1>1, IoCalls
<1>3. ASSUME IoKeys PROVE \/ Has(ioQ, The("beginFt8", Head(ioQ).g))
                          \/ Unborn(Head(ioQ).g)
  <2>1. /\ Head(ioQ).g \in Nat
        /\ Has(ioQ, The("beginFt8", Head(ioQ).g)) \/ Has(ioQ, The("beginSstv", Head(ioQ).g))
    BY <1>0, <1>1, <1>3, IoCalls DEF IoKeys, IoTakesCall
  <2> QED
    BY <2>1 DEF SstvToken
<1>4. ASSUME NEW g \in Nat, Has(auQ', The("schedule", g))
      PROVE  Fresh(g)' /\ ~Has(ioQ', The("beginFt8", g))
  <2>1. /\ g # 0 /\ g = ui.ft8 /\ Fresh(g) /\ ~Has(ioQ, The("beginFt8", g))
    BY <1>2, <1>4 DEF SlotChain, Ft8Token
  <2>2. ~(IoKeys /\ Head(ioQ).g = g)
    BY <1>3, <2>1 DEF Unborn
  <2> QED
    BY <1>1, <1>2, <2>1, <2>2, FreshIo
<1>5. ASSUME tx.phase = "Waiting" PROVE Fresh(tx.gen)' /\ ~Has(ioQ', The("beginFt8", tx.gen))
  <2>1. tx.gen # 0 /\ tx.gen \in Nat /\ Fresh(tx.gen) /\ ~Has(ioQ, The("beginFt8", tx.gen))
    BY <1>5, TxFields DEF SlotChain, Ft8Token, TypeOK
  <2>2. ~(IoKeys /\ Head(ioQ).g = tx.gen)
    BY <1>3, <2>1 DEF Unborn
  <2> QED
    BY <1>1, <1>2, <2>1, <2>2, FreshIo
<1>6. ASSUME NEW g \in Nat, Has(ioQ', The("beginFt8", g))
      PROVE  g # 0 /\ Fresh(g)' /\ Once(ioQ', The("beginFt8", g))
  <2>1. Has(ioQ, The("beginFt8", g)) /\ g # 0 /\ Fresh(g) /\ Once(ioQ, The("beginFt8", g))
    BY <1>2, <1>6 DEF Ft8Token
  <2>2. ASSUME IoKeys, Head(ioQ).g = g PROVE FALSE
    <3>1. ~Unborn(g)
      BY <2>1 DEF Unborn
    <3>2. Head(ioQ).t = "beginFt8"
      <4>1. ASSUME Head(ioQ).t = "beginSstv" PROVE FALSE
        <5>1. Has(ioQ, The("beginSstv", g))
          BY <1>1, <2>2, <4>1, IoCalls DEF IoKeys
        <5> QED
          BY <3>1, <5>1 DEF SstvToken
      <4> QED
        BY <2>2, <4>1 DEF IoKeys
    <3> QED
      BY <1>1, <1>6, <2>1, <2>2, <3>2, IoCalls DEF IoKeys
  <2> QED
    BY <1>1, <1>2, <2>1, <2>2, FreshIo
<1> QED
  BY <1>1, <1>4, <1>5, <1>6, Constants DEF Ft8Token

\* The audio thread asks to key the K4 when the slot leaves Waiting, once.
LEMMA Ft8TokenAu ==
  ASSUME TypeOK, SlotChain, Ft8Token, AuMoves
  PROVE  Ft8Token'
<1>0. auQ \in Seq(Calls) /\ (auQ # <<>> => Head(auQ).g \in Nat) /\ tx.gen \in Nat /\ AuStep
  BY Queues, Taken, TxFields DEF TypeOK, AuMoves
<1>1. ui' = ui /\ line'.lease = line.lease /\ line'.spent = line.spent /\ ctl'.sched \in {ctl.sched, 0}
  BY DEF AuMoves, AuStep, SlotFails, SlotEnds, SlotRefused, SlotWaits, SlotKeys, SlotGoesOn,
     ImagePrepares, ImageGoesOn, ImageStops, MicTurns, MicSpeaks, SameRights, SameLease
<1>2. \A g \in Nat : g # 0 /\ Fresh(g) => Fresh(g)'
  BY <1>1 DEF Fresh
<1>3. \A g \in Nat : Has(ioQ', The("beginFt8", g)) => Has(ioQ, The("beginFt8", g)) \/ (SlotKeys /\ g = tx.gen)
  BY <1>0, AuCalls
<1>4. ASSUME NEW g \in Nat, Has(auQ', The("schedule", g))
      PROVE  Fresh(g)' /\ ~Has(ioQ', The("beginFt8", g))
  <2>1. Has(auQ, The("schedule", g))
    BY <1>0, <1>4, AuCalls
  <2>2. g # 0 /\ tx.phase = "Idle" /\ Fresh(g) /\ ~Has(ioQ, The("beginFt8", g))
    BY <2>1 DEF SlotChain, Ft8Token
  <2> QED
    BY <1>2, <1>3, <2>2 DEF SlotKeys
<1>5. ASSUME tx'.phase = "Waiting" PROVE Fresh(tx.gen)' /\ ~Has(ioQ', The("beginFt8", tx'.gen))
  <2>1. CASE SlotWaits
    <3>1. Has(auQ, The("schedule", tx'.gen)) /\ tx'.gen \in Nat /\ ioQ' = ioQ
      BY <1>0, <2>1, AuCalls DEF SlotWaits, AuTakesCall
    <3>2. tx'.gen # 0 /\ Fresh(tx'.gen)
      BY <3>1 DEF SlotChain, Ft8Token
    <3>3. ~Has(ioQ, The("beginFt8", tx'.gen))
      BY <3>1 DEF Ft8Token
    <3>4. Fresh(tx.gen)'
      BY <1>1, <3>2 DEF Fresh
    <3> QED
      BY <3>1, <3>3, <3>4
  <2>2. CASE ~SlotWaits
    <3>1. tx.phase = "Waiting" /\ tx'.gen = tx.gen /\ ~SlotKeys
      BY <1>0, <1>5, <2>2 DEF AuStep, SlotFails, SlotEnds, SlotRefused, SlotKeys, SlotGoesOn,
         ImagePrepares, ImageGoesOn, ImageStops, MicTurns, MicSpeaks
    <3>2. tx.gen # 0 /\ Fresh(tx.gen) /\ ~Has(ioQ, The("beginFt8", tx.gen))
      BY <3>1 DEF SlotChain, Ft8Token
    <3>3. Fresh(tx.gen)'
      BY <1>1, <3>1, <3>2 DEF Fresh
    <3> QED
      BY <1>0, <1>3, <3>1, <3>2, <3>3
  <2> QED
    BY <2>1, <2>2
<1>6. ASSUME NEW g \in Nat, Has(ioQ', The("beginFt8", g))
      PROVE  g # 0 /\ Fresh(g)' /\ Once(ioQ', The("beginFt8", g))
  <2>1. CASE Has(ioQ, The("beginFt8", g))
    <3>1. g # 0 /\ Fresh(g) /\ Once(ioQ, The("beginFt8", g))
      BY <2>1 DEF Ft8Token
    <3>2. ~(SlotKeys /\ g = tx.gen)
      BY <2>1 DEF SlotKeys, Ft8Token
    <3> QED
      BY <1>0, <1>2, <3>1, <3>2, AuCalls
  <2>2. CASE ~Has(ioQ, The("beginFt8", g))
    <3>1. SlotKeys /\ g = tx.gen
      BY <1>3, <1>6, <2>2
    <3>2. g # 0 /\ Fresh(g)
      BY <3>1 DEF SlotKeys, SlotChain, Ft8Token
    <3>3. Once(ioQ, The("beginFt8", g))
      BY <2>2 DEF Has, Once
    <3> QED
      BY <1>0, <1>2, <2>2, <3>2, <3>3, AuCalls
  <2> QED
    BY <2>1, <2>2
<1> QED
  BY <1>4, <1>5, <1>6, Constants DEF Ft8Token

-----------------------------------------------------------------------------
(* SstvToken.                                                                *)
LEMMA UnbornUi ==
  ASSUME TypeOK, KnownCalls, UiMoves, NEW g \in Nat, Unborn(g), g # ui.gen + 1
  PROVE  Unborn(g)'
<1>1. tx' = tx /\ line'.lease = line.lease /\ line'.spent = line.spent
  BY DEF UiMoves, SameLease
<1>2. g # ui'.ft8
  BY UiSlot DEF UiMoves, ShowsFt8, FinishesSlot, Unborn
<1>3. ~Has(ioQ', The("stopSched", g)) /\ ~Has(ioQ', The("beginFt8", g))
  BY UiCalls DEF UiMoves, Unborn
<1> QED
  BY <1>1, <1>2, <1>3, Constants DEF Unborn

\* The UI thread asks to key the K4 for an image once, and drops the ready signal.
LEMMA SstvTokenUi ==
  ASSUME TypeOK, KnownFields, KnownCalls, SstvToken, UiMoves
  PROVE  SstvToken'
<1>0. /\ ui.gen \in Nat /\ ui.gen + 1 \in Nat /\ ui.gen + 1 # 0 /\ ui.ft8 \in Nat
      /\ line.lease \in Nat /\ line.spent \in SUBSET Nat /\ tx.gen \in Nat /\ au.gen \in Nat
      /\ uiQ \in Seq(Calls) /\ au \in AuType /\ UiStep
  BY NotYet, UiFields, TxFields, AuFields, Queues DEF TypeOK, LineType, Gen, UiMoves
<1>1. tx' = tx /\ line'.lease = line.lease /\ line'.spent = line.spent
  BY DEF UiMoves, SameLease
<1>2. au'.gen = au.gen
  BY <1>0 DEF UiStep, ShowsFt8, ShowsSstv, Talks, FallsSilent, HaltsSlot, StopsImage,
     FinishesSlot, KeysImage, DropsImage, PlaysImage, DrainsImage, FinishesImage, LosesLink,
     UiIdles, AuType
<1>4. KeysImage => Has(uiQ, The("prepared", Own)) /\ Own \in Nat /\ UiTakesCall
                   /\ Head(uiQ).t = "prepared" /\ Head(uiQ).g = Own
  BY <1>0, TheTake DEF KeysImage, UiTakesCall, Own
<1>5. ASSUME NEW g \in Nat, Has(auQ', The("prepare", g))
      PROVE  /\ Unborn(g)' /\ ~Has(uiQ', The("prepared", g)) /\ ~Has(ioQ', The("beginSstv", g))
             /\ Once(auQ', The("prepare", g)) /\ au'.gen # g
  <2>1. CASE Has(auQ, The("prepare", g))
    <3>1. /\ Unborn(g) /\ ~Has(uiQ, The("prepared", g)) /\ ~Has(ioQ, The("beginSstv", g))
          /\ Once(auQ, The("prepare", g)) /\ au.gen # g
      BY <2>1 DEF SstvToken
    <3>2. g # ui.gen + 1
      BY <2>1, NotYet
    <3>3. Unborn(g)'
      BY <3>1, <3>2, UnbornUi
    <3>4. ~(KeysImage /\ g = Own)
      BY <1>4, <3>1
    <3>5. ~Has(uiQ', The("prepared", g)) /\ ~Has(ioQ', The("beginSstv", g))
      BY <1>0, <3>1, <3>4, UiCalls
    <3>6. Once(auQ', The("prepare", g))
      BY <1>0, <3>1, <3>2, UiCalls
    <3> QED
      BY <1>2, <3>1, <3>3, <3>5, <3>6
  <2>2. CASE ~Has(auQ, The("prepare", g))
    <3>1. ShowsSstv /\ g = ui.gen + 1
      BY <1>0, <1>5, <2>2, UiCalls
    <3>2. /\ g # 0 /\ g \notin line.spent /\ g # line.lease /\ g # tx.gen /\ ui'.ft8 = 0
          /\ au.gen # g /\ ui.ft8 # g
      BY <1>0, <3>1 DEF KnownFields, ShowsSstv
    <3>3. ~KeysImage
      BY <3>1 DEF ShowsSstv, KeysImage
    <3>4. /\ ~Has(ioQ', The("stopSched", g)) /\ ~Has(ioQ', The("beginFt8", g))
          /\ ~Has(uiQ', The("prepared", g)) /\ ~Has(ioQ', The("beginSstv", g))
      BY <1>0, <3>1, <3>2, <3>3, NotYet, UiCalls
    <3>5. Once(auQ, The("prepare", g))
      BY <2>2 DEF Has, Once
    <3>6. Once(auQ', The("prepare", g))
      BY <1>0, <2>2, <3>5, UiCalls
    <3>7. Unborn(g)'
      BY <1>1, <3>2, <3>4, Constants DEF Unborn
    <3> QED
      BY <1>2, <3>2, <3>4, <3>6, <3>7
  <2> QED
    BY <2>1, <2>2
<1>6. ASSUME NEW g \in Nat, Has(uiQ', The("prepared", g))
      PROVE  Unborn(g)' /\ ~Has(ioQ', The("beginSstv", g)) /\ Once(uiQ', The("prepared", g))
  <2>1. Has(uiQ, The("prepared", g))
    BY <1>0, <1>6, UiCalls
  <2>2. /\ Unborn(g) /\ ~Has(ioQ, The("beginSstv", g)) /\ Once(uiQ, The("prepared", g))
        /\ g # ui.gen + 1
    BY <2>1, NotYet DEF SstvToken
  <2>3. ~(KeysImage /\ g = Own)
    <3>1. ASSUME KeysImage, g = Own PROVE ~Has(uiQ', The("prepared", g))
      BY <1>0, <1>4, <2>2, <3>1, TakeCalls DEF UiTakesCall
    <3> QED
      BY <1>6, <3>1
  <2> QED
    BY <1>0, <2>2, <2>3, UiCalls, UnbornUi
<1>7. ASSUME NEW g \in Nat, Has(ioQ', The("beginSstv", g))
      PROVE  Unborn(g)' /\ Once(ioQ', The("beginSstv", g))
  <2>1. CASE Has(ioQ, The("beginSstv", g))
    <3>1. Unborn(g) /\ Once(ioQ, The("beginSstv", g)) /\ g # ui.gen + 1
      BY <2>1, NotYet DEF SstvToken
    <3>2. ~(KeysImage /\ g = Own)
      BY <1>4, <2>1 DEF SstvToken
    <3> QED
      BY <1>0, <3>1, <3>2, UiCalls, UnbornUi
  <2>2. CASE ~Has(ioQ, The("beginSstv", g))
    <3>1. Has(uiQ, The("prepared", g))
      BY <1>0, <1>4, <1>7, <2>2, UiCalls
    <3>2. Unborn(g) /\ g # ui.gen + 1
      BY <3>1, NotYet DEF SstvToken
    <3>3. Once(ioQ, The("beginSstv", g))
      BY <2>2 DEF Has, Once
    <3> QED
      BY <1>0, <2>2, <3>2, <3>3, UiCalls, UnbornUi
  <2> QED
    BY <2>1, <2>2
<1> QED
  BY <1>5, <1>6, <1>7, Constants DEF SstvToken

\* Only the keying of a generation brings it to the line.
LEMMA UnbornIo ==
  ASSUME TypeOK, IoMoves, NEW g \in Nat, Unborn(g),
         ~(IoKeys /\ Head(ioQ).t = "beginSstv" /\ Head(ioQ).g = g)
  PROVE  Unborn(g)'
<1>0. ui' = ui /\ tx' = tx /\ IoStep
  BY DEF IoMoves
<1>1. ~Has(ioQ', The("stopSched", g)) /\ ~Has(ioQ', The("beginFt8", g))
  BY <1>0, IoCalls DEF Unborn
<1>2. IoTakesCall /\ Head(ioQ).t \in {"stopSched", "beginFt8"} => Head(ioQ).g # g
  BY <1>0, IoCalls DEF Unborn
<1>3. g # 0 /\ g # line.lease /\ g \notin line.spent
  BY DEF Unborn
<1>4. g # line'.lease /\ g \notin line'.spent
  <2>1. CASE IoIdles
    BY <1>3, <2>1 DEF IoIdles, SameLease
  <2>2. CASE IoReleases
    BY <1>3, <2>2 DEF IoReleases
  <2>3. CASE IoStops
    BY <1>2, <1>3, <2>3 DEF IoStops
  <2>4. CASE IoKeys
    BY <1>2, <1>3, <2>4 DEF IoKeys
  <2> QED
    BY <1>0, <2>1, <2>2, <2>3, <2>4 DEF IoStep
<1> QED
  BY <1>0, <1>1, <1>3, <1>4, Constants DEF Unborn

\* The begin call of an image the I/O thread took was the only one.
LEMMA SstvTokenIo ==
  ASSUME TypeOK, SstvToken, IoMoves
  PROVE  SstvToken'
<1>0. IoStep /\ au' = au
  BY DEF IoMoves
<1>1. \A g \in Nat : IoTakesCall /\ Head(ioQ).t = "beginSstv" /\ Head(ioQ).g = g =>
         Has(ioQ, The("beginSstv", g)) /\ (Once(ioQ, The("beginSstv", g)) => ~Has(ioQ', The("beginSstv", g)))
  BY <1>0, IoCalls
<1>2. ASSUME NEW g \in Nat, Has(auQ', The("prepare", g))
      PROVE  /\ Unborn(g)' /\ ~Has(uiQ', The("prepared", g)) /\ ~Has(ioQ', The("beginSstv", g))
             /\ Once(auQ', The("prepare", g)) /\ au'.gen # g
  <2>1. Has(auQ, The("prepare", g))
    BY <1>0, <1>2, IoCalls
  <2>2. /\ Unborn(g) /\ ~Has(uiQ, The("prepared", g)) /\ ~Has(ioQ, The("beginSstv", g))
        /\ Once(auQ, The("prepare", g)) /\ au.gen # g
    BY <2>1 DEF SstvToken
  <2>3. Unborn(g)'
    BY <1>1, <2>2, UnbornIo DEF IoKeys
  <2> QED
    BY <1>0, <2>2, <2>3, IoCalls
<1>3. ASSUME NEW g \in Nat, Has(uiQ', The("prepared", g))
      PROVE  Unborn(g)' /\ ~Has(ioQ', The("beginSstv", g)) /\ Once(uiQ', The("prepared", g))
  <2>1. Has(uiQ, The("prepared", g))
    BY <1>0, <1>3, IoCalls
  <2>2. Unborn(g) /\ ~Has(ioQ, The("beginSstv", g)) /\ Once(uiQ, The("prepared", g))
    BY <2>1 DEF SstvToken
  <2>3. Unborn(g)'
    BY <1>1, <2>2, UnbornIo DEF IoKeys
  <2> QED
    BY <1>0, <2>2, <2>3, IoCalls
<1>4. ASSUME NEW g \in Nat, Has(ioQ', The("beginSstv", g))
      PROVE  Unborn(g)' /\ Once(ioQ', The("beginSstv", g))
  <2>1. Has(ioQ, The("beginSstv", g))
    BY <1>0, <1>4, IoCalls
  <2>2. Unborn(g) /\ Once(ioQ, The("beginSstv", g))
    BY <2>1 DEF SstvToken
  <2>3. Unborn(g)'
    BY <1>1, <1>4, <2>2, UnbornIo DEF IoKeys
  <2> QED
    BY <1>0, <2>2, <2>3, IoCalls
<1> QED
  BY <1>2, <1>3, <1>4, Constants DEF SstvToken

\* A generation never asked to be keyed stays so under a step of the audio thread.
LEMMA UnbornAu ==
  ASSUME TypeOK, SlotChain, AuMoves, NEW g \in Nat, Unborn(g)
  PROVE  Unborn(g)'
<1>0. ui' = ui /\ line'.lease = line.lease /\ line'.spent = line.spent /\ AuStep
      /\ (auQ # <<>> => Head(auQ).g \in Nat)
  BY Queues, Taken DEF AuMoves, SameLease
<1>1. ~Has(ioQ', The("stopSched", g)) /\ ~Has(ioQ', The("beginFt8", g))
  BY <1>0, AuCalls DEF Unborn
<1>2. tx'.gen = tx.gen \/ tx'.gen = ui.ft8
  <2>1. ASSUME SlotWaits PROVE tx'.gen = ui.ft8
    <3>1. Has(auQ, The("schedule", Head(auQ).g)) /\ tx'.gen = Head(auQ).g /\ Head(auQ).g \in Nat
      BY <1>0, <2>1, AuCalls DEF SlotWaits, AuTakesCall
    <3> QED
      BY <3>1 DEF SlotChain
  <2> QED
    BY <1>0, <2>1 DEF AuStep, SlotFails, SlotEnds, SlotRefused, SlotKeys, SlotGoesOn,
       ImagePrepares, ImageGoesOn, ImageStops, MicTurns, MicSpeaks
<1> QED
  BY <1>0, <1>1, <1>2, Constants DEF Unborn

\* The audio thread prepares an image once, and signals it ready once.
LEMMA SstvTokenAu ==
  ASSUME TypeOK, SlotChain, SstvToken, AuMoves
  PROVE  SstvToken'
<1>0. AuStep
  BY DEF AuMoves
<1>1. ImagePrepares => /\ Head(auQ).g \in Nat /\ Has(auQ, The("prepare", Head(auQ).g))
                       /\ ~Has(auQ', The("prepare", Head(auQ).g))
  <2>1. ASSUME ImagePrepares PROVE /\ Head(auQ).g \in Nat /\ Has(auQ, The("prepare", Head(auQ).g))
                                   /\ ~Has(auQ', The("prepare", Head(auQ).g))
    <3>1. AuTakesCall /\ Head(auQ).t = "prepare" /\ Head(auQ).g \in Nat
      BY <2>1, Queues, Taken DEF ImagePrepares, AuTakesCall
    <3>2. /\ Has(auQ, The("prepare", Head(auQ).g))
          /\ Once(auQ, The("prepare", Head(auQ).g)) => ~Has(auQ', The("prepare", Head(auQ).g))
      BY <1>0, <3>1, AuCalls
    <3> QED
      BY <3>1, <3>2 DEF SstvToken
  <2> QED
    BY <2>1
<1>2. au'.gen = au.gen \/ (ImagePrepares /\ au'.gen = Head(auQ).g)
  BY <1>0 DEF AuStep, SlotFails, SlotEnds, SlotRefused, SlotWaits, SlotKeys, SlotGoesOn,
     ImagePrepares, ImageGoesOn, ImageStops, MicTurns, MicSpeaks, SameImage
<1>3. ASSUME NEW g \in Nat, Has(auQ', The("prepare", g))
      PROVE  /\ Unborn(g)' /\ ~Has(uiQ', The("prepared", g)) /\ ~Has(ioQ', The("beginSstv", g))
             /\ Once(auQ', The("prepare", g)) /\ au'.gen # g
  <2>1. Has(auQ, The("prepare", g)) /\ ~(ImagePrepares /\ g = Head(auQ).g)
    BY <1>0, <1>1, <1>3, AuCalls
  <2>2. /\ Unborn(g) /\ ~Has(uiQ, The("prepared", g)) /\ ~Has(ioQ, The("beginSstv", g))
        /\ Once(auQ, The("prepare", g)) /\ au.gen # g
    BY <2>1 DEF SstvToken
  <2> QED
    BY <1>0, <1>2, <2>1, <2>2, AuCalls, UnbornAu
<1>4. ASSUME NEW g \in Nat, Has(uiQ', The("prepared", g))
      PROVE  Unborn(g)' /\ ~Has(ioQ', The("beginSstv", g)) /\ Once(uiQ', The("prepared", g))
  <2>1. CASE Has(uiQ, The("prepared", g))
    <3>1. Unborn(g) /\ ~Has(ioQ, The("beginSstv", g)) /\ Once(uiQ, The("prepared", g))
      BY <2>1 DEF SstvToken
    <3>2. ~(ImagePrepares /\ g = Head(auQ).g)
      BY <1>1, <2>1 DEF SstvToken
    <3> QED
      BY <1>0, <3>1, <3>2, AuCalls, UnbornAu
  <2>2. CASE ~Has(uiQ, The("prepared", g))
    <3>1. Has(auQ, The("prepare", g))
      BY <1>0, <1>1, <1>4, <2>2, AuCalls
    <3>2. Unborn(g) /\ ~Has(ioQ, The("beginSstv", g)) /\ Once(uiQ, The("prepared", g))
      BY <2>2, <3>1 DEF SstvToken, Has, Once
    <3> QED
      BY <1>0, <2>2, <3>2, AuCalls, UnbornAu
  <2> QED
    BY <2>1, <2>2
<1>5. ASSUME NEW g \in Nat, Has(ioQ', The("beginSstv", g))
      PROVE  Unborn(g)' /\ Once(ioQ', The("beginSstv", g))
  <2>1. Has(ioQ, The("beginSstv", g))
    BY <1>0, <1>5, AuCalls
  <2> QED
    BY <1>0, <2>1, AuCalls, UnbornAu DEF SstvToken
<1> QED
  BY <1>3, <1>4, <1>5, Constants DEF SstvToken

-----------------------------------------------------------------------------
(* Calls that open nothing and that nothing must come before.                *)
CalmUi(n) == {m \in Calls : m.g <= n /\ m.t # "prepared"}
CalmIo(n) == {m \in Calls : m.g <= n /\ m.t \notin {"beginSstv", "beginFt8", "mic"}}
CalmAu(n) == {m \in Calls : m.g <= n /\ m.t \notin {"schedule", "prepare"} /\ m \notin On}

\* Which calls these are.
LEMMA CalmCalls ==
  ASSUME NEW n \in Nat, NEW g \in Nat, g <= n, NEW x \in BOOLEAN
  PROVE  /\ \A t \in {"finished", "sstvFailed", "keyReq", "disconnected", "fault", "accepted"} :
              Msg(t, g, x) \in CalmUi(n)
         /\ \A t \in {"audio", "stop", "stopSched", "ack", "tx", "rx"} : Msg(t, g, x) \in CalmIo(n)
         /\ \A t \in {"cancel", "keyed", "accepted", "unkeyed", "beginSstv", "stopSstv", "stopEngine"} :
              Msg(t, g, x) \in CalmAu(n)
         /\ ~x => Msg("ptt", g, x) \in CalmAu(n)
         /\ CalmUi(n) \subseteq Calls /\ CalmIo(n) \subseteq Calls /\ CalmAu(n) \subseteq Calls
<1>1. \A t \in CallNames : /\ Msg(t, g, x) \in Calls /\ Msg(t, g, x).t = t
                           /\ Msg(t, g, x).g = g /\ Msg(t, g, x).x = x
  BY Sent
<1>2. /\ {"finished", "sstvFailed", "keyReq", "disconnected", "fault", "accepted", "audio", "stop",
          "stopSched", "ack", "tx", "rx", "cancel", "keyed", "unkeyed", "beginSstv", "stopSstv",
          "stopEngine", "ptt"} \subseteq CallNames
  BY DEF CallNames, UiCall, IoCall, AuCall
<1>3. \A t \in {"finished", "sstvFailed", "keyReq", "disconnected", "fault", "accepted"} :
        Msg(t, g, x) \in CalmUi(n)
  BY <1>1, <1>2 DEF CalmUi
<1>4. \A t \in {"audio", "stop", "stopSched", "ack", "tx", "rx"} : Msg(t, g, x) \in CalmIo(n)
  BY <1>1, <1>2 DEF CalmIo
<1>5. \A t \in {"cancel", "keyed", "accepted", "unkeyed", "beginSstv", "stopSstv", "stopEngine"} :
        Msg(t, g, x) \in CalmAu(n)
  BY <1>1, <1>2 DEF CalmAu, On, Named
<1>6. ~x => Msg("ptt", g, x) \in CalmAu(n)
  BY <1>1, <1>2 DEF CalmAu, On
<1> QED
  BY <1>3, <1>4, <1>5, <1>6 DEF CalmUi, CalmIo, CalmAu

\* What the UI thread posts.
LEMMA UiSends ==
  ASSUME TypeOK, KnownFields, UiStep
  PROVE  /\ uiQ' = uiQ \/ UiTakesCall
         /\ ui.gen \in Nat /\ ui'.gen \in Nat /\ ui.gen <= ui'.gen
         /\ ~KeysImage => Calmly(ioQ, ioQ', CalmIo(ui'.gen))
         /\ ~ShowsFt8 /\ ~ShowsSstv /\ ~Talks => Calmly(auQ, auQ', CalmAu(ui'.gen))
<1>0. ui.gen \in Nat /\ ui.ft8 \in Nat /\ ui.ft8 <= ui.gen
  BY UiFields DEF TypeOK, KnownFields
<1>1. ui'.gen \in {ui.gen, ui.gen + 1}
  BY DEF UiStep, ShowsFt8, ShowsSstv, Talks, FallsSilent, HaltsSlot, StopsImage, FinishesSlot,
     KeysImage, DropsImage, PlaysImage, DrainsImage, FinishesImage, LosesLink, UiIdles,
     SameGens, SameScreen
<1>2. ui'.gen \in Nat /\ ui.gen <= ui'.gen /\ ui.ft8 <= ui'.gen /\ 0 <= ui'.gen
  BY <1>0, <1>1
<1>3. uiQ' = uiQ \/ UiTakesCall
  BY DEF UiStep, ShowsFt8, ShowsSstv, Talks, FallsSilent, HaltsSlot, StopsImage, FinishesSlot,
     KeysImage, DropsImage, PlaysImage, DrainsImage, FinishesImage, LosesLink, UiIdles
<1>4. /\ \A t \in {"stop", "ack", "tx", "rx"} : Msg(t, 0, FALSE) \in CalmIo(ui'.gen)
      /\ Msg("stopSched", ui.ft8, FALSE) \in CalmIo(ui'.gen)
      /\ \A t \in {"beginSstv", "stopSstv", "stopEngine", "ptt"} : Msg(t, 0, FALSE) \in CalmAu(ui'.gen)
      /\ Msg("cancel", ui.ft8, FALSE) \in CalmAu(ui'.gen)
  BY <1>0, <1>2, CalmCalls
<1>5. \/ KeysImage \/ ioQ' = ioQ
      \/ \E t \in {"stop", "ack", "tx", "rx"} : ioQ' = Append(ioQ, Msg(t, 0, FALSE))
      \/ ioQ' = Append(ioQ, Msg("stopSched", ui.ft8, FALSE))
      \/ ioQ' = Append(Append(ioQ, Msg("stopSched", ui.ft8, FALSE)), Msg("rx", 0, FALSE))
  BY DEF UiStep, ShowsFt8, ShowsSstv, Talks, FallsSilent, HaltsSlot, StopsImage, FinishesSlot,
     DropsImage, PlaysImage, DrainsImage, FinishesImage, LosesLink, UiIdles
<1>6. \/ ShowsFt8 \/ ShowsSstv \/ Talks \/ auQ' = auQ
      \/ \E t \in {"beginSstv", "stopSstv", "ptt"} : auQ' = Append(auQ, Msg(t, 0, FALSE))
      \/ auQ' = Append(auQ, Msg("cancel", ui.ft8, FALSE))
      \/ auQ' = Append(Append(auQ, Msg("cancel", ui.ft8, FALSE)), Msg("ptt", 0, FALSE))
      \/ auQ' = Append(Append(auQ, Msg("ptt", 0, FALSE)), Msg("stopEngine", 0, FALSE))
  BY DEF UiStep, FallsSilent, HaltsSlot, StopsImage, FinishesSlot, KeysImage,
     DropsImage, PlaysImage, DrainsImage, FinishesImage, LosesLink, UiIdles
<1>7. ~KeysImage => Calmly(ioQ, ioQ', CalmIo(ui'.gen))
  BY <1>4, <1>5 DEF Calmly
<1>8. ~ShowsFt8 /\ ~ShowsSstv /\ ~Talks => Calmly(auQ, auQ', CalmAu(ui'.gen))
  BY <1>4, <1>6 DEF Calmly
<1>9. uiQ' = uiQ \/ UiTakesCall
  BY <1>3
<1>10. ui.gen \in Nat /\ ui'.gen \in Nat /\ ui.gen <= ui'.gen
  BY <1>0, <1>2
<1>11. ~KeysImage => Calmly(ioQ, ioQ', CalmIo(ui'.gen))
  BY <1>7
<1>12. ~ShowsFt8 /\ ~ShowsSstv /\ ~Talks => Calmly(auQ, auQ', CalmAu(ui'.gen))
  BY <1>8
<1> QED
  BY <1>9, <1>10, <1>11, <1>12

\* What the I/O thread posts.
LEMMA IoSends ==
  ASSUME TypeOK, KnownCalls, IoStep
  PROVE  /\ ioQ' = ioQ \/ IoTakesCall
         /\ Calmly(uiQ, uiQ', CalmUi(ui.gen)) /\ Calmly(auQ, auQ', CalmAu(ui.gen))
<1>0. ui.gen \in Nat /\ ioQ \in Seq(Calls)
  BY Queues, UiFields DEF TypeOK
<1>1. ioQ' = ioQ \/ IoTakesCall
  BY DEF IoStep, IoIdles, IoReleases, IoStops, IoKeys
<1>2. \/ uiQ' = uiQ
      \/ \E t \in {"sstvFailed", "keyReq", "disconnected", "fault", "accepted"},
            g \in 0 .. ui.gen, x \in BOOLEAN : uiQ' = Append(uiQ, Msg(t, g, x))
  BY DEF IoStep, IoIdles, IoReleases, IoStops, IoKeys, IoTells
<1>3. IoStops => Head(ioQ).g \in 0 .. ui.gen
  BY <1>0, Taken, KnownTake DEF IoStops, IoTakesCall, KnownCalls
<1>4. \/ auQ' = auQ
      \/ \E t \in {"cancel", "keyed", "accepted", "unkeyed"}, g \in 0 .. ui.gen, x \in BOOLEAN :
           auQ' = Append(auQ, Msg(t, g, x))
  BY <1>3 DEF IoStep, IoIdles, IoReleases, IoStops, IoKeys, IoTells
<1>5. \A g \in 0 .. ui.gen : g \in Nat /\ g <= ui.gen
  BY <1>0
<1>6. Calmly(uiQ, uiQ', CalmUi(ui.gen))
  BY <1>0, <1>2, <1>5, CalmCalls DEF Calmly
<1>7. Calmly(auQ, auQ', CalmAu(ui.gen))
  BY <1>0, <1>4, <1>5, CalmCalls DEF Calmly
<1> QED
  BY <1>1, <1>6, <1>7

\* What the audio thread posts.
LEMMA AuSends ==
  ASSUME TypeOK, KnownFields, KnownCalls, AuStep
  PROVE  /\ auQ' = auQ \/ AuTakesCall
         /\ ~ImagePrepares => Calmly(uiQ, uiQ', CalmUi(ui.gen))
         /\ ~SlotKeys /\ ~MicSpeaks => Calmly(ioQ, ioQ', CalmIo(ui.gen))
<1>0. /\ ui.gen \in Nat /\ auQ \in Seq(Calls) /\ tx.gen \in Nat /\ au.gen \in Nat
      /\ tx.gen <= ui.gen /\ au.gen <= ui.gen
  BY Queues, UiFields, TxFields, AuFields DEF TypeOK, KnownFields
<1>1. auQ' = auQ \/ AuTakesCall
  BY DEF AuStep, SlotFails, SlotEnds, SlotRefused, SlotWaits, SlotKeys, SlotGoesOn,
     ImagePrepares, ImageGoesOn, ImageStops, MicTurns, MicSpeaks
<1>2. AuTakesCall => Head(auQ).g \in Nat /\ Head(auQ).g <= ui.gen
  BY <1>0, Taken, KnownTake DEF AuTakesCall, KnownCalls
<1>3. \/ ImagePrepares \/ uiQ' = uiQ
      \/ \E x \in BOOLEAN : uiQ' = Append(uiQ, Msg("finished", tx.gen, x))
      \/ SlotRefused /\ uiQ' = Append(uiQ, Msg("finished", Head(auQ).g, FALSE))
      \/ uiQ' = Append(uiQ, Msg("sstvFailed", tx.gen, FALSE))
      \/ uiQ' = Append(uiQ, Msg("sstvFailed", au.gen, FALSE))
  BY DEF AuStep, SlotFails, SlotEnds, SlotRefused, SlotWaits, SlotKeys, SlotGoesOn,
     ImageGoesOn, ImageStops, MicTurns, MicSpeaks
<1>4. \/ SlotKeys \/ MicSpeaks \/ ioQ' = ioQ
      \/ \E t \in {"audio", "stopSched"}, x \in BOOLEAN : ioQ' = Append(ioQ, Msg(t, tx.gen, x))
      \/ \E x \in BOOLEAN : ioQ' = Append(ioQ, Msg("audio", au.gen, x))
  BY DEF AuStep, SlotFails, SlotEnds, SlotRefused, SlotWaits, SlotGoesOn,
     ImagePrepares, ImageGoesOn, ImageStops, MicTurns
<1>5. ~ImagePrepares => Calmly(uiQ, uiQ', CalmUi(ui.gen))
  <2>1. \A x \in BOOLEAN : /\ Msg("finished", tx.gen, x) \in CalmUi(ui.gen)
                           /\ Msg("sstvFailed", tx.gen, x) \in CalmUi(ui.gen)
                           /\ Msg("sstvFailed", au.gen, x) \in CalmUi(ui.gen)
    BY <1>0, CalmCalls
  <2>2. SlotRefused => Msg("finished", Head(auQ).g, FALSE) \in CalmUi(ui.gen)
    BY <1>0, <1>2, CalmCalls DEF SlotRefused
  <2> QED
    BY <1>3, <2>1, <2>2 DEF Calmly
<1>6. ~SlotKeys /\ ~MicSpeaks => Calmly(ioQ, ioQ', CalmIo(ui.gen))
  <2>1. \A x \in BOOLEAN : \A t \in {"audio", "stopSched"} :
          Msg(t, tx.gen, x) \in CalmIo(ui.gen) /\ Msg(t, au.gen, x) \in CalmIo(ui.gen)
    BY <1>0, CalmCalls
  <2> QED
    BY <1>4, <2>1 DEF Calmly
<1> QED
  BY <1>1, <1>5, <1>6

-----------------------------------------------------------------------------
(* KnownCalls and Numbered.                                                  *)

\* Calm calls are known.
LEMMA CalmIsKnown ==
  ASSUME NEW q \in Seq(Calls), NEW q2, NEW n \in Nat, ~Has(q, Above(n)),
         \/ Calmly(q, q2, CalmUi(n)) \/ Calmly(q, q2, CalmIo(n)) \/ Calmly(q, q2, CalmAu(n))
  PROVE  ~Has(q2, Above(n))
<1>1. ASSUME NEW S, S \in {CalmUi(n), CalmIo(n), CalmAu(n)}
      PROVE  S \subseteq Calls /\ Above(n) \cap S = {}
  <2>1. \A m \in S : m \in Calls /\ m.g <= n
    BY <1>1 DEF CalmUi, CalmIo, CalmAu
  <2>2. \A m \in Calls : m.g \in Nat
    BY DEF Calls, Call, Gen
  <2> QED
    BY <2>1, <2>2 DEF Above
<1>2. \A S \in {CalmUi(n), CalmIo(n), CalmAu(n)} : Calmly(q, q2, S) => ~Has(q2, Above(n))
  BY <1>1, CalmHas
<1> QED
  BY <1>2

\* The UI thread posts only calls of generations it has handed out.
LEMMA KnownCallsUi ==
  ASSUME TypeOK, KnownFields, KnownCalls, UiMoves
  PROVE  KnownCalls'
<1>0. /\ uiQ \in Seq(Calls) /\ ioQ \in Seq(Calls) /\ auQ \in Seq(Calls) /\ UiStep
      /\ ui.gen \in Nat /\ ui'.gen \in Nat /\ ui.gen <= ui'.gen /\ Own \in 0 .. ui.gen
  BY Queues, UiFields, UiSends DEF TypeOK, UiMoves, Own
<1>1. /\ ~Has(uiQ, Above(ui'.gen)) /\ ~Has(ioQ, Above(ui'.gen)) /\ ~Has(auQ, Above(ui'.gen))
  BY <1>0, KnownMore DEF KnownCalls
<1>2. ~Has(uiQ', Above(ui'.gen))
  BY <1>0, <1>1, UiSends, KnownTake DEF UiTakesCall
<1>3. ASSUME NEW t \in {"schedule", "prepare", "ptt", "beginSstv"}, NEW g \in Nat, g <= ui'.gen,
             NEW x \in BOOLEAN, NEW q \in Seq(Calls), ~Has(q, Above(ui'.gen))
      PROVE  ~Has(Append(q, Msg(t, g, x)), Above(ui'.gen))
  <2>1. t \in CallNames
    BY DEF CallNames, AuCall
  <2> QED
    BY <1>0, <1>3, <2>1, KnownPost
<1>4. ~Has(ioQ', Above(ui'.gen))
  <2>1. CASE KeysImage
    <3>1. Own \in Nat /\ Own <= ui'.gen
      BY <1>0
    <3>2. ~Has(Append(ioQ, Msg("beginSstv", Own, FALSE)), Above(ui'.gen))
      BY <1>0, <1>1, <1>3, <3>1
    <3> QED
      BY <2>1, <3>2 DEF KeysImage
  <2> QED
    BY <1>0, <1>1, <2>1, UiSends, CalmIsKnown
<1>5. ~Has(auQ', Above(ui'.gen))
  <2>1. CASE ShowsFt8
    <3>1. ui.gen + 1 \in Nat /\ ui.gen + 1 <= ui'.gen
      BY <1>0, <2>1 DEF ShowsFt8
    <3>2. ~Has(Append(auQ, Msg("schedule", ui.gen + 1, FALSE)), Above(ui'.gen))
      BY <1>0, <1>1, <1>3, <3>1
    <3> QED
      BY <2>1, <3>2 DEF ShowsFt8
  <2>2. CASE ShowsSstv
    <3>1. ui.gen + 1 \in Nat /\ ui.gen + 1 <= ui'.gen
      BY <1>0, <2>2 DEF ShowsSstv
    <3>2. ~Has(Append(auQ, Msg("prepare", ui.gen + 1, FALSE)), Above(ui'.gen))
      BY <1>0, <1>1, <1>3, <3>1
    <3> QED
      BY <2>2, <3>2 DEF ShowsSstv
  <2>3. CASE Talks
    <3>1. 0 \in Nat /\ 0 <= ui'.gen
      BY <1>0
    <3>2. ~Has(Append(auQ, Msg("ptt", 0, TRUE)), Above(ui'.gen))
      BY <1>0, <1>1, <1>3, <3>1
    <3> QED
      BY <2>3, <3>2 DEF Talks
  <2> QED
    BY <1>0, <1>1, <2>1, <2>2, <2>3, UiSends, CalmIsKnown
<1>6. Above(ui.gen)' = Above(ui'.gen)
  BY DEF Above
<1> QED
  BY <1>2, <1>4, <1>5, <1>6 DEF KnownCalls

\* The I/O thread posts only calls of generations that were handed out.
LEMMA KnownCallsIo ==
  ASSUME TypeOK, KnownCalls, IoMoves
  PROVE  KnownCalls'
<1>0. /\ uiQ \in Seq(Calls) /\ ioQ \in Seq(Calls) /\ auQ \in Seq(Calls) /\ IoStep
      /\ ui.gen \in Nat /\ ui' = ui
  BY Queues, UiFields DEF TypeOK, IoMoves
<1>1. ~Has(uiQ', Above(ui.gen)) /\ ~Has(auQ', Above(ui.gen))
  BY <1>0, IoSends, CalmIsKnown DEF KnownCalls
<1>2. ~Has(ioQ', Above(ui.gen))
  BY <1>0, IoSends, KnownTake DEF IoTakesCall, KnownCalls
<1>3. Above(ui.gen)' = Above(ui.gen)
  BY <1>0 DEF Above
<1> QED
  BY <1>1, <1>2, <1>3 DEF KnownCalls

\* The audio thread posts only calls of generations that were handed out.
LEMMA KnownCallsAu ==
  ASSUME TypeOK, KnownFields, KnownCalls, AuMoves
  PROVE  KnownCalls'
<1>0. /\ uiQ \in Seq(Calls) /\ ioQ \in Seq(Calls) /\ auQ \in Seq(Calls) /\ AuStep
      /\ ui.gen \in Nat /\ ui' = ui /\ tx.gen \in Nat /\ tx.gen <= ui.gen
  BY Queues, UiFields, TxFields DEF TypeOK, AuMoves, KnownFields
<1>1. ~Has(auQ', Above(ui.gen))
  BY <1>0, AuSends, KnownTake DEF AuTakesCall, KnownCalls
<1>2. ASSUME NEW t \in {"prepared", "beginFt8", "mic"}, NEW g \in Nat, g <= ui.gen,
             NEW x \in BOOLEAN, NEW q \in Seq(Calls), ~Has(q, Above(ui.gen))
      PROVE  ~Has(Append(q, Msg(t, g, x)), Above(ui.gen))
  <2>1. t \in CallNames
    BY DEF CallNames, UiCall, IoCall
  <2> QED
    BY <1>0, <1>2, <2>1, KnownPost
<1>3. ~Has(uiQ', Above(ui.gen))
  <2>1. CASE ImagePrepares
    <3>1. Head(auQ).g \in Nat /\ Head(auQ).g <= ui.gen
      BY <1>0, <2>1, Taken, KnownTake DEF ImagePrepares, AuTakesCall, KnownCalls
    <3> QED
      BY <1>0, <1>2, <2>1, <3>1 DEF ImagePrepares, KnownCalls
  <2> QED
    BY <1>0, <2>1, AuSends, CalmIsKnown DEF KnownCalls
<1>4. ~Has(ioQ', Above(ui.gen))
  <2>1. CASE SlotKeys
    BY <1>0, <1>2, <2>1 DEF SlotKeys, KnownCalls
  <2>2. CASE MicSpeaks
    <3>1. 0 \in Nat /\ 0 <= ui.gen /\ ~Has(ioQ, Above(ui.gen))
      BY <1>0 DEF KnownCalls
    <3>2. ~Has(Append(ioQ, Msg("mic", 0, FALSE)), Above(ui.gen))
      BY <1>0, <1>2, <3>1
    <3> QED
      BY <2>2, <3>2 DEF MicSpeaks
  <2> QED
    BY <1>0, <2>1, <2>2, AuSends, CalmIsKnown DEF KnownCalls
<1>5. Above(ui.gen)' = Above(ui.gen)
  BY <1>0 DEF Above
<1> QED
  BY <1>1, <1>3, <1>4, <1>5 DEF KnownCalls

\* The I/O thread's call in progress stays at the head of its queue.
LEMMA NumberedKept ==
  ASSUME TypeOK, KnownFields, KnownCalls, Numbered, UiMoves \/ AuMoves
  PROVE  Numbered'
<1>0. /\ uiQ \in Seq(Calls) /\ ioQ \in Seq(Calls) /\ io' = io /\ Own \in Nat /\ tx.gen \in Nat
      /\ ui.gen \in Nat
  BY Queues, UiFields, TxFields DEF TypeOK, UiMoves, AuMoves, Own
<1>1. ~Has(uiQ', The("fault", 0))
  <2>0. 0 \in Nat
    OBVIOUS
  <2>1. CASE UiMoves
    BY <2>0, <2>1, UiCalls DEF UiMoves, Numbered
  <2>2. CASE AuMoves
    BY <2>0, <2>2, AuCalls DEF AuMoves, Numbered
  <2> QED
    BY <2>1, <2>2
<1>2. ioQ # <<>> => ioQ' # <<>> /\ Head(ioQ') = Head(ioQ)
  <2>1. ASSUME NEW t \in {"beginSstv", "beginFt8", "mic"}, NEW g \in Nat, NEW x \in BOOLEAN,
               ioQ' = Append(ioQ, Msg(t, g, x))
        PROVE  ioQ # <<>> => ioQ' # <<>> /\ Head(ioQ') = Head(ioQ)
    <3>1. Msg(t, g, x) \in Calls
      BY Sent DEF CallNames, IoCall
    <3> QED
      BY <1>0, <2>1, <3>1
  <2>2. \A n \in Nat : CalmIo(n) \subseteq Calls
    BY DEF CalmIo
  <2>3. CASE UiMoves
    <3>1. CASE KeysImage
      BY <1>0, <2>1, <3>1 DEF KeysImage
    <3> QED
      BY <1>0, <2>2, <2>3, <3>1, UiSends, CalmHead DEF UiMoves
  <2>4. CASE AuMoves
    <3>1. CASE SlotKeys
      BY <1>0, <2>1, <3>1 DEF SlotKeys
    <3>2. CASE MicSpeaks
      BY <1>0, <2>1, <3>2 DEF MicSpeaks
    <3> QED
      BY <1>0, <2>2, <2>4, <3>1, <3>2, AuSends, CalmHead DEF AuMoves
  <2> QED
    BY <2>3, <2>4
<1> QED
  BY <1>0, <1>1, <1>2, Constants DEF Numbered

-----------------------------------------------------------------------------
(* What a handler of the audio thread does to its queue, image and microphone. *)
SlotStays == tx'.phase # "Idle" => tx.phase # "Idle"
\* Which call, if any, a handler of the audio thread takes, and what it turns by it.
LEMMA AuTurns ==
  ASSUME TypeOK, AuStep
  PROVE  \/ auQ' = auQ /\ SameImage /\ SameMic /\ SlotStays
         \/ /\ AuTakesCall /\ SameImage /\ SameMic /\ SlotStays
            /\ Head(auQ).t \notin {"schedule", "prepare", "stopSstv", "stopEngine", "ptt"}
         \/ SlotRefused \/ SlotWaits \/ ImagePrepares \/ ImageStops \/ MicTurns
<1>1. UNCHANGED au => SameImage /\ SameMic
  BY DEF SameImage, SameMic, Busy
<1>2. CASE SlotFails \/ SlotEnds
  BY <1>2 DEF SlotFails, SlotEnds, SlotStays
<1>3. CASE SlotKeys
  BY <1>1, <1>3 DEF SlotKeys, SlotStays
<1>4. CASE SlotGoesOn
  BY <1>4 DEF SlotGoesOn, SlotStays
<1>5. CASE ImageGoesOn
  BY <1>5 DEF ImageGoesOn, SlotStays
<1>6. CASE MicSpeaks
  BY <1>1, <1>6 DEF MicSpeaks, SlotStays
<1> QED
  BY <1>2, <1>3, <1>4, <1>5, <1>6 DEF AuStep

-----------------------------------------------------------------------------
(* SstvOrder.                                                                *)

\* Without a slot on the screen the audio thread has none and expects none.
LEMMA NoSlot ==
  ASSUME TypeOK, SlotChain, ui.ft8 = 0
  PROVE  tx.phase = "Idle" /\ ~Has(auQ, Schedules)
<1>1. \A g \in Nat : ~Has(auQ, The("schedule", g))
  BY DEF SlotChain
<1>2. auQ \in Seq(Calls)
  BY Queues
<1>3. ASSUME NEW i \in DOMAIN auQ, auQ[i] \in Schedules PROVE FALSE
  <2>1. auQ[i] \in Calls /\ auQ[i].t = "schedule"
    BY <1>3 DEF Schedules, Named
  <2>2. auQ[i].g \in Nat /\ auQ[i] \in The("schedule", auQ[i].g)
    BY <2>1 DEF Calls, Call, Gen, The
  <2> QED
    BY <1>1, <2>2 DEF Has
<1> QED
  BY <1>3 DEF SlotChain, Has

\* An image that leaves the screen at its end leaves nothing open behind it.
LEMMA EndsClosed ==
  ASSUME TypeOK, SstvOrder, SstvEnd, Own # 0,
         Has(uiQ, Refused(Own)) \/ Leaving(Own) \/ ui.draining
  PROVE  Closed(auQ, Busy, Prepares, Stops)
<1>1. (~Busy \/ Has(auQ, Stops)) /\ ~Has(auQ, The("prepare", Own))
  BY DEF SstvEnd
<1>2. ASSUME NEW j \in DOMAIN auQ, auQ[j] \in Prepares
      PROVE  \E k \in DOMAIN auQ : j < k /\ auQ[k] \in Stops
  <2>1. auQ[j] \in PreparesBut(Own)
    BY <1>1, <1>2 DEF Prepares, PreparesBut, Named, Has, The
  <2> QED
    BY <1>2, <2>1 DEF SstvOrder, Closed
<1> QED
  BY <1>1, <1>2 DEF Closed

\* What the UI thread's calm calls are not.
LEMMA CalmClasses ==
  ASSUME NEW n
  PROVE  /\ CalmAu(n) \subseteq Calls /\ Prepares \cap CalmAu(n) = {} /\ Starts \cap CalmAu(n) = {}
         /\ Schedules \cap CalmAu(n) = {} /\ On \cap CalmAu(n) = {}
         /\ \A g : PreparesBut(g) \cap CalmAu(n) = {} /\ The("prepare", g) \cap CalmAu(n) = {}
         /\ CalmIo(n) \subseteq Calls /\ BeginsSstv \cap CalmIo(n) = {} /\ Mics \cap CalmIo(n) = {}
         /\ \A g : BeginsBut(g) \cap CalmIo(n) = {} /\ LiveBegins(g) \cap CalmIo(n) = {}
         /\ \A g : The("beginFt8", g) \cap CalmIo(n) = {}
         /\ CalmUi(n) \subseteq Calls /\ \A g : Refused(g) \cap CalmUi(n) = {} /\ Ready(g) \cap CalmUi(n) = {}
<1>1. /\ CalmAu(n) \subseteq Calls /\ Prepares \cap CalmAu(n) = {} /\ Starts \cap CalmAu(n) = {}
      /\ Schedules \cap CalmAu(n) = {} /\ On \cap CalmAu(n) = {}
  BY DEF CalmAu, Prepares, Starts, Schedules, Named
<1>2. \A g : PreparesBut(g) \cap CalmAu(n) = {} /\ The("prepare", g) \cap CalmAu(n) = {}
  BY DEF CalmAu, PreparesBut, Prepares, Named, The
<1>3. CalmIo(n) \subseteq Calls /\ BeginsSstv \cap CalmIo(n) = {} /\ Mics \cap CalmIo(n) = {}
  BY DEF CalmIo, BeginsSstv, Mics, Named
<1>4. \A g : /\ BeginsBut(g) \cap CalmIo(n) = {} /\ LiveBegins(g) \cap CalmIo(n) = {}
             /\ The("beginFt8", g) \cap CalmIo(n) = {}
  BY DEF CalmIo, BeginsBut, BeginsSstv, LiveBegins, Named, The
<1>5. CalmUi(n) \subseteq Calls /\ \A g : Refused(g) \cap CalmUi(n) = {} /\ Ready(g) \cap CalmUi(n) = {}
  BY DEF CalmUi, Refused, Ready, The
<1> QED
  BY <1>1, <1>2, <1>3, <1>4, <1>5

\* The UI thread ends an image before it starts anything else.
LEMMA SstvOrderUi ==
  ASSUME TypeOK, KnownFields, SlotChain, SstvOrder, SstvEnd, UiMoves
  PROVE  SstvOrder'
<1> DEFINE n == ui'.gen
<1>0. /\ auQ \in Seq(Calls) /\ UiStep /\ tx' = tx /\ au \in AuType /\ ui.gen \in Nat
      /\ ui.gen + 1 # 0 /\ ui.gen + 1 \in Nat
  BY Queues, UiFields DEF TypeOK, UiMoves
<1>1. (Busy' => Busy) /\ au'.gen = au.gen
  BY <1>0 DEF UiStep, ShowsFt8, ShowsSstv, Talks, FallsSilent, HaltsSlot, StopsImage,
     FinishesSlot, KeysImage, DropsImage, PlaysImage, DrainsImage, FinishesImage, LosesLink,
     UiIdles, AuType, Busy
<1>2. /\ Busy \in BOOLEAN /\ Busy' \in BOOLEAN /\ (tx.phase # "Idle") \in BOOLEAN
      /\ (Busy /\ (Own = 0 \/ au.gen # Own)) \in BOOLEAN
      /\ (Busy' /\ (Own' = 0 \/ au'.gen # Own')) \in BOOLEAN
  BY DEF Busy
<1>3. /\ Msg("schedule", ui.gen + 1, FALSE) \in Calls /\ Msg("schedule", ui.gen + 1, FALSE) \notin Prepares
      /\ Msg("schedule", ui.gen + 1, FALSE) \notin PreparesBut(0)
      /\ Msg("prepare", ui.gen + 1, FALSE) \in Calls
      /\ Msg("prepare", ui.gen + 1, FALSE) \notin PreparesBut(ui.gen + 1)
      /\ Msg("ptt", 0, TRUE) \in Calls /\ Msg("ptt", 0, TRUE) \notin Prepares \cup Starts \cup PreparesBut(0)
      /\ Msg("stopSstv", 0, FALSE) \in Stops /\ Msg("stopSstv", 0, FALSE) \notin Prepares
  <2>1. \A t \in CallNames, g \in Nat, x \in BOOLEAN :
          Msg(t, g, x) \in Calls /\ Msg(t, g, x).t = t /\ Msg(t, g, x).g = g
    BY Sent
  <2>2. {"schedule", "prepare", "ptt", "stopSstv"} \subseteq CallNames
    BY DEF CallNames, AuCall
  <2> QED
    BY <1>0, <2>1, <2>2 DEF Prepares, PreparesBut, Starts, Stops, Named
<1>4. PreparesBut(0) = Prepares /\ \A g : PreparesBut(g) \subseteq Prepares
  BY DEF PreparesBut, Prepares
<1>5. Own = 0 => Closed(auQ, Busy, Prepares, Stops)
  BY <1>2, <1>4 DEF SstvOrder
\* (a)
<1>6. Closed(auQ', Busy' /\ (Own' = 0 \/ au'.gen # Own'), PreparesBut(Own'), Stops)
  <2>1. CASE ShowsFt8
    <3>1. Own = 0 /\ Own' = 0 /\ auQ' = Append(auQ, Msg("schedule", ui.gen + 1, FALSE))
      BY <2>1 DEF ShowsFt8
    <3>2. Closed(auQ', Busy, Prepares, Stops)
      BY <1>0, <1>2, <1>3, <1>5, <3>1, ClosedPost
    <3> QED
      BY <1>1, <1>2, <1>4, <3>1, <3>2, ClosedMore
  <2>2. CASE Talks
    <3>1. Own = 0 /\ Own' = 0 /\ auQ' = Append(auQ, Msg("ptt", 0, TRUE))
      BY <2>2 DEF Talks
    <3>2. Closed(auQ', Busy, Prepares, Stops)
      BY <1>0, <1>2, <1>3, <1>5, <3>1, ClosedPost
    <3> QED
      BY <1>1, <1>2, <1>4, <3>1, <3>2, ClosedMore
  <2>3. CASE ShowsSstv
    <3>1. /\ Own = 0 /\ Own' = ui.gen + 1
          /\ auQ' = Append(auQ, Msg("prepare", ui.gen + 1, FALSE))
      BY <2>3 DEF ShowsSstv
    <3>2. Closed(auQ, Busy, PreparesBut(ui.gen + 1), Stops)
      BY <1>2, <1>4, <1>5, <3>1, ClosedMore
    <3>3. Closed(auQ', Busy, PreparesBut(ui.gen + 1), Stops)
      BY <1>0, <1>2, <1>3, <3>1, <3>2, ClosedPost
    <3> QED
      BY <1>1, <1>2, <3>1, <3>3, ClosedMore
  <2>4. CASE StopsImage
    <3>1. auQ' = Append(auQ, Msg("stopSstv", 0, FALSE)) /\ Own' = 0
      BY <2>4 DEF StopsImage
    <3>2. Msg("stopSstv", 0, FALSE) \in Calls
      BY <1>3 DEF Stops, Named
    <3>3. Closed(auQ', Busy, Prepares, Stops)
      BY <1>0, <1>2, <1>3, <3>1, <3>2, ClosedPost
    <3> QED
      BY <1>1, <1>2, <1>4, <3>1, <3>3, ClosedMore
  <2>5. CASE FinishesImage \/ DropsImage
    <3>1. Own # 0 /\ Own' = 0 /\ auQ' = auQ
      BY <2>5 DEF FinishesImage, DropsImage
    <3>2. Has(uiQ, Refused(Own)) \/ ui.draining
      <4>1. CASE DropsImage
        <5>1. Head(uiQ) \in Refused(Own) /\ uiQ # <<>> /\ uiQ \in Seq(Calls)
          BY <4>1, Queues, Taken DEF DropsImage, UiTakesCall, Refused, The
        <5> QED
          BY <5>1, HasTake
      <4> QED
        BY <2>5, <4>1 DEF FinishesImage
    <3>3. Closed(auQ, Busy, Prepares, Stops)
      BY <3>1, <3>2, EndsClosed
    <3> QED
      BY <1>1, <1>2, <1>4, <3>1, <3>3, ClosedMore
  <2>6. CASE ~ShowsFt8 /\ ~Talks /\ ~ShowsSstv /\ ~StopsImage /\ ~FinishesImage /\ ~DropsImage
    <3>1. Own' = Own
      BY <1>0, <2>6 DEF UiStep, FallsSilent, HaltsSlot, FinishesSlot, KeysImage, PlaysImage,
         DrainsImage, LosesLink, UiIdles, SameScreen
    <3>2. Closed(auQ, Busy /\ (Own = 0 \/ au.gen # Own), PreparesBut(Own), Stops)
      BY DEF SstvOrder
    <3>3. Calmly(auQ, auQ', CalmAu(n))
      BY <1>0, <2>6, UiSends
    <3>4. Closed(auQ', Busy /\ (Own = 0 \/ au.gen # Own), PreparesBut(Own), Stops)
      BY <1>0, <1>2, <3>2, <3>3, CalmClasses, CalmClosed, ZenonT(40)
    <3> QED
      BY <1>1, <1>2, <3>1, <3>4, ClosedMore
  <2> QED
    BY <2>1, <2>2, <2>3, <2>4, <2>5, <2>6
\* (b)
<1>7. ClosedBefore(auQ', Busy', Prepares, Stops, Starts)
  <2>0. ClosedBefore(auQ, Busy, Prepares, Stops, Starts)
    BY DEF SstvOrder
  <2>1. ClosedBefore(auQ', Busy, Prepares, Stops, Starts)
    <3>1. CASE ShowsFt8
      BY <1>0, <1>2, <1>3, <1>5, <2>0, <3>1, BeforePost DEF ShowsFt8
    <3>2. CASE Talks
      <4>1. Msg("ptt", 0, TRUE) \notin Starts
        BY <1>3
      <4> QED
        BY <1>0, <1>2, <1>3, <2>0, <3>2, <4>1, BeforePost DEF Talks
    <3>3. CASE ShowsSstv
      BY <1>0, <1>2, <1>3, <1>5, <2>0, <3>3, BeforePost DEF ShowsSstv
    <3>4. CASE ~ShowsFt8 /\ ~Talks /\ ~ShowsSstv
      BY <1>0, <1>2, <2>0, <3>4, UiSends, CalmClasses, CalmBefore
    <3> QED
      BY <3>1, <3>2, <3>3, <3>4
  <2> QED
    BY <1>1, <1>2, <2>1, BeforeMore
\* (c)
<1>8. ClosedBefore(auQ', tx.phase # "Idle", Schedules, {}, Prepares)
  <2>0. ClosedBefore(auQ, tx.phase # "Idle", Schedules, {}, Prepares)
    BY DEF SstvOrder
  <2>1. CASE ShowsFt8
    BY <1>0, <1>2, <1>3, <2>0, <2>1, BeforePost DEF ShowsFt8
  <2>2. CASE Talks
    <3>1. Msg("ptt", 0, TRUE) \notin Prepares
      BY <1>3
    <3> QED
      BY <1>0, <1>2, <1>3, <2>0, <2>2, <3>1, BeforePost DEF Talks
  <2>3. CASE ShowsSstv
    <3>1. Closed(auQ, tx.phase # "Idle", Schedules, {})
      BY <2>3, NoSlot, NothingOpen DEF ShowsSstv
    <3> QED
      BY <1>0, <1>2, <1>3, <2>0, <2>3, <3>1, BeforePost DEF ShowsSstv
  <2>4. CASE ~ShowsFt8 /\ ~Talks /\ ~ShowsSstv
    <3> DEFINE slot == tx.phase # "Idle"
    <3>1. slot \in BOOLEAN /\ ClosedBefore(auQ, slot, Schedules, {}, Prepares)
      BY <2>0
    <3> HIDE DEF slot
    <3>2. ClosedBefore(auQ', slot, Schedules, {}, Prepares)
      BY <1>0, <2>4, <3>1, UiSends, CalmClasses, CalmBefore
    <3> QED
      BY <3>2 DEF slot
  <2> QED
    BY <2>1, <2>2, <2>3, <2>4
<1>9. tx.phase # "Idle" => ~Busy'
  BY <1>1 DEF SstvOrder
<1>10. PreparesBut(Own)' = PreparesBut(Own')
  BY DEF PreparesBut
<1> QED
  BY <1>0, <1>6, <1>7, <1>8, <1>9, <1>10 DEF SstvOrder

\* The I/O thread posts the audio thread only calls that neither start nor end an image.
LEMMA SstvOrderIo ==
  ASSUME TypeOK, KnownCalls, SstvOrder, IoMoves
  PROVE  SstvOrder'
<1>0. /\ auQ \in Seq(Calls) /\ IoStep /\ ui' = ui /\ tx' = tx /\ au' = au
      /\ Calmly(auQ, auQ', CalmAu(ui.gen))
  BY Queues, IoSends DEF IoMoves
<1>1. /\ Busy \in BOOLEAN /\ (tx.phase # "Idle") \in BOOLEAN
      /\ (Busy /\ (Own = 0 \/ au.gen # Own)) \in BOOLEAN
  BY DEF Busy
<1>2. Closed(auQ', Busy /\ (Own = 0 \/ au.gen # Own), PreparesBut(Own), Stops)
  BY <1>0, <1>1, CalmClasses, CalmClosed, ZenonT(40) DEF SstvOrder
<1>3. ClosedBefore(auQ', Busy, Prepares, Stops, Starts)
  BY <1>0, <1>1, CalmClasses, CalmBefore DEF SstvOrder
<1>4. ClosedBefore(auQ', tx.phase # "Idle", Schedules, {}, Prepares)
  <2> DEFINE slot == tx.phase # "Idle"
  <2>1. slot \in BOOLEAN /\ ClosedBefore(auQ, slot, Schedules, {}, Prepares)
    BY DEF SstvOrder
  <2> HIDE DEF slot
  <2>2. ClosedBefore(auQ', slot, Schedules, {}, Prepares)
    BY <1>0, <2>1, CalmClasses, CalmBefore
  <2> QED
    BY <2>2 DEF slot
<1>5. Busy' = Busy /\ Own' = Own /\ PreparesBut(Own)' = PreparesBut(Own)
  BY <1>0 DEF Busy, Own, PreparesBut
<1> QED
  BY <1>0, <1>2, <1>3, <1>4, <1>5 DEF SstvOrder

\* What comes to the audio thread finds nothing of another transmission left.
LEMMA HeadIsClear ==
  ASSUME TypeOK, SlotChain, SstvToken, SstvOrder, MicOrder, auQ # <<>>
  PROVE  /\ Head(auQ).t = "prepare" => Head(auQ) \in Prepares /\ Head(auQ).g \in Nat /\ Head(auQ).g # 0
         /\ Head(auQ).t \in {"schedule", "prepare"} => ~Busy /\ ~au.ptt
         /\ Head(auQ).t = "prepare" => tx.phase = "Idle"
         /\ Head(auQ) \in On => tx.phase = "Idle"
<1>0. auQ \in Seq(Calls) /\ Head(auQ) \in Calls /\ Head(auQ).g \in Nat
  BY Queues, Taken
<1>1. ASSUME Head(auQ).t = "prepare" PROVE Head(auQ) \in Prepares /\ Head(auQ).g # 0
  <2>1. Has(auQ, The("prepare", Head(auQ).g))
    BY <1>0, <1>1, TheTake
  <2>2. Head(auQ).g # 0
    BY <1>0, <2>1 DEF SstvToken, Unborn
  <2> QED
    BY <1>0, <1>1, <2>2 DEF Prepares, Named
<1>2. Head(auQ).t \in {"schedule", "prepare"} => Head(auQ) \in Starts
  BY <1>0 DEF Starts, Named
<1>3. ASSUME NEW C, Head(auQ) \in C, NEW open \in BOOLEAN, NEW A, NEW B,
             ClosedBefore(auQ, open, A, B, C)
      PROVE  ~open
  BY <1>0, <1>3, BeforeTake
<1>4. Busy \in BOOLEAN /\ au.ptt \in BOOLEAN /\ (tx.phase # "Idle") \in BOOLEAN
  BY AuFields DEF TypeOK, Busy, AuType
<1>5. Head(auQ) \in Starts => ~Busy
  BY <1>3, <1>4 DEF SstvOrder
<1>6. Head(auQ) \in Starts => ~au.ptt
  BY <1>3, <1>4 DEF MicOrder
<1>7. Head(auQ) \in Prepares => ~(tx.phase # "Idle")
  BY <1>3, <1>4 DEF SstvOrder
<1>8. Head(auQ) \in On => ~(tx.phase # "Idle")
  BY <1>3, <1>4 DEF MicOrder
<1> QED
  BY <1>0, <1>1, <1>2, <1>5, <1>6, <1>7, <1>8

\* The audio thread takes the end of an image before the next start.
LEMMA SstvOrderAu ==
  ASSUME TypeOK, SlotChain, SstvToken, SstvOrder, MicOrder, AuMoves
  PROVE  SstvOrder'
<1> DEFINE open == Busy /\ (Own = 0 \/ au.gen # Own)
           open2 == Busy' /\ (Own = 0 \/ au'.gen # Own)
           slot == tx.phase # "Idle"
           slot2 == tx'.phase # "Idle"
           Order(o, b, s) == /\ Closed(auQ', o, PreparesBut(Own), Stops)
                             /\ ClosedBefore(auQ', b, Prepares, Stops, Starts)
                             /\ ClosedBefore(auQ', s, Schedules, {}, Prepares)
                             /\ s => ~b
<1>0. auQ \in Seq(Calls) /\ AuStep /\ ui' = ui /\ (auQ # <<>> => Head(auQ) \in Calls /\ Head(auQ).g \in Nat)
  BY Queues, Taken DEF AuMoves
<1>1. /\ Busy \in BOOLEAN /\ Busy' \in BOOLEAN /\ open \in BOOLEAN /\ open2 \in BOOLEAN
      /\ slot \in BOOLEAN /\ slot2 \in BOOLEAN
  BY DEF Busy
<1>2. /\ Closed(auQ, open, PreparesBut(Own), Stops)
      /\ ClosedBefore(auQ, Busy, Prepares, Stops, Starts)
      /\ ClosedBefore(auQ, slot, Schedules, {}, Prepares)
      /\ slot => ~Busy
  BY DEF SstvOrder
<1>3. /\ SameImage => (Busy' => Busy) /\ (open2 => open)
      /\ SlotStays => (slot2 => slot)
  BY DEF SameImage, SlotStays
\* What a call taken from the queue may do.
<1>4. ASSUME AuTakesCall,
             open2 => Head(auQ) \in PreparesBut(Own) \/ (open /\ Head(auQ) \notin Stops),
             Busy' => Head(auQ) \in Prepares \/ (Busy /\ Head(auQ) \notin Stops),
             slot2 => Head(auQ) \in Schedules \/ slot,
             slot2 => ~Busy'
      PROVE  Order(open2, Busy', slot2)
  <2> HIDE DEF open, open2, slot, slot2
  <2>0. auQ # <<>> /\ auQ' = Tail(auQ)
    BY <1>4 DEF AuTakesCall
  <2>1. Closed(auQ', open2, PreparesBut(Own), Stops)
    BY <1>0, <1>1, <1>2, <1>4, <2>0, ClosedTake
  <2>2. ClosedBefore(auQ', Busy', Prepares, Stops, Starts)
    BY <1>0, <1>1, <1>2, <1>4, <2>0, BeforeTake
  <2>3. ClosedBefore(auQ', slot2, Schedules, {}, Prepares)
    BY <1>0, <1>1, <1>2, <1>4, <2>0, BeforeTake
  <2> QED
    BY <1>4, <2>1, <2>2, <2>3
<1>5. auQ # <<>> => /\ Head(auQ) \in Stops => Head(auQ).t \in {"stopSstv", "stopEngine"}
                    /\ Head(auQ).t = "schedule" => Head(auQ) \in Schedules
  BY <1>0 DEF Stops, Schedules, Named
<1> SUFFICES Order(open2, Busy', slot2)
  <2>1. Own' = Own /\ PreparesBut(Own)' = PreparesBut(Own)
    BY <1>0 DEF Own, PreparesBut
  <2> QED
    BY <2>1 DEF SstvOrder
<1>6. CASE auQ' = auQ /\ SameImage /\ SlotStays
  <2> HIDE DEF open, open2, slot, slot2
  <2>1. Closed(auQ', open2, PreparesBut(Own), Stops)
    BY <1>1, <1>2, <1>3, <1>6, ClosedMore
  <2>2. ClosedBefore(auQ', Busy', Prepares, Stops, Starts)
    BY <1>1, <1>2, <1>3, <1>6, BeforeMore
  <2>3. ClosedBefore(auQ', slot2, Schedules, {}, Prepares)
    BY <1>1, <1>2, <1>3, <1>6, BeforeMore
  <2> QED
    BY <1>2, <1>3, <1>6, <2>1, <2>2, <2>3
<1>7. CASE AuTakesCall /\ SameImage /\ SlotStays /\ Head(auQ).t \notin {"stopSstv", "stopEngine"}
  BY <1>2, <1>3, <1>4, <1>5, <1>7 DEF AuTakesCall
<1>8. CASE SlotWaits
  <2>1. AuTakesCall /\ Head(auQ).t = "schedule" /\ au' = au /\ auQ # <<>>
    BY <1>8 DEF SlotWaits, AuTakesCall
  <2>2. ~Busy /\ Head(auQ) \in Schedules
    BY <1>5, <2>1, HeadIsClear
  <2>3. ~Busy'
    BY <2>1, <2>2 DEF Busy
  <2> QED
    BY <1>4, <2>1, <2>2, <2>3
<1>9. CASE ImagePrepares
  <2>1. /\ AuTakesCall /\ Head(auQ).t = "prepare" /\ tx' = tx /\ auQ # <<>>
        /\ au'.gen = Head(auQ).g
    BY <1>9 DEF ImagePrepares, AuTakesCall
  <2>2. Head(auQ) \in Prepares /\ Head(auQ).g # 0 /\ tx.phase = "Idle"
    BY <2>1, HeadIsClear
  <2>3. open2 => Head(auQ) \in PreparesBut(Own)
    BY <2>1, <2>2 DEF PreparesBut
  <2> QED
    BY <1>4, <2>1, <2>2, <2>3
<1>10. CASE ImageStops
  BY <1>2, <1>4, <1>10 DEF ImageStops
<1>11. SlotRefused \/ MicTurns => AuTakesCall /\ SameImage /\ SlotStays
                               /\ Head(auQ).t \notin {"stopSstv", "stopEngine"}
  BY DEF SlotRefused, MicTurns, SlotStays
<1> HIDE DEF Order
<1> QED
  BY <1>0, <1>6, <1>7, <1>8, <1>9, <1>10, <1>11, AuTurns

-----------------------------------------------------------------------------
(* SstvEnd.                                                                  *)
LEMMA SstvEndUi ==
  ASSUME TypeOK, KnownFields, KnownCalls, SstvEnd, UiMoves
  PROVE  SstvEnd'
<1> DEFINE n == ui'.gen
<1>0. /\ uiQ \in Seq(Calls) /\ ioQ \in Seq(Calls) /\ auQ \in Seq(Calls) /\ UiStep /\ io' = io
      /\ au \in AuType /\ ui.gen \in Nat /\ ui.gen + 1 \in Nat /\ io.drain \in Nat /\ io.drain <= ui.gen
      /\ Own \in Nat
  BY Queues, UiFields, IoFields DEF TypeOK, UiMoves, KnownFields, Own
<1>1. Busy' => Busy
  BY <1>0 DEF UiStep, ShowsFt8, ShowsSstv, Talks, FallsSilent, HaltsSlot, StopsImage,
     FinishesSlot, KeysImage, DropsImage, PlaysImage, DrainsImage, FinishesImage, LosesLink,
     UiIdles, AuType, Busy
<1>2. \A g : /\ Last(g) \subseteq The("audio", g) /\ Refused(g) \subseteq The("prepared", g)
             /\ Last(g)' = Last(g) /\ Refused(g)' = Refused(g) /\ The("accepted", g)' = The("accepted", g)
             /\ The("prepare", g)' = The("prepare", g)
  BY Constants DEF Last, Refused, The
<1>3. \A S : Has(uiQ', S) => Has(uiQ, S)
  BY <1>0, UiSends, HasTake DEF UiTakesCall
<1>4. ASSUME NEW g \in Nat, Has(ioQ', Last(g)) PROVE Has(ioQ, Last(g))
  <2>0. \A t \in CallNames, h \in Nat, x \in BOOLEAN :
          t # "audio" => Msg(t, h, x) \in Calls /\ Msg(t, h, x) \notin Last(g)
    BY Sent DEF Last, The
  <2>1. \A q \in Seq(Calls), t \in CallNames, h \in Nat, x \in BOOLEAN :
          t # "audio" => Append(q, Msg(t, h, x)) \in Seq(Calls)
                         /\ (Has(Append(q, Msg(t, h, x)), Last(g)) => Has(q, Last(g)))
    BY <2>0, HasPost, PostedCall
  <2>2. {"stop", "ack", "tx", "rx", "stopSched", "beginSstv"} \subseteq CallNames /\ ui.ft8 \in Nat /\ 0 \in Nat
    BY UiFields DEF CallNames, IoCall, TypeOK
  <2>3. \/ ioQ' = ioQ
        \/ \E t \in {"stop", "ack", "tx", "rx"} : ioQ' = Append(ioQ, Msg(t, 0, FALSE))
        \/ ioQ' = Append(ioQ, Msg("beginSstv", Own, FALSE))
        \/ ioQ' = Append(ioQ, Msg("stopSched", ui.ft8, FALSE))
        \/ ioQ' = Append(Append(ioQ, Msg("stopSched", ui.ft8, FALSE)), Msg("rx", 0, FALSE))
    BY <1>0 DEF UiStep, ShowsFt8, ShowsSstv, Talks, FallsSilent, HaltsSlot, StopsImage, FinishesSlot,
       KeysImage, DropsImage, PlaysImage, DrainsImage, FinishesImage, LosesLink, UiIdles
  <2>4. CASE \E t \in {"stop", "ack", "tx", "rx"} : ioQ' = Append(ioQ, Msg(t, 0, FALSE))
    <3>1. PICK t \in CallNames : t # "audio" /\ ioQ' = Append(ioQ, Msg(t, 0, FALSE))
      BY <2>2, <2>4
    <3> QED
      BY <1>0, <1>4, <2>1, <2>2, <3>1
  <2>5. CASE ioQ' = Append(ioQ, Msg("beginSstv", Own, FALSE))
    BY <1>0, <1>4, <2>1, <2>2, <2>5
  <2>6. /\ Append(ioQ, Msg("stopSched", ui.ft8, FALSE)) \in Seq(Calls)
        /\ Has(Append(ioQ, Msg("stopSched", ui.ft8, FALSE)), Last(g)) => Has(ioQ, Last(g))
    BY <1>0, <2>1, <2>2
  <2>7. CASE ioQ' = Append(Append(ioQ, Msg("stopSched", ui.ft8, FALSE)), Msg("rx", 0, FALSE))
    <3>1. Has(ioQ', Last(g)) => Has(Append(ioQ, Msg("stopSched", ui.ft8, FALSE)), Last(g))
      BY <2>1, <2>2, <2>6, <2>7
    <3> QED
      BY <1>4, <2>6, <3>1
  <2> QED
    BY <1>4, <2>3, <2>4, <2>5, <2>6, <2>7
<1>5. CASE ShowsSstv
  <2>1. Own' = ui.gen + 1 /\ ~ui'.draining
    BY <1>5 DEF ShowsSstv
  <2>2. ~Has(uiQ', Refused(ui.gen + 1))
    BY <1>2, <1>3, NotYet, HasMore
  <2>3. ~Has(ioQ', Last(ui.gen + 1))
    BY <1>0, <1>2, <1>4, NotYet, HasMore
  <2>4. ~Has(uiQ', The("accepted", ui.gen + 1)) /\ io.drain # ui.gen + 1
    BY <1>0, <1>3, NotYet
  <2> QED
    BY <1>0, <1>2, <2>1, <2>2, <2>3, <2>4 DEF SstvEnd, Leaving
<1>6. CASE ~ShowsSstv
  <2>0. SUFFICES ASSUME Own' # 0, Has(uiQ', Refused(Own')) \/ Leaving(Own)' \/ ui'.draining
                 PROVE  (~Busy' \/ Has(auQ', Stops)) /\ ~Has(auQ', The("prepare", Own'))
    BY <1>2, Constants DEF SstvEnd, Refused, The
  <2>1. Own' = Own /\ Own # 0 /\ (ui'.draining => ui.draining \/ DrainsImage)
    BY <1>0, <1>6, <2>0 DEF UiStep, ShowsFt8, Talks, FallsSilent, HaltsSlot, StopsImage,
       FinishesSlot, KeysImage, DropsImage, PlaysImage, DrainsImage, FinishesImage, LosesLink,
       UiIdles, SameScreen
  <2>2. DrainsImage => Has(uiQ, The("accepted", Own))
    BY <1>0, TheTake DEF DrainsImage, UiTakesCall
  <2>3. Leaving(Own)' => Leaving(Own)
    <3>1. Leaving(Own)' => Has(ioQ', Last(Own)) \/ Has(uiQ', The("accepted", Own)) \/ io.drain = Own
      BY <1>0, <2>1 DEF Leaving, Last, The
    <3> QED
      BY <1>0, <1>3, <1>4, <3>1 DEF Leaving
  <2>4. (~Busy \/ Has(auQ, Stops)) /\ ~Has(auQ, The("prepare", Own))
    BY <1>3, <2>0, <2>1, <2>2, <2>3 DEF SstvEnd, Leaving
  <2>5. Calmly(auQ, auQ', CalmAu(n))
    BY <1>0, <1>6, <2>1, UiSends DEF ShowsFt8, Talks
  <2>6. (Has(auQ, Stops) => Has(auQ', Stops)) /\ ~Has(auQ', The("prepare", Own))
    BY <1>0, <2>4, <2>5, CalmClasses, CalmHas
  <2> QED
    BY <1>1, <2>1, <2>4, <2>6
<1> QED
  BY <1>5, <1>6

\* A step of the I/O thread brings no image nearer to its end.
LEMMA SstvEndIo ==
  ASSUME TypeOK, KnownCalls, SstvEnd, IoMoves
  PROVE  SstvEnd'
<1>0. /\ uiQ \in Seq(Calls) /\ auQ \in Seq(Calls) /\ IoStep /\ ui' = ui /\ au' = au
      /\ Calmly(auQ, auQ', CalmAu(ui.gen)) /\ Calmly(uiQ, uiQ', CalmUi(ui.gen)) /\ Own \in Nat
      /\ \A g \in Nat : g # 0 /\ Leaving(g)' => Leaving(g)
  BY Queues, IoSends, UiFields DEF TypeOK, IoMoves, Own
<1>1. Has(uiQ', Refused(Own)) => Has(uiQ, Refused(Own))
  BY <1>0, CalmClasses, CalmHas
<1>2. /\ Has(auQ, Stops) => Has(auQ', Stops)
      /\ Has(auQ', The("prepare", Own)) => Has(auQ, The("prepare", Own))
  BY <1>0, CalmClasses, CalmHas
<1>3. /\ Busy' = Busy /\ Own' = Own /\ Refused(Own)' = Refused(Own) /\ The("prepare", Own)' = The("prepare", Own)
      /\ Own # 0 /\ Leaving(Own)' => Leaving(Own)
  BY <1>0 DEF Busy, Own, Refused, The, Leaving, Last
<1> QED
  BY <1>0, <1>1, <1>2, <1>3 DEF SstvEnd

\* The audio thread refuses an image, or sends its last packet, as it stops playing it.
LEMMA SstvEndAu ==
  ASSUME TypeOK, KnownFields, KnownCalls, UiShape, SlotChain, SstvToken, SstvOrder, SstvEnd, MicOrder, AuMoves,
         SstvOrder'
  PROVE  SstvEnd'
<1>0. /\ uiQ \in Seq(Calls) /\ ioQ \in Seq(Calls) /\ auQ \in Seq(Calls) /\ AuStep /\ ui' = ui /\ io' = io
      /\ Own \in Nat /\ tx.gen \in Nat /\ au.gen \in Nat
      /\ (auQ # <<>> => Head(auQ) \in Calls /\ Head(auQ).g \in Nat)
  BY Queues, Taken, UiFields, TxFields, AuFields DEF TypeOK, AuMoves, Own
<1> DEFINE end == Has(uiQ, Refused(Own)) \/ Leaving(Own) \/ ui.draining
           gone == ~Has(auQ', The("prepare", Own))
<1>1. SUFFICES ASSUME Own # 0, Has(uiQ', Refused(Own)) \/ Leaving(Own)' \/ ui.draining
               PROVE  (~Busy' \/ Has(auQ', Stops)) /\ gone
  BY <1>0, Constants DEF SstvEnd, Refused, The, Own
<1>2. ui.ft8 = 0 /\ tx.phase = "Idle"
  BY <1>1 DEF UiShape, Own, SlotChain
\* An image newly at its end is not kept by the audio engine.
<1>3. ASSUME Has(uiQ', Refused(Own)), ~Has(uiQ, Refused(Own)) PROVE ~Busy' /\ gone
  <2>1. ImagePrepares
    BY <1>0, <1>3, AuSends, CalmClasses, CalmHas
  <2>2. PICK ready \in BOOLEAN : (Busy' <=> ready) /\ uiQ' = Append(uiQ, Msg("prepared", Head(auQ).g, ready))
    BY <2>1 DEF ImagePrepares
  <2>3. AuTakesCall /\ Head(auQ).t = "prepare" /\ auQ # <<>>
    BY <2>1 DEF ImagePrepares, AuTakesCall
  <2>4. "prepared" \in CallNames
    BY DEF CallNames, UiCall
  <2>5. Msg("prepared", Head(auQ).g, ready) \in Calls /\ Msg("prepared", Head(auQ).g, ready) \in Refused(Own)
    BY <1>0, <1>3, <2>2, <2>3, <2>4, HasPost, Sent
  <2>6. Head(auQ).g = Own /\ ~ready
    BY <1>0, <2>3, <2>4, <2>5, Sent DEF Refused, The
  <2>7. Once(auQ, The("prepare", Own)) => ~Has(auQ', The("prepare", Own))
    BY <1>0, <2>3, <2>6, AuCalls
  <2>8. Has(auQ, The("prepare", Own))
    BY <1>0, <2>3, <2>6, TheTake
  <2> QED
    BY <1>0, <2>2, <2>6, <2>7, <2>8 DEF SstvToken
<1>4. ASSUME Leaving(Own)', ~Leaving(Own) PROVE ~Busy' /\ gone
  <2>1. Has(ioQ', Last(Own)) /\ ~Has(ioQ, Last(Own))
    <3>1. Leaving(Own)' => Has(ioQ', Last(Own)) \/ Has(uiQ', The("accepted", Own)) \/ io.drain = Own
      BY <1>0 DEF Leaving, Last, The, Own
    <3>2. Has(uiQ', The("accepted", Own)) => Has(uiQ, The("accepted", Own))
      BY <1>0, AuCalls
    <3> QED
      BY <1>4, <3>1, <3>2 DEF Leaving
  <2>2. \A t \in CallNames, h \in Nat, x \in BOOLEAN :
          ioQ' = Append(ioQ, Msg(t, h, x)) => t = "audio" /\ h = Own /\ x
    <3>1. ASSUME NEW t \in CallNames, NEW h \in Nat, NEW x \in BOOLEAN, ioQ' = Append(ioQ, Msg(t, h, x))
          PROVE  t = "audio" /\ h = Own /\ x
      <4>1. Msg(t, h, x) \in Last(Own)
        BY <1>0, <2>1, <3>1, Sent, HasPost
      <4> QED
        BY <4>1, Sent DEF Last, The
    <3> QED
      BY <3>1
  <2>3. {"audio", "stopSched", "beginFt8", "mic"} \subseteq CallNames /\ 0 \in Nat
    BY DEF CallNames, IoCall
  <2>4. ImageGoesOn /\ ioQ' # ioQ
    <3>1. ~SlotFails /\ ~SlotKeys
      BY <1>2 DEF SlotFails, SlotKeys
    <3>2. ~MicSpeaks
      BY <2>2, <2>3 DEF MicSpeaks
    <3> QED
      BY <1>0, <1>2, <2>1, <3>1, <3>2 DEF AuStep, SlotEnds, SlotRefused, SlotWaits, SlotGoesOn,
         ImagePrepares, ImageStops, MicTurns
  <2>5. PICK last \in BOOLEAN : (last => ~Busy') /\ ioQ' = Append(ioQ, Msg("audio", au.gen, last))
    BY <2>4 DEF ImageGoesOn
  <2>6. au.gen = Own /\ ~Busy'
    BY <1>0, <2>2, <2>3, <2>5
  <2>7. ~Has(auQ, The("prepare", Own))
    BY <1>0, <2>6 DEF SstvToken
  <2> QED
    BY <1>0, <2>6, <2>7, AuCalls
<1>5. ASSUME end PROVE (~Busy' \/ Has(auQ', Stops)) /\ gone
  <2>1. (~Busy \/ Has(auQ, Stops)) /\ ~Has(auQ, The("prepare", Own))
    BY <1>1, <1>5 DEF SstvEnd
  <2>2. gone
    BY <1>0, <2>1, AuCalls
  <2>3. ASSUME Busy' => Busy, AuTakesCall, Head(auQ).t \notin {"stopSstv", "stopEngine"}
        PROVE  ~Busy' \/ Has(auQ', Stops)
    <3>1. Head(auQ) \notin Stops
      BY <2>3 DEF Stops, Named
    <3> QED
      BY <1>0, <2>1, <2>3, <3>1, HasTake DEF AuTakesCall
  <2>4. CASE ImagePrepares
    <3>1. AuTakesCall /\ Head(auQ).t = "prepare" /\ auQ # <<>> /\ au'.gen = Head(auQ).g
      BY <2>4 DEF ImagePrepares, AuTakesCall
    <3>2. Has(auQ, The("prepare", Head(auQ).g))
      BY <1>0, <3>1, TheTake
    <3>3. au'.gen # Own
      BY <2>1, <3>1, <3>2
    <3>4. Busy' => Has(auQ', Stops)
      BY <1>0, <3>3 DEF SstvOrder, Closed, Own
    <3> QED
      BY <2>2, <3>4
  <2>5. CASE SlotWaits
    BY <2>2, <2>3, <2>5 DEF SlotWaits, Busy
  <2>6. CASE ImageStops
    BY <2>2, <2>6 DEF ImageStops
  <2>7. CASE SlotRefused \/ MicTurns
    BY <2>2, <2>3, <2>7 DEF SlotRefused, MicTurns, SameImage
  <2>8. CASE auQ' = auQ /\ SameImage
    BY <2>1, <2>2, <2>8 DEF SameImage
  <2>9. CASE AuTakesCall /\ SameImage /\ Head(auQ).t \notin {"stopSstv", "stopEngine"}
    BY <2>2, <2>3, <2>9 DEF SameImage
  <2> QED
    BY <1>0, <2>4, <2>5, <2>6, <2>7, <2>8, <2>9, AuTurns
<1> QED
  BY <1>1, <1>3, <1>4, <1>5

-----------------------------------------------------------------------------
(* MicOrder.                                                                 *)

\* What posting a call to a queue of calls does to what the queue holds.
LEMMA PostHas ==
  ASSUME NEW q \in Seq(Calls), NEW m \in Calls, NEW S
  PROVE  /\ Append(q, m) \in Seq(Calls)
         /\ Has(Append(q, m), S) <=> Has(q, S) \/ m \in S
<1>1. Append(q, m) \in Seq(Calls)
  OBVIOUS
<1> QED
  BY <1>1, HasPost

\* What is closed stays closed under a call that opens nothing.
LEMMA PostClosed ==
  ASSUME NEW q \in Seq(Calls), NEW m \in Calls, NEW open \in BOOLEAN, NEW A, NEW B,
         Closed(q, open, A, B), m \notin A
  PROVE  Closed(Append(q, m), open, A, B)
BY ClosedPost

\* Which of the UI thread's calls to the audio thread open or start something.
LEMMA MicCalls ==
  /\ Msg("ptt", 0, FALSE) \in Calls /\ Msg("ptt", 0, FALSE) \in Off
  /\ Msg("ptt", 0, FALSE) \notin On
  /\ Msg("ptt", 0, TRUE) \in Calls /\ Msg("ptt", 0, TRUE) \in On
  /\ Msg("ptt", 0, TRUE) \notin Starts
  /\ \A g \in Nat :
       /\ Msg("schedule", g, FALSE) \in Calls /\ Msg("schedule", g, FALSE) \notin On
       /\ Msg("prepare", g, FALSE) \in Calls /\ Msg("prepare", g, FALSE) \notin On
       /\ Msg("stopEngine", g, FALSE) \in Calls /\ Msg("stopEngine", g, FALSE) \notin On
<1>1. \A t \in CallNames, h \in Nat, x \in BOOLEAN :
        Msg(t, h, x) \in Calls /\ Msg(t, h, x).t = t /\ Msg(t, h, x).x = x
  BY Sent
<1>2. {"schedule", "prepare", "ptt", "stopEngine"} \subseteq CallNames
  BY DEF CallNames, AuCall
<1> QED
  BY <1>1, <1>2 DEF On, Off, Starts, Named

\* The UI thread opens the microphone only when it shows no transmission.
LEMMA MicOrderUi ==
  ASSUME TypeOK, KnownFields, KnownCalls, UiShape, SlotChain, MicOrder, UiMoves
  PROVE  MicOrder'
<1> DEFINE n == ui'.gen
           slot == tx.phase # "Idle"
           mic == au.ptt
           no == FALSE
<1>0. /\ auQ \in Seq(Calls) /\ UiStep /\ tx' = tx /\ au \in AuType /\ ui.gen \in Nat
      /\ ui.gen + 1 # 0 /\ ui.gen + 1 \in Nat
  BY Queues, UiFields DEF TypeOK, UiMoves
<1>1. au'.ptt = mic
  BY <1>0 DEF UiStep, ShowsFt8, ShowsSstv, Talks, FallsSilent, HaltsSlot, StopsImage,
     FinishesSlot, KeysImage, DropsImage, PlaysImage, DrainsImage, FinishesImage, LosesLink,
     UiIdles, AuType
<1>2. slot \in BOOLEAN /\ mic \in BOOLEAN /\ no \in BOOLEAN /\ ~no
  BY <1>0 DEF AuType
<1>3. /\ ~ui.ptt => Closed(auQ, mic, On, Off)
      /\ ClosedBefore(auQ, mic, On, Off, Starts)
      /\ ClosedBefore(auQ, slot, Schedules, {}, On)
      /\ Own # 0 => ClosedBefore(auQ, no, The("prepare", Own), {}, On)
      /\ slot => ~mic
  BY DEF MicOrder
<1>4. ~ShowsFt8 /\ ~ShowsSstv /\ ~Talks => Calmly(auQ, auQ', CalmAu(n))
  BY <1>0, UiSends
<1> HIDE DEF n, slot, mic, no
<1>5. /\ CalmAu(n) \subseteq Calls /\ Starts \cap CalmAu(n) = {} /\ On \cap CalmAu(n) = {}
  BY CalmClasses
\* The microphone closes ...
<1>6. ~ui'.ptt => Closed(auQ', mic, On, Off)
  <2>1. CASE ShowsFt8 \/ ShowsSstv
    BY <1>0, <1>2, <1>3, <2>1, MicCalls, ClosedPost DEF ShowsFt8, ShowsSstv
  <2>2. CASE Talks
    BY <2>2 DEF Talks
  <2>3. CASE FallsSilent
    BY <1>0, <1>2, <2>3, MicCalls, ClosedPost DEF FallsSilent
  <2>4. CASE LosesLink
    <3>1. auQ' = Append(Append(auQ, Msg("ptt", 0, FALSE)), Msg("stopEngine", 0, FALSE))
      BY <2>4 DEF LosesLink
    <3>2. Closed(Append(auQ, Msg("ptt", 0, FALSE)), mic, On, Off)
      BY <1>0, <1>2, MicCalls, ClosedPost
    <3>3. Append(auQ, Msg("ptt", 0, FALSE)) \in Seq(Calls)
      BY <1>0, MicCalls, PostHas
    <3> QED
      BY <1>0, <1>2, <3>1, <3>2, <3>3, MicCalls, ClosedPost
  <2>5. CASE ~ShowsFt8 /\ ~ShowsSstv /\ ~Talks /\ ~FallsSilent /\ ~LosesLink
    <3>1. ~ui'.ptt => ~ui.ptt
      BY <1>0, <2>5 DEF UiStep, HaltsSlot, StopsImage, FinishesSlot, KeysImage, DropsImage,
         PlaysImage, DrainsImage, FinishesImage, UiIdles, SameScreen, UiShape
    <3> QED
      BY <1>0, <1>2, <1>3, <1>4, <1>5, <2>5, <3>1, CalmClosed
  <2> QED
    BY <2>1, <2>2, <2>3, <2>4, <2>5
\* ... before anything starts, ...
<1>7. ClosedBefore(auQ', mic, On, Off, Starts)
  <2>1. CASE ShowsFt8 \/ ShowsSstv
    <3>1. Closed(auQ, mic, On, Off)
      BY <1>3, <2>1 DEF ShowsFt8, ShowsSstv
    <3> QED
      BY <1>0, <1>2, <1>3, <2>1, <3>1, MicCalls, BeforePost DEF ShowsFt8, ShowsSstv
  <2>2. CASE Talks
    BY <1>0, <1>2, <1>3, <2>2, MicCalls, BeforePost DEF Talks
  <2>3. CASE ~ShowsFt8 /\ ~ShowsSstv /\ ~Talks
    BY <1>0, <1>2, <1>3, <1>4, <1>5, <2>3, CalmBefore
  <2> QED
    BY <2>1, <2>2, <2>3
\* ... and opens only when a slot ...
<1>8. ClosedBefore(auQ', slot, Schedules, {}, On)
  <2>1. CASE ShowsFt8 \/ ShowsSstv
    BY <1>0, <1>2, <1>3, <2>1, MicCalls, BeforePost DEF ShowsFt8, ShowsSstv
  <2>2. CASE Talks
    <3>1. slot = FALSE /\ ~Has(auQ, Schedules)
      BY <2>2, NoSlot DEF Talks, slot
    <3>2. Closed(auQ, slot, Schedules, {})
      BY <3>1, NothingOpen
    <3> QED
      BY <1>0, <1>2, <1>3, <2>2, <3>2, MicCalls, BeforePost DEF Talks
  <2>3. CASE ~ShowsFt8 /\ ~ShowsSstv /\ ~Talks
    BY <1>0, <1>2, <1>3, <1>4, <1>5, <2>3, CalmBefore
  <2> QED
    BY <2>1, <2>2, <2>3
\* ... or an image is not expected any more.
<1>9. Own' # 0 => ClosedBefore(auQ', no, The("prepare", Own'), {}, On)
  <2>1. CASE ShowsSstv
    <3> DEFINE P == The("prepare", ui.gen + 1)
    <3>1. Own' = ui.gen + 1 /\ auQ' = Append(auQ, Msg("prepare", ui.gen + 1, FALSE))
      BY <2>1 DEF ShowsSstv
    <3>2. ~Has(auQ, P)
      BY NotYet
    <3> HIDE DEF P
    <3>3. ClosedBefore(auQ, no, P, {}, On)
      BY <3>2, NothingOpen DEF no
    <3>4. ClosedBefore(auQ', no, P, {}, On)
      BY <1>0, <1>2, <3>1, <3>3, MicCalls, BeforePost
    <3> QED
      BY <3>1, <3>4 DEF P
  <2>2. CASE Talks \/ ShowsFt8
    BY <2>2 DEF Talks, ShowsFt8
  <2>3. CASE ~ShowsFt8 /\ ~ShowsSstv /\ ~Talks
    <3>1. Own' \in {0, Own}
      BY <1>0, <2>3 DEF UiStep, FallsSilent, HaltsSlot, StopsImage, FinishesSlot, KeysImage,
         DropsImage, PlaysImage, DrainsImage, FinishesImage, LosesLink, UiIdles, SameScreen
    <3>2. Own # 0 => ClosedBefore(auQ', no, The("prepare", Own), {}, On)
      BY <1>0, <1>2, <1>3, <1>4, <1>5, <2>3, CalmBefore
    <3> QED
      BY <3>1, <3>2
  <2> QED
    BY <2>1, <2>2, <2>3
<1>10. The("prepare", Own)' = The("prepare", Own')
  BY DEF The
<1> QED
  BY <1>0, <1>1, <1>3, <1>6, <1>7, <1>8, <1>9, <1>10 DEF MicOrder, slot, no

\* The I/O thread neither opens the microphone nor starts anything.
LEMMA MicOrderIo ==
  ASSUME TypeOK, KnownCalls, MicOrder, IoMoves
  PROVE  MicOrder'
<1> DEFINE n == ui.gen
           slot == tx.phase # "Idle"
           mic == au.ptt
           no == FALSE
<1>0. /\ auQ \in Seq(Calls) /\ IoStep /\ ui' = ui /\ tx' = tx /\ au' = au /\ au \in AuType
      /\ Calmly(auQ, auQ', CalmAu(n))
  BY Queues, IoSends DEF IoMoves, TypeOK
<1>1. slot \in BOOLEAN /\ mic \in BOOLEAN /\ no \in BOOLEAN
  BY <1>0 DEF AuType
<1>2. /\ ~ui.ptt => Closed(auQ, mic, On, Off)
      /\ ClosedBefore(auQ, mic, On, Off, Starts)
      /\ ClosedBefore(auQ, slot, Schedules, {}, On)
      /\ Own # 0 => ClosedBefore(auQ, no, The("prepare", Own), {}, On)
  BY DEF MicOrder
<1> HIDE DEF n, slot, mic, no
<1>3. /\ CalmAu(n) \subseteq Calls /\ Starts \cap CalmAu(n) = {} /\ On \cap CalmAu(n) = {}
  BY CalmClasses
<1>4. ~ui.ptt => Closed(auQ', mic, On, Off)
  BY <1>0, <1>1, <1>2, <1>3, CalmClosed
<1>5. ClosedBefore(auQ', mic, On, Off, Starts)
  BY <1>0, <1>1, <1>2, <1>3, CalmBefore
<1>6. ClosedBefore(auQ', slot, Schedules, {}, On)
  BY <1>0, <1>1, <1>2, <1>3, CalmBefore
<1>7. Own # 0 => ClosedBefore(auQ', no, The("prepare", Own), {}, On)
  BY <1>0, <1>1, <1>2, <1>3, CalmBefore
<1>8. Own' = Own /\ The("prepare", Own)' = The("prepare", Own)
  BY <1>0 DEF Own, The
<1> QED
  BY <1>0, <1>4, <1>5, <1>6, <1>7, <1>8 DEF MicOrder, slot, mic, no

\* The audio thread works its queue off.
LEMMA MicOrderAu ==
  ASSUME TypeOK, SlotChain, SstvToken, SstvOrder, MicOrder, AuMoves
  PROVE  MicOrder'
<1> DEFINE slot == tx.phase # "Idle"
           slot2 == tx'.phase # "Idle"
           mic == au.ptt
           mic2 == au'.ptt
           no == FALSE
           own == Own
           Order(m, s) == /\ ~ui.ptt => Closed(auQ', m, On, Off)
                          /\ ClosedBefore(auQ', m, On, Off, Starts)
                          /\ ClosedBefore(auQ', s, Schedules, {}, On)
                          /\ own # 0 => ClosedBefore(auQ', no, The("prepare", own), {}, On)
                          /\ s => ~m
<1>0. /\ auQ \in Seq(Calls) /\ AuStep /\ ui' = ui /\ au \in AuType
      /\ (auQ # <<>> => Head(auQ) \in Calls)
  BY Queues, Taken DEF AuMoves, TypeOK
<1>00. au' \in AuType => mic2 \in BOOLEAN
  BY DEF AuType
<1>1. slot \in BOOLEAN /\ slot2 \in BOOLEAN /\ mic \in BOOLEAN /\ no \in BOOLEAN /\ ~no
  BY <1>0 DEF AuType
<1>2. /\ ~ui.ptt => Closed(auQ, mic, On, Off)
      /\ ClosedBefore(auQ, mic, On, Off, Starts)
      /\ ClosedBefore(auQ, slot, Schedules, {}, On)
      /\ own # 0 => ClosedBefore(auQ, no, The("prepare", own), {}, On)
      /\ slot => ~mic
  BY DEF MicOrder
<1>3. (SameMic => mic2 = mic) /\ (SlotStays => (slot2 => slot))
  BY DEF SameMic, SlotStays
<1>4. auQ # <<>> => /\ Head(auQ) \in On <=> Head(auQ).t = "ptt" /\ Head(auQ).x
                    /\ Head(auQ) \in Off <=> Head(auQ).t = "ptt" /\ ~Head(auQ).x
                    /\ Head(auQ).t = "schedule" => Head(auQ) \in Schedules
                    /\ Head(auQ).t # "prepare" => Head(auQ) \notin The("prepare", own)
  BY <1>0 DEF On, Off, Schedules, Named, The
<1> HIDE DEF own
\* What a call taken from the queue may do.
<1>5. ASSUME AuTakesCall, mic2 \in BOOLEAN,
             mic2 => Head(auQ) \in On \/ (mic /\ Head(auQ) \notin Off),
             slot2 => Head(auQ) \in Schedules \/ slot,
             slot2 => ~mic2
      PROVE  Order(mic2, slot2)
  <2> HIDE DEF slot, slot2, mic, mic2, no
  <2>0. auQ # <<>> /\ auQ' = Tail(auQ)
    BY <1>5 DEF AuTakesCall
  <2>1. ~ui.ptt => Closed(auQ', mic2, On, Off)
    BY <1>0, <1>1, <1>2, <1>5, <2>0, ClosedTake
  <2>2. ClosedBefore(auQ', mic2, On, Off, Starts)
    BY <1>0, <1>1, <1>2, <1>5, <2>0, BeforeTake
  <2>3. ClosedBefore(auQ', slot2, Schedules, {}, On)
    BY <1>0, <1>1, <1>2, <1>5, <2>0, BeforeTake
  <2>4. own # 0 => ClosedBefore(auQ', no, The("prepare", own), {}, On)
    BY <1>0, <1>1, <1>2, <2>0, BeforeTake
  <2> QED
    BY <1>5, <2>1, <2>2, <2>3, <2>4
<1> SUFFICES Order(mic2, slot2)
  <2>1. Own' = own /\ The("prepare", Own)' = The("prepare", own)
    BY <1>0 DEF own, Own, The
  <2> QED
    BY <1>0, <2>1 DEF MicOrder
<1>6. CASE auQ' = auQ /\ SameMic /\ SlotStays
  <2> HIDE DEF slot, slot2, mic, mic2, no
  <2>1. ClosedBefore(auQ', slot2, Schedules, {}, On)
    BY <1>1, <1>2, <1>3, <1>6, BeforeMore
  <2> QED
    BY <1>2, <1>3, <1>6, <2>1
<1>7. CASE AuTakesCall /\ SameMic /\ SlotStays /\ Head(auQ).t # "ptt"
  BY <1>1, <1>2, <1>3, <1>4, <1>5, <1>7 DEF AuTakesCall
<1>8. CASE SlotWaits
  <2>1. AuTakesCall /\ Head(auQ).t = "schedule" /\ au' = au /\ auQ # <<>>
    BY <1>8 DEF SlotWaits, AuTakesCall
  <2>2. ~mic2 /\ Head(auQ) \in Schedules /\ mic2 \in BOOLEAN
    BY <1>1, <1>4, <2>1, HeadIsClear
  <2> QED
    BY <1>5, <2>1, <2>2
<1>9. CASE ImageStops
  BY <1>1, <1>2, <1>4, <1>5, <1>9 DEF ImageStops, AuTakesCall
<1>10. CASE MicTurns
  <2>1. /\ AuTakesCall /\ Head(auQ).t = "ptt" /\ tx' = tx /\ auQ # <<>>
        /\ mic2 \in {mic, Head(auQ).x} /\ (~Head(auQ).x => ~mic2)
    BY <1>10 DEF MicTurns, AuTakesCall
  <2>2. Head(auQ).x \in BOOLEAN
    BY <1>0, <2>1, Taken
  <2>3. mic2 \in BOOLEAN
    BY <1>1, <2>1, <2>2
  <2>4. mic2 => Head(auQ) \in On \/ (mic /\ Head(auQ) \notin Off)
    BY <1>4, <2>1, <2>2
  <2>5. Head(auQ) \in On => ~slot
    BY <2>1, HeadIsClear
  <2> QED
    BY <1>2, <1>5, <2>1, <2>3, <2>4, <2>5
<1>11. SlotRefused \/ ImagePrepares => AuTakesCall /\ SameMic /\ SlotStays /\ Head(auQ).t # "ptt"
  BY DEF SlotRefused, ImagePrepares, SlotStays
<1> HIDE DEF Order
<1> QED
  BY <1>0, <1>6, <1>7, <1>8, <1>9, <1>10, <1>11, AuTurns

-----------------------------------------------------------------------------
(* Calls that begin and end a lease.                                         *)

\* Which of the calls to the I/O thread are in which class.
LEMMA LeaseCalls ==
  /\ Msg("mic", 0, FALSE) \in Calls /\ Msg("mic", 0, FALSE) \notin BeginsSstv
  /\ Msg("tx", 0, FALSE) \in Calls /\ Msg("tx", 0, FALSE) \notin BeginsSstv
  /\ Msg("stop", 0, FALSE) \in Calls /\ Msg("stop", 0, FALSE) \in Halts
  /\ Msg("stop", 0, FALSE) \notin BeginsSstv
  /\ \A g \in Nat :
       /\ Msg("beginSstv", g, FALSE) \in Calls /\ Msg("beginSstv", g, FALSE) \notin Mics
       /\ Msg("beginSstv", g, FALSE) \notin BeginsBut(g)
       /\ Msg("beginFt8", g, FALSE) \in Calls /\ Msg("beginFt8", g, FALSE) \notin Mics
       /\ Msg("beginFt8", g, FALSE) \notin BeginsSstv
<1>1. \A t \in CallNames, h \in Nat, x \in BOOLEAN :
        Msg(t, h, x) \in Calls /\ Msg(t, h, x).t = t /\ Msg(t, h, x).g = h
  BY Sent
<1>2. {"beginSstv", "beginFt8", "mic", "tx", "stop"} \subseteq CallNames
  BY DEF CallNames, IoCall
<1> QED
  BY <1>1, <1>2, ZenonT(40) DEF Mics, BeginsBut, BeginsSstv, Halts, Named, The

\* How the classes contain each other.
LEMMA LeaseClasses ==
  ASSUME NEW g
  PROVE  /\ Halts \subseteq Ends(g) /\ BeginsBut(0) = BeginsSstv /\ BeginsBut(g) \subseteq BeginsSstv
         /\ LiveBegins(0) = {} /\ LiveBegins(g) \subseteq The("beginFt8", g)
  BY DEF Ends, BeginsBut, BeginsSstv, LiveBegins

\* What the head of the I/O thread's queue begins or ends.
LEMMA LeaseHead ==
  ASSUME TypeOK, ioQ # <<>>
  PROVE  /\ ioQ \in Seq(Calls) /\ Head(ioQ) \in Calls /\ Head(ioQ).g \in Nat
         /\ Head(ioQ).t = "beginSstv" /\ Head(ioQ).g # 0 => Head(ioQ) \in BeginsSstv
         /\ \A g : /\ Head(ioQ).t = "beginFt8" /\ Head(ioQ).g = g /\ g # 0 => Head(ioQ) \in LiveBegins(g)
                   /\ Head(ioQ) \in Ends(g) => Head(ioQ).t = "stop" \/ (Head(ioQ).t = "stopSched" /\ Head(ioQ).g = g)
                   /\ Head(ioQ) \in BeginsSstv /\ Head(ioQ).g # g => Head(ioQ) \in BeginsBut(g)
         /\ \A S : Has(ioQ, S) => Head(ioQ) \in S \/ Has(Tail(ioQ), S)
<1>1. ioQ \in Seq(Calls) /\ Head(ioQ) \in Calls /\ Head(ioQ).g \in Nat
  BY Queues, Taken
<1>2. \A S : Has(ioQ, S) => Head(ioQ) \in S \/ Has(Tail(ioQ), S)
  BY <1>1, HasTake
<1> QED
  BY <1>1, <1>2 DEF BeginsSstv, BeginsBut, LiveBegins, The, Ends, Halts, Named

\* A lease that was about to end, and has not ended, still is; one just taken by
\* an image behind which a halt waits is about to end, too.
LEMMA LeaseGoesOn ==
  ASSUME TypeOK, IoStep
  PROVE  /\ line'.lease # 0 => \/ IoKeys
                               \/ line'.lease = line.lease /\ (Has(ioQ, Ends(line.lease)) => Has(ioQ', Ends(line.lease)))
         /\ IoKeys => /\ Head(ioQ).g # 0 /\ line'.lease = Head(ioQ).g
                      /\ (Head(ioQ).t = "beginFt8" /\ Head(ioQ).g = ctl.sched) \/ Head(ioQ) \in BeginsSstv
                      /\ \A A : Head(ioQ) \in A /\ Closed(ioQ, FALSE, A, Halts) => Has(ioQ', Ends(Head(ioQ).g))
<1>1. CASE IoIdles
  <2>1. CASE IoTakesCall /\ Head(ioQ).t \notin {"stop", "stopSched"}
    BY <1>1, <2>1, LeaseHead DEF IoIdles, SameLease, IoTakesCall, IoKeys
  <2> QED
    BY <1>1, <2>1 DEF IoIdles, SameLease, IoKeys
<1>2. CASE IoReleases
  BY <1>2, LeaseHead DEF IoReleases, IoKeys
<1>3. CASE IoStops
  BY <1>3, LeaseHead DEF IoStops, IoTakesCall, IoKeys
<1>4. CASE IoKeys
  <2>1. /\ ioQ # <<>> /\ ioQ' = Tail(ioQ) /\ Head(ioQ).g # 0 /\ line'.lease = Head(ioQ).g
        /\ Head(ioQ).t = "beginSstv" \/ (Head(ioQ).t = "beginFt8" /\ Head(ioQ).g = ctl.sched)
    BY <1>4 DEF IoKeys, IoTakesCall
  <2>2. (Head(ioQ).t = "beginFt8" /\ Head(ioQ).g = ctl.sched) \/ Head(ioQ) \in BeginsSstv
    BY <2>1, LeaseHead
  <2>3. ASSUME NEW A, Head(ioQ) \in A, Closed(ioQ, FALSE, A, Halts) PROVE Has(ioQ', Ends(Head(ioQ).g))
    <3> DEFINE no == FALSE
               yes == TRUE
    <3>1. no \in BOOLEAN /\ yes \in BOOLEAN /\ Closed(ioQ, no, A, Halts) /\ ioQ \in Seq(Calls)
      BY <2>1, <2>3, LeaseHead
    <3> HIDE DEF no, yes
    <3>2. Closed(ioQ', yes, A, Halts)
      BY <2>1, <2>3, <3>1, ClosedTake
    <3>3. Has(ioQ', Halts)
      BY <3>2, ClosedHas DEF yes
    <3> QED
      BY <3>3, LeaseClasses, HasMore
  <2> QED
    BY <1>4, <2>1, <2>2, <2>3
<1> QED
  BY <1>1, <1>2, <1>3, <1>4 DEF IoStep

-----------------------------------------------------------------------------
(* Owned.                                                                    *)

\* A transmission leaves the screen with its lease ended or about to end.
LEMMA OwnedUi ==
  ASSUME TypeOK, KnownFields, SlotEnd, SstvToken, Owned, UiMoves
  PROVE  Owned'
<1> DEFINE n == ui'.gen
           no == FALSE
<1>0. /\ ioQ \in Seq(Calls) /\ uiQ \in Seq(Calls) /\ UiStep /\ line'.lease = line.lease
      /\ ui.gen \in Nat /\ ui.ft8 \in Nat /\ Own \in Nat
  BY Queues, UiFields DEF TypeOK, UiMoves, SameLease, Own
<1>1. /\ line.lease # 0 => line.lease = ui.ft8 \/ line.lease = Own \/ Has(ioQ, Ends(line.lease))
      /\ Closed(ioQ, no, BeginsBut(Own), Halts) /\ no \in BOOLEAN
  BY DEF Owned
<1>2. ~KeysImage => Calmly(ioQ, ioQ', CalmIo(n))
  BY <1>0, UiSends
<1> HIDE DEF n, no
<1>3. /\ CalmIo(n) \subseteq Calls /\ BeginsSstv \cap CalmIo(n) = {}
      /\ \A g : BeginsBut(g) \cap CalmIo(n) = {}
  BY CalmClasses
<1>4. ASSUME NEW S, Has(ioQ, S) PROVE Has(ioQ', S)
  <2>1. CASE KeysImage
    BY <1>0, <1>4, <2>1, LeaseCalls, HasPost, ZenonT(40) DEF KeysImage
  <2> QED
    BY <1>0, <1>2, <1>3, <1>4, <2>1, CalmHas
\* An image dropped before it was begun never will be.
<1>5. DropsImage => Own # line.lease /\ ~Has(ioQ, The("beginSstv", Own))
  BY <1>0, TheTake DEF DropsImage, UiTakesCall, SstvToken, Unborn
<1>6. StopsImage \/ FinishesImage => Has(ioQ', Halts) /\ ioQ' = Append(ioQ, Msg("stop", 0, FALSE))
  <2>1. Msg("stop", 0, FALSE) \in Calls /\ Msg("stop", 0, FALSE) \in Halts
    BY LeaseCalls
  <2>2. Has(Append(ioQ, Msg("stop", 0, FALSE)), Halts)
    BY <1>0, <2>1, PostHas
  <2>3. StopsImage \/ FinishesImage => ioQ' = Append(ioQ, Msg("stop", 0, FALSE))
    BY DEF StopsImage, FinishesImage
  <2> QED
    BY <2>2, <2>3
<1>7. FinishesSlot /\ line.lease = ui.ft8 => Has(ioQ, The("stopSched", ui.ft8))
  BY <1>0, TheTake DEF FinishesSlot, UiTakesCall, SlotEnd
<1>8. \A g : Halts \subseteq Ends(g) /\ The("stopSched", g) \subseteq Ends(g)
  BY DEF Ends
<1>9. \/ Own' = Own /\ ~ShowsSstv /\ ~DropsImage
      \/ DropsImage \/ ShowsSstv \/ StopsImage \/ FinishesImage
  BY <1>0 DEF UiStep, ShowsFt8, Talks, FallsSilent, HaltsSlot, FinishesSlot, KeysImage,
     PlaysImage, DrainsImage, LosesLink, UiIdles, SameScreen, DropsImage
<1>10. ASSUME line.lease # 0
       PROVE  line.lease = ui'.ft8 \/ line.lease = Own' \/ Has(ioQ', Ends(line.lease))
  <2>1. CASE line.lease = ui.ft8
    <3>1. FinishesSlot => Has(ioQ', Ends(line.lease))
      BY <1>4, <1>7, <1>8, <2>1, HasMore
    <3> QED
      BY <1>0, <1>10, <2>1, <3>1, UiSlot DEF ShowsFt8
  <2>2. CASE line.lease = Own
    <3>1. StopsImage \/ FinishesImage => Has(ioQ', Ends(line.lease))
      BY <1>6, <1>8, HasMore
    <3> QED
      BY <1>5, <1>9, <1>10, <2>2, <3>1 DEF ShowsSstv
  <2> QED
    BY <1>1, <1>4, <1>10, <2>1, <2>2
<1>11. Closed(ioQ', no, BeginsBut(Own'), Halts)
  <2>1. CASE KeysImage
    <3>1. Own' = Own /\ ioQ' = Append(ioQ, Msg("beginSstv", Own, FALSE))
      BY <2>1 DEF KeysImage, SameScreen
    <3> QED
      BY <1>0, <1>1, <3>1, LeaseCalls, ClosedPost
  <2>2. CASE StopsImage \/ FinishesImage
    <3>1. Own' = 0 /\ BeginsBut(Own') = BeginsSstv
      BY <2>2, LeaseClasses DEF StopsImage, FinishesImage
    <3> QED
      BY <1>0, <1>1, <1>6, <2>2, <3>1, LeaseCalls, ClosedPost
  <2>3. CASE DropsImage
    <3>1. Own' = 0 /\ ioQ' = ioQ /\ BeginsBut(Own') = BeginsSstv
      BY <2>3, LeaseClasses DEF DropsImage
    <3>2. ASSUME NEW j \in DOMAIN ioQ, ioQ[j] \in BeginsSstv PROVE ioQ[j] \in BeginsBut(Own)
      BY <1>5, <2>3, <3>2 DEF BeginsSstv, BeginsBut, Named, Has, The
    <3> QED
      BY <1>1, <3>1, <3>2 DEF Closed
  <2>4. CASE Own' = Own /\ ~KeysImage
    BY <1>0, <1>1, <1>2, <1>3, <2>4, CalmClosed
  <2>5. CASE ShowsSstv
    <3>1. Own = 0 /\ ~KeysImage
      BY <2>5 DEF ShowsSstv, KeysImage
    <3>2. Closed(ioQ, no, BeginsBut(Own'), Halts)
      BY <1>1, <3>1, LeaseClasses, ClosedMore
    <3> QED
      BY <1>0, <1>1, <1>2, <1>3, <3>1, <3>2, CalmClosed
  <2> QED
    BY <1>9, <2>1, <2>2, <2>3, <2>4, <2>5
<1>12. Ends(line.lease)' = Ends(line.lease) /\ BeginsBut(Own)' = BeginsBut(Own')
  BY <1>0 DEF Ends, The, BeginsBut
<1> QED
  BY <1>0, <1>10, <1>11, <1>12 DEF Owned, no

\* What the I/O thread keys is on the screen, or its end is in the queue.
LEMMA OwnedIo ==
  ASSUME TypeOK, SlotChain, Owned, IoMoves
  PROVE  Owned'
<1> DEFINE no == FALSE
<1>0. ioQ \in Seq(Calls) /\ IoStep /\ ui' = ui /\ ui.gen \in Nat /\ Own \in Nat /\ Own' = Own
  BY Queues, UiFields DEF TypeOK, IoMoves, Own
<1>1. /\ line.lease # 0 => line.lease = ui.ft8 \/ line.lease = Own \/ Has(ioQ, Ends(line.lease))
      /\ Closed(ioQ, no, BeginsBut(Own), Halts) /\ no \in BOOLEAN /\ ~no
  BY DEF Owned
<1>2. ioQ' = ioQ \/ IoTakesCall
  BY <1>0 DEF IoStep, IoIdles, IoReleases, IoStops, IoKeys
<1>3. ASSUME line'.lease # 0
      PROVE  line'.lease = ui.ft8 \/ line'.lease = Own \/ Has(ioQ', Ends(line'.lease))
  <2>1. CASE line'.lease = line.lease /\ (Has(ioQ, Ends(line.lease)) => Has(ioQ', Ends(line.lease)))
    BY <1>1, <1>3, <2>1
  <2>2. CASE IoKeys
    <3>1. /\ Head(ioQ).g # 0 /\ line'.lease = Head(ioQ).g
          /\ (Head(ioQ).t = "beginFt8" /\ Head(ioQ).g = ctl.sched) \/ Head(ioQ) \in BeginsSstv
          /\ \A A : Head(ioQ) \in A /\ Closed(ioQ, FALSE, A, Halts) => Has(ioQ', Ends(Head(ioQ).g))
      BY <1>0, <2>2, LeaseGoesOn
    <3>2. CASE Head(ioQ).g = ctl.sched
      BY <3>1, <3>2 DEF SlotChain
    <3>3. CASE Head(ioQ) \in BeginsSstv /\ Head(ioQ).g # Own
      <4>1. Head(ioQ) \in BeginsBut(Own)
        BY <3>3 DEF BeginsBut
      <4> QED
        BY <1>1, <3>1, <4>1 DEF no
    <3> QED
      BY <3>1, <3>2, <3>3
  <2> QED
    BY <1>0, <1>3, <2>1, <2>2, LeaseGoesOn
<1> HIDE DEF no
<1>4. Closed(ioQ', no, BeginsBut(Own), Halts)
  BY <1>0, <1>1, <1>2, ClosedTake DEF IoTakesCall
<1>5. Ends(line.lease)' = Ends(line'.lease) /\ BeginsBut(Own)' = BeginsBut(Own)
  BY <1>0 DEF Ends, The, BeginsBut
<1> QED
  BY <1>0, <1>3, <1>4, <1>5 DEF Owned, no

\* What the audio thread adds to the I/O thread's queue.
LEMMA AuAdds ==
  ASSUME TypeOK, KnownFields, KnownCalls, AuStep
  PROVE  /\ CalmIo(ui.gen) \subseteq Calls /\ tx.gen \in Nat
         /\ \/ Calmly(ioQ, ioQ', CalmIo(ui.gen)) /\ ~SlotKeys /\ ~MicSpeaks
            \/ SlotKeys /\ ioQ' = Append(ioQ, Msg("beginFt8", tx.gen, FALSE))
            \/ MicSpeaks /\ ioQ' = Append(ioQ, Msg("mic", 0, FALSE))
         /\ \A S : Has(ioQ, S) => Has(ioQ', S)
         /\ \A S : BeginsSstv \cap S = S /\ Closed(ioQ, FALSE, S, Halts) => Closed(ioQ', FALSE, S, Halts)
         /\ ctl'.sched \in {ctl.sched, 0}
<1> DEFINE n == ui.gen
           no == FALSE
<1>0. ioQ \in Seq(Calls) /\ tx.gen \in Nat /\ no \in BOOLEAN
  BY Queues, TxFields DEF TypeOK
<1>1. \/ Calmly(ioQ, ioQ', CalmIo(n)) /\ ~SlotKeys /\ ~MicSpeaks
      \/ SlotKeys /\ ioQ' = Append(ioQ, Msg("beginFt8", tx.gen, FALSE))
      \/ MicSpeaks /\ ioQ' = Append(ioQ, Msg("mic", 0, FALSE))
  BY AuSends DEF SlotKeys, MicSpeaks
<1>2. ctl'.sched \in {ctl.sched, 0}
  BY DEF AuStep, SlotFails, SlotEnds, SlotRefused, SlotWaits, SlotKeys, SlotGoesOn,
     ImagePrepares, ImageGoesOn, ImageStops, MicTurns, MicSpeaks, SameRights
<1> HIDE DEF n, no
<1>3. CalmIo(n) \subseteq Calls /\ BeginsSstv \cap CalmIo(n) = {}
  BY CalmClasses
<1>4. \A S : Has(ioQ, S) => Has(ioQ', S)
  <2> SUFFICES ASSUME NEW S, Has(ioQ, S) PROVE Has(ioQ', S)
    OBVIOUS
  <2>1. CASE Calmly(ioQ, ioQ', CalmIo(n))
    BY <1>0, <1>3, <2>1, CalmHas
  <2>2. Msg("beginFt8", tx.gen, FALSE) \in Calls /\ Msg("mic", 0, FALSE) \in Calls
    BY <1>0, LeaseCalls
  <2>3. /\ Has(Append(ioQ, Msg("beginFt8", tx.gen, FALSE)), S)
        /\ Has(Append(ioQ, Msg("mic", 0, FALSE)), S)
    BY <1>0, <2>2, PostHas
  <2> QED
    BY <1>1, <2>1, <2>3
<1>5. ASSUME NEW S, BeginsSstv \cap S = S, Closed(ioQ, no, S, Halts) PROVE Closed(ioQ', no, S, Halts)
  <2>1. /\ S \cap CalmIo(n) = {} /\ Msg("beginFt8", tx.gen, FALSE) \notin S /\ Msg("mic", 0, FALSE) \notin S
    BY <1>0, <1>3, <1>5, LeaseCalls
  <2>2. CASE Calmly(ioQ, ioQ', CalmIo(n))
    BY <1>0, <1>3, <1>5, <2>1, <2>2, CalmClosed
  <2>3. CASE ioQ' = Append(ioQ, Msg("beginFt8", tx.gen, FALSE))
    <3>1. Msg("beginFt8", tx.gen, FALSE) \in Calls
      BY <1>0, LeaseCalls
    <3> QED
      BY <1>0, <1>5, <2>1, <2>3, <3>1, PostClosed
  <2>4. CASE ioQ' = Append(ioQ, Msg("mic", 0, FALSE))
    <3>1. Msg("mic", 0, FALSE) \in Calls
      BY LeaseCalls
    <3> QED
      BY <1>0, <1>5, <2>1, <2>4, <3>1, PostClosed
  <2> QED
    BY <1>1, <2>2, <2>3, <2>4
<1> QED
  BY <1>0, <1>1, <1>2, <1>3, <1>4, <1>5 DEF n, no

\* The audio thread ends no lease and begins no image's.
LEMMA OwnedAu ==
  ASSUME TypeOK, KnownFields, KnownCalls, Owned, AuMoves
  PROVE  Owned'
<1>0. AuStep /\ ui' = ui /\ line'.lease = line.lease /\ Own' = Own
  BY DEF AuMoves, SameLease, Own
<1>1. Has(ioQ, Ends(line.lease)) => Has(ioQ', Ends(line.lease))
  BY <1>0, AuAdds
<1>2. BeginsSstv \cap BeginsBut(Own) = BeginsBut(Own)
  BY DEF BeginsBut
<1>3. Closed(ioQ', FALSE, BeginsBut(Own), Halts)
  BY <1>0, <1>2, AuAdds DEF Owned
<1>4. Ends(line.lease)' = Ends(line.lease) /\ BeginsBut(Own)' = BeginsBut(Own)
  BY <1>0 DEF Ends, The, BeginsBut
<1> QED
  BY <1>0, <1>1, <1>3, <1>4 DEF Owned

-----------------------------------------------------------------------------
(* MicAlone.                                                                 *)

\* The operator talks only when no transmission is shown, and starts none while
\* he does.
LEMMA MicAloneUi ==
  ASSUME TypeOK, KnownFields, KnownCalls, SlotChain, MicAlone, Owned, UiMoves
  PROVE  MicAlone'
<1> DEFINE n == ui'.gen
           no == FALSE
<1>0. /\ ioQ \in Seq(Calls) /\ uiQ \in Seq(Calls) /\ auQ \in Seq(Calls) /\ UiStep
      /\ line'.lease = line.lease /\ au \in AuType
      /\ ui.gen \in Nat /\ ui.gen + 1 \in Nat /\ ui.gen + 1 # 0 /\ Own \in Nat /\ no \in BOOLEAN
  BY Queues, UiFields DEF TypeOK, UiMoves, SameLease, Own
<1>1. (~KeysImage => Calmly(ioQ, ioQ', CalmIo(n))) /\ (uiQ' = uiQ \/ UiTakesCall)
      /\ (~ShowsFt8 /\ ~ShowsSstv /\ ~Talks => Calmly(auQ, auQ', CalmAu(n)))
  BY <1>0, UiSends
<1>2. au'.ptt = au.ptt
  BY <1>0 DEF UiStep, ShowsFt8, ShowsSstv, Talks, FallsSilent, HaltsSlot, StopsImage,
     FinishesSlot, KeysImage, DropsImage, PlaysImage, DrainsImage, FinishesImage, LosesLink,
     UiIdles, AuType
<1> HIDE DEF n, no
<1>3. /\ CalmIo(n) \subseteq Calls /\ BeginsSstv \cap CalmIo(n) = {}
      /\ CalmAu(n) \subseteq Calls /\ On \cap CalmAu(n) = {}
  BY CalmClasses
<1>4. ~Talks /\ MicNear' => MicNear
  <2>1. ShowsFt8 \/ ShowsSstv => (Has(auQ', On) => Has(auQ, On))
    <3>1. \A t \in {"schedule", "prepare"} :
            LET m == Msg(t, ui.gen + 1, FALSE) IN m \in Calls /\ m \notin On
      BY <1>0, MicCalls
    <3>2. \A t \in {"schedule", "prepare"} :
            Has(Append(auQ, Msg(t, ui.gen + 1, FALSE)), On) <=> Has(auQ, On)
      BY <1>0, <3>1, PostHas, ZenonT(40)
    <3> QED
      BY <3>2 DEF ShowsFt8, ShowsSstv
  <2>2. ~ShowsFt8 /\ ~ShowsSstv /\ ~Talks => (Has(auQ', On) => Has(auQ, On))
    BY <1>0, <1>1, <1>3, CalmHas
  <2> QED
    BY <1>2, <2>1, <2>2 DEF MicNear
<1>5. /\ Ends(line.lease)' = Ends(line.lease) /\ Ready(Own)' = Ready(Own')
      /\ The("beginFt8", ctl.sched)' = The("beginFt8", ctl'.sched)
  BY <1>0 DEF Ends, The, Ready
<1>6. SUFFICES ASSUME MicNear'
               PROVE  /\ Own' # 0 => ~Has(uiQ', Ready(Own'))
                      /\ Closed(ioQ', no, BeginsSstv, Halts)
                      /\ line.lease # 0 => Has(ioQ', Ends(line.lease))
                      /\ ctl'.sched # 0 => ~Has(ioQ', The("beginFt8", ctl'.sched))
  BY <1>0, <1>5 DEF MicAlone, no
<1>7. CASE Talks
  <2>1. /\ Own = 0 /\ Own' = 0 /\ ui.ft8 = 0 /\ ctl'.sched = ctl.sched
        /\ ioQ' = Append(ioQ, Msg("tx", 0, FALSE))
    BY <1>7 DEF Talks
  <2>2. Closed(ioQ, no, BeginsSstv, Halts)
    BY <2>1, LeaseClasses DEF Owned, no
  <2>3. Closed(ioQ', no, BeginsSstv, Halts)
    BY <1>0, <2>1, <2>2, LeaseCalls, ClosedPost
  <2>4. line.lease # 0 => Has(ioQ, Ends(line.lease))
    BY <2>1 DEF Owned
  <2>5. line.lease # 0 => Has(ioQ', Ends(line.lease))
    <3>1. Msg("tx", 0, FALSE) \in Calls
      BY LeaseCalls
    <3> QED
      BY <1>0, <2>1, <2>4, <3>1, PostHas
  <2>6. ctl'.sched = 0
    BY <2>1 DEF SlotChain
  <2> QED
    BY <2>1, <2>3, <2>5, <2>6
<1>8. CASE ~Talks
  <2>0. MicNear
    BY <1>4, <1>6, <1>8
  <2>1. /\ Own # 0 => ~Has(uiQ, Ready(Own))
        /\ Closed(ioQ, no, BeginsSstv, Halts)
        /\ line.lease # 0 => Has(ioQ, Ends(line.lease))
        /\ ctl.sched # 0 => ~Has(ioQ, The("beginFt8", ctl.sched))
    BY <2>0 DEF MicAlone, no
  <2>2. ~KeysImage
    <3>1. ASSUME KeysImage PROVE Head(uiQ) \in Ready(Own) /\ Own # 0 /\ uiQ # <<>>
      BY <1>0, <3>1, Taken DEF KeysImage, UiTakesCall, Ready, The
    <3> QED
      BY <1>0, <2>1, <3>1, HasTake
  <2>3. \A S : Has(uiQ', S) => Has(uiQ, S)
    BY <1>0, <1>1, HasTake DEF UiTakesCall
  <2>4. ShowsSstv => Own' = ui.gen + 1 /\ ~Has(uiQ, Ready(ui.gen + 1))
    BY NotYet, HasMore DEF ShowsSstv, Ready
  <2>5. ~ShowsSstv => Own' \in {0, Own}
    BY <1>0 DEF UiStep, ShowsFt8, Talks, FallsSilent, HaltsSlot, StopsImage, FinishesSlot, KeysImage,
       DropsImage, PlaysImage, DrainsImage, FinishesImage, LosesLink, UiIdles, SameScreen
  <2>6. Own' # 0 => ~Has(uiQ', Ready(Own'))
    BY <2>1, <2>3, <2>4, <2>5
  <2>7. Closed(ioQ', no, BeginsSstv, Halts)
    BY <1>0, <1>1, <1>3, <2>1, <2>2, CalmClosed
  <2>8. line.lease # 0 => Has(ioQ', Ends(line.lease))
    BY <1>0, <1>1, <1>3, <2>1, <2>2, CalmHas
  <2>9. ctl'.sched \in {ctl.sched, 0, ui.gen + 1}
    BY UiSlot, <1>0 DEF ShowsFt8, FinishesSlot
  <2>10. ASSUME NEW g \in Nat, Has(ioQ', The("beginFt8", g)) PROVE Has(ioQ, The("beginFt8", g))
    BY <1>0, <2>10, UiCalls
  <2>11. ctl.sched \in Nat
    BY DEF TypeOK, ControlType, Gen
  <2>12. ctl'.sched # 0 => ~Has(ioQ', The("beginFt8", ctl'.sched))
    BY <1>0, <2>1, <2>9, <2>10, <2>11, NotYet
  <2> QED
    BY <2>6, <2>7, <2>8, <2>12
<1> QED
  BY <1>7, <1>8

\* What the I/O thread keys while the operator may talk is about to end.
LEMMA MicAloneIo ==
  ASSUME TypeOK, KnownCalls, MicAlone, IoMoves
  PROVE  MicAlone'
<1> DEFINE n == ui.gen
           no == FALSE
<1>0. /\ ioQ \in Seq(Calls) /\ uiQ \in Seq(Calls) /\ auQ \in Seq(Calls) /\ IoStep
      /\ ui' = ui /\ au' = au /\ Own' = Own /\ no \in BOOLEAN /\ ~no /\ ctl.sched \in Nat
  BY Queues DEF IoMoves, Own, TypeOK, ControlType, Gen
<1>1. /\ ioQ' = ioQ \/ IoTakesCall
      /\ Calmly(uiQ, uiQ', CalmUi(n)) /\ Calmly(auQ, auQ', CalmAu(n))
  BY <1>0, IoSends
<1> HIDE DEF n, no
<1>2. /\ CalmUi(n) \subseteq Calls /\ \A g : Ready(g) \cap CalmUi(n) = {}
      /\ CalmAu(n) \subseteq Calls /\ On \cap CalmAu(n) = {}
  BY CalmClasses
<1>3. MicNear' => MicNear
  BY <1>0, <1>1, <1>2, CalmHas DEF MicNear
<1>4. ctl'.sched \in {ctl.sched, 0}
  BY <1>0 DEF IoStep, IoIdles, IoReleases, IoStops, IoKeys
<1>5. /\ Ends(line.lease)' = Ends(line'.lease) /\ Ready(Own)' = Ready(Own)
      /\ The("beginFt8", ctl.sched)' = The("beginFt8", ctl'.sched)
  BY <1>0 DEF Ends, The, Ready
<1>6. SUFFICES ASSUME MicNear'
               PROVE  /\ Own # 0 => ~Has(uiQ', Ready(Own))
                      /\ Closed(ioQ', no, BeginsSstv, Halts)
                      /\ line'.lease # 0 => Has(ioQ', Ends(line'.lease))
                      /\ ctl'.sched # 0 => ~Has(ioQ', The("beginFt8", ctl'.sched))
  BY <1>0, <1>5 DEF MicAlone, no
<1>7. /\ Own # 0 => ~Has(uiQ, Ready(Own))
      /\ Closed(ioQ, no, BeginsSstv, Halts)
      /\ line.lease # 0 => Has(ioQ, Ends(line.lease))
      /\ ctl.sched # 0 => ~Has(ioQ, The("beginFt8", ctl.sched))
  BY <1>3, <1>6 DEF MicAlone, no
<1>8. Own # 0 => ~Has(uiQ', Ready(Own))
  BY <1>0, <1>1, <1>2, <1>7, CalmHas
<1>9. Closed(ioQ', no, BeginsSstv, Halts)
  BY <1>0, <1>1, <1>7, ClosedTake DEF IoTakesCall
<1>10. ctl'.sched # 0 => ~Has(ioQ', The("beginFt8", ctl'.sched))
  BY <1>0, <1>4, <1>7, IoCalls
<1>11. line'.lease # 0 => Has(ioQ', Ends(line'.lease))
  <2>1. CASE IoKeys
    <3>1. /\ Head(ioQ).g # 0 /\ line'.lease = Head(ioQ).g
          /\ (Head(ioQ).t = "beginFt8" /\ Head(ioQ).g = ctl.sched) \/ Head(ioQ) \in BeginsSstv
          /\ \A A : Head(ioQ) \in A /\ Closed(ioQ, FALSE, A, Halts) => Has(ioQ', Ends(Head(ioQ).g))
      BY <1>0, <2>1, LeaseGoesOn
    <3>2. ~(Head(ioQ).t = "beginFt8" /\ Head(ioQ).g = ctl.sched)
      BY <1>0, <1>7, <2>1, <3>1, TheTake DEF IoKeys, IoTakesCall
    <3> QED
      BY <1>7, <3>1, <3>2 DEF no
  <2> QED
    BY <1>0, <1>7, <2>1, LeaseGoesOn
<1> QED
  BY <1>8, <1>9, <1>10, <1>11

\* A slot or an image that is ready finds the microphone closed.
LEMMA MicAloneAu ==
  ASSUME TypeOK, KnownFields, KnownCalls, SlotChain, SstvToken, SstvOrder, MicOrder, MicAlone, AuMoves
  PROVE  MicAlone'
<1> DEFINE n == ui.gen
           no == FALSE
           yes == TRUE
<1>0. /\ ioQ \in Seq(Calls) /\ uiQ \in Seq(Calls) /\ auQ \in Seq(Calls) /\ AuStep
      /\ ui' = ui /\ Own' = Own /\ line'.lease = line.lease /\ no \in BOOLEAN /\ yes \in BOOLEAN
      /\ ctl.sched \in Nat /\ au \in AuType /\ Own \in Nat /\ tx.gen \in Nat
  BY Queues, UiFields, TxFields DEF AuMoves, Own, TypeOK, ControlType, Gen, SameLease
<1>1. auQ' = auQ \/ AuTakesCall
  BY <1>0, AuSends
<1>2. (~ImagePrepares => Calmly(uiQ, uiQ', CalmUi(n)))
  BY <1>0, AuSends
<1> HIDE DEF n, no, yes
<1>4. CalmUi(n) \subseteq Calls /\ \A g : Ready(g) \cap CalmUi(n) = {}
  BY CalmClasses
<1>5. \A S : Has(auQ', S) => Has(auQ, S)
  BY <1>0, <1>1, HasTake DEF AuTakesCall
<1>6. MicNear' => MicNear
  <2>1. au'.ptt => au.ptt \/ Has(auQ, On)
    <3>1. CASE MicTurns
      <4>1. auQ # <<>> /\ Head(auQ).t = "ptt" /\ au'.ptt \in {au.ptt, Head(auQ).x}
        BY <3>1 DEF MicTurns, AuTakesCall
      <4>2. Head(auQ).x => Head(auQ) \in On
        BY <1>0, <4>1, Taken DEF On, Named
      <4> QED
        BY <1>0, <4>1, <4>2, HasTake
    <3> QED
      BY <1>0, <3>1 DEF AuStep, SlotFails, SlotEnds, SlotRefused, SlotWaits, SlotKeys, SlotGoesOn,
         ImagePrepares, ImageGoesOn, ImageStops, MicSpeaks, SameMic
  <2> QED
    BY <1>5, <2>1 DEF MicNear
<1>7. /\ Ends(line.lease)' = Ends(line.lease) /\ Ready(Own)' = Ready(Own)
      /\ The("beginFt8", ctl.sched)' = The("beginFt8", ctl'.sched)
  BY <1>0 DEF Ends, The, Ready
<1>8. SUFFICES ASSUME MicNear'
               PROVE  /\ Own # 0 => ~Has(uiQ', Ready(Own))
                      /\ Closed(ioQ', FALSE, BeginsSstv, Halts)
                      /\ line.lease # 0 => Has(ioQ', Ends(line.lease))
                      /\ ctl'.sched # 0 => ~Has(ioQ', The("beginFt8", ctl'.sched))
  BY <1>0, <1>7 DEF MicAlone
<1>9. /\ Own # 0 => ~Has(uiQ, Ready(Own))
      /\ Closed(ioQ, FALSE, BeginsSstv, Halts)
      /\ line.lease # 0 => Has(ioQ, Ends(line.lease))
      /\ ctl.sched # 0 => ~Has(ioQ, The("beginFt8", ctl.sched))
  BY <1>6, <1>8 DEF MicAlone
\* An image that is ready: nothing opens the microphone after its prepare call.
<1>10. Own # 0 => ~Has(uiQ', Ready(Own))
  <2>1. CASE ~ImagePrepares
    BY <1>0, <1>2, <1>4, <1>9, <2>1, CalmHas
  <2>2. CASE ImagePrepares
    <3>1. /\ auQ # <<>> /\ auQ' = Tail(auQ) /\ Head(auQ).t = "prepare" /\ au'.ptt = au.ptt
      BY <2>2 DEF ImagePrepares, AuTakesCall, SameMic
    <3>2. PICK ready \in BOOLEAN : uiQ' = Append(uiQ, Msg("prepared", Head(auQ).g, ready))
      BY <2>2 DEF ImagePrepares
    <3>3. Head(auQ) \in Calls /\ Head(auQ).g \in Nat /\ "prepared" \in CallNames
      BY <1>0, <3>1, Taken DEF CallNames, UiCall
    <3>4. /\ Msg("prepared", Head(auQ).g, ready) \in Calls
          /\ Msg("prepared", Head(auQ).g, ready) \in Ready(Own) => Head(auQ).g = Own
      BY <3>3, Sent DEF Ready, The
    <3>5. ASSUME Own # 0, Head(auQ).g = Own PROVE FALSE
      <4>1. Head(auQ) \in The("prepare", Own)
        BY <3>1, <3>3, <3>5 DEF The
      <4>2. ClosedBefore(auQ, no, The("prepare", Own), {}, On)
        BY <3>5 DEF MicOrder, no
      <4>3. ClosedBefore(auQ', yes, The("prepare", Own), {}, On)
        BY <1>0, <3>1, <4>1, <4>2, BeforeTake
      <4>4. ~Has(auQ', On)
        BY <4>3, NeverAfter DEF yes
      <4>5. ~au'.ptt
        BY <3>1, HeadIsClear
      <4> QED
        BY <1>8, <4>4, <4>5 DEF MicNear
    <3> QED
      BY <1>0, <1>9, <3>2, <3>4, <3>5, HasPost
  <2> QED
    BY <2>1, <2>2
<1>11. BeginsSstv \cap BeginsSstv = BeginsSstv
  OBVIOUS
<1>12. Closed(ioQ', FALSE, BeginsSstv, Halts)
  BY <1>0, <1>9, <1>11, AuAdds
<1>13. line.lease # 0 => Has(ioQ', Ends(line.lease))
  BY <1>0, <1>9, AuAdds
\* A slot that asks to be keyed: nothing opens the microphone while it runs.
<1>14. ~SlotKeys
  <2>1. ASSUME SlotKeys PROVE FALSE
    <3>1. tx.phase # "Idle" /\ au' = au /\ auQ' = auQ
      BY <2>1 DEF SlotKeys
    <3>2. ~au.ptt /\ ClosedBefore(auQ, tx.phase # "Idle", Schedules, {}, On)
      BY <3>1 DEF MicOrder
    <3>3. (tx.phase # "Idle") = yes
      BY <3>1 DEF yes
    <3>4. ClosedBefore(auQ, yes, Schedules, {}, On)
      BY <3>2, <3>3
    <3>5. ~Has(auQ, On)
      BY <3>4, NeverAfter DEF yes
    <3> QED
      BY <1>8, <3>1, <3>2, <3>5 DEF MicNear
  <2> QED
    BY <2>1
<1>15. ctl'.sched # 0 => ~Has(ioQ', The("beginFt8", ctl'.sched))
  <2>1. ctl'.sched \in {ctl.sched, 0}
    BY <1>0, AuAdds
  <2>2. \A g \in Nat : Has(ioQ', The("beginFt8", g)) => Has(ioQ, The("beginFt8", g))
    BY <1>0, <1>14, AuCalls
  <2> QED
    BY <1>0, <1>9, <2>1, <2>2
<1> QED
  BY <1>10, <1>12, <1>13, <1>15

-----------------------------------------------------------------------------
(* MicAfter.                                                                 *)

\* Where nothing opens and nothing is open, everything is in order.
LEMMA NothingBefore ==
  ASSUME NEW q, NEW B, NEW C
  PROVE  ClosedBefore(q, FALSE, {}, B, C)
  BY DEF ClosedBefore

\* The UI thread posts no microphone packet.
LEMMA MicAfterUi ==
  ASSUME TypeOK, KnownFields, KnownCalls, MicAfter, UiMoves
  PROVE  MicAfter'
<1> DEFINE n == ui'.gen
           no == FALSE
           leased == line.lease # 0
<1>0. /\ ioQ \in Seq(Calls) /\ UiStep /\ line'.lease = line.lease
      /\ no \in BOOLEAN /\ leased \in BOOLEAN /\ Own \in Nat /\ ui.gen + 1 \in Nat
  BY Queues, UiFields DEF UiMoves, SameLease, TypeOK, Own
<1>1. /\ ClosedBefore(ioQ, no, BeginsSstv, Halts, Mics)
      /\ ClosedBefore(ioQ, leased, {}, Ends(line.lease), Mics)
      /\ ClosedBefore(ioQ, no, LiveBegins(ctl.sched), {}, Mics)
  BY DEF MicAfter
<1>2. ~KeysImage => Calmly(ioQ, ioQ', CalmIo(n))
  BY <1>0, UiSends
<1> HIDE DEF n, no, leased
<1>3. CalmIo(n) \subseteq Calls /\ Mics \cap CalmIo(n) = {}
  BY CalmClasses
<1>4. ASSUME NEW open \in BOOLEAN, NEW A, NEW B, ClosedBefore(ioQ, open, A, B, Mics)
      PROVE  ClosedBefore(ioQ', open, A, B, Mics)
  <2>1. CASE KeysImage
    BY <1>0, <1>4, <2>1, LeaseCalls, BeforePost DEF KeysImage
  <2>2. CASE ~KeysImage
    BY <1>0, <1>2, <1>3, <1>4, <2>2, CalmBefore
  <2> QED
    BY <2>1, <2>2
<1>5. ClosedBefore(ioQ', no, LiveBegins(ctl'.sched), {}, Mics)
  <2>1. CASE ctl'.sched = ctl.sched
    BY <1>0, <1>1, <1>4, <2>1
  <2>2. CASE ctl'.sched = 0
    BY <2>2, LeaseClasses, NothingBefore DEF no
  <2>3. CASE ShowsFt8
    <3>1. ctl'.sched = ui.gen + 1 /\ ioQ' = ioQ
      BY <2>3 DEF ShowsFt8
    <3>2. ~Has(ioQ', LiveBegins(ui.gen + 1))
      BY <3>1, NotYet, LeaseClasses, HasMore
    <3> QED
      BY <3>1, <3>2, NothingOpen DEF no
  <2> QED
    BY <1>0, <2>1, <2>2, <2>3, UiSlot DEF FinishesSlot
<1>6. ClosedBefore(ioQ', no, BeginsSstv, Halts, Mics) /\ ClosedBefore(ioQ', leased, {}, Ends(line.lease), Mics)
  BY <1>0, <1>1, <1>4
<1>7. Ends(line.lease)' = Ends(line.lease) /\ LiveBegins(ctl.sched)' = LiveBegins(ctl'.sched)
  BY <1>0 DEF Ends, The, LiveBegins
<1> QED
  BY <1>0, <1>5, <1>6, <1>7 DEF MicAfter, no, leased

\* What is keyed has its end before every microphone packet.
LEMMA MicAfterIo ==
  ASSUME TypeOK, MicAfter, IoMoves
  PROVE  MicAfter'
<1> DEFINE no == FALSE
           yes == TRUE
           leased == line.lease # 0
           leased2 == line'.lease # 0
<1>0. /\ ioQ \in Seq(Calls) /\ IoStep /\ no \in BOOLEAN /\ yes \in BOOLEAN
      /\ leased \in BOOLEAN /\ leased2 \in BOOLEAN
  BY Queues DEF IoMoves
<1>1. /\ ClosedBefore(ioQ, no, BeginsSstv, Halts, Mics)
      /\ ClosedBefore(ioQ, leased, {}, Ends(line.lease), Mics)
      /\ ClosedBefore(ioQ, no, LiveBegins(ctl.sched), {}, Mics)
  BY DEF MicAfter
<1>2. ioQ' = ioQ \/ IoTakesCall
  BY <1>0 DEF IoStep, IoIdles, IoReleases, IoStops, IoKeys
<1>3. ctl'.sched \in {ctl.sched, 0}
  BY <1>0 DEF IoStep, IoIdles, IoReleases, IoStops, IoKeys
<1> HIDE DEF no, yes, leased, leased2
<1>4. ASSUME NEW A, NEW B, ClosedBefore(ioQ, no, A, B, Mics)
      PROVE  /\ ClosedBefore(ioQ', no, A, B, Mics)
             /\ IoTakesCall /\ Head(ioQ) \in A => ClosedBefore(ioQ', yes, A, B, Mics)
  <2>1. CASE IoTakesCall
    BY <1>0, <1>4, <2>1, BeforeTake DEF IoTakesCall, no
  <2> QED
    BY <1>2, <1>4, <2>1
<1>5. ClosedBefore(ioQ', no, LiveBegins(ctl'.sched), {}, Mics)
  <2>1. CASE ctl'.sched = ctl.sched
    BY <1>1, <1>4, <2>1
  <2>2. CASE ctl'.sched = 0
    BY <2>2, LeaseClasses, NothingBefore DEF no
  <2> QED
    BY <1>3, <2>1, <2>2
<1>6. ClosedBefore(ioQ', leased2, {}, Ends(line'.lease), Mics)
  <2>1. CASE ~leased2
    BY <1>0, <2>1, NothingBefore
  <2>2. CASE leased2 /\ line'.lease = line.lease /\ ~IoKeys
    <3>1. leased
      BY <2>2 DEF leased, leased2
    <3>2. ioQ' = ioQ \/ (IoTakesCall /\ Head(ioQ) \notin Ends(line.lease))
      <4>1. CASE IoIdles
        BY <4>1, LeaseHead DEF IoIdles, IoTakesCall
      <4>2. CASE IoReleases
        BY <2>2, <4>2 DEF IoReleases, leased2
      <4>3. CASE IoStops
        BY <2>2, <4>3, LeaseHead DEF IoStops, IoTakesCall, leased2
      <4> QED
        BY <1>0, <2>2, <4>1, <4>2, <4>3 DEF IoStep
    <3>3. CASE IoTakesCall /\ Head(ioQ) \notin Ends(line.lease)
      <4>1. ClosedBefore(ioQ', leased, {}, Ends(line.lease), Mics)
        BY <1>0, <1>1, <3>3, BeforeTake DEF IoTakesCall
      <4>2. leased2 = leased
        BY <2>2 DEF leased, leased2
      <4> QED
        BY <2>2, <4>1, <4>2
    <3>4. leased2 = leased
      BY <2>2 DEF leased, leased2
    <3> QED
      BY <1>1, <2>2, <3>2, <3>3, <3>4
  <2>3. CASE leased2 /\ IoKeys
    <3>1. /\ Head(ioQ).g # 0 /\ line'.lease = Head(ioQ).g
          /\ (Head(ioQ).t = "beginFt8" /\ Head(ioQ).g = ctl.sched) \/ Head(ioQ) \in BeginsSstv
      BY <1>0, <2>3, LeaseGoesOn
    <3>2. IoTakesCall /\ ioQ # <<>>
      BY <2>3 DEF IoKeys, IoTakesCall
    <3>0. leased2 = yes
      BY <2>3 DEF leased2, yes
    <3>3. ASSUME NEW A, NEW B, Head(ioQ) \in A, ClosedBefore(ioQ, no, A, B, Mics), B \subseteq Ends(line'.lease)
          PROVE  ClosedBefore(ioQ', leased2, {}, Ends(line'.lease), Mics)
      <4>1. ClosedBefore(ioQ', yes, A, B, Mics)
        BY <1>4, <3>2, <3>3
      <4> QED
        BY <1>0, <3>0, <3>3, <4>1, BeforeMore
    <3>4. CASE Head(ioQ) \in BeginsSstv
      <4>1. Halts \subseteq Ends(line'.lease)
        BY LeaseClasses
      <4> QED
        BY <1>1, <3>3, <3>4, <4>1
    <3>5. CASE Head(ioQ).t = "beginFt8" /\ Head(ioQ).g = ctl.sched
      <4>1. Head(ioQ) \in LiveBegins(ctl.sched)
        BY <3>1, <3>2, <3>5, LeaseHead
      <4> QED
        BY <1>1, <3>3, <4>1
    <3> QED
      BY <3>1, <3>4, <3>5
  <2> QED
    BY <1>0, <2>1, <2>2, <2>3, LeaseGoesOn DEF leased2
<1>7. ClosedBefore(ioQ', no, BeginsSstv, Halts, Mics)
  BY <1>1, <1>4
<1>8. Ends(line.lease)' = Ends(line'.lease) /\ LiveBegins(ctl.sched)' = LiveBegins(ctl'.sched)
  BY DEF Ends, The, LiveBegins
<1> QED
  BY <1>5, <1>6, <1>7, <1>8 DEF MicAfter, no, leased2

\* A microphone packet is posted behind the end of every lease.
LEMMA MicAfterAu ==
  ASSUME TypeOK, KnownFields, KnownCalls, MicAlone, MicAfter, AuMoves
  PROVE  MicAfter'
<1> DEFINE n == ui.gen
           no == FALSE
           leased == line.lease # 0
<1>0. /\ ioQ \in Seq(Calls) /\ AuStep /\ line'.lease = line.lease
      /\ no \in BOOLEAN /\ ~no /\ leased \in BOOLEAN
  BY Queues DEF AuMoves, SameLease
<1>1. /\ ClosedBefore(ioQ, no, BeginsSstv, Halts, Mics)
      /\ ClosedBefore(ioQ, leased, {}, Ends(line.lease), Mics)
      /\ ClosedBefore(ioQ, no, LiveBegins(ctl.sched), {}, Mics)
  BY DEF MicAfter
<1>2. /\ CalmIo(n) \subseteq Calls /\ tx.gen \in Nat
      /\ \/ Calmly(ioQ, ioQ', CalmIo(n))
         \/ ioQ' = Append(ioQ, Msg("beginFt8", tx.gen, FALSE))
         \/ MicSpeaks /\ ioQ' = Append(ioQ, Msg("mic", 0, FALSE))
      /\ ctl'.sched \in {ctl.sched, 0}
  BY <1>0, AuAdds
<1> HIDE DEF n, no, leased
<1>3. Mics \cap CalmIo(n) = {}
  BY CalmClasses
<1>4. ASSUME NEW open \in BOOLEAN, NEW A, NEW B, ClosedBefore(ioQ, open, A, B, Mics),
             MicSpeaks => Closed(ioQ, open, A, B)
      PROVE  ClosedBefore(ioQ', open, A, B, Mics)
  <2>1. CASE Calmly(ioQ, ioQ', CalmIo(n))
    BY <1>0, <1>2, <1>3, <1>4, <2>1, CalmBefore
  <2>2. CASE ioQ' = Append(ioQ, Msg("beginFt8", tx.gen, FALSE))
    BY <1>0, <1>2, <1>4, <2>2, LeaseCalls, BeforePost
  <2>3. CASE MicSpeaks /\ ioQ' = Append(ioQ, Msg("mic", 0, FALSE))
    BY <1>0, <1>2, <1>4, <2>3, LeaseCalls, BeforePost
  <2> QED
    BY <1>2, <2>1, <2>2, <2>3
<1>5. ASSUME MicSpeaks
      PROVE  /\ Closed(ioQ, no, BeginsSstv, Halts)
             /\ Closed(ioQ, leased, {}, Ends(line.lease))
             /\ ctl.sched # 0 => ~Has(ioQ, The("beginFt8", ctl.sched))
  <2>1. MicNear
    BY <1>5 DEF MicSpeaks, MicNear
  <2> QED
    BY <2>1 DEF MicAlone, Closed, no, leased
<1>6. MicSpeaks => Closed(ioQ, no, LiveBegins(ctl.sched), {})
  <2>1. ASSUME MicSpeaks PROVE ~Has(ioQ, LiveBegins(ctl.sched))
    <3>1. CASE ctl.sched = 0
      BY <3>1, LeaseClasses DEF Has
    <3>2. CASE ctl.sched # 0
      BY <1>5, <2>1, <3>2, LeaseClasses, HasMore
    <3> QED
      BY <3>1, <3>2
  <2> QED
    BY <2>1, NothingOpen DEF no
<1>7. /\ ClosedBefore(ioQ', no, BeginsSstv, Halts, Mics)
      /\ ClosedBefore(ioQ', leased, {}, Ends(line.lease), Mics)
      /\ ClosedBefore(ioQ', no, LiveBegins(ctl.sched), {}, Mics)
  BY <1>0, <1>1, <1>4, <1>5, <1>6
<1>8. ClosedBefore(ioQ', no, LiveBegins(ctl'.sched), {}, Mics)
  <2>1. CASE ctl'.sched = ctl.sched
    BY <1>7, <2>1
  <2>2. CASE ctl'.sched = 0
    BY <2>2, LeaseClasses, NothingBefore DEF no
  <2> QED
    BY <1>2, <2>1, <2>2
<1>9. Ends(line.lease)' = Ends(line.lease) /\ LiveBegins(ctl.sched)' = LiveBegins(ctl'.sched)
  BY <1>0 DEF Ends, The, LiveBegins
<1> QED
  BY <1>0, <1>7, <1>8, <1>9 DEF MicAfter, no, leased

-----------------------------------------------------------------------------
(* The inductive invariant and the theorems.                                 *)
Orderly ==
  /\ UiShape /\ KnownFields /\ KnownCalls /\ Numbered
  /\ SlotChain /\ SlotEnd /\ Ft8Token /\ SstvToken
  /\ SstvOrder /\ SstvEnd /\ MicOrder /\ MicAlone /\ Owned /\ MicAfter
Inv == TypeOK /\ PacketsLeft /\ GateIsLease /\ Orderly

\* With empty queues and nothing on the screen all is in order.
LEMMA OrderlyInit == Init => Orderly
<1> SUFFICES ASSUME Init PROVE Orderly
  OBVIOUS
<1>0. /\ ~ui.starting /\ ~ui.active /\ ~ui.ptt /\ ui.gen = 0 /\ ui.ft8 = 0 /\ ui.keyUp = 0
      /\ ui.drain = 0 /\ ui.pc = "idle" /\ ~ui.draining
      /\ ctl.sched = 0 /\ ~io.guard /\ io.pc = "idle" /\ io.gateGen = 0 /\ io.guardGen = 0
      /\ io.drain = 0 /\ tx.phase = "Idle" /\ tx.gen = 0 /\ ~tx.closing
      /\ au.gen = 0 /\ au.enc = 0 /\ ~au.ptt /\ ~au.prepared /\ ~au.active /\ ~au.starting
      /\ line.lease = 0 /\ line.spent = {} /\ uiQ = <<>> /\ ioQ = <<>> /\ auQ = <<>>
  BY DEF Init
<1>1. /\ \A S : ~Has(<<>>, S)
      /\ \A A, B : Closed(<<>>, FALSE, A, B)
      /\ \A open, A, B, C : ClosedBefore(<<>>, open, A, B, C)
  BY DEF Has, Closed, ClosedBefore
<1>2. Own = 0 /\ ~Busy /\ ~MicNear
  BY <1>0, <1>1 DEF Own, Busy, MicNear
<1>3. UiShape /\ KnownFields /\ KnownCalls /\ Numbered
  BY <1>0, <1>1 DEF UiShape, KnownFields, KnownCalls, Numbered
<1>4. SlotChain /\ SlotEnd /\ Ft8Token
  BY <1>0, <1>1 DEF SlotChain, SlotEnd, Ft8Token
<1>5. SstvToken /\ SstvEnd
  BY <1>0, <1>1, <1>2 DEF SstvToken, SstvEnd
<1>6. SstvOrder
  <2>1. (Busy /\ (Own = 0 \/ au.gen # Own)) = FALSE
    BY <1>2
  <2> QED
    BY <1>0, <1>1, <2>1 DEF SstvOrder
<1>7. MicOrder
  <2>1. au.ptt = FALSE
    BY DEF Init
  <2> QED
    BY <1>0, <1>1, <1>2, <2>1 DEF MicOrder
<1>8. MicAlone /\ Owned /\ MicAfter
  BY <1>0, <1>1, <1>2 DEF MicAlone, Owned, MicAfter
<1> QED
  BY <1>3, <1>4, <1>5, <1>6, <1>7, <1>8 DEF Orderly

\* The UI thread keeps the order.
LEMMA OrderlyUi == ASSUME Inv, UiNext PROVE Orderly'
<1>0. /\ TypeOK /\ UiShape /\ KnownFields /\ KnownCalls /\ Numbered
      /\ SlotChain /\ SlotEnd /\ Ft8Token /\ SstvToken
      /\ SstvOrder /\ SstvEnd /\ MicOrder /\ MicAlone /\ Owned /\ MicAfter
  BY DEF Inv, Orderly
<1>1. UiMoves /\ KnownFields'
  BY <1>0, UiSteps DEF UiMoves
<1>2. UiShape' /\ KnownCalls' /\ Numbered'
  BY <1>0, <1>1, UiShapeKept, KnownCallsUi, NumberedKept
<1>3. SlotChain' /\ SlotEnd' /\ Ft8Token' /\ SstvToken'
  BY <1>0, <1>1, SlotChainUi, SlotEndUi, Ft8TokenUi, SstvTokenUi
<1>4. SstvOrder' /\ SstvEnd' /\ MicOrder'
  BY <1>0, <1>1, SstvOrderUi, SstvEndUi, MicOrderUi
<1>5. MicAlone' /\ Owned' /\ MicAfter'
  BY <1>0, <1>1, MicAloneUi, OwnedUi, MicAfterUi
<1> QED
  BY <1>1, <1>2, <1>3, <1>4, <1>5 DEF Orderly

\* The I/O thread keeps the order.
LEMMA OrderlyIo == ASSUME Inv, IoNext PROVE Orderly' /\ IoMoves
<1>0. /\ TypeOK /\ GateIsLease /\ UiShape /\ KnownFields /\ KnownCalls /\ Numbered
      /\ SlotChain /\ SlotEnd /\ Ft8Token /\ SstvToken
      /\ SstvOrder /\ SstvEnd /\ MicOrder /\ MicAlone /\ Owned /\ MicAfter
  BY DEF Inv, Orderly
<1>1. IoMoves /\ KnownFields' /\ Numbered'
  BY <1>0, IoSteps DEF IoMoves
<1>2. UiShape' /\ KnownCalls'
  BY <1>0, <1>1, KnownCallsIo DEF IoMoves, UiShape
<1>3. SlotChain' /\ SlotEnd' /\ Ft8Token' /\ SstvToken'
  BY <1>0, <1>1, SlotChainIo, SlotEndIo, Ft8TokenIo, SstvTokenIo
<1>4. SstvOrder' /\ SstvEnd' /\ MicOrder'
  BY <1>0, <1>1, SstvOrderIo, SstvEndIo, MicOrderIo
<1>5. MicAlone' /\ Owned' /\ MicAfter'
  BY <1>0, <1>1, MicAloneIo, OwnedIo, MicAfterIo
<1> QED
  BY <1>1, <1>2, <1>3, <1>4, <1>5 DEF Orderly

\* The audio thread keeps the order.
LEMMA OrderlyAu == ASSUME Inv, AuNext PROVE Orderly' /\ line'.wrote.t = "none"
<1>0. /\ TypeOK /\ UiShape /\ KnownFields /\ KnownCalls /\ Numbered
      /\ SlotChain /\ SlotEnd /\ Ft8Token /\ SstvToken
      /\ SstvOrder /\ SstvEnd /\ MicOrder /\ MicAlone /\ Owned /\ MicAfter
  BY DEF Inv, Orderly
<1>1. AuMoves /\ KnownFields' /\ line'.wrote.t = "none"
  BY <1>0, AuSteps DEF AuMoves
<1>2. UiShape' /\ KnownCalls' /\ Numbered'
  BY <1>0, <1>1, KnownCallsAu, NumberedKept DEF AuMoves, UiShape
<1>3. SlotChain' /\ SlotEnd' /\ Ft8Token' /\ SstvToken'
  BY <1>0, <1>1, SlotChainAu, SlotEndAu, Ft8TokenAu, SstvTokenAu
<1>4. SstvOrder' /\ MicOrder'
  BY <1>0, <1>1, SstvOrderAu, MicOrderAu
<1>5. SstvEnd'
  BY <1>0, <1>1, <1>4, SstvEndAu
<1>6. MicAlone' /\ Owned' /\ MicAfter'
  BY <1>0, <1>1, MicAloneAu, OwnedAu, MicAfterAu
<1> QED
  BY <1>1, <1>2, <1>3, <1>4, <1>5, <1>6 DEF Orderly

\* The UI and the audio thread write nothing to the K4.
LEMMA UiWritesNothing == ASSUME UiNext \/ AuNext PROVE Quiet
<1>1. CASE UiNext
  BY <1>1 DEF UiNext, UiRest, Operates, StartFt8, ArmFt8, StartSstv, HaltFt8, HaltFt8Close,
     StopSstv, StopSstvPost, PttPress, PttRelease, UiFinished, UiSstvPrepared,
     UiSstvKeyRequested, UiKeyUpElapsed, UiSstvFailed, UiSstvAccepted, UiDrainElapsed,
     UiFt8Fault, UiDisconnected
<1>2. CASE AuNext
  BY <1>2 DEF AuNext, AuRest, AuOnly, TxFailed, TxSchedule, TxCancel, TxKeyed, TxAccepted, TxUnkeyed,
     TickRevoked, TickExpired, TickKey, TickStart, TickFrame, TickUnkey, AuPrepare, AuBegin,
     AuBeginActive, AuStop, AuPace, AuPtt, AuMic
<1> QED
  BY <1>1, <1>2

\* The invariant holds at the start ...
LEMMA InvInit == Init => Inv
  BY TypeInit, GateInit, OrderlyInit DEF Inv
\* ... and kept by every step.
LEMMA InvKept == Inv /\ [Next]_vars => Inv'
<1> SUFFICES ASSUME Inv, [Next]_vars PROVE Inv'
  OBVIOUS
<1>1. TypeOK' /\ PacketsLeft' /\ GateIsLease'
  BY TypeKept, PacketsLeftKept, GateIsLeaseKept DEF Inv
<1>2. Next => Orderly'
  BY OrderlyUi, OrderlyIo, OrderlyAu DEF Next
<1>3. ASSUME UNCHANGED vars PROVE Orderly'
  <2>1. /\ ui' = ui /\ ctl' = ctl /\ io' = io /\ tx' = tx /\ au' = au /\ uiQ' = uiQ /\ ioQ' = ioQ
        /\ auQ' = auQ /\ line' = line
    BY <1>3 DEF vars
  <2>2. UiShape' /\ KnownFields' /\ KnownCalls' /\ Numbered'
    BY <2>1 DEF Inv, Orderly, UiShape, KnownFields, KnownCalls, Numbered, Above, The
  <2>3. SlotChain' /\ SlotEnd' /\ Ft8Token' /\ SstvToken'
    BY <2>1, Constants DEF Inv, Orderly, SlotChain, SlotEnd, Ft8Token, SstvToken, Fresh, Unborn
  <2>4. SstvOrder' /\ SstvEnd'
    BY <2>1 DEF Inv, Orderly, SstvOrder, SstvEnd, Own, Busy, PreparesBut, Refused, Leaving, Last, The
  <2>5. MicOrder' /\ MicAlone' /\ Owned' /\ MicAfter'
    BY <2>1 DEF Inv, Orderly, MicOrder, MicAlone, Owned, MicAfter, Own, MicNear, Ready, Ends,
       BeginsBut, LiveBegins, The
  <2> QED
    BY <2>2, <2>3, <2>4, <2>5 DEF Orderly
<1> QED
  BY <1>1, <1>2, <1>3 DEF Inv

(* In every state of every behaviour a keyed generation is the one the        *)
(* operator still has on the screen, or a stop for it is in the I/O thread's  *)
(* queue (mainwindow.cpp: every way out of FT8 and SSTV transmission), for    *)
(* any number of generations, packets, stops and lost connections.            *)
THEOREM LeaseOwned == Spec => []LeaseIsOwnedOrEnding
<1>1. Inv => LeaseIsOwnedOrEnding
  <2> SUFFICES ASSUME Inv, line.lease # 0
               PROVE  \/ ui.ft8 = line.lease
                      \/ ui.gen = line.lease /\ (ui.starting \/ ui.active)
                      \/ Queued(ioQ, {Item("stop", 0), Item("stopSched", line.lease)})
    BY DEF LeaseIsOwnedOrEnding
  <2>1. line.lease = ui.ft8 \/ line.lease = Own \/ Has(ioQ, Ends(line.lease))
    BY DEF Inv, Orderly, Owned
  <2>2. Has(ioQ, Ends(line.lease)) => Queued(ioQ, {Item("stop", 0), Item("stopSched", line.lease)})
    BY DEF Has, Ends, Halts, The, Queued, Item
  <2> QED
    BY <2>1, <2>2 DEF Own
<1> QED
  BY <1>1, InvInit, InvKept, PTL DEF Spec

(* A slot and an image never meet one that is still winding down on the audio *)
(* thread, and a slot about to encode finds neither an image nor the          *)
(* microphone there (ft8transmitter.cpp and audioengine.cpp refuse or fault   *)
(* then).                                                                     *)
THEOREM AudioThreadFree == Spec => []AudioThreadIsFree
<1>1. Inv => AudioThreadIsFree
  <2> SUFFICES ASSUME Inv PROVE AudioThreadIsFree
    OBVIOUS
  <2>0. TypeOK /\ SlotChain /\ SstvToken /\ SstvOrder /\ MicOrder
    BY DEF Inv, Orderly
  <2>1. ASSUME auQ # <<>>, Head(auQ).t = "schedule" PROVE tx.phase = "Idle"
    <3>1. Has(auQ, The("schedule", Head(auQ).g)) /\ Head(auQ).g \in Nat
      BY <2>0, <2>1, Queues, Taken, TheTake
    <3> QED
      BY <2>0, <3>1 DEF SlotChain
  <2>2. ASSUME auQ # <<>>, Head(auQ).t = "prepare" PROVE ~au.active /\ ~au.prepared
    BY <2>0, <2>2, HeadIsClear DEF Busy
  <2>3. tx.phase = "Keying" => ~au.prepared /\ ~au.ptt
    BY <2>0 DEF SstvOrder, MicOrder, Busy
  <2> QED
    BY <2>1, <2>2, <2>3 DEF AudioThreadIsFree
<1> QED
  BY <1>1, InvInit, InvKept, PTL DEF Spec

\* Initially nothing was written; a microphone packet is written outside leases only.
LEMMA MicKept ==
  /\ Init => NoMicInLease
  /\ Inv /\ NoMicInLease /\ [Next]_vars => NoMicInLease'
<1>1. Init => NoMicInLease
  BY DEF Init, NoMicInLease, Silence
<1> SUFFICES ASSUME Inv, NoMicInLease, [Next]_vars PROVE NoMicInLease'
  BY <1>1
<1>0. line \in LineType
  BY DEF Inv, TypeOK
<1>2. CASE UiNext \/ AuNext
  <2>1. line' = [line EXCEPT !.wrote = Silence]
    BY <1>2, UiWritesNothing DEF Quiet
  <2>2. line'.wrote = Silence
    BY <1>0, <2>1 DEF LineType
  <2> QED
    BY <2>2 DEF NoMicInLease, Silence
<1>3. CASE IoNext
  <2>1. IoStep /\ TypeOK /\ MicAfter
    BY <1>3, OrderlyIo DEF IoMoves, Inv, Orderly
  <2>2. CASE IoIdles
    <3> DEFINE leased == line.lease # 0
    <3>1. ASSUME line'.wrote.t = "mic" PROVE line.lease = 0
      <4>1. ioQ # <<>> /\ Head(ioQ).t = "mic"
        BY <2>2, <3>1 DEF IoIdles, IoTakesCall
      <4>2. Head(ioQ) \in Mics
        BY <2>1, <4>1, LeaseHead DEF Mics, Named
      <4>3. leased \in BOOLEAN /\ ClosedBefore(ioQ, leased, {}, Ends(line.lease), Mics)
        BY <2>1 DEF MicAfter
      <4> HIDE DEF leased
      <4>4. leased => leased /\ Head(ioQ) \notin Ends(line.lease)
        BY <2>1, <4>1, LeaseHead
      <4>5. ~leased
        BY <2>1, <4>1, <4>2, <4>3, <4>4, LeaseHead, BeforeTake
      <4> QED
        BY <4>5 DEF leased
    <3> QED
      BY <2>2, <3>1 DEF IoIdles, SameLease, NoMicInLease
  <2>3. CASE IoReleases \/ IoStops \/ IoKeys
    BY <2>3 DEF IoReleases, IoStops, IoKeys, NoMicInLease, Item
  <2> QED
    BY <2>1, <2>2, <2>3 DEF IoStep
<1>4. CASE UNCHANGED vars
  BY <1>4 DEF vars, NoMicInLease
<1> QED
  BY <1>2, <1>3, <1>4 DEF Next

(* Speech and program audio are never mixed on the air: no microphone packet  *)
(* is written to the K4 while it is keyed for a generation (audioengine.cpp,  *)
(* setPttActive, against the order of the calls in the three queues).         *)
THEOREM MicIsApart == Spec => []NoMicInLease
<1>1. Init => Inv /\ NoMicInLease
  BY InvInit, MicKept
<1>2. (Inv /\ NoMicInLease) /\ [Next]_vars => (Inv /\ NoMicInLease)'
  BY InvKept, MicKept
<1> QED
  BY <1>1, <1>2, PTL DEF Spec

-----------------------------------------------------------------------------
(* The refinement: what the socket carries is a sequence of leases.          *)

\* The initial state of DigitalTx is one of ProgramLease.
LEMMA LeaseInit == Init => Lease!Init
  BY DEF Init, Lease!Init, Silence

\* A handler that writes nothing and leaves the lease alone only stutters.
LEMMA QuietRevokes == ASSUME TypeOK, Quiet PROVE Lease!Revoke
<1>1. line \in LineType /\ line' = [line EXCEPT !.wrote = Silence]
  BY DEF TypeOK, Quiet
<1>2. line'.lease = line.lease /\ line'.spent = line.spent /\ line'.wrote.t = "none"
  BY <1>1 DEF LineType, Silence
<1> QED
  BY <1>2 DEF Lease!Revoke, Lease!Other, Lease!IsProgram

\* What the I/O thread writes, a lease at a time.
LEMMA IoLeases == ASSUME Inv, IoNext PROVE Lease!Next
<1>0. /\ IoStep /\ TypeOK /\ SlotEnd /\ Ft8Token /\ SstvToken /\ ctl.sched \in Nat
      /\ line.lease \in Nat /\ ioQ \in Seq(Calls)
  BY OrderlyIo, Queues DEF IoMoves, Inv, Orderly, TypeOK, ControlType, LineType, Gen
<1>1. CASE IoIdles
  <2>1. CASE Program(line'.wrote)
    <3>1. line'.wrote = Item("audio", line.lease) /\ line.lease # 0
      BY <1>1, <2>1 DEF IoIdles, Program, Item
    <3> QED
      BY <1>1, <3>1 DEF IoIdles, SameLease, Item, Lease!Next, Lease!Stream
  <2>2. CASE ~Program(line'.wrote)
    BY <1>1, <2>2 DEF IoIdles, SameLease, Program, Lease!Next, Lease!Revoke, Lease!Other, Lease!IsProgram
  <2> QED
    BY <2>1, <2>2
<1>2. CASE IoReleases
  BY <1>2 DEF IoReleases, Program, Lease!Next, Lease!Release, Lease!Revoke, Lease!Other, Lease!IsProgram
<1>3. CASE IoStops
  <2>1. Head(ioQ).g # 0
    <3>1. ioQ # <<>> /\ Head(ioQ).t = "stopSched"
      BY <1>3 DEF IoStops, IoTakesCall
    <3>2. Has(ioQ, The("stopSched", Head(ioQ).g)) /\ Head(ioQ).g \in Nat
      BY <1>0, <3>1, Taken, TheTake
    <3> QED
      BY <1>0, <3>2 DEF SlotEnd
  <2> QED
    BY <1>3, <2>1 DEF IoStops, Program, Lease!Next, Lease!Release, Lease!Revoke, Lease!Other, Lease!IsProgram
<1>4. CASE IoKeys
  <2> DEFINE g == Head(ioQ).g
  <2>1. /\ ioQ # <<>> /\ line.lease = 0 /\ line'.lease = g /\ g # 0 /\ line'.spent = line.spent
        /\ line'.wrote = Item("TX", g)
        /\ Head(ioQ).t = "beginSstv" \/ (Head(ioQ).t = "beginFt8" /\ g = ctl.sched)
    BY <1>4 DEF IoKeys, IoTakesCall
  <2>2. g \in Nat /\ Has(ioQ, The(Head(ioQ).t, g))
    BY <1>0, <2>1, Taken, TheTake
  <2>3. g \notin line.spent
    BY <1>0, <2>1, <2>2 DEF SstvToken, Unborn, Ft8Token, Fresh
  <2> QED
    BY <2>1, <2>2, <2>3 DEF Lease!Next, Lease!Grant, Item
<1> QED
  BY <1>0, <1>1, <1>2, <1>3, <1>4 DEF IoStep

(* The detailed specification implements the abstract one: whatever the three *)
(* threads do, in whatever order, the K4 sees leases.  One generation is      *)
(* keyed at a time, its packets follow its "TX;", and one that was stopped,   *)
(* faulted or cut off is never keyed again (tcpclient.cpp,                    *)
(* beginDigitalAudioTransmit and stopDigitalAudioAndUnkey).                   *)
THEOREM LeaseImplemented == Spec => ImplementsLease
<1>1. Inv /\ [Next]_vars => [Lease!Next]_(Lease!vars)
  <2> SUFFICES ASSUME Inv, [Next]_vars PROVE [Lease!Next]_(Lease!vars)
    OBVIOUS
  <2>1. CASE UiNext \/ AuNext
    BY <2>1, UiWritesNothing, QuietRevokes DEF Inv, Lease!Next
  <2>2. CASE IoNext
    BY <2>2, IoLeases
  <2>3. CASE UNCHANGED vars
    BY <2>3 DEF vars, Lease!vars
  <2> QED
    BY <2>1, <2>2, <2>3 DEF Next
<1> QED
  BY <1>1, InvInit, InvKept, LeaseInit, PTL DEF Spec, ImplementsLease, Lease!Spec
=============================================================================
