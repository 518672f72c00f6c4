----------------------------- MODULE KeyingProofs -----------------------------
(***************************************************************************)
(* Proofs about Keying, for every bound on what the operator and the       *)
(* devices do, and so for runs of any length.  What a device holds needs   *)
(* three facts that no property states: a paddle heard pressed is          *)
(* confirmed at once, so that a timer can only release; a port that is     *)
(* opening is not yet seen as connected; and while an element plays, its   *)
(* timer runs wherever the keyer thread is not about to end it.            *)
(***************************************************************************)
EXTENDS Keying, TLAPS

Note == [side : Sides, on : BOOLEAN]
Post == {"change", "stop", "reverse", "mode"}
Keyer == [state : Elements \union {"Idle"}, squeezed : BOOLEAN, timer : BOOLEAN,
          pc : {"wait", "dah", "live", "latches", "act", "both"}, live : SUBSET Elements,
          next : Elements \union {"none"}, reversed : BOOLEAN, modeB : BOOLEAN]
Pad == [raw : SUBSET Sides, confirmed : SUBSET Sides, timers : SUBSET Sides]
Work == {o \in OpType : /\ o.op \in {"store", "latch"} => o.of \in Elements
                        /\ o.op = "post" => o.of \in Post}
Midi == [profile : Profiles, notes : [Sides -> Sides \union {"none"}], learning : Sides \union {"none"}]
Budget == [move : Nat, link : Nat, change : Nat]

DeviceTypes ==
  /\ hand \in [Sources -> SUBSET Sides] /\ wire \in [Sources -> Seq(Note)]
  /\ link \in [Sources -> Links] /\ seen \in [Sources -> Links]
  /\ midi \in Midi /\ remapped \in BOOLEAN
  /\ pad \in Pad /\ left \in Budget
RouterTypes ==
  /\ use \in [Sources -> Uses] /\ held \in [Sources -> SUBSET Inputs]
  /\ todo \in Seq(Work) /\ tone \in BOOLEAN
KeyerTypes ==
  /\ posts \in Seq(Post) /\ kz \in Keyer
  /\ phys \subseteq Elements /\ latch \subseteq Elements /\ fresh \subseteq Elements
  /\ ghost \in BOOLEAN

\* Raw and confirmed states of a paddle differ only by a release whose timer runs.
Debounced(p) == p.raw \subseteq p.confirmed /\ p.confirmed \ p.raw \subseteq p.timers

\* An element that plays ends.
Timed(k) == k.pc \in {"wait", "dah", "both"} /\ k.state \in Elements => k.timer

\* What opens was not seen to be open.
Opening == \A s \in Sources : link[s] = "opening" => seen[s] = "opening"

IInv ==
  /\ DeviceTypes /\ RouterTypes /\ KeyerTypes
  /\ Debounced(pad) /\ Timed(kz) /\ Opening /\ HeldIsReal

----------------------------------------------------------------------------
(***************************************************************************)
(* MidiInputRouter: what a handler leaves to do, and what a device holds.  *)
(***************************************************************************)
\* A paddle stands for an input or for nothing.
LEMMA InputIs ==
  ASSUME RouterTypes, NEW s \in Sources, NEW side \in Sides
  PROVE  Input(s, side) \in Inputs \union {"none"}
BY DEF RouterTypes, Input, Inputs, Elements, Uses

\* What a transition leaves the UI thread to do is a sequence of its operations.
LEMMA TransitionsAre ==
  ASSUME NEW new
  PROVE  Transitions(new) \in Seq(Work)
<1>1. ASSUME NEW i \in Inputs, NEW on \in BOOLEAN PROVE Ops(i, on) \in Seq(Work)
  <2>1. /\ [op |-> "tone", of |-> i, on |-> on] \in Work
        /\ i # "key" => /\ [op |-> "store", of |-> i, on |-> on] \in Work
                        /\ [op |-> "latch", of |-> i, on |-> TRUE] \in Work
        /\ [op |-> "post", of |-> "change", on |-> TRUE] \in Work
    BY DEF Work, OpType, Inputs, Post
  <2>2. CASE i = "key"
    BY <2>1, <2>2 DEF Ops
  <2>3. CASE i # "key"
    <3> DEFINE stores == <<[op |-> "store", of |-> i, on |-> on]>>
               latches == IF on THEN <<[op |-> "latch", of |-> i, on |-> TRUE]>> ELSE <<>>
               posted == <<[op |-> "post", of |-> "change", on |-> TRUE]>>
    <3>1. stores \in Seq(Work) /\ latches \in Seq(Work) /\ posted \in Seq(Work)
      BY <2>1, <2>3
    <3>2. Ops(i, on) = (stores \o latches) \o posted
      BY <2>3 DEF Ops
    <3> HIDE DEF stores, latches, posted
    <3> QED
      BY <3>1, <3>2
  <2> QED
    BY <2>2, <2>3
<1> DEFINE Of(i) == IF (i \in Active(new)) = (i \in Active(held)) THEN <<>>
                    ELSE Ops(i, i \in Active(new))
<1>2. ASSUME NEW i \in Inputs PROVE Of(i) \in Seq(Work)
  <2> DEFINE on == i \in Active(new)
  <2>1. on \in BOOLEAN
    OBVIOUS
  <2>2. Ops(i, on) \in Seq(Work)
    <3> HIDE DEF on
    <3> QED
      BY <1>1, <2>1
  <2>3. <<>> \in Seq(Work)
    OBVIOUS
  <2> QED
    BY <2>2, <2>3
<1>3. Of("dit") \in Seq(Work) /\ Of("dah") \in Seq(Work) /\ Of("key") \in Seq(Work)
  BY <1>2 DEF Inputs, Elements
<1>4. Transitions(new) = (Of("dit") \o Of("dah")) \o Of("key")
  BY DEF Transitions
<1> HIDE DEF Of
<1> QED
  BY <1>3, <1>4

\* An input is set only for a paddle that stands for it, and switched on only
\* while its device is connected.
LEMMA SetInputKeeps ==
  ASSUME RouterTypes, HeldIsReal, NEW s \in Sources, NEW side \in Sides, NEW on \in BOOLEAN,
         SetInput(s, Input(s, side), on), on => seen[s] = "up", UNCHANGED <<use, seen, tone>>
  PROVE  RouterTypes' /\ HeldIsReal'
<1> DEFINE i == Input(s, side)
           new == [held EXCEPT ![s] = IF on THEN @ \union {i} ELSE @ \ {i}]
<1>1. CASE i = "none"
  BY <1>1 DEF SetInput, RouterTypes, HeldIsReal, Input
<1>2. CASE i # "none"
  <2>1. held' = new /\ todo' = Transitions(new)
    BY <1>2 DEF SetInput
  <2>2. i \in Inputs
    BY <1>2, InputIs
  <2>3. new \in [Sources -> SUBSET Inputs]
    BY <2>2 DEF RouterTypes
  <2>4. RouterTypes'
    BY <2>1, <2>3, TransitionsAre DEF RouterTypes
  <2>5. \A t \in Sources : /\ new[t] \subseteq held[t] \union {Input(t, d) : d \in Sides}
                           /\ seen[t] # "up" => new[t] \subseteq held[t]
    BY DEF RouterTypes
  <2> HIDE DEF new
  <2> QED
    BY <2>1, <2>4, <2>5 DEF HeldIsReal, Input
<1> QED
  BY <1>1, <1>2

\* A device that goes holds nothing.
LEMMA DisconnectedKeeps ==
  ASSUME RouterTypes, NEW s \in Sources, Disconnected(s)
  PROVE  /\ held' = [held EXCEPT ![s] = {}] /\ todo' \in Seq(Work)
         /\ remapped \in BOOLEAN => remapped' \in BOOLEAN
         /\ UNCHANGED <<use, tone>> => RouterTypes'
<1> DEFINE new == [held EXCEPT ![s] = {}]
           stops == IF KeepsKeying(new) THEN <<>> ELSE <<[op |-> "post", of |-> "stop", on |-> TRUE]>>
<1>1. held' = new /\ todo' = Transitions(new) \o stops
  BY DEF Disconnected
<1>2. stops \in Seq(Work)
  <2>1. [op |-> "post", of |-> "stop", on |-> TRUE] \in Work
    BY DEF Work, OpType, Post
  <2> QED
    BY <2>1
<1>3. new \in [Sources -> SUBSET Inputs]
  BY DEF RouterTypes
<1>4. todo' \in Seq(Work)
  <2>1. Transitions(new) \in Seq(Work)
    BY TransitionsAre
  <2> HIDE DEF new, stops
  <2> QED
    BY <1>1, <1>2, <2>1
<1>5. remapped \in BOOLEAN => remapped' \in BOOLEAN
  BY DEF Disconnected
<1> QED
  BY <1>1, <1>3, <1>4, <1>5 DEF RouterTypes

----------------------------------------------------------------------------
(***************************************************************************)
(* The keyer's thread.                                                     *)
(***************************************************************************)
\* A step of the keyer leaves the devices and the router alone.
LEMMA KeyerLeaves ==
  ASSUME IInv, KeyerRest, KeyerTypes', Timed(kz')
  PROVE  IInv'
<1>1. DeviceTypes' /\ RouterTypes' /\ Debounced(pad')
  BY DEF IInv, KeyerRest, DeviceTypes, RouterTypes
<1>2. Opening' /\ HeldIsReal'
  BY DEF IInv, KeyerRest, Opening, HeldIsReal, Input
<1> QED
  BY <1>1, <1>2 DEF IInv, Debounced, Timed

\* What waits in the keyer's queue, and what is left of it.
LEMMA PostsTaken ==
  ASSUME KeyerTypes, posts # <<>>
  PROVE  Head(posts) \in Post /\ Tail(posts) \in Seq(Post)
BY DEF KeyerTypes

\* Every step of the keyer leaves an element's timer running.
LEMMA KeyerKeeps ==
  ASSUME IInv, KeyerNext
  PROVE  IInv'
<1>0. KeyerTypes /\ Timed(kz) /\ kz \in Keyer
  BY DEF IInv, KeyerTypes
<1>1. CASE HandleDit
  <2>1. KeyerTypes' /\ Timed(kz')
    BY <1>0, <1>1, PostsTaken DEF HandleDit, KeyerTypes, Keyer, Timed, Elements
  <2> QED
    BY <1>1, <2>1, KeyerLeaves DEF HandleDit
<1>2. CASE HandleDah
  <2>1. KeyerTypes' /\ Timed(kz')
    <3> DEFINE down == kz.live \union (IF Live("dah") \/ Latched("dah") THEN {"dah"} ELSE {})
               waits == [kz EXCEPT !.pc = "wait", !.live = {},
                                   !.squeezed = @ \/ (Playing /\ down = Elements)]
               acts == [kz EXCEPT !.pc = "act", !.live = down,
                                  !.next = IF "dit" \in down THEN "dit" ELSE "dah"]
    <3>1. down \subseteq Elements /\ kz.pc = "dah"
      BY <1>0, <1>2 DEF HandleDah, Keyer, Elements
    <3>2. /\ waits \in Keyer /\ waits.pc = "wait" /\ waits.state = kz.state /\ waits.timer = kz.timer
      <4> DEFINE both == Playing /\ down = Elements
      <4>1. both \in BOOLEAN /\ kz.squeezed \in BOOLEAN
        BY <1>0 DEF Keyer
      <4>2. (kz.squeezed \/ both) \in BOOLEAN
        BY <4>1
      <4> HIDE DEF both
      <4> QED
        BY <1>0, <4>2 DEF Keyer
    <3>3. acts \in Keyer /\ acts.pc = "act"
      <4> HIDE DEF down
      <4> QED
        BY <1>0, <3>1 DEF Keyer, Elements
    <3>4. kz' \in {waits, acts} /\ UNCHANGED <<posts, phys, latch, fresh, ghost>>
      BY <1>2 DEF HandleDah
    <3> HIDE DEF waits, acts, down
    <3>5. Timed(kz')
      BY <1>0, <3>1, <3>2, <3>3, <3>4 DEF Timed
    <3> QED
      BY <1>0, <3>2, <3>3, <3>4, <3>5 DEF KeyerTypes
  <2> QED
    BY <1>2, <2>1, KeyerLeaves DEF HandleDah
<1>3. CASE TimerFires
  <2>1. KeyerTypes' /\ Timed(kz')
    BY <1>0, <1>3 DEF TimerFires, KeyerTypes, Keyer, Timed, Elements
  <2> QED
    BY <1>3, <2>1, KeyerLeaves DEF TimerFires
<1>4. CASE TimerDah
  <2>1. KeyerTypes' /\ Timed(kz')
    BY <1>0, <1>4 DEF TimerDah, KeyerTypes, Keyer, Timed, Elements
  <2> QED
    BY <1>4, <2>1, KeyerLeaves DEF TimerDah
<1>5. CASE TimerDecides
  <2> DEFINE down == kz.live \union {e \in Elements : Latched(e)}
  <2>1. Choice(down) \in Elements \union {"none"}
    <3>1. down \subseteq Elements
      BY <1>0 DEF Keyer
    <3>2. \A e : Other(e) \in Elements
      BY DEF Other, Elements
    <3> HIDE DEF down
    <3> QED
      BY <3>1, <3>2 DEF Choice
  <2>2. KeyerTypes' /\ Timed(kz')
    BY <1>0, <1>5, <2>1 DEF TimerDecides, Decide, KeyerTypes, Keyer, Timed
  <2> QED
    BY <1>5, <2>2, KeyerLeaves DEF TimerDecides
<1>6. CASE Enter
  <2>1. ghost' \in BOOLEAN
    BY <1>0, <1>6 DEF Enter, KeyerTypes
  <2>2. kz.next \in Elements
    BY <1>0, <1>6 DEF Enter, Keyer
  <2>3. KeyerTypes' /\ Timed(kz')
    BY <1>0, <1>6, <2>1, <2>2 DEF Enter, KeyerTypes, Keyer, Timed
  <2> QED
    BY <1>6, <2>3, KeyerLeaves DEF Enter
<1>7. CASE EnterLooks
  <2>1. (kz.squeezed \/ phys = Elements) \in BOOLEAN
    BY <1>0 DEF Keyer
  <2>2. KeyerTypes' /\ Timed(kz')
    BY <1>0, <1>7, <2>1 DEF EnterLooks, KeyerTypes, Keyer, Timed
  <2> QED
    BY <1>7, <2>2, KeyerLeaves DEF EnterLooks
<1>8. CASE GoIdle
  <2>1. KeyerTypes' /\ Timed(kz')
    BY <1>0, <1>8 DEF GoIdle, KeyerTypes, Keyer, Timed, Elements
  <2> QED
    BY <1>8, <2>1, KeyerLeaves DEF GoIdle
<1>9. CASE Stop
  <2>1. KeyerTypes' /\ Timed(kz')
    BY <1>0, <1>9, PostsTaken DEF Stop, KeyerTypes, Keyer, Timed, Elements
  <2> QED
    BY <1>9, <2>1, KeyerLeaves DEF Stop
<1>10. CASE Configure
  <2>1. KeyerTypes' /\ Timed(kz')
    BY <1>0, <1>10, PostsTaken DEF Configure, KeyerTypes, Keyer, Timed
  <2> QED
    BY <1>10, <2>1, KeyerLeaves DEF Configure
<1> QED
  BY <1>1, <1>2, <1>3, <1>4, <1>5, <1>6, <1>7, <1>8, <1>9, <1>10 DEF KeyerNext

----------------------------------------------------------------------------
(***************************************************************************)
(* The UI thread, the devices and the operator.                            *)
(***************************************************************************)
\* What leaves the keyer's variables alone keeps what is known of them.
LEMMA KeyerStays ==
  ASSUME IInv, UNCHANGED <<posts, phys, latch, kz, fresh, ghost>>
  PROVE  KeyerTypes' /\ Timed(kz)'
BY DEF IInv, KeyerTypes, Timed

\* The budgets stay numbers.
LEMMA Spending ==
  ASSUME DeviceTypes, NEW what \in {"move", "link", "change"}, Spends(what)
  PROVE  left' \in Budget
BY DEF DeviceTypes, Spends, Budget

\* One operation of a handler moves nothing but what it stores or posts.
LEMMA UiStepKeeps == IInv /\ UiStep => IInv'
<1> SUFFICES ASSUME IInv, UiStep PROVE IInv'
  OBVIOUS
<1>0. DeviceTypes /\ RouterTypes /\ KeyerTypes
  BY DEF IInv
<1>1. Head(todo) \in Work /\ Tail(todo) \in Seq(Work)
  BY <1>0 DEF UiStep, RouterTypes
<1>2. DeviceTypes' /\ Debounced(pad)' /\ Timed(kz)' /\ Opening' /\ HeldIsReal'
  BY DEF IInv, UiStep, DeviceTypes, Debounced, Timed, Opening, HeldIsReal, Input
<1>3. RouterTypes'
  BY <1>0, <1>1 DEF UiStep, RouterTypes, Work, OpType
<1>4. KeyerTypes'
  <2>1. phys' \subseteq Elements /\ latch' \subseteq Elements /\ fresh' \subseteq Elements
    <3>1. Head(todo).op \in {"store", "latch"} => Head(todo).of \in Elements
      <4>1. \A o \in Work : o.op \in {"store", "latch"} => o.of \in Elements
        BY DEF Work, OpType
      <4> QED
        BY <1>1, <4>1
    <3>2. /\ phys' \subseteq phys \union {e \in {Head(todo).of} : Head(todo).op = "store"}
          /\ latch' \subseteq latch \union {e \in {Head(todo).of} : Head(todo).op = "latch"}
          /\ fresh' \subseteq fresh \union {e \in {Head(todo).of} : Head(todo).op = "store"}
      BY DEF UiStep
    <3> QED
      BY <1>0, <3>1, <3>2 DEF KeyerTypes
  <2>2. posts' \in Seq(Post)
    BY <1>0, <1>1 DEF UiStep, KeyerTypes, Work
  <2> QED
    BY <1>0, <2>1, <2>2 DEF UiStep, KeyerTypes
<1> QED
  BY <1>2, <1>3, <1>4 DEF IInv

\* A mapping stays one, whatever is learned.
LEMMA LearnedIs ==
  ASSUME midi \in Midi, NEW note \in Sides, NEW on
  PROVE  Learned(note, on) \in Midi
BY DEF Learned, Midi, Profiles

LEMMA SetMidiKeeps ==
  ASSUME remapped \in BOOLEAN, NEW m \in Midi, SetMidi(m)
  PROVE  midi' \in Midi /\ remapped' \in BOOLEAN
<1> DEFINE changes == \E n \in Sides : /\ seen["cw"] = "up" /\ SideOf(midi, n) \in pad.raw
                                       /\ SideOf(m, n) # SideOf(midi, n)
<1>1. midi' = m /\ remapped' = (remapped \/ changes)
  BY DEF SetMidi
<1>2. changes \in BOOLEAN
  OBVIOUS
<1> HIDE DEF changes
<1> QED
  BY <1>1, <1>2

\* A side that is heard: a press is confirmed, and a release waits for its timer.
LEMMA OnRawKeeps ==
  ASSUME DeviceTypes, RouterTypes, Debounced(pad), HeldIsReal, seen["cw"] = "up",
         NEW side \in Sides, NEW on \in BOOLEAN, OnRaw(side, on), UNCHANGED <<use, seen, tone>>
  PROVE  pad' \in Pad /\ Debounced(pad') /\ RouterTypes' /\ HeldIsReal'
<1> DEFINE p == [pad EXCEPT !.raw = IF on THEN @ \union {side} ELSE @ \ {side}]
           here == on /\ side \notin pad.confirmed
<1>1. /\ p \in Pad /\ p.confirmed = pad.confirmed /\ p.timers = pad.timers
      /\ p.raw = IF on THEN pad.raw \union {side} ELSE pad.raw \ {side}
  BY DEF DeviceTypes, Pad
<1>2. CASE here
  <2>1. pad' = [p EXCEPT !.confirmed = @ \union {side}, !.timers = @ \ {side}]
    BY <1>2 DEF OnRaw
  <2>2. SetInput("cw", Input("cw", side), TRUE)
    BY <1>2 DEF OnRaw
  <2> HIDE DEF p
  <2>3. pad' \in Pad /\ Debounced(pad')
    BY <1>1, <1>2, <2>1 DEF Pad, Debounced
  <2>4. "cw" \in Sources
    BY DEF Sources
  <2>5. RouterTypes' /\ HeldIsReal'
    BY <2>2, <2>4, SetInputKeeps
  <2> QED
    BY <2>3, <2>5
<1>3. CASE ~here
  <2>1. pad' = [p EXCEPT !.timers = @ \union {side}] /\ UNCHANGED <<held, todo>>
    BY <1>3 DEF OnRaw
  <2> HIDE DEF p
  <2>2. pad' \in Pad /\ Debounced(pad')
    BY <1>1, <1>3, <2>1 DEF Pad, Debounced
  <2>3. RouterTypes' /\ HeldIsReal'
    BY <2>1 DEF RouterTypes, HeldIsReal, Input
  <2> QED
    BY <2>2, <2>3
<1> QED
  BY <1>2, <1>3

\* A note stands for a side, or for none.
LEMMA PollNoteKeeps ==
  ASSUME IInv, NEW s \in Sources, PollNote(s)
  PROVE  IInv'
<1>0. DeviceTypes /\ RouterTypes /\ Debounced(pad) /\ HeldIsReal /\ seen[s] = "up"
  BY DEF IInv, PollNote
<1> DEFINE note == Head(wire[s])
<1>1. /\ note.side \in Sides /\ note.on \in BOOLEAN
      /\ wire' \in [Sources -> Seq(Note)]
  <2>1. wire[s] \in Seq(Note) /\ wire[s] # <<>>
    BY <1>0 DEF PollNote, DeviceTypes
  <2>2. note \in Note /\ Tail(wire[s]) \in Seq(Note)
    BY <2>1
  <2> QED
    BY <1>0, <2>2 DEF PollNote, DeviceTypes, Note
<1> HIDE DEF note
<1>2. UNCHANGED <<hand, link, seen, use, posts, phys, latch, kz, tone, fresh, ghost, left>>
  BY DEF PollNote
<1> SUFFICES midi' \in Midi /\ remapped' \in BOOLEAN /\ pad' \in Pad /\ Debounced(pad') /\ RouterTypes' /\ HeldIsReal'
  <2>1. DeviceTypes /\ Opening /\ wire' \in [Sources -> Seq(Note)]
    BY <1>1 DEF IInv
  <2>2. (midi' \in Midi /\ remapped' \in BOOLEAN /\ pad' \in Pad => DeviceTypes') /\ Opening'
    BY <1>2, <2>1 DEF DeviceTypes, Opening
  <2>3. KeyerTypes' /\ Timed(kz)'
    BY <1>2, KeyerStays
  <2>4. Debounced(pad)' = Debounced(pad')
    BY DEF Debounced
  <2> QED
    BY <2>2, <2>3, <2>4 DEF IInv
<1>3. CASE s = "cw"
  <2>1. HearNote(note.side, note.on)
    BY <1>3 DEF PollNote, note
  <2>2. PICK m : m = Learned(note.side, note.on)
    OBVIOUS
  <2>3. m \in Midi
    BY <1>0, <1>1, <2>2, LearnedIs DEF DeviceTypes
  <2>4. SetMidi(m)
    BY <2>1, <2>2 DEF HearNote
  <2>5. midi' \in Midi /\ remapped' \in BOOLEAN
    BY <1>0, <2>3, <2>4, SetMidiKeeps DEF DeviceTypes
  <2>6. PICK side : side = SideOf(m, note.side)
    OBVIOUS
  <2>7. side \in Sides \union {"none"}
    BY <1>1, <2>3, <2>6 DEF SideOf, Midi, Sides
  <2>8. CASE side = "none"
    <3>1. UNCHANGED <<pad, held, todo>>
      BY <2>1, <2>2, <2>6, <2>8 DEF HearNote
    <3> QED
      BY <1>0, <1>2, <2>5, <3>1 DEF DeviceTypes, RouterTypes, HeldIsReal, Input
  <2>9. CASE side # "none"
    <3>1. OnRaw(side, note.on) /\ side \in Sides
      BY <2>1, <2>2, <2>6, <2>7, <2>9 DEF HearNote
    <3> QED
      BY <1>0, <1>1, <1>2, <1>3, <2>5, <3>1, OnRawKeeps
  <2> QED
    BY <2>8, <2>9
<1>4. CASE s # "cw"
  <2>1. SetInput(s, Input(s, note.side), note.on) /\ UNCHANGED <<midi, pad, remapped>>
    BY <1>4 DEF PollNote, note
  <2>2. RouterTypes' /\ HeldIsReal'
    BY <1>0, <1>1, <1>2, <2>1, SetInputKeeps
  <2> QED
    BY <1>0, <2>1, <2>2 DEF DeviceTypes
<1> QED
  BY <1>3, <1>4

\* A debounce timer only releases: what it finds raw is confirmed.
LEMMA DebounceKeeps ==
  ASSUME IInv, NEW side \in Sides, DebounceExpires(side)
  PROVE  IInv'
<1>0. DeviceTypes /\ RouterTypes /\ Debounced(pad) /\ HeldIsReal /\ Opening
  BY DEF IInv
<1>1. UNCHANGED <<hand, wire, link, seen, midi, remapped, use, posts, phys, latch, kz, tone, fresh, ghost, left>>
  BY DEF DebounceExpires
<1>2. KeyerTypes' /\ Timed(kz)'
  BY <1>1, KeyerStays
<1> DEFINE on == side \in pad.raw
<1>3. CASE on = (side \in pad.confirmed)
  <2>1. pad' = [pad EXCEPT !.timers = @ \ {side}] /\ UNCHANGED <<held, todo>>
    BY <1>3 DEF DebounceExpires
  <2>2. DeviceTypes' /\ Debounced(pad)'
    BY <1>0, <1>1, <1>3, <2>1 DEF DeviceTypes, Debounced, Pad
  <2>3. RouterTypes' /\ HeldIsReal' /\ Opening'
    BY <1>0, <1>1, <2>1 DEF RouterTypes, HeldIsReal, Input, Opening
  <2> QED
    BY <1>2, <2>2, <2>3 DEF IInv
<1>4. CASE on # (side \in pad.confirmed)
  <2>1. ~on /\ side \in pad.confirmed
    BY <1>0, <1>4 DEF Debounced
  <2>2. pad' = [pad EXCEPT !.timers = @ \ {side}, !.confirmed = @ \ {side}]
    BY <1>4, <2>1 DEF DebounceExpires
  <2>3. SetInput("cw", Input("cw", side), on)
    BY <1>4 DEF DebounceExpires
  <2>4. DeviceTypes' /\ Debounced(pad)'
    BY <1>0, <1>1, <2>1, <2>2 DEF DeviceTypes, Debounced, Pad
  <2>5. "cw" \in Sources /\ on \in BOOLEAN
    BY DEF Sources
  <2>6. RouterTypes' /\ HeldIsReal'
    <3> HIDE DEF on
    <3> QED
      BY <1>0, <1>1, <2>1, <2>3, <2>5, SetInputKeeps
  <2>7. Opening'
    BY <1>0, <1>1 DEF Opening
  <2> QED
    BY <1>2, <2>4, <2>6, <2>7 DEF IInv
<1> QED
  BY <1>3, <1>4

\* What is seen of a device's link is what it is; a device that has gone holds nothing.
LEMMA PollLinkKeeps ==
  ASSUME IInv, NEW s \in Sources, PollLink(s)
  PROVE  IInv'
<1>0. DeviceTypes /\ RouterTypes /\ Debounced(pad) /\ HeldIsReal /\ Opening
  BY DEF IInv
<1>1. /\ UNCHANGED <<hand, wire, link, midi, pad, use, posts, phys, latch, kz, tone, fresh, ghost, left>>
      /\ seen' = [seen EXCEPT ![s] = link[s]] /\ link[s] # seen[s]
  BY DEF PollLink
<1>2. KeyerTypes' /\ Timed(kz)'
  BY <1>1, KeyerStays
<1>5. remapped' \in BOOLEAN
  <2>1. CASE seen[s] = "up" /\ link[s] \in {"off", "error"}
    BY <1>0, <2>1, DisconnectedKeeps DEF PollLink, DeviceTypes
  <2>2. CASE ~(seen[s] = "up" /\ link[s] \in {"off", "error"})
    BY <1>0, <2>2 DEF PollLink, DeviceTypes
  <2> QED
    BY <2>1, <2>2
<1>3. DeviceTypes' /\ Debounced(pad)' /\ Opening'
  BY <1>0, <1>1, <1>5 DEF DeviceTypes, Debounced, Opening
<1>4. RouterTypes' /\ HeldIsReal'
  <2>1. CASE seen[s] = "up" /\ link[s] \in {"off", "error"}
    <3>1. Disconnected(s)
      BY <2>1 DEF PollLink
    <3>2. RouterTypes' /\ held' = [held EXCEPT ![s] = {}]
      BY <1>0, <1>1, <3>1, DisconnectedKeeps
    <3> QED
      BY <1>0, <1>1, <3>2 DEF HeldIsReal, Input, RouterTypes, DeviceTypes
  <2>2. CASE ~(seen[s] = "up" /\ link[s] \in {"off", "error"})
    <3>1. UNCHANGED <<held, todo, remapped>>
      BY <2>2 DEF PollLink
    <3>2. seen[s] # "up"
      BY <1>0, <1>1, <2>2 DEF DeviceTypes, Links, Opening
    <3>3. \A d \in Sources : seen'[d] # "up" => seen[d] # "up"
      BY <1>0, <1>1, <3>2 DEF DeviceTypes
    <3> QED
      BY <1>0, <1>1, <3>1, <3>3 DEF HeldIsReal, Input, RouterTypes
  <2> QED
    BY <2>1, <2>2
<1> QED
  BY <1>2, <1>3, <1>4 DEF IInv

\* A port that is closed, by the operator or for another use of the device, holds nothing.
LEMMA ClosedKeeps ==
  ASSUME IInv, NEW s \in Sources, Closed(s), UNCHANGED <<tone, midi>>, left' \in Budget, hand' \in [Sources -> SUBSET Sides]
  PROVE  /\ DeviceTypes' /\ Debounced(pad)' /\ Opening'
         /\ use' = use => RouterTypes'
         /\ held' = [held EXCEPT ![s] = {}] /\ todo' \in Seq(Work) /\ seen' = [seen EXCEPT ![s] = "off"]
<1>0. DeviceTypes /\ RouterTypes /\ Debounced(pad) /\ HeldIsReal /\ Opening
  BY DEF IInv
<1>1. /\ link' = [link EXCEPT ![s] = "off"] /\ seen' = [seen EXCEPT ![s] = "off"]
      /\ wire' = [wire EXCEPT ![s] = <<>>]
      /\ pad' = IF s = "cw" THEN [pad EXCEPT !.raw = {}, !.confirmed = {}] ELSE pad
  BY DEF Closed
<1>4. remapped' \in BOOLEAN
  <2>1. CASE seen[s] = "up"
    BY <1>0, <2>1, DisconnectedKeeps DEF Closed, DeviceTypes
  <2>2. CASE seen[s] # "up"
    BY <1>0, <2>2 DEF Closed, DeviceTypes
  <2> QED
    BY <2>1, <2>2
<1>2. DeviceTypes' /\ Debounced(pad)' /\ Opening'
  <2>1. "off" \in Links /\ <<>> \in Seq(Note)
    BY DEF Links
  <2>2. wire' \in [Sources -> Seq(Note)] /\ link' \in [Sources -> Links] /\ seen' \in [Sources -> Links]
    BY <1>0, <1>1, <2>1 DEF DeviceTypes
  <2>3. pad' \in Pad /\ Debounced(pad)'
    BY <1>0, <1>1 DEF DeviceTypes, Debounced, Pad
  <2>4. Opening'
    BY <1>0, <1>1 DEF DeviceTypes, Opening
  <2> QED
    BY <1>0, <1>4, <2>2, <2>3, <2>4 DEF DeviceTypes
<1>3. held' = [held EXCEPT ![s] = {}] /\ todo' \in Seq(Work)
  <2>1. CASE seen[s] = "up"
    BY <1>0, <2>1, DisconnectedKeeps DEF Closed
  <2>2. CASE seen[s] # "up"
    BY <1>0, <2>2 DEF Closed, HeldIsReal, RouterTypes
  <2> QED
    BY <2>1, <2>2
<1> QED
  BY <1>0, <1>1, <1>2, <1>3 DEF RouterTypes

\* A port that is closed while the device's use may change; the paddle's meaning
\* changes when nothing is held.
LEMMA ClosingKeeps ==
  ASSUME IInv, NEW s \in Sources, Closed(s), UNCHANGED <<tone, midi, posts, phys, latch, kz, fresh, ghost, hand>>,
         left' \in Budget, use' \in [Sources -> Uses],
         \A t \in Sources : t # s => use'[t] = use[t]
  PROVE  IInv'
<1>0. RouterTypes /\ HeldIsReal /\ DeviceTypes
  BY DEF IInv
<1>1. hand' \in [Sources -> SUBSET Sides]
  BY <1>0 DEF DeviceTypes
<1>2. /\ DeviceTypes' /\ Debounced(pad)' /\ Opening'
      /\ held' = [held EXCEPT ![s] = {}] /\ todo' \in Seq(Work) /\ seen' = [seen EXCEPT ![s] = "off"]
  BY <1>1, ClosedKeeps
<1>3. RouterTypes'
  BY <1>0, <1>2 DEF RouterTypes
<1>4. HeldIsReal'
  <2> SUFFICES ASSUME NEW t \in Sources
               PROVE  /\ held'[t] \subseteq {Input(t, side) : side \in Sides}'
                      /\ seen'[t] # "up" => held'[t] = {}
    BY DEF HeldIsReal
  <2>1. CASE t = s
    BY <1>0, <1>2, <2>1 DEF RouterTypes
  <2>2. CASE t # s
    <3>1. held'[t] = held[t] /\ seen'[t] = seen[t] /\ use'[t] = use[t]
      BY <1>0, <1>2, <2>2 DEF RouterTypes, DeviceTypes
    <3> QED
      BY <1>0, <3>1 DEF HeldIsReal, Input
  <2> QED
    BY <2>1, <2>2
<1>5. KeyerTypes' /\ Timed(kz)'
  BY KeyerStays
<1> QED
  BY <1>2, <1>3, <1>4, <1>5 DEF IInv

\* What the operator, the devices and the radio do.
LEMMA OperatorKeeps == IInv /\ (Operator \/ \E s \in Sources : OpenEnds(s)) => IInv'
<1> SUFFICES ASSUME IInv, Operator \/ \E s \in Sources : OpenEnds(s) PROVE IInv'
  OBVIOUS
<1>0. DeviceTypes /\ RouterTypes /\ Debounced(pad) /\ HeldIsReal /\ Opening
  BY DEF IInv
<1>1. ASSUME NEW s \in Sources, NEW side \in Sides, Move(s, side) PROVE IInv'
  <2> DEFINE on == side \notin hand[s]
             note == [side |-> side, on |-> on]
  <2>1. note \in Note
    <3>1. on \in BOOLEAN
      OBVIOUS
    <3> HIDE DEF on
    <3> QED
      BY <3>1 DEF Note
  <2>2. Append(wire[s], note) \in Seq(Note)
    <3> HIDE DEF note
    <3> QED
      BY <1>0, <2>1 DEF DeviceTypes
  <2>3. left' \in Budget
    BY <1>0, <1>1, Spending DEF Move
  <2>4. hand' \in [Sources -> SUBSET Sides] /\ wire' \in [Sources -> Seq(Note)]
    <3>1. hand' \in [Sources -> SUBSET Sides]
      BY <1>0, <1>1 DEF Move, DeviceTypes
    <3>2. wire' = wire \/ wire' = [wire EXCEPT ![s] = Append(@, note)]
      BY <1>1 DEF Move
    <3> HIDE DEF note
    <3> QED
      BY <1>0, <2>2, <3>1, <3>2 DEF DeviceTypes
  <2>5. UNCHANGED <<link, seen, midi, remapped, pad, use, held, todo, posts, phys, latch, kz, tone, fresh, ghost>>
    BY <1>1 DEF Move
  <2>6. DeviceTypes' /\ Debounced(pad)' /\ Opening'
    BY <1>0, <2>3, <2>4, <2>5 DEF DeviceTypes, Debounced, Opening
  <2>7. RouterTypes' /\ HeldIsReal'
    BY <1>0, <2>5 DEF RouterTypes, HeldIsReal, Input
  <2>8. KeyerTypes' /\ Timed(kz)'
    BY <2>5, KeyerStays
  <2> QED
    BY <2>6, <2>7, <2>8 DEF IInv
<1>2. ASSUME NEW s \in Sources, Unplug(s) \/ OpenPort(s) \/ OpenEnds(s) PROVE IInv'
  <2>1. UNCHANGED <<hand, midi, remapped, pad, use, held, todo, posts, phys, latch, kz, tone, fresh, ghost>>
    BY <1>2 DEF Unplug, OpenPort, OpenEnds
  <2>2. left' \in Budget
    <3>1. CASE Unplug(s) \/ OpenPort(s)
      BY <1>0, <3>1, Spending DEF Unplug, OpenPort
    <3>2. CASE OpenEnds(s)
      BY <1>0, <3>2 DEF OpenEnds, DeviceTypes
    <3> QED
      BY <1>2, <3>1, <3>2
  <2>3. wire' \in [Sources -> Seq(Note)]
    <3>1. <<>> \in Seq(Note)
      OBVIOUS
    <3> QED
      BY <1>0, <1>2, <3>1 DEF Unplug, OpenPort, OpenEnds, DeviceTypes
  <2>4. /\ link' \in [Sources -> Links] /\ seen' \in [Sources -> Links] /\ Opening'
        /\ \A t \in Sources : seen'[t] # "up" => seen[t] # "up"
    BY <1>0, <1>2, ZenonT(40) DEF Unplug, OpenPort, OpenEnds, DeviceTypes, Links, Opening
  <2>5. DeviceTypes' /\ Debounced(pad)'
    BY <1>0, <2>1, <2>2, <2>3, <2>4 DEF DeviceTypes, Debounced
  <2>6. RouterTypes' /\ HeldIsReal'
    BY <1>0, <2>1, <2>4 DEF RouterTypes, HeldIsReal, Input
  <2>7. KeyerTypes' /\ Timed(kz)'
    BY <2>1, KeyerStays
  <2> QED
    BY <2>4, <2>5, <2>6, <2>7 DEF IInv
<1>3. ASSUME NEW s \in Sources, ClosePort(s) PROVE IInv'
  <2>1. /\ UNCHANGED <<hand, midi, use, posts, phys, latch, kz, tone, fresh, ghost>>
        /\ Closed(s) /\ left' \in Budget
    BY <1>0, <1>3, Spending DEF ClosePort
  <2> QED
    BY <1>0, <2>1, ClosingKeeps DEF RouterTypes
<1>4. ASSUME NEW u \in Uses, ChangeCwUse(u) PROVE IInv'
  <2>1. /\ UNCHANGED <<hand, midi, posts, phys, latch, kz, tone, fresh, ghost>>
        /\ use' = [use EXCEPT !["cw"] = u] /\ left' \in Budget
    BY <1>0, <1>4, Spending DEF ChangeCwUse
  <2>2. use' \in [Sources -> Uses] /\ \A t \in Sources : t # "cw" => use'[t] = use[t]
    BY <1>0, <2>1 DEF RouterTypes
  <2>3. CASE seen["cw"] = "up"
    <3>1. Closed("cw") /\ "cw" \in Sources
      BY <1>4, <2>3 DEF ChangeCwUse, Sources
    <3> QED
      BY <2>1, <2>2, <3>1, ClosingKeeps
  <2>4. CASE seen["cw"] # "up"
    <3>1. UNCHANGED <<link, seen, wire, pad, held, todo, remapped>>
      BY <1>4, <2>4 DEF ChangeCwUse
    <3>2. DeviceTypes' /\ Debounced(pad)' /\ Opening'
      BY <1>0, <2>1, <3>1 DEF DeviceTypes, Debounced, Opening
    <3>3. RouterTypes'
      BY <1>0, <2>1, <2>2, <3>1 DEF RouterTypes
    <3>4. held["cw"] = {}
      BY <1>0, <2>4 DEF HeldIsReal, Sources
    <3>5. HeldIsReal'
      BY <1>0, <2>2, <3>1, <3>4 DEF HeldIsReal, Input
    <3>6. KeyerTypes' /\ Timed(kz)'
      BY <2>1, KeyerStays
    <3> QED
      BY <3>2, <3>3, <3>5, <3>6 DEF IInv
  <2> QED
    BY <2>3, <2>4
<1>5. ASSUME NEW u \in Uses, SetMapping(u) PROVE IInv'
  <2>1. /\ UNCHANGED <<hand, link, seen, wire, midi, remapped, pad, posts, phys, latch, kz, tone, fresh, ghost>>
        /\ use' = [use EXCEPT !["ctr2"] = u] /\ left' \in Budget
        /\ held' = [held EXCEPT !["ctr2"] = {}] /\ todo' = Transitions(held')
    BY <1>0, <1>5, Spending DEF SetMapping
  <2>2. todo' \in Seq(Work)
    BY <2>1, TransitionsAre
  <2>3. DeviceTypes' /\ Debounced(pad)' /\ Opening'
    BY <1>0, <2>1 DEF DeviceTypes, Debounced, Opening
  <2>4. RouterTypes'
    BY <1>0, <2>1, <2>2 DEF RouterTypes
  <2>5. HeldIsReal'
    <3>1. \A t \in Sources : t # "ctr2" => use'[t] = use[t] /\ held'[t] = held[t]
      BY <1>0, <2>1 DEF RouterTypes
    <3>2. held'["ctr2"] = {}
      BY <1>0, <2>1 DEF RouterTypes, Sources
    <3> QED
      BY <1>0, <2>1, <3>1, <3>2 DEF HeldIsReal, Input
  <2>6. KeyerTypes' /\ Timed(kz)'
    BY <2>1, KeyerStays
  <2> QED
    BY <2>3, <2>4, <2>5, <2>6 DEF IInv
<1>6. ASSUME NEW what \in {"reverse", "mode"}, KeyerSetting(what) PROVE IInv'
  <2>1. /\ UNCHANGED <<hand, link, seen, wire, midi, remapped, pad, use, held, todo, phys, latch, kz, tone, fresh, ghost>>
        /\ posts' = Append(posts, what) /\ left' \in Budget
    BY <1>0, <1>6, Spending DEF KeyerSetting
  <2>2. KeyerTypes' /\ Timed(kz)'
    BY <2>1 DEF IInv, KeyerTypes, Timed, Post
  <2>3. DeviceTypes' /\ Debounced(pad)' /\ Opening'
    BY <1>0, <2>1 DEF DeviceTypes, Debounced, Opening
  <2>4. RouterTypes' /\ HeldIsReal'
    BY <1>0, <2>1 DEF RouterTypes, HeldIsReal, Input
  <2> QED
    BY <2>2, <2>3, <2>4 DEF IInv
<1>7. ASSUME (\E profile \in Profiles : ChangeProfile(profile)) \/ (\E side \in Sides : Learn(side)) PROVE IInv'
  <2>1. PICK m \in Midi : SetMidi(m)
    <3>1. CASE \E profile \in Profiles : ChangeProfile(profile)
      <4>1. PICK profile \in Profiles : SetMidi([midi EXCEPT !.profile = profile, !.learning = "none"])
        BY <3>1 DEF ChangeProfile
      <4>2. [midi EXCEPT !.profile = profile, !.learning = "none"] \in Midi
        BY <1>0 DEF DeviceTypes, Midi
      <4> QED
        BY <4>1, <4>2
    <3>2. CASE \E side \in Sides : Learn(side)
      <4>1. PICK side \in Sides : SetMidi([midi EXCEPT !.learning = side])
        BY <3>2 DEF Learn
      <4>2. [midi EXCEPT !.learning = side] \in Midi
        BY <1>0 DEF DeviceTypes, Midi
      <4> QED
        BY <4>1, <4>2
    <3> QED
      BY <1>7, <3>1, <3>2
  <2>2. /\ UNCHANGED <<hand, link, seen, wire, pad, use, held, todo, posts, phys, latch, kz, tone, fresh, ghost>>
        /\ Spends("change")
    BY <1>7 DEF ChangeProfile, Learn
  <2>3. left' \in Budget
    BY <1>0, <2>2, Spending
  <2>4. midi' \in Midi /\ remapped' \in BOOLEAN
    BY <1>0, <2>1, SetMidiKeeps DEF DeviceTypes
  <2>5. DeviceTypes' /\ Debounced(pad)' /\ Opening'
    BY <1>0, <2>2, <2>3, <2>4 DEF DeviceTypes, Debounced, Opening
  <2>6. RouterTypes' /\ HeldIsReal'
    BY <1>0, <2>2 DEF RouterTypes, HeldIsReal, Input
  <2>7. KeyerTypes' /\ Timed(kz)'
    BY <2>2, KeyerStays
  <2> QED
    BY <2>5, <2>6, <2>7 DEF IInv
<1> QED
  BY <1>1, <1>2, <1>3, <1>4, <1>5, <1>6, <1>7 DEF Operator

----------------------------------------------------------------------------
(***************************************************************************)
(* The theorems.                                                           *)
(***************************************************************************)
\* A quiet moment with both devices connected.
LEMMA InitIInv == Init => IInv
<1> SUFFICES ASSUME Init PROVE IInv
  OBVIOUS
<1>1. left \in Budget
  BY BudgetsAssumption DEF Init, Budget
<1>2. <<>> \in Seq(Note) /\ <<>> \in Seq(Work) /\ <<>> \in Seq(Post) /\ "up" \in Links
  BY DEF Links
<1>8. midi \in Midi
  BY LearntAssumption DEF Init, Midi, Profiles
<1>3. DeviceTypes
  BY <1>1, <1>2, <1>8 DEF Init, DeviceTypes, Pad
<1>4. RouterTypes
  BY <1>2 DEF Init, RouterTypes, Uses
<1>5. kz \in Keyer /\ Timed(kz)
  <2>1. PICK b \in BOOLEAN : kz = [state |-> "Idle", squeezed |-> FALSE, timer |-> FALSE, pc |-> "wait",
                                  live |-> {}, next |-> "none", reversed |-> FALSE, modeB |-> b]
    BY DEF Init
  <2>2. "Idle" \notin Elements /\ "Idle" \in Elements \union {"Idle"} /\ "none" \in Elements \union {"none"}
    BY DEF Elements
  <2>3. kz \in Keyer
    BY <2>1, <2>2 DEF Keyer
  <2> QED
    BY <2>1, <2>2, <2>3 DEF Timed
<1>6. KeyerTypes
  BY <1>2, <1>5 DEF Init, KeyerTypes
<1>7. Debounced(pad) /\ Opening /\ HeldIsReal
  BY DEF Init, Debounced, Opening, HeldIsReal
<1> QED
  BY <1>3, <1>4, <1>5, <1>6, <1>7 DEF IInv

\* Every step of the UI thread, the keyer's thread, the devices and the operator.
LEMMA Inductive == IInv /\ [Next]_vars => IInv'
<1> SUFFICES ASSUME IInv, [Next]_vars PROVE IInv'
  OBVIOUS
<1>1. CASE UiNext
  BY <1>1, UiStepKeeps, DebounceKeeps, PollNoteKeeps, PollLinkKeeps DEF UiNext
<1>2. CASE UNCHANGED vars
  <2>1. DeviceTypes' /\ RouterTypes' /\ Debounced(pad)'
    BY <1>2 DEF vars, IInv, DeviceTypes, RouterTypes, Debounced
  <2>2. Opening' /\ HeldIsReal'
    BY <1>2 DEF vars, IInv, Opening, HeldIsReal, Input
  <2>3. KeyerTypes' /\ Timed(kz)'
    BY <1>2, KeyerStays DEF vars
  <2> QED
    BY <2>1, <2>2, <2>3 DEF IInv
<1> QED
  BY <1>1, <1>2, KeyerKeeps, OperatorKeeps DEF Next

\* The invariant holds throughout.
THEOREM Invariant == Spec => []IInv
<1> QED
  BY InitIInv, Inductive, PTL DEF Spec

(***************************************************************************)
(* Every release waits for a timer that runs, and so does the end of every *)
(* element; besides, every variable keeps its type.                        *)
(***************************************************************************)
THEOREM TypeCorrect == Spec => []TypeOK
<1>1. IInv => TypeOK
  <2> SUFFICES ASSUME IInv PROVE TypeOK
    OBVIOUS
  <2>1. todo \in Seq(OpType)
    <3>1. todo \in Seq(Work) /\ Work \subseteq OpType
      BY DEF IInv, RouterTypes, Work
    <3> QED
      BY <3>1
  <2>2. \A side \in Sides : (side \in pad.raw) # (side \in pad.confirmed) => side \in pad.timers
    BY DEF IInv, Debounced
  <2>3. Playing /\ kz.pc = "wait" => kz.timer
    BY DEF IInv, Timed, Playing
  <2>4. /\ hand \in [Sources -> SUBSET Sides]
        /\ wire \in [Sources -> Seq([side : Sides, on : BOOLEAN])]
        /\ link \in [Sources -> Links] /\ seen \in [Sources -> Links]
        /\ midi \in [profile : Profiles, notes : [Sides -> Sides \union {"none"}], learning : Sides \union {"none"}]
        /\ remapped \in BOOLEAN
        /\ pad \in [raw : SUBSET Sides, confirmed : SUBSET Sides, timers : SUBSET Sides]
        /\ left \in [move : Nat, link : Nat, change : Nat]
    BY DEF IInv, DeviceTypes, Note, Midi, Pad, Budget
  <2>5. /\ use \in [Sources -> Uses] /\ held \in [Sources -> SUBSET Inputs] /\ tone \in BOOLEAN
    BY DEF IInv, RouterTypes
  <2>6. /\ posts \in Seq({"change", "stop", "reverse", "mode"})
        /\ phys \subseteq Elements /\ latch \subseteq Elements /\ fresh \subseteq Elements
        /\ ghost \in BOOLEAN
        /\ kz \in [state : Elements \union {"Idle"}, squeezed : BOOLEAN, timer : BOOLEAN,
                   pc : {"wait", "dah", "live", "latches", "act", "both"}, live : SUBSET Elements,
                   next : Elements \union {"none"}, reversed : BOOLEAN, modeB : BOOLEAN]
    BY DEF IInv, KeyerTypes, Post, Keyer
  <2> QED
    BY <2>1, <2>2, <2>3, <2>4, <2>5, <2>6 DEF TypeOK
<1> QED
  BY <1>1, Invariant, PTL

(***************************************************************************)
(* What the router holds for a device is what that device's paddles stand  *)
(* for, and a device that is not connected holds nothing: for every series *)
(* of moves, lost devices and changed settings.                            *)
(***************************************************************************)
THEOREM HoldsWhatIsReal == Spec => []HeldIsReal
<1>1. IInv => HeldIsReal
  BY DEF IInv
<1> QED
  BY <1>1, Invariant, PTL
=============================================================================
