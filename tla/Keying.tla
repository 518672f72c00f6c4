-------------------------------- MODULE Keying --------------------------------
(***************************************************************************)
(* Paddles and keys, from the MIDI devices to the element that is sent      *)
(* (Android).  A device's notes wait in its session's queue (wire) until    *)
(* the UI thread polls them: HalikeyDevice takes a note for the side it has *)
(* in the mapping in force then (midi), confirms a press at once and a      *)
(* release after its debounce timer (pad); Ctr2MidiDevice passes them on.   *)
(* MidiInputRouter merges the two devices (held); MainWindow hands dits and *)
(* dahs to the IambicKeyer, whose atomics (phys, latch) it stores itself,   *)
(* and straight keying to the sidetone.  The keyer's own thread takes       *)
(* posted calls (posts) and its element timer (kz).                         *)
(*                                                                          *)
(* The UI thread's stores and posts are steps of their own (todo), and so   *)
(* are the keyer's loads.  Sides are physical, "dit" and "dah" of phys and  *)
(* latch too: m_reversed exchanges them inside the keyer.  A running timer  *)
(* may expire at any moment.                                                *)
(***************************************************************************)
EXTENDS Naturals, Sequences

CONSTANTS
  Learnt,  \* the notes that an earlier session may have learned, by side
  Budgets  \* bound: how much one behaviour may ask for, one of these at a time: move,
           \* presses and releases of a paddle; link, devices unplugged, closed or
           \* opened; change, settings changed

ASSUME BudgetsAssumption == Budgets \subseteq [move : Nat, link : Nat, change : Nat]

Sources == {"cw", "ctr2"}
Sides == {"left", "right"}
Elements == {"dit", "dah"}
Uses == {"paddles", "left", "right"}   \* a straight key is on one of the sides
Profiles == {"fixed", "custom"}        \* TINY MIDI and HALIKEY have the same notes

ASSUME LearntAssumption == Learnt \subseteq [Sides -> Sides \union {"none"}]

VARIABLES
  hand,   \* the paddles down at each device
  wire,   \* AndroidBleMidi's events not yet polled
  link,   \* AndroidBleMidi's connectionState
  seen,   \* m_androidConnectionState of the two devices; m_connected is seen = "up"
  midi,   \* the CW device's mapping: midiMappingProfile, the learned notes (each named
          \* by the paddle that plays it, or "none") and m_midiLearningTarget
  pad,    \* HalikeyDevice: m_raw..State, m_confirmed..State, the timers that run
  use,    \* CwMidiKeyingMode and the CTR2 mapping's keyingMode
  held,   \* InputAggregator::m_sources
  todo,   \* what the UI thread's current handler still has to do
  posts,  \* the keyer's event queue
  phys, latch,
  kz,     \* IambicKeyer
  tone,   \* SidetoneGenerator::m_straightKeyDown
  fresh,  \* history: the paddles pressed since they last began an element
  ghost,  \* history: an element was sent that nobody asked for
  remapped, \* history: since it connected, the CW device's note of a side heard down has
          \* been given another meaning
  left    \* what the bounds still allow

vars == <<hand, wire, link, seen, midi, pad, use, held, todo, posts, phys, latch, kz, tone, fresh,
          ghost, remapped, left>>

\* From a quiet moment with both devices connected.
Init ==
  /\ hand = [s \in Sources |-> {}] /\ wire = [s \in Sources |-> <<>>]
  /\ link = [s \in Sources |-> "up"] /\ seen = [s \in Sources |-> "up"]
  /\ \E notes \in Learnt : midi = [profile |-> "fixed", notes |-> notes, learning |-> "none"]
  /\ pad = [raw |-> {}, confirmed |-> {}, timers |-> {}]
  /\ use = [s \in Sources |-> "paddles"] /\ held = [s \in Sources |-> {}]
  /\ todo = <<>> /\ posts = <<>> /\ phys = {} /\ latch = {}
  /\ kz \in {[state |-> "Idle", squeezed |-> FALSE, timer |-> FALSE, pc |-> "wait", live |-> {},
              next |-> "none", reversed |-> FALSE, modeB |-> b] : b \in BOOLEAN}
  /\ tone = FALSE /\ fresh = {} /\ ghost = FALSE /\ remapped = FALSE
  /\ left \in Budgets

Spends(what) == left[what] > 0 /\ left' = [left EXCEPT ![what] = @ - 1]
KeyerRest == UNCHANGED <<hand, wire, link, seen, midi, pad, use, held, todo, tone, remapped, left>>
UiFree == todo = <<>>

(***************************************************************************)
(* AndroidBleMidi and the operator's hands                                 *)
(***************************************************************************)
Move(s, side) ==
  /\ Spends("move")
  /\ LET on == side \notin hand[s] IN
     /\ hand' = [hand EXCEPT ![s] = IF on THEN @ \union {side} ELSE @ \ {side}]
     /\ wire' = IF link[s] = "up" THEN [wire EXCEPT ![s] = Append(@, [side |-> side, on |-> on])]
                ELSE wire
  /\ UNCHANGED <<link, seen, midi, pad, use, held, todo, posts, phys, latch, kz, tone, fresh, ghost, remapped>>

Unplug(s) ==
  /\ link[s] = "up" /\ Spends("link")
  /\ link' = [link EXCEPT ![s] = "error"] /\ wire' = [wire EXCEPT ![s] = <<>>]
  /\ UNCHANGED <<hand, seen, midi, pad, use, held, todo, posts, phys, latch, kz, tone, fresh, ghost, remapped>>

OpenEnds(s) ==
  /\ link[s] = "opening"
  /\ \E l \in {"up", "error"} : link' = [link EXCEPT ![s] = l]
  /\ UNCHANGED <<hand, wire, seen, midi, pad, use, held, todo, posts, phys, latch, kz, tone, fresh,
                 ghost, remapped, left>>

(***************************************************************************)
(* MidiInputRouter and the wiring of MainWindow                            *)
(***************************************************************************)
Input(s, side) ==
  IF use[s] = "paddles" THEN (IF side = "left" THEN "dit" ELSE "dah")
  ELSE IF use[s] = side THEN "key" ELSE "none"

Active(h) == UNION {h[s] : s \in Sources}

\* What setDitPaddle, setDahPaddle and the straight key's slot do, in order.
Ops(i, on) ==
  IF i = "key" THEN <<[op |-> "tone", of |-> i, on |-> on]>>
  ELSE <<[op |-> "store", of |-> i, on |-> on]>>
       \o (IF on THEN <<[op |-> "latch", of |-> i, on |-> TRUE]>> ELSE <<>>)
       \o <<[op |-> "post", of |-> "change", on |-> TRUE]>>

\* applyInputTransitions: an input follows the sources' union.
Transitions(new) ==
  LET Of(i) == IF (i \in Active(new)) = (i \in Active(held)) THEN <<>>
               ELSE Ops(i, i \in Active(new))
  IN Of("dit") \o Of("dah") \o Of("key")

SetInput(s, i, on) ==
  LET new == [held EXCEPT ![s] = IF on THEN @ \union {i} ELSE @ \ {i}] IN
  IF i = "none" THEN UNCHANGED <<held, todo>>
  ELSE held' = new /\ todo' = Transitions(new)

\* Whether an input of a device that has gone leaves the keyer to the other one.
KeepsKeying(new) == Active(new) \intersect Elements # {}

Disconnected(s) ==
  LET new == [held EXCEPT ![s] = {}] IN
  /\ held' = new /\ remapped' = (remapped /\ s # "cw")
  /\ todo' = Transitions(new)
       \o (IF KeepsKeying(new) THEN <<>> ELSE <<[op |-> "post", of |-> "stop", on |-> TRUE]>>)

\* One store, post or call of the handler the UI thread is in.
UiStep ==
  /\ todo # <<>> /\ todo' = Tail(todo)
  /\ LET o == Head(todo) IN
     /\ phys' = IF o.op # "store" THEN phys
                ELSE IF o.on THEN phys \union {o.of} ELSE phys \ {o.of}
     /\ fresh' = IF o.op = "store" /\ o.on THEN fresh \union {o.of} ELSE fresh
     /\ latch' = IF o.op = "latch" THEN latch \union {o.of} ELSE latch
     /\ posts' = IF o.op = "post" THEN Append(posts, o.of) ELSE posts
     /\ tone' = IF o.op = "tone" THEN o.on ELSE tone
  /\ UNCHANGED <<hand, wire, link, seen, midi, pad, use, held, kz, ghost, remapped, left>>

(***************************************************************************)
(* HalikeyDevice and Ctr2MidiDevice                                        *)
(***************************************************************************)
M_OnRaw(side, on) ==
  LET p == [pad EXCEPT !.raw = IF on THEN @ \union {side} ELSE @ \ {side}] IN
  IF on /\ side \notin pad.confirmed
  THEN /\ pad' = [p EXCEPT !.confirmed = @ \union {side}, !.timers = @ \ {side}]
       /\ SetInput("cw", Input("cw", side), TRUE)
  ELSE pad' = [p EXCEPT !.timers = IF on THEN @ \ {side} ELSE @] /\ UNCHANGED <<held, todo>>

\* onRawDit, onRawDah
OnRaw(side, on) ==
  LET p == [pad EXCEPT !.raw = IF on THEN @ \union {side} ELSE @ \ {side}] IN
  IF on /\ side \notin pad.confirmed
  THEN /\ pad' = [p EXCEPT !.confirmed = @ \union {side}, !.timers = @ \ {side}]
       /\ SetInput("cw", Input("cw", side), TRUE)
  ELSE /\ pad' = [p EXCEPT !.timers = @ \union {side}]
       /\ UNCHANGED <<held, todo>>

\* The side a note stands for, and "none" for a note that is not mapped.
SideOf(m, note) ==
  IF m.profile = "fixed" THEN note
  ELSE IF note = m.notes["left"] THEN "left"
  ELSE IF note = m.notes["right"] THEN "right" ELSE "none"

SetMidi(m) ==
  /\ midi' = m
  /\ remapped' = (remapped \/ \E n \in Sides : /\ seen["cw"] = "up" /\ SideOf(midi, n) \in pad.raw
                                              /\ SideOf(m, n) # SideOf(midi, n))

\* rawMidiEvent: LEARN takes a press for the side it waits for, before the same event is
\* looked up.
Learned(note, on) ==
  IF on /\ midi.learning # "none"
  THEN [profile |-> "custom", notes |-> [midi.notes EXCEPT ![midi.learning] = note], learning |-> "none"]
  ELSE midi

HearNote(note, on) ==
  LET m == Learned(note, on)
      side == SideOf(m, note)
  IN /\ SetMidi(m)
     /\ IF side = "none" THEN UNCHANGED <<pad, held, todo>> ELSE OnRaw(side, on)

PollNote(s) ==
  /\ UiFree /\ seen[s] = "up" /\ wire[s] # <<>>
  /\ wire' = [wire EXCEPT ![s] = Tail(@)]
  /\ LET note == Head(wire[s]) IN
     IF s = "cw" THEN HearNote(note.side, note.on)
     ELSE SetInput(s, Input(s, note.side), note.on) /\ UNCHANGED <<midi, pad, remapped>>
  /\ UNCHANGED <<hand, link, seen, use, posts, phys, latch, kz, tone, fresh, ghost, left>>

DebounceExpires(side) ==
  /\ UiFree /\ side \in pad.timers
  /\ LET on == side \in pad.raw IN
     IF on = (side \in pad.confirmed)
     THEN pad' = [pad EXCEPT !.timers = @ \ {side}] /\ UNCHANGED <<held, todo>>
     ELSE /\ pad' = [pad EXCEPT !.timers = @ \ {side},
                               !.confirmed = IF on THEN @ \union {side} ELSE @ \ {side}]
          /\ SetInput("cw", Input("cw", side), on)
  /\ UNCHANGED <<hand, wire, link, seen, midi, use, posts, phys, latch, kz, tone, fresh, ghost, remapped, left>>

M_PollLink(s) ==
  /\ UiFree /\ link[s] # seen[s]
  /\ seen' = [seen EXCEPT ![s] = link[s]]
  /\ IF seen[s] = "up" /\ link[s] = "off" THEN Disconnected(s) ELSE UNCHANGED <<held, todo, remapped>>
  /\ UNCHANGED <<hand, wire, link, midi, pad, use, posts, phys, latch, kz, tone, fresh, ghost, left>>

PollLink(s) ==
  /\ UiFree /\ link[s] # seen[s]
  /\ seen' = [seen EXCEPT ![s] = link[s]]
  /\ IF seen[s] = "up" /\ link[s] \in {"off", "error"} THEN Disconnected(s)
     ELSE UNCHANGED <<held, todo, remapped>>
  /\ UNCHANGED <<hand, wire, link, midi, pad, use, posts, phys, latch, kz, tone, fresh, ghost, left>>

OpenPort(s) ==
  /\ UiFree /\ seen[s] # "up" /\ Spends("link")
  /\ link' = [link EXCEPT ![s] = "opening"] /\ seen' = [seen EXCEPT ![s] = "opening"]
  /\ wire' = [wire EXCEPT ![s] = <<>>]
  /\ UNCHANGED <<hand, midi, pad, use, held, todo, posts, phys, latch, kz, tone, fresh, ghost, remapped>>

Closed(s) ==
  /\ link' = [link EXCEPT ![s] = "off"] /\ seen' = [seen EXCEPT ![s] = "off"]
  /\ wire' = [wire EXCEPT ![s] = <<>>]
  /\ pad' = IF s = "cw" THEN [pad EXCEPT !.raw = {}, !.confirmed = {}] ELSE pad
  /\ IF seen[s] = "up" THEN Disconnected(s) ELSE UNCHANGED <<held, todo, remapped>>

ClosePort(s) ==
  /\ UiFree /\ seen[s] = "up" /\ Spends("link") /\ Closed(s)
  /\ UNCHANGED <<hand, midi, use, posts, phys, latch, kz, tone, fresh, ghost>>

M_ChangeCwUse(u) ==
  /\ UiFree /\ u # use["cw"] /\ Spends("change")
  /\ use' = [use EXCEPT !["cw"] = u]
  /\ UNCHANGED <<hand, midi, posts, phys, latch, kz, tone, fresh, ghost, link, seen, wire, pad, held,
                 todo, remapped>>

\* The keying buttons of the CW KEYER page close the port first; a new CTR2
\* mapping clears what the device holds.
ChangeCwUse(u) ==
  /\ UiFree /\ u # use["cw"] /\ Spends("change")
  /\ IF seen["cw"] = "up" THEN Closed("cw")
     ELSE UNCHANGED <<link, seen, wire, pad, held, todo, remapped>>
  /\ use' = [use EXCEPT !["cw"] = u]
  /\ UNCHANGED <<hand, midi, posts, phys, latch, kz, tone, fresh, ghost>>

\* The profile buttons and LEARN, which custom mappings have, leave the port open.
ChangeProfile(profile) ==
  /\ UiFree /\ profile # midi.profile /\ Spends("change")
  /\ SetMidi([midi EXCEPT !.profile = profile, !.learning = "none"])
  /\ UNCHANGED <<hand, link, seen, wire, pad, use, held, todo, posts, phys, latch, kz, tone, fresh, ghost>>

Learn(side) ==
  /\ UiFree /\ midi.profile = "custom" /\ side # midi.learning /\ Spends("change")
  /\ SetMidi([midi EXCEPT !.learning = side])
  /\ UNCHANGED <<hand, link, seen, wire, pad, use, held, todo, posts, phys, latch, kz, tone, fresh, ghost>>

SetMapping(u) ==
  /\ UiFree /\ u # use["ctr2"] /\ Spends("change")
  /\ LET new == [held EXCEPT !["ctr2"] = {}] IN held' = new /\ todo' = Transitions(new)
  /\ use' = [use EXCEPT !["ctr2"] = u]
  /\ UNCHANGED <<hand, link, seen, wire, midi, pad, posts, phys, latch, kz, tone, fresh, ghost, remapped>>

\* The K4's paddle orientation and iambic mode.
KeyerSetting(what) ==
  /\ UiFree /\ Spends("change")
  /\ posts' = Append(posts, what)
  /\ UNCHANGED <<hand, link, seen, wire, midi, pad, use, held, todo, phys, latch, kz, tone, fresh, ghost, remapped>>

(***************************************************************************)
(* IambicKeyer                                                             *)
(***************************************************************************)
Other(e) == IF e = "dit" THEN "dah" ELSE "dit"
PhysOf(e) == IF kz.reversed THEN Other(e) ELSE e
Live(e) == PhysOf(e) \in phys
Latched(e) == PhysOf(e) \in latch
Playing == kz.state \in Elements

\* The element to enter, and back to the event loop afterwards.
Decide(e) == kz' = [kz EXCEPT !.next = e, !.pc = "act"]

\* A load of a paddle and then of its latch gives what both hold at one moment.
HandleDit ==
  /\ kz.pc = "wait" /\ posts # <<>> /\ Head(posts) = "change"
  /\ posts' = Tail(posts)
  /\ kz' = [kz EXCEPT !.pc = "dah", !.live = IF Live("dit") \/ Latched("dit") THEN {"dit"} ELSE {}]
  /\ KeyerRest /\ UNCHANGED <<phys, latch, fresh, ghost>>

HandleDah ==
  /\ kz.pc = "dah"
  /\ LET down == kz.live \union (IF Live("dah") \/ Latched("dah") THEN {"dah"} ELSE {}) IN
     IF Playing \/ down = {}
     THEN kz' = [kz EXCEPT !.pc = "wait", !.live = {}, !.squeezed = @ \/ (Playing /\ down = Elements)]
     ELSE kz' = [kz EXCEPT !.pc = "act", !.live = down,
                           !.next = IF "dit" \in down THEN "dit" ELSE "dah"]
  /\ KeyerRest /\ UNCHANGED <<posts, phys, latch, fresh, ghost>>

TimerFires ==
  /\ kz.pc = "wait" /\ kz.timer
  /\ kz' = [kz EXCEPT !.pc = "live", !.timer = FALSE, !.live = IF Live("dit") THEN {"dit"} ELSE {}]
  /\ KeyerRest /\ UNCHANGED <<posts, phys, latch, fresh, ghost>>

TimerDah ==
  /\ kz.pc = "live"
  /\ kz' = [kz EXCEPT !.pc = "latches", !.live = @ \union (IF Live("dah") THEN {"dah"} ELSE {})]
  /\ KeyerRest /\ UNCHANGED <<posts, phys, latch, fresh, ghost>>

\* onTimerFired's choice, from the live paddles and the latches.
Choice(down) ==
  IF kz.squeezed /\ kz.live = {} THEN (IF kz.modeB THEN Other(kz.state) ELSE "none")
  ELSE IF Other(kz.state) \in down THEN Other(kz.state)
  ELSE IF kz.state \in down THEN kz.state
  ELSE IF kz.squeezed /\ kz.modeB THEN Other(kz.state)
  ELSE "none"

TimerDecides ==
  /\ kz.pc = "latches"
  /\ Decide(Choice(kz.live \union {e \in Elements : Latched(e)}))
  /\ KeyerRest /\ UNCHANGED <<posts, phys, latch, fresh, ghost>>

\* enterElement up to its second look at the paddles.
Enter ==
  /\ kz.pc = "act" /\ kz.next # "none"
  /\ kz' = [kz EXCEPT !.pc = "both", !.state = kz.next, !.squeezed = FALSE, !.timer = TRUE]
  /\ latch' = latch \ {PhysOf(kz.next)} /\ fresh' = fresh \ {PhysOf(kz.next)}
  /\ ghost' = (ghost \/ ~(\/ kz.next \in kz.live \/ PhysOf(kz.next) \in fresh
                          \/ kz.squeezed /\ kz.modeB))
  /\ KeyerRest /\ UNCHANGED <<posts, phys>>

EnterLooks ==
  /\ kz.pc = "both"
  /\ kz' = [kz EXCEPT !.pc = "wait", !.live = {}, !.next = "none",
                      !.squeezed = @ \/ phys = Elements]
  /\ KeyerRest /\ UNCHANGED <<posts, phys, latch, fresh, ghost>>

GoIdle ==
  /\ kz.pc = "act" /\ kz.next = "none"
  /\ kz' = [kz EXCEPT !.pc = "wait", !.state = "Idle", !.timer = FALSE, !.squeezed = FALSE,
                      !.live = {}]
  /\ latch' = {}
  /\ KeyerRest /\ UNCHANGED <<posts, phys, fresh, ghost>>

Stop ==
  /\ kz.pc = "wait" /\ posts # <<>> /\ Head(posts) = "stop"
  /\ posts' = Tail(posts) /\ phys' = {} /\ latch' = {}
  /\ kz' = [kz EXCEPT !.state = "Idle", !.timer = FALSE, !.squeezed = FALSE]
  /\ KeyerRest /\ UNCHANGED <<fresh, ghost>>

Configure ==
  /\ kz.pc = "wait" /\ posts # <<>> /\ Head(posts) \in {"reverse", "mode"}
  /\ posts' = Tail(posts)
  /\ kz' = IF Head(posts) = "reverse" THEN [kz EXCEPT !.reversed = ~@]
           ELSE [kz EXCEPT !.modeB = ~@]
  /\ KeyerRest /\ UNCHANGED <<phys, latch, fresh, ghost>>

(***************************************************************************)
(* Specification                                                           *)
(***************************************************************************)
KeyerNext ==
  \/ HandleDit \/ HandleDah \/ TimerFires \/ TimerDah \/ TimerDecides
  \/ Enter \/ EnterLooks \/ GoIdle \/ Stop \/ Configure

UiNext ==
  \/ UiStep \/ \E side \in Sides : DebounceExpires(side)
  \/ \E s \in Sources : PollNote(s) \/ PollLink(s)

Operator ==
  \/ \E s \in Sources : \/ \E side \in Sides : Move(s, side)
                        \/ Unplug(s) \/ OpenPort(s) \/ ClosePort(s)
  \/ \E u \in Uses : ChangeCwUse(u) \/ SetMapping(u)
  \/ \E profile \in Profiles : ChangeProfile(profile)
  \/ \E side \in Sides : Learn(side)
  \/ \E what \in {"reverse", "mode"} : KeyerSetting(what)

Next == KeyerNext \/ UiNext \/ Operator \/ \E s \in Sources : OpenEnds(s)

Spec == Init /\ [][Next]_vars

\* The two event loops go on and running timers expire; the operator, the
\* devices and the radio need not do anything.
Fairness ==
  /\ WF_vars(UiStep) /\ WF_vars(KeyerNext)
  /\ \A s \in Sources : WF_vars(PollNote(s)) /\ WF_vars(PollLink(s))
  /\ \A side \in Sides : WF_vars(DebounceExpires(side))

FairSpec == Spec /\ Fairness

(***************************************************************************)
(* Properties                                                              *)
(***************************************************************************)
Inputs == Elements \union {"key"}
Links == {"off", "opening", "up", "error"}
OpType == [op : {"store", "latch", "post", "tone"}, of : Inputs \union {"change", "stop"},
           on : BOOLEAN]

\* Every variable keeps its type; a paddle whose raw and confirmed states differ
\* has its debounce timer running, and an element that plays its own: no
\* release and no end of an element waits for a timer nobody started.
TypeOK ==
  /\ hand \in [Sources -> SUBSET Sides]
  /\ wire \in [Sources -> Seq([side : Sides, on : BOOLEAN])]
  /\ link \in [Sources -> Links] /\ seen \in [Sources -> Links]
  /\ midi \in [profile : Profiles, notes : [Sides -> Sides \union {"none"}], learning : Sides \union {"none"}]
  /\ pad \in [raw : SUBSET Sides, confirmed : SUBSET Sides, timers : SUBSET Sides]
  /\ use \in [Sources -> Uses] /\ held \in [Sources -> SUBSET Inputs]
  /\ todo \in Seq(OpType) /\ posts \in Seq({"change", "stop", "reverse", "mode"})
  /\ phys \subseteq Elements /\ latch \subseteq Elements /\ fresh \subseteq Elements
  /\ kz \in [state : Elements \union {"Idle"}, squeezed : BOOLEAN, timer : BOOLEAN,
             pc : {"wait", "dah", "live", "latches", "act", "both"}, live : SUBSET Elements,
             next : Elements \union {"none"}, reversed : BOOLEAN, modeB : BOOLEAN]
  /\ tone \in BOOLEAN /\ ghost \in BOOLEAN /\ remapped \in BOOLEAN
  /\ left \in [move : Nat, link : Nat, change : Nat]
  /\ \A side \in Sides : (side \in pad.raw) # (side \in pad.confirmed) => side \in pad.timers
  /\ Playing /\ kz.pc = "wait" => kz.timer

\* What the router holds for a device is an input that the device's sides still
\* stand for, and a device that is not connected holds nothing: the CW KEYER
\* page's keying buttons disconnect "so a held paddle cannot remain logically down
\* while the meaning of its physical input changes" (optionsdialog.cpp:1787).
HeldIsReal ==
  \A s \in Sources : /\ held[s] \subseteq {Input(s, side) : side \in Sides}
                     /\ seen[s] # "up" => held[s] = {}

Silenced == kz.state = "Idle" /\ phys = {} /\ ~tone
HandsOff == \A s \in Sources : hand[s] = {}

\* Once the operator has let go of every paddle, keying ends, whatever was
\* unplugged, closed, reopened or reconfigured meanwhile and whichever notes
\* were lost with it; but not while the note of a paddle that was down has
\* another meaning (HalikeyDevice's poll looks a note up in the mapping in force).
LetGoEndsKeying == HandsOff /\ ~remapped ~> (Silenced \/ ~HandsOff \/ remapped)

\* "Physical paddle edges are atomic" (iambickeyer.h:8): an element is sent for a
\* paddle that is down, for a press since its last element, or to finish a
\* squeeze in mode B.
EdgesAreAtomic == ~ghost

=============================================================================
