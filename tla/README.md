# QK4 Mobile: TLA+ models, model checking and proofs

QK4 Mobile is a Qt client that operates an Elecraft K4 transceiver over the
network: it connects, shows and sets the radio, plays and sends audio, and
transmits FT8/FT4 and SSTV by itself. The modules here are translated from its
C++ source. They are about the parts where threads, timers, queued calls,
files, a radio and an operator meet, and where a mistake keys a transmitter
that nobody watches, sends the wrong audio, talks to the wrong radio, loses an
operator's work or logs a contact that was never made.

Contents: [the system](#the-system), [modules](#modules), [runs](#runs),
[proofs](#proofs), [findings](#findings), [what is not modelled](#not-modelled-and-why),
[plan](#plan).

## The system

Three threads do most of the work: the UI thread, the I/O thread and the audio
thread. Each runs a Qt event loop: a queued call or signal is handled to its
end before the next one. The FT8 receiver and the keyer have a thread each.

| Part | Thread | State | Operations |
|---|---|---|---|
| `MainWindow` | UI | PTT, SSTV and FT8 generations, calibration, the radio in use | starts and stops everything; handles the others' signals |
| `TcpClient`, `DigitalTxGuard` | I/O | connection state, timers, audio gate, leased generation, calibration phase, level | connects, writes CAT and audio, watches a transmission every 50 ms |
| `Protocol` | I/O | receive buffer | cuts the byte stream into packets |
| `Ft8Transmitter` | audio | phase, slot times, emitted samples | keys, paces, drains and unkeys one slot |
| `AudioEngine` | audio (and Android's main thread) | prepared and active image, pacer, microphone, jitter buffer, track | encodes SSTV, calibration tones and speech, plays what is received |
| `DigitalTxControl` | atomics | allowed, scheduled and faulted generation | `allows`, `close`, compare-and-swap from every thread |
| `Ft8Session`, `Ft8Screen` | UI | contact, next message, retries, replies; frequency, tones, practice | the exchange, the dial |
| `Ft8RadioMode` | UI | the operator's own mode | enters DATA-A, gives the mode back |
| `Ft8Receiver` | I/O, own, UI | four atomics, bounded queue, capture window | collects periods, decodes them |
| `IambicKeyer`, `HalikeyDevice`, `Ctr2MidiDevice`, `MidiInputRouter` | keyer, UI | paddle atomics, element timer, debounce timers, held inputs | keys elements from paddles |
| `RadioState` | UI | a copy of some 116 settings of the K4 | follows reports, is changed with every command sent |
| `Ft8Logbook`, `QrzLogbook` | UI | one log file, queue of uploads, the request under way | logs, edits, uploads, checks |
| `SstvDecoder` | own | search history, header, picture, ID listening | recognises and receives pictures and callsigns |
| `SstvStorage`, `SstvScreen` | UI | received pictures, draft, templates, screen | saves, restores, keeps, deletes |
| `CatServer` | UI | clients | other programs' TX and RX, forwarded commands |
| Widgets, panadapter, menu, MIDI mapping, KPA1500, K-Pod | UI | see [below](#not-modelled-and-why) | |

**Interaction.** The UI never touches the socket. It posts calls to I/O and
audio; signals come back through its own queue, by when the UI may have stopped
or restarted what they are about. The defence is the *generation*: every
transmission, capture stream and calibration has a number, every call and
packet carries it, and each side drops what is not its current one. Shared
atomics let the UI revoke a generation at once, before its stop call is
handled. Settings, log, pictures and drafts are files that are replaced one at
a time; a write may fail and the app may die between two of them.

**What is hard**: handlers of several threads in any order; an atomic read by
one statement and changed by another thread before the next; calls of an ended
generation delivered in a new one; late or missing answers against deadlines;
deadlines of different threads that overlap; a lost connection in every phase;
a failed write, or death, between two files that belong together; echoes and
reports that cross commands. `PROJECT.json` lists the hazards, each at its
line, with the properties that would catch it.

**What makes the components correct**

- *Program audio*: a keyed K4 is always watched, belongs to a transmission the
  operator still has or is about to end, carries only that transmission's audio,
  is never fed speech, and always ends. Everything started ends on the screen.
- *Slot timing*: audio neither before the K4 is up nor after its slot; no long
  silence while keyed; on time means completed.
- *Level*: reductions are bounded, never undone during a transmission and never
  lost; only a calibration raises the level.
- *Voice*: what this phone keys is shown as keyed; a latched transmission ends.
- *Connection*: deadlines follow the state; the UI shows what the I/O thread is
  in; the radio reached is the radio asked for; no attempt hangs.
- *Calibration*: the tone sounds in TEST only; TEST is put back or the operator
  told; the panel never hangs.
- *Settings and dial*: after the traffic has settled the phone's copy is the
  K4's value; a late echo does not undo the operator's turn; the operator's own
  mode returns.
- *Reception*: a decoded period has no gap and belongs to the current capture;
  queues keep their bounds; received packets are played whole and in order; a
  picture is one whose header was confirmed, a callsign that of its picture.
- *Keying*: nothing is held for a device that is gone; released paddles end
  keying.
- *Contacts*: what two stations log agrees; what is sent is what is shown;
  nothing is posted to QRZ twice unasked, what is shown as checked is there,
  nothing is lost from the log.
- *Pictures*: the operator's work, templates and starred pictures survive
  failures, restarts and each other.

## Modules

| Module | Models | Kind |
|---|---|---|
| `DigitalTx` | program-audio transmission over three threads | detailed, untimed |
| `ProgramLease` | what the socket promises: a sequence of leases of the transmitter | abstract |
| `Ft8Slot` | one FT8/FT4 slot against the watchdog and the drain check | timed, 10 ms units |
| `MeterPolicy` | the level of generated audio | timed, 400 ms steps |
| `VoicePtt` | voice transmissions from five controls | untimed |
| `TcpConnection` | lookup, TCP/TLS, authentication, timeouts, UI state | untimed |
| `DigitalCalibration` | the calibration's phases, the K4's TEST and TX | untimed |
| `Ft8RadioMode` | the K4's mode while FT8 is shown | untimed |
| `Ft8Receiver` | capture, periods and decodes over three threads | units of one block |
| `Playback` | jitter buffer, feed timer and AudioTrack | untimed |
| `Keying` | paddles and keys from the MIDI devices to the element sent | untimed |
| `Ft8Qso` | the FT8 exchange between stations that all run this app | rounds |
| `Ft8Dial` | frequency, tones and practice of the FT8 screen | untimed |
| `RadioSettings`, `RadioMirror` | 116 settings, and the copy of one of them | untimed |
| `QrzUpload` | the contact log and its upload | untimed |
| `SstvDecoder` | header, picture and ID reception | beats and lines |
| `SstvGallery` | received pictures | untimed |
| `SstvDraft` | the composed picture, its draft, image templates | untimed |
| `MCPhone`, `MCDevices`, `MCRecords` | compositions for one run each | TLC |
| `MCDigitalTx`, `MCKeying`, `MCQrzUpload`, `MCTcpConnection`, `MCFt8RadioMode` | instances | TLC |
| `DigitalTxProofs` | types, lease and order of calls of `DigitalTx`, refinement of `ProgramLease` | proofs |
| `CallQueues` | lemmas about FIFO queues of calls, and induction | proofs |
| `QrzUploadProofs`, `KeyingProofs` | proofs about `QrzUpload` and `Keying` | proofs |
| `RecordsProofs` | proofs about the four parts of `MCRecords` | proofs |
| `PhoneProofs` | proofs about the five parts of `MCPhone` | proofs |
| `DevicesProofs` | proofs about `MCDevices`: reception, level, dial, settings, types | proofs |
| `SlotProofs` | proofs about `Ft8Slot` in `MCDevices` | proofs |

**Compositions.** Parts that share no state are checked by one run: a behaviour
of `MCPhone`, `MCDevices` or `MCRecords` is a behaviour of one of its parts,
chosen by `Init` and kept in `part`. Each part is an `INSTANCE` that lends the
variables of one of them to the others. The state space is the sum of the
parts', not their product; nothing of a part is left out. Parts that do
interact (threads, queues, radio, files) are in one module each.

### DigitalTx

`ui`, `ctl`, `io`, `tx` and `au` are records of the code's members; `uiQ`,
`ioQ`, `auQ` the event queues. One action is one handler. A handler that reads
or writes an atomic more than once is split there with a `pc`: for example
`beginScheduledDigitalAudio` compares `scheduledGeneration`, starts the guard
and writes TX in three steps (`IoFt8Check`, `IoFt8Guard`, `IoFt8Key`), and a
HALT revokes the slot and then closes the generation (`HaltFt8`,
`HaltFt8Close`). Deadlines are actions that may be taken whenever their timer
runs. Each signal is queued only to the thread that owns the generation it is
about; the other one ignores it. `line` is a history of what the socket carried:
`lease` the generation keyed, `spent` those ended, `wrote` the last item.
`left` counts the remaining generations, stops and PTT presses of a budget.

`ProgramLease` has three variables: a lease is opened by TX for a generation
never leased before, audio belongs to the open lease, RX ends it.
`ImplementsLease` says that `DigitalTx` refines it, with `line` as the
refinement mapping.

### Ft8Slot

Absolute times of the code in units of 10 ms: TX 600 ms before the audio
(`KeyLead`), 500 ms of key-up, packets of 120 ms, watchdog every 50 ms, the
guard's 1200 and 400 ms, drain limit 500 ms, and the transmitter's own limits.
A handler runs in the unit in which it is due unless an event loop is late; the
socket's buffer empties within a unit unless the link stalls. Each behaviour has
at most one late episode and one stall, of any length up to `max`, at any time:
the deadlines are relative to the last event, so that one episode meets each of
them in every phase.

### MeterPolicy

`guard` is `DigitalTxGuard`, `lowering` and `gain` what `MainWindow` keeps of
the calibrated level and the session's reductions. Ages are counted as far as a
limit distinguishes them (`T.cap`). `Tick`, `Meter`, `audioAccepted` and the
starts are the class's operations, every branch of them; a level that arrives
by signal carries the generation it was found in.

### VoicePtt

The latched button with its shield and three-minute timer, XMIT, a MIDI pedal or
button, and the CAT server's programs. `toRadio` holds the commands on their
way, `toAudio` the microphone gate's; `keyed` says why the K4 transmits.
`stray` is a history: a transmission that the code itself forgets, because a
CAT program's RX clears the phone's PTT without sending RX
(`mainwindow.cpp`, `onCatServerPtt`).

### TcpConnection

`io` is `TcpClient`'s state and running timers; `sock` the `QSslSocket`;
`lookups` the outstanding `QHostInfo` lookups, which cannot be cancelled; `rx`
what the last connection left in `Protocol::m_buffer`. Qt's documented socket
rules are the external part: `disconnectFromHost` on an opening socket only
marks it, on an open one with unsent data it lingers; connecting a socket in
use is refused. A wrong password and a missing TLS runtime end in errors or
timeouts. `stale` records that an answer to an earlier request's lookup was
taken, which the run `tcp_lookup` shows.

### DigitalCalibration

The phases `ReadTest`, `EnableTest`, `Running`, `RestoreTest` of `TcpClient`;
CAT commands and answers as two FIFO channels to the K4. Deadlines may pass
whenever their phase lasts. `mixed` records that a calibration was begun while
answers to an earlier one were under way: `onCatResponse` does not tell those
from its own (`tcpclient.cpp:570`), and TEST can then stay on unreported.

### Ft8RadioMode, Ft8Dial, RadioMirror

All three are about a phone that decides from a copy while reports and commands
pass each other. `Ft8RadioMode` has the saved mode, the pending request and the
100 ms guard timer. `Ft8Dial` has the detents counted from an unanswered
request, previews of tones and `Set`, practice with its own callsign;
`clearActivity`, which every new frequency, mode, connection and practice calls,
ends a preview and forgets the focus (`Cleared`, `Unfocused`). In
`RadioMirror` a behaviour follows one setting, chosen by `Init`, through every
handler, setter and disconnect, by its row of `RadioSettings`: how its code is
parsed and clamped, what `reset()` makes of it, and how `MainWindow` sets it
(`dials`: side panel, popups, wheels and MIDI, each with its own steps and
rounding). Two histories say where the copy need not be the K4's until the next
readback: `crossed`, a command and a report passed each other; `behind`, a
control sent something else than the copy was given. A toggle that is sent as a
switch of the K4 (`SW..;`, `NB/;`) is the K4's to report (`mainwindow.cpp:5175`)
and counts as a turn of its panel.

### Ft8Receiver, Playback

`Ft8Receiver` has the I/O thread's `enqueue`, the worker's assembly of periods
and the UI's changes of capture, split at every load and store of the four
atomics. `Playback` has the two limits of the jitter buffer, the feed timer,
partial and failed writes, and Android replacing the track.

### Keying

`wire` holds a device's notes until the UI polls them; `pad` the debounced
paddles; `held` what the router merged; `phys` and `latch` the keyer's atomics,
stored by the UI thread in steps of their own (`todo`); `kz` the keyer thread.
Sides are physical: `m_reversed` exchanges them inside the keyer. `midi` is the
mapping from a HaliKey's notes to sides, looked up when a note is polled: the
profile (`fixed` for the first two, whose notes are the same), the custom notes,
and the paddle that LEARN waits for, which takes the next press before it is
looked up. The profile buttons and LEARN change it with the port open; the
keying buttons close the port first. `remapped` is a history: the note of a
paddle that is down has been given another meaning.

### Ft8Qso

`session` is `Ft8Session`, `live` and `replies` the part of `Ft8Screen` that
freezes a message for its period and hands over replies. Periods alternate;
what is sent may be missed, decoded twice, or decoded after the next period's
transmission has begun. Operators call CQ, select a decode, halt and resume.

### QrzUpload

The log is one file, replaced as a whole (`QSaveFile`). An upload is a field of
its record, while the queue and the request under way are memory only.
Crashes, failing reads and saves, lost requests and lost answers may happen at
any step; `posts` and `asks` are histories.

### SstvDecoder, SstvGallery, SstvDraft

`SstvDecoder` is given any audio, told apart by what its measurements find; it
has every deadline and bound of the search, the picture and the IDs.
`SstvGallery` and `SstvDraft` have the files of pictures, draft and templates,
each write of which may fail, the screen that shows them, and restarts. A
template's name is typed without a limit, cut to 40 characters where it is
stored (`Cut`), compared whole and without letter case (`Folded`), and its
directory is found from what it is looked up by (`Directory`).

## Runs

| Run | Question | Bounds | Distinct states |
|---|---|---|---|
| `tx_one` | Does every keyed K4, slot and image end, always watched? | 1 generation, 2 packets, 2 stops | 337,729 |
| `tx_both` | Does anything stale key, feed or end a later transmission, can speech reach it, and is the socket's traffic a sequence of leases? | 3 generations of either kind and 1 stop; or 1 generation, 1 stop, 1 PTT press | 2,128,895 |
| `phone` | Voice: is what the phone keys shown, does a latch end? Connection: do timers, UI and radio follow the operator? The mode and TEST put back? Is received audio whole? | see below | 612,808 |
| `devices` | Reception: whole periods of this capture? Settings and dial: true? Level: only lowered? Slot: do the deadlines fit? | see below | 2,986,557 |
| `records` | Contacts: do two logs agree, do calls end? Reception of pictures: confirmed, with their callsign, and bounded? Draft, templates, gallery: kept through failures and restarts? | see below | 581,792 |
| `keying` | Is anything held for a device that is gone, and do released paddles end keying? | 4 paddle moves; or 2 with a device lost and back, with a device lost and a setting changed, or with two settings changed | 2,148,434 |
| `qrz` | Is a contact posted unasked, shown as checked wrongly, lost, or never finished? | 2 contacts, 1 callsign, 1 crash, 1 fault, 2 asks, 1 edit | 337,840 |
| `tx_release` | Is "disable PTT while SSTV owns TX" kept? violated | 1 image, 1 PTT press | |
| `tcp_lookup` | Is the radio reached the one asked for? violated | 2 requests | |
| `ft8_reopen` | Does reopening keep the saved mode? violated | 2 modes | |
| `keying_edges` | Is a paddle's edge one step? violated | 4 paddle moves | |
| `template_names` | Does a rename lose no template? violated | as `records` | |

Each property of a passing run has a mutant, an operator `M_...` beside the
definition it replaces, that breaks the property: a dropped test, a missing
reset, a swapped order.

What the properties say, by run:

- `tx_one`: `TypeOK`; `LeaseIsGuarded`, a keyed K4 has connection, gate, guard
  and watchdog of its generation; `LeaseEnds` and `ProgramEnds` (liveness).
- `tx_both`: `LeaseIsOwnedOrEnding`, `AudioThreadIsFree`, `NoMicInLease`, and
  the refinement `ImplementsLease`.
- `phone`: `TypesOK`; `KeyedKnowingly`; `UiAgrees`; `ConnectedAsAsked`;
  `OwnModeReturns`; `TestIsKept`; `PacketsAreWhole` (an action property);
  `AllEnds`, what must end in each of the parts (liveness).
- `devices`: `TypesOK`; `WindowIsWhole`, `DecodesAreCurrent`; `CopyIsRadio`,
  `OthersAreKept`; `LevelIsNotRestored`, `MeterIsStrict`; `SlotIsTimely`;
  `DialIsTrue`.
- `records`: `TypesOK`; `ContactsAgree`; `PictureIsSound`; `WorkIsKept`;
  `PicturesAreKept`, `CallsAreEarned`; `AllEnds` of contacts and reception.
- `keying`: `TypeOK`, `HeldIsReal`, `LetGoEndsKeying` (liveness).
- `qrz`: `TypeOK`, `PostedAsAsked`, `CheckedIsOnQrz`, `NothingIsLost` (an action
  property), `UploadEnds` (liveness).

### Why the bounds are enough

- *Generations*: a stale call is one generation old, or two when an SSTV stop
  advances the number; three cover a stale call that meets a running transmission
  with another already ended. `tx_one` has two packets, so that a first and a
  final one differ; two stops, so that one meets the other's handling.
- *Slot*: the waveform is 720 ms (six packets). Between its first and last
  packets the pacing repeats, and every deadline is counted from the last
  event. `schedule()` runs 40 ms after TX is
  due or 80 ms after the audio is;
  loops are late and the link stalls for up to 30 and
  80 ms, which the code must bear, and for up to 60 and 500 ms, which it may
  answer with a failure. A shorter packet leaves less room (`Punctual`): a loop may
  be late by less than a packet, and no more of them may come to be sent, late or
  during a stall, than the socket holds.
- *Level*: three gains (least, start, most) and two transmissions or
  calibrations; each age is counted up to the limit that looks at it.
- *Connection*: one radio of each kind (address or `.local`, plain or TLS); three
  requests are one ended, one current, one next; one cancel; a backlog of two
  packets.
- *Voice*: five acts of operator, programs or network: enough for a
  transmission taken over by another control, lost and begun again.
- *Calibration*: three, with two cancels and one touch of TEST at the radio; the
  third may begin among the answers to both of the others.
- *Mode*: a voice and a data mode of the operator, four acts.
- *Playback*: packets of one and two units, a queue of six, a track of three,
  seven packets and two restarts: both limits and every split of a packet occur.
- *Reception*: four blocks against periods of two and three, one queued; two
  changes of capture.
- *Settings*: all 116, each with every value its row names as special, four acts
  of panel, operator and network.
- *Dial*: four steps of the operator and one change by the K4 or the link, two
  tones, two callsigns.
- *Contacts*: two stations, three operator actions: a call, an answer and one
  intervention anywhere between. `MaxRetries` (1 to 20 in the code) is 3: a
  first, a middle and a last transmission. Periods, losses and repeats go on
  without bound.
- *Decoder*: six rows, more than the five of a deadline; limits of eight and
  ten beats stand for 8 s and 10 s of history.
- *Gallery*: three pictures, all or two kept, one failure, one death. *Draft*: two
  pictures, two compositions, five names for two directories (two that differ in letter case,
  two that are too long, one of them cut at a space), two failures, one death.
- *QRZ*: a contact under way and one waiting; one crash anywhere and one fault
  beside it.
- *Keying*: two paddles pressed and released, or one with what happens to its
  device or its mapping meanwhile. The custom notes are such that a change of
  profile takes one paddle's note away and gives it to the other one.

The proofs below remove the bounds for the properties they are about.

### Fairness

Assumed: a queued call is eventually handled; a running timer eventually
expires; periods of the clock go on; the K4 sends audio without pause while
connected (`Hearing` of the decoder). These are what a Qt event loop, a clock
and the stream do. Not assumed: that the K4 answers, that the link delivers or
breaks, that a lookup or QRZ answers (a deadline runs), that an operator does
anything, that a decode succeeds. Deadlock is not checked where the bounds let
the surroundings run out of actions; in `records` and `qrz`, where something can
always happen, it is.

## Proofs

TLAPS checks 41 named results, listed in `PROJECT.json` under "theorems". They
hold for every value of the constants that meets the named assumptions: any
number of generations, packets, contacts, radios, sides and devices, any length
of slot, period and queue, any budget of steps. Each invariant below was first checked by TLC on the run's instance,
as an invariant of the run's specification.

| Module | Theorem | Property of a run | Says |
|---|---|---|---|
| `DigitalTxProofs` | `TypeCorrect` | `TypeOK` | the state's types |
| | `LeaseGuarded` | `LeaseIsGuarded` | a keyed K4 is watched |
| | `AudioNeedsLease` | | what the I/O thread wrote last was audio only with a lease open |
| | `LeaseOwned` | `LeaseIsOwnedOrEnding` | nothing is keyed for a transmission nobody has and nothing ends |
| | `AudioThreadFree` | `AudioThreadIsFree` | an image is never left active behind a stop |
| | `MicIsApart` | `NoMicInLease` | speech never reaches a lease |
| | `LeaseImplemented` | `ImplementsLease` | `DigitalTx` implements `ProgramLease` |
| `QrzUploadProofs` | `TypeCorrect` | `TypeOK` | the state's types |
| | `NoBlindRetry` | `PostedAsAsked` | nothing is posted twice unasked |
| | `CheckIsTrue` | `CheckedIsOnQrz` | what is shown as checked is on QRZ |
| | `LogIsKept` | `NothingIsLost` | no step loses a logged contact |
| `RecordsProofs` | `TypeCorrect`, `RestoresScreen`, `KeepsTemplates` | | the draft by itself |
| | `KeepsWork` | `WorkIsKept` | the operator's picture and templates are kept (in `MCRecords`) |
| | `PicturesAreConfirmed` | `PictureIsSound` | what becomes a picture was announced and confirmed; an ID is of the last one |
| | `KeepsPictures` | `PicturesAreKept` | a picture goes for a reason |
| | `EarnsCalls` | `CallsAreEarned` | a callsign replaces only what it may |
| | `ShownIsSent` | | what counts as sent was on the air (part of `ContactsAgree`) |
| | `RecordsTyped` | `TypesOK` | the types of the four parts of `MCRecords` |
| `KeyingProofs` | `TypeCorrect` | `TypeOK` | the state's types |
| | `HoldsWhatIsReal` | `HeldIsReal` | nothing is held for a device that is gone |
| `PhoneProofs` | `NothingIsKeyedUnseen` | `KeyedKnowingly` | what the phone keys is shown as keyed |
| | `ScreenAgrees` | `UiAgrees` | with no signal under way the screen shows the socket's state |
| | `ConnectedIsAsked` | `ConnectedAsAsked` | the radio reached is the radio asked for |
| | `DeadlinesFollowState` | | the connection's types, deadlines among them |
| | `GivesModeBack` | `OwnModeReturns` | the K4 returns to the operator's mode when FT8 is left |
| | `ToneKeepsToTest` | `TestIsKept` | the tone sounds in TEST only, and TEST is put back or the operator told |
| | `CalibrationTyped` | | a calibration's types; no phase without the connection |
| | `WritesWholePackets` | `PacketsAreWhole` | packets are written in order and to their end |
| | `PlaybackTyped` | | the count of waiting bytes is theirs, and a second at most |
| | `TypesKept` | `TypesOK` | the types of the three parts of `MCPhone` that state them |
| `DevicesProofs` | `KeepsWindowsWhole` | `WindowIsWhole` | decodes come from a period without a gap, in the mode on the screen |
| | `ShowsCurrent` | `DecodesAreCurrent` | nothing heard before a change of capture is shown after it |
| | `KeepsLevelDown` | `LevelIsNotRestored` | a reduced level stays reduced until it is calibrated anew |
| | `CalibratesStrictly` | `MeterIsStrict` | calibrated by good readings only; late ones revive nothing |
| | `ShowsTheDial` | `DialIsTrue` | the screen shows the K4's frequency, detents add up |
| | `CopiesTheRadio` | `CopyIsRadio` | the copy of each setting is what the K4 has |
| | `ChangesOnePart` | `OthersAreKept` | a command changes the part of a setting it is about |
| | `KeepsAllTypes` | `TypesOK` | the types of reception, settings and slot |
| `SlotProofs` | `KeepsToItsSlot` | `SlotIsTimely` | a slot's deadlines fit together |

### The arguments

**Program audio.** `TypeOK` is inductive by itself. That a keyed K4 is watched
needs that the gate's generation is the lease's (`GateIsLease`), and that audio
needs a lease needs that packets are counted (`PacketsLeft`). The three
properties about *whose* the lease is need the order of the calls under way:
the UI has posted the end of a generation, or not yet its start; the start is
before the end in a queue; what one thread has handled the other may still have
before it. `Orderly` is the conjunction of these facts for slots (`SlotChain`,
`SlotEnd`, `Ft8Token`), images (`SstvToken`, `SstvOrder`, `SstvEnd`) and the
microphone (`MicOrder`, `MicAlone`, `MicAfter`), with what is true of the UI
(`UiShape`) and of any call (`KnownCalls`, `Numbered`). `CallQueues` has the
lemmas about queues they use: `Has`, `Once`, `Closed` (a call that opens is
followed by one that closes), each under appending and taking. Every action of
one thread changes only that thread's record, takes one call and posts calls it
names, so that the proof has one lemma for each kind of step (`UiStep`,
`IoStep`, `AuStep`) and one for each action that says it is such a step. The
refinement follows: TX opens a lease only for the generation allowed, which has
never been spent; audio and RX are for the lease's.

**QRZ.** `IInv` relates the record on disk, its copy in memory, the queue and the
request under way (`LogOK`, `QueueOK`, `BusyOK`) to the histories of posts
(`Counted`) and checks (`Checked`, `Answered`). It must hold through a crash, so
that it says what the file alone promises.

**Draft.** `IInv` has the counts of files (`Counts`), what the screen shows
(`Composed`), that a saved picture is the screen's unless a save has failed
(`Saved`), and that templates saved are still in some directory
(`TemplatesAreKept`): a renamed one is in the old directory until it is whole in
the new one, and where both are one it is written over itself. Nothing is assumed
of how names are cut, compared or turned into directories; that a rename within
one directory removes what it stored, which a cut name can bring about, is
excepted in `kept` and is the finding of `template_names`.

**Reception.** That a picture was confirmed is in the step that completes it, but
not alone: its first pulse must be where counting began, a recovery needs one
pulse more, and a candidate that is not confirmed must still be before its
deadline (`Begun`: `Counted`, `InTime`, `Believed`). The header search keeps within
its times (`Search`), and an ID is listened for only behind a picture (`Behind`).

**Gallery.** `GInv`: a picture that has not come has left no trace and the list
knows the source of what is on the disk (`Traced`); a picture the operator is
asked about is still shown unless another one came (`StillShown`). That retention
removes the oldest needs that among finitely many pictures there are so many
oldest ones (`OldestExist`), by induction over their number.

**Contacts.** `QInv`: an armed session has a message of its own to send and
retries left, and one with a partner has a message for it (`Sound`); held-back
replies and listed decodes are of other stations (`QTypes`), because who sends
hears nothing (`OnAir`). The held-back replies are received one after the other by
a recursive function: `Iterates` shows by `EveryNumber` that there is one, and
what every operation of a session preserves holds along it.

**Keying.** What is held is real if a device that is gone holds nothing at any
of the places a press passes: debounce (`Debounced`), its timers (`Timed`), a
device being opened (`Opening`), the router and the keyer (`HeldIsReal`). It holds
for any mapping and any change of it: a note given another meaning leaves an
input down, but of a device that is there.

**Voice.** `PttInv`: while the K4 transmits for the phone and the screen does
not show it, an RX is on its way; a session that closed says RX before BYE, or
had not keyed.

**Connection.** `ConnInv` has, beside types: what socket, timer and pending answers
are in each state (`WorldOK`); that the last state signal under way is the state
(`Signals`); that a lookup is for a request that was made, an earlier one's or
the current one's (`Lookups`); that the last request under way is for the radio
on the screen (`Asks`); that attempts are accounted along the queue of requests
(`Tried`: what would be known once each of them is handled); and that a socket
which may become a connection belongs to the last request, is marked to close,
or can send nothing more (`Owned`). The exception that `ConnectedAsAsked` makes
for a stale lookup is the finding of `tcp_lookup`.

**Calibration.** `CalInv` has the types, where a generation is (`OnePlace`: it is
being prepared, its answer under way, asked of `TcpClient`, worked on, or its
end under way, one at a time), and where the commands under way lead the K4
(`Stages`). `Leads` describes the K4 after each command in the queue; none of
these states keys it outside TEST (`Quiet`), and by its phase `TcpClient` knows
what TEST is: it has asked and nothing under way changes it (`ReadsIt`), it has
commanded it (`HoldsIt`), or it has commanded what it found (`PutsBack`). The
exceptions are the property's: the operator is told to verify TEST, has touched
it at the radio, or answers to an earlier calibration were mixed in.

**The K4's mode.** `ModeInv` follows the mode through the commands and reports
under way: the reports end with what the K4 is in, or the K4 has a command
before it (`Copied`); the mode saved is the operator's, and with none saved the
commands under way end in it (`OwnMode`, `EndsInOwn`); only the first command of a
connection is the query (`AskedFirst`). A screen shown before the connection
waits for the K4's first answer (`FirstAnswer`), which is where a decision can
still be made on no copy at all. A turn of the panel on a closed screen counts
until it is heard (`TurnedAlone`).

**Playback.** `PlayInv`: the packets waiting are in the order they came in and
later than all that was written (`Waiting`), the rest of one continues what was
written of it (`Resting`), and the counter is the sum of the sizes in the
buffer (`Counted`). The sum is a recursive function, so what it does when a
packet comes or goes needs induction. The library's theorems of it take an
operator as a parameter, but its theorem that a well-founded relation has least
elements does not: `CallQueues` derives from it that every set of numbers has a
least one (`LeastNumber`) and that a set with 0 and the successor of each of its
members is all of them (`EveryNumber`). With these `PhoneProofs` shows that the
running sums exist (`Sums`), are the only ones (`SameSums`), that the total is the
last (`Totals`), and what a packet more or less makes of it (`TotalOfMore`,
`TotalOfRest`).

**Reception.** `RcvInv` orders the numbers of blocks along the way they take
(`Sorted`: the worker's window, its block in hand, the queue, `enqueue`'s block),
and says of the current generation only that nothing is missing between two of
its blocks (`Gapless`, `Wholes`) and that all of them have one mode (`InMode`).
Between the store of the mode and that of the generation in `setCapture`
(`~Steady`) no more is claimed, nor needed: what carries the old generation then is
refused where it is shown. The one block `enqueue` had in hand when capture
went off may join the new stream; it is the first of it, which `ShownIsWhole`
excepts. `Switching` has what `setCapture` still has to do, the mode it does it for
among it.

**Level.** `LevelInv` follows a reduction from the guard to `MainWindow`. While a
transmission is on the air or about to begin, its level is at most the one
`MainWindow` would start from and at most that of every reduction still on its
way that will be taken (`NotAbove`); the last reduction that is not late is at
most the lowest so far (`Remembered`). A calibration raises the level, so that the
proof must show that none of it overlaps a transmission: its begin is the last in
the queue, its generation is `MainWindow`'s current one, its end comes once
(`Calibration`). `MeterIsStrict` needs the types only: it is about single steps.

**Dial.** `DialInv`: the last frequency the K4 tells is the one it has (`Telling`);
a pending request is under way to it or its answer is back (`Asking`); turned in
one direction, all requests and answers before the last are short of the goal
(`Straight`), so that none of them is taken for the answer to it. Turned back,
one may be (`straight` is the exception in `DetentsAddUp`). That a tone shown is the one to be
sent needs that a preview is of the screen's own tones, and that whatever clears
the activity ends it.

**Settings.** `MirInv` is proved for one setting of any row that is *sane*
(`Sane` in `RadioSettings`; `SettingsAreSane` says that the 116 rows are, and TLC
evaluates it). A path of values along the commands under way begins with what
the K4 has and ends with what the copy stores (`Passing`, `Leads`), unless a
command and a report have passed each other (`crossed`) or a command was sent for
another value than the copy was given (`behind`); after either, only a query that
is behind all commands, whose answer mends the copy, restores the path. The controls
share one lemma (`SetsBoth`): the command a control sends either ends the path
with the copy it sets, or leaves the copy behind, and then only the ranges have to
be kept. The widget shows the copy, or was
cleared at a disconnect and waits for a report that must change it (`Waits`).

**Slot.** `SlotSafe` holds however late the loops are: TX is written before
`keyed()` is told of it (`KeyOrder`), the watchdog is due at most a period after
the stream's deadline (`Watching`), a packet leaves by the time it is due plus the
delay (`Paced`). That a punctual transmission does not fail is proved along its
twelve stages (`InTime`, from `WaitsForSlot` to `IsDone`): each says what is under
way, and bounds the clock *plus the delay that is left*, which time does not
increase while the loop is late. The packets the socket holds are bounded in the
same way by the stall that is left (`Held`).

### Assumptions

`Bounds`, `ConstantsAssumption`, `BudgetsAssumption`, `ConnectionBounds`,
`CalibrationBounds`, `ContactBounds`, `DecoderBounds`, `GalleryBounds`: counts and budgets are natural numbers, and at least one
where the code has one. `PlaybackBounds`: a packet has at least one unit and at
most a second of audio. `KnownModes`: a mode is the number of `RadioState::Mode`,
which begins at 1, with that of the data mode. `ReceiverBounds`: a period has at
least one block. `PolicyBounds`: the level a calibration starts from is one of the
gains. `SettingsAreSane`: see above. `SlotBounds`: a packet is 20, 40, 60 or 120 ms,
the slot is scheduled more than 30 ms before the latest start (`Begin` has the
instants), the waveform and the offset of the mode fit the period as FT8's and
FT4's do, and no event loop is late by more than the pacing deadline, 80 ms or a
packet: a packet queued to the I/O thread is not looked at again by the audio
thread, so that `EndsOnTime` has no other bound for the lateness of the former.
`NoneAssumption` and `NoneIsApart`: the value for "nothing" is not a value for
something. TLC evaluates each of them in a run. No assumption is about
behaviour, none about fairness: the theorems need none.

### What is only model-checked

- *Liveness* (`LeaseEnds`, `ProgramEnds`, `LetGoEndsKeying`, `UploadEnds`,
  `AllEnds`): it needs ENABLED, which the prover does not treat.
- *That two logs agree* (`LogsAgree`, the other part of `ContactsAgree` beside
  `ShownIsSent`): the partner of a completed contact has taken the report that is
  logged as sent. A message does not say which one it answers, so that an inductive
  invariant must relate the stages of two sessions through the periods that were
  lost, repeated or decoded late, and through what an operator did between. TLC
  also finds no violation with four operator actions instead of three (2,499,709
  states of that part).

## Findings

Five places where the code does not do what the repository says of it; each has
a run, and `PROJECT.json` quotes both sides.

1. A PTT source released during an SSTV image sends RX under it
   (`mainwindow.cpp:6754`, run `tx_release`): `onPttReleased` lacks the test
   `onPttPressed` makes.
2. A `.local` lookup of a cancelled request is accepted by the next one
   (`tcpclient.cpp:112`, run `tcp_lookup`): the phone connects to the other radio.
3. Closed and opened again before the readback, the FT8 screen saves DATA-A as
   the operator's own mode (`ft8radiomode.h:42`, run `ft8_reopen`).
4. A paddle's state and latch are two stores; the element timer between them
   sends one tap twice (`iambickeyer.cpp:25`, run `keying_edges`).
5. A template's name is cut to 40 characters where it is stored only: renamed to a
   longer name of the same beginning the template is lost, and another one may be
   replaced without the question (`ui/sstvscreen.cpp:3887`, run `template_names`).

Met while modelling, without a run of their own (properties except them by name
or they are about parts left out):

- *PTT*: the input shield is not hidden at a lost connection or a program's RX,
  so that its button keys the K4; a program's RX while the phone is latched
  leaves the K4 keyed (`stray`); XMIT checks neither the microphone permission
  nor a digital transmission; a refused tap leaves `m_pttLocked`.
- *Program audio*: the guard's stream limit runs on while a complete waveform
  drains (`digitaltxguard.cpp:169`); a reduction queued after the end of its slot
  is lost (`mainwindow.cpp:376`); "stable" does not notice a pause of the audio between
  two readings.
- *Calibration*: answers to an earlier one are taken for the current one's
  (`tcpclient.cpp:570`); the app killed during one leaves TEST on.
- *Connection*: `Protocol::m_buffer` survives a connection (`protocol.cpp:9`),
  so that half a packet can swallow the next radio's answer.
- *Settings* whose control leaves the copy behind (`behind` in `RadioMirror`).
  The side panel's delay switches QSK off at the K4 (`mainwindow.cpp:3631`) and
  leaves it on in the copy, although 3552 says that these controls update the
  copy. Another value is sent than stored: power by MIDI above 10 W (rounded,
  `mainwindow.cpp:8486`) and then by the side panel (cut), a MIDI fader, ESSB bandwidths 24..28, which `setSsbTxBw` raises to 30, the span
  of a MIDI zoom if the K4's own changed meanwhile (8527). Nothing is stored: RU
  and RD of wheels, KPOD and MIDI (8320), RA+ and RA- of the feature bar, modes of
  the mode popup other than DATA and its reverse, GT, FX, LN, AP and VX toggles,
  LINE OUT, antenna-configuration and text-decode popups, the display popup's
  #FPS, #DPM, #HDPM, #FXA, #FXT and #FRZ, and the panadapter's Ctrl-wheel, which
  changes the widget only. Temperatures, reference level and equaliser stay from
  the last connection; CAT SET commands of programs do not reach the copy.
- *Keying*: a HaliKey's profile chosen or note learned anew while a paddle is held
  (`ui/optionsdialog.cpp:1850`, 2065): the port stays open, the release matches no
  side, and the keyer goes on with every paddle up, which the comment at 1787 is
  there to prevent (`remapped`; without this exception TLC finds
  `LetGoEndsKeying` violated by two paddle moves and one choice of profile).
  After a HaliKey was lost with a paddle down, which nothing but
  closing its port forgets, the first press of that paddle is swallowed
  (`halikeydevice.cpp:66`).
- *Reception*: a block past `m_capture.load` but before `m_generation.load`
  joins the new stream.
- *QRZ*: a record whose final status could not be saved can be neither edited
  nor sent until a restart; an editor saving while its contact is queued can
  blank the callsign and the upload ends as a mismatch.
- *Contacts*: a caller tapped again in mid-exchange can make the logs disagree
  (`ft8session.cpp:23`, excepted in `LogsAgree`).
- *Dial*: after two detents up and one back, an echo of the first request passes
  for the answer to the last, and the next one becomes the starting frequency
  (`ui/ft8screen.cpp:1002`, against 670-671; without `straight` TLC finds
  `DetentsAddUp` violated in five steps of the operator).
  Practice's frequency is stored as the operator's.
- *Pictures*: a deletion answered late deletes the picture completed meanwhile
  (`sstvscreen.cpp:2247`); the callsign of a picture whose save failed goes to
  the one before (2036); a picture is removed as it is saved when all others
  are starred (`sstvstorage.cpp:306`); a crash between picture and JSON leaves a
  new picture with the old composition; a failed save of the draft is not
  retried before the next edit; the names listed are those of when the gallery
  was opened, so that what a failed rename stored is replaced without a question.
- *Decoder*: rows of an unconfirmed candidate reach the screen
  (`sstvdecoder.cpp:1216`); nothing resets it at a lost connection; a chain of
  short leaders ends only with the 10 s limit.

## Not modelled, and why

- *Signal processing and rendering*: decoders' filters, encoders, Opus, sidetone
  samples, waterfalls, widgets. Sample values are outside model checking. They
  are most of the source: of some 63,400 lines the modules stand for 8,600.
- *KPA1500 client*: nothing in the UI sets its host or enables it.
- *CAT server's GETs*: formatted from `RadioState`'s copy; clients share no state.
- *Menu, settings, MIDI mapping, radio list*: tables and key-value stores without
  a protocol.
- *K-Pod, serial HaliKey, desktop MIDI and audio*: device I/O of other builds.
- *SSTV composer, import, sharing*: canvas editing and Android's intents; an
  edit is `SstvDraft`'s `Edit`.
- *`ft8lib`*, Qt and OpenSSL: external.
- *`m_sstvAudioGeneration` on a stop* moves on to a number no gate is open for;
  the model has 0 for it.
- *Packet formats*: `Protocol` is modelled by whether a packet is complete.

## Plan

Done, in this order: program audio and the slot; level, connection, calibration,
contacts and their log; reception, settings, keying, pictures; the proofs above.

Left of the proofs: `LogsAgree` of `Ft8Qso`, for which the stage of a session would
have to be tied to the messages its partner has taken.

Models that could grow: `MainWindow`'s reconnect and background handling beside
`TcpConnection`, the CAT server's queued commands, the MIDI mapping editor.

