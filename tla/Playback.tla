------------------------------- MODULE Playback -------------------------------
(***************************************************************************)
(* Received audio on its way to the loudspeaker, in the Android build.  The   *)
(* I/O thread puts decoded packets into the jitter buffer, the audio thread  *)
(* takes one every 10 ms and writes it to an AudioTrack that may accept only *)
(* part of it, and Android's main thread replaces the track when a headset   *)
(* comes or goes.  Audio is counted in units; a packet is its number and its *)
(* size in units.                                                            *)
(***************************************************************************)
EXTENDS Integers, Sequences

CONSTANTS
  Sizes,     \* sizes of a packet: the encode mode and the streaming latency give them
  MaxQueue,  \* MAX_QUEUE_BYTES
  Room,      \* what the track buffers
  Packets,   \* bound: packets that come in
  Restarts   \* bound: times the engine is started

VARIABLES
  queue, queueBytes,  \* m_audioQueue, m_queueBytes
  prebuffering,       \* m_prebuffering
  staged,    \* m_writeBuffer: the rest of a packet, as packet and units from .. size
  active,    \* m_androidNativePlaybackActive, with the feed timer
  track,     \* the AudioTrack: free units, -1 when there is none
  received,  \* packets that came in
  written,   \* history: the stretch of a packet written last
  cut,       \* history: whether the rest of that packet was discarded on purpose
  starts     \* how often the engine may still be started

vars == <<queue, queueBytes, prebuffering, staged, active, track, received, written, cut, starts>>

None == [packet |-> 0, from |-> 1, to |-> 0, size |-> 0]
Total(packets) ==
  LET bytes[n \in 0 .. Len(packets)] == IF n = 0 THEN 0 ELSE bytes[n - 1] + packets[n].size
  IN bytes[Len(packets)]
Least(a, b) == IF a < b THEN a ELSE b

Init ==
  /\ queue = <<>> /\ queueBytes = 0 /\ prebuffering = TRUE /\ staged = None
  /\ active = FALSE /\ track = -1 /\ received = 0
  /\ written = None /\ cut = FALSE /\ starts = Restarts

\* What is left of the packets, as a set of one sequence, when the oldest are taken
\* off while there are any and the bytes are above `most'.
Trim(packets, most) ==
  LET rest(n) == SubSeq(packets, n + 1, Len(packets))
  IN {rest(n) : n \in {n \in 0 .. Len(packets) :
        /\ n = Len(packets) \/ Total(rest(n)) <= most
        /\ \A m \in 0 .. n - 1 : Total(rest(m)) > most}}

\* The rule of five packets, which comes before that of the second.
Calm(size) == IF queueBytes + size > 5 * size THEN Trim(queue, 2 * size) ELSE {queue}

\* Mutant: the counter follows the first of the two rules only.
M_Enqueue(size) ==
  /\ received < Packets /\ received' = received + 1
  /\ \E calm \in Calm(size) : \E room \in Trim(calm, MaxQueue - size) :
       /\ queue' = Append(room, [packet |-> received + 1, size |-> size])
       /\ queueBytes' = Total(calm) + size
  /\ UNCHANGED <<prebuffering, staged, active, track, written, cut, starts>>

\* enqueueAudio, under the queue's mutex.
Enqueue(size) ==
  /\ received < Packets /\ received' = received + 1
  /\ \E calm \in Calm(size) : \E room \in Trim(calm, MaxQueue - size) :
       /\ queue' = Append(room, [packet |-> received + 1, size |-> size])
       /\ queueBytes' = queueBytes - Total(queue) + Total(room) + size
  /\ UNCHANGED <<prebuffering, staged, active, track, written, cut, starts>>

\* A write of the stretch to the track takes what there is room for; -1 without a track.
Accepts(stretch, taken) ==
  IF track < 0 THEN taken = -1
  ELSE taken = Least(track, stretch.size - stretch.from + 1)

Writes(stretch, taken) ==
  IF taken <= 0 THEN UNCHANGED <<track, written, cut>>
  ELSE /\ track' = track - taken /\ cut' = FALSE
       /\ written' = [stretch EXCEPT !.to = stretch.from + taken - 1]

Rest(stretch, taken) ==
  IF stretch.from + taken > stretch.size THEN None ELSE [stretch EXCEPT !.from = @ + taken]

\* feedAudioDevice while the rest of a packet waits, which must go first.
FeedStaged ==
  /\ active /\ staged # None
  /\ \E taken \in -1 .. Room :
       /\ Accepts(staged, taken) /\ Writes(staged, taken)
       /\ staged' = IF taken > 0 THEN Rest(staged, taken) ELSE staged
  /\ UNCHANGED <<queue, queueBytes, prebuffering, active, received, starts>>

\* Mutant: what the track did not take of a packet is dropped.
M_FeedPacket ==
  LET stretch == [packet |-> Head(queue).packet, from |-> 1, to |-> 0, size |-> Head(queue).size] IN
  /\ active /\ staged = None /\ queue # <<>> /\ prebuffering' = FALSE
  /\ queue' = Tail(queue) /\ queueBytes' = queueBytes - stretch.size
  /\ \E taken \in -1 .. Room : Accepts(stretch, taken) /\ Writes(stretch, taken)
  /\ UNCHANGED <<staged, active, received, starts>>

\* feedAudioDevice otherwise: one packet leaves the queue; a failed write loses it.
FeedPacket ==
  LET stretch == [packet |-> Head(queue).packet, from |-> 1, to |-> 0, size |-> Head(queue).size] IN
  /\ active /\ staged = None /\ queue # <<>> /\ prebuffering' = FALSE
  /\ queue' = Tail(queue) /\ queueBytes' = queueBytes - stretch.size
  /\ \E taken \in -1 .. Room :
       /\ Accepts(stretch, taken) /\ Writes(stretch, taken)
       /\ staged' = IF taken < 0 THEN None ELSE Rest(stretch, taken)
  /\ UNCHANGED <<active, received, starts>>

\* The loudspeaker plays what the track holds.
Play ==
  /\ track \in 0 .. Room - 1 /\ track' = track + 1
  /\ UNCHANGED <<queue, queueBytes, prebuffering, staged, active, received, written, cut, starts>>

\* AndroidAudioPlayback.rebuild: a new, empty track, or none when Android has no output.
Rebuild(made) ==
  /\ active
  /\ track' = IF made THEN Room ELSE -1
  /\ UNCHANGED <<queue, queueBytes, prebuffering, staged, active, received, written, cut, starts>>

Emptied == queue' = <<>> /\ queueBytes' = 0 /\ prebuffering' = TRUE /\ staged' = None

\* AudioEngine::start with a connection: a new track, the buffers emptied.
Start(made) ==
  /\ starts > 0 /\ starts' = starts - 1
  /\ IF made THEN active' = TRUE /\ track' = Room /\ cut' = TRUE /\ Emptied
     ELSE track' = -1 /\ UNCHANGED <<active, cut, queue, queueBytes, prebuffering, staged>>
  /\ UNCHANGED <<received, written>>

\* AudioEngine::stop at its end.
Stop ==
  /\ active /\ active' = FALSE /\ track' = -1 /\ cut' = TRUE /\ Emptied
  /\ UNCHANGED <<received, written, starts>>

Next ==
  \/ \E size \in Sizes : Enqueue(size)
  \/ FeedStaged \/ FeedPacket \/ Play \/ Stop
  \/ \E made \in BOOLEAN : Rebuild(made) \/ Start(made)

Spec == Init /\ [][Next]_vars

----------------------------------------------------------------------------
\* The counter the high-water rules read agrees with the queue, and the second of audio
\* that may wait is never exceeded, whatever sizes packets come in.
QueueIsBounded == queueBytes = Total(queue) /\ queueBytes <= MaxQueue

TypeOK ==
  /\ queueBytes \in Nat /\ prebuffering \in BOOLEAN /\ active \in BOOLEAN /\ cut \in BOOLEAN
  /\ track \in -1 .. Room /\ staged.packet \in 0 .. received
  /\ QueueIsBounded

\* Packets are written in order and each one to its end: no other packet is written while
\* the rest of one waits, across partial writes, failed writes and a new track.  Only
\* starting or stopping the engine discards the rest of a packet.
Continues ==
  written' # written =>
    \/ written'.packet = written.packet /\ written'.from = written.to + 1
    \/ written'.packet > written.packet /\ written'.from = 1
       /\ (written.to = written.size \/ cut)

\* The rest of a packet does not shut the queue out: it is written, or playback has ended
\* or lost its track for good.
Waits == staged # None
Served == staged = None \/ ~active \/ track < 0
================================================================================
