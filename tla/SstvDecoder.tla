----------------------------- MODULE SstvDecoder -----------------------------
(***************************************************************************)
(* The SSTV decoder's way from searching for a header over a picture to    *)
(* the callsign behind it.  The audio is told apart by what its filters    *)
(* and measurements find in it: in the search a beat of 150 ms in which    *)
(* one tone prevails, in a picture half a scan line with a sync pulse at   *)
(* its end or without, behind it the symbols of an ID.  Any audio may      *)
(* come.                                                                   *)
(*                                                                         *)
(* A header is a leader of 300 ms, a break of 10 ms, a second leader and   *)
(* the VIS word; what a measurement over it may accept is a choice.  Level *)
(* and stream indicators, AFC and slant values and pixels are left out.    *)
(***************************************************************************)
EXTENDS Integers

CONSTANTS
  Rows,                  \* scan lines of a picture, more than a deadline's five
  SoftLimit, HardLimit,  \* of the history of the search, in beats: 8 s and 10 s
  LongRun                \* the longest leader, in beats: 5 s

VARIABLES
  head,   \* the header as far as it has been recognised
  hist,   \* beats in m_frequency
  rx,     \* the picture being received, or NoPicture
  tail,   \* the IDs behind the last picture: FskIdState, and m_postCwEmitted
  out,    \* history: the signal this step ended with
  last    \* history: what came last: "picture", "header" or "reset"

vars == <<head, hist, rx, tail, out, last>>

Sequence == 5      \* 0.7 s from the first leader's end to a VIS word
Recent == 5        \* 0.75 s
Word == 3          \* 0.39 s: the word and the search for its edge

Tones == {"leader", "low", "noise"}
Edges == {"none", "break", "other"}

NoHead == [first |-> FALSE, brk |-> FALSE, left |-> 0, offset |-> FALSE, ignore |-> FALSE,
           vis |-> "none", wait |-> 0, tone |-> "noise", len |-> 0]
NoPicture == [kind |-> "none"]
NoTail == [at |-> "off", cw |-> FALSE]

Init ==
  /\ head = NoHead /\ hist = 0 /\ rx = NoPicture /\ tail = NoTail
  /\ out = "none" /\ last = "reset"

\* resetDsp; the search for IDs goes on.
ResetDsp == head' = NoHead /\ hist' = 0 /\ rx' = NoPicture

----------------------------------------------------------------------------
(***************************************************************************)
(* The search for a header.                                                *)
(***************************************************************************)
Progress(h) ==
  h.vis # "none" \/ h.first \/ h.brk \/ (h.tone = "leader" /\ h.offset /\ h.len <= Recent)

GiveUp(h) == [h EXCEPT !.first = FALSE, !.brk = FALSE, !.left = 0, !.offset = FALSE,
                       !.vis = "none", !.wait = 0]
Ignoring(h) == [GiveUp(h) EXCEPT !.ignore = TRUE, !.tone = "noise", !.len = 0]

\* completeToneRun.  hidden: both leaders were one run, the break is found inside.
Leader(h, hidden) ==
  IF ~h.first
  THEN IF h.len = 4 /\ hidden
       THEN [h EXCEPT !.first = TRUE, !.brk = TRUE, !.left = 0, !.vis = "full", !.wait = 0]
       ELSE IF h.len \in 2 .. LongRun
       THEN [h EXCEPT !.first = TRUE, !.left = Sequence, !.offset = TRUE]
       ELSE [h EXCEPT !.offset = FALSE]
  ELSE IF h.brk /\ h.len \in 2 .. 4
  THEN [h EXCEPT !.vis = "full", !.wait = 0, !.left = 0]
  ELSE h

RunEnds(h, hidden) ==
  IF h.tone = "leader" THEN Leader(h, hidden)
  ELSE IF h.tone = "low" /\ h.first /\ ~h.brk THEN GiveUp(h)
  ELSE h

Break(h) == IF h.first THEN [h EXCEPT !.brk = TRUE] ELSE h

\* A beat of a tone, behind a break, a short interruption or neither.
Hears(h, tone, edge, hidden) ==
  LET deaf == h.ignore /\ tone = "leader" /\ edge = "none"
      now == IF deaf THEN "noise" ELSE tone
      ends == edge # "none" \/ now # h.tone
      done == IF ends THEN RunEnds(h, hidden) ELSE h
      cut == IF edge = "break" THEN Break(done) ELSE done
  IN [cut EXCEPT !.ignore = deaf, !.tone = now,
                 !.len = IF ends THEN 1 ELSE IF @ > LongRun THEN @ ELSE @ + 1,
                 !.offset = @ \/ now = "leader"]

\* The time for a VIS word runs out, or that for finding its edge.
Later(h) ==
  IF h.vis # "none" THEN [h EXCEPT !.wait = @ + 1]
  ELSE IF h.left = 1 THEN Ignoring(h)
  ELSE IF h.left > 1 THEN [h EXCEPT !.left = @ - 1]
  ELSE h

\* Over a weak second leader, or by correlation (tryCorrelatedVisRecovery).
Finds(h) ==
  {h} \cup
  (IF h.vis = "none" /\ h.first /\ h.brk /\ h.left \in 1 .. Sequence - 2
   THEN {[h EXCEPT !.vis = "full", !.wait = 0, !.left = 0]} ELSE {}) \cup
  {[h EXCEPT !.vis = kind, !.wait = 2, !.left = 0, !.first = TRUE, !.brk = TRUE, !.offset = TRUE] :
     kind \in IF h.vis # "none" \/ hist < 4 THEN {} ELSE IF hist < 6 THEN {"recovery"} ELSE {"full", "recovery"}}

\* tryDecodeVis finds no word, or one with a wrong parity or mode.
Rejects(h) ==
  IF h.vis = "none" \/ h.wait < 2 THEN {h}
  ELSE {Ignoring(h), GiveUp(h)} \cup (IF h.wait < Word THEN {h} ELSE {})

Bounded(h, n) == n >= SoftLimit /\ (~Progress(h) \/ n >= HardLimit)

Beat(tone, edge, hidden) ==
  /\ rx = NoPicture
  /\ IF Bounded(head, hist + 1) THEN ResetDsp
     ELSE /\ hist' = hist + 1 /\ UNCHANGED rx
          /\ \E h \in Finds(Hears(Later(head), tone, edge, hidden)) : head' \in Rejects(h)
  /\ out' = "none" /\ UNCHANGED <<tail, last>>

----------------------------------------------------------------------------
(***************************************************************************)
(* A picture.  Positions are in half lines from its start; other than      *)
(* Scottie's, its first line begins there.                                 *)
(***************************************************************************)
Recovery(p) == p.kind = "recovery"
Deadline(p) == 2 * (IF Recovery(p) THEN 5 ELSE 3)

\* The VIS word is accepted.  What the search knew is not used again before resetDsp
\* forgets it; a picture's history is as long as the picture.
Begin(scottie) ==
  /\ rx = NoPicture /\ head.vis # "none" /\ head.wait >= 2
  /\ rx' = [kind |-> head.vis, scottie |-> scottie, at |-> 0, first |-> IF scottie THEN -1 ELSE 0,
            syncs |-> IF scottie THEN 0 ELSE 1, line |-> 0, mark |-> -1, pulses |-> 0,
            confirmed |-> FALSE, announced |-> head.vis = "full", rows |-> 0]
  /\ tail' = NoTail
  /\ out' = (IF head.vis = "full" THEN "mode" ELSE "none") /\ last' = "header"
  /\ head' = NoHead /\ hist' = 0

\* acceptSync: pulses that are whole lines apart confirm the picture.
Periodic(p) ==
  LET gap == p.at - p.mark
  IN gap % 2 = 0 /\ gap \div 2 \in 1 .. (IF Recovery(p) THEN 1 ELSE 3)
Counts(p) ==
  IF p.confirmed THEN p
  ELSE LET n == IF p.mark >= 0 /\ Periodic(p) THEN p.pulses + 1 ELSE 1
           sure == n >= IF Recovery(p) THEN 3 ELSE 2
       IN [p EXCEPT !.mark = p.at, !.pulses = n, !.confirmed = sure, !.announced = @ \/ sure]

\* The pulse is that of a line, later than the last one.
OnLine(p) ==
  LET gap == p.at - p.first
  IN p.first >= 0 /\ gap % 2 = 0 /\ gap \div 2 \in p.line + 1 .. Rows + 3
Anchors(p) ==
  IF p.first < 0 THEN [p EXCEPT !.first = p.at, !.syncs = 1]
  ELSE IF OnLine(p) THEN [p EXCEPT !.line = (p.at - p.first) \div 2, !.syncs = @ + 1]
  ELSE p

\* renderAvailableLines, again from the first line on when the slant has changed.
Available(p) ==
  LET gap == p.at - p.first + IF p.scottie THEN 1 ELSE 0
  IN IF p.first < 0 THEN 0 ELSE IF gap \div 2 > Rows THEN Rows ELSE gap \div 2
Rendered(p) == [p EXCEPT !.rows = Available(p)]
Shows(p, q) == q.rows # p.rows /\ (q.rows % 4 = 0 \/ q.rows = Rows)
Slants(p, q) == OnLine(p) /\ q.syncs >= 4

Complete ==
  /\ tail' = [at |-> "tones", cw |-> FALSE]
  /\ ResetDsp /\ out' = "done" /\ last' = "picture"

\* Half a line.  The time for a confirmation is over before a pulse at its end is.
\* slants: the pulse changes the estimate of the slant.
\* mutant: an announced picture needs no confirmation
M_Line(pulse, slants) ==
  /\ rx # NoPicture
  /\ LET p == [rx EXCEPT !.at = @ + 1]
         q == IF pulse THEN Anchors(Counts(p)) ELSE p
         forced == pulse /\ slants /\ Slants(p, q)
         r == IF forced \/ q.announced THEN Rendered(q) ELSE q
     IN IF ~p.confirmed /\ ~p.announced /\ p.at >= Deadline(p)
        THEN ResetDsp /\ out' = "lost" /\ UNCHANGED <<tail, last>>
        ELSE IF r.rows = Rows THEN Complete
        ELSE /\ rx' = r
             /\ out' = IF Shows(q, r) THEN "rows" ELSE IF q.announced # p.announced THEN "mode" ELSE "none"
             /\ UNCHANGED <<head, hist, tail, last>>
Line(pulse, slants) ==
  /\ rx # NoPicture
  /\ LET p == [rx EXCEPT !.at = @ + 1]
         q == IF pulse THEN Anchors(Counts(p)) ELSE p
         forced == pulse /\ slants /\ Slants(p, q)
         r == IF forced \/ q.announced THEN Rendered(q) ELSE q
     IN IF ~p.confirmed /\ p.at >= Deadline(p)
        THEN ResetDsp /\ out' = "lost" /\ UNCHANGED <<tail, last>>
        ELSE IF r.rows = Rows THEN Complete
        ELSE /\ rx' = r
             /\ out' = IF Shows(q, r) THEN "rows" ELSE IF q.announced # p.announced THEN "mode" ELSE "none"
             /\ UNCHANGED <<head, hist, tail, last>>

----------------------------------------------------------------------------
(***************************************************************************)
(* The IDs behind a picture: consumeFskId and processFskSymbol, and        *)
(* tryDecodeCwId.                                                          *)
(***************************************************************************)
Listens == tail.at # "off"
Tells(call) == out' = (IF call THEN "call" ELSE "none") /\ UNCHANGED <<head, hist, rx, last>>

\* good: the tones, the header or the checksum are those of an ID; ends: it is the
\* end mark.  A text of more than 16 characters is given up, as is a wrong header.
FskSymbol(good, ends) ==
  /\ Listens
  /\ tail' = [tail EXCEPT !.at =
       IF ~good THEN "tones"
       ELSE IF @ = "tones" THEN "header"
       ELSE IF @ = "header" THEN "text"
       ELSE IF @ = "text" THEN (IF ends THEN "sum" ELSE "text")
       ELSE "tones"]
  /\ Tells(tail.at = "sum" /\ good)

CwId == Listens /\ ~tail.cw /\ tail' = [tail EXCEPT !.cw = TRUE] /\ Tells(TRUE)

\* The 20 s for them are over.
IdsEnd == Listens /\ tail' = [tail EXCEPT !.at = "off"] /\ Tells(FALSE)

\* resetAuto: the screen was opened, or the phone's own transmission or calibration ended.
ResetAuto == ResetDsp /\ tail' = NoTail /\ out' = "none" /\ last' = "reset"

\* The K4 sends audio without a pause.
Hearing ==
  \/ \E tone \in Tones, edge \in Edges, hidden \in BOOLEAN :
       Beat(tone, edge, hidden)
  \/ \E pulse, slants \in BOOLEAN : Line(pulse, slants)

Next ==
  \/ Hearing
  \/ \E scottie \in BOOLEAN : Begin(scottie)
  \/ \E good, ends \in BOOLEAN : FskSymbol(good, ends)
  \/ CwId
  \/ IdsEnd
  \/ ResetAuto

Spec == Init /\ [][Next]_vars /\ WF_vars(Hearing)

----------------------------------------------------------------------------
PictureStates ==
  [kind : {"full", "recovery"}, scottie : BOOLEAN, at : 0 .. 2 * Rows + 10, first : -1 .. 10,
   syncs : 0 .. Rows + 4, line : 0 .. Rows + 3, mark : -1 .. 10, pulses : 0 .. 3,
   confirmed : BOOLEAN, announced : BOOLEAN, rows : 0 .. Rows - 1]

(***************************************************************************)
(* The history of the search is bounded whatever is heard (the comment at  *)
(* sstvdecoder.cpp:640-642 tells what happens otherwise), and so is a      *)
(* picture.                                                                *)
(***************************************************************************)
TypeOK ==
  /\ hist \in 0 .. HardLimit - 1
  /\ rx \in PictureStates \cup {NoPicture}
  /\ head.vis \in {"none", "full", "recovery"} /\ head.left \in 0 .. Sequence /\ head.wait \in 0 .. Word
  /\ tail \in [at : {"off", "tones", "header", "text", "sum"}, cw : BOOLEAN]
  /\ out \in {"none", "mode", "rows", "done", "lost", "call"} /\ last \in {"picture", "header", "reset"}

(***************************************************************************)
(* A picture that is completed, and so goes into the gallery, was          *)
(* announced and is confirmed by the pulses of its lines: noise behind a   *)
(* header that was none never becomes a picture.                           *)
(***************************************************************************)
PictureIsConfirmed == out' = "done" => rx.announced /\ rx.confirmed

(***************************************************************************)
(* A callsign is told only between a picture's end and the next header or  *)
(* reset: the screen enters it for the picture received last.              *)
(***************************************************************************)
CallIsOfLast == out' = "call" => last = "picture"

(***************************************************************************)
(* Any header, and any picture, ends while there is audio.                 *)
(***************************************************************************)
Busy == rx # NoPicture \/ Progress(head)
ReceptionEnds == Busy ~> ~Busy
=============================================================================
