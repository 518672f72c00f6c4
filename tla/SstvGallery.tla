----------------------------- MODULE SstvGallery -----------------------------
(***************************************************************************)
(* The received SSTV pictures: SstvStorage's files and the receive side of *)
(* SstvScreen.  The decoder completes a picture, which is saved and makes  *)
(* the oldest ones go when there are more than the operator wants to keep, *)
(* and may then hear the sender's callsign, as FSK or as CW, while the     *)
(* operator looks at some picture, corrects its callsign, stars it or      *)
(* answers a question about deleting, during which the decoder goes on.    *)
(*                                                                         *)
(* A picture is its number in the order of reception; on the disk it is a  *)
(* PNG and a JSON file, and it is listed if both are there.  A write or    *)
(* removal may fail, and the application may die; dying inside a handler   *)
(* leaves what a failure inside it leaves.  The files on the disk can be   *)
(* read.  A callsign is not told from another, only whence it comes; text  *)
(* that is no callsign is not saved and left out.                          *)
(***************************************************************************)
EXTENDS Integers, FiniteSets, FiniteSetsExt

CONSTANTS
  Pictures,   \* bound: how many pictures are received
  Limits,     \* the choices of how many to keep, 0 for all
  Failures,   \* bound: handlers in which a write or removal fails
  Deaths      \* bound: how often the application dies

None == 0
Images == 1 .. Pictures

VARIABLES
  disk,     \* the record of each listed picture
  screen,   \* m_receiveRecords, m_currentReceiveId, m_pendingReceiveCallsignId,
            \* the callsign editor's text and m_receiveCallsignSourceValue
  dialog,   \* the question asked, of which picture, how many had been received then
  limit,    \* m_retentionLimit, kept in QSettings
  came,     \* pictures received
  heard,    \* the picture whose tail the decoder listens to
  failures, deaths   \* used of the bounds

vars == <<disk, screen, dialog, limit, came, heard, failures, deaths>>

Sources == {"", "MANUAL", "FSK ID", "CW ID"}
NoRecord == [source |-> "", starred |-> FALSE, there |-> FALSE]
NewRecord == [NoRecord EXCEPT !.there = TRUE]
NoQuestion == [kind |-> "", about |-> None, came |-> 0]

Listed(d) == {i \in Images : d[i].there}
Unstarred(d) == {i \in Listed(d) : ~d[i].starred}

EmptyScreen == [list |-> [i \in Images |-> NoRecord], current |-> None, pending |-> None,
                text |-> "", source |-> ""]

Init ==
  /\ disk = [i \in Images |-> NoRecord]
  /\ screen = EmptyScreen /\ dialog = NoQuestion
  /\ limit \in Limits
  /\ came = 0 /\ heard = None /\ failures = 0 /\ deaths = 0

Fails(bad) ==
  /\ bad => failures < Failures
  /\ failures' = IF bad THEN failures + 1 ELSE failures

(***************************************************************************)
(* SstvStorage: several pictures are removed one by one, in an order, up to *)
(* the first whose removal fails; that one is gone if one file of it is.   *)
(***************************************************************************)
Removed(d, s) == [i \in Images |-> IF i \in s THEN NoRecord ELSE d[i]]
OldestFirst(s) == {t \in SUBSET s : \A i \in t, j \in s \ t : i < j}
NewestFirst(s) == {t \in SUBSET s : \A i \in t, j \in s \ t : i > j}
Removals(d, s, orders) ==
  {[disk |-> Removed(d, s), bad |-> FALSE]}
    \cup {[disk |-> Removed(d, t), bad |-> TRUE] : t \in IF s = {} THEN {} ELSE orders}

Excess(d, n) == IF n = 0 THEN 0 ELSE Max({0, Cardinality(Listed(d)) - n})

\* mutant: starred pictures count like the others
M_Victims(d, n) ==
  CHOOSE s \in OldestFirst(Listed(d)) : Cardinality(s) = Excess(d, n)
Victims(d, n) ==
  CHOOSE s \in OldestFirst(Unstarred(d)) :
    Cardinality(s) = Min({Excess(d, n), Cardinality(Unstarred(d))})

EnforceRetention(d, n) == Removals(d, Victims(d, n), OldestFirst(Victims(d, n)))
RemoveReceived(d, i) ==
  LET s == {i} \cap Listed(d) IN Removals(d, s, SUBSET s)
ClearUnstarred(d) == Removals(d, Unstarred(d), NewestFirst(Unstarred(d)))

(***************************************************************************)
(* SstvScreen::selectReceiveHistory and refreshReceiveHistory: the picture *)
(* asked for is shown, or else the newest.  With none to show the source   *)
(* stays what it was.                                                      *)
(***************************************************************************)
Selected(s, i) ==
  IF i = None THEN [s EXCEPT !.current = None, !.text = ""]
  ELSE [s EXCEPT !.current = i, !.source = s.list[i].source,
                 !.text = IF s.list[i].source = "" THEN "" ELSE "call"]

Newest(d) == IF Listed(d) = {} THEN None ELSE Max(Listed(d))
Refreshed(s, d, i) ==
  Selected([s EXCEPT !.list = d], IF i \in Listed(d) THEN i ELSE Newest(d))

Shows(s) == screen' = s
Operator == dialog = NoQuestion
Rest == UNCHANGED <<dialog, limit, came, heard, deaths>>

----------------------------------------------------------------------------
(***************************************************************************)
(* completeReceiveImage: saved and listed, the picture is shown and its    *)
(* callsign awaited.  If saving it, or removing an older one, fails, the   *)
(* screen goes on waiting for the callsign of the picture before it.       *)
(***************************************************************************)
Awaiting(s, i) == [s EXCEPT !.pending = i, !.text = "", !.source = ""]

CompleteReceiveImage ==
  /\ came < Pictures
  /\ came' = came + 1 /\ heard' = came + 1
  /\ \/ Fails(TRUE) /\ UNCHANGED <<disk, screen>>
     \/ \E o \in EnforceRetention([disk EXCEPT ![came + 1] = NewRecord], limit) :
          /\ Fails(o.bad) /\ disk' = o.disk
          /\ Shows(IF o.bad THEN screen
                   ELSE Awaiting(Refreshed(screen, o.disk, came + 1), came + 1))
  /\ UNCHANGED <<dialog, limit, deaths>>

(***************************************************************************)
(* receiveCallsignDetected: what it replaces is read from the editor when  *)
(* the awaited picture is on the screen, and from the list otherwise.      *)
(***************************************************************************)
ShowingPending == screen.current = screen.pending
ExistingSource == IF ShowingPending THEN screen.source
                  ELSE screen.list[screen.pending].source
ExistingCall == IF ShowingPending THEN screen.text # "" ELSE ExistingSource # ""

Displaces(source) ==
  /\ ExistingSource # "MANUAL"
  /\ ExistingSource = "FSK ID" => source = "FSK ID"
  /\ ExistingCall /\ source = "CW ID" => ExistingSource = "CW ID"

CallsignDetected(source, bad) ==
  /\ heard # None /\ screen.pending # None
  /\ Displaces(source) /\ Fails(bad)
  /\ IF screen.pending \in Listed(disk) /\ ~bad
     THEN /\ disk' = [disk EXCEPT ![screen.pending].source = source]
          /\ Shows(Refreshed(screen, disk', screen.current))
     ELSE UNCHANGED <<disk, screen>>
  /\ Rest

\* The operator edits the callsign on the screen ...
Type(text) ==
  /\ Operator /\ screen.current # None
  /\ Shows([screen EXCEPT !.text = text])
  /\ UNCHANGED <<disk, failures>> /\ Rest

\* ... and is done: saveCurrentReceiveCallsign, which keeps the new source on
\* the screen even if it cannot be saved.
Corrected == [screen EXCEPT !.source = IF screen.text = "" THEN "" ELSE "MANUAL"]

\* mutant: the list is not read again
M_SaveCurrentReceiveCallsign(bad) ==
  /\ Operator /\ screen.current # None /\ Fails(bad)
  /\ IF screen.current \in Listed(disk) /\ ~bad
     THEN disk' = [disk EXCEPT ![screen.current].source = Corrected.source]
     ELSE UNCHANGED disk
  /\ Shows(Corrected)
  /\ Rest
SaveCurrentReceiveCallsign(bad) ==
  /\ Operator /\ screen.current # None /\ Fails(bad)
  /\ IF screen.current \in Listed(disk) /\ ~bad
     THEN /\ disk' = [disk EXCEPT ![screen.current].source = Corrected.source]
          /\ Shows(Refreshed(Corrected, disk', screen.current))
     ELSE Shows(Corrected) /\ UNCHANGED disk
  /\ Rest

SelectReceiveHistory(i) ==
  /\ Operator /\ i \in Listed(screen.list) \ {screen.current}
  /\ Shows(Selected(screen, i))
  /\ UNCHANGED <<disk, failures>> /\ Rest

\* toggleCurrentReceiveStar: the id by which the picture is to be selected again is
\* a reference into the list that refreshReceiveHistory replaces first, so that
\* any picture may be the one shown.
ToggleStar(bad) ==
  /\ Operator /\ screen.current \in Listed(screen.list) /\ Fails(bad)
  /\ IF screen.current \in Listed(disk) /\ ~bad
     THEN /\ disk' = [disk EXCEPT ![screen.current].starred =
                                     ~screen.list[screen.current].starred]
          /\ \E i \in Listed(disk') : Shows(Refreshed(screen, disk', i))
     ELSE UNCHANGED <<disk, screen>>
  /\ Rest

(***************************************************************************)
(* The questions run an event loop of their own: the decoder's signals are *)
(* handled, the operator can only answer.                                  *)
(***************************************************************************)
Ask(kind) ==
  /\ Operator
  /\ IF kind = "delete" THEN screen.current # None ELSE Listed(screen.list) # {}
  /\ dialog' = [kind |-> kind, about |-> screen.current, came |-> came]
  /\ UNCHANGED <<disk, screen, limit, came, heard, failures, deaths>>

\* deleteCurrentReceive and clearReceiveHistory, after the answer.
Answered(o) == disk' = o.disk /\ Fails(o.bad) /\ Shows(Refreshed(screen, o.disk, None))

Answer(yes) ==
  /\ dialog # NoQuestion /\ dialog' = NoQuestion
  /\ \/ yes /\ dialog.kind = "delete" /\ \E o \in RemoveReceived(disk, screen.current) : Answered(o)
     \/ yes /\ dialog.kind = "clear" /\ \E o \in ClearUnstarred(disk) : Answered(o)
     \/ ~yes /\ UNCHANGED <<disk, screen, failures>>
  /\ UNCHANGED <<limit, came, heard, deaths>>

SetRetention(n) ==
  /\ Operator /\ n \in Limits \ {limit} /\ limit' = n
  /\ \E o \in EnforceRetention(disk, n) :
       /\ Fails(o.bad) /\ disk' = o.disk
       /\ Shows(Refreshed(screen, o.disk, screen.current))
  /\ UNCHANGED <<dialog, came, heard, deaths>>

\* The application dies and is started again: the screen is read from the disk.
Die ==
  /\ deaths < Deaths /\ deaths' = deaths + 1
  /\ Shows(Refreshed(EmptyScreen, disk, None))
  /\ dialog' = NoQuestion /\ heard' = None
  /\ UNCHANGED <<disk, limit, came, failures>>

Next ==
  \/ CompleteReceiveImage
  \/ \E source \in {"FSK ID", "CW ID"}, bad \in BOOLEAN : CallsignDetected(source, bad)
  \/ \E text \in {"", "call"} : Type(text)
  \/ \E bad \in BOOLEAN : SaveCurrentReceiveCallsign(bad)
  \/ \E i \in Images : SelectReceiveHistory(i)
  \/ \E bad \in BOOLEAN : ToggleStar(bad)
  \/ \E kind \in {"delete", "clear"} : Ask(kind)
  \/ \E yes \in BOOLEAN : Answer(yes)
  \/ \E n \in Limits : SetRetention(n)
  \/ Die

Spec == Init /\ [][Next]_vars

----------------------------------------------------------------------------
TypeOK ==
  /\ disk \in [Images -> [source : Sources, starred : BOOLEAN, there : BOOLEAN]]
  /\ screen.list \in [Images -> [source : Sources, starred : BOOLEAN, there : BOOLEAN]]
  /\ screen.current \in 0 .. came /\ screen.pending \in 0 .. came /\ heard \in 0 .. came
  /\ screen.text \in {"", "call"} /\ screen.source \in Sources
  /\ dialog.kind \in {"", "delete", "clear"} /\ dialog.about \in 0 .. Pictures
  /\ limit \in Limits /\ came \in 0 .. Pictures
  /\ failures \in 0 .. Failures /\ deaths \in 0 .. Deaths

(***************************************************************************)
(* A picture goes for a reason.  For want of room only unstarred ones go,  *)
(* and none while an older unstarred one stays ("delete the oldest         *)
(* app-private unstarred entry", docs/SSTV_SCOPE.md:429-430); clearing the *)
(* history spares the starred ones; deleting takes the one that was asked  *)
(* about, unless another one was completed while the question stood or the *)
(* one asked about was no longer there.                                    *)
(***************************************************************************)
Gone == {i \in Images : disk[i].there /\ ~disk'[i].there}
ForRoom == \A i \in Gone : /\ ~disk[i].starred
                           /\ \A j \in Unstarred(disk) : j < i => j \in Gone
ByRequest ==
  \/ dialog.kind = "clear" /\ Gone \subseteq Unstarred(disk)
  \/ /\ dialog.kind = "delete"
     /\ Gone \subseteq IF dialog.came < came \/ ~disk[dialog.about].there
                       THEN {screen.current} ELSE {dialog.about}
GalleryKeeps == IF came' # came \/ limit' # limit THEN ForRoom ELSE Gone = {} \/ ByRequest

(***************************************************************************)
(* A callsign that was heard is stored with the picture it followed (unless *)
(* that one could not be saved), never in the place of one that the        *)
(* operator has given ("manual correction is preserved",                   *)
(* docs/PROJECT_STATUS.md:786), and a CW one never in that of an FSK one   *)
(* (docs/SSTV_SCOPE.md:140).  A correction whose save failed is on the     *)
(* screen only, and is what counts there.                                  *)
(***************************************************************************)
Heard(i) == disk'[i].there /\ disk'[i].source # disk[i].source
            /\ disk'[i].source \in {"FSK ID", "CW ID"}
Unsaved(i) == screen.current = i /\ screen.source # disk[i].source
CallIsEarned ==
  \A i \in Images : Heard(i) /\ ~Unsaved(i) =>
    /\ disk[i].source # "MANUAL"
    /\ disk'[i].source = "CW ID" => disk[i].source # "FSK ID"
    /\ i = heard \/ screen.pending # heard
=============================================================================
