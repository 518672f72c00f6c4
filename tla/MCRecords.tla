------------------------------- MODULE MCRecords -------------------------------
(***************************************************************************)
(* Contacts, the reception of pictures, the gallery that keeps them and    *)
(* composed pictures: four parts that share no state in these models, so   *)
(* one run checks them all.  A behaviour is one of one of them, its part.  *)
(* Each uses the variables of SstvDraft as its own.                        *)
(***************************************************************************)
EXTENDS SstvDraft, Sequences

CONSTANTS
  Stations, Snr, MaxRetries,             \* of Ft8Qso
  UseRr73, CallFirst, MaxOps,
  Rows, SoftLimit, HardLimit, LongRun,   \* of SstvDecoder
  Arrivals, Limits, GalleryFailures      \* of SstvGallery: Pictures, Limits and Failures

ASSUME ContactBounds == MaxRetries \in Nat \ {0} /\ MaxOps \in Nat

\* A picture has more lines than a deadline; the search looks back for some time.
ASSUME DecoderBounds ==
  /\ Rows \in Nat /\ Rows > 5 /\ LongRun \in Nat
  /\ SoftLimit \in Nat /\ HardLimit \in Nat /\ SoftLimit <= HardLimit /\ HardLimit > 0

ASSUME GalleryBounds == Arrivals \in Nat /\ Limits \subseteq Nat /\ GalleryFailures \in Nat

VARIABLE part

all == <<part, vars>>

\* "A" is "a" but for letter case.  Two names are too long: of "ab" is left "a", and
\* of "b c" it is "b ", the directory of which is that of "b".
Short(name) == CASE name = "ab" -> "a" [] name = "b c" -> "b " [] OTHER -> name
LetterCase(name) == IF name = "A" THEN "a" ELSE name
Place(name) == CASE name = "A" -> "a" [] name = "b " -> "b" [] OTHER -> name

Q == INSTANCE Ft8Qso WITH
       session <- tx, live <- dirty, replies <- due, recent <- draft, air <- safe, ops <- store,
       again <- kept, took <- failures

D == INSTANCE SstvDecoder WITH
       head <- tx, hist <- failures, rx <- draft, tail <- store, out <- safe, last <- kept

G == INSTANCE SstvGallery WITH
       Pictures <- Arrivals, Failures <- GalleryFailures,
       disk <- draft, screen <- tx, dialog <- store, limit <- safe, came <- kept, heard <- due

AllInit ==
  \/ part = "draft" /\ Init
  \/ part = "contacts" /\ Q!Init /\ deaths = 0
  \/ part = "reception" /\ D!Init /\ dirty = FALSE /\ due = FALSE /\ deaths = 0
  \/ part = "gallery" /\ G!Init /\ dirty = FALSE

Draft == part = "draft" /\ UNCHANGED part
Contacts == part = "contacts" /\ UNCHANGED <<part, deaths>>
Reception == part = "reception" /\ UNCHANGED <<part, dirty, due, deaths>>
Gallery == part = "gallery" /\ UNCHANGED <<part, dirty>>

AllNext ==
  \/ \E p \in Pictures : Draft /\ ImportImage(p)
  \/ \E p \in Pictures : Draft /\ RotateSource(p)
  \/ \E t \in Texts : Draft /\ Edit(t)
  \/ Draft /\ SaveDraft
  \/ Draft /\ ClearDraft
  \/ Draft /\ Die
  \/ \E n \in Listed : Draft /\ LoadImageTemplate(n)
  \/ \E n \in Names : Draft /\ SaveImageTemplate(n)
  \/ \E n \in Listed : Draft /\ RemoveImageTemplate(n)
  \/ \E old \in Listed, new \in Names : Draft /\ Rename(old, new)

  \/ \E me \in Stations : Contacts /\ Q!CallCq(me)
  \/ \E me \in Stations : Contacts /\ Q!Call(me)
  \/ \E me \in Stations : Contacts /\ Q!Halt(me)
  \/ \E me \in Stations : Contacts /\ Q!Tick(me)
  \/ \E me \in Stations : Contacts /\ Q!TransmitFails(me)
  \/ \E me \in Stations : Contacts /\ \E d \in draft[me] : Q!SelectStation(me, d)
  \/ \E me \in Stations : Contacts /\ \E m \in safe.sent, snr \in Snr : Q!AddDecodes(me, m, snr)
  \/ Contacts /\ Q!PeriodEnds

  \/ \E tone \in D!Tones, edge \in D!Edges, hidden \in BOOLEAN : Reception /\ D!Beat(tone, edge, hidden)
  \/ \E scottie \in BOOLEAN : Reception /\ D!Begin(scottie)
  \/ \E pulse, slants \in BOOLEAN : Reception /\ D!Line(pulse, slants)
  \/ \E good, ends \in BOOLEAN : Reception /\ D!FskSymbol(good, ends)
  \/ Reception /\ D!CwId
  \/ Reception /\ D!IdsEnd
  \/ Reception /\ D!ResetAuto

  \/ Gallery /\ G!CompleteReceiveImage
  \/ \E source \in {"FSK ID", "CW ID"}, bad \in BOOLEAN : Gallery /\ G!CallsignDetected(source, bad)
  \/ \E text \in {"", "call"} : Gallery /\ G!Type(text)
  \/ \E bad \in BOOLEAN : Gallery /\ G!SaveCurrentReceiveCallsign(bad)
  \/ \E i \in 1 .. Arrivals : Gallery /\ G!SelectReceiveHistory(i)
  \/ \E bad \in BOOLEAN : Gallery /\ G!ToggleStar(bad)
  \/ \E kind \in {"delete", "clear"} : Gallery /\ G!Ask(kind)
  \/ \E yes \in BOOLEAN : Gallery /\ G!Answer(yes)
  \/ \E n \in Limits : Gallery /\ G!SetRetention(n)
  \/ Gallery /\ G!Die

\* The fairness of Ft8Qso and of SstvDecoder; nothing must happen to a composed picture.
AllSpec ==
  /\ AllInit /\ [][AllNext]_all
  /\ WF_all(Contacts /\ Q!PeriodEnds)
  /\ \A me \in Stations : WF_all(Contacts /\ Q!Tick(me))
  /\ WF_all(Reception /\ D!Hearing)

----------------------------------------------------------------------------
TypesOK ==
  /\ part = "draft" => TypeOK
  /\ part = "contacts" => Q!TypeOK
  /\ part = "reception" => D!TypeOK
  /\ part = "gallery" => G!TypeOK

(* Ft8Qso: what two stations log of a contact agrees, and what is counted  *)
(* as sent was on the air.                                                 *)
ContactsAgree == part = "contacts" => Q!LogsAgree /\ Q!SentAsShown

(* Ft8Qso: every call ends.  SstvDecoder: so does every header and every   *)
(* picture, while there is audio.                                          *)
Busy(me) == \/ part = "contacts" /\ tx[me].armed /\ store < MaxOps
            \/ part = "reception" /\ D!Busy
AllEnds == \A me \in Stations : Busy(me) ~> ~Busy(me)

(* SstvDecoder: what becomes a picture was confirmed, and a callsign is    *)
(* that of the picture received last.                                      *)
PictureIsSound == [][part = "reception" => D!PictureIsConfirmed /\ D!CallIsOfLast]_all

(* SstvDraft: the draft restores what is on the screen, and no image       *)
(* template is lost but for those deleted, replaced or, with a name that   *)
(* is cut, renamed to their own directory.                                 *)
WorkIsKept == part = "draft" => DraftIsScreen /\ TemplatesAreKept

(* SstvDraft: a template renamed is not lost, and takes no other's place   *)
(* unasked.  Not so with a name of more than 40 characters.                *)
RenamesKeep == [][part = "draft" => RenameKeeps]_all

(* SstvGallery: a picture goes for a reason, and a callsign that was heard *)
(* replaces only what it may.                                              *)
PicturesAreKept == [][part = "gallery" => G!GalleryKeeps]_all
CallsAreEarned == [][part = "gallery" => G!CallIsEarned]_all

=============================================================================
