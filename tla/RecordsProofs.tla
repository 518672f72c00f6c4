----------------------------- MODULE RecordsProofs -----------------------------
(***************************************************************************)
(* Proofs about what the run "records" checks, the draft of a picture and  *)
(* the image templates, the reception of pictures, the gallery and the     *)
(* contacts, for all pictures, stations and directories, and every bound.  *)
(* A behaviour is one of one part, so each part has an invariant of its    *)
(* own; a step of another part leaves it alone.                            *)
(***************************************************************************)
EXTENDS MCRecords, Integers, CallQueues, FiniteSetTheorems

(***************************************************************************)
(* The draft and the image templates.  That the draft restores the screen  *)
(* is not inductive: it needs that a picture saved with an earlier         *)
(* composition is still the one on the screen unless it is marked as       *)
(* changed, and that a saved draft is one that a restart accepts.          *)
(***************************************************************************)
Dirs == {Target(n) : n \in Names}

Types ==
  /\ tx \in Contents /\ draft \in Contents
  /\ store \in [Dirs -> Contents] /\ kept \subseteq Contents
  /\ dirty \in BOOLEAN /\ due \in BOOLEAN
  /\ safe \in {"saved", "warned", "cleared"}

Counts == failures \in 0 .. Failures /\ deaths \in 0 .. Deaths

\* A save is due only for a picture; a picture on the screen has a composition.
Composed(t, run) ==
  /\ run => t.pic # 0
  /\ t.pic # 0 => t.text # 0

\* The picture in the draft is the one on the screen, unless that is marked as changed.
Saved(t, mark, run, d, fate) ==
  /\ ~mark /\ t.pic # 0 => d.pic \in {0, t.pic}
  /\ fate = "saved" => d.pic # 0 /\ d.text # 0
  /\ ~run /\ fate = "saved" => d = t

IInv ==
  /\ Types /\ Counts
  /\ Composed(tx, due)
  /\ Saved(tx, dirty, due, draft, safe)
  /\ TemplatesAreKept

----------------------------------------------------------------------------
(***************************************************************************)
(* What a write or a removal leaves on the disk.                           *)
(***************************************************************************)
LEMMA SamePicture ==
  ASSUME NEW c \in Contents
  PROVE  c = [c EXCEPT !.pic = c.pic]
BY DEF Contents

LEMMA WrittenIsContents ==
  ASSUME NEW old \in Contents, NEW new \in Contents, NEW w \in Written(old, new)
  PROVE  /\ w.to \in Contents /\ w.bad \in BOOLEAN
         /\ ~w.bad => w.to = new
         /\ w.to.pic \in {old.pic, new.pic}
         /\ old = new => w.to = old
<1> DEFINE mixed == [old EXCEPT !.pic = new.pic]
<1>1. mixed \in Contents /\ mixed.pic = new.pic /\ (old = new => mixed = old)
  BY DEF Contents
<1>2. \/ w = [to |-> new, bad |-> FALSE]
      \/ w = [to |-> old, bad |-> TRUE]
      \/ w = [to |-> mixed, bad |-> TRUE]
  BY DEF Written
<1> HIDE DEF mixed
<1>3. CASE w = [to |-> new, bad |-> FALSE]
  BY <1>3
<1>4. CASE w = [to |-> old, bad |-> TRUE]
  BY <1>4
<1>5. CASE w = [to |-> mixed, bad |-> TRUE]
  BY <1>1, <1>5
<1> QED
  BY <1>2, <1>3, <1>4, <1>5

LEMMA NothingIsContents == Nothing \in Contents /\ Nothing.pic = 0 /\ Nothing.text = 0
BY DEF Nothing, Contents

LEMMA ErasedIsContents ==
  ASSUME NEW old \in Contents, NEW e \in Erased(old)
  PROVE  e.to \in Contents /\ e.bad \in BOOLEAN
<1>1. \/ e = [to |-> Nothing, bad |-> FALSE]
      \/ e = [to |-> Nothing, bad |-> TRUE]
      \/ e = [to |-> old, bad |-> TRUE]
  BY DEF Erased
<1>2. e.to \in {Nothing, old} /\ e.bad \in BOOLEAN
  <2>1. CASE e = [to |-> Nothing, bad |-> FALSE]
    BY <2>1
  <2>2. CASE e = [to |-> Nothing, bad |-> TRUE]
    BY <2>2
  <2>3. CASE e = [to |-> old, bad |-> TRUE]
    BY <2>3
  <2> QED
    BY <1>1, <2>1, <2>2, <2>3
<1> QED
  BY <1>2, NothingIsContents

LEMMA FailsCounts ==
  ASSUME failures \in 0 .. Failures, NEW bad \in BOOLEAN, Fails(bad)
  PROVE  failures' \in 0 .. Failures
BY Bounds DEF Fails

(***************************************************************************)
(* A template that is written or erased in one directory leaves the others *)
(* where they are.                                                         *)
(***************************************************************************)
LEMMA OthersStay ==
  ASSUME NEW f \in [Dirs -> Contents], NEW k \in SUBSET Contents, NEW d \in Dirs, NEW c \in Contents,
         \A x \in k : \E y \in DOMAIN f : f[y] = x
  PROVE  \A x \in k \ {f[d]} : \E y \in DOMAIN [f EXCEPT ![d] = c] : [f EXCEPT ![d] = c][y] = x
OBVIOUS

----------------------------------------------------------------------------
LEMMA InitIInv == Init => IInv
<1> SUFFICES ASSUME Init PROVE IInv
  OBVIOUS
<1>1. Types
  BY NothingIsContents DEF Init, Types, Dirs
<1>2. Counts /\ TemplatesAreKept
  BY Bounds DEF Init, Counts, TemplatesAreKept, There
<1>3. Composed(tx, due) /\ Saved(tx, dirty, due, draft, safe)
  BY NothingIsContents DEF Init, Composed, Saved
<1> QED
  BY <1>1, <1>2, <1>3 DEF IInv

LEMMA ComposesKeeps ==
  ASSUME IInv, NEW new \in Contents, new.pic # 0, new.text # 0, NEW changed \in BOOLEAN,
         Composes(new, changed), changed \/ new.pic = tx.pic,
         UNCHANGED <<draft, safe, templates, failures, deaths>>
  PROVE  IInv'
<1>1. Types'
  BY DEF IInv, Types, Composes, templates
<1>2. Counts'
  BY DEF IInv, Counts
<1>3. Composed(tx', due')
  BY DEF Composed, Composes
<1>4. Saved(tx', dirty', due', draft', safe')
  BY DEF IInv, Types, Saved, Composes
<1>5. TemplatesAreKept'
  BY DEF IInv, TemplatesAreKept, There, templates
<1> QED
  BY <1>1, <1>2, <1>3, <1>4, <1>5 DEF IInv

LEMMA StoreKeeps ==
  ASSUME IInv, Types', Counts', TemplatesAreKept', UNCHANGED <<tx, dirty, due, draft, safe>>
  PROVE  IInv'
BY DEF IInv, Composed, Saved

LEMMA SaveDraftKeeps == IInv /\ SaveDraft => IInv'
<1> SUFFICES ASSUME IInv, SaveDraft PROVE IInv'
  OBVIOUS
<1> DEFINE new == IF dirty \/ draft.pic = 0 THEN tx ELSE [tx EXCEPT !.pic = draft.pic]
<1>1. PICK w \in Written(draft, new) :
        /\ draft' = w.to /\ Fails(w.bad) /\ dirty' = (dirty /\ w.bad)
        /\ safe' = IF w.bad THEN "warned" ELSE "saved"
  BY DEF SaveDraft
<1>2. tx.pic # 0 /\ tx.text # 0
  BY DEF SaveDraft, IInv, Composed
<1>3. new = tx
  <2>1. CASE dirty \/ draft.pic = 0
    BY <2>1
  <2>2. CASE ~dirty /\ draft.pic # 0
    <3>1. draft.pic = tx.pic
      BY <1>2, <2>2 DEF IInv, Saved
    <3>2. tx \in Contents
      BY DEF IInv, Types
    <3> QED
      BY <2>2, <3>1, <3>2, SamePicture DEF Contents
  <2> QED
    BY <2>1, <2>2 DEF IInv, Types
<1>4. /\ w.to \in Contents /\ w.bad \in BOOLEAN
      /\ ~w.bad => w.to = tx
      /\ w.to.pic \in {draft.pic, tx.pic}
  BY <1>1, <1>3, WrittenIsContents DEF IInv, Types
<1> HIDE DEF new
<1>5. Types'
  BY <1>1, <1>4 DEF IInv, Types, SaveDraft, templates
<1>6. Counts'
  BY <1>1, <1>4, FailsCounts DEF IInv, Counts, SaveDraft
<1>7. Composed(tx', due')
  BY <1>2 DEF Composed, SaveDraft
<1>8. Saved(tx', dirty', due', draft', safe')
  BY <1>1, <1>2, <1>4 DEF IInv, Types, Saved, SaveDraft
<1>9. TemplatesAreKept'
  BY DEF IInv, TemplatesAreKept, There, SaveDraft, templates
<1> QED
  BY <1>5, <1>6, <1>7, <1>8, <1>9 DEF IInv

LEMMA ClearDraftKeeps == IInv /\ ClearDraft => IInv'
<1> SUFFICES ASSUME IInv, ClearDraft PROVE IInv'
  OBVIOUS
<1>1. PICK e \in Erased(draft) : draft' = e.to /\ Fails(e.bad)
  BY DEF ClearDraft
<1>2. e.to \in Contents /\ e.bad \in BOOLEAN
  BY ErasedIsContents DEF IInv, Types
<1>3. Types'
  BY <1>1, <1>2 DEF IInv, Types, ClearDraft, templates
<1>4. Counts'
  BY <1>1, <1>2, FailsCounts DEF IInv, Counts, ClearDraft
<1>5. Composed(tx', due') /\ Saved(tx', dirty', due', draft', safe')
  BY DEF IInv, Composed, Saved, ClearDraft
<1>6. TemplatesAreKept'
  BY DEF IInv, TemplatesAreKept, There, ClearDraft, templates
<1> QED
  BY <1>3, <1>4, <1>5, <1>6 DEF IInv

\* A draft that was saved is whole, so that its restoration shows just it.
LEMMA DieKeeps == IInv /\ Die => IInv'
<1> SUFFICES ASSUME IInv, Die PROVE IInv'
  OBVIOUS
<1>1. Types'
  BY DEF IInv, Types, Die, templates, Contents, Nothing
<1>2. Counts'
  BY Bounds DEF IInv, Counts, Die
<1>3. Composed(tx', due')
  BY DEF Composed, Die, Nothing
<1>4. Saved(tx', dirty', due', draft', safe')
  BY DEF IInv, Saved, Die, Nothing
<1>5. TemplatesAreKept'
  BY DEF IInv, TemplatesAreKept, There, Die, templates
<1> QED
  BY <1>1, <1>2, <1>3, <1>4, <1>5 DEF IInv

----------------------------------------------------------------------------
LEMMA SaveTemplateKeeps == ASSUME NEW n \in Names PROVE IInv /\ SaveImageTemplate(n) => IInv'
<1> SUFFICES ASSUME IInv, SaveImageTemplate(n) PROVE IInv'
  OBVIOUS
<1> DEFINE d == Target(n)
<1>1. PICK w \in Written(store[d], tx) :
        /\ store' = [store EXCEPT ![d] = w.to] /\ Fails(w.bad)
        /\ kept' = (kept \ {store[d]}) \cup (IF w.bad THEN {} ELSE {tx})
  BY DEF SaveImageTemplate
<1>2. d \in Dirs /\ store[d] \in Contents /\ tx \in Contents
  BY DEF IInv, Types, Dirs
<1>3. w.to \in Contents /\ w.bad \in BOOLEAN /\ (~w.bad => w.to = tx)
  BY <1>2, WrittenIsContents
<1> HIDE DEF d
<1>4. Types'
  BY <1>1, <1>2, <1>3 DEF IInv, Types, SaveImageTemplate
<1>5. Counts'
  BY <1>1, <1>3, FailsCounts DEF IInv, Counts, SaveImageTemplate
<1>6. TemplatesAreKept'
  <2>1. \A x \in kept \ {store[d]} : \E y \in DOMAIN store' : store'[y] = x
    BY <1>1, <1>2, <1>3, OthersStay DEF IInv, Types, TemplatesAreKept, There
  <2>2. ~w.bad => d \in DOMAIN store' /\ store'[d] = tx
    BY <1>1, <1>2, <1>3 DEF IInv, Types
  <2> QED
    BY <1>1, <2>1, <2>2 DEF TemplatesAreKept, There
<1> QED
  BY <1>4, <1>5, <1>6, StoreKeeps DEF SaveImageTemplate

\* What the gallery lists is in a directory that a name is saved to.
LEMMA ListedIsStored == ASSUME NEW n \in Listed PROVE Directory(n) \in Dirs
BY DEF Listed, Dirs, Target

LEMMA RemoveTemplateKeeps == ASSUME NEW n \in Listed PROVE IInv /\ RemoveImageTemplate(n) => IInv'
<1> SUFFICES ASSUME IInv, RemoveImageTemplate(n) PROVE IInv'
  OBVIOUS
<1> DEFINE d == Directory(n)
<1>1. PICK e \in Erased(store[d]) : store' = [store EXCEPT ![d] = e.to] /\ Fails(e.bad)
  BY DEF RemoveImageTemplate
<1>2. d \in Dirs /\ store[d] \in Contents
  BY ListedIsStored DEF IInv, Types
<1>3. e.to \in Contents /\ e.bad \in BOOLEAN
  BY <1>2, ErasedIsContents
<1>4. kept' = kept \ {store[d]}
  BY DEF RemoveImageTemplate
<1> HIDE DEF d
<1>5. Types'
  BY <1>1, <1>2, <1>3, <1>4 DEF IInv, Types, RemoveImageTemplate
<1>6. Counts'
  BY <1>1, <1>3, FailsCounts DEF IInv, Counts, RemoveImageTemplate
<1>7. TemplatesAreKept'
  BY <1>1, <1>2, <1>3, <1>4, OthersStay DEF IInv, Types, TemplatesAreKept, There
<1> QED
  BY <1>5, <1>6, <1>7, StoreKeeps DEF RemoveImageTemplate

(***************************************************************************)
(* A renamed template is in its old directory until it is whole in the new *)
(* one.  Within one directory it is written over itself, and then, unless  *)
(* the names are the same, removed.                                        *)
(***************************************************************************)
LEMMA RenamedStays ==
  ASSUME NEW old \in Listed, NEW new \in Names PROVE IInv /\ Rename(old, new) => IInv'
<1> SUFFICES ASSUME IInv, Rename(old, new) PROVE IInv'
  OBVIOUS
<1> DEFINE a == Directory(old)
           b == Target(new)
<1>1. PICK w \in Written(store[b], store[a]) :
        LET written == [store EXCEPT ![b] = w.to]
            stays == w.bad \/ Folded(old) = Folded(new)
        IN \E e \in Erased(written[a]) :
             /\ store' = IF stays THEN written ELSE [written EXCEPT ![a] = e.to]
             /\ Fails(w.bad \/ (e.bad /\ ~stays))
             /\ kept' = IF b # a THEN (kept \ {store[b]}) \cup ({store[a]} \cap kept)
                        ELSE IF stays THEN kept ELSE kept \ {store[a]}
  BY DEF Rename
<1>2. a \in Dirs /\ b \in Dirs /\ store[a] \in Contents /\ store[b] \in Contents
  BY ListedIsStored DEF IInv, Types, Dirs
<1>3. /\ w.to \in Contents /\ w.bad \in BOOLEAN /\ (~w.bad => w.to = store[a])
      /\ a = b => w.to = store[a]
  BY <1>2, WrittenIsContents
<1> HIDE DEF a, b
<1> DEFINE written == [store EXCEPT ![b] = w.to]
           stays == w.bad \/ Folded(old) = Folded(new)
<1>4. PICK e \in Erased(written[a]) :
        /\ store' = IF stays THEN written ELSE [written EXCEPT ![a] = e.to]
        /\ Fails(w.bad \/ (e.bad /\ ~stays))
        /\ kept' = IF b # a THEN (kept \ {store[b]}) \cup ({store[a]} \cap kept)
                   ELSE IF stays THEN kept ELSE kept \ {store[a]}
  BY <1>1
<1>5. written \in [Dirs -> Contents]
  BY <1>2, <1>3 DEF IInv, Types
<1>6. e.to \in Contents /\ e.bad \in BOOLEAN
  BY <1>2, <1>5, ErasedIsContents
<1>7. stays \in BOOLEAN
  BY <1>3
<1> HIDE DEF stays
<1>8. Types'
  <2>1. store' \in [Dirs -> Contents]
    BY <1>2, <1>4, <1>5, <1>6
  <2>2. kept' \subseteq Contents
    BY <1>4, <1>2 DEF IInv, Types
  <2> QED
    BY <2>1, <2>2 DEF IInv, Types, Rename
<1>9. Counts'
  BY <1>3, <1>4, <1>6, <1>7, FailsCounts DEF IInv, Counts, Rename
<1>10. TemplatesAreKept'
  <2>1. CASE a = b /\ stays
    <3>1. store' = store /\ kept' = kept
      BY <1>2, <1>3, <1>4, <2>1 DEF IInv, Types
    <3> QED
      BY <3>1 DEF IInv, TemplatesAreKept, There
  <2>2. CASE a = b /\ ~stays
    <3> SUFFICES ASSUME NEW c \in kept' PROVE \E y \in DOMAIN store' : store'[y] = c
      BY DEF TemplatesAreKept, There
    <3>1. c \in kept /\ c # store[a]
      BY <1>4, <2>2
    <3>2. PICK y \in Dirs : store[y] = c
      BY <3>1 DEF IInv, Types, TemplatesAreKept, There
    <3> QED
      BY <1>2, <1>4, <2>2, <3>1, <3>2 DEF IInv, Types
  <2>3. CASE a # b
    <3> SUFFICES ASSUME NEW c \in kept' PROVE \E y \in DOMAIN store' : store'[y] = c
      BY DEF TemplatesAreKept, There
    <3>1. DOMAIN store' = Dirs
      BY <1>8 DEF Types
    <3>2. CASE c = store[a]
      <4>1. CASE stays
        BY <1>2, <1>3, <1>4, <2>3, <3>1, <3>2, <4>1 DEF IInv, Types
      <4>2. CASE ~stays
        <5>1. w.to = store[a]
          BY <1>3, <4>2 DEF stays
        <5> QED
          BY <1>2, <1>3, <1>4, <1>5, <2>3, <3>1, <3>2, <4>2, <5>1 DEF IInv, Types
      <4> QED
        BY <4>1, <4>2
    <3>3. CASE c # store[a]
      <4>1. c \in kept /\ c # store[b]
        BY <1>4, <2>3, <3>3
      <4>2. PICK y \in Dirs : store[y] = c
        BY <4>1 DEF IInv, Types, TemplatesAreKept, There
      <4>3. y # a /\ y # b
        BY <3>3, <4>1, <4>2
      <4> QED
        BY <1>2, <1>4, <3>1, <4>2, <4>3 DEF IInv, Types
    <3> QED
      BY <3>2, <3>3
  <2> QED
    BY <2>1, <2>2, <2>3
<1> QED
  BY <1>8, <1>9, <1>10, StoreKeeps DEF Rename

----------------------------------------------------------------------------
LEMMA Inductive == IInv /\ [Next]_vars => IInv'
<1> SUFFICES ASSUME IInv, [Next]_vars PROVE IInv'
  OBVIOUS
<1>1. ASSUME NEW p \in Pictures, ImportImage(p) PROVE IInv'
  <2> DEFINE new == [pic |-> p, text |-> Empty]
  <2>1. new \in Contents /\ new.pic # 0 /\ new.text # 0
    BY NoneIsApart DEF Contents, Empty
  <2> QED
    BY <1>1, <2>1, ComposesKeeps DEF ImportImage
<1>2. ASSUME NEW p \in Pictures, RotateSource(p) PROVE IInv'
  <2> DEFINE new == [tx EXCEPT !.pic = p]
  <2>1. new \in Contents /\ new.pic # 0 /\ new.text # 0
    BY <1>2, NoneIsApart DEF RotateSource, IInv, Types, Composed, Contents
  <2> QED
    BY <1>2, <2>1, ComposesKeeps DEF RotateSource
<1>3. ASSUME NEW t \in Texts, Edit(t) PROVE IInv'
  <2> DEFINE new == [tx EXCEPT !.text = t]
  <2>1. new \in Contents /\ new.pic = tx.pic /\ new.pic # 0 /\ new.text # 0
    BY <1>3, NoneIsApart DEF Edit, IInv, Types, Contents
  <2> QED
    BY <1>3, <2>1, ComposesKeeps DEF Edit
<1>4. ASSUME NEW n \in Listed, LoadImageTemplate(n) PROVE IInv'
  <2>1. store[Directory(n)] \in Contents
    BY ListedIsStored DEF IInv, Types
  <2> QED
    BY <1>4, <2>1, ComposesKeeps DEF LoadImageTemplate, Loads
<1>5. CASE UNCHANGED vars
  BY <1>5 DEF vars, templates, IInv, Types, Counts, Composed, Saved, TemplatesAreKept, There
<1> QED
  BY <1>1, <1>2, <1>3, <1>4, <1>5, SaveDraftKeeps, ClearDraftKeeps, DieKeeps,
     SaveTemplateKeeps, RemoveTemplateKeeps, RenamedStays DEF Next

\* The invariant holds in every behaviour: the draft, the screen and the templates
\* agree, through every crash and failed write.
THEOREM Invariant == Spec => []IInv
<1>1. Init => IInv
  BY InitIInv
<1>2. IInv /\ [Next]_vars => IInv'
  BY Inductive
<1> QED
  BY <1>1, <1>2, PTL DEF Spec

(***************************************************************************)
(* Screen, draft and templates hold pictures and compositions only.        *)
(***************************************************************************)
THEOREM TypeCorrect == Spec => []TypeOK
<1>1. IInv => TypeOK
  BY DEF IInv, Types, Counts, TypeOK
<1> QED
  BY <1>1, Invariant, PTL

(***************************************************************************)
(* When no save is due and the last one did not fail, a restart would show *)
(* what the screen shows, whatever failed and died before.                 *)
(***************************************************************************)
THEOREM RestoresScreen == Spec => []DraftIsScreen
<1>1. IInv => DraftIsScreen
  BY DEF IInv, Saved, DraftIsScreen
<1> QED
  BY <1>1, Invariant, PTL

(***************************************************************************)
(* No failure while an image template is stored or renamed loses one that  *)
(* the operator has not given up.                                          *)
(***************************************************************************)
THEOREM KeepsTemplates == Spec => []TemplatesAreKept
<1>1. IInv => TemplatesAreKept
  BY DEF IInv
<1> QED
  BY <1>1, Invariant, PTL

----------------------------------------------------------------------------
(***************************************************************************)
(* The same of the behaviours that the run "records" checks, those of      *)
(* several parts: a step of another part is a step of no composition.      *)
(***************************************************************************)
OfDraft == part = "draft" => IInv

\* Only the composition's own steps are taken while the part is the composition.
LEMMA StepIsOfDraft == part = "draft" /\ [AllNext]_all => [Next]_vars /\ part' = part
<1> SUFFICES ASSUME part = "draft", [AllNext]_all PROVE [Next]_vars /\ part' = part
  OBVIOUS
<1>1. CASE UNCHANGED all
  BY <1>1 DEF all
<1>2. ~Contacts /\ ~Reception /\ ~Gallery
  BY DEF Contacts, Reception, Gallery
<1>3. CASE AllNext
  BY <1>2, <1>3 DEF AllNext, Next, Draft
<1> QED
  BY <1>1, <1>3

LEMMA DraftSteps == OfDraft /\ [AllNext]_all => OfDraft'
<1> SUFFICES ASSUME OfDraft, [AllNext]_all, part' = "draft" PROVE IInv'
  BY DEF OfDraft
<1>1. part = "draft"
  BY DEF AllNext, Draft, Contacts, Reception, Gallery, all
<1> QED
  BY <1>1, StepIsOfDraft, Inductive DEF OfDraft

(***************************************************************************)
(* What is composed can be restored, and the image templates are there,    *)
(* in every behaviour of the records.                                      *)
(***************************************************************************)
THEOREM KeepsWork == AllSpec => []WorkIsKept
<1>1. AllInit => OfDraft
  BY InitIInv DEF AllInit, OfDraft
<1>2. OfDraft => WorkIsKept
  BY DEF OfDraft, WorkIsKept, IInv, Saved, DraftIsScreen
<1> QED
  BY <1>1, <1>2, DraftSteps, PTL DEF AllSpec

----------------------------------------------------------------------------
(***************************************************************************)
(* The search for a header: what it has recognised stays within its times. *)
(***************************************************************************)
Heads ==
  [first : BOOLEAN, brk : BOOLEAN, left : 0 .. D!Sequence, offset : BOOLEAN, ignore : BOOLEAN,
   vis : {"none", "full", "recovery"}, wait : 0 .. D!Word, tone : D!Tones, len : Nat]

Search == tx \in Heads /\ (tx.vis # "none" => tx.wait < D!Word) /\ failures \in 0 .. HardLimit - 1

(***************************************************************************)
(* A picture: half a line is its position, at which no deadline has been   *)
(* passed; its lines are counted from a first pulse.                       *)
(***************************************************************************)
Receptions ==
  [kind : {"full", "recovery"}, scottie : BOOLEAN, at : Nat, first : -1 .. 9,
   syncs : 0 .. Rows + 4, line : 0 .. Rows + 3, mark : -1 .. 9, pulses : 0 .. 3,
   confirmed : BOOLEAN, announced : BOOLEAN, rows : 0 .. Rows]

Enough(p) == IF D!Recovery(p) THEN 3 ELSE 2

\* Counted from what it has heard; in time.
Counted(p) == p.first <= p.at /\ p.syncs <= p.line + 1 /\ (p.mark >= 0 => p.first >= 0)
InTime(p) == ~p.confirmed => p.at < D!Deadline(p) /\ p.pulses < Enough(p)
Believed(p) == p.confirmed => p.announced /\ p.first >= 0
Begun(p) ==
  /\ Counted(p) /\ InTime(p) /\ Believed(p)
  /\ p.at <= 2 * Rows + 9 /\ p.rows < Rows
  /\ p.announced => p.rows = D!Available(p)

Behind ==
  /\ store \in [at : {"off", "tones", "header", "text", "sum"}, cw : BOOLEAN]
  /\ store.at # "off" => kept = "picture"
  /\ safe \in {"none", "mode", "rows", "done", "lost", "call"}
  /\ kept \in {"picture", "header", "reset"}

Picture == draft # D!NoPicture => draft \in Receptions /\ Begun(draft)

RInv == Search /\ Picture /\ Behind

----------------------------------------------------------------------------
(***************************************************************************)
(* The search.                                                             *)
(***************************************************************************)
LEMMA NoHeadIsHead == D!NoHead \in Heads /\ D!NoHead.vis = "none"
BY DEF D!NoHead, Heads, D!Sequence, D!Word, D!Tones

\* A field that is set to what it may be.
LEMMA HeadFields ==
  ASSUME NEW h \in Heads
  PROVE  /\ \A b \in BOOLEAN : /\ [h EXCEPT !.first = b] \in Heads /\ [h EXCEPT !.brk = b] \in Heads
                               /\ [h EXCEPT !.offset = b] \in Heads /\ [h EXCEPT !.ignore = b] \in Heads
         /\ \A n \in 0 .. D!Sequence : [h EXCEPT !.left = n] \in Heads
         /\ \A n \in 0 .. D!Word : [h EXCEPT !.wait = n] \in Heads
         /\ \A v \in {"none", "full", "recovery"} : [h EXCEPT !.vis = v] \in Heads
         /\ \A t \in D!Tones : [h EXCEPT !.tone = t] \in Heads
         /\ \A n \in Nat : [h EXCEPT !.len = n] \in Heads
BY DEF Heads

LEMMA Times == 0 \in 0 .. D!Sequence /\ D!Sequence \in 0 .. D!Sequence /\ 0 \in 0 .. D!Word
               /\ 2 \in 0 .. D!Word /\ 0 \in Nat /\ "noise" \in D!Tones
BY DEF D!Sequence, D!Word, D!Tones

LEMMA GiveUpIsHead ==
  ASSUME NEW h \in Heads
  PROVE  /\ D!GiveUp(h) \in Heads /\ D!GiveUp(h).vis = "none"
         /\ D!Ignoring(h) \in Heads /\ D!Ignoring(h).vis = "none"
<1> DEFINE g == [h EXCEPT !.first = FALSE, !.brk = FALSE, !.left = 0, !.offset = FALSE, !.vis = "none"]
<1>1. [h EXCEPT !.first = FALSE, !.brk = FALSE] \in Heads
  BY HeadFields
<1>2. [h EXCEPT !.first = FALSE, !.brk = FALSE, !.left = 0] \in Heads
  BY <1>1, Times, HeadFields
<1>3. g \in Heads /\ g.vis = "none"
  <2>1. [h EXCEPT !.first = FALSE, !.brk = FALSE, !.left = 0, !.offset = FALSE] \in Heads
    BY <1>2, HeadFields
  <2>2. g \in Heads
    BY <2>1, HeadFields
  <2> QED
    BY <2>1, <2>2 DEF Heads
<1> HIDE DEF g
<1>4. [g EXCEPT !.wait = 0] \in Heads /\ [g EXCEPT !.wait = 0].vis = "none"
  BY <1>3, Times, HeadFields DEF Heads
<1>5. D!GiveUp(h) = [g EXCEPT !.wait = 0]
  BY DEF D!GiveUp, g
<1>6. D!GiveUp(h) \in Heads /\ D!GiveUp(h).vis = "none"
  BY <1>4, <1>5
<1>7. [D!GiveUp(h) EXCEPT !.ignore = TRUE, !.tone = "noise"] \in Heads
  <2>1. [D!GiveUp(h) EXCEPT !.ignore = TRUE] \in Heads
    BY <1>6, HeadFields
  <2> QED
    BY <2>1, Times, HeadFields
<1>8. D!Ignoring(h) \in Heads
  BY <1>7, Times, HeadFields DEF D!Ignoring
<1>9. D!Ignoring(h).vis = "none"
  BY <1>6 DEF D!Ignoring, Heads
<1> QED
  BY <1>6, <1>8, <1>9

LEMMA LeaderIsHead ==
  ASSUME NEW h \in Heads, NEW hidden \in BOOLEAN
  PROVE  D!Leader(h, hidden) \in Heads
<1>1. [h EXCEPT !.first = TRUE, !.brk = TRUE, !.left = 0, !.vis = "full", !.wait = 0] \in Heads
  <2>1. [h EXCEPT !.first = TRUE, !.brk = TRUE] \in Heads
    BY HeadFields
  <2>2. [h EXCEPT !.first = TRUE, !.brk = TRUE, !.left = 0] \in Heads
    BY <2>1, Times, HeadFields
  <2>3. [h EXCEPT !.first = TRUE, !.brk = TRUE, !.left = 0, !.vis = "full"] \in Heads
    BY <2>2, HeadFields
  <2> QED
    BY <2>3, Times, HeadFields
<1>2. [h EXCEPT !.first = TRUE, !.left = D!Sequence, !.offset = TRUE] \in Heads
  <2>1. [h EXCEPT !.first = TRUE, !.left = D!Sequence] \in Heads
    BY Times, HeadFields
  <2> QED
    BY <2>1, HeadFields
<1>3. [h EXCEPT !.offset = FALSE] \in Heads
  BY HeadFields
<1>4. [h EXCEPT !.vis = "full", !.wait = 0, !.left = 0] \in Heads
  <2>1. [h EXCEPT !.vis = "full", !.wait = 0] \in Heads
    BY Times, HeadFields
  <2> QED
    BY <2>1, Times, HeadFields
<1> QED
  BY <1>1, <1>2, <1>3, <1>4 DEF D!Leader

LEMMA HearsIsHead ==
  ASSUME NEW h \in Heads, NEW tone \in D!Tones, NEW edge \in D!Edges, NEW hidden \in BOOLEAN
  PROVE  D!Hears(h, tone, edge, hidden) \in Heads
<1> DEFINE deaf == h.ignore /\ tone = "leader" /\ edge = "none"
           now == IF deaf THEN "noise" ELSE tone
           ends == edge # "none" \/ now # h.tone
           done == IF ends THEN D!RunEnds(h, hidden) ELSE h
           cut == IF edge = "break" THEN D!Break(done) ELSE done
<1>1. deaf \in BOOLEAN /\ now \in D!Tones /\ ends \in BOOLEAN
  BY DEF Heads, D!Tones
<1>2. done \in Heads
  BY LeaderIsHead, GiveUpIsHead DEF D!RunEnds
<1>3. cut \in Heads
  <2> HIDE DEF done
  <2> QED
    BY <1>2 DEF D!Break, Heads
<1>4. D!Hears(h, tone, edge, hidden) =
        [cut EXCEPT !.ignore = deaf, !.tone = now,
                    !.len = IF ends THEN 1 ELSE IF @ > LongRun THEN @ ELSE @ + 1,
                    !.offset = @ \/ now = "leader"]
  BY DEF D!Hears
<1> HIDE DEF deaf, now, ends, done, cut
<1>5. (IF ends THEN 1 ELSE IF cut.len > LongRun THEN cut.len ELSE cut.len + 1) \in Nat
  BY <1>3, DecoderBounds DEF Heads
<1>6. (cut.offset \/ now = "leader") \in BOOLEAN
  OBVIOUS
<1> QED
  BY <1>1, <1>3, <1>4, <1>5, <1>6 DEF Heads

LEMMA LaterIsHead ==
  ASSUME NEW h \in Heads, h.vis # "none" => h.wait < D!Word
  PROVE  D!Later(h) \in Heads
BY GiveUpIsHead DEF D!Later, Heads, D!Sequence, D!Word, D!Tones

LEMMA FindsHeads ==
  ASSUME NEW h \in Heads, NEW g \in D!Finds(h)
  PROVE  g \in Heads
<1>1. CASE g = h
  BY <1>1
<1>2. CASE g = [h EXCEPT !.vis = "full", !.wait = 0, !.left = 0]
  <2>1. [h EXCEPT !.vis = "full", !.wait = 0] \in Heads
    BY Times, HeadFields
  <2> QED
    BY <1>2, <2>1, Times, HeadFields
<1>3. ASSUME NEW kind \in {"full", "recovery"},
             g = [h EXCEPT !.vis = kind, !.wait = 2, !.left = 0, !.first = TRUE, !.brk = TRUE, !.offset = TRUE]
      PROVE  g \in Heads
  <2>1. [h EXCEPT !.vis = kind, !.wait = 2] \in Heads
    BY Times, HeadFields
  <2>2. [h EXCEPT !.vis = kind, !.wait = 2, !.left = 0] \in Heads
    BY <2>1, Times, HeadFields
  <2>3. [h EXCEPT !.vis = kind, !.wait = 2, !.left = 0, !.first = TRUE, !.brk = TRUE] \in Heads
    BY <2>2, HeadFields
  <2> QED
    BY <1>3, <2>3, HeadFields
<1> QED
  BY <1>1, <1>2, <1>3 DEF D!Finds

LEMMA RejectsHeads ==
  ASSUME NEW h \in Heads, NEW g \in D!Rejects(h)
  PROVE  g \in Heads /\ (g.vis # "none" => g.wait < D!Word)
<1>1. CASE g = D!Ignoring(h) \/ g = D!GiveUp(h)
  BY <1>1, GiveUpIsHead
<1>2. CASE g = h /\ (h.vis = "none" \/ h.wait < D!Word)
  BY <1>2
<1> QED
  BY <1>1, <1>2 DEF D!Rejects, D!Word, Heads

----------------------------------------------------------------------------
(***************************************************************************)
(* A picture's lines.                                                      *)
(***************************************************************************)
LEMMA CountsPulse ==
  ASSUME NEW p \in Receptions, Counted(p), InTime(p), Believed(p)
  PROVE  LET c == D!Counts(p)
         IN /\ c \in Receptions /\ InTime(c)
            /\ c.confirmed => c.announced
            /\ p.announced => c.announced
            /\ c.kind = p.kind /\ c.scottie = p.scottie /\ c.at = p.at /\ c.first = p.first
            /\ c.line = p.line /\ c.syncs = p.syncs /\ c.rows = p.rows
<1>1. CASE p.confirmed
  BY <1>1 DEF D!Counts, Believed
<1>2. CASE ~p.confirmed
  <2> DEFINE n == IF p.mark >= 0 /\ D!Periodic(p) THEN p.pulses + 1 ELSE 1
             sure == n >= IF D!Recovery(p) THEN 3 ELSE 2
  <2>1. n \in 0 .. 3 /\ (~sure => n < Enough(p))
    BY <1>2 DEF InTime, Enough, Receptions
  <2>2. p.at \in -1 .. 9
    BY <1>2 DEF InTime, D!Deadline, Receptions
  <2>3. D!Counts(p) = [p EXCEPT !.mark = p.at, !.pulses = n, !.confirmed = sure, !.announced = @ \/ sure]
    BY <1>2 DEF D!Counts
  <2>4. sure \in BOOLEAN /\ (p.announced \/ sure) \in BOOLEAN
    BY DEF Receptions
  <2> HIDE DEF n, sure
  <2>5. [p EXCEPT !.mark = p.at, !.pulses = n] \in Receptions
    BY <2>1, <2>2 DEF Receptions
  <2>6. D!Counts(p) \in Receptions
    BY <2>3, <2>4, <2>5 DEF Receptions
  <2> QED
    BY <1>2, <2>1, <2>3, <2>4, <2>6 DEF InTime, Enough, D!Recovery, D!Deadline, Receptions
<1> QED
  BY <1>1, <1>2

LEMMA AnchorsPulse ==
  ASSUME NEW p \in Receptions, p.first <= p.at, p.syncs <= p.line + 1, InTime(p),
         p.confirmed => p.announced, p.first < 0 => p.at \in 0 .. 9
  PROVE  LET c == D!Anchors(p)
         IN /\ c \in Receptions /\ Counted(c) /\ InTime(c) /\ Believed(c)
            /\ c.announced = p.announced /\ c.kind = p.kind /\ c.scottie = p.scottie
            /\ c.at = p.at /\ c.rows = p.rows
<1>1. CASE p.first < 0
  <2>1. D!Anchors(p) = [p EXCEPT !.first = p.at, !.syncs = 1]
    BY <1>1 DEF D!Anchors
  <2>2. p.at \in -1 .. 9 /\ 1 \in 0 .. Rows + 4
    BY <1>1, DecoderBounds DEF Receptions
  <2>3. D!Anchors(p) \in Receptions
    BY <2>1, <2>2 DEF Receptions
  <2> QED
    BY <1>1, <2>1, <2>3 DEF Counted, InTime, Believed, Enough, D!Deadline, D!Recovery, Receptions
<1>2. CASE p.first >= 0 /\ D!OnLine(p)
  <2> DEFINE l == (p.at - p.first) \div 2
  <2>1. D!Anchors(p) = [p EXCEPT !.line = l, !.syncs = @ + 1]
    BY <1>2 DEF D!Anchors, Receptions
  <2>2. l \in p.line + 1 .. Rows + 3
    BY <1>2 DEF D!OnLine
  <2>3. l \in 0 .. Rows + 3 /\ p.syncs + 1 \in 0 .. Rows + 4 /\ p.syncs + 1 <= l + 1
    BY <2>2, DecoderBounds DEF Receptions
  <2> HIDE DEF l
  <2>4. D!Anchors(p) \in Receptions
    BY <2>1, <2>3 DEF Receptions
  <2> QED
    BY <1>2, <2>1, <2>3, <2>4 DEF Counted, InTime, Believed, Enough, D!Deadline, D!Recovery, Receptions
<1>3. CASE p.first >= 0 /\ ~D!OnLine(p)
  BY <1>3 DEF D!Anchors, Counted, Believed, Receptions
<1> QED
  BY <1>1, <1>2, <1>3 DEF Receptions

LEMMA PulseCounts ==
  ASSUME NEW p \in Receptions, Counted(p), InTime(p), Believed(p)
  PROVE  LET c == D!Anchors(D!Counts(p))
         IN /\ c \in Receptions /\ Counted(c) /\ InTime(c) /\ Believed(c)
            /\ p.announced => c.announced
            /\ c.at = p.at /\ c.rows = p.rows
<1> DEFINE c == D!Counts(p)
<1>1. /\ c \in Receptions /\ InTime(c) /\ (c.confirmed => c.announced) /\ (p.announced => c.announced)
      /\ c.at = p.at /\ c.first = p.first /\ c.line = p.line /\ c.syncs = p.syncs /\ c.rows = p.rows
  BY CountsPulse
<1>2. c.first <= c.at /\ c.syncs <= c.line + 1
  BY <1>1 DEF Counted
<1>3. c.first < 0 => c.at \in 0 .. 9
  BY <1>1 DEF InTime, Believed, D!Deadline, Receptions
<1> HIDE DEF c
<1>4. LET d == D!Anchors(c)
      IN /\ d \in Receptions /\ Counted(d) /\ InTime(d) /\ Believed(d)
         /\ d.announced = c.announced /\ d.at = c.at /\ d.rows = c.rows
  BY <1>1, <1>2, <1>3, AnchorsPulse
<1> QED
  BY <1>1, <1>4 DEF c

LEMMA AvailableRows ==
  ASSUME NEW p \in Receptions, p.first <= p.at
  PROVE  /\ D!Available(p) \in 0 .. Rows
         /\ p.at < 10 => D!Available(p) < Rows
         /\ D!Available(p) < Rows => p.at <= 2 * Rows + 9 \/ p.first < 0
BY DecoderBounds DEF D!Available, Receptions

LEMMA RenderedRows ==
  ASSUME NEW p \in Receptions, Counted(p), InTime(p), Believed(p)
  PROVE  LET r == D!Rendered(p)
         IN /\ r \in Receptions /\ Counted(r) /\ InTime(r) /\ Believed(r)
            /\ r.announced = p.announced /\ r.confirmed = p.confirmed
            /\ r.at = p.at /\ r.first = p.first
            /\ r.rows = D!Available(p) /\ r.rows = D!Available(r)
<1>1. D!Rendered(p) = [p EXCEPT !.rows = D!Available(p)]
  BY DEF D!Rendered
<1>2. D!Available(p) \in 0 .. Rows
  BY AvailableRows DEF Counted
<1> DEFINE n == D!Available(p)
<1>3. [p EXCEPT !.rows = n] \in Receptions
  <2> HIDE DEF n
  <2> QED
    BY <1>2 DEF Receptions, n
<1>4. D!Available([p EXCEPT !.rows = n]) = D!Available(p)
  <2>1. /\ [p EXCEPT !.rows = n].at = p.at /\ [p EXCEPT !.rows = n].first = p.first
        /\ [p EXCEPT !.rows = n].scottie = p.scottie
    BY DEF Receptions
  <2> HIDE DEF n
  <2> QED
    BY <2>1 DEF D!Available
<1> HIDE DEF n
<1> QED
  BY <1>1, <1>3, <1>4 DEF n, Counted, InTime, Believed, Enough, D!Deadline, D!Recovery, Receptions

----------------------------------------------------------------------------
(***************************************************************************)
(* The decoder's steps, and what they say of the properties.               *)
(***************************************************************************)
Says == D!PictureIsConfirmed /\ D!CallIsOfLast

LEMMA ResetIsSearch == D!ResetDsp => Search' /\ Picture' /\ draft' = D!NoPicture
BY NoHeadIsHead, DecoderBounds DEF D!ResetDsp, Search, Picture

LEMMA BeginsReceived == D!Init /\ dirty = FALSE => RInv
BY NoHeadIsHead, DecoderBounds DEF D!Init, D!NoTail, RInv, Search, Picture, Behind

LEMMA LineKeeps ==
  ASSUME NEW pulse \in BOOLEAN, NEW slants \in BOOLEAN
  PROVE  RInv /\ D!Line(pulse, slants) => RInv' /\ Says
<1> SUFFICES ASSUME RInv, D!Line(pulse, slants) PROVE RInv' /\ Says
  OBVIOUS
<1> DEFINE p == [draft EXCEPT !.at = @ + 1]
           q == IF pulse THEN D!Anchors(D!Counts(p)) ELSE p
           forced == pulse /\ slants /\ D!Slants(p, q)
           r == IF forced \/ q.announced THEN D!Rendered(q) ELSE q
           lost == ~p.confirmed /\ p.at >= D!Deadline(p)
<1>1. draft # D!NoPicture /\ draft \in Receptions /\ Begun(draft)
  BY DEF D!Line, RInv, Picture
<1>2. p \in Receptions /\ Counted(p) /\ Believed(p) /\ p.at = draft.at + 1 /\ p.rows = draft.rows
      /\ p.confirmed = draft.confirmed /\ p.announced = draft.announced /\ p.pulses = draft.pulses
      /\ p.kind = draft.kind
  <2>1. draft.at + 1 \in Nat
    BY <1>1 DEF Receptions
  <2>2. p \in Receptions
    BY <1>1, <2>1 DEF Receptions
  <2> QED
    BY <1>1, <2>2 DEF Begun, Counted, Believed, Receptions
<1>3. CASE lost
  <2>1. D!ResetDsp /\ safe' = "lost" /\ UNCHANGED <<store, kept>>
    BY <1>3 DEF D!Line
  <2> HIDE DEF p, lost
  <2> QED
    BY <2>1, ResetIsSearch DEF RInv, Behind, Says, D!PictureIsConfirmed, D!CallIsOfLast
<1>4. ASSUME ~lost PROVE /\ InTime(p)
                         /\ q \in Receptions /\ Counted(q) /\ InTime(q) /\ Believed(q)
                         /\ p.announced => q.announced
                         /\ q.at = p.at /\ q.rows = p.rows
  <2>1. InTime(p)
    BY <1>1, <1>2, <1>4 DEF Begun, InTime, Enough, D!Deadline, D!Recovery, Receptions
  <2> HIDE DEF p
  <2>2. CASE pulse
    BY <1>2, <2>1, <2>2, PulseCounts
  <2>3. CASE ~pulse
    BY <1>2, <2>1, <2>3
  <2> QED
    BY <2>1, <2>2, <2>3
<1>5. ASSUME ~lost PROVE /\ r \in Receptions /\ Counted(r) /\ InTime(r) /\ Believed(r)
                         /\ r.announced => r.rows = D!Available(r)
                         /\ r.at = p.at
                         /\ r.rows \in {p.rows, D!Available(q)}
  <2> HIDE DEF q, p, lost, forced
  <2>1. CASE forced \/ q.announced
    BY <1>4, <1>5, <2>1, RenderedRows
  <2>2. CASE ~(forced \/ q.announced)
    BY <1>4, <1>5, <2>2
  <2> QED
    BY <2>1, <2>2
<1>6. CASE ~lost /\ r.rows = Rows
  <2>1. D!Complete
    BY <1>6 DEF D!Line
  <2>2. draft.announced /\ draft.confirmed
    <3>1. p.rows < Rows
      BY <1>1, <1>2 DEF Begun
    <3>2. D!Available(q) = Rows
      <4> HIDE DEF r, q, p, lost
      <4> QED
        BY <1>2, <1>5, <1>6, <3>1 DEF Receptions
    <3>3. ~(q.at < 10)
      <4> HIDE DEF q, lost
      <4> QED
        BY <1>4, <1>6, <3>2, AvailableRows, DecoderBounds DEF Counted
    <3>4. p.confirmed
      <4> HIDE DEF q, p, lost
      <4> QED
        BY <1>2, <1>4, <1>6, <3>3 DEF InTime, D!Deadline, Receptions
    <3> QED
      BY <1>1, <1>2, <3>4 DEF Begun, Believed
  <2>3. Behind' /\ safe' = "done"
    BY <2>1 DEF D!Complete, Behind
  <2>4. Search' /\ Picture'
    BY <2>1, ResetIsSearch DEF D!Complete
  <2> QED
    BY <2>2, <2>3, <2>4 DEF RInv, Says, D!PictureIsConfirmed, D!CallIsOfLast
<1>7. CASE ~lost /\ r.rows # Rows
  <2>1. draft' = r /\ safe' \in {"rows", "mode", "none"} /\ UNCHANGED <<tx, failures, store, kept>>
    BY <1>7 DEF D!Line
  <2>2. r.at <= 2 * Rows + 9
    <3> HIDE DEF r, q, p, lost
    <3>1. CASE r.confirmed
      BY <1>5, <1>7, <3>1, AvailableRows, DecoderBounds DEF Believed, Counted, Receptions
    <3>2. CASE ~r.confirmed
      BY <1>5, <1>7, <3>2, DecoderBounds DEF InTime, D!Deadline, Receptions
    <3> QED
      BY <3>1, <3>2
  <2>3. r.rows < Rows
    <3> HIDE DEF r, q, p, lost
    <3> QED
      BY <1>5, <1>7, DecoderBounds DEF Receptions
  <2> HIDE DEF r, q, p, lost
  <2>4. Begun(r)
    BY <1>5, <1>7, <2>2, <2>3 DEF Begun
  <2>5. Picture'
    BY <1>5, <1>7, <2>1, <2>4 DEF Picture
  <2>6. Search' /\ Behind'
    BY <2>1 DEF RInv, Search, Behind
  <2> QED
    BY <2>1, <2>5, <2>6 DEF RInv, Says, D!PictureIsConfirmed, D!CallIsOfLast
<1> QED
  BY <1>3, <1>6, <1>7

LEMMA BeatKeeps ==
  ASSUME NEW tone \in D!Tones, NEW edge \in D!Edges, NEW hidden \in BOOLEAN
  PROVE  RInv /\ D!Beat(tone, edge, hidden) => RInv' /\ Says
<1> SUFFICES ASSUME RInv, D!Beat(tone, edge, hidden) PROVE RInv' /\ Says
  OBVIOUS
<1>1. safe' = "none" /\ UNCHANGED <<store, kept>>
  BY DEF D!Beat
<1>2. Search' /\ Picture'
  <2>1. CASE D!Bounded(tx, failures + 1)
    BY <2>1, ResetIsSearch DEF D!Beat
  <2>2. CASE ~D!Bounded(tx, failures + 1)
    <3>1. failures' = failures + 1 /\ draft' = draft
      BY <2>2 DEF D!Beat
    <3>2. failures' \in 0 .. HardLimit - 1
      BY <2>2, <3>1, DecoderBounds DEF RInv, Search, D!Bounded
    <3>3. D!Hears(D!Later(tx), tone, edge, hidden) \in Heads
      BY LaterIsHead, HearsIsHead DEF RInv, Search
    <3>4. PICK h \in D!Finds(D!Hears(D!Later(tx), tone, edge, hidden)) : tx' \in D!Rejects(h)
      BY <2>2 DEF D!Beat
    <3>5. h \in Heads
      BY <3>3, <3>4, FindsHeads
    <3>6. tx' \in Heads /\ (tx'.vis # "none" => tx'.wait < D!Word)
      BY <3>4, <3>5, RejectsHeads
    <3>7. Picture'
      BY <3>1 DEF RInv, Picture
    <3> QED
      BY <3>2, <3>6, <3>7 DEF Search
  <2> QED
    BY <2>1, <2>2
<1>3. Behind'
  BY <1>1 DEF RInv, Behind
<1> QED
  BY <1>1, <1>2, <1>3 DEF RInv, Says, D!PictureIsConfirmed, D!CallIsOfLast

\* A picture begins with nothing but its header.
LEMMA BeginKeeps ==
  ASSUME NEW scottie \in BOOLEAN
  PROVE  RInv /\ D!Begin(scottie) => RInv' /\ Says
<1> SUFFICES ASSUME RInv, D!Begin(scottie) PROVE RInv' /\ Says
  OBVIOUS
<1> DEFINE p == [kind |-> tx.vis, scottie |-> scottie, at |-> 0, first |-> IF scottie THEN -1 ELSE 0,
                 syncs |-> IF scottie THEN 0 ELSE 1, line |-> 0, mark |-> -1, pulses |-> 0,
                 confirmed |-> FALSE, announced |-> tx.vis = "full", rows |-> 0]
<1>1. draft' = p /\ store' = D!NoTail /\ safe' \in {"mode", "none"} /\ kept' = "header"
      /\ tx' = D!NoHead /\ failures' = 0
  BY DEF D!Begin
<1>2. tx.vis \in {"full", "recovery"}
  BY DEF D!Begin, RInv, Search, Heads
<1>3. p \in Receptions
  BY <1>2, DecoderBounds DEF Receptions
<1>4. Begun(p)
  <2>1. p.at = 0 /\ p.rows = 0 /\ p.mark = -1 /\ p.pulses = 0 /\ ~p.confirmed /\ p.first <= 0
        /\ p.syncs <= 1 /\ p.line = 0 /\ (p.scottie => p.first = -1) /\ (~p.scottie => p.first = 0)
    OBVIOUS
  <2> HIDE DEF p
  <2>2. D!Available(p) = 0
    BY <1>3, <2>1, DecoderBounds DEF D!Available, Receptions
  <2> QED
    BY <1>3, <2>1, <2>2, DecoderBounds
    DEF Begun, Counted, InTime, Believed, Enough, D!Deadline, D!Recovery, Receptions
<1>5. Search' /\ Picture'
  BY <1>1, <1>3, <1>4, NoHeadIsHead, DecoderBounds DEF Search, Picture
<1>6. Behind'
  BY <1>1 DEF Behind, D!NoTail
<1> QED
  BY <1>1, <1>5, <1>6 DEF RInv, Says, D!PictureIsConfirmed, D!CallIsOfLast

\* The search for IDs: none is told but behind the picture they belong to.
LEMMA IdKeeps ==
  ASSUME RInv, UNCHANGED <<tx, failures, draft, kept>>, D!Listens,
         store' \in [at : {"off", "tones", "header", "text", "sum"}, cw : BOOLEAN],
         safe' \in {"call", "none"}
  PROVE  RInv' /\ Says
<1>1. Search' /\ Picture' /\ Behind'
  BY DEF RInv, Search, Picture, Behind, D!Listens
<1> QED
  BY <1>1 DEF RInv, Behind, D!Listens, Says, D!PictureIsConfirmed, D!CallIsOfLast

LEMMA IdsKeep ==
  /\ \A good, ends \in BOOLEAN : RInv /\ D!FskSymbol(good, ends) => RInv' /\ Says
  /\ RInv /\ D!CwId => RInv' /\ Says
  /\ RInv /\ D!IdsEnd => RInv' /\ Says
<1>1. ASSUME NEW good \in BOOLEAN, NEW ends \in BOOLEAN, RInv, D!FskSymbol(good, ends)
      PROVE  RInv' /\ Says
  <2>1. store' \in [at : {"off", "tones", "header", "text", "sum"}, cw : BOOLEAN]
    BY <1>1 DEF D!FskSymbol, RInv, Behind
  <2> QED
    BY <1>1, <2>1, IdKeeps DEF D!FskSymbol, D!Tells
<1>2. ASSUME RInv, D!CwId PROVE RInv' /\ Says
  <2>1. store' \in [at : {"off", "tones", "header", "text", "sum"}, cw : BOOLEAN]
    BY <1>2 DEF D!CwId, RInv, Behind
  <2> QED
    BY <1>2, <2>1, IdKeeps DEF D!CwId, D!Tells
<1>3. ASSUME RInv, D!IdsEnd PROVE RInv' /\ Says
  <2>1. store' \in [at : {"off", "tones", "header", "text", "sum"}, cw : BOOLEAN]
    BY <1>3 DEF D!IdsEnd, RInv, Behind
  <2> QED
    BY <1>3, <2>1, IdKeeps DEF D!IdsEnd, D!Tells
<1> QED
  BY <1>1, <1>2, <1>3

LEMMA ResetAutoKeeps == RInv /\ D!ResetAuto => RInv' /\ Says
<1> SUFFICES ASSUME RInv, D!ResetAuto PROVE RInv' /\ Says
  OBVIOUS
<1>1. Search' /\ Picture' /\ Behind'
  BY ResetIsSearch DEF D!ResetAuto, D!NoTail, Behind
<1> QED
  BY <1>1 DEF D!ResetAuto, RInv, Says, D!PictureIsConfirmed, D!CallIsOfLast

----------------------------------------------------------------------------
OfReception == part = "reception" => RInv

LEMMA ReceptionSteps ==
  OfReception /\ [AllNext]_all => OfReception' /\ [part = "reception" => Says]_all
<1> SUFFICES ASSUME OfReception, [AllNext]_all PROVE OfReception' /\ [part = "reception" => Says]_all
  OBVIOUS
<1>1. part' = part
  BY DEF AllNext, Draft, Contacts, Reception, Gallery, all
<1>2. CASE part # "reception"
  BY <1>1, <1>2 DEF OfReception
<1>3. CASE part = "reception" /\ UNCHANGED all
  <2>1. UNCHANGED <<tx, failures, draft, store, safe, kept>>
    BY <1>3 DEF all, vars, templates
  <2>2. RInv'
    BY <1>3, <2>1 DEF OfReception, RInv, Search, Picture, Behind
  <2> QED
    BY <1>3, <2>2 DEF OfReception
<1>4. CASE part = "reception" /\ AllNext
  <2>1. ~Draft /\ ~Contacts /\ ~Gallery /\ RInv
    BY <1>4 DEF Draft, Contacts, Gallery, OfReception
  <2>2. \/ \E tone \in D!Tones, edge \in D!Edges, hidden \in BOOLEAN : D!Beat(tone, edge, hidden)
        \/ \E scottie \in BOOLEAN : D!Begin(scottie)
        \/ \E pulse, slants \in BOOLEAN : D!Line(pulse, slants)
        \/ \E good, ends \in BOOLEAN : D!FskSymbol(good, ends)
        \/ D!CwId \/ D!IdsEnd \/ D!ResetAuto
    BY <1>4, <2>1 DEF AllNext
  <2>3. RInv' /\ Says
    BY <2>1, <2>2, BeatKeeps, BeginKeeps, LineKeeps, IdsKeep, ResetAutoKeeps
  <2> QED
    BY <1>4, <2>3 DEF OfReception
<1> QED
  BY <1>2, <1>3, <1>4

(***************************************************************************)
(* Whatever is heard, what becomes a picture was announced and confirmed,  *)
(* and a callsign is told only behind the picture received last.           *)
(***************************************************************************)
THEOREM PicturesAreConfirmed == AllSpec => PictureIsSound
<1>1. AllInit => OfReception
  BY BeginsReceived DEF AllInit, OfReception
<1>2. OfReception /\ [AllNext]_all =>
        OfReception' /\ [part = "reception" => D!PictureIsConfirmed /\ D!CallIsOfLast]_all
  BY ReceptionSteps DEF Says
<1> QED
  BY <1>1, <1>2, PTL DEF AllSpec, PictureIsSound

----------------------------------------------------------------------------
(***************************************************************************)
(* Finite sets of numbers.                                                 *)
(***************************************************************************)
LEMMA SameCardinality == \A S : G!Cardinality(S) = Cardinality(S)
BY DEF G!Cardinality, Cardinality

LEMMA ImagesAreFinite ==
  ASSUME NEW S \in SUBSET G!Images
  PROVE  IsFiniteSet(S) /\ Cardinality(S) \in Nat /\ G!Cardinality(S) \in Nat
<1>1. IsFiniteSet(G!Images)
  BY GalleryBounds, FS_Interval DEF G!Images
<1>2. IsFiniteSet(S)
  BY <1>1, FS_Subset
<1> QED
  BY <1>2, FS_CardinalityType, SameCardinality

\* The newest picture of some.
LEMMA NewestOfSome ==
  ASSUME NEW S \in SUBSET G!Images, S # {}
  PROVE  G!Max(S) \in S
<1> DEFINE T == {n \in Nat : \A i \in S : i <= n}
<1>1. Arrivals \in T
  BY GalleryBounds DEF G!Images
<1>2. PICK m \in T : \A n \in T : m <= n
  BY <1>1, LeastNumber
<1>3. m \in S
  <2> SUFFICES ASSUME m \notin S PROVE FALSE
    OBVIOUS
  <2>1. PICK i \in S : TRUE
    OBVIOUS
  <2>2. i \in 1 .. Arrivals /\ i <= m
    BY <1>2, <2>1 DEF G!Images
  <2>3. m - 1 \in Nat /\ \A j \in S : j <= m - 1
    BY <1>2, <2>2, GalleryBounds DEF G!Images
  <2> QED
    BY <1>2, <2>3
<1>4. m \in S /\ \A j \in S : m >= j
  BY <1>2, <1>3 DEF G!Images
<1> QED
  BY <1>4 DEF G!Max

LEMMA LeastOfTwo ==
  ASSUME NEW a \in Int, NEW b \in Int
  PROVE  /\ G!Min({a, b}) \in {a, b} /\ G!Min({a, b}) <= a /\ G!Min({a, b}) <= b
         /\ G!Max({a, b}) \in {a, b} /\ G!Max({a, b}) >= a /\ G!Max({a, b}) >= b
<1>1. \E x \in {a, b} : \A y \in {a, b} : x <= y
  OBVIOUS
<1>2. \E x \in {a, b} : \A y \in {a, b} : x >= y
  OBVIOUS
<1> QED
  BY <1>1, <1>2 DEF G!Min, G!Max

(***************************************************************************)
(* The oldest of some pictures: as many as there are to be.                *)
(***************************************************************************)
LEMMA OneMoreOfTheOldest ==
  ASSUME NEW S \in SUBSET G!Images, NEW t \in G!OldestFirst(S), t # S
  PROVE  \E u \in G!OldestFirst(S) : Cardinality(u) = Cardinality(t) + 1
<1>1. t \in SUBSET S /\ \A i \in t, j \in S \ t : i < j
  BY DEF G!OldestFirst
<1>2. S \ t \in SUBSET Nat /\ S \ t # {}
  <2>1. S \ t # {}
    BY <1>1
  <2> QED
    BY <1>1, <2>1 DEF G!Images
<1>3. PICK m \in S \ t : \A j \in S \ t : m <= j
  BY <1>2, LeastNumber
<1> DEFINE u == t \cup {m}
<1>4. u \in SUBSET S /\ \A i \in u, j \in S \ u : i < j
  BY <1>1, <1>3 DEF G!Images
<1>5. Cardinality(u) = Cardinality(t) + 1
  <2>1. IsFiniteSet(t) /\ m \notin t
    BY <1>1, <1>3, ImagesAreFinite
  <2> QED
    BY <2>1, FS_AddElement
<1> QED
  BY <1>4, <1>5 DEF G!OldestFirst

LEMMA OldestExist ==
  ASSUME NEW S \in SUBSET G!Images, NEW n \in Nat, n <= Cardinality(S)
  PROVE  \E t \in G!OldestFirst(S) : G!Cardinality(t) = n
<1> DEFINE T == {k \in Nat : k <= Cardinality(S) => \E t \in G!OldestFirst(S) : Cardinality(t) = k}
<1>1. Cardinality(S) \in Nat
  BY ImagesAreFinite
<1>2. 0 \in T
  BY FS_EmptySet DEF G!OldestFirst
<1>3. ASSUME NEW k \in T PROVE k + 1 \in T
  <2> SUFFICES ASSUME k + 1 <= Cardinality(S)
               PROVE  \E t \in G!OldestFirst(S) : Cardinality(t) = k + 1
    BY <1>1
  <2>1. PICK t \in G!OldestFirst(S) : Cardinality(t) = k
    BY <1>1, <1>3
  <2>2. t # S
    BY <1>1, <2>1, <1>3
  <2> QED
    BY <2>1, <2>2, OneMoreOfTheOldest
<1>4. n \in T
  <2> HIDE DEF T
  <2>1. T \in SUBSET Nat
    BY DEF T
  <2> QED
    BY <1>2, <1>3, <2>1, EveryNumber
<1> QED
  BY <1>4, SameCardinality

----------------------------------------------------------------------------
(***************************************************************************)
(* The gallery: a picture that has not come has left no trace; one that is *)
(* on the disk has the callsign's source in the list; the picture that is  *)
(* to be deleted is still shown.                                           *)
(***************************************************************************)
Records == [source : G!Sources, starred : BOOLEAN, there : BOOLEAN]
Disks == [G!Images -> Records]
Screens ==
  [list : Disks, current : 0 .. Arrivals, pending : 0 .. Arrivals,
   text : {"", "call"}, source : G!Sources]
Questions == [kind : {"", "delete", "clear"}, about : 0 .. Arrivals, came : 0 .. Arrivals]

GTypes ==
  /\ draft \in Disks /\ tx \in Screens /\ store \in Questions
  /\ safe \in Limits /\ kept \in 0 .. Arrivals /\ due \in 0 .. kept
  /\ tx.current <= kept /\ tx.pending <= kept /\ store.came <= kept
GCounts == failures \in 0 .. GalleryFailures /\ deaths \in 0 .. Deaths

Traced(d, l, n) ==
  \A i \in G!Images : /\ i > n => d[i] = G!NoRecord /\ l[i] = G!NoRecord
                      /\ d[i].there => l[i].source = d[i].source
StillShown(q, n, d, i) ==
  q.kind = "delete" => /\ q.about \in G!Images
                       /\ q.came = n /\ d[q.about].there => i = q.about

GInv == GTypes /\ GCounts /\ Traced(draft, tx.list, kept) /\ StillShown(store, kept, draft, tx.current)

----------------------------------------------------------------------------
(***************************************************************************)
(* What is removed, and what is shown then.                                *)
(***************************************************************************)
LEMMA ListedImages ==
  ASSUME NEW d \in Disks
  PROVE  /\ G!Listed(d) \in SUBSET G!Images /\ G!Unstarred(d) \in SUBSET G!Images
         /\ \A i \in G!Images : /\ i \in G!Listed(d) <=> d[i].there
                                /\ i \in G!Unstarred(d) <=> d[i].there /\ ~d[i].starred
BY DEF G!Listed, G!Unstarred

LEMMA SomeRecords ==
  /\ G!NoRecord \in Records /\ ~G!NoRecord.there /\ G!NoRecord.source = ""
  /\ G!NewRecord \in Records /\ G!NewRecord.there /\ G!NewRecord.source = ""
BY DEF G!NoRecord, G!NewRecord, Records, G!Sources

LEMMA RemovedDisk ==
  ASSUME NEW d \in Disks, NEW t
  PROVE  /\ G!Removed(d, t) \in Disks
         /\ \A i \in G!Images : /\ i \in t => G!Removed(d, t)[i] = G!NoRecord
                                /\ i \notin t => G!Removed(d, t)[i] = d[i]
BY SomeRecords DEF G!Removed, Disks

LEMMA RemovalsRemove ==
  ASSUME NEW d, NEW s, NEW orders \in SUBSET SUBSET s, NEW o \in G!Removals(d, s, orders)
  PROVE  o.bad \in BOOLEAN /\ \E t \in orders \cup {s} : o.disk = G!Removed(d, t)
<1>1. CASE o = [disk |-> G!Removed(d, s), bad |-> FALSE]
  BY <1>1
<1>2. ASSUME NEW t \in orders, o = [disk |-> G!Removed(d, t), bad |-> TRUE]
      PROVE  o.bad \in BOOLEAN /\ \E u \in orders \cup {s} : o.disk = G!Removed(d, u)
  BY <1>2
<1> QED
  BY <1>1, <1>2 DEF G!Removals

LEMMA VictimsAreOldest ==
  ASSUME NEW d \in Disks, NEW n \in Nat
  PROVE  G!Victims(d, n) \in G!OldestFirst(G!Unstarred(d))
<1> DEFINE S == G!Unstarred(d)
           k == G!Min({G!Excess(d, n), G!Cardinality(S)})
<1>1. S \in SUBSET G!Images /\ G!Listed(d) \in SUBSET G!Images
  BY ListedImages
<1>2. G!Cardinality(S) \in Nat /\ G!Cardinality(G!Listed(d)) \in Nat
  BY <1>1, ImagesAreFinite
<1>3. G!Excess(d, n) \in Nat
  <2> DEFINE e == G!Cardinality(G!Listed(d)) - n
  <2>1. e \in Int /\ 0 \in Int
    BY <1>2
  <2> HIDE DEF e
  <2>2. G!Max({0, e}) \in {0, e} /\ G!Max({0, e}) >= 0
    BY <2>1, LeastOfTwo
  <2>3. G!Max({0, e}) \in Nat
    BY <2>1, <2>2
  <2> QED
    BY <2>3 DEF G!Excess, e
<1>4. k \in Nat /\ k <= G!Cardinality(S)
  <2> DEFINE a == G!Excess(d, n)
             b == G!Cardinality(S)
  <2>1. a \in Nat /\ b \in Nat /\ k = G!Min({a, b})
    BY <1>2, <1>3
  <2> HIDE DEF a, b, k
  <2>2. G!Min({a, b}) \in {a, b} /\ G!Min({a, b}) <= b
    BY <2>1, LeastOfTwo
  <2>3. k \in Nat /\ k <= b
    BY <2>1, <2>2
  <2> QED
    BY <2>3 DEF b
<1>5. \E t \in G!OldestFirst(S) : G!Cardinality(t) = k
  <2> HIDE DEF S, k
  <2> QED
    BY <1>1, <1>4, OldestExist, SameCardinality
<1> QED
  BY <1>5 DEF G!Victims

\* What goes for want of room are the oldest unstarred ones.
LEMMA RetentionRemoves ==
  ASSUME NEW d \in Disks, NEW n \in Nat, NEW o \in G!EnforceRetention(d, n)
  PROVE  /\ o.bad \in BOOLEAN
         /\ \E t \in SUBSET G!Unstarred(d) :
              o.disk = G!Removed(d, t) /\ \A i \in t, j \in G!Unstarred(d) \ t : i < j
<1> DEFINE v == G!Victims(d, n)
<1>1. v \in SUBSET G!Unstarred(d) /\ \A i \in v, j \in G!Unstarred(d) \ v : i < j
  BY VictimsAreOldest DEF G!OldestFirst
<1>2. o \in G!Removals(d, v, G!OldestFirst(v))
  BY DEF G!EnforceRetention
<1>3. G!OldestFirst(v) \in SUBSET SUBSET v
  BY DEF G!OldestFirst
<1>4. o.bad \in BOOLEAN /\ \E t \in G!OldestFirst(v) \cup {v} : o.disk = G!Removed(d, t)
  BY <1>2, <1>3, RemovalsRemove
<1>5. PICK t \in G!OldestFirst(v) \cup {v} : o.disk = G!Removed(d, t)
  BY <1>4
<1>6. t \in SUBSET v /\ \A i \in t, j \in v \ t : i < j
  BY <1>5 DEF G!OldestFirst
<1>7. \A i \in t, j \in G!Unstarred(d) \ t : i < j
  BY <1>1, <1>6
<1> QED
  BY <1>1, <1>4, <1>5, <1>6, <1>7

LEMMA RefreshedScreen ==
  ASSUME NEW s \in Screens, NEW d \in Disks, NEW i
  PROVE  LET r == G!Refreshed(s, d, i)
         IN /\ r \in Screens /\ r.list = d /\ r.pending = s.pending
            /\ r.current \in G!Listed(d) \cup {0}
            /\ i \in G!Listed(d) => r.current = i
<1> DEFINE j == IF i \in G!Listed(d) THEN i ELSE G!Newest(d)
           l == [s EXCEPT !.list = d]
<1>1. j \in G!Listed(d) \cup {0}
  BY ListedImages, NewestOfSome DEF G!Newest, G!None
<1>2. l \in Screens /\ l.list = d /\ l.pending = s.pending
  BY DEF Screens
<1>3. G!Refreshed(s, d, i) = G!Selected(l, j)
  BY DEF G!Refreshed
<1> HIDE DEF l
<1>4. CASE j = 0
  <2>1. G!Selected(l, j) = [l EXCEPT !.current = 0, !.text = ""]
    BY <1>4 DEF G!Selected, G!None
  <2>2. [l EXCEPT !.current = 0, !.text = ""] \in Screens
    <3>1. 0 \in 0 .. Arrivals
      BY GalleryBounds
    <3>2. [l EXCEPT !.current = 0] \in Screens
      BY <1>2, <3>1 DEF Screens
    <3> QED
      BY <3>2 DEF Screens
  <2> HIDE DEF j
  <2>3. G!Selected(l, j).list = d /\ G!Selected(l, j).pending = s.pending /\ G!Selected(l, j).current = j
    BY <1>2, <1>4, <2>1 DEF Screens
  <2> QED
    BY <1>1, <1>3, <2>1, <2>2, <2>3 DEF j
<1>5. CASE j # 0
  <2> DEFINE src == d[j].source
             txt == IF src = "" THEN "" ELSE "call"
  <2>1. j \in G!Images /\ j \in 0 .. Arrivals
    BY <1>1, <1>5, ListedImages, GalleryBounds DEF G!Images
  <2>2. src \in G!Sources /\ txt \in {"", "call"}
    BY <2>1 DEF Disks, Records
  <2>3. G!Selected(l, j) = [l EXCEPT !.current = j, !.source = src, !.text = txt]
    BY <1>2, <1>5 DEF G!Selected, G!None
  <2> HIDE DEF j, src, txt
  <2>4. [l EXCEPT !.current = j, !.source = src, !.text = txt] \in Screens
    BY <1>2, <2>1, <2>2 DEF Screens
  <2>5. G!Selected(l, j).list = d /\ G!Selected(l, j).pending = s.pending /\ G!Selected(l, j).current = j
    BY <1>2, <2>3 DEF Screens
  <2> QED
    BY <1>1, <1>3, <2>3, <2>4, <2>5 DEF j
<1> QED
  BY <1>4, <1>5

----------------------------------------------------------------------------
(***************************************************************************)
(* The gallery's steps, and what they say of the properties.               *)
(***************************************************************************)
GSays == G!GalleryKeeps /\ G!CallIsEarned

LEMMA NoneIsNumber == G!None = 0 /\ 0 \in 0 .. Arrivals
BY GalleryBounds DEF G!None

LEMMA GalleryBegins == G!Init => GInv
<1> SUFFICES ASSUME G!Init PROVE GInv
  OBVIOUS
<1>1. draft \in Disks /\ tx.list = draft /\ \A i \in G!Images : draft[i] = G!NoRecord
  BY SomeRecords DEF G!Init, G!EmptyScreen, Disks
<1>2. tx \in Screens /\ tx.current = 0 /\ tx.pending = 0
  <2>1. tx = G!EmptyScreen
    BY DEF G!Init
  <2> QED
    BY <1>1, <2>1, NoneIsNumber DEF G!EmptyScreen, Screens, G!Sources
<1>3. store \in Questions /\ store.came = 0 /\ store.kind = ""
  BY NoneIsNumber DEF G!Init, G!NoQuestion, Questions
<1>4. GTypes
  <2>1. safe \in Limits /\ kept = 0 /\ due = 0
    BY NoneIsNumber DEF G!Init
  <2>2. kept \in 0 .. Arrivals /\ due \in 0 .. kept
    BY <2>1, NoneIsNumber
  <2>3. tx.current <= kept /\ tx.pending <= kept /\ store.came <= kept
    <3>1. tx.current = kept /\ tx.pending = kept /\ store.came = kept
      BY <1>2, <1>3, <2>1
    <3> QED
      BY <2>2, <3>1
  <2> QED
    BY <1>1, <1>2, <1>3, <2>1, <2>2, <2>3 DEF GTypes
<1>5. GCounts
  BY GalleryBounds, Bounds DEF G!Init, GCounts
<1> QED
  BY <1>1, <1>3, <1>4, <1>5 DEF GInv, Traced, StillShown

LEMMA GalleryFails ==
  ASSUME GCounts, NEW bad \in BOOLEAN, G!Fails(bad)
  PROVE  failures' \in 0 .. GalleryFailures
BY GalleryBounds DEF GCounts, G!Fails

\* The screen is read again from the disk.
LEMMA AfterRefresh ==
  ASSUME NEW s \in Screens, NEW d \in Disks, NEW i, NEW n \in 0 .. Arrivals, s.pending <= n,
         \A j \in G!Images : j > n => d[j] = G!NoRecord
  PROVE  LET r == G!Refreshed(s, d, i)
         IN /\ r \in Screens /\ r.current <= n /\ r.pending <= n /\ Traced(d, r.list, n)
            /\ i \in G!Listed(d) => r.current = i
<1> DEFINE r == G!Refreshed(s, d, i)
<1>1. r \in Screens /\ r.list = d /\ r.pending = s.pending /\ r.current \in G!Listed(d) \cup {0}
      /\ (i \in G!Listed(d) => r.current = i)
  BY RefreshedScreen
<1> HIDE DEF r
<1>2. \A j \in G!Listed(d) : j <= n
  <2> SUFFICES ASSUME NEW j \in G!Images, d[j].there, j > n PROVE FALSE
    BY GalleryBounds DEF G!Listed, G!Images
  <2> QED
    BY SomeRecords
<1>3. r.current <= n
  BY <1>1, <1>2
<1>4. Traced(d, r.list, n)
  BY <1>1 DEF Traced
<1> QED
  BY <1>1, <1>3, <1>4 DEF r

\* What went is said to have gone for want of room.
LEMMA GoneForRoom ==
  ASSUME draft \in Disks, NEW d \in Disks, NEW t \in SUBSET G!Unstarred(d), draft' = G!Removed(d, t),
         \A i \in t, j \in G!Unstarred(d) \ t : i < j,
         \A i \in G!Images : draft[i].there => d[i] = draft[i]
  PROVE  G!ForRoom
<1>1. \A i \in G!Images : /\ i \in t => draft'[i] = G!NoRecord
                          /\ i \notin t => draft'[i] = d[i]
  BY RemovedDisk
<1>2. ASSUME NEW i \in G!Gone PROVE i \in t /\ d[i] = draft[i] /\ i \in G!Images
  BY <1>1, <1>2 DEF G!Gone
<1>3. ASSUME NEW i \in G!Gone PROVE ~draft[i].starred
  BY <1>2, ListedImages
<1>4. ASSUME NEW i \in G!Gone, NEW j \in G!Unstarred(draft), j < i PROVE j \in G!Gone
  <2>1. j \in G!Images /\ draft[j].there /\ ~draft[j].starred
    BY ListedImages
  <2>2. j \in G!Unstarred(d)
    BY <2>1, ListedImages
  <2>3. j \in t
    BY <1>2, <1>4, <2>1, <2>2 DEF G!Images
  <2> QED
    BY <1>1, <2>1, <2>3, SomeRecords DEF G!Gone
<1> QED
  BY <1>3, <1>4 DEF G!ForRoom

LEMMA NotHeard ==
  ASSUME \A i \in G!Images :
           draft'[i].there => draft'[i].source \in {draft[i].source, "", "MANUAL"}
  PROVE  G!CallIsEarned
BY DEF G!CallIsEarned, G!Heard

LEMMA NoneGone ==
  ASSUME \A i \in G!Images : draft[i].there => draft'[i].there
  PROVE  G!Gone = {}
BY DEF G!Gone

LEMMA ReceiveKeeps == GInv /\ G!CompleteReceiveImage => GInv' /\ GSays
<1> SUFFICES ASSUME GInv, G!CompleteReceiveImage PROVE GInv' /\ GSays
  OBVIOUS
<1> DEFINE n == kept + 1
           d == [draft EXCEPT ![n] = G!NewRecord]
<1>1. kept < Arrivals /\ kept' = n /\ due' = n /\ UNCHANGED <<store, safe, deaths>>
  BY DEF G!CompleteReceiveImage
<1>2. n \in 0 .. Arrivals /\ n \in G!Images /\ n > kept /\ kept \in 0 .. Arrivals /\ due' \in 0 .. kept'
  BY <1>1, GalleryBounds DEF GInv, GTypes, G!Images
<1>3. d \in Disks /\ d[n] = G!NewRecord /\ \A i \in G!Images : i # n => d[i] = draft[i]
  BY <1>2, SomeRecords DEF GInv, GTypes, Disks
<1>4. ASSUME NEW i \in G!Images, i > kept PROVE draft[i] = G!NoRecord /\ tx.list[i] = G!NoRecord
  BY <1>4 DEF GInv, Traced
<1>5. tx.current <= n /\ tx.pending <= n /\ store.came <= n
  <2>1. tx.current \in 0 .. Arrivals /\ tx.pending \in 0 .. Arrivals /\ store.came \in 0 .. Arrivals
    BY DEF GInv, GTypes, Screens, Questions
  <2>2. tx.current <= kept /\ tx.pending <= kept /\ store.came <= kept
    BY DEF GInv, GTypes
  <2> QED
    BY <1>2, <2>1, <2>2
<1>6. StillShown(store', kept', draft', tx'.current)
  <2>1. store.came <= kept /\ store.came \in 0 .. Arrivals
    BY DEF GInv, GTypes, Questions
  <2> QED
    BY <1>1, <1>2, <2>1 DEF GInv, StillShown
<1> HIDE DEF n, d
<1>7. CASE G!Fails(TRUE) /\ UNCHANGED <<draft, tx>>
  <2>1. GTypes'
    BY <1>1, <1>2, <1>5, <1>7 DEF GInv, GTypes
  <2>2. GCounts'
    BY <1>1, <1>7, GalleryFails DEF GInv, GCounts
  <2>3. Traced(draft', tx'.list, kept')
    BY <1>1, <1>2, <1>4, <1>7 DEF GInv, Traced, G!Images, n
  <2>4. GSays
    BY <1>1, <1>7, NotHeard DEF GSays, G!GalleryKeeps, G!ForRoom, G!Gone
  <2> QED
    BY <1>6, <2>1, <2>2, <2>3, <2>4 DEF GInv
<1>8. CASE \E o \in G!EnforceRetention(d, safe) :
             /\ G!Fails(o.bad) /\ draft' = o.disk
             /\ tx' = IF o.bad THEN tx ELSE G!Awaiting(G!Refreshed(tx, o.disk, n), n)
  <2>1. PICK o \in G!EnforceRetention(d, safe) :
             /\ G!Fails(o.bad) /\ draft' = o.disk
             /\ tx' = IF o.bad THEN tx ELSE G!Awaiting(G!Refreshed(tx, o.disk, n), n)
    BY <1>8
  <2>2. safe \in Nat
    BY GalleryBounds DEF GInv, GTypes
  <2>3. o.bad \in BOOLEAN
    BY <1>3, <2>1, <2>2, RetentionRemoves
  <2>4. PICK t \in SUBSET G!Unstarred(d) :
          o.disk = G!Removed(d, t) /\ \A i \in t, j \in G!Unstarred(d) \ t : i < j
    BY <1>3, <2>1, <2>2, RetentionRemoves
  <2>5. draft' \in Disks /\ \A i \in G!Images : draft'[i] \in {G!NoRecord, d[i]}
    BY <1>3, <2>1, <2>4, RemovedDisk
  <2>6. \A i \in G!Images : i > n => draft'[i] = G!NoRecord /\ tx.list[i] = G!NoRecord
    BY <1>2, <1>3, <1>4, <2>5 DEF G!Images, n
  <2>7. tx' \in Screens /\ tx'.current <= n /\ tx'.pending <= n /\ Traced(draft', tx'.list, n)
    <3>1. tx \in Screens /\ tx.current <= n /\ tx.pending <= n
      BY <1>5 DEF GInv, GTypes
    <3>2. CASE o.bad
      <4>1. \A i \in G!Images : draft'[i].there => tx.list[i].source = draft'[i].source
        <5> SUFFICES ASSUME NEW i \in G!Images, draft'[i].there PROVE tx.list[i].source = draft'[i].source
          OBVIOUS
        <5>1. draft'[i] = d[i]
          BY <2>5, SomeRecords
        <5>2. CASE i = n
          BY <1>2, <1>3, <1>4, <5>1, <5>2, SomeRecords
        <5>3. CASE i # n
          BY <1>3, <5>1, <5>3 DEF GInv, Traced
        <5> QED
          BY <5>2, <5>3
      <4>2. Traced(draft', tx.list, n)
        BY <2>6, <4>1 DEF Traced
      <4> QED
        BY <2>1, <3>1, <3>2, <4>2
    <3>3. CASE ~o.bad
      <4> DEFINE r == G!Refreshed(tx, draft', n)
      <4>1. r \in Screens /\ r.current <= n /\ Traced(draft', r.list, n)
        BY <1>2, <2>5, <2>6, <3>1, AfterRefresh
      <4>2. tx' = [r EXCEPT !.pending = n, !.text = "", !.source = ""]
        BY <2>1, <3>3 DEF G!Awaiting
      <4> HIDE DEF r
      <4>3. tx' \in Screens /\ tx'.current = r.current /\ tx'.pending = n /\ tx'.list = r.list
        BY <1>2, <4>1, <4>2 DEF Screens, G!Sources
      <4> QED
        BY <1>2, <4>1, <4>3
    <3> QED
      BY <2>3, <3>2, <3>3
  <2>8. GTypes'
    BY <1>1, <1>2, <1>5, <2>5, <2>7 DEF GInv, GTypes
  <2>9. GCounts'
    BY <1>1, <2>1, <2>3, GalleryFails DEF GInv, GCounts
  <2>10. G!GalleryKeeps
    <3>1. \A i \in G!Images : draft[i].there => d[i] = draft[i]
      <4> SUFFICES ASSUME NEW i \in G!Images, draft[i].there, i = n PROVE FALSE
        BY <1>3
      <4> QED
        BY <1>2, <1>4, SomeRecords
    <3>2. draft \in Disks /\ draft' = G!Removed(d, t)
      BY <2>1, <2>4 DEF GInv, GTypes
    <3>3. G!ForRoom
      BY <1>3, <2>4, <3>1, <3>2, GoneForRoom
    <3> QED
      BY <1>1, <1>2, <3>3 DEF G!GalleryKeeps
  <2>11. G!CallIsEarned
    <3>1. \A i \in G!Images : draft'[i].source \in {draft[i].source, ""}
      BY <1>2, <1>3, <2>5, SomeRecords
    <3> QED
      BY <3>1, NotHeard
  <2> QED
    BY <1>1, <1>6, <2>7, <2>8, <2>9, <2>10, <2>11 DEF GInv, GSays
<1> QED
  BY <1>7, <1>8 DEF G!CompleteReceiveImage, G!Shows, n, d

\* The other steps leave the pictures that have come and the one listened to alone.
LEMMA GalleryAgain ==
  ASSUME GInv, GCounts', UNCHANGED <<kept, due>>, safe' \in Limits,
         draft' \in Disks, tx' \in Screens, tx'.current <= kept, tx'.pending <= kept,
         Traced(draft', tx'.list, kept), store' \in Questions, store'.came <= kept,
         StillShown(store', kept, draft', tx'.current)
  PROVE  GInv'
<1>1. GTypes'
  BY DEF GInv, GTypes
<1> QED
  BY <1>1 DEF GInv

\* No picture goes and no callsign is heard where the disk is left alone.
LEMMA DiskAlone ==
  ASSUME UNCHANGED <<draft, kept, safe>>
  PROVE  GSays
BY NoneGone, NotHeard DEF GSays, G!GalleryKeeps

LEMMA NoQuestionStands ==
  /\ G!NoQuestion \in Questions /\ G!NoQuestion.came = 0
  /\ \A n, d, i : StillShown(G!NoQuestion, n, d, i)
BY NoneIsNumber DEF G!NoQuestion, Questions, StillShown

Sourced(e, d, i, src) == e = [d EXCEPT ![i].source = src]

LEMMA SourcedDisk ==
  ASSUME NEW d \in Disks, NEW i \in G!Images, NEW src \in G!Sources, NEW e, Sourced(e, d, i, src)
  PROVE  /\ e \in Disks /\ e[i].source = src /\ e[i].there = d[i].there /\ e[i].starred = d[i].starred
         /\ \A j \in G!Images : j # i => e[j] = d[j]
<1> DEFINE r == [d[i] EXCEPT !.source = src]
<1>1. r \in Records /\ r.source = src /\ r.there = d[i].there /\ r.starred = d[i].starred
  BY DEF Disks, Records
<1> HIDE DEF r
<1>2. [d EXCEPT ![i] = r] \in Disks /\ [d EXCEPT ![i] = r][i] = r
      /\ \A j \in G!Images : j # i => [d EXCEPT ![i] = r][j] = d[j]
  BY <1>1 DEF Disks
<1>3. e = [d EXCEPT ![i] = r]
  BY DEF r, Sourced
<1> QED
  BY <1>1, <1>2, <1>3

LEMMA Comings ==
  ASSUME GInv
  PROVE  /\ kept \in 0 .. Arrivals /\ tx \in Screens /\ draft \in Disks /\ store \in Questions
         /\ tx.current <= kept /\ tx.pending <= kept /\ store.came <= kept
         /\ safe \in Limits /\ Limits \subseteq Nat /\ 0 <= kept
         /\ \A i \in G!Images : i > kept => draft[i] = G!NoRecord
BY GalleryBounds DEF GInv, GTypes, Traced

(***************************************************************************)
(* The source of a listed picture's callsign is written, and the list is   *)
(* read again.                                                             *)
(***************************************************************************)
LEMMA WritesSource ==
  ASSUME GInv, NEW i \in G!Listed(draft), NEW src \in G!Sources, NEW s \in Screens, s.pending = tx.pending,
         draft' = [draft EXCEPT ![i].source = src], tx' = G!Refreshed(s, draft', tx.current)
  PROVE  /\ draft' \in Disks /\ tx' \in Screens /\ tx'.current <= kept /\ tx'.pending <= kept
         /\ Traced(draft', tx'.list, kept)
         /\ StillShown(store, kept, draft', tx'.current)
         /\ \A j \in G!Images : draft[j].there => draft'[j].there
         /\ \A j \in G!Images : j # i => draft'[j] = draft[j]
         /\ draft'[i].source = src
<1>1. i \in G!Images /\ draft[i].there
  BY DEF G!Listed
<1>2. /\ draft' \in Disks /\ draft'[i].source = src /\ draft'[i].there = draft[i].there
      /\ \A j \in G!Images : j # i => draft'[j] = draft[j]
  <2>1. draft \in Disks
    BY Comings
  <2>2. Sourced(draft', draft, i, src)
    BY DEF Sourced
  <2>3. draft' \in Disks
    BY <1>1, <2>1, <2>2, SourcedDisk
  <2>4. draft'[i].source = src
    BY <1>1, <2>1 DEF Disks, Records
  <2>5. draft'[i].there = draft[i].there
    BY <1>1, <2>1, <2>2, SourcedDisk
  <2>6. \A j \in G!Images : j # i => draft'[j] = draft[j]
    BY <1>1, <2>1, <2>2, SourcedDisk
  <2> QED
    BY <2>3, <2>4, <2>5, <2>6
<1>3. \A j \in G!Images : j > kept => draft'[j] = G!NoRecord
  BY <1>1, <1>2, Comings, SomeRecords
<1>4. /\ tx' \in Screens /\ tx'.current <= kept /\ tx'.pending <= kept /\ Traced(draft', tx'.list, kept)
      /\ tx.current \in G!Listed(draft') => tx'.current = tx.current
  BY <1>2, <1>3, Comings, AfterRefresh, ZenonT(40)
<1>5. StillShown(store, kept, draft', tx'.current)
  <2>1. \A j \in G!Images : draft'[j].there = draft[j].there
    BY <1>1, <1>2
  <2>2. ASSUME store.kind = "delete" PROVE store.about \in G!Images
    BY <2>2 DEF GInv, StillShown
  <2>3. ASSUME store.kind = "delete", store.came = kept, draft'[store.about].there
        PROVE  tx'.current = store.about
    <3>1. tx.current = store.about
      BY <2>1, <2>2, <2>3 DEF GInv, StillShown
    <3> QED
      BY <1>2, <1>4, <2>2, <2>3, <3>1, ListedImages
  <2> QED
    BY <2>2, <2>3 DEF StillShown
<1> QED
  BY <1>1, <1>2, <1>4, <1>5

LEMMA DetectedKeeps ==
  ASSUME NEW source \in {"FSK ID", "CW ID"}, NEW bad \in BOOLEAN
  PROVE  GInv /\ G!CallsignDetected(source, bad) => GInv' /\ GSays
<1> SUFFICES ASSUME GInv, G!CallsignDetected(source, bad) PROVE GInv' /\ GSays
  OBVIOUS
<1>1. G!Displaces(source) /\ UNCHANGED <<store, safe, kept, due>> /\ GCounts'
  BY GalleryFails DEF G!CallsignDetected, G!Rest, GInv, GCounts
<1>2. CASE ~(tx.pending \in G!Listed(draft) /\ ~bad)
  <2>1. UNCHANGED <<draft, tx>>
    BY <1>2 DEF G!CallsignDetected
  <2> QED
    BY <1>1, <2>1, Comings, GalleryAgain, DiskAlone DEF GInv
<1>3. CASE tx.pending \in G!Listed(draft) /\ ~bad
  <2> DEFINE i == tx.pending
  <2>1. draft' = [draft EXCEPT ![i].source = source] /\ tx' = G!Refreshed(tx, draft', tx.current)
    BY <1>3 DEF G!CallsignDetected, G!Shows
  <2>2. source \in G!Sources /\ i \in G!Listed(draft)
    BY <1>3 DEF G!Sources
  <2>3. /\ draft' \in Disks /\ tx' \in Screens /\ tx'.current <= kept /\ tx'.pending <= kept
        /\ Traced(draft', tx'.list, kept)
        /\ StillShown(store, kept, draft', tx'.current)
        /\ \A j \in G!Images : draft[j].there => draft'[j].there
        /\ \A j \in G!Images : j # i => draft'[j] = draft[j]
        /\ draft'[i].source = source
    BY <2>1, <2>2, Comings, WritesSource
  <2>4. GInv'
    BY <1>1, <2>3, Comings, GalleryAgain
  <2>5. G!GalleryKeeps
    BY <1>1, <2>3, NoneGone DEF G!GalleryKeeps
  <2>6. G!CallIsEarned
    <3> SUFFICES ASSUME NEW j \in G!Images, G!Heard(j), ~G!Unsaved(j)
                 PROVE  /\ draft[j].source # "MANUAL"
                        /\ draft'[j].source = "CW ID" => draft[j].source # "FSK ID"
                        /\ j = due \/ tx.pending # due
      BY DEF G!CallIsEarned
    <3>1. j = i
      BY <2>3 DEF G!Heard
    <3>2. G!ExistingSource = draft[i].source
      <4>1. tx.list[i].source = draft[i].source
        BY <2>2 DEF GInv, Traced, G!Listed
      <4> QED
        BY <3>1, <4>1 DEF G!ExistingSource, G!ShowingPending, G!Unsaved
    <3> QED
      BY <1>1, <2>3, <3>1, <3>2 DEF G!Displaces
  <2> QED
    BY <2>4, <2>5, <2>6 DEF GSays
<1> QED
  BY <1>2, <1>3

LEMMA TypeKeeps ==
  ASSUME NEW text \in {"", "call"}
  PROVE  GInv /\ G!Type(text) => GInv' /\ GSays
<1> SUFFICES ASSUME GInv, G!Type(text) PROVE GInv' /\ GSays
  OBVIOUS
<1>1. /\ UNCHANGED <<draft, failures, store, safe, kept, due, deaths>> /\ store = G!NoQuestion
      /\ tx' = [tx EXCEPT !.text = text]
  BY DEF G!Type, G!Rest, G!Operator, G!Shows
<1>2. tx' \in Screens /\ tx'.current = tx.current /\ tx'.pending = tx.pending /\ tx'.list = tx.list
  BY <1>1, Comings DEF Screens
<1>3. GCounts' /\ Traced(draft', tx'.list, kept)
  BY <1>1, <1>2 DEF GInv, GCounts
<1> QED
  BY <1>1, <1>2, <1>3, Comings, GalleryAgain, NoQuestionStands, DiskAlone

LEMMA CorrectKeeps ==
  ASSUME NEW bad \in BOOLEAN
  PROVE  GInv /\ G!SaveCurrentReceiveCallsign(bad) => GInv' /\ GSays
<1> SUFFICES ASSUME GInv, G!SaveCurrentReceiveCallsign(bad) PROVE GInv' /\ GSays
  OBVIOUS
<1> DEFINE s == G!Corrected
           src == s.source
<1>1. /\ UNCHANGED <<store, safe, kept, due>> /\ GCounts' /\ store = G!NoQuestion
  BY GalleryFails DEF G!SaveCurrentReceiveCallsign, G!Rest, G!Operator, GInv, GCounts
<1>2. /\ s \in Screens /\ s.current = tx.current /\ s.pending = tx.pending /\ s.list = tx.list
      /\ src \in G!Sources /\ src \in {"", "MANUAL"}
  BY Comings DEF G!Corrected, Screens, G!Sources
<1> HIDE DEF s
<1>3. CASE ~(tx.current \in G!Listed(draft) /\ ~bad)
  <2>1. draft' = draft /\ tx' = s
    BY <1>3 DEF G!SaveCurrentReceiveCallsign, G!Shows, s
  <2>2. Traced(draft', tx'.list, kept)
    BY <1>2, <2>1 DEF GInv
  <2> QED
    BY <1>1, <1>2, <2>1, <2>2, Comings, GalleryAgain, NoQuestionStands, DiskAlone
<1>4. CASE tx.current \in G!Listed(draft) /\ ~bad
  <2> DEFINE i == tx.current
  <2>1. draft' = [draft EXCEPT ![i].source = src] /\ tx' = G!Refreshed(s, draft', tx.current)
    BY <1>4 DEF G!SaveCurrentReceiveCallsign, G!Shows, s
  <2>2. i \in G!Listed(draft)
    BY <1>4
  <2> HIDE DEF src, i
  <2>3. /\ draft' \in Disks /\ tx' \in Screens /\ tx'.current <= kept /\ tx'.pending <= kept
        /\ Traced(draft', tx'.list, kept)
        /\ StillShown(store, kept, draft', tx'.current)
        /\ \A j \in G!Images : draft[j].there => draft'[j].there
        /\ \A j \in G!Images : j # i => draft'[j] = draft[j]
        /\ draft'[i].source = src
    BY <1>2, <2>1, <2>2, WritesSource
  <2>4. GInv'
    BY <1>1, <2>3, Comings, GalleryAgain
  <2>5. G!GalleryKeeps
    BY <1>1, <2>3, NoneGone DEF G!GalleryKeeps
  <2>6. G!CallIsEarned
    BY <1>2, <2>3, NotHeard
  <2> QED
    BY <2>4, <2>5, <2>6 DEF GSays
<1> QED
  BY <1>3, <1>4

LEMMA SelectKeeps ==
  ASSUME NEW i \in G!Images
  PROVE  GInv /\ G!SelectReceiveHistory(i) => GInv' /\ GSays
<1> SUFFICES ASSUME GInv, G!SelectReceiveHistory(i) PROVE GInv' /\ GSays
  OBVIOUS
<1> DEFINE src == tx.list[i].source
           txt == IF src = "" THEN "" ELSE "call"
<1>1. /\ UNCHANGED <<draft, failures, store, safe, kept, due, deaths>> /\ store = G!NoQuestion
      /\ tx.list[i].there /\ i # 0 /\ i \in 0 .. Arrivals
      /\ tx' = [tx EXCEPT !.current = i, !.source = src, !.text = txt]
  BY GalleryBounds DEF G!SelectReceiveHistory, G!Rest, G!Operator, G!Shows, G!Selected, G!None,
     G!Images, G!Listed
<1>2. i <= kept
  <2> SUFFICES ASSUME i > kept PROVE FALSE
    BY <1>1, Comings
  <2> QED
    BY <1>1, SomeRecords DEF GInv, Traced
<1>3. src \in G!Sources /\ txt \in {"", "call"}
  BY Comings DEF Screens, Disks, Records
<1> HIDE DEF src, txt
<1>4. tx' \in Screens /\ tx'.current = i /\ tx'.pending = tx.pending /\ tx'.list = tx.list
  BY <1>1, <1>3, Comings DEF Screens
<1>5. GCounts' /\ Traced(draft', tx'.list, kept)
  BY <1>1, <1>4 DEF GInv, GCounts
<1> QED
  BY <1>1, <1>2, <1>4, <1>5, Comings, GalleryAgain, NoQuestionStands, DiskAlone

LEMMA StarKeeps ==
  ASSUME NEW bad \in BOOLEAN
  PROVE  GInv /\ G!ToggleStar(bad) => GInv' /\ GSays
<1> SUFFICES ASSUME GInv, G!ToggleStar(bad) PROVE GInv' /\ GSays
  OBVIOUS
<1>1. UNCHANGED <<store, safe, kept, due>> /\ GCounts' /\ store = G!NoQuestion
  BY GalleryFails DEF G!ToggleStar, G!Rest, G!Operator, GInv, GCounts
<1>2. CASE ~(tx.current \in G!Listed(draft) /\ ~bad)
  <2>1. UNCHANGED <<draft, tx>>
    BY <1>2 DEF G!ToggleStar
  <2> QED
    BY <1>1, <2>1, Comings, GalleryAgain, NoQuestionStands, DiskAlone DEF GInv
<1>3. CASE tx.current \in G!Listed(draft) /\ ~bad
  <2> DEFINE c == tx.current
             star == ~tx.list[c].starred
             r == [draft[c] EXCEPT !.starred = star]
  <2>1. c \in G!Images /\ draft[c].there
    BY <1>3 DEF G!Listed
  <2>2. draft' = [draft EXCEPT ![c] = r]
    BY <1>3 DEF G!ToggleStar
  <2>3. PICK i \in G!Images : tx' = G!Refreshed(tx, draft', i)
    BY <1>3 DEF G!ToggleStar, G!Shows, G!Listed
  <2>4. r \in Records /\ r.there = draft[c].there /\ r.source = draft[c].source
    <3>1. star \in BOOLEAN
      OBVIOUS
    <3> HIDE DEF star
    <3> QED
      BY <2>1, <3>1, Comings DEF Disks, Records
  <2> HIDE DEF r, c
  <2>5. draft' \in Disks /\ draft'[c] = r /\ \A j \in G!Images : j # c => draft'[j] = draft[j]
    BY <2>1, <2>2, <2>4, Comings DEF Disks
  <2>6. \A j \in G!Images : draft'[j].there = draft[j].there /\ draft'[j].source = draft[j].source
    BY <2>4, <2>5
  <2>7. \A j \in G!Images : j > kept => draft'[j] = G!NoRecord
    BY <2>1, <2>5, Comings, SomeRecords
  <2>8. tx' \in Screens /\ tx'.current <= kept /\ tx'.pending <= kept /\ Traced(draft', tx'.list, kept)
    BY <2>3, <2>5, <2>7, Comings, AfterRefresh
  <2>9. GInv'
    BY <1>1, <2>5, <2>8, Comings, GalleryAgain, NoQuestionStands
  <2>10. G!GalleryKeeps /\ G!CallIsEarned
    BY <1>1, <2>6, NoneGone, NotHeard DEF G!GalleryKeeps
  <2> QED
    BY <2>9, <2>10 DEF GSays
<1> QED
  BY <1>2, <1>3

LEMMA AskKeeps ==
  ASSUME NEW kind \in {"delete", "clear"}
  PROVE  GInv /\ G!Ask(kind) => GInv' /\ GSays
<1> SUFFICES ASSUME GInv, G!Ask(kind) PROVE GInv' /\ GSays
  OBVIOUS
<1>1. /\ UNCHANGED <<draft, tx, failures, safe, kept, due, deaths>>
      /\ store' = [kind |-> kind, about |-> tx.current, came |-> kept]
      /\ kind = "delete" => tx.current # 0
  BY DEF G!Ask, G!None
<1>2. store' \in Questions /\ store'.came <= kept
  <2>1. tx.current \in 0 .. Arrivals /\ kept \in 0 .. Arrivals
    BY Comings DEF Screens
  <2>2. store' \in Questions
    BY <1>1, <2>1 DEF Questions
  <2>3. store'.came = kept
    BY <1>1
  <2> QED
    BY <2>1, <2>2, <2>3
<1>3. StillShown(store', kept, draft', tx'.current)
  <2>1. tx.current \in 0 .. Arrivals
    BY Comings DEF Screens
  <2>2. kind = "delete" => tx.current \in G!Images
    BY <1>1, <2>1, GalleryBounds DEF G!Images
  <2> QED
    BY <1>1, <2>2 DEF StillShown
<1>4. GCounts' /\ Traced(draft', tx'.list, kept)
  BY <1>1 DEF GInv, GCounts
<1> QED
  BY <1>1, <1>2, <1>3, <1>4, Comings, GalleryAgain, DiskAlone

(***************************************************************************)
(* Pictures are removed and the screen is read again.                      *)
(***************************************************************************)
LEMMA RemovesPictures ==
  ASSUME GInv, NEW t, draft' = G!Removed(draft, t), NEW i, tx' = G!Refreshed(tx, draft', i)
  PROVE  /\ draft' \in Disks /\ tx' \in Screens /\ tx'.current <= kept /\ tx'.pending <= kept
         /\ Traced(draft', tx'.list, kept)
         /\ G!CallIsEarned /\ G!Gone \subseteq t
<1>1. /\ draft' \in Disks
      /\ \A j \in G!Images : j \in t => draft'[j] = G!NoRecord
      /\ \A j \in G!Images : j \notin t => draft'[j] = draft[j]
  BY Comings, RemovedDisk
<1>2. \A j \in G!Images : j > kept => draft'[j] = G!NoRecord
  <2>1. \A j \in G!Images : j > kept => draft[j] = G!NoRecord
    BY Comings
  <2> QED
    BY <1>1, <2>1
<1>3. tx' \in Screens /\ tx'.current <= kept /\ tx'.pending <= kept /\ Traced(draft', tx'.list, kept)
  BY <1>1, <1>2, Comings, AfterRefresh
<1>4. G!CallIsEarned
  <2>1. \A j \in G!Images : draft'[j].source \in {draft[j].source, ""}
    BY <1>1, SomeRecords
  <2> QED
    BY <2>1, NotHeard
<1>5. G!Gone \subseteq t
  BY <1>1 DEF G!Gone
<1> QED
  BY <1>1, <1>3, <1>4, <1>5

\* The picture asked about is the one deleted, if it is still there and none has come since.
LEMMA AnswerKeeps ==
  ASSUME NEW yes \in BOOLEAN
  PROVE  GInv /\ G!Answer(yes) => GInv' /\ GSays
<1> SUFFICES ASSUME GInv, G!Answer(yes) PROVE GInv' /\ GSays
  OBVIOUS
<1>1. UNCHANGED <<safe, kept, due, deaths>> /\ store' = G!NoQuestion
  BY DEF G!Answer
<1>2. CASE UNCHANGED <<draft, tx, failures>>
  <2>1. GCounts' /\ Traced(draft', tx'.list, kept)
    BY <1>1, <1>2 DEF GInv, GCounts
  <2> QED
    BY <1>1, <1>2, <2>1, Comings, GalleryAgain, NoQuestionStands, DiskAlone
<1>3. ASSUME NEW s \in SUBSET G!Images, NEW orders \in SUBSET SUBSET s,
             NEW o \in G!Removals(draft, s, orders), G!Answered(o)
      PROVE  GInv' /\ G!CallIsEarned /\ G!Gone \subseteq s
  <2>1. o.bad \in BOOLEAN /\ \E t \in orders \cup {s} : o.disk = G!Removed(draft, t)
    BY <1>3, RemovalsRemove
  <2>2. PICK t \in orders \cup {s} : o.disk = G!Removed(draft, t)
    BY <2>1
  <2>3. draft' = G!Removed(draft, t) /\ tx' = G!Refreshed(tx, draft', G!None) /\ G!Fails(o.bad)
    BY <1>3, <2>2 DEF G!Answered, G!Shows
  <2>4. /\ draft' \in Disks /\ tx' \in Screens /\ tx'.current <= kept /\ tx'.pending <= kept
        /\ Traced(draft', tx'.list, kept) /\ G!CallIsEarned /\ G!Gone \subseteq t
    BY <2>3, RemovesPictures
  <2>5. GCounts'
    BY <1>1, <2>1, <2>3, GalleryFails DEF GInv, GCounts
  <2>6. GInv'
    BY <1>1, <2>4, <2>5, Comings, GalleryAgain, NoQuestionStands
  <2> QED
    BY <2>2, <2>4, <2>6
<1>4. CASE store.kind = "delete" /\ \E o \in G!RemoveReceived(draft, tx.current) : G!Answered(o)
  <2> DEFINE s == {tx.current} \cap G!Listed(draft)
  <2>1. PICK o \in G!Removals(draft, s, SUBSET s) : G!Answered(o)
    BY <1>4 DEF G!RemoveReceived
  <2>2. s \in SUBSET G!Images
    BY Comings, ListedImages
  <2>3. GInv' /\ G!CallIsEarned /\ G!Gone \subseteq s
    BY <1>3, <2>1, <2>2
  <2>4. G!Gone \subseteq {tx.current}
    BY <2>3
  <2>5. store.came < kept \/ ~draft[store.about].there \/ store.about = tx.current
    <3>1. store.came \in 0 .. Arrivals /\ kept \in 0 .. Arrivals /\ store.came <= kept
      BY Comings DEF Questions
    <3> QED
      BY <1>4, <3>1 DEF GInv, StillShown
  <2>6. G!ByRequest
    BY <1>4, <2>4, <2>5 DEF G!ByRequest
  <2> QED
    BY <1>1, <2>3, <2>6 DEF GSays, G!GalleryKeeps
<1>5. CASE store.kind = "clear" /\ \E o \in G!ClearUnstarred(draft) : G!Answered(o)
  <2> DEFINE s == G!Unstarred(draft)
  <2>1. PICK o \in G!Removals(draft, s, G!NewestFirst(s)) : G!Answered(o)
    BY <1>5 DEF G!ClearUnstarred
  <2>2. s \in SUBSET G!Images /\ G!NewestFirst(s) \in SUBSET SUBSET s
    BY Comings, ListedImages DEF G!NewestFirst
  <2>3. GInv' /\ G!CallIsEarned /\ G!Gone \subseteq s
    BY <1>3, <2>1, <2>2
  <2>4. G!ByRequest
    BY <1>5, <2>3 DEF G!ByRequest
  <2> QED
    BY <1>1, <2>3, <2>4 DEF GSays, G!GalleryKeeps
<1> QED
  BY <1>2, <1>4, <1>5 DEF G!Answer

LEMMA RetentionKeeps ==
  ASSUME NEW n \in Limits
  PROVE  GInv /\ G!SetRetention(n) => GInv' /\ GSays
<1> SUFFICES ASSUME GInv, G!SetRetention(n) PROVE GInv' /\ GSays
  OBVIOUS
<1>1. UNCHANGED <<store, kept, due, deaths>> /\ store = G!NoQuestion /\ safe' = n /\ n # safe
  BY DEF G!SetRetention, G!Operator
<1>2. PICK o \in G!EnforceRetention(draft, n) :
        G!Fails(o.bad) /\ draft' = o.disk /\ tx' = G!Refreshed(tx, o.disk, tx.current)
  BY DEF G!SetRetention, G!Shows
<1>3. n \in Nat
  BY GalleryBounds
<1>4. o.bad \in BOOLEAN
  BY <1>2, <1>3, Comings, RetentionRemoves
<1>5. PICK t \in SUBSET G!Unstarred(draft) :
        o.disk = G!Removed(draft, t) /\ \A i \in t, j \in G!Unstarred(draft) \ t : i < j
  BY <1>2, <1>3, Comings, RetentionRemoves
<1>6. /\ draft' \in Disks /\ tx' \in Screens /\ tx'.current <= kept /\ tx'.pending <= kept
      /\ Traced(draft', tx'.list, kept) /\ G!CallIsEarned
  BY <1>2, <1>5, RemovesPictures
<1>7. GCounts'
  BY <1>1, <1>2, <1>4, GalleryFails DEF GInv, GCounts
<1>8. GInv'
  BY <1>1, <1>6, <1>7, Comings, GalleryAgain, NoQuestionStands
<1>9. G!ForRoom
  BY <1>2, <1>5, Comings, GoneForRoom
<1> QED
  BY <1>1, <1>6, <1>8, <1>9 DEF GSays, G!GalleryKeeps

LEMMA GalleryDies == GInv /\ G!Die => GInv' /\ GSays
<1> SUFFICES ASSUME GInv, G!Die PROVE GInv' /\ GSays
  OBVIOUS
<1>1. /\ UNCHANGED <<draft, safe, kept, failures>> /\ store' = G!NoQuestion /\ due' = 0
      /\ deaths < Deaths /\ deaths' = deaths + 1 /\ tx' = G!Refreshed(G!EmptyScreen, draft, G!None)
  BY DEF G!Die, G!Shows, G!None
<1>2. G!EmptyScreen \in Screens /\ G!EmptyScreen.pending = 0
  BY NoneIsNumber, SomeRecords DEF G!EmptyScreen, Screens, Disks, G!Sources
<1>3. tx' \in Screens /\ tx'.current <= kept /\ tx'.pending <= kept /\ Traced(draft', tx'.list, kept)
  BY <1>1, <1>2, Comings, AfterRefresh
<1>4. GTypes'
  BY <1>1, <1>3, Comings, NoQuestionStands DEF GTypes
<1>5. GCounts'
  BY <1>1, Bounds DEF GInv, GCounts
<1>6. GInv'
  BY <1>1, <1>3, <1>4, <1>5, NoQuestionStands DEF GInv
<1> QED
  BY <1>1, <1>6, DiskAlone

----------------------------------------------------------------------------
OfGallery == part = "gallery" => GInv

LEMMA GallerySteps ==
  OfGallery /\ [AllNext]_all => OfGallery' /\ [part = "gallery" => GSays]_all
<1> SUFFICES ASSUME OfGallery, [AllNext]_all PROVE OfGallery' /\ [part = "gallery" => GSays]_all
  OBVIOUS
<1>1. part' = part
  BY DEF AllNext, Draft, Contacts, Reception, Gallery, all
<1>2. CASE part # "gallery"
  BY <1>1, <1>2 DEF OfGallery
<1>3. CASE part = "gallery" /\ UNCHANGED all
  <2>1. UNCHANGED <<draft, tx, store, safe, kept, due, failures, deaths>>
    BY <1>3 DEF all, vars, templates
  <2>2. GInv'
    BY <1>3, <2>1 DEF OfGallery, GInv, GTypes, GCounts
  <2> QED
    BY <1>3, <2>2 DEF OfGallery
<1>4. CASE part = "gallery" /\ AllNext
  <2>1. ~Draft /\ ~Contacts /\ ~Reception /\ GInv
    BY <1>4 DEF Draft, Contacts, Reception, OfGallery
  <2>2. \/ G!CompleteReceiveImage
        \/ \E source \in {"FSK ID", "CW ID"}, bad \in BOOLEAN : G!CallsignDetected(source, bad)
        \/ \E text \in {"", "call"} : G!Type(text)
        \/ \E bad \in BOOLEAN : G!SaveCurrentReceiveCallsign(bad)
        \/ \E i \in 1 .. Arrivals : G!SelectReceiveHistory(i)
        \/ \E bad \in BOOLEAN : G!ToggleStar(bad)
        \/ \E kind \in {"delete", "clear"} : G!Ask(kind)
        \/ \E yes \in BOOLEAN : G!Answer(yes)
        \/ \E n \in Limits : G!SetRetention(n)
        \/ G!Die
    BY <1>4, <2>1 DEF AllNext
  <2>3. GInv' /\ GSays
    BY <2>1, <2>2, ReceiveKeeps, DetectedKeeps, TypeKeeps, CorrectKeeps, SelectKeeps, StarKeeps,
       AskKeeps, AnswerKeeps, RetentionKeeps, GalleryDies DEF G!Images
  <2> QED
    BY <1>4, <2>3 DEF OfGallery
<1> QED
  BY <1>2, <1>3, <1>4

(***************************************************************************)
(* No picture goes but for want of room, the oldest unstarred ones first,  *)
(* or because the operator asked for just that, whatever is received and   *)
(* whatever fails meanwhile.                                               *)
(***************************************************************************)
THEOREM KeepsPictures == AllSpec => PicturesAreKept
<1>1. AllInit => OfGallery
  BY GalleryBegins DEF AllInit, OfGallery
<1>2. OfGallery /\ [AllNext]_all => OfGallery' /\ [part = "gallery" => G!GalleryKeeps]_all
  BY GallerySteps DEF GSays
<1> QED
  BY <1>1, <1>2, PTL DEF AllSpec, PicturesAreKept

(***************************************************************************)
(* A callsign that was heard never takes the place of the operator's, nor  *)
(* a CW one that of an FSK one, and goes to the picture it followed.       *)
(***************************************************************************)
THEOREM EarnsCalls == AllSpec => CallsAreEarned
<1>1. AllInit => OfGallery
  BY GalleryBegins DEF AllInit, OfGallery
<1>2. OfGallery /\ [AllNext]_all => OfGallery' /\ [part = "gallery" => G!CallIsEarned]_all
  BY GallerySteps DEF GSays
<1> QED
  BY <1>1, <1>2, PTL DEF AllSpec, CallsAreEarned

----------------------------------------------------------------------------
(***************************************************************************)
(* A station's session: who is armed has a message of its own to send, and *)
(* not too often; who has a partner has one to send.                       *)
(***************************************************************************)
Sendable ==
  [to : Stations \cup {"CQ"}, from : Stations, kind : Q!Kinds \cup {"cq"}, report : Snr \cup {Q!None}]
HeardBy(me) == {d \in Q!Decodes : d.message.from # me}

Sessions ==
  [armed : BOOLEAN, dx : Stations \cup {Q!None}, next : Q!Messages, sent : Snr \cup {Q!None},
   received : Snr \cup {Q!None}, callingCq : BOOLEAN, complete : BOOLEAN, retries : 0 .. MaxRetries,
   lastSent : Q!Messages, lastId : Q!Messages, even : BOOLEAN]

Own(me, m) == m \in Sendable /\ m.from = me
Sound(me, s) ==
  /\ s.dx \in (Stations \ {me}) \cup {Q!None}
  /\ s.dx # Q!None => Own(me, s.next)
  /\ s.armed => ~s.complete /\ s.retries < MaxRetries /\ Own(me, s.next)
SessionsOf(me) == {s \in Sessions : Sound(me, s)}

QTypes ==
  /\ DOMAIN tx = Stations /\ \A me \in Stations : tx[me] \in SessionsOf(me)
  /\ DOMAIN dirty = Stations /\ \A me \in Stations : dirty[me] = Q!NoMessage \/ Own(me, dirty[me])
  /\ DOMAIN due = Stations /\ \A me \in Stations : due[me] \in Seq(HeardBy(me))
  /\ DOMAIN draft = Stations /\ \A me \in Stations : draft[me] \subseteq HeardBy(me)
OnAir ==
  /\ safe.even \in BOOLEAN /\ safe.sent \subseteq Sendable
  /\ \A m \in safe.sent : m.from \in safe.deaf

QInv == QTypes /\ OnAir /\ Q!SentAsShown

----------------------------------------------------------------------------
(***************************************************************************)
(* Ft8Session: every operation leaves a sound session.                     *)
(***************************************************************************)
LEMMA NoMessageIsMessage == Q!NoMessage \in Q!Messages /\ Q!NoMessage \notin Sendable
BY DEF Q!NoMessage, Q!Messages, Q!Message, Q!None, Sendable, Q!Kinds

LEMMA SendableIsMessage == Sendable \subseteq Q!Messages
BY DEF Sendable, Q!Messages

LEMMA MadeMessages ==
  ASSUME NEW to \in Stations \cup {"CQ"}, NEW me \in Stations, NEW kind \in Q!Kinds \cup {"cq"},
         NEW report \in Snr \cup {Q!None}
  PROVE  Own(me, Q!Message(to, me, kind, report))
BY DEF Own, Sendable, Q!Message

\* A field that is set to what it may be.
LEMMA SessionFields ==
  ASSUME NEW s \in Sessions
  PROVE  /\ \A b \in BOOLEAN : /\ [s EXCEPT !.armed = b] \in Sessions /\ [s EXCEPT !.callingCq = b] \in Sessions
                               /\ [s EXCEPT !.complete = b] \in Sessions /\ [s EXCEPT !.even = b] \in Sessions
         /\ \A d \in Stations \cup {Q!None} : [s EXCEPT !.dx = d] \in Sessions
         /\ \A m \in Q!Messages : /\ [s EXCEPT !.next = m] \in Sessions /\ [s EXCEPT !.lastSent = m] \in Sessions
                                  /\ [s EXCEPT !.lastId = m] \in Sessions
         /\ \A r \in Snr \cup {Q!None} : /\ [s EXCEPT !.sent = r] \in Sessions
                                          /\ [s EXCEPT !.received = r] \in Sessions
         /\ \A n \in 0 .. MaxRetries : [s EXCEPT !.retries = n] \in Sessions
BY DEF Sessions

LEMMA Zeros == 0 \in 0 .. MaxRetries /\ 1 \in 0 .. MaxRetries /\ 0 < MaxRetries
BY ContactBounds

LEMMA ClearedIsSound ==
  ASSUME NEW me, NEW s \in Sessions
  PROVE  /\ Q!Cleared(s) \in Sessions /\ Q!Cleared(s).armed = FALSE /\ Q!Cleared(s).dx = Q!None
         /\ Q!Cleared(s).complete = FALSE /\ Q!Cleared(s).retries = 0 /\ Q!Cleared(s).lastSent = Q!NoMessage
<1>1. [s EXCEPT !.armed = FALSE, !.dx = Q!None] \in Sessions
  BY SessionFields
<1>2. [s EXCEPT !.armed = FALSE, !.dx = Q!None, !.next = Q!NoMessage, !.sent = Q!None] \in Sessions
  <2>1. [s EXCEPT !.armed = FALSE, !.dx = Q!None, !.next = Q!NoMessage] \in Sessions
    BY <1>1, SessionFields, NoMessageIsMessage
  <2> QED
    BY <2>1, SessionFields
<1>3. [s EXCEPT !.armed = FALSE, !.dx = Q!None, !.next = Q!NoMessage, !.sent = Q!None, !.received = Q!None,
                !.callingCq = FALSE] \in Sessions
  <2>1. [s EXCEPT !.armed = FALSE, !.dx = Q!None, !.next = Q!NoMessage, !.sent = Q!None,
                  !.received = Q!None] \in Sessions
    BY <1>2, SessionFields
  <2> QED
    BY <2>1, SessionFields
<1> DEFINE t == [s EXCEPT !.armed = FALSE, !.dx = Q!None, !.next = Q!NoMessage, !.sent = Q!None,
                          !.received = Q!None, !.callingCq = FALSE]
<1>4. t.armed = FALSE /\ t.dx = Q!None
  BY DEF Sessions
<1>5. Q!Cleared(s) = [t EXCEPT !.complete = FALSE, !.retries = 0, !.lastSent = Q!NoMessage, !.lastId = Q!NoMessage]
  BY DEF Q!Cleared
<1> HIDE DEF t
<1>6. t \in Sessions
  BY <1>3 DEF t
<1>7. [t EXCEPT !.complete = FALSE, !.retries = 0] \in Sessions
  <2>1. [t EXCEPT !.complete = FALSE] \in Sessions
    BY <1>6, SessionFields
  <2> QED
    BY <2>1, SessionFields, Zeros
<1>8. [t EXCEPT !.complete = FALSE, !.retries = 0, !.lastSent = Q!NoMessage, !.lastId = Q!NoMessage] \in Sessions
  <2>1. [t EXCEPT !.complete = FALSE, !.retries = 0, !.lastSent = Q!NoMessage] \in Sessions
    BY <1>7, SessionFields, NoMessageIsMessage
  <2> QED
    BY <2>1, SessionFields, NoMessageIsMessage
<1> QED
  BY <1>4, <1>5, <1>6, <1>8 DEF Sessions

LEMMA SelectIsSound ==
  ASSUME NEW me \in Stations, NEW s \in Sessions, NEW d \in HeardBy(me)
  PROVE  LET t == Q!Select(me, s, d)
         IN /\ t \in SessionsOf(me) /\ t.armed = FALSE /\ t.complete = FALSE /\ t.retries = 0
            /\ t.dx = d.message.from /\ Own(me, t.next)
<1> DEFINE m == d.message
           c == Q!Cleared(s)
           got == IF m.to = me /\ m.kind = "report" THEN m.report ELSE Q!None
           next == IF d.snr # Q!None /\ m.to = me /\ m.kind = "grid" THEN Q!Message(m.from, me, "report", d.snr)
                   ELSE IF d.snr # Q!None /\ m.to = me /\ m.kind = "report" THEN Q!Message(m.from, me, "Rreport", d.snr)
                   ELSE Q!Message(m.from, me, "grid", Q!None)
           even == ~d.even
           t == [c EXCEPT !.dx = m.from, !.even = even, !.sent = d.snr, !.received = got, !.next = next]
<1>1. /\ m.from \in Stations /\ m.from # me /\ d.snr \in Snr /\ m.report \in Snr \cup {Q!None}
      /\ even \in BOOLEAN /\ got \in Snr \cup {Q!None}
  BY DEF HeardBy, Q!Decodes
<1>2. Own(me, next)
  <2>1. "report" \in Q!Kinds \cup {"cq"} /\ "Rreport" \in Q!Kinds \cup {"cq"} /\ "grid" \in Q!Kinds \cup {"cq"}
    BY DEF Q!Kinds
  <2> QED
    BY <1>1, <2>1, MadeMessages
<1>3. Q!Select(me, s, d) = t
  BY DEF Q!Select
<1> HIDE DEF got, next, even, m, c
<1>4. /\ c \in Sessions /\ c.armed = FALSE /\ c.complete = FALSE /\ c.retries = 0
  BY ClearedIsSound DEF c
<1>5. t \in Sessions
  <2>1. [c EXCEPT !.dx = m.from, !.even = even] \in Sessions
    <3>1. [c EXCEPT !.dx = m.from] \in Sessions
      BY <1>1, <1>4, SessionFields
    <3> QED
      BY <1>1, <3>1, SessionFields
  <2>2. [c EXCEPT !.dx = m.from, !.even = even, !.sent = d.snr] \in Sessions
    BY <1>1, <2>1, SessionFields
  <2>3. [c EXCEPT !.dx = m.from, !.even = even, !.sent = d.snr, !.received = got] \in Sessions
    BY <1>1, <2>2, SessionFields
  <2>4. next \in Q!Messages
    BY <1>2, SendableIsMessage DEF Own
  <2> QED
    BY <2>3, <2>4, SessionFields
<1>6. /\ t.armed = FALSE /\ t.complete = FALSE /\ t.retries = 0 /\ t.dx = m.from /\ t.next = next
  BY <1>4 DEF Sessions
<1> HIDE DEF t
<1>7. t \in SessionsOf(me)
  BY <1>1, <1>2, <1>5, <1>6 DEF SessionsOf, Sound
<1> QED
  BY <1>2, <1>3, <1>6, <1>7 DEF m

LEMMA ArmedIsSound ==
  ASSUME NEW me, NEW s \in Sessions, Sound(me, s), Own(me, s.next), ~s.complete
  PROVE  /\ Q!Armed(s) \in SessionsOf(me) /\ [s EXCEPT !.armed = TRUE, !.retries = 0] \in SessionsOf(me)
         /\ s.retries < MaxRetries =>
              [s EXCEPT !.armed = TRUE] \in SessionsOf(me) /\ [s EXCEPT !.armed = TRUE].next = s.next
<1> DEFINE t == [s EXCEPT !.armed = TRUE, !.retries = 0]
           u == [s EXCEPT !.armed = TRUE]
<1>1. u \in Sessions
  BY SessionFields
<1>2. t \in Sessions
  BY <1>1, SessionFields, Zeros
<1>3. [t EXCEPT !.lastSent = Q!NoMessage] \in Sessions
  <2> HIDE DEF t
  <2> QED
    BY <1>2, SessionFields, NoMessageIsMessage
<1>4. Q!Armed(s) = [t EXCEPT !.lastSent = Q!NoMessage]
  BY DEF Q!Armed
<1>5. /\ t.dx = s.dx /\ t.next = s.next /\ t.complete = s.complete /\ t.retries = 0
      /\ u.dx = s.dx /\ u.next = s.next /\ u.complete = s.complete /\ u.retries = s.retries
  BY DEF Sessions
<1>6. /\ [t EXCEPT !.lastSent = Q!NoMessage].dx = s.dx /\ [t EXCEPT !.lastSent = Q!NoMessage].next = s.next
      /\ [t EXCEPT !.lastSent = Q!NoMessage].complete = s.complete
      /\ [t EXCEPT !.lastSent = Q!NoMessage].retries = 0
  BY DEF Sessions
<1> HIDE DEF t, u
<1>7. Q!Armed(s) \in SessionsOf(me)
  BY <1>3, <1>4, <1>6, Zeros DEF SessionsOf, Sound
<1>8. t \in SessionsOf(me)
  BY <1>2, <1>5, Zeros DEF SessionsOf, Sound
<1>9. s.retries < MaxRetries => u \in SessionsOf(me)
  BY <1>1, <1>5 DEF SessionsOf, Sound
<1> QED
  BY <1>5, <1>7, <1>8, <1>9 DEF t, u

LEMMA HaltedIsSound ==
  ASSUME NEW me, NEW s \in Sessions, s.dx \in (Stations \ {me}) \cup {Q!None}, s.dx # Q!None => Own(me, s.next)
  PROVE  Q!Halted(s) \in SessionsOf(me) /\ Q!Halted(s).armed = FALSE
<1>1. Q!Halted(s) \in Sessions
  BY SessionFields DEF Q!Halted
<1>2. Q!Halted(s).dx = s.dx /\ Q!Halted(s).next = s.next /\ Q!Halted(s).armed = FALSE
  BY DEF Sessions, Q!Halted
<1> QED
  BY <1>1, <1>2 DEF SessionsOf, Sound

LEMMA AlikeIsSound ==
  ASSUME NEW me, NEW s, Sound(me, s), NEW t \in Sessions, t.dx = s.dx, t.next = s.next, t.armed = s.armed,
         t.complete = s.complete, t.retries = s.retries
  PROVE  t \in SessionsOf(me)
BY DEF SessionsOf, Sound

LEMMA AnswerIsOwn ==
  ASSUME NEW me \in Stations, NEW s \in Sessions, s.dx \in Stations, NEW m
  PROVE  Q!Answer(me, s, m) = Q!NoMessage \/ Own(me, Q!Answer(me, s, m))
<1> DEFINE Directed(kind, report) == Q!Message(s.dx, me, kind, report)
<1>1. \A kind \in Q!Kinds : \A report \in Snr \cup {Q!None} : Own(me, Directed(kind, report))
  BY MadeMessages
<1>2. s.sent \in Snr \cup {Q!None}
  BY DEF Sessions
<1>3. \E kind \in Q!Kinds : \E report \in {s.sent, Q!None} :
        Q!Answer(me, s, m) \in {Q!NoMessage, Directed(kind, report)}
  BY DEF Q!Answer, Q!Kinds
<1> HIDE DEF Directed
<1> QED
  BY <1>1, <1>2, <1>3

LEMMA ReceiveIsSound ==
  ASSUME NEW me \in Stations, NEW s \in SessionsOf(me), NEW d \in HeardBy(me)
  PROVE  Q!Receive(me, s, d) \in SessionsOf(me)
<1> DEFINE m == d.message
           first == s.dx = Q!None /\ s.callingCq /\ me \in CallFirst
           chosen == IF first THEN [Q!Select(me, s, d) EXCEPT !.armed = TRUE] ELSE s
           snr == IF chosen.sent = Q!None THEN d.snr ELSE chosen.sent
           heard == [chosen EXCEPT !.lastId = m, !.sent = snr]
           next == Q!Answer(me, heard, m)
           told == Q!Received(heard, m)
           got == [heard EXCEPT !.received = told]
           over == [heard EXCEPT !.complete = TRUE]
<1>1. s \in Sessions /\ Sound(me, s)
  BY DEF SessionsOf
<1>2. chosen \in Sessions /\ Sound(me, chosen)
  <2>1. CASE first
    <3> DEFINE t == Q!Select(me, s, d)
    <3>1. t \in SessionsOf(me) /\ t.complete = FALSE /\ t.retries = 0 /\ Own(me, t.next)
      BY <1>1, SelectIsSound
    <3> HIDE DEF t
    <3>2. [t EXCEPT !.armed = TRUE] \in SessionsOf(me)
      BY <3>1, Zeros, ArmedIsSound DEF SessionsOf
    <3> QED
      BY <2>1, <3>2 DEF SessionsOf, t
  <2>2. CASE ~first
    BY <1>1, <2>2
  <2> QED
    BY <2>1, <2>2
<1>3. m \in Q!Messages /\ m.from \in Stations /\ m.report \in Snr \cup {Q!None} /\ d.snr \in Snr
  BY DEF HeardBy, Q!Decodes, Q!Messages
<1> HIDE DEF chosen, first, m
<1>4. snr \in Snr \cup {Q!None}
  BY <1>2, <1>3 DEF Sessions
<1> HIDE DEF snr
<1>5. heard \in Sessions
  <2>1. [chosen EXCEPT !.lastId = m] \in Sessions
    BY <1>2, <1>3, SessionFields
  <2> QED
    BY <1>4, <2>1, SessionFields
<1>6. /\ heard.dx = chosen.dx /\ heard.next = chosen.next /\ heard.armed = chosen.armed
      /\ heard.complete = chosen.complete /\ heard.retries = chosen.retries
  BY <1>2 DEF Sessions
<1> HIDE DEF heard
<1>7. heard \in SessionsOf(me)
  BY <1>2, <1>5, <1>6, AlikeIsSound
<1>8. told \in Snr \cup {Q!None}
  BY <1>3, <1>5 DEF Q!Received, Sessions
<1> HIDE DEF told
<1>9. got \in SessionsOf(me)
  <2>1. got \in Sessions
    BY <1>5, <1>8, SessionFields
  <2>2. /\ got.dx = heard.dx /\ got.next = heard.next /\ got.armed = heard.armed
        /\ got.complete = heard.complete /\ got.retries = heard.retries
    BY <1>5 DEF Sessions
  <2> HIDE DEF got
  <2> QED
    BY <1>7, <2>1, <2>2, AlikeIsSound DEF SessionsOf
<1>10. Q!Halted(over) \in SessionsOf(me)
  <2>1. over \in Sessions
    BY <1>5, SessionFields
  <2>2. over.dx = heard.dx /\ over.next = heard.next
    BY <1>5 DEF Sessions
  <2> HIDE DEF over
  <2> QED
    BY <1>7, <2>1, <2>2, HaltedIsSound DEF SessionsOf, Sound
<1> HIDE DEF got, over
<1>11. ASSUME m.from = chosen.dx, next # Q!NoMessage PROVE Q!Answered(got, next) \in SessionsOf(me)
  <2>1. Own(me, next)
    BY <1>3, <1>5, <1>6, <1>11, AnswerIsOwn
  <2> HIDE DEF next
  <2> DEFINE n == IF next = got.next THEN got.retries ELSE 0
             t == [got EXCEPT !.next = next]
  <2>2. got \in Sessions /\ Sound(me, got)
    BY <1>9 DEF SessionsOf
  <2>3. n \in 0 .. MaxRetries /\ (got.armed => n < MaxRetries)
    BY <2>2, Zeros DEF Sound, Sessions
  <2>4. t \in Sessions
    BY <2>1, <2>2, SessionFields, SendableIsMessage DEF Own
  <2>5. Q!Answered(got, next) = [t EXCEPT !.retries = n]
    BY DEF Q!Answered
  <2> HIDE DEF n
  <2>6. [t EXCEPT !.retries = n] \in Sessions
    <3> HIDE DEF t
    <3> QED
      BY <2>3, <2>4, SessionFields
  <2>7. /\ [t EXCEPT !.retries = n].dx = got.dx /\ [t EXCEPT !.retries = n].next = next
        /\ [t EXCEPT !.retries = n].armed = got.armed /\ [t EXCEPT !.retries = n].complete = got.complete
        /\ [t EXCEPT !.retries = n].retries = n
    BY <2>2 DEF Sessions
  <2> HIDE DEF t
  <2> QED
    BY <2>1, <2>2, <2>3, <2>5, <2>6, <2>7 DEF SessionsOf, Sound
<1>12. \/ Q!Receive(me, s, d) \in {s, chosen, Q!Halted(over), got}
       \/ m.from = chosen.dx /\ next # Q!NoMessage /\ Q!Receive(me, s, d) = Q!Answered(got, next)
  BY DEF Q!Receive, m, first, chosen, snr, heard, told, got, over
<1> HIDE DEF next
<1> QED
  BY <1>1, <1>2, <1>9, <1>10, <1>11, <1>12 DEF SessionsOf

LEMMA SentIsSound ==
  ASSUME NEW me \in Stations, NEW s \in SessionsOf(me), s.armed
  PROVE  Q!Sent(s) \in SessionsOf(me)
<1> DEFINE n == Q!Times(s)
           done == s.next.kind \in {"73", "RR73"} /\ s.received # Q!None
           on == ~done /\ ~Q!Limit(n)
           t == [s EXCEPT !.retries = n, !.lastSent = s.next, !.complete = done]
<1>1. s \in Sessions /\ Sound(me, s) /\ s.retries < MaxRetries /\ Own(me, s.next)
  BY DEF SessionsOf, Sound
<1>2. n \in 0 .. MaxRetries
  BY <1>1, Zeros, ContactBounds DEF Q!Times, Sessions
<1>3. done \in BOOLEAN /\ on \in BOOLEAN /\ (on => ~done /\ n < MaxRetries)
  BY <1>2, ContactBounds DEF Q!Limit
<1>4. Q!Sent(s) = [t EXCEPT !.armed = on]
  BY DEF Q!Sent
<1> HIDE DEF n, done, on
<1>5. t \in Sessions
  <2>1. [s EXCEPT !.retries = n] \in Sessions
    BY <1>1, <1>2, SessionFields
  <2>2. [s EXCEPT !.retries = n, !.lastSent = s.next] \in Sessions
    BY <1>1, <2>1, SessionFields, SendableIsMessage DEF Own
  <2> QED
    BY <1>3, <2>2, SessionFields
<1>6. t.dx = s.dx /\ t.next = s.next /\ t.complete = done /\ t.retries = n
  BY <1>1 DEF Sessions
<1> HIDE DEF t
<1>7. [t EXCEPT !.armed = on] \in Sessions
  BY <1>3, <1>5, SessionFields
<1>8. /\ [t EXCEPT !.armed = on].dx = s.dx /\ [t EXCEPT !.armed = on].next = s.next
      /\ [t EXCEPT !.armed = on].complete = done /\ [t EXCEPT !.armed = on].retries = n
      /\ [t EXCEPT !.armed = on].armed = on
  BY <1>5, <1>6 DEF Sessions
<1> QED
  BY <1>1, <1>3, <1>4, <1>7, <1>8 DEF SessionsOf, Sound

(***************************************************************************)
(* Steps taken one after the other.                                        *)
(***************************************************************************)
Steps(n, S) == [(1 .. n) \X S -> S]
Iterated(g, n, a, st) == g[0] = a /\ \A i \in 1 .. n : g[i] = st[<<i, g[i - 1]>>]

LEMMA Iterates ==
  ASSUME NEW S, NEW a \in S, NEW n \in Nat, NEW st \in Steps(n, S)
  PROVE  \E g \in [0 .. n -> S] : Iterated(g, n, a, st)
<1> USE DEF Iterated, Steps
<1> DEFINE Good(g, k) == g[0] = a /\ \A i \in 1 .. k : g[i] = st[<<i, g[i - 1]>>]
           T == {k \in Nat : k <= n => \E g \in [0 .. k -> S] : Good(g, k)}
<1>1. 0 \in T
  <2> DEFINE g == [i \in 0 .. 0 |-> a]
  <2>1. g \in [0 .. 0 -> S] /\ Good(g, 0)
    OBVIOUS
  <2> HIDE DEF g, Good
  <2> QED
    BY <2>1
<1>2. ASSUME NEW k \in T PROVE k + 1 \in T
  <2>1. k \in Nat /\ k + 1 \in Nat
    OBVIOUS
  <2> SUFFICES ASSUME k + 1 <= n PROVE \E g \in [0 .. k + 1 -> S] : Good(g, k + 1)
    BY <2>1
  <2>2. PICK g \in [0 .. k -> S] : Good(g, k)
    BY <2>1
  <2> DEFINE next == st[<<k + 1, g[k]>>]
             h == [i \in 0 .. k + 1 |-> IF i <= k THEN g[i] ELSE next]
  <2>3. next \in S
    BY <2>1
  <2> HIDE DEF next
  <2>4. h \in [0 .. k + 1 -> S]
    BY <2>1, <2>3
  <2>5. h[0] = a
    BY <2>1, <2>2
  <2>6. ASSUME NEW i \in 1 .. k + 1 PROVE h[i] = st[<<i, h[i - 1]>>]
    <3>1. CASE i <= k
      <4>1. i \in 1 .. k /\ i - 1 \in 0 .. k
        BY <2>1, <3>1
      <4>2. h[i] = g[i] /\ h[i - 1] = g[i - 1]
        BY <2>1, <4>1
      <4> QED
        BY <2>2, <4>1, <4>2
    <3>2. CASE i = k + 1
      BY <2>1, <3>2 DEF next
    <3> QED
      BY <2>1, <3>1, <3>2
  <2> HIDE DEF h
  <2> QED
    BY <2>4, <2>5, <2>6
<1>3. T \in SUBSET Nat
  OBVIOUS
<1> HIDE DEF T
<1>4. n \in T
  BY <1>1, <1>2, <1>3, EveryNumber
<1> QED
  BY <1>4 DEF T

LEMMA FinishedIsSound ==
  ASSUME NEW me \in Stations, tx[me] \in SessionsOf(me), due[me] \in Seq(HeardBy(me))
  PROVE  Q!Finished(me) \in SessionsOf(me)
<1>1. CASE Q!Succeeds(me)
  <2> DEFINE q == due[me]
             s0 == Q!Sent(tx[me])
             Replies(f) == [n \in 0 .. Len(q) |-> IF n = 0 THEN s0 ELSE Q!Receive(me, f[n - 1], q[n])]
             h == CHOOSE f : f = Replies(f)
             st == [p \in (1 .. Len(q)) \X SessionsOf(me) |-> Q!Receive(me, p[2], q[p[1]])]
  <2>1. s0 \in SessionsOf(me)
    BY <1>1, SentIsSound DEF Q!Succeeds
  <2>2. Len(q) \in Nat /\ \A n \in 1 .. Len(q) : q[n] \in HeardBy(me)
    OBVIOUS
  <2>3. Q!Finished(me) = h[Len(q)]
    BY <1>1 DEF Q!Finished, Q!After
  <2> HIDE DEF q, s0
  <2>4. \A n \in 1 .. Len(q) : \A s \in SessionsOf(me) : Q!Receive(me, s, q[n]) \in SessionsOf(me)
    BY <2>2, ReceiveIsSound
  <2>5. /\ st \in Steps(Len(q), SessionsOf(me))
        /\ \A n \in 1 .. Len(q) : \A s \in SessionsOf(me) : st[<<n, s>>] = Q!Receive(me, s, q[n])
    BY <2>4 DEF Steps
  <2> HIDE DEF st
  <2>6. PICK g \in [0 .. Len(q) -> SessionsOf(me)] : Iterated(g, Len(q), s0, st)
    BY <2>1, <2>2, <2>5, Iterates
  <2>7. g[0] = s0 /\ \A i \in 1 .. Len(q) : g[i] = st[<<i, g[i - 1]>>]
    BY <2>6 DEF Iterated
  <2>8. g = Replies(g)
    <3>1. DOMAIN g = 0 .. Len(q) /\ g = [n \in 0 .. Len(q) |-> g[n]]
      OBVIOUS
    <3>2. ASSUME NEW n \in 0 .. Len(q) PROVE g[n] = IF n = 0 THEN s0 ELSE Q!Receive(me, g[n - 1], q[n])
      <4>1. CASE n = 0
        BY <2>7, <4>1
      <4>2. CASE n # 0
        <5>1. n \in 1 .. Len(q) /\ n - 1 \in 0 .. Len(q)
          BY <2>2, <4>2
        <5> QED
          BY <2>5, <2>7, <4>2, <5>1
      <4> QED
        BY <4>1, <4>2
    <3> QED
      BY <3>1, <3>2
  <2>9. h = Replies(h)
    <3> HIDE DEF Replies
    <3> QED
      BY <2>8
  <2> HIDE DEF h
  <2>10. \A n \in 0 .. Len(q) : h[n] = IF n = 0 THEN s0 ELSE Q!Receive(me, h[n - 1], q[n])
    <3>1. \A n \in 0 .. Len(q) : Replies(h)[n] = IF n = 0 THEN s0 ELSE Q!Receive(me, h[n - 1], q[n])
      OBVIOUS
    <3> HIDE DEF Replies
    <3> QED
      BY <2>9, <3>1
  <2> HIDE DEF Replies
  <2> DEFINE T == {k \in Nat : k <= Len(q) => h[k] \in SessionsOf(me)}
  <2>11. 0 \in T
    BY <2>1, <2>2, <2>10
  <2>12. ASSUME NEW k \in T PROVE k + 1 \in T
    <3>1. k \in Nat /\ k + 1 \in Nat /\ k + 1 # 0 /\ (k + 1) - 1 = k
      OBVIOUS
    <3> SUFFICES ASSUME k + 1 <= Len(q) PROVE h[k + 1] \in SessionsOf(me)
      BY <3>1
    <3>2. h[k] \in SessionsOf(me) /\ k + 1 \in 1 .. Len(q) /\ k + 1 \in 0 .. Len(q)
      BY <2>2, <3>1
    <3> QED
      BY <2>4, <2>10, <3>1, <3>2
  <2>13. Len(q) \in T
    <3>1. T \in SUBSET Nat
      OBVIOUS
    <3> HIDE DEF T
    <3> QED
      BY <2>2, <2>11, <2>12, <3>1, EveryNumber
  <2> QED
    BY <2>2, <2>3, <2>13
<1>2. CASE ~Q!Succeeds(me)
  BY <1>2, HaltedIsSound DEF Q!Finished, SessionsOf, Sound
<1> QED
  BY <1>1, <1>2

----------------------------------------------------------------------------
(***************************************************************************)
(* The steps of the screens and of the clock.                              *)
(***************************************************************************)
LEMMA ContactsBegin == Q!Init => QInv
<1> SUFFICES ASSUME Q!Init PROVE QInv
  OBVIOUS
<1>1. ASSUME NEW me \in Stations PROVE tx[me] \in SessionsOf(me)
  BY NoMessageIsMessage, Zeros DEF Q!Init, SessionsOf, Sessions, Sound
<1>2. QTypes
  <2>1. DOMAIN tx = Stations /\ DOMAIN dirty = Stations /\ DOMAIN due = Stations /\ DOMAIN draft = Stations
    BY DEF Q!Init
  <2>2. \A me \in Stations : dirty[me] = Q!NoMessage \/ Own(me, dirty[me])
    BY DEF Q!Init
  <2>3. ASSUME NEW me \in Stations PROVE due[me] \in Seq(HeardBy(me))
    <3>1. due[me] = <<>>
      BY DEF Q!Init
    <3>2. <<>> \in Seq(HeardBy(me))
      OBVIOUS
    <3> QED
      BY <3>1, <3>2
  <2>4. ASSUME NEW me \in Stations PROVE draft[me] \subseteq HeardBy(me)
    BY DEF Q!Init
  <2> QED
    BY <1>1, <2>1, <2>2, <2>3, <2>4 DEF QTypes
<1>3. OnAir /\ Q!SentAsShown
  BY DEF Q!Init, OnAir, Q!SentAsShown, Q!Pending
<1> QED
  BY <1>2, <1>3 DEF QInv

\* One session changes: that of a station that is not sending, or of one that stops.
LEMMA SessionChanges ==
  ASSUME QInv, NEW me \in Stations, NEW s \in SessionsOf(me), tx' = [tx EXCEPT ![me] = s],
         UNCHANGED <<dirty, due, draft, safe>>, ~Q!Pending(me) \/ s.armed = FALSE
  PROVE  QInv'
<1>1. DOMAIN tx' = Stations /\ tx'[me] = s /\ \A x \in Stations : x # me => tx'[x] = tx[x]
  BY DEF QInv, QTypes
<1>2. QTypes'
  BY <1>1 DEF QInv, QTypes
<1>3. OnAir'
  BY DEF QInv, OnAir
<1>4. Q!SentAsShown'
  BY <1>1 DEF QInv, Q!SentAsShown, Q!Pending
<1> QED
  BY <1>2, <1>3, <1>4 DEF QInv

LEMMA OperatorsKeep ==
  ASSUME NEW me \in Stations
  PROVE  /\ \A d \in draft[me] : QInv /\ Q!SelectStation(me, d) => QInv'
         /\ QInv /\ Q!CallCq(me) => QInv'
         /\ QInv /\ Q!Call(me) => QInv'
         /\ QInv /\ Q!Halt(me) => QInv'
<1>1. ASSUME QInv PROVE tx[me] \in Sessions /\ Sound(me, tx[me]) /\ draft[me] \subseteq HeardBy(me)
  BY <1>1 DEF QInv, QTypes, SessionsOf
<1>2. ASSUME NEW d \in draft[me], QInv, Q!SelectStation(me, d) PROVE QInv'
  <2> DEFINE s == Q!Select(me, tx[me], d)
  <2>1. s \in Sessions /\ Sound(me, s) /\ s.complete = FALSE /\ Own(me, s.next)
    BY <1>1, <1>2, SelectIsSound DEF SessionsOf
  <2>2. /\ tx' = [tx EXCEPT ![me] = Q!Armed(s)] /\ ~Q!Pending(me)
        /\ UNCHANGED <<dirty, due, draft, safe>>
    BY <1>2 DEF Q!SelectStation, Q!OperatorActs
  <2> HIDE DEF s
  <2>3. Q!Armed(s) \in SessionsOf(me)
    BY <2>1, ArmedIsSound
  <2> QED
    BY <1>2, <2>2, <2>3, SessionChanges
<1>3. ASSUME QInv, Q!CallCq(me) PROVE QInv'
  <2> DEFINE c == Q!Cleared(tx[me])
             m == Q!Message("CQ", me, "cq", Q!None)
             s == [c EXCEPT !.callingCq = TRUE, !.next = m]
  <2>1. c \in Sessions /\ c.armed = FALSE /\ c.dx = Q!None /\ c.complete = FALSE
    BY <1>1, <1>3, ClearedIsSound
  <2>2. Own(me, m) /\ m \in Q!Messages
    BY MadeMessages, SendableIsMessage DEF Own
  <2>3. /\ tx' = [tx EXCEPT ![me] = Q!Armed(s)] /\ ~Q!Pending(me)
        /\ UNCHANGED <<dirty, due, draft, safe>>
    BY <1>3 DEF Q!CallCq, Q!OperatorActs
  <2> HIDE DEF c, m
  <2>4. s \in Sessions
    <3>1. [c EXCEPT !.callingCq = TRUE] \in Sessions
      BY <2>1, SessionFields
    <3> QED
      BY <2>2, <3>1, SessionFields
  <2>5. s.dx = Q!None /\ s.next = m /\ s.armed = FALSE /\ s.complete = FALSE
    BY <2>1 DEF Sessions
  <2> HIDE DEF s
  <2>6. Sound(me, s)
    BY <2>5 DEF Sound
  <2>7. Q!Armed(s) \in SessionsOf(me)
    BY <2>2, <2>4, <2>5, <2>6, ArmedIsSound
  <2> QED
    BY <1>3, <2>3, <2>7, SessionChanges
<1>4. ASSUME QInv, Q!Call(me) PROVE QInv'
  <2>1. /\ tx' = [tx EXCEPT ![me] = Q!Armed(tx[me])] /\ ~Q!Pending(me)
        /\ tx[me].dx # Q!None /\ ~tx[me].complete /\ UNCHANGED <<dirty, due, draft, safe>>
    BY <1>4 DEF Q!Call, Q!OperatorActs
  <2>2. Q!Armed(tx[me]) \in SessionsOf(me)
    BY <1>1, <1>4, <2>1, ArmedIsSound DEF Sound
  <2> QED
    BY <1>4, <2>1, <2>2, SessionChanges
<1>5. ASSUME QInv, Q!Halt(me) PROVE QInv'
  <2>1. tx' = [tx EXCEPT ![me] = Q!Halted(tx[me])] /\ UNCHANGED <<dirty, due, draft, safe>>
    BY <1>5 DEF Q!Halt, Q!OperatorActs
  <2>2. Q!Halted(tx[me]) \in SessionsOf(me) /\ Q!Halted(tx[me]).armed = FALSE
    BY <1>1, <1>5, HaltedIsSound DEF Sound
  <2> QED
    BY <1>5, <2>1, <2>2, SessionChanges
<1> QED
  BY <1>2, <1>3, <1>4, <1>5

\* The next message is the one that goes on the air.
LEMMA TickKeeps == ASSUME NEW me \in Stations PROVE QInv /\ Q!Tick(me) => QInv'
<1> SUFFICES ASSUME QInv, Q!Tick(me) PROVE QInv'
  OBVIOUS
<1>1. dirty' = [dirty EXCEPT ![me] = tx[me].next] /\ tx[me].armed /\ UNCHANGED <<tx, due, draft, safe>>
  BY DEF Q!Tick, Q!Due
<1>2. Own(me, tx[me].next)
  BY <1>1 DEF QInv, QTypes, SessionsOf, Sound
<1>3. DOMAIN dirty' = Stations /\ dirty'[me] = tx[me].next /\ \A x \in Stations : x # me => dirty'[x] = dirty[x]
  BY <1>1 DEF QInv, QTypes
<1>4. QTypes'
  BY <1>1, <1>2, <1>3 DEF QInv, QTypes
<1>5. OnAir' /\ Q!SentAsShown'
  BY <1>1, <1>3 DEF QInv, OnAir, Q!SentAsShown, Q!Pending
<1> QED
  BY <1>4, <1>5 DEF QInv

LEMMA FailureKeeps == ASSUME NEW me \in Stations PROVE QInv /\ Q!TransmitFails(me) => QInv'
<1> SUFFICES ASSUME QInv, Q!TransmitFails(me) PROVE QInv'
  OBVIOUS
<1>1. /\ tx' = [tx EXCEPT ![me] = Q!Halted(tx[me])] /\ dirty' = [dirty EXCEPT ![me] = Q!NoMessage]
      /\ due' = [due EXCEPT ![me] = <<>>] /\ UNCHANGED <<draft, safe>>
  BY DEF Q!TransmitFails
<1>2. Q!Halted(tx[me]) \in SessionsOf(me)
  BY HaltedIsSound DEF QInv, QTypes, SessionsOf, Sound
<1>3. /\ DOMAIN tx' = Stations /\ tx'[me] \in SessionsOf(me) /\ \A x \in Stations : x # me => tx'[x] = tx[x]
      /\ DOMAIN dirty' = Stations /\ dirty'[me] = Q!NoMessage
      /\ \A x \in Stations : x # me => dirty'[x] = dirty[x]
      /\ DOMAIN due' = Stations /\ due'[me] = <<>> /\ \A x \in Stations : x # me => due'[x] = due[x]
  BY <1>1, <1>2 DEF QInv, QTypes
<1>4. ASSUME NEW x \in Stations PROVE due'[x] \in Seq(HeardBy(x))
  <2>1. <<>> \in Seq(HeardBy(x))
    OBVIOUS
  <2>2. due[x] \in Seq(HeardBy(x))
    BY DEF QInv, QTypes
  <2> QED
    BY <1>3, <2>1, <2>2
<1>5. QTypes'
  BY <1>1, <1>3, <1>4 DEF QInv, QTypes
<1>6. OnAir' /\ Q!SentAsShown'
  BY <1>1, <1>3 DEF QInv, OnAir, Q!SentAsShown, Q!Pending
<1> QED
  BY <1>5, <1>6 DEF QInv

\* A decode: it is listed, and kept for later while this station sends.
LEMMA AddDecodesKeeps ==
  ASSUME NEW me \in Stations, NEW m \in safe.sent, NEW snr \in Snr
  PROVE  QInv /\ Q!AddDecodes(me, m, snr) => QInv'
<1> SUFFICES ASSUME QInv, Q!AddDecodes(me, m, snr) PROVE QInv'
  OBVIOUS
<1> DEFINE d == [message |-> m, even |-> safe.even, snr |-> snr]
<1>1. d \in HeardBy(me) /\ d.message = m
  <2>1. m \in Sendable /\ m.from \in safe.deaf /\ safe.even \in BOOLEAN /\ me \notin safe.deaf
    BY DEF QInv, OnAir, Q!AddDecodes
  <2> QED
    BY <2>1 DEF HeardBy, Q!Decodes, Sendable
<1>2. /\ draft' = [draft EXCEPT ![me] = {r \in @ : r.message.from # d.message.from} \cup {d}]
      /\ UNCHANGED <<dirty, safe>>
  BY DEF Q!AddDecodes, Q!Listed
<1>3. \/ Q!Pending(me) /\ due' = [due EXCEPT ![me] = Append(@, d)] /\ tx' = tx
      \/ ~Q!Pending(me) /\ tx' = [tx EXCEPT ![me] = Q!Receive(me, @, d)] /\ due' = due
  BY DEF Q!AddDecodes, Q!Buffers
<1> HIDE DEF d
<1>4. DOMAIN draft' = Stations /\ \A x \in Stations : draft'[x] \subseteq HeardBy(x)
  <2>1. DOMAIN draft = Stations /\ \A x \in Stations : draft[x] \subseteq HeardBy(x)
    BY DEF QInv, QTypes
  <2> QED
    BY <1>1, <1>2, <2>1
<1>5. DOMAIN dirty' = Stations /\ \A x \in Stations : dirty'[x] = Q!NoMessage \/ Own(x, dirty'[x])
  BY <1>2 DEF QInv, QTypes
<1>6. OnAir'
  BY <1>2 DEF QInv, OnAir
<1>7. CASE Q!Pending(me) /\ due' = [due EXCEPT ![me] = Append(@, d)] /\ tx' = tx
  <2>1. DOMAIN tx' = Stations /\ \A x \in Stations : tx'[x] \in SessionsOf(x)
    BY <1>7 DEF QInv, QTypes
  <2>2. DOMAIN due = Stations /\ \A x \in Stations : due[x] \in Seq(HeardBy(x))
    BY DEF QInv, QTypes
  <2>3. Append(due[me], d) \in Seq(HeardBy(me))
    BY <1>1, <2>2
  <2>4. DOMAIN due' = Stations /\ \A x \in Stations : due'[x] \in Seq(HeardBy(x))
    BY <1>7, <2>2, <2>3
  <2>5. QTypes'
    BY <1>4, <1>5, <2>1, <2>4 DEF QTypes
  <2>6. Q!SentAsShown'
    BY <1>2, <1>7 DEF QInv, Q!SentAsShown, Q!Pending
  <2> QED
    BY <1>6, <2>5, <2>6 DEF QInv
<1>8. CASE ~Q!Pending(me) /\ tx' = [tx EXCEPT ![me] = Q!Receive(me, @, d)] /\ due' = due
  <2>1. DOMAIN tx = Stations /\ \A x \in Stations : tx[x] \in SessionsOf(x)
    BY DEF QInv, QTypes
  <2>2. Q!Receive(me, tx[me], d) \in SessionsOf(me)
    BY <1>1, <2>1, ReceiveIsSound
  <2>3. /\ DOMAIN tx' = Stations /\ tx'[me] \in SessionsOf(me)
        /\ \A x \in Stations : x # me => tx'[x] = tx[x]
    BY <1>8, <2>1, <2>2
  <2>4. DOMAIN due' = Stations /\ \A x \in Stations : due'[x] \in Seq(HeardBy(x))
    BY <1>8 DEF QInv, QTypes
  <2>5. QTypes'
    BY <1>4, <1>5, <2>1, <2>3, <2>4 DEF QTypes
  <2>6. Q!SentAsShown'
    BY <1>2, <1>8, <2>3 DEF QInv, Q!SentAsShown, Q!Pending
  <2> QED
    BY <1>6, <2>5, <2>6 DEF QInv
<1> QED
  BY <1>3, <1>7, <1>8

\* The period ends for every station: what was sent counts, if it is still the next message.
LEMMA PeriodEndsKeeps == QInv /\ Q!PeriodEnds => QInv'
<1> SUFFICES ASSUME QInv, Q!PeriodEnds PROVE QInv'
  OBVIOUS
<1>1. /\ tx' = [me \in Stations |-> [Q!Finished(me) EXCEPT !.lastId = Q!NoMessage]]
      /\ safe' = [even |-> ~safe.even, sent |-> {dirty[me] : me \in {x \in Stations : Q!Succeeds(x)}},
                  deaf |-> {me \in Stations : Q!Pending(me)}]
      /\ dirty' = [me \in Stations |-> Q!NoMessage] /\ due' = [me \in Stations |-> <<>>] /\ draft' = draft
  BY DEF Q!PeriodEnds
<1>2. ASSUME NEW me \in Stations PROVE tx'[me] \in SessionsOf(me)
  <2> DEFINE f == Q!Finished(me)
             s == [f EXCEPT !.lastId = Q!NoMessage]
  <2>1. tx[me] \in SessionsOf(me) /\ due[me] \in Seq(HeardBy(me))
    BY DEF QInv, QTypes
  <2>2. f \in SessionsOf(me)
    BY <2>1, FinishedIsSound
  <2>3. tx'[me] = s
    BY <1>1
  <2> HIDE DEF f
  <2>4. f \in Sessions /\ Sound(me, f)
    BY <2>2 DEF SessionsOf
  <2>5. s \in Sessions
    BY <2>4, NoMessageIsMessage, SessionFields
  <2>6. /\ s.dx = f.dx /\ s.next = f.next /\ s.armed = f.armed /\ s.complete = f.complete
        /\ s.retries = f.retries
    BY <2>4 DEF Sessions
  <2> HIDE DEF s
  <2>7. s \in SessionsOf(me)
    BY <2>4, <2>5, <2>6, AlikeIsSound
  <2> QED
    BY <2>3, <2>7
<1>3. ASSUME NEW me \in Stations PROVE due'[me] \in Seq(HeardBy(me))
  <2>1. <<>> \in Seq(HeardBy(me))
    OBVIOUS
  <2> QED
    BY <1>1, <2>1
<1>4. QTypes'
  BY <1>1, <1>2, <1>3 DEF QInv, QTypes
<1>5. ASSUME NEW me \in Stations, Q!Succeeds(me)
      PROVE  Own(me, dirty[me]) /\ me \in safe'.deaf
  BY <1>1, <1>5 DEF Q!Succeeds, Q!Pending, QInv, QTypes
<1>6. OnAir'
  <2>1. safe'.even \in BOOLEAN
    BY <1>1
  <2>2. ASSUME NEW m \in safe'.sent PROVE m \in Sendable /\ m.from \in safe'.deaf
    <3>1. PICK me \in Stations : Q!Succeeds(me) /\ m = dirty[me]
      BY <1>1
    <3> QED
      BY <1>5, <3>1 DEF Own
  <2> QED
    BY <2>1, <2>2 DEF OnAir
<1>7. Q!SentAsShown'
  BY <1>1 DEF Q!SentAsShown, Q!Pending
<1> QED
  BY <1>4, <1>6, <1>7 DEF QInv

----------------------------------------------------------------------------
OfContacts == part = "contacts" => QInv

LEMMA ContactSteps == OfContacts /\ [AllNext]_all => OfContacts'
<1> SUFFICES ASSUME OfContacts, [AllNext]_all PROVE OfContacts'
  OBVIOUS
<1>1. part' = part
  BY DEF AllNext, Draft, Contacts, Reception, Gallery, all
<1>2. CASE part # "contacts"
  BY <1>1, <1>2 DEF OfContacts
<1>3. CASE part = "contacts" /\ UNCHANGED all
  <2>1. UNCHANGED <<tx, dirty, due, draft, safe>>
    BY <1>3 DEF all, vars
  <2>2. QInv'
    BY <1>3, <2>1 DEF OfContacts, QInv, QTypes, OnAir, Q!SentAsShown, Q!Pending
  <2> QED
    BY <1>3, <2>2 DEF OfContacts
<1>4. CASE part = "contacts" /\ AllNext
  <2>1. ~Draft /\ ~Reception /\ ~Gallery /\ QInv
    BY <1>4 DEF Draft, Reception, Gallery, OfContacts
  <2>2. \/ \E me \in Stations : \/ Q!CallCq(me) \/ Q!Call(me) \/ Q!Halt(me)
                                \/ Q!Tick(me) \/ Q!TransmitFails(me)
        \/ \E me \in Stations : \E d \in draft[me] : Q!SelectStation(me, d)
        \/ \E me \in Stations : \E m \in safe.sent, snr \in Snr : Q!AddDecodes(me, m, snr)
        \/ Q!PeriodEnds
    BY <1>4, <2>1 DEF AllNext
  <2>3. QInv'
    BY <2>1, <2>2, OperatorsKeep, TickKeeps, FailureKeeps, AddDecodesKeeps, PeriodEndsKeeps
  <2> QED
    BY <1>4, <2>3 DEF OfContacts
<1> QED
  BY <1>2, <1>3, <1>4

LEMMA AllBeginAndStep ==
  /\ AllInit => OfDraft /\ OfContacts /\ OfReception /\ OfGallery
  /\ (OfDraft /\ OfContacts /\ OfReception /\ OfGallery) /\ [AllNext]_all
        => (OfDraft /\ OfContacts /\ OfReception /\ OfGallery)'
<1>1. AllInit => OfDraft /\ OfContacts /\ OfReception /\ OfGallery
  BY InitIInv, ContactsBegin, BeginsReceived, GalleryBegins DEF AllInit, OfDraft, OfContacts, OfReception, OfGallery
<1>2. OfDraft /\ [AllNext]_all => OfDraft'
  BY DraftSteps
<1> QED
  BY <1>1, <1>2, ContactSteps, ReceptionSteps, GallerySteps

(***************************************************************************)
(* What counts as sent, and the exchange goes on from, was on the air: the *)
(* next message stays what it is while it is sent, unless the transmission *)
(* is stopped.                                                             *)
(***************************************************************************)
THEOREM ShownIsSent == AllSpec => [](part = "contacts" => Q!SentAsShown)
<1>1. AllInit => OfContacts
  BY ContactsBegin DEF AllInit, OfContacts
<1>2. OfContacts => (part = "contacts" => Q!SentAsShown)
  BY DEF OfContacts, QInv
<1> QED
  BY <1>1, <1>2, ContactSteps, PTL DEF AllSpec

----------------------------------------------------------------------------
\* What the parts' invariants say of the types of the models' variables.
LEMMA ReceptionTyped == RInv => D!TypeOK
<1> SUFFICES ASSUME RInv PROVE D!TypeOK
  OBVIOUS
<1>1. /\ failures \in 0 .. HardLimit - 1 /\ tx.vis \in {"none", "full", "recovery"}
      /\ tx.left \in 0 .. D!Sequence /\ tx.wait \in 0 .. D!Word
  BY DEF RInv, Search, Heads
<1>2. ASSUME draft # D!NoPicture PROVE draft \in D!PictureStates
  <2>1. draft \in Receptions /\ draft.at \in 0 .. 2 * Rows + 10 /\ draft.rows \in 0 .. Rows - 1
    BY <1>2, DecoderBounds DEF RInv, Picture, Begun, Receptions
  <2>2. draft.first \in -1 .. 10 /\ draft.mark \in -1 .. 10
    BY <2>1 DEF Receptions
  <2> QED
    BY <2>1, <2>2 DEF Receptions, D!PictureStates
<1>3. draft \in D!PictureStates \cup {D!NoPicture}
  BY <1>2
<1> QED
  BY <1>1, <1>3 DEF D!TypeOK, RInv, Behind

LEMMA GalleryTyped == GInv => G!TypeOK
<1> SUFFICES ASSUME GInv PROVE G!TypeOK
  OBVIOUS
<1>1. draft \in Disks /\ tx.list \in Disks /\ store.kind \in {"", "delete", "clear"} /\ store.about \in 0 .. Arrivals
  BY DEF GInv, GTypes, Screens, Questions
<1>2. tx.current \in 0 .. kept /\ tx.pending \in 0 .. kept /\ due \in 0 .. kept /\ kept \in 0 .. Arrivals
  <2>1. tx.current \in 0 .. Arrivals /\ tx.pending \in 0 .. Arrivals
    BY DEF GInv, GTypes, Screens
  <2>2. kept \in 0 .. Arrivals /\ due \in 0 .. kept /\ tx.current <= kept /\ tx.pending <= kept
    BY DEF GInv, GTypes
  <2> QED
    BY <2>1, <2>2, GalleryBounds
<1>3. tx.text \in {"", "call"} /\ tx.source \in G!Sources /\ safe \in Limits
  BY DEF GInv, GTypes, Screens
<1> QED
  BY <1>1, <1>2, <1>3 DEF GInv, GCounts, Disks, Records, G!TypeOK

LEMMA ContactTyped == QInv => Q!TypeOK
<1> SUFFICES ASSUME QInv PROVE Q!TypeOK
  OBVIOUS
<1>1. ASSUME NEW me \in Stations
      PROVE  LET s == tx[me] IN
             /\ {s.armed, s.callingCq, s.complete, s.even} \subseteq BOOLEAN
             /\ s.dx \in (Stations \ {me}) \cup {Q!None} /\ {s.sent, s.received} \subseteq Snr \cup {Q!None}
             /\ {s.next, s.lastSent, s.lastId, dirty[me]} \subseteq Q!Messages
             /\ s.retries \in 0 .. MaxRetries
             /\ s.armed => ~s.complete /\ s.next # Q!NoMessage /\ s.next.from = me
             /\ Q!ToSet(due[me]) \cup draft[me] \subseteq Q!Decodes
  <2> DEFINE s == tx[me]
  <2>1. s \in Sessions /\ Sound(me, s)
    BY DEF QInv, QTypes, SessionsOf
  <2>2. dirty[me] \in Q!Messages
    BY NoMessageIsMessage, SendableIsMessage DEF QInv, QTypes, Own
  <2>3. due[me] \in Seq(HeardBy(me)) /\ draft[me] \subseteq HeardBy(me) /\ HeardBy(me) \subseteq Q!Decodes
    BY DEF QInv, QTypes, HeardBy
  <2>4. Q!ToSet(due[me]) \cup draft[me] \subseteq Q!Decodes
    <3>1. \A i \in DOMAIN due[me] : due[me][i] \in HeardBy(me)
      BY <2>3
    <3> QED
      BY <2>3, <3>1 DEF Q!ToSet
  <2> HIDE DEF s
  <2>5. {s.armed, s.callingCq, s.complete, s.even} \subseteq BOOLEAN /\ {s.sent, s.received} \subseteq Snr \cup {Q!None}
    BY <2>1 DEF Sessions
  <2>6. {s.next, s.lastSent, s.lastId} \subseteq Q!Messages /\ s.retries \in 0 .. MaxRetries
    BY <2>1 DEF Sessions
  <2>7. /\ s.dx \in (Stations \ {me}) \cup {Q!None}
        /\ s.armed => ~s.complete /\ s.next # Q!NoMessage /\ s.next.from = me
    BY <2>1, NoMessageIsMessage DEF Sound, Own
  <2> QED
    BY <2>2, <2>4, <2>5, <2>6, <2>7 DEF s
<1> QED
  BY <1>1 DEF Q!TypeOK

(***************************************************************************)
(* Each part's variables keep to their types, the bounds of a search and   *)
(* of a picture that is received among them.                               *)
(***************************************************************************)
THEOREM RecordsTyped == AllSpec => []TypesOK
<1>1. OfDraft /\ OfContacts /\ OfReception /\ OfGallery => TypesOK
  BY ReceptionTyped, GalleryTyped, ContactTyped
     DEF OfDraft, OfContacts, OfReception, OfGallery, TypesOK, IInv, Types, Counts, TypeOK
<1> QED
  BY <1>1, AllBeginAndStep, PTL DEF AllSpec
=============================================================================
