------------------------------ MODULE SstvDraft ------------------------------
(***************************************************************************)
(* The SSTV picture being composed, its recovery draft and the image       *)
(* templates (SstvScreen and SstvStorage).  An edit starts a timer whose   *)
(* end saves the draft: the picture, if it has changed since the last save *)
(* that succeeded, and then the composition, in two files.  A template is  *)
(* two such files in the directory of its name.  Any write or removal may  *)
(* fail, and the application may die; what is then on the disk is what a   *)
(* failure leaves there.                                                   *)
(*                                                                         *)
(* A template is saved under the first 40 characters of the name that was  *)
(* typed, which may be longer; everything else is done with the whole      *)
(* name.  Pictures and compositions are told apart by numbers, 0 for none; *)
(* a template's preview goes with its picture.                             *)
(***************************************************************************)
EXTENDS Naturals

CONSTANTS
  Pictures, Texts,   \* pictures, and compositions besides the empty one, 1
  Names,             \* names of templates the operator types, trimmed
  Cut(_),            \* name.trimmed().left(40)
  Folded(_),         \* a name as it is compared with another, letter case apart
  Directory(_),      \* imageTemplatePath: the directory of a name
  Failures,          \* bound: saves and removals that fail
  Deaths             \* bound: how often the application dies

ASSUME NoneIsApart == 0 \notin Pictures /\ 0 \notin Texts
ASSUME Bounds == Failures \in Nat /\ Deaths \in Nat

VARIABLES
  tx,      \* m_sourceImage and currentTxState
  dirty,   \* m_draftSourceDirty
  due,     \* m_draftTimer is running
  draft,   \* source.png and draft.json
  safe,    \* history: what became of the last draft: "saved", "warned", "cleared"
  store,   \* the image templates, by directory
  kept,    \* history: the templates saved and neither deleted nor replaced since
  failures, deaths

templates == <<store, kept>>
vars == <<tx, dirty, due, draft, safe, templates, failures, deaths>>

\* The names that the gallery can list: those in template.json.
Listed == {Cut(n) : n \in Names}

\* The directory that saveImageTemplate writes.
Target(n) == Directory(Cut(n))

Nothing == [pic |-> 0, text |-> 0]
Empty == 1

Fails(bad) ==
  /\ bad => failures < Failures
  /\ failures' = IF bad THEN failures + 1 ELSE failures

\* Picture and composition are written one after the other, or not to the end.
Written(old, new) ==
  {[to |-> new, bad |-> FALSE], [to |-> old, bad |-> TRUE],
   [to |-> [old EXCEPT !.pic = new.pic], bad |-> TRUE]}

\* Without its composition nothing is found of it again.
Erased(old) ==
  {[to |-> Nothing, bad |-> FALSE], [to |-> Nothing, bad |-> TRUE], [to |-> old, bad |-> TRUE]}

Init ==
  /\ tx = Nothing /\ dirty = FALSE /\ due = FALSE
  /\ draft = Nothing /\ safe = "cleared"
  /\ store = [d \in {Target(n) : n \in Names} |-> Nothing] /\ kept = {}
  /\ failures = 0 /\ deaths = 0

----------------------------------------------------------------------------
(***************************************************************************)
(* The composition: importImage, which begins a new one; rotateSource; any *)
(* edit, crop or mode; restoreTxState.  Each ends in scheduleDraftSave.    *)
(***************************************************************************)
Composes(new, changed) ==
  /\ tx' = new /\ due' = TRUE
  /\ dirty' = (dirty \/ changed)

ImportImage(p) ==
  /\ Composes([pic |-> p, text |-> Empty], TRUE)
  /\ UNCHANGED <<draft, safe, templates, failures, deaths>>

RotateSource(p) ==
  /\ tx.pic # 0 /\ Composes([tx EXCEPT !.pic = p], TRUE)
  /\ UNCHANGED <<draft, safe, templates, failures, deaths>>

Edit(t) ==
  /\ tx.pic # 0 /\ Composes([tx EXCEPT !.text = t], FALSE)
  /\ UNCHANGED <<draft, safe, templates, failures, deaths>>

(***************************************************************************)
(* saveDraft, by the timer, or at once by flushDraft when the screen is    *)
(* closed or the application leaves the foreground.                        *)
(***************************************************************************)
\* mutant: the picture counts as saved although the save failed
M_SaveDraft ==
  /\ due /\ due' = FALSE
  /\ LET new == IF dirty \/ draft.pic = 0 THEN tx ELSE [tx EXCEPT !.pic = draft.pic]
     IN \E w \in Written(draft, new) :
          /\ draft' = w.to /\ Fails(w.bad)
          /\ dirty' = FALSE
          /\ safe' = IF w.bad THEN "warned" ELSE "saved"
  /\ UNCHANGED <<tx, templates, deaths>>
SaveDraft ==
  /\ due /\ due' = FALSE
  /\ LET new == IF dirty \/ draft.pic = 0 THEN tx ELSE [tx EXCEPT !.pic = draft.pic]
     IN \E w \in Written(draft, new) :
          /\ draft' = w.to /\ Fails(w.bad)
          /\ dirty' = (dirty /\ w.bad)
          /\ safe' = IF w.bad THEN "warned" ELSE "saved"
  /\ UNCHANGED <<tx, templates, deaths>>

\* The composition on the screen stays.
ClearDraft ==
  /\ due' = FALSE /\ dirty' = TRUE /\ safe' = "cleared"
  /\ \E e \in Erased(draft) : draft' = e.to /\ Fails(e.bad)
  /\ UNCHANGED <<tx, templates, deaths>>

\* The application dies and is started: restoreDraft.  With a picture and a
\* composition to restore, the timer runs.
Die ==
  /\ deaths < Deaths /\ deaths' = deaths + 1
  /\ LET whole == draft.pic # 0 /\ draft.text # 0
     IN tx' = (IF whole THEN draft ELSE Nothing) /\ due' = whole
  /\ dirty' = FALSE
  /\ UNCHANGED <<draft, safe, templates, failures>>

----------------------------------------------------------------------------
(***************************************************************************)
(* The gallery of image templates.                                         *)
(***************************************************************************)
Loads(n) == store[Directory(n)].pic # 0 /\ store[Directory(n)].text # 0

LoadImageTemplate(n) ==
  /\ Loads(n) /\ Composes(store[Directory(n)], TRUE)
  /\ UNCHANGED <<draft, safe, templates, failures, deaths>>

\* One that is there is replaced.  The question before it is asked only if the name
\* typed, and not what is left of it, was listed when the gallery was opened.
SaveImageTemplate(n) ==
  /\ tx.pic # 0
  /\ \E w \in Written(store[Target(n)], tx) :
       /\ store' = [store EXCEPT ![Target(n)] = w.to] /\ Fails(w.bad)
       /\ kept' = (kept \ {store[Target(n)]}) \cup (IF w.bad THEN {} ELSE {tx})
  /\ UNCHANGED <<tx, dirty, due, draft, safe, deaths>>

(***************************************************************************)
(* The template is stored under the new name before the old one goes,      *)
(* unless the two names, as they were typed and listed, differ in letter   *)
(* case only.  Names that differ may yet be one directory where one of     *)
(* them was cut: what was just stored there is what then goes.             *)
(***************************************************************************)
Rename(old, new) ==
  /\ old # new /\ Loads(old)
  /\ LET from == Directory(old)
         to == Target(new)
         sameStorageKey == Folded(old) = Folded(new)
     IN \E w \in Written(store[to], store[from]) :
          LET written == [store EXCEPT ![to] = w.to]
              stays == w.bad \/ sameStorageKey
          IN \E e \in Erased(written[from]) :
               /\ store' = IF stays THEN written ELSE [written EXCEPT ![from] = e.to]
               /\ Fails(w.bad \/ (e.bad /\ ~stays))
               /\ kept' = IF to # from
                          THEN (kept \ {store[to]}) \cup ({store[from]} \cap kept)
                          ELSE IF stays THEN kept ELSE kept \ {store[from]}
  /\ UNCHANGED <<tx, dirty, due, draft, safe, deaths>>

RemoveImageTemplate(n) ==
  /\ \E e \in Erased(store[Directory(n)]) :
       store' = [store EXCEPT ![Directory(n)] = e.to] /\ Fails(e.bad)
  /\ kept' = kept \ {store[Directory(n)]}
  /\ UNCHANGED <<tx, dirty, due, draft, safe, deaths>>

Next ==
  \/ \E p \in Pictures : ImportImage(p) \/ RotateSource(p)
  \/ \E t \in Texts : Edit(t)
  \/ SaveDraft
  \/ ClearDraft
  \/ Die
  \/ \E n \in Listed : LoadImageTemplate(n) \/ RemoveImageTemplate(n)
  \/ \E n \in Names : SaveImageTemplate(n)
  \/ \E old \in Listed, new \in Names : Rename(old, new)

Spec == Init /\ [][Next]_vars

----------------------------------------------------------------------------
Contents == [pic : Pictures \cup {0}, text : Texts \cup {0, Empty}]
TypeOK ==
  /\ {tx, draft} \cup {store[d] : d \in DOMAIN store} \subseteq Contents
  /\ kept \subseteq Contents
  /\ {dirty, due} \subseteq BOOLEAN /\ safe \in {"saved", "warned", "cleared"}
  /\ failures \in 0 .. Failures /\ deaths \in 0 .. Deaths

(***************************************************************************)
(* With no save due and none failed, what would be restored is what is on  *)
(* the screen, however many saves failed before: the picture belongs to    *)
(* the composition ("preserve the in-memory session",                      *)
(* docs/SSTV_SCOPE.md:437-438).                                            *)
(***************************************************************************)
DraftIsScreen == ~due /\ safe = "saved" => draft = tx

(***************************************************************************)
(* A template that was not deleted, not replaced by what was saved where   *)
(* it is, and not renamed to a name that, one of the two having been cut,  *)
(* is of the same directory, is there under some name, whatever failed     *)
(* while it was renamed.                                                   *)
(***************************************************************************)
There(c) == \E d \in DOMAIN store : store[d] = c
TemplatesAreKept == \A c \in kept : There(c)

(***************************************************************************)
(* A rename that asks for nothing to be replaced, and that succeeds, loses *)
(* no template.  Not so: a name of more than 40 characters is not cut      *)
(* where it is compared with the names listed and with the old one, so the *)
(* template of another name is replaced with no question, and a template   *)
(* of 40 characters whose name is made longer is itself removed.           *)
(***************************************************************************)
Asks(n) == \E m \in Listed : Folded(m) = Folded(n) /\ store[Directory(m)].text # 0
RenameKeeps ==
  \A old \in Listed, new \in Names :
    Rename(old, new) /\ ~Asks(new) /\ failures' = failures =>
      \A c \in kept : There(c) => There(c)'
=============================================================================
