----------------------------- MODULE Ft8RadioMode -----------------------------
(***************************************************************************)
(* The K4's mode while FT8/FT4 is shown.  Opening the screen saves the mode  *)
(* of the main VFO and selects DATA-A; a timer of 100 ms selects it again    *)
(* when a band change recalls another mode; closing the screen gives the     *)
(* saved mode back, after a transmission that still runs.  All decisions are *)
(* made from the phone's copy of the mode, which follows the K4 by reports.  *)
(***************************************************************************)
EXTENDS Integers, Sequences

CONSTANTS
  Modes,  \* modes the operator uses, <<code, data submode>>
  Limit   \* bound: how often the operator, a transmission or the network acts

DataA == <<6, 0>>
None == <<0, -1>>

VARIABLES
  active,   \* the FT8 screen is shown
  saved,    \* m_originalMode and m_originalSubMode
  pending,  \* m_dataRequestPending
  busy,     \* something transmits
  link,     \* the connection is up
  radio,    \* the K4's mode
  mirror,   \* RadioState's mode and data submode
  toRadio,  \* commands on their way: a mode, or None for a query
  toPhone,  \* reports on their way: <<"MD", code>>, <<"DT", submode>>
  wish,     \* history: the mode the operator chose last, FT8 apart
  upset,    \* history: what made the phone's copy wrong at a decision: "no", "link",
            \* "panel", "reopen", or "early" when the submode was not known yet;
            \* "turned" while a report of the panel is under way
  left      \* how often the surroundings may still act

vars == <<active, saved, pending, busy, link, radio, mirror, toRadio, toPhone, wish, upset, left>>
wire == <<link, radio, mirror, toPhone>>

Quiet == saved = None /\ toRadio = <<>> /\ toPhone = <<>>
Spends == left > 0 /\ left' = left - 1

Init ==
  /\ active = FALSE /\ saved = None /\ pending = FALSE /\ busy = FALSE
  /\ link = FALSE /\ radio \in Modes /\ mirror = None
  /\ toRadio = <<>> /\ toPhone = <<>>
  /\ wish = radio /\ upset = "no" /\ left = Limit

\* Mutant: any screen that opens saves the mode anew.
M_Select(shown, mode) ==
  /\ saved' = mode /\ pending' = TRUE /\ toRadio' = Append(toRadio, DataA)

\* update() while the screen is shown.
Select(shown, mode) ==
  IF mode[1] = 0 \/ (mode[1] \in {6, 9} /\ mode[2] < 0) THEN UNCHANGED <<saved, pending, toRadio>>
  ELSE IF shown = None
       THEN saved' = mode /\ pending' = TRUE /\ toRadio' = Append(toRadio, DataA)
       ELSE IF mode = DataA THEN pending' = FALSE /\ UNCHANGED <<saved, toRadio>>
            ELSE /\ pending' = TRUE /\ UNCHANGED saved
                 /\ toRadio' = IF pending THEN toRadio ELSE Append(toRadio, DataA)

\* updateFt8RadioMode, with the screen shown or not.
Update(shows) ==
  IF ~link THEN saved' = None /\ pending' = FALSE /\ UNCHANGED toRadio
  ELSE IF busy THEN pending' = (shows /\ pending) /\ UNCHANGED <<saved, toRadio>>
  ELSE IF shows THEN Select(saved, mirror)
  ELSE /\ saved' = None /\ pending' = FALSE
       /\ toRadio' = IF saved = None THEN toRadio ELSE Append(toRadio, saved)

(***************************************************************************)
(* MainWindow                                                              *)
(***************************************************************************)
SavedEarly == IF saved = None /\ saved' # None /\ mirror[2] < 0 THEN "early" ELSE upset

OpenFt8Screen ==
  /\ ~active /\ ~busy /\ Spends
  /\ active' = TRUE /\ Update(TRUE)
  /\ upset' = IF ~link \/ Quiet THEN SavedEarly
              ELSE CASE SavedEarly = "no" -> "reopen"
                     [] SavedEarly = "turned" -> "panel"
                     [] OTHER -> SavedEarly
  /\ UNCHANGED <<busy, wire, wish>>

\* Its own CLOSE, or SSTV opened instead.
CloseFt8Screen ==
  /\ active /\ active' = FALSE /\ Update(FALSE)
  /\ UNCHANGED <<busy, wire, wish, upset, left>>

Tick ==
  /\ Update(active) /\ upset' = SavedEarly
  /\ UNCHANGED <<active, busy, wire, wish, left>>

Transmits ==
  /\ ~busy /\ link /\ Spends /\ busy' = TRUE
  /\ UNCHANGED <<active, saved, pending, wire, toRadio, wish, upset>>
TransmitEnds ==
  /\ busy /\ busy' = FALSE
  /\ UNCHANGED <<active, saved, pending, wire, toRadio, wish, upset, left>>

\* RadioState follows a report.
Hear ==
  /\ toPhone # <<>> /\ toPhone' = Tail(toPhone)
  /\ mirror' = IF Head(toPhone)[1] = "MD" THEN <<Head(toPhone)[2], mirror[2]>>
               ELSE <<mirror[1], Head(toPhone)[2]>>
  /\ upset' = IF upset = "turned" /\ toPhone' = <<>> THEN "no" ELSE upset
  /\ UNCHANGED <<active, saved, pending, busy, link, radio, toRadio, wish, left>>

\* The radio asks for its state when it has authenticated; a new connection
\* may be to a K4 whose mode the operator has set meanwhile.
Connect ==
  /\ ~link /\ Spends /\ link' = TRUE /\ toRadio' = <<None>>
  /\ radio' \in Modes \cup {radio} /\ wish' = radio' /\ upset' = "no"
  /\ UNCHANGED <<active, saved, pending, busy, mirror, toPhone>>

\* connectionLost and RadioState::reset, in the handlers of one signal.
Disconnect ==
  /\ link /\ Spends /\ link' = FALSE /\ busy' = FALSE
  /\ saved' = None /\ pending' = FALSE /\ mirror' = None
  /\ toRadio' = <<>> /\ toPhone' = <<>> /\ upset' = IF Quiet THEN upset ELSE "link"
  /\ UNCHANGED <<active, radio, wish>>

(***************************************************************************)
(* The K4                                                                  *)
(***************************************************************************)
Reports(mode) == <<<<"MD", mode[1]>>, <<"DT", mode[2]>>>>

RadioTakes ==
  /\ toRadio # <<>> /\ toRadio' = Tail(toRadio)
  /\ LET c == Head(toRadio)
     IN radio' = IF c = None THEN radio ELSE <<c[1], IF c[2] < 0 THEN radio[2] ELSE c[2]>>
  /\ toPhone' = toPhone \o Reports(radio')
  /\ UNCHANGED <<active, saved, pending, busy, link, mirror, wish, upset, left>>

\* The operator at the radio: a mode, or a band that recalls one.
PanelTurns ==
  /\ link /\ Spends /\ radio' \in Modes \ {radio}
  /\ toPhone' = toPhone \o Reports(radio')
  /\ wish' = IF active THEN wish ELSE radio'
  /\ upset' = IF active THEN IF saved = None THEN "panel" ELSE upset
              ELSE IF Quiet \/ upset = "turned" THEN "turned" ELSE "panel"
  /\ UNCHANGED <<active, saved, pending, busy, link, mirror, toRadio>>

Next ==
  \/ OpenFt8Screen \/ CloseFt8Screen \/ Tick \/ Transmits \/ TransmitEnds
  \/ Hear \/ Connect \/ Disconnect \/ RadioTakes \/ PanelTurns

Spec == Init /\ [][Next]_vars

(***************************************************************************)
(* Properties                                                              *)
(***************************************************************************)
\* With the screen closed and nothing under way the K4 is in the mode the
\* operator chose, whatever the screen, a transmission and band changes did:
\* unless the phone's copy was stale at a decision (Ft8RadioMode::update).
ModeGivenBack == link /\ ~active /\ Quiet /\ upset = "no" => radio = wish

\* The same when the screen is opened again before its answers are in.
ReopenKeepsMode == link /\ ~active /\ Quiet /\ upset \in {"no", "reopen"} => radio = wish

\* A mode saved on entry is not kept for ever: once the screen is closed it
\* is sent, however long a transmission lasts, and no other connection gets it
\* (updateFt8RadioMode's timer): this leads to its end or to the screen again.
Kept == ~active /\ saved # None
=============================================================================
