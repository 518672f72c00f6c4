------------------------------ MODULE RadioMirror ------------------------------
(***************************************************************************)
(* RadioState, the phone's copy of the K4's settings, and what MainWindow   *)
(* shows of it.  The K4 reports the changes made on its own panel; it does   *)
(* not echo a command of this client, so MainWindow changes its copy itself  *)
(* when it sends one.  Reports and commands travel in two queues and may     *)
(* pass each other.                                                          *)
(*                                                                           *)
(* A handler of RadioState touches the members of its own command only, so a *)
(* behaviour follows one setting, f, chosen by Init, through every handler,  *)
(* setter and disconnect, by its row of RadioSettings.                       *)
(***************************************************************************)
EXTENDS RadioSettings

CONSTANTS
  Follow,  \* the settings to follow
  Limit    \* bound: how often the panel, the operator or the network may act

VARIABLES
  f,        \* the setting followed
  link,     \* the connection is "down" or "up"
  radio,    \* the K4's own value, as a code
  toRadio,  \* commands sent and not yet taken
  toPhone,  \* reports not yet taken, codes
  mirror,   \* the member of RadioState
  shown,    \* the value the widget was last given
  fresh,    \* less than 500 ms since the member was set here (DT only)
  due,      \* a timer that will send: "set", "zoom", "get" or "no"
  crossed,  \* history: a command and a report passed each other since the last readback
  behind,   \* history: a command was sent since, for another value than the copy was given
  left      \* how often the surroundings may still act

vars == <<f, link, radio, toRadio, toPhone, mirror, shown, fresh, due, crossed, behind, left>>

Row == Rows[f]

Init ==
  /\ f \in Follow /\ link = "down" /\ radio \in Row.codes
  /\ toRadio = <<>> /\ toPhone = <<>>
  /\ mirror = Row.reset
  /\ shown = IF Row.clears = <<>> THEN Row.reset ELSE Row.clears[1]
  /\ fresh = FALSE /\ due = "no" /\ crossed = FALSE /\ behind = FALSE /\ left = Limit

Spends == left > 0 /\ left' = left - 1

\* Mutant: a handler that forgets the second part.
M_Stored(c) == <<(c \div Row.tens) * Row.tens * Row.unit>>

\* What a handler makes of a code: <<>> when it ignores it.
Stored(c) ==
  LET level == c \div Row.tens IN
  IF Row.clamps THEN <<Bounded(Row.low, level, Row.high) * Row.tens + (c % Row.tens)>>
  ELSE IF level \in Row.low..Row.high THEN <<c * Row.unit>> ELSE <<>>

\* parseCATCommand, of a report or of the phone's own command.
Hear(c) ==
  LET s == Stored(c) IN
  IF s = <<>> \/ fresh THEN UNCHANGED <<mirror, shown>>
  ELSE /\ mirror' = s[1]
       /\ shown' = IF Row.signal = "always" \/ s[1] # mirror THEN s[1] ELSE shown

\* Mutant: the copy waits for an echo.
M_SetMirror(v) == shown' = v /\ UNCHANGED <<mirror, fresh>>

\* A setter of RadioState: it signals a change.
SetMirror(v) ==
  /\ mirror' = v /\ shown' = IF v # mirror THEN v ELSE shown
  /\ fresh' = (fresh \/ (Row.guarded /\ v # mirror))

Answering == toPhone # <<>> \/ \E i \in DOMAIN toRadio : toRadio[i].op = "get"
\* A command that no query follows: a report sent before it is taken passes it.
Unasked ==
  \E i \in DOMAIN toRadio : /\ toRadio[i].op \in {"set", "nudge"}
                            /\ \A j \in i..Len(toRadio) : toRadio[j].op # "get"

Get == [op |-> "get", arg |-> 0]
Set(level, flag) == [op |-> "set", arg |-> (level * Row.tens + flag) \div Row.unit]
Flags == mirror % Row.tens
LevelNow == mirror \div Row.tens

\* "follows": the copy is given what the command sets.
Send(cmds, follows) ==
  LET sends == link = "up" /\ cmds # <<>>
      asks == cmds[Len(cmds)].op = "get"
  IN /\ toRadio' = IF link = "up" THEN toRadio \o cmds ELSE toRadio
     /\ crossed' = IF ~sends THEN crossed ELSE ~asks /\ (crossed \/ Answering)
     /\ behind' = IF ~sends THEN behind ELSE ~asks /\ (behind \/ ~follows)

(***************************************************************************)
(* The connection and the K4                                               *)
(***************************************************************************)
\* To a K4 of any setting, this one or another.  A connection takes longer
\* than the two timers.
Connect ==
  /\ link = "down" /\ due = "no" /\ Spends
  /\ link' = "up" /\ radio' \in Row.codes /\ toRadio' = <<Get>> /\ crossed' = FALSE /\ behind' = FALSE
  /\ UNCHANGED <<f, toPhone, mirror, shown, fresh, due>>

Disconnect ==
  /\ link = "up" /\ Spends
  /\ link' = "down" /\ toRadio' = <<>> /\ toPhone' = <<>>
  /\ mirror' = IF Row.keeps THEN mirror ELSE Row.reset
  /\ shown' = IF Row.clears = <<>> THEN shown ELSE Row.clears[1]
  /\ fresh' = FALSE /\ crossed' = FALSE /\ behind' = FALSE
  /\ UNCHANGED <<f, radio, due>>

RadioTakes ==
  /\ toRadio # <<>> /\ toRadio' = Tail(toRadio)
  /\ LET c == Head(toRadio) IN
     /\ radio' = IF c.op = "set" THEN c.arg
                 ELSE IF c.op = "nudge"
                      THEN Bounded(Row.low, radio \div Row.tens + c.arg, Row.high) * Row.tens + (radio % Row.tens)
                      ELSE radio
     /\ toPhone' = IF c.op = "get" THEN Append(toPhone, radio) ELSE toPhone
  /\ UNCHANGED <<f, link, mirror, shown, fresh, due, crossed, behind, left>>

PanelTurns ==
  /\ link = "up" /\ Spends
  /\ radio' \in Row.codes \ {radio} /\ toPhone' = Append(toPhone, radio')
  /\ crossed' = (crossed \/ Unasked)
  /\ UNCHANGED <<f, link, toRadio, mirror, shown, fresh, due, behind>>

PhoneTakes ==
  /\ toPhone # <<>> /\ toPhone' = Tail(toPhone)
  /\ Hear(Head(toPhone))
  /\ crossed' = (crossed \/ (fresh /\ Stored(Head(toPhone)) \notin {<<>>, <<mirror>>}))
  /\ UNCHANGED <<f, link, radio, toRadio, fresh, due, behind, left>>

GuardExpires ==
  /\ fresh /\ fresh' = FALSE
  /\ UNCHANGED <<f, link, radio, toRadio, toPhone, mirror, shown, due, crossed, behind, left>>

(***************************************************************************)
(* MainWindow's controls                                                   *)
(***************************************************************************)
\* Below ten watts by tenths, above by watts, and no value between 10 and 11.
NextPower(steps) ==
  IF mirror <= 100
  THEN IF mirror + steps > 100 THEN 110 ELSE Bounded(1, mirror + steps, 100)
  ELSE IF mirror + 10 * steps <= 100 THEN 100 ELSE Bounded(110, mirror + 10 * steps, 1100)

\* An encoder: by tenths up to ten watts, by watts above.
NextMidi(steps) ==
  LET now == IF mirror < 1 THEN 1 ELSE mirror
  IN Bounded(1, now + steps * (IF now <= 100 THEN 1 ELSE 10), 1100)

\* Above ten watts the command has whole watts: the panel cuts, the encoder rounds.
Sent(d, next) ==
  IF next <= 100 \/ d.how \notin {"power", "midi"} THEN next
  ELSE ((next + (IF d.how = "midi" THEN 5 ELSE 0)) \div 10) * 10

StepTurns(d, steps) ==
  LET now == IF LevelNow < d.floor THEN d.floor ELSE LevelNow
      next == IF d.how = "power" THEN NextPower(steps)
              ELSE IF d.how = "midi" THEN NextMidi(steps)
              ELSE Bounded(d.low, now + steps * d.by, d.high)
      flag == IF d.how = "cut" THEN 0 ELSE Flags
  IN /\ Send(<<Set(Sent(d, next), flag)>>, Sent(d, next) = next /\ flag = Flags)
     /\ SetMirror(next * Row.tens + Flags) /\ UNCHANGED due

Nudge(arg) == [op |-> "nudge", arg |-> arg]

Nudges(d, steps) ==
  LET next == Bounded(d.low, LevelNow + steps * d.by, d.high)
  IN /\ Send(IF next = LevelNow THEN <<>> ELSE <<Nudge(IF next >= LevelNow THEN d.by ELSE 0 - d.by)>>, TRUE)
     /\ SetMirror(next * Row.tens + Flags) /\ UNCHANGED due

Slips(d, steps) == Send(<<Nudge(steps * d.by)>>, FALSE) /\ UNCHANGED <<mirror, shown, fresh, due>>

Chooses(d, level) ==
  \/ /\ d.how \in {"choose", "fader"}
     /\ LET kept == Bounded(d.low, level, d.high) IN
        /\ SetMirror(kept * Row.tens + Flags)
        /\ Send(<<Set(level, Flags)>>, kept = level /\ d.how = "choose")
     /\ UNCHANGED due
  \/ /\ d.how = "parse"
     /\ Send(<<Set(level, Flags)>>, TRUE) /\ Hear(level) /\ UNCHANGED <<fresh, due>>
  \/ /\ d.how = "ask"
     /\ Send(<<Set(level, Flags), Get>>, TRUE) /\ UNCHANGED <<mirror, shown, fresh, due>>
  \/ /\ d.how = "confirm"
     /\ Send(<<Set(level, Flags)>>, TRUE) /\ due' = "get" /\ UNCHANGED <<mirror, shown, fresh>>
  \/ /\ d.how \in {"later", "zoom"}
     /\ SetMirror(level) /\ due' = (IF d.how = "later" THEN "set" ELSE "zoom")
     /\ UNCHANGED <<toRadio, crossed, behind>>
  \/ /\ d.how = "local"
     /\ Send(<<Set(level, Flags)>>, FALSE) /\ shown' = level /\ UNCHANGED <<mirror, fresh, due>>
  \/ /\ d.how = "blind"
     /\ \/ Send(<<Set(level, Flags)>>, FALSE)
        \/ /\ Row.tens = 10
           /\ Send(<<Set(Bounded(d.low, LevelNow, d.high), IF Flags = 0 THEN 1 ELSE 0)>>, FALSE)
     /\ UNCHANGED <<mirror, shown, fresh, due>>

Detents == {"step", "power", "midi", "cut"}

Turns ==
  /\ Spends
  /\ \E d \in Row.dials :
       \/ d.how \in Detents /\ \E steps \in {-1, 1} : StepTurns(d, steps)
       \/ d.how = "nudge" /\ link = "up" /\ \E steps \in {-1, 1} : Nudges(d, steps)
       \/ d.how = "slip" /\ link = "up" /\ \E steps \in {-1, 1} : Slips(d, steps)
       \/ /\ d.how \notin Detents \cup {"nudge", "slip"} /\ link = "up"
          /\ \E i \in DOMAIN d.ends : Chooses(d, d.ends[i])
  /\ UNCHANGED <<f, link, radio, toPhone>>

\* The timer of the equalizers sends the copy, that of the query after PL asks; the
\* zoom's sends the last span it chose, which a report may have changed in the copy.
TimerSends ==
  /\ due # "no" /\ due' = "no"
  /\ \/ due = "get" /\ Send(<<Get>>, TRUE)
     \/ due = "set" /\ Send(<<Set(LevelNow, Flags)>>, TRUE)
     \/ /\ due = "zoom"
        /\ \E d \in Row.dials : \E i \in DOMAIN d.ends :
             d.how = "zoom" /\ Send(<<Set(d.ends[i], Flags)>>, d.ends[i] = LevelNow)
  /\ UNCHANGED <<f, link, radio, toPhone, mirror, shown, fresh, left>>

\* sendMacro: whatever a macro sets, a full readback follows.
SendMacro ==
  /\ link = "up" /\ Spends
  /\ \E c \in Row.codes : Send(<<[op |-> "set", arg |-> c], Get>>, TRUE)
  /\ UNCHANGED <<f, link, radio, toPhone, mirror, shown, fresh, due>>

Next ==
  \/ Connect \/ Disconnect \/ RadioTakes \/ PanelTurns \/ PhoneTakes \/ GuardExpires
  \/ Turns \/ TimerSends \/ SendMacro

Spec == Init /\ [][Next]_vars

(***************************************************************************)
(* Properties                                                              *)
(***************************************************************************)
\* No command or report is under way and no timer runs.
Settled == link = "up" /\ toRadio = <<>> /\ toPhone = <<>> /\ due = "no"

\* Whatever a dial starts from, the copy keeps within what its handler and its
\* dials allow, or is what reset() left; nothing is queued while disconnected.
TypeOK ==
  /\ link \in {"down", "up"} /\ fresh \in BOOLEAN /\ due \in {"no", "set", "zoom", "get"}
  /\ crossed \in BOOLEAN /\ behind \in BOOLEAN /\ left \in 0..Limit /\ radio \in Int /\ shown \in Int
  /\ link = "down" => toRadio = <<>> /\ toPhone = <<>>
  /\ \/ mirror = Row.reset
     \/ mirror \div Row.tens \in (Row.low * Row.unit)..(Row.high * Row.unit)
     \/ \E d \in Row.dials : mirror \div Row.tens \in d.low..d.high

\* The K4 echoes no command of this client, yet once everything sent has been
\* taken the copy is what the K4 has, unless a command and a report passed each
\* other since the last readback, or a control sent another value than it stored
\* (radiostate.cpp's setters and handlers; the README lists those controls).
MirrorIsRadio ==
  Settled /\ ~crossed /\ ~behind => Stored(radio) \in {<<>>, <<mirror>>}

\* A setting whose widget and copy are both reset at a disconnect, or both kept,
\* is shown as copied again once the readback is in.
Together == (Row.clears # <<>>) = ~Row.keeps
ShownIsMirror == Settled /\ Together => shown = mirror

\* SD always writes the flag as 0 (MainWindow's handler of delayChanged).
CutsFlag == \E d \in Row.dials : d.how = "cut"

\* A command that carries two parts of a setting changes one of them only, as long
\* as the copy is the K4's; but not SD, which writes both.
OnePartChanges ==
  Row.tens = 10 /\ ~CutsFlag /\ Settled /\ ~crossed /\ ~behind /\ Len(toRadio') = 1 /\ toRadio'[1].op = "set"
    => LET c == toRadio'[1].arg IN c \div 10 = radio \div 10 \/ c % 10 = radio % 10
=============================================================================
