------------------------------ MODULE PhoneProofs ------------------------------
(***************************************************************************)
(* Proofs about the parts that MCPhone puts together: voice PTT, and the   *)
(* connection, for every bound and every set of radios.  A step of one     *)
(* part is no step of another, so each part is proved for itself, about    *)
(* the variables it uses, and what is proved holds while it is the part.   *)
(***************************************************************************)
EXTENDS MCPhone, CallQueues, SequenceTheorems

(***************************************************************************)
(* Voice PTT.  That a keyed K4 is shown says nothing about what is still   *)
(* on its way to the K4; the invariant does: a session that is closed has  *)
(* said RX before its BYE, or the phone had not keyed the K4.              *)
(***************************************************************************)
Commands == {"TX", "RX", "BYE"}

PttTypes ==
  /\ link \in BOOLEAN /\ told \in BOOLEAN /\ granted \in BOOLEAN
  /\ ptt \in BOOLEAN /\ stray \in BOOLEAN
  /\ toRadio \in Seq(Commands) /\ keyed \in {"no", "phone", "panel"}

\* Without a connection nothing is on its way and the phone keys nothing; with
\* one, the last loss was handled.
Linked ==
  /\ link => told
  /\ ~link => toRadio = <<>> /\ keyed # "phone"

\* What the K4 does, or was told, before the command at a place of the queue.
Before(i) == IF i = 1 THEN keyed # "phone" ELSE toRadio[i - 1] # "TX"
ByeInRx == \A i \in DOMAIN toRadio : toRadio[i] = "BYE" /\ ~stray => Before(i)

PttInv ==
  /\ PttTypes /\ Linked
  /\ shown = ptt
  /\ KeyedIsShown
  /\ ByeInRx

\* What is known of the queue to the K4 after a command is put into it.
LEMMA Sending ==
  ASSUME NEW q \in Seq(Commands), NEW c \in Commands
  PROVE  /\ Append(q, c) \in Seq(Commands) /\ Append(q, c) # <<>>
         /\ Last(Append(q, c)) = c
         /\ DOMAIN Append(q, c) = 1 .. Len(q) + 1 /\ DOMAIN q = 1 .. Len(q) /\ Len(q) \in Nat
         /\ \A i \in 1 .. Len(q) : Append(q, c)[i] = q[i]
         /\ Append(q, c)[Len(q) + 1] = c
         /\ q # <<>> => Last(q) = q[Len(q)] /\ Len(q) # 0
         /\ q = <<>> => Len(q) = 0
BY DEF Last

\* A command other than BYE leaves those before it as they were.
LEMMA SendingKeeps ==
  ASSUME PttTypes, ByeInRx, NEW c \in {"TX", "RX"}, toRadio' = Append(toRadio, c),
         keyed' = keyed, ~stray' => ~stray \/ ~Contains(toRadio, "BYE")
  PROVE  ByeInRx'
<1> DEFINE n == Len(toRadio)
<1>1. /\ DOMAIN toRadio' = 1 .. n + 1 /\ DOMAIN toRadio = 1 .. n /\ n \in Nat
      /\ \A i \in 1 .. n : toRadio'[i] = toRadio[i]
      /\ toRadio'[n + 1] = c
  BY Sending DEF PttTypes, Commands
<1> SUFFICES ASSUME NEW i \in DOMAIN toRadio', toRadio'[i] = "BYE", ~stray'
             PROVE  Before(i)'
  BY DEF ByeInRx
<1> HIDE DEF n
<1>2. i \in 1 .. n /\ toRadio[i] = "BYE"
  BY <1>1
<1>3. Contains(toRadio, "BYE")
  BY <1>2 DEF Contains, n
<1>4. ~stray
  BY <1>3
<1>5. Before(i)
  BY <1>1, <1>2, <1>4 DEF ByeInRx
<1>6. i # 1 => i - 1 \in 1 .. n
  BY <1>1, <1>2
<1> QED
  BY <1>1, <1>2, <1>5, <1>6 DEF Before

\* A phone that gives a command shows what it commands.
LEMMA Commanding ==
  ASSUME PttInv, NEW c \in {"TX", "RX"}, Send(c),
         UNCHANGED <<link, told, granted, keyed>>, ptt' \in BOOLEAN, shown' = ptt',
         stray' \in BOOLEAN, ~stray' => ~stray \/ ~Contains(toRadio, "BYE"),
         c = "TX" => ptt' /\ link
  PROVE  PttInv'
<1>0. PttTypes /\ Linked /\ ByeInRx /\ c \in Commands
  BY DEF PttInv, Commands
<1>1. CASE link
  <2>1. toRadio' = Append(toRadio, c)
    BY <1>1 DEF Send
  <2>2. toRadio' \in Seq(Commands) /\ toRadio' # <<>> /\ Last(toRadio') = c
    BY <1>0, <2>1, Sending DEF PttTypes
  <2>3. ByeInRx'
    BY <1>0, <2>1, SendingKeeps
  <2>4. PttTypes'
    BY <1>0, <2>2 DEF PttTypes
  <2>5. Linked'
    BY <1>0, <1>1 DEF Linked
  <2>6. KeyedIsShown'
    BY <2>2 DEF KeyedIsShown, Owed
  <2> QED
    BY <2>3, <2>4, <2>5, <2>6 DEF PttInv
<1>2. CASE ~link
  <2>1. toRadio' = toRadio /\ toRadio = <<>> /\ keyed # "phone"
    BY <1>0, <1>2 DEF Send, Linked
  <2>2. PttTypes'
    BY <1>0, <2>1 DEF PttTypes
  <2>3. Linked' /\ KeyedIsShown'
    BY <1>0, <2>1 DEF Linked, KeyedIsShown, Owed
  <2>4. ByeInRx'
    BY <2>1 DEF ByeInRx
  <2> QED
    BY <2>2, <2>3, <2>4 DEF PttInv
<1> QED
  BY <1>0, <1>1, <1>2 DEF PttTypes

\* What sends nothing may show less only when the K4 was not keyed by the phone.
LEMMA SendingNothing ==
  ASSUME PttInv, UNCHANGED <<link, told, granted, toRadio, keyed>>,
         ptt' \in BOOLEAN, shown' = ptt', stray' \in BOOLEAN, stray => stray',
         Owed /\ ~stray' => ptt' \/ ~ptt
  PROVE  PttInv'
<1>1. PttTypes' /\ Linked'
  BY DEF PttInv, PttTypes, Linked
<1>2. ByeInRx'
  BY DEF PttInv, ByeInRx, Before
<1>3. Owed' = Owed
  BY DEF Owed
<1>4. KeyedIsShown'
  BY <1>3 DEF PttInv, KeyedIsShown
<1> QED
  BY <1>1, <1>2, <1>4 DEF PttInv

\* onPttPressed; onPttReleased.
LEMMA Pressing ==
  ASSUME PttInv, NEW latch, onPttPressed(latch), UNCHANGED <<session, keyed>>
  PROVE  PttInv'
<1>0. PttTypes /\ shown = ptt /\ UNCHANGED <<link, told, granted, keyed>>
  BY DEF PttInv, session
<1>1. CASE digital # "no" \/ ~link \/ ~granted
  <2>1. UNCHANGED <<ptt, shown, toRadio, stray>>
    BY <1>1 DEF onPttPressed
  <2> QED
    BY <1>0, <2>1, SendingNothing DEF PttTypes
<1>2. CASE ~(digital # "no" \/ ~link \/ ~granted)
  <2>1. /\ Send("TX") /\ ptt' = TRUE /\ shown' = TRUE /\ link
        /\ stray' = (stray /\ Contains(toRadio, "BYE"))
    BY <1>2 DEF onPttPressed, SetPtt, Settles
  <2>2. stray' \in BOOLEAN
    BY <2>1
  <2> QED
    BY <1>0, <2>1, <2>2, Commanding
<1> QED
  BY <1>1, <1>2

\* Releasing sends RX, or there is nobody to send it to.
LEMMA Releasing ==
  ASSUME PttInv, onPttReleased, UNCHANGED <<session, keyed>>
  PROVE  PttInv'
<1>1. /\ Send("RX") /\ ptt' = FALSE /\ shown' = FALSE
      /\ stray' = (stray /\ Contains(toRadio, "BYE"))
      /\ UNCHANGED <<link, told, granted, keyed>>
  BY DEF onPttReleased, SetPtt, Settles, session
<1>2. stray' \in BOOLEAN
  BY <1>1
<1> QED
  BY <1>1, <1>2, Commanding

\* The operator, and the programs at the CAT server.
LEMMA OperatorKeeps ==
  ASSUME PttInv, \/ Tap \/ TapRelease \/ LockTimeout \/ Xmit \/ MidiToggle
                 \/ \E pressed \in BOOLEAN : MidiPtt(pressed)
                 \/ \E on \in BOOLEAN : CatPtt(on)
  PROVE  PttInv'
<1>0. PttTypes /\ shown = ptt
  BY DEF PttInv
<1>1. CASE Tap \/ TapRelease
  BY <1>1, Pressing, Releasing DEF Tap, TapRelease
<1>2. CASE LockTimeout
  BY <1>2, Releasing DEF LockTimeout
<1>3. ASSUME NEW pressed \in BOOLEAN, MidiPtt(pressed) PROVE PttInv'
  BY <1>3, Pressing, Releasing DEF MidiPtt
<1>4. CASE MidiToggle
  <2>1. (~(ptt \/ heard)) \in BOOLEAN /\ MidiPtt(~(ptt \/ heard))
    BY <1>4 DEF MidiToggle
  <2> QED
    BY <1>3, <2>1
<1>5. CASE Xmit
  <2>1. /\ UNCHANGED <<link, told, granted, keyed>> /\ link
        /\ Send(IF heard THEN "RX" ELSE "TX")
        /\ ptt' = ~heard /\ shown' = ~heard /\ stray' = (stray /\ Contains(toRadio, "BYE"))
    BY <1>5 DEF Xmit, SetPtt, Settles, session
  <2>2. stray' \in BOOLEAN /\ ptt' \in BOOLEAN
    BY <2>1
  <2> QED
    BY <2>1, <2>2, Commanding
<1>6. ASSUME NEW on \in BOOLEAN, CatPtt(on) PROVE PttInv'
  <2>1. /\ UNCHANGED <<link, told, granted, toRadio, keyed>>
        /\ ptt' = (on /\ granted) /\ shown' = (on /\ granted)
        /\ stray' = (stray \/ (~(on /\ granted) /\ ptt /\ Owed))
    BY <1>6 DEF CatPtt, SetPtt, session, wire
  <2>2. stray' \in BOOLEAN /\ ptt' \in BOOLEAN
    BY <2>1
  <2> QED
    BY <1>0, <2>1, <2>2, SendingNothing
<1> QED
  BY <1>1, <1>2, <1>3, <1>4, <1>5, <1>6

\* A closed session: RX before BYE, if the phone showed a transmission.
LEMMA ClosingKeeps == PttInv /\ ClickDisconnect => PttInv'
<1> SUFFICES ASSUME PttInv, ClickDisconnect PROVE PttInv'
  OBVIOUS
<1>0. /\ PttTypes /\ Linked /\ ByeInRx /\ shown = ptt /\ KeyedIsShown /\ link /\ told
      /\ UNCHANGED <<link, told, granted, keyed>> /\ ~Contains(toRadio, "BYE")
  BY DEF PttInv, Linked, ClickDisconnect, session
<1> DEFINE n == Len(toRadio)
<1>1. n \in Nat /\ DOMAIN toRadio = 1 .. n /\ \A i \in 1 .. n : toRadio[i] # "BYE"
  BY <1>0 DEF PttTypes, Contains
<1>2. CASE ptt
  <2> DEFINE q == Append(toRadio, "RX")
  <2>1. toRadio' = toRadio \o <<"RX", "BYE">>
    BY <1>2 DEF ClickDisconnect
  <2>2. /\ toRadio' \in Seq(Commands) /\ DOMAIN toRadio' = 1 .. n + 2
        /\ \A i \in 1 .. n : toRadio'[i] = toRadio[i]
        /\ toRadio'[n + 1] = "RX" /\ toRadio'[n + 2] = "BYE" /\ Len(toRadio') = n + 2
    BY <1>0, <2>1 DEF PttTypes, Commands
  <2>3. ptt' = FALSE /\ shown' = FALSE /\ stray' = (stray /\ Contains(toRadio, "BYE"))
    BY <1>2 DEF ClickDisconnect, SetPtt, Settles
  <2>4. PttTypes' /\ Linked'
    BY <1>0, <2>2, <2>3 DEF PttTypes, Linked
  <2> HIDE DEF n
  <2>5. ~Owed'
    <3>1. n + 2 # 0 /\ toRadio' # <<>> /\ Last(toRadio') = "BYE"
      BY <1>1, <2>2 DEF Last
    <3> QED
      BY <3>1 DEF Owed
  <2>6. ASSUME NEW i \in DOMAIN toRadio', toRadio'[i] = "BYE" PROVE Before(i)'
    <3>1. i = n + 2
      BY <1>1, <2>2, <2>6
    <3>2. i # 1 /\ toRadio'[i - 1] = "RX"
      BY <1>1, <2>2, <3>1
    <3> QED
      BY <3>2 DEF Before
  <2>7. KeyedIsShown' /\ ByeInRx'
    BY <2>5, <2>6 DEF KeyedIsShown, ByeInRx
  <2> QED
    BY <2>3, <2>4, <2>7 DEF PttInv
<1>3. CASE ~ptt
  <2>1. toRadio' = Append(toRadio, "BYE") /\ UNCHANGED <<ptt, shown, stray>>
    BY <1>0, <1>3 DEF ClickDisconnect, Send
  <2>2. /\ toRadio' \in Seq(Commands) /\ DOMAIN toRadio' = 1 .. n + 1 /\ Last(toRadio') = "BYE"
        /\ \A i \in 1 .. n : toRadio'[i] = toRadio[i]
        /\ toRadio'[n + 1] = "BYE" /\ toRadio' # <<>>
        /\ toRadio # <<>> => Last(toRadio) = toRadio[n] /\ n # 0
        /\ toRadio = <<>> => n = 0
    BY <1>0, <2>1, Sending DEF PttTypes, Commands
  <2>3. PttTypes' /\ Linked'
    BY <1>0, <2>1, <2>2 DEF PttTypes, Linked
  <2>4. ~Owed \/ stray
    BY <1>0, <1>3 DEF KeyedIsShown
  <2> HIDE DEF n
  <2>5. ~Owed'
    BY <2>2 DEF Owed
  <2>6. ASSUME NEW i \in DOMAIN toRadio', toRadio'[i] = "BYE", ~stray' PROVE Before(i)'
    <3>1. i = n + 1 /\ ~stray
      BY <1>1, <2>1, <2>2, <2>6
    <3>2. CASE toRadio = <<>>
      BY <1>0, <2>2, <2>4, <3>1, <3>2 DEF Before, Owed
    <3>3. CASE toRadio # <<>>
      <4>1. toRadio[n] # "TX" /\ n \in 1 .. n
        BY <1>1, <2>2, <2>4, <3>1, <3>3 DEF Owed
      <4>2. toRadio'[i - 1] # "TX" /\ i # 1
        BY <1>1, <2>2, <3>1, <4>1
      <4> QED
        BY <4>2 DEF Before
    <3> QED
      BY <3>2, <3>3
  <2>7. KeyedIsShown' /\ ByeInRx'
    BY <2>5, <2>6 DEF KeyedIsShown, ByeInRx
  <2> QED
    BY <1>0, <2>1, <2>3, <2>7 DEF PttInv
<1> QED
  BY <1>2, <1>3

\* A connection that is gone leaves nothing on its way and the K4 not keyed by the phone.
LEMMA GoneKeeps ==
  ASSUME PttInv, Gone, UNCHANGED <<granted, control>>
  PROVE  PttInv'
<1>1. /\ link' = FALSE /\ told' = FALSE /\ toRadio' = <<>> /\ stray' = FALSE
      /\ keyed' \in {"no", "panel"} /\ UNCHANGED <<granted, ptt, shown>>
  BY DEF Gone, control, PttInv, PttTypes
<1>2. PttTypes'
  <2>1. <<>> \in Seq(Commands) /\ granted \in BOOLEAN /\ ptt \in BOOLEAN
    BY DEF PttInv, PttTypes
  <2> QED
    BY <1>1, <2>1 DEF PttTypes
<1>3. Linked' /\ KeyedIsShown' /\ ByeInRx'
  BY <1>1 DEF Linked, KeyedIsShown, ByeInRx
<1> QED
  BY <1>1, <1>2, <1>3 DEF PttInv

\* The K4 takes a command: what it was told last stays what it was told last.
LEMMA RadioTakesKeeps == PttInv /\ RadioTakes => PttInv'
<1> SUFFICES ASSUME PttInv, RadioTakes PROVE PttInv'
  OBVIOUS
<1>0. PttTypes /\ Linked /\ ByeInRx /\ shown = ptt /\ KeyedIsShown /\ toRadio # <<>> /\ link
  BY DEF PttInv, Linked, RadioTakes
<1>1. CASE Head(toRadio) = "BYE"
  BY <1>1, GoneKeeps DEF RadioTakes
<1>2. CASE Head(toRadio) # "BYE"
  <2> DEFINE n == Len(toRadio)
  <2>1. /\ toRadio' = Tail(toRadio) /\ UNCHANGED <<link, told, granted, ptt, shown, stray>>
        /\ keyed' = IF Head(toRadio) = "TX" THEN "phone" ELSE "no"
    BY <1>2 DEF RadioTakes, control
  <2>2. /\ n \in Nat /\ n # 0 /\ DOMAIN toRadio = 1 .. n /\ Head(toRadio) = toRadio[1]
        /\ Tail(toRadio) \in Seq(Commands) /\ DOMAIN Tail(toRadio) = 1 .. n - 1
        /\ Len(Tail(toRadio)) = n - 1
        /\ \A i \in 1 .. n - 1 : Tail(toRadio)[i] = toRadio[i + 1]
        /\ n = 1 => Tail(toRadio) = <<>>
    BY <1>0 DEF PttTypes
  <2>3. PttTypes' /\ Linked'
    BY <1>0, <2>1, <2>2 DEF PttTypes, Linked
  <2>4. Owed' = Owed
    <3>1. Last(toRadio) = toRadio[n] /\ Last(toRadio') = toRadio'[n - 1]
      BY <2>1, <2>2 DEF Last
    <3>2. CASE n = 1
      BY <1>0, <2>1, <2>2, <3>1, <3>2 DEF Owed
    <3>3. CASE n # 1
      <4>1. n - 1 \in 1 .. n - 1 /\ (n - 1) + 1 = n
        <5> HIDE DEF n
        <5> QED
          BY <2>2, <3>3
      <4>2. toRadio'[n - 1] = toRadio[n]
        <5> HIDE DEF n
        <5> QED
          BY <2>1, <2>2, <4>1
      <4>3. toRadio' # <<>>
        <5>1. Len(toRadio') = n - 1 /\ n - 1 # 0
          BY <2>1, <2>2, <4>1
        <5> QED
          BY <5>1
      <4> QED
        BY <1>0, <3>1, <4>2, <4>3 DEF Owed
    <3> QED
      BY <3>2, <3>3
  <2>5. KeyedIsShown'
    BY <1>0, <2>1, <2>4 DEF KeyedIsShown
  <2>6. ASSUME NEW i \in DOMAIN toRadio', toRadio'[i] = "BYE", ~stray' PROVE Before(i)'
    <3> HIDE DEF n
    <3>1. i \in 1 .. n - 1 /\ toRadio[i + 1] = "BYE" /\ i + 1 \in 1 .. n /\ i + 1 # 1 /\ (i + 1) - 1 = i
      BY <2>1, <2>2, <2>6
    <3>2. toRadio[i] # "TX"
      BY <1>0, <2>1, <2>2, <2>6, <3>1 DEF ByeInRx, Before
    <3>3. CASE i = 1
      BY <2>1, <2>2, <3>2, <3>3 DEF Before
    <3>4. CASE i # 1
      <4>1. i - 1 \in 1 .. n - 1 /\ (i - 1) + 1 = i
        BY <2>2, <3>1, <3>4
      <4>2. toRadio'[i - 1] = toRadio[i]
        BY <2>1, <2>2, <4>1
      <4> QED
        BY <3>2, <3>4, <4>2 DEF Before
    <3> QED
      BY <3>3, <3>4
  <2>7. ByeInRx'
    BY <2>6 DEF ByeInRx
  <2> QED
    BY <1>0, <2>1, <2>3, <2>5, <2>7 DEF PttInv
<1> QED
  BY <1>1, <1>2

\* What the connection, the K4's own key and the other threads do.
LEMMA SurroundingsKeep ==
  ASSUME PttInv,
         \/ DigitalStarts \/ DigitalEnds \/ Lost \/ Disconnected \/ Connect \/ AudioTakes
         \/ Hear \/ PanelTurns \/ UNCHANGED vars
  PROVE  PttInv'
<1>0. PttTypes /\ Linked /\ ByeInRx /\ shown = ptt /\ KeyedIsShown
  BY DEF PttInv
<1>1. CASE DigitalStarts \/ DigitalEnds \/ AudioTakes \/ Hear \/ UNCHANGED vars
  <2>1. UNCHANGED <<link, told, granted, toRadio, keyed, ptt, shown, stray>>
    BY <1>1 DEF DigitalStarts, DigitalEnds, AudioTakes, Hear, vars, session, control, wire
  <2> QED
    BY <1>0, <2>1, SendingNothing DEF PttTypes
<1>2. CASE Lost
  BY <1>2, GoneKeeps DEF Lost
<1>3. CASE Disconnected
  <2>1. /\ UNCHANGED <<link, granted, toRadio, keyed, stray>> /\ told' = TRUE /\ ~link
        /\ ptt' = FALSE /\ shown' = FALSE
    BY <1>3 DEF Disconnected, SetPtt
  <2>2. PttTypes' /\ Linked'
    BY <1>0, <2>1 DEF PttTypes, Linked
  <2>3. KeyedIsShown' /\ ByeInRx'
    BY <1>0, <2>1 DEF Linked, KeyedIsShown, Owed, ByeInRx
  <2> QED
    BY <2>1, <2>2, <2>3 DEF PttInv
<1>4. CASE Connect
  <2>1. /\ UNCHANGED <<told, granted, toRadio, keyed, ptt, shown, stray>> /\ link' = TRUE
        /\ ~link /\ told
    BY <1>4 DEF Connect, control
  <2>2. PttTypes' /\ Linked'
    BY <1>0, <2>1 DEF PttTypes, Linked
  <2>3. KeyedIsShown' /\ ByeInRx'
    BY <1>0, <2>1 DEF Linked, KeyedIsShown, Owed, ByeInRx
  <2> QED
    BY <1>0, <2>1, <2>2, <2>3 DEF PttInv
<1>5. CASE PanelTurns
  <2>1. /\ UNCHANGED <<link, told, granted, toRadio, ptt, shown, stray>> /\ link
        /\ keyed' \in {"panel", "no"}
    BY <1>5 DEF PanelTurns, session, control
  <2>2. PttTypes' /\ Linked'
    BY <1>0, <2>1 DEF PttTypes, Linked
  <2>3. Owed' => Owed
    BY <2>1 DEF Owed
  <2>4. KeyedIsShown'
    BY <1>0, <2>1, <2>3 DEF KeyedIsShown
  <2>5. ByeInRx'
    BY <1>0, <2>1 DEF ByeInRx, Before
  <2> QED
    BY <1>0, <2>1, <2>2, <2>4, <2>5 DEF PttInv
<1> QED
  BY <1>1, <1>2, <1>3, <1>4, <1>5

\* A step while the part is voice PTT is one of voice PTT.
LEMMA PttStep ==
  ASSUME part = "ptt", [AllNext]_all
  PROVE  [Next]_vars
<1>1. CASE UNCHANGED all
  BY <1>1 DEF all
<1>2. ~Connection /\ ~Mode /\ ~Calibration /\ ~Loudspeaker
  BY DEF Connection, Mode, Calibration, Loudspeaker
<1>3. CASE AllNext
  BY <1>2, <1>3 DEF AllNext, Next, Ptt
<1> QED
  BY <1>1, <1>3

\* A part is never left.
LEMMA PartStays == [AllNext]_all => part' = part
BY DEF AllNext, all, Ptt, Connection, Mode, Calibration, Loudspeaker

(***************************************************************************)
(* While the K4 transmits on this phone's command, the phone shows it,     *)
(* whichever control was used; and a session that the operator closes is   *)
(* not left in a transmission: for any number of taps, switches, programs  *)
(* and losses, in any order.                                               *)
(***************************************************************************)
THEOREM NothingIsKeyedUnseen == AllSpec => []KeyedKnowingly
<1> DEFINE OfPtt == part = "ptt" => PttInv
<1>1. AllInit => OfPtt
  <2> SUFFICES ASSUME Init PROVE PttInv
    BY DEF AllInit
  <2>1. <<>> \in Seq(Commands)
    OBVIOUS
  <2> QED
    <3>1. PttTypes
      BY <2>1 DEF Init, PttTypes
    <3>2. Linked /\ KeyedIsShown /\ ByeInRx /\ shown = ptt
      <4>1. toRadio = <<>> /\ keyed = "no" /\ link = TRUE /\ told = TRUE /\ shown = ptt
        BY DEF Init
      <4>2. DOMAIN toRadio = {}
        BY <4>1
      <4>3. ~Owed
        BY <4>1 DEF Owed
      <4> QED
        BY <4>1, <4>2, <4>3 DEF Linked, KeyedIsShown, ByeInRx
    <3> QED
      BY <3>1, <3>2 DEF PttInv
<1>2. OfPtt /\ [AllNext]_all => OfPtt'
  <2> SUFFICES ASSUME PttInv, part = "ptt", [AllNext]_all PROVE PttInv'
    BY PartStays
  <2> QED
    BY PttStep, OperatorKeeps, ClosingKeeps, RadioTakesKeeps, SurroundingsKeep DEF Next
<1>3. OfPtt => KeyedKnowingly
  <2> SUFFICES ASSUME PttInv PROVE KeyedIsShown /\ LeavesInRx
    BY DEF KeyedKnowingly
  <2>1. ASSUME toRadio # <<>>, Head(toRadio) = "BYE", ~stray PROVE keyed # "phone"
    <3>1. 1 \in DOMAIN toRadio /\ toRadio[1] = "BYE"
      BY <2>1 DEF PttInv, PttTypes
    <3> QED
      BY <2>1, <3>1 DEF PttInv, ByeInRx, Before
  <2> QED
    BY <2>1 DEF PttInv, LeavesInRx
<1> HIDE DEF OfPtt
<1> QED
  BY <1>1, <1>2, <1>3, PTL DEF AllSpec

-----------------------------------------------------------------------------
(***************************************************************************)
(* The connection.  MCPhone lends it the variables of voice PTT: here told *)
(* is MainWindow's state, toPhone the signals to it, toRadio the calls to  *)
(* TcpClient, ptt TcpClient, shown the lookups, link the socket, locked    *)
(* the receive buffer, stray the outdated answer and budget the bounds.    *)
(***************************************************************************)
Client == [state : K!ConnectionState, radio : K!MaybeRadio, timers : SUBSET K!AllTimers,
           answered : BOOLEAN, try : Nat, asked : BOOLEAN]
SslSocket == [st : {"off", "opening", "open", "closing"}, peer : K!MaybeRadio, tls : BOOLEAN,
              ending : BOOLEAN, auth : BOOLEAN, secured : BOOLEAN]
Worlds == [c : Client, s : SslSocket, q : Seq(K!ConnectionState)]

\* What a handler leaves in the queue of signals: nothing new, or the new state last.
Signalled(w, v) ==
  \/ v.q = w.q /\ v.c.state = w.c.state
  \/ v.q # <<>> /\ v.q[Len(v.q)] = v.c.state

\* Stop and Start change the timers only.
LEMMA Timing ==
  ASSUME NEW w \in Worlds, NEW T \in SUBSET K!AllTimers
  PROVE  /\ K!Stop(w, T) \in Worlds
         /\ K!Stop(w, T).c = [w.c EXCEPT !.timers = @ \ T]
         /\ K!Stop(w, T).s = w.s /\ K!Stop(w, T).q = w.q
         /\ \A t \in K!AllTimers : /\ K!Start(w, t) \in Worlds
                                   /\ K!Start(w, t).c = [w.c EXCEPT !.timers = @ \cup {t}]
                                   /\ K!Start(w, t).s = w.s /\ K!Start(w, t).q = w.q
BY DEF Worlds, Client, K!Stop, K!Start

\* A change, and only a change, is signalled.
LEMMA Setting ==
  ASSUME NEW w \in Worlds, NEW state \in K!ConnectionState
  PROVE  /\ K!SetState(w, state) \in Worlds
         /\ K!SetState(w, state).c = [w.c EXCEPT !.state = state]
         /\ K!SetState(w, state).s = w.s
         /\ Signalled(w, K!SetState(w, state))
         /\ w.c.state # state => /\ K!SetState(w, state).q # <<>>
                                 /\ K!SetState(w, state).q[Len(K!SetState(w, state).q)] = state
<1> DEFINE v == K!SetState(w, state)
<1>0. w.c \in Client /\ w.q \in Seq(K!ConnectionState) /\ w.s \in SslSocket
  BY DEF Worlds
<1>1. CASE w.c.state = state
  <2>1. v = w
    BY <1>1 DEF K!SetState
  <2>2. [w.c EXCEPT !.state = state] = w.c
    BY <1>0, <1>1 DEF Client
  <2> QED
    BY <1>1, <2>1, <2>2 DEF Signalled
<1>2. CASE w.c.state # state
  <2>1. v = [w EXCEPT !.c = [w.c EXCEPT !.state = state], !.q = Append(w.q, state)]
    BY <1>0, <1>2 DEF K!SetState, Worlds
  <2>2. v.c = [w.c EXCEPT !.state = state] /\ v.s = w.s /\ v.q = Append(w.q, state)
    BY <1>0, <2>1 DEF Worlds
  <2>3. v.c \in Client /\ v.c.state = state
    BY <1>0, <2>2 DEF Client
  <2>4. v.q \in Seq(K!ConnectionState) /\ v.q # <<>> /\ v.q[Len(v.q)] = state
    BY <1>0, <2>2
  <2>5. v \in Worlds
    BY <1>0, <2>1, <2>2, <2>3, <2>4 DEF Worlds
  <2> HIDE DEF v
  <2>6. Signalled(w, v)
    BY <2>3, <2>4 DEF Signalled
  <2> QED
    BY <2>2, <2>4, <2>5, <2>6 DEF v
<1> QED
  BY <1>1, <1>2

\* onSocketDisconnected and onSocketError.
LEMMA GoingDown ==
  ASSUME NEW w \in Worlds
  PROVE  /\ K!SocketDown(w) \in Worlds
         /\ K!SocketDown(w).c = [w.c EXCEPT !.state = "Disconnected", !.timers = {}]
         /\ K!SocketDown(w).s = w.s
         /\ Signalled(w, K!SocketDown(w))
<1> DEFINE t == K!Stop(w, K!AllTimers)
<1>1. t \in Worlds /\ t.c = [w.c EXCEPT !.timers = @ \ K!AllTimers] /\ t.s = w.s /\ t.q = w.q
  BY Timing
<1>2. w.c \in Client
  BY DEF Worlds
<1>3. t.c = [w.c EXCEPT !.timers = {}]
  BY <1>1, <1>2 DEF Client
<1> HIDE DEF t
<1>4. K!SocketDown(w) = K!SetState(t, "Disconnected")
  BY DEF K!SocketDown, t
<1>5. "Disconnected" \in K!ConnectionState
  BY DEF K!ConnectionState
<1>6. [t.c EXCEPT !.state = "Disconnected"] = [w.c EXCEPT !.state = "Disconnected", !.timers = {}]
  BY <1>2, <1>3 DEF Client
<1>7. Signalled(t, K!SetState(t, "Disconnected")) => Signalled(w, K!SetState(t, "Disconnected"))
  BY <1>1, <1>2, <1>3 DEF Signalled, Client
<1> DEFINE v == K!SetState(t, "Disconnected")
<1>8. v \in Worlds /\ v.c = [t.c EXCEPT !.state = "Disconnected"] /\ v.s = t.s /\ Signalled(t, v)
  BY <1>1, <1>5, Setting, ZenonT(40)
<1> HIDE DEF v
<1> QED
  BY <1>1, <1>4, <1>6, <1>7, <1>8 DEF v

\* The socket is down and TcpClient knows.
LEMMA Ending ==
  ASSUME NEW w \in Worlds
  PROVE  /\ K!SocketEnded(w) \in Worlds
         /\ K!SocketEnded(w).c = [w.c EXCEPT !.state = "Disconnected", !.timers = {}]
         /\ K!SocketEnded(w).s = K!Off
         /\ Signalled(w, K!SocketEnded(w))
<1> DEFINE t == [w EXCEPT !.s = K!Off]
<1>1. t \in Worlds /\ t.c = w.c /\ t.s = K!Off /\ t.q = w.q
  BY DEF Worlds, SslSocket, K!Off, K!MaybeRadio
<1> HIDE DEF t
<1>2. K!SocketEnded(w) = K!SocketDown(t)
  BY DEF K!SocketEnded, t
<1> QED
  BY <1>1, <1>2, GoingDown DEF Signalled

\* QSslSocket::disconnectFromHost.
LEMMA ClosingSocket ==
  ASSUME NEW w \in Worlds, NEW lingers \in BOOLEAN
  PROVE  /\ K!Close(w, lingers) \in Worlds
         /\ w.s.st = "opening" => /\ K!Close(w, lingers).s = [w.s EXCEPT !.ending = TRUE]
                                 /\ K!Close(w, lingers).c = w.c /\ K!Close(w, lingers).q = w.q
         /\ w.s.st = "open" /\ lingers =>
              /\ K!Close(w, lingers).s = [w.s EXCEPT !.st = "closing"]
              /\ K!Close(w, lingers).c = w.c /\ K!Close(w, lingers).q = w.q
         /\ w.s.st = "open" /\ ~lingers => K!Close(w, lingers) = K!SocketEnded(w)
         /\ w.s.st \in {"off", "closing"} => K!Close(w, lingers) = w
<1>0. w.s \in SslSocket
  BY DEF Worlds
<1>1. CASE w.s.st = "opening"
  <2>1. K!Close(w, lingers) = [w EXCEPT !.s = [w.s EXCEPT !.ending = TRUE]]
    BY <1>1 DEF K!Close, Worlds
  <2>2. [w.s EXCEPT !.ending = TRUE] \in SslSocket
    BY <1>0 DEF SslSocket
  <2>3. /\ K!Close(w, lingers).s = [w.s EXCEPT !.ending = TRUE] /\ K!Close(w, lingers).c = w.c
        /\ K!Close(w, lingers).q = w.q
    BY <2>1 DEF Worlds
  <2>4. K!Close(w, lingers) \in Worlds
    BY <2>1, <2>2 DEF Worlds
  <2> QED
    BY <1>1, <2>3, <2>4
<1>2. CASE w.s.st = "open" /\ lingers
  <2>1. K!Close(w, lingers) = [w EXCEPT !.s = [w.s EXCEPT !.st = "closing"]]
    BY <1>2 DEF K!Close, Worlds
  <2>2. [w.s EXCEPT !.st = "closing"] \in SslSocket
    BY <1>0 DEF SslSocket
  <2>3. /\ K!Close(w, lingers).s = [w.s EXCEPT !.st = "closing"] /\ K!Close(w, lingers).c = w.c
        /\ K!Close(w, lingers).q = w.q
    BY <2>1 DEF Worlds
  <2>4. K!Close(w, lingers) \in Worlds
    BY <2>1, <2>2 DEF Worlds
  <2> QED
    BY <1>2, <2>3, <2>4
<1>3. CASE w.s.st = "open" /\ ~lingers
  BY <1>3, Ending DEF K!Close
<1>4. CASE w.s.st \in {"off", "closing"}
  BY <1>4 DEF K!Close
<1> QED
  BY <1>0, <1>1, <1>2, <1>3, <1>4 DEF SslSocket

\* What is left of a socket by disconnectFromHost.
Left(s, t) ==
  \/ s.st \in {"off", "closing"} /\ t = s
  \/ s.st = "opening" /\ t = [s EXCEPT !.ending = TRUE]
  \/ s.st = "open" /\ t.st \in {"off", "closing"}

\* disconnectFromHost: no timer runs, and the socket is closed or will close itself.
LEMMA Disconnecting ==
  ASSUME NEW w \in Worlds, NEW lingers \in BOOLEAN
  PROVE  /\ K!DisconnectFromHost(w, lingers) \in Worlds
         /\ K!DisconnectFromHost(w, lingers).c =
              [w.c EXCEPT !.state = "Disconnected", !.timers = {}, !.asked = FALSE]
         /\ Left(w.s, K!DisconnectFromHost(w, lingers).s)
         /\ Signalled(w, K!DisconnectFromHost(w, lingers))
<1> DEFINE u == [w EXCEPT !.c = [w.c EXCEPT !.asked = FALSE]]
           t == K!Stop(u, K!AllTimers)
           x == K!Close(t, lingers)
<1>0. w.c \in Client /\ w.s \in SslSocket /\ "Disconnected" \in K!ConnectionState
  BY DEF Worlds, K!ConnectionState
<1>1. u \in Worlds /\ u.c = [w.c EXCEPT !.asked = FALSE] /\ u.s = w.s /\ u.q = w.q
  BY <1>0 DEF Worlds, Client
<1>2. u = [w EXCEPT !.c.asked = FALSE]
  BY <1>0 DEF Worlds
<1> HIDE DEF u
<1>3. t \in Worlds /\ t.c = [u.c EXCEPT !.timers = @ \ K!AllTimers] /\ t.s = w.s /\ t.q = w.q
  BY <1>1, Timing
<1>4. t.c = [w.c EXCEPT !.timers = {}, !.asked = FALSE] /\ t.c \in Client
  BY <1>0, <1>1, <1>3, ZenonT(40) DEF Client
<1>5. K!DisconnectFromHost(w, lingers) = K!SetState(x, "Disconnected")
  BY <1>2 DEF K!DisconnectFromHost
<1> HIDE DEF t
<1>6. CASE t.s.st = "open" /\ ~lingers
  <2>1. /\ x \in Worlds /\ x.c = [t.c EXCEPT !.state = "Disconnected", !.timers = {}]
        /\ x.s = K!Off /\ Signalled(t, x)
    BY <1>3, <1>6, ClosingSocket, Ending
  <2> HIDE DEF x
  <2>2. x.c = [w.c EXCEPT !.state = "Disconnected", !.timers = {}, !.asked = FALSE]
        /\ x.c.state = "Disconnected"
    BY <1>0, <1>4, <2>1 DEF Client
  <2>3. K!SetState(x, "Disconnected") = x
    BY <2>2 DEF K!SetState
  <2>4. Signalled(w, x)
    BY <1>0, <1>3, <1>4, <2>1 DEF Signalled, Client
  <2>5. Left(w.s, x.s)
    BY <1>3, <1>6, <2>1 DEF Left, K!Off
  <2> QED
    BY <1>5, <2>1, <2>2, <2>3, <2>4, <2>5
<1>7. CASE ~(t.s.st = "open" /\ ~lingers)
  <2>1. x \in Worlds /\ x.c = t.c /\ x.q = t.q /\ Left(t.s, x.s)
    <3>1. t.s.st \in {"off", "opening", "open", "closing"}
      BY <1>0, <1>3 DEF SslSocket
    <3>2. /\ x \in Worlds
          /\ t.s.st = "opening" => x.s = [t.s EXCEPT !.ending = TRUE] /\ x.c = t.c /\ x.q = t.q
          /\ t.s.st = "open" /\ lingers => x.s = [t.s EXCEPT !.st = "closing"] /\ x.c = t.c /\ x.q = t.q
          /\ t.s.st \in {"off", "closing"} => x = t
      BY <1>3, ClosingSocket
    <3> HIDE DEF x
    <3>3. x.c = t.c /\ x.q = t.q
      BY <1>7, <3>1, <3>2
    <3>4. [t.s EXCEPT !.st = "closing"].st = "closing"
      BY <1>0, <1>3 DEF SslSocket
    <3> QED
      BY <1>7, <3>1, <3>2, <3>3, <3>4 DEF Left
  <2> HIDE DEF x
  <2> DEFINE v == K!SetState(x, "Disconnected")
  <2>2. v \in Worlds /\ v.c = [x.c EXCEPT !.state = "Disconnected"] /\ v.s = x.s /\ Signalled(x, v)
    BY <1>0, <2>1, Setting
  <2> HIDE DEF v
  <2>3. v.c = [w.c EXCEPT !.state = "Disconnected", !.timers = {}, !.asked = FALSE]
    <3>1. v.c = [[w.c EXCEPT !.timers = {}, !.asked = FALSE] EXCEPT !.state = "Disconnected"]
      BY <1>4, <2>1, <2>2
    <3>2. [[w.c EXCEPT !.timers = {}, !.asked = FALSE] EXCEPT !.state = "Disconnected"]
            = [w.c EXCEPT !.state = "Disconnected", !.timers = {}, !.asked = FALSE]
      BY <1>0 DEF Client
    <3> QED
      BY <3>1, <3>2
  <2>4. Signalled(w, v)
    BY <1>0, <1>3, <1>4, <2>1, <2>2 DEF Signalled, Client
  <2> QED
    BY <1>3, <1>5, <2>1, <2>2, <2>3, <2>4 DEF v
<1> QED
  BY <1>6, <1>7

\* A client that is down.
Down(c) == [c EXCEPT !.state = "Disconnected", !.timers = {}]

\* A new request (connectToHost up to the lookup or the attempt).
LEMMA Requesting ==
  ASSUME NEW w \in Worlds, NEW r \in Radios, w.c.state = "Disconnected", w.c.timers = {}
  PROVE  /\ K!Connecting(K!Request(w, r)) \in Worlds
         /\ K!Connecting(K!Request(w, r)).c =
              [w.c EXCEPT !.state = "Connecting", !.radio = r, !.timers = {"connect"},
                          !.answered = FALSE, !.try = @ + 1, !.asked = TRUE]
         /\ K!Connecting(K!Request(w, r)).s = w.s
         /\ K!Connecting(K!Request(w, r)).q # <<>>
         /\ K!Connecting(K!Request(w, r)).q[Len(K!Connecting(K!Request(w, r)).q)] = "Connecting"
<1> DEFINE d == [w.c EXCEPT !.radio = r, !.answered = FALSE, !.try = @ + 1, !.asked = TRUE]
           u == K!Request(w, r)
           v == K!SetState(u, "Connecting")
           z == K!Start(v, "connect")
<1>0. w.c \in Client /\ "Connecting" \in K!ConnectionState /\ "connect" \in K!AllTimers
  BY DEF Worlds, K!ConnectionState, K!AllTimers
<1>1. d \in Client /\ d.state = "Disconnected" /\ d.timers = {}
  <2>1. r \in K!MaybeRadio /\ w.c.try + 1 \in Nat
    BY <1>0 DEF Client, K!MaybeRadio
  <2> QED
    BY <1>0, <2>1 DEF Client
<1>2. u = [w EXCEPT !.c = d]
  BY <1>0 DEF K!Request, Worlds, Client
<1> HIDE DEF d
<1>3. u \in Worlds /\ u.c = d /\ u.s = w.s
  BY <1>1, <1>2 DEF Worlds
<1> HIDE DEF u
<1>4. /\ v \in Worlds /\ v.c = [d EXCEPT !.state = "Connecting"] /\ v.s = w.s
      /\ v.q # <<>> /\ v.q[Len(v.q)] = "Connecting"
  BY <1>0, <1>1, <1>3, Setting
<1>5. K!Connecting(u) = z
  BY DEF K!Connecting
<1> HIDE DEF v
<1>6. z \in Worlds /\ z.c = [v.c EXCEPT !.timers = @ \cup {"connect"}] /\ z.s = w.s /\ z.q = v.q
  BY <1>0, <1>4, Timing
<1>7. z.c = [w.c EXCEPT !.state = "Connecting", !.radio = r, !.timers = {"connect"},
                        !.answered = FALSE, !.try = @ + 1, !.asked = TRUE]
  <2>1. z.c = [[d EXCEPT !.state = "Connecting"] EXCEPT !.timers = {} \cup {"connect"}]
    BY <1>1, <1>4, <1>6 DEF Client
  <2> QED
    BY <1>0, <2>1 DEF Client, d
<1> HIDE DEF z
<1> QED
  BY <1>4, <1>5, <1>6, <1>7 DEF u, z

\* A socket that starts to connect.
Opened(host, tls) ==
  [st |-> "opening", peer |-> host, tls |-> tls, ending |-> FALSE, auth |-> FALSE, secured |-> FALSE]

\* attemptConnection: the socket is opened, refuses, or stays as it is.
Attempted(w, v, host) ==
  \/ v.s = w.s /\ (v.c = w.c \/ v.c = Down(w.c))
  \/ v.s = Opened(host, w.c.radio \in Secure) /\ v.c = w.c /\ w.s.st = "off"
  \/ v.s = K!Refused(w.s) /\ v.c = Down(w.c)

\* attemptConnection has one of those three outcomes.
LEMMA Attempting ==
  ASSUME NEW w \in Worlds, NEW host \in K!MaybeRadio, w.c.timers = {"connect"}
  PROVE  /\ K!AttemptConnection(w, host) \in Worlds
         /\ Attempted(w, K!AttemptConnection(w, host), host)
         /\ Signalled(w, K!AttemptConnection(w, host))
<1> DEFINE v == K!AttemptConnection(w, host)
           tls == w.c.radio \in Secure
<1>0. w.c \in Client /\ w.s \in SslSocket /\ tls \in BOOLEAN /\ Signalled(w, w)
  BY DEF Worlds, Signalled
<1>1. CASE tls /\ ~TlsAvailable
  <2> DEFINE t == K!Stop(w, {"connect"})
             x == K!SetState(t, "Disconnected")
  <2>1. v = x
    BY <1>1 DEF K!AttemptConnection, K!UseTls
  <2>2. /\ t \in Worlds /\ t.c = [w.c EXCEPT !.timers = @ \ {"connect"}]
        /\ t.s = w.s /\ t.q = w.q
    BY Timing DEF K!AllTimers
  <2>3. t.c = [w.c EXCEPT !.timers = {}]
    BY <1>0, <2>2 DEF Client
  <2> HIDE DEF t
  <2>4. x \in Worlds /\ x.c = [t.c EXCEPT !.state = "Disconnected"] /\ x.s = t.s /\ Signalled(t, x)
    BY <2>2, Setting DEF K!ConnectionState
  <2> HIDE DEF x
  <2>5. x.c = Down(w.c)
    BY <1>0, <2>3, <2>4 DEF Client, Down
  <2>6. Signalled(w, x)
    BY <1>0, <2>2, <2>3, <2>4 DEF Signalled, Client
  <2> HIDE DEF v
  <2> QED
    BY <2>1, <2>2, <2>4, <2>5, <2>6 DEF Attempted, v
<1>2. CASE w.s.st = "off" /\ (tls => TlsAvailable)
  <2> DEFINE s == [K!Off EXCEPT !.st = "opening", !.peer = host, !.tls = tls]
  <2>1. v = [w EXCEPT !.s = s]
    BY <1>2 DEF K!AttemptConnection, K!UseTls
  <2>2. s = Opened(host, tls)
    <3>1. s = [[st |-> "off", peer |-> K!None, tls |-> FALSE, ending |-> FALSE, auth |-> FALSE,
                secured |-> FALSE] EXCEPT !.st = "opening", !.peer = host, !.tls = tls]
      BY DEF K!Off
    <3> HIDE DEF tls, s
    <3> QED
      BY <1>0, <3>1 DEF Opened
  <2> HIDE DEF s
  <2>3. s \in SslSocket
    BY <1>0, <2>2 DEF SslSocket, Opened
  <2>4. v \in Worlds /\ v.s = s /\ v.c = w.c /\ v.q = w.q
    BY <2>1, <2>3 DEF Worlds
  <2> QED
    BY <1>2, <2>2, <2>4 DEF Attempted, Signalled
<1>3. CASE w.s.st # "off" /\ tls /\ TlsAvailable
  <2>1. v = IF w.s.st = "closing" THEN K!SocketDown(w) ELSE w
    BY <1>3 DEF K!AttemptConnection, K!UseTls
  <2>2. CASE w.s.st = "closing"
    <3>1. v = K!SocketDown(w)
      BY <2>1, <2>2
    <3>2. K!SocketDown(w).s = w.s /\ K!SocketDown(w).c = Down(w.c)
      BY GoingDown DEF Down
    <3>3. Attempted(w, K!SocketDown(w), host)
      BY <3>2 DEF Attempted
    <3> QED
      BY <3>1, <3>3, GoingDown
  <2>3. CASE w.s.st # "closing"
    <3>1. v = w
      BY <2>1, <2>3
    <3>2. Attempted(w, w, host)
      BY DEF Attempted
    <3> QED
      BY <1>0, <3>1, <3>2
  <2> QED
    BY <2>2, <2>3
<1>4. CASE w.s.st # "off" /\ ~tls
  <2> DEFINE u == [w EXCEPT !.s = K!Refused(w.s)]
  <2>1. v = K!SocketDown([w EXCEPT !.s = K!Refused(@)])
    BY <1>4 DEF K!AttemptConnection, K!UseTls
  <2>2. v = K!SocketDown(u)
    BY <2>1 DEF Worlds
  <2>3. K!Refused(w.s) \in SslSocket
    BY <1>0 DEF K!Refused, SslSocket
  <2>4. u \in Worlds /\ u.s = K!Refused(w.s) /\ u.c = w.c /\ u.q = w.q
    BY <2>3 DEF Worlds
  <2> HIDE DEF u, v
  <2>5. Signalled(u, v) => Signalled(w, v)
    BY <2>4 DEF Signalled
  <2> QED
    BY <2>2, <2>4, <2>5, GoingDown DEF Attempted, Down, v
<1> QED
  BY <1>0, <1>1, <1>2, <1>3, <1>4

\* Authentication begins.
LEMMA Authenticates ==
  ASSUME NEW w \in Worlds, w.c.timers \subseteq {"connect", "auth"}
  PROVE  /\ K!Authenticating(w) \in Worlds
         /\ K!Authenticating(w).c = [w.c EXCEPT !.state = "Authenticating", !.timers = {"auth"}]
         /\ K!Authenticating(w).s = w.s
         /\ Signalled(w, K!Authenticating(w))
<1> DEFINE t == K!Stop(w, {"connect"})
           v == K!SetState(t, "Authenticating")
           z == K!Start(v, "auth")
<1>0. w.c \in Client /\ "Authenticating" \in K!ConnectionState /\ "auth" \in K!AllTimers
  BY DEF Worlds, K!ConnectionState, K!AllTimers
<1>1. t \in Worlds /\ t.c = [w.c EXCEPT !.timers = @ \ {"connect"}] /\ t.s = w.s /\ t.q = w.q
  BY Timing DEF K!AllTimers
<1>2. t.c \in Client /\ t.c.timers \cup {"auth"} = {"auth"} /\ t.c.state = w.c.state
  BY <1>0, <1>1 DEF Client, Worlds
<1> HIDE DEF t
<1>3. v \in Worlds /\ v.c = [t.c EXCEPT !.state = "Authenticating"] /\ v.s = w.s /\ Signalled(t, v)
  <2>1. t \in Worlds /\ t.s = w.s
    BY <1>1
  <2> QED
    BY <1>0, <2>1, Setting
<1>4. K!Authenticating(w) = z
  BY DEF K!Authenticating, t
<1> HIDE DEF v
<1>5. z \in Worlds /\ z.c = [v.c EXCEPT !.timers = @ \cup {"auth"}] /\ z.s = w.s /\ z.q = v.q
  BY <1>0, <1>3, Timing
<1>6. z.c = [t.c EXCEPT !.state = "Authenticating", !.timers = {"auth"}]
  BY <1>2, <1>3, <1>5 DEF Client
<1>7. z.c = [w.c EXCEPT !.state = "Authenticating", !.timers = {"auth"}]
  BY <1>0, <1>1, <1>6 DEF Client
<1>8. z.c.state = v.c.state
  BY <1>2, <1>3, <1>6 DEF Client
<1> HIDE DEF z
<1>9. Signalled(w, z)
  BY <1>1, <1>2, <1>3, <1>5, <1>8 DEF Signalled
<1> QED
  BY <1>4, <1>5, <1>7, <1>9

\* A packet ends authentication, or means nothing.
LEMMA Receiving ==
  ASSUME NEW w \in Worlds, w.c.state = "Authenticating" => w.c.timers = {"auth"}
  PROVE  LET v == K!PacketReceived(w)
         IN  /\ v \in Worlds /\ v.s = w.s /\ Signalled(w, v)
             /\ \/ v = w
                \/ /\ w.c.state = "Authenticating"
                   /\ v.c = [w.c EXCEPT !.state = "Connected", !.timers = {"ping"}, !.answered = TRUE]
<1> DEFINE u == [w EXCEPT !.c = [w.c EXCEPT !.answered = TRUE]]
           t == K!Stop(u, {"connect", "auth"})
           x == K!SetState(t, "Connected")
           v == K!Start(x, "ping")
<1>0. w.c \in Client /\ "Connected" \in K!ConnectionState /\ "ping" \in K!AllTimers
  BY DEF Worlds, K!ConnectionState, K!AllTimers
<1>1. CASE ~(w.c.state = "Authenticating" /\ ~w.c.answered)
  <2>1. K!PacketReceived(w) = w
    BY <1>1 DEF K!PacketReceived
  <2> QED
    BY <2>1 DEF Signalled
<1>2. CASE w.c.state = "Authenticating" /\ ~w.c.answered
  <2>1. u \in Worlds /\ u.c = [w.c EXCEPT !.answered = TRUE] /\ u.s = w.s /\ u.q = w.q
    BY <1>0 DEF Worlds, Client
  <2>2. u = [w EXCEPT !.c.answered = TRUE]
    BY DEF Worlds
  <2>3. K!PacketReceived(w) = v
    BY <1>2, <2>2 DEF K!PacketReceived
  <2> HIDE DEF u
  <2>4. t \in Worlds /\ t.c = [u.c EXCEPT !.timers = @ \ {"connect", "auth"}] /\ t.s = w.s /\ t.q = w.q
    BY <2>1, Timing DEF K!AllTimers
  <2>5. t.c = [w.c EXCEPT !.timers = {}, !.answered = TRUE]
    BY <1>0, <1>2, <2>1, <2>4 DEF Client
  <2> HIDE DEF t
  <2>6. x \in Worlds /\ x.c = [t.c EXCEPT !.state = "Connected"] /\ x.s = w.s /\ Signalled(t, x)
    BY <1>0, <2>4, Setting, ZenonT(40)
  <2> HIDE DEF x
  <2>7. v \in Worlds /\ v.c = [x.c EXCEPT !.timers = @ \cup {"ping"}] /\ v.s = w.s /\ v.q = x.q
    BY <1>0, <2>6, Timing
  <2>8. x.c = [w.c EXCEPT !.state = "Connected", !.timers = {}, !.answered = TRUE]
    BY <1>0, <2>5, <2>6 DEF Client
  <2>9. v.c = [w.c EXCEPT !.state = "Connected", !.timers = {"ping"}, !.answered = TRUE]
    BY <1>0, <2>7, <2>8 DEF Client
  <2> HIDE DEF v
  <2>10. v.c.state = x.c.state /\ t.c.state = w.c.state
    <3>1. v.c.state = "Connected" /\ x.c.state = "Connected"
      BY <1>0, <2>8, <2>9 DEF Client
    <3>2. t.c.state = w.c.state
      BY <1>0, <2>5 DEF Client
    <3> QED
      BY <3>1, <3>2
  <2>11. Signalled(w, v)
    BY <2>4, <2>6, <2>7, <2>10 DEF Signalled
  <2> QED
    BY <1>2, <2>3, <2>7, <2>9, <2>11
<1> QED
  BY <1>1, <1>2

-----------------------------------------------------------------------------
\* Every state has its own timer.
TimerOf(state) == CASE state = "Disconnected" -> {}
                    [] state = "Connecting" -> {"connect"}
                    [] state = "Authenticating" -> {"auth"}
                    [] state = "Connected" -> {"ping"}

\* What the socket is in each state of TcpClient; a K4 that was heard is one
\* that TLS or the password let in.
WorldOK(w) ==
  /\ w \in Worlds
  /\ w.c.timers = TimerOf(w.c.state)
  /\ w.s.st = "opening" => ~w.s.secured /\ ~w.s.auth
  /\ w.c.state \in {"Authenticating", "Connected"} => w.s.st = "open"
  /\ w.c.state = "Connecting" => w.c.asked
  /\ w.c.state = "Connected" => IF w.s.peer \in Secure THEN w.s.secured ELSE w.s.auth
  /\ w.c.answered => \/ w.c.state = "Connected"
                     \/ w.c.state = "Disconnected" /\ w.s.st \in {"off", "closing"}

(* A socket that may still become a connection belongs to the request that  *)
(* was made last, and no lookup of that request is still out; or it was     *)
(* given up and will close itself when it opens; or it cannot be let in.    *)
Current(w) ==
  /\ w.s.peer = w.c.radio /\ w.c.asked /\ w.c.state # "Disconnected"
  /\ w.s.tls => w.s.peer \in Secure
Marked(s) ==
  /\ s.ending /\ (s.tls => s.peer \in Secure)
  /\ s.st = "open" => s.tls /\ ~s.secured
Mute(s) == s.peer \in Secure /\ ~s.tls /\ ~s.secured
Owned(w, pending) ==
  w.s.st \in {"opening", "open"} =>
    /\ Current(w) \/ Marked(w.s) \/ Mute(w.s)
    /\ pending => Marked(w.s) \/ Mute(w.s)

\* disconnectFromHost gives the socket up.
LEMMA GivingUp ==
  ASSUME NEW w, NEW pending, WorldOK(w), Owned(w, pending), NEW lingers \in BOOLEAN
  PROVE  Owned(K!DisconnectFromHost(w, lingers), TRUE)
<1> DEFINE v == K!DisconnectFromHost(w, lingers)
<1> SUFFICES Owned(v, TRUE)
  OBVIOUS
<1>1. w \in Worlds /\ w.s \in SslSocket
  BY DEF WorldOK, Worlds
<1>2. Left(w.s, v.s)
  BY <1>1, Disconnecting
<1> HIDE DEF v
<1>3. CASE w.s.st \in {"off", "closing"}
  BY <1>2, <1>3 DEF Left, Owned
<1>4. CASE w.s.st = "opening"
  <2>1. v.s = [w.s EXCEPT !.ending = TRUE]
    BY <1>2, <1>4 DEF Left
  <2>2. w.s.tls => w.s.peer \in Secure
    BY <1>4 DEF Owned, Current, Marked, Mute
  <2>3. v.s.ending /\ v.s.st = "opening" /\ v.s.tls = w.s.tls /\ v.s.peer = w.s.peer
    BY <1>1, <1>4, <2>1 DEF SslSocket
  <2> QED
    BY <2>2, <2>3 DEF Owned, Marked
<1>5. CASE w.s.st = "open"
  BY <1>2, <1>5 DEF Left, Owned
<1> QED
  BY <1>1, <1>3, <1>4, <1>5 DEF SslSocket

\* ... and leaves a client that is down, and remembers whom it was asked for.
LEMMA GivenUp ==
  ASSUME NEW w, WorldOK(w), NEW lingers \in BOOLEAN
  PROVE  /\ WorldOK(K!DisconnectFromHost(w, lingers))
         /\ K!DisconnectFromHost(w, lingers).c.state = "Disconnected"
         /\ K!DisconnectFromHost(w, lingers).c.timers = {}
         /\ K!DisconnectFromHost(w, lingers).c.radio = w.c.radio
         /\ K!DisconnectFromHost(w, lingers).c.try = w.c.try
<1> DEFINE v == K!DisconnectFromHost(w, lingers)
<1>1. w \in Worlds /\ w.s \in SslSocket /\ w.c \in Client
  BY DEF WorldOK, Worlds
<1>2. /\ v \in Worlds /\ Left(w.s, v.s)
      /\ v.c = [w.c EXCEPT !.state = "Disconnected", !.timers = {}, !.asked = FALSE]
  BY <1>1, Disconnecting
<1> HIDE DEF v
<1>3. v.c.state = "Disconnected" /\ v.c.timers = {} /\ v.c.radio = w.c.radio /\ v.c.try = w.c.try
  BY <1>1, <1>2 DEF Client
<1>4. v.s.st = "opening" => ~v.s.secured /\ ~v.s.auth
  <2>1. v.s.st = "opening" => w.s.st = "opening" /\ v.s = [w.s EXCEPT !.ending = TRUE]
    BY <1>2 DEF Left
  <2> QED
    BY <1>1, <2>1 DEF WorldOK, SslSocket
<1>5. v.c.answered => v.s.st \in {"off", "closing"}
  <2>1. v.c.answered = w.c.answered
    BY <1>1, <1>2 DEF Client
  <2>2. w.s.st \in {"off", "closing", "open"} => v.s.st \in {"off", "closing"}
    BY <1>2 DEF Left
  <2> QED
    BY <2>1, <2>2 DEF WorldOK
<1>6. WorldOK(v)
  BY <1>2, <1>3, <1>4, <1>5 DEF WorldOK, TimerOf
<1> QED
  BY <1>3, <1>6 DEF v

\* connectToHost gives up what there was and starts a new request.
LEMMA Renewing ==
  ASSUME NEW u, WorldOK(u), NEW lingers \in BOOLEAN, NEW r \in Radios
  PROVE  LET w == IF u.c.state = "Disconnected" THEN u ELSE K!DisconnectFromHost(u, lingers)
             v == K!Connecting(K!Request(w, r))
         IN  /\ WorldOK(v) /\ (Owned(u, FALSE) => Owned(v, TRUE))
             /\ v.c.radio = r /\ v.c.try = u.c.try + 1 /\ v.c.state = "Connecting"
             /\ v.q # <<>> /\ v.q[Len(v.q)] = "Connecting"
<1> DEFINE w == IF u.c.state = "Disconnected" THEN u ELSE K!DisconnectFromHost(u, lingers)
           v == K!Connecting(K!Request(w, r))
<1>1. /\ WorldOK(w) /\ (Owned(u, FALSE) => Owned(w, TRUE))
      /\ w.c.state = "Disconnected" /\ w.c.timers = {}
      /\ w.c.try = u.c.try
  <2>1. CASE u.c.state = "Disconnected"
    BY <2>1 DEF WorldOK, TimerOf, Owned, Current
  <2>2. CASE u.c.state # "Disconnected"
    <3>1. w = K!DisconnectFromHost(u, lingers)
      BY <2>2
    <3> QED
      BY <3>1, GivingUp, GivenUp
  <2> QED
    BY <2>1, <2>2
<1> HIDE DEF w
<1>2. w \in Worlds /\ w.c \in Client
  BY <1>1 DEF WorldOK, Worlds
<1>3. /\ v \in Worlds /\ v.s = w.s /\ v.q # <<>> /\ v.q[Len(v.q)] = "Connecting"
      /\ v.c = [w.c EXCEPT !.state = "Connecting", !.radio = r, !.timers = {"connect"},
                           !.answered = FALSE, !.try = @ + 1, !.asked = TRUE]
  BY <1>1, <1>2, Requesting
<1> HIDE DEF v
<1>4. /\ v.c.state = "Connecting" /\ v.c.radio = r /\ v.c.timers = {"connect"}
      /\ v.c.try = w.c.try + 1 /\ v.c.asked
  BY <1>2, <1>3 DEF Client
<1>5. WorldOK(v)
  BY <1>1, <1>3, <1>4 DEF WorldOK, TimerOf
<1>6. Owned(u, FALSE) => Owned(v, TRUE)
  BY <1>1, <1>3 DEF Owned, Current
<1> QED
  BY <1>1, <1>3, <1>4, <1>5, <1>6 DEF v, w

\* An attempt opens a socket for the radio asked for, or leaves one given up or mute.
LEMMA Trying ==
  ASSUME NEW w, WorldOK(w), w.c.state = "Connecting", NEW host \in K!MaybeRadio
  PROVE  LET v == K!AttemptConnection(w, host)
         IN  /\ WorldOK(v) /\ Signalled(w, v) /\ v.c.radio = w.c.radio /\ v.c.try = w.c.try
             /\ Owned(w, TRUE) /\ host = w.c.radio => Owned(v, FALSE)
<1> DEFINE v == K!AttemptConnection(w, host)
<1> SUFFICES /\ WorldOK(v) /\ Signalled(w, v) /\ v.c.radio = w.c.radio /\ v.c.try = w.c.try
             /\ Owned(w, TRUE) /\ host = w.c.radio => Owned(v, FALSE)
  OBVIOUS
<1>1. w \in Worlds /\ w.c \in Client /\ w.s \in SslSocket /\ w.c.timers = {"connect"} /\ w.c.asked
      /\ ~w.c.answered
  BY DEF WorldOK, Worlds, TimerOf
<1>2. v \in Worlds /\ Attempted(w, v, host) /\ Signalled(w, v)
  BY <1>1, Attempting
<1> HIDE DEF v
<1>3. CASE v.s = w.s /\ (v.c = w.c \/ v.c = Down(w.c))
  <2>1. v.c = Down(w.c) => /\ v.c.state = "Disconnected" /\ v.c.timers = {} /\ v.c.radio = w.c.radio
                           /\ v.c.try = w.c.try /\ ~v.c.answered
    BY <1>1 DEF Client, Down
  <2>2. WorldOK(v)
    BY <1>1, <1>2, <1>3, <2>1 DEF WorldOK, TimerOf
  <2>3. Owned(w, TRUE) => Owned(v, FALSE)
    BY <1>3 DEF Owned
  <2> QED
    BY <1>2, <1>3, <2>1, <2>2, <2>3
<1>4. CASE v.s = Opened(host, w.c.radio \in Secure) /\ v.c = w.c /\ w.s.st = "off"
  <2>1. /\ v.s.st = "opening" /\ v.s.peer = host /\ v.s.tls = (w.c.radio \in Secure)
        /\ ~v.s.secured /\ ~v.s.auth
    BY <1>4 DEF Opened
  <2>2. WorldOK(v)
    BY <1>1, <1>2, <1>4, <2>1 DEF WorldOK, TimerOf
  <2>3. host = w.c.radio => Owned(v, FALSE)
    BY <1>1, <1>4, <2>1 DEF Owned, Current
  <2> QED
    BY <1>2, <1>4, <2>2, <2>3
<1>5. CASE v.s = K!Refused(w.s) /\ v.c = Down(w.c)
  <2>1. /\ v.c.state = "Disconnected" /\ v.c.timers = {} /\ v.c.radio = w.c.radio
        /\ v.c.try = w.c.try /\ ~v.c.answered
    BY <1>1, <1>5 DEF Client, Down
  <2>2. /\ w.s.st = "opening" /\ w.s.tls => /\ v.s.st = "opening" /\ v.s.peer = w.s.peer /\ ~v.s.tls
                                            /\ v.s.secured = w.s.secured /\ v.s.auth = w.s.auth
        /\ ~(w.s.st = "opening" /\ w.s.tls) => v.s = w.s
    BY <1>1, <1>5 DEF K!Refused, SslSocket
  <2>3. WorldOK(v)
    BY <1>2, <2>1, <2>2 DEF WorldOK, TimerOf
  <2>4. Owned(w, TRUE) => Owned(v, FALSE)
    <3>1. ASSUME Owned(w, TRUE), w.s.st = "opening", w.s.tls PROVE Mute(v.s)
      <4>1. w.s.peer \in Secure /\ ~w.s.secured
        BY <3>1 DEF Owned, Marked, Mute, WorldOK
      <4> QED
        BY <2>2, <3>1, <4>1 DEF Mute
    <3> QED
      BY <2>2, <3>1 DEF Owned
  <2> QED
    BY <1>2, <2>1, <2>3, <2>4
<1> QED
  BY <1>2, <1>3, <1>4, <1>5 DEF Attempted

\* A socket that ends leaves nothing to own.
LEMMA Ended ==
  ASSUME NEW w \in Worlds, NEW pending
  PROVE  LET v == K!SocketEnded(w)
         IN  /\ WorldOK(v) /\ Owned(v, pending) /\ Signalled(w, v)
             /\ v.c.radio = w.c.radio /\ v.c.try = w.c.try
<1> DEFINE v == K!SocketEnded(w)
<1>1. /\ v \in Worlds /\ v.c = [w.c EXCEPT !.state = "Disconnected", !.timers = {}]
      /\ v.s = K!Off /\ Signalled(w, v) /\ w.c \in Client
  BY Ending DEF Worlds
<1> HIDE DEF v
<1>2. v.c.state = "Disconnected" /\ v.c.timers = {} /\ v.c.radio = w.c.radio /\ v.c.try = w.c.try
  BY <1>1 DEF Client
<1>3. v.s.st = "off"
  BY <1>1 DEF K!Off
<1>4. WorldOK(v) /\ Owned(v, pending)
  BY <1>1, <1>2, <1>3 DEF WorldOK, Owned, TimerOf
<1> QED
  BY <1>1, <1>2, <1>4 DEF v

\* A socket that has opened is settled: one given up closes.
LEMMA Settling ==
  ASSUME NEW w \in Worlds, w.s.st = "open"
  PROVE  K!Settle(w) = IF w.s.ending THEN K!SocketEnded(w) ELSE w
BY ClosingSocket DEF K!Settle

\* onSocketConnected: a plain socket that was given up closes, one that waits for
\* TLS keeps its mark, any other begins to authenticate.
LEMMA OpeningKeeps ==
  ASSUME NEW u, WorldOK(u), u.s.st = "opening", NEW pending
  PROVE  LET w == [u EXCEPT !.s.st = "open"]
             v == IF K!UseTls(w) THEN w ELSE K!Authenticating([w EXCEPT !.s.auth = TRUE])
             z == IF u.s.tls THEN v ELSE K!Settle(v)
         IN  /\ WorldOK(z) /\ Signalled(u, z) /\ z.c.radio = u.c.radio /\ z.c.try = u.c.try
             /\ Owned(u, pending) => Owned(z, pending)
<1> DEFINE w == [u EXCEPT !.s.st = "open"]
           a == [w EXCEPT !.s.auth = TRUE]
           v == IF K!UseTls(w) THEN w ELSE K!Authenticating(a)
           z == IF u.s.tls THEN v ELSE K!Settle(v)
<1> SUFFICES /\ WorldOK(z) /\ Signalled(u, z) /\ z.c.radio = u.c.radio /\ z.c.try = u.c.try
             /\ Owned(u, pending) => Owned(z, pending)
  OBVIOUS
<1>0. /\ u \in Worlds /\ u.c \in Client /\ u.s \in SslSocket
      /\ u.c.state \in {"Disconnected", "Connecting"} /\ u.c.timers = TimerOf(u.c.state)
      /\ ~u.s.secured /\ ~u.c.answered
  BY DEF WorldOK, Worlds, Client, K!ConnectionState
<1>1. u.c.timers \subseteq {"connect", "auth"}
  BY <1>0 DEF TimerOf
<1>2. w = [u EXCEPT !.s = [u.s EXCEPT !.st = "open"]] /\ a = [w EXCEPT !.s = [w.s EXCEPT !.auth = TRUE]]
  BY <1>0 DEF Worlds
<1> HIDE DEF w, a
<1>3. [u.s EXCEPT !.st = "open"] \in SslSocket
  BY <1>0 DEF SslSocket
<1>4. w \in Worlds /\ w.c = u.c /\ w.q = u.q /\ w.s = [u.s EXCEPT !.st = "open"]
  BY <1>0, <1>2, <1>3 DEF Worlds
<1>5. [w.s EXCEPT !.auth = TRUE] \in SslSocket
  BY <1>3, <1>4 DEF SslSocket
<1>6. a \in Worlds /\ a.c = u.c /\ a.q = u.q /\ a.s = [w.s EXCEPT !.auth = TRUE]
  BY <1>2, <1>4, <1>5 DEF Worlds
\* The socket is open, and all but the password as it was.
<1> DEFINE Opens(s) == s.st = "open" /\ s.peer = u.s.peer /\ s.tls = u.s.tls
                       /\ s.ending = u.s.ending /\ s.secured = u.s.secured
<1>7. Opens(w.s)
  BY <1>0, <1>4 DEF SslSocket
<1>8. Opens(a.s) /\ a.s.auth
  BY <1>3, <1>4, <1>6, <1>7 DEF SslSocket
<1>9. /\ v \in Worlds /\ Opens(v.s) /\ Signalled(u, v) /\ v.c.radio = u.c.radio
      /\ v.c.try = u.c.try /\ v.c.asked = u.c.asked /\ ~v.c.answered
      /\ v.c.timers = TimerOf(v.c.state) /\ v.c.state \in {u.c.state, "Authenticating"}
  <2>1. CASE K!UseTls(w)
    BY <1>0, <1>4, <1>7, <2>1 DEF Signalled
  <2>2. CASE ~K!UseTls(w)
    <3> DEFINE x == K!Authenticating(a)
    <3>1. /\ x \in Worlds /\ x.c = [u.c EXCEPT !.state = "Authenticating", !.timers = {"auth"}]
          /\ x.s = a.s /\ Signalled(a, x)
      BY <1>1, <1>6, Authenticates
    <3>2. v = x
      BY <2>2
    <3> HIDE DEF x, v
    <3>3. /\ x.c.state = "Authenticating" /\ x.c.timers = {"auth"} /\ x.c.radio = u.c.radio
          /\ x.c.try = u.c.try /\ x.c.asked = u.c.asked /\ ~x.c.answered
      BY <1>0, <3>1 DEF Client
    <3>4. Signalled(u, x)
      BY <1>6, <3>1 DEF Signalled
    <3> QED
      BY <1>8, <3>1, <3>2, <3>3, <3>4 DEF TimerOf
  <2> QED
    BY <2>1, <2>2
<1> HIDE DEF v
<1>10. WorldOK(v)
  BY <1>0, <1>9 DEF WorldOK
<1>11. CASE u.s.tls \/ ~u.s.ending
  <2>1. z = v
    BY <1>9, <1>11, Settling
  <2>2. Owned(u, pending) => Owned(v, pending)
    <3>1. Current(u) => Current(v)
      BY <1>0, <1>9 DEF Current
    <3>2. Marked(u.s) => Marked(v.s)
      BY <1>0, <1>9, <1>11 DEF Marked
    <3>3. Mute(u.s) => Mute(v.s)
      BY <1>9 DEF Mute
    <3> QED
      BY <3>1, <3>2, <3>3 DEF Owned
  <2> QED
    BY <1>9, <1>10, <2>1, <2>2
<1>12. CASE ~u.s.tls /\ u.s.ending
  <2>1. z = K!SocketEnded(v)
    BY <1>9, <1>12, Settling
  <2> HIDE DEF z
  <2>2. /\ WorldOK(z) /\ Owned(z, pending) /\ Signalled(v, z) /\ z.c.radio = v.c.radio
        /\ z.c.try = v.c.try
    BY <1>9, <2>1, Ended
  <2>3. Signalled(u, z)
    BY <1>9, <2>2 DEF Signalled
  <2> QED
    BY <1>9, <2>2, <2>3 DEF z
<1> QED
  BY <1>11, <1>12

\* onSocketEncrypted: the K4 behind the socket has the right key.
LEMMA EncryptingKeeps ==
  ASSUME NEW u, WorldOK(u), NEW pending,
         u.s.st = "open", u.s.tls, ~u.s.secured, u.s.peer \in Secure
  PROVE  LET z == K!Settle(K!Authenticating([u EXCEPT !.s.secured = TRUE]))
         IN  /\ WorldOK(z) /\ Signalled(u, z) /\ z.c.radio = u.c.radio /\ z.c.try = u.c.try
             /\ Owned(u, pending) => Owned(z, pending)
<1> DEFINE a == [u EXCEPT !.s.secured = TRUE]
           v == K!Authenticating(a)
           z == K!Settle(v)
<1> SUFFICES /\ WorldOK(z) /\ Signalled(u, z) /\ z.c.radio = u.c.radio /\ z.c.try = u.c.try
             /\ Owned(u, pending) => Owned(z, pending)
  OBVIOUS
<1>0. /\ u \in Worlds /\ u.c \in Client /\ u.s \in SslSocket
      /\ u.c.state \in {"Disconnected", "Connecting", "Authenticating"}
      /\ u.c.timers = TimerOf(u.c.state) /\ ~u.c.answered
  BY DEF WorldOK, Worlds, Client, K!ConnectionState
<1>1. u.c.timers \subseteq {"connect", "auth"}
  BY <1>0 DEF TimerOf
<1>2. a = [u EXCEPT !.s = [u.s EXCEPT !.secured = TRUE]]
  BY <1>0 DEF Worlds
<1> HIDE DEF a
<1>3. [u.s EXCEPT !.secured = TRUE] \in SslSocket
  BY <1>0 DEF SslSocket
<1>4. a \in Worlds /\ a.c = u.c /\ a.q = u.q /\ a.s = [u.s EXCEPT !.secured = TRUE]
  BY <1>0, <1>2, <1>3 DEF Worlds
<1>5. /\ a.s.st = "open" /\ a.s.peer = u.s.peer /\ a.s.tls = u.s.tls
      /\ a.s.ending = u.s.ending /\ a.s.secured
  BY <1>0, <1>4 DEF SslSocket
<1>6. /\ v \in Worlds /\ v.c = [u.c EXCEPT !.state = "Authenticating", !.timers = {"auth"}]
      /\ v.s = a.s /\ Signalled(a, v)
  BY <1>1, <1>4, Authenticates
<1> HIDE DEF v
<1>7. /\ v.c.state = "Authenticating" /\ v.c.timers = {"auth"} /\ v.c.radio = u.c.radio
      /\ v.c.try = u.c.try /\ v.c.asked = u.c.asked /\ ~v.c.answered
  BY <1>0, <1>6 DEF Client
<1>8. Signalled(u, v)
  BY <1>4, <1>6 DEF Signalled
<1>9. WorldOK(v)
  BY <1>5, <1>6, <1>7 DEF WorldOK, TimerOf
<1>10. CASE u.s.ending
  <2>1. z = K!SocketEnded(v)
    BY <1>5, <1>6, <1>10, Settling
  <2> HIDE DEF z
  <2>2. /\ WorldOK(z) /\ Owned(z, pending) /\ Signalled(v, z) /\ z.c.radio = v.c.radio
        /\ z.c.try = v.c.try
    BY <1>6, <2>1, Ended
  <2>3. Signalled(u, z)
    BY <1>8, <2>2 DEF Signalled
  <2> QED
    BY <1>7, <2>2, <2>3 DEF z
<1>11. CASE ~u.s.ending
  <2>1. z = v
    BY <1>5, <1>6, <1>11, Settling
  <2>2. Owned(u, pending) => Current(v) /\ ~pending
    BY <1>5, <1>6, <1>7, <1>11 DEF Owned, Current, Marked, Mute
  <2> QED
    BY <1>7, <1>8, <1>9, <2>1, <2>2 DEF Owned
<1> QED
  BY <1>10, <1>11

\* A packet comes only from a K4 that let the phone in.
LEMMA HearingKeeps ==
  ASSUME NEW u, WorldOK(u), NEW pending, u.s.st \in {"open", "closing"},
         IF u.s.peer \in Secure THEN u.s.secured ELSE u.s.auth
  PROVE  LET z == K!PacketReceived(u)
         IN  /\ WorldOK(z) /\ Signalled(u, z) /\ z.c.radio = u.c.radio /\ z.c.try = u.c.try
             /\ Owned(u, pending) => Owned(z, pending)
<1> DEFINE z == K!PacketReceived(u)
<1> SUFFICES /\ WorldOK(z) /\ Signalled(u, z) /\ z.c.radio = u.c.radio /\ z.c.try = u.c.try
             /\ Owned(u, pending) => Owned(z, pending)
  OBVIOUS
<1>0. u \in Worlds /\ u.c \in Client /\ (u.c.state = "Authenticating" => u.c.timers = {"auth"})
  BY DEF WorldOK, Worlds, TimerOf
<1>1. /\ z \in Worlds /\ z.s = u.s /\ Signalled(u, z)
      /\ \/ z = u
         \/ /\ u.c.state = "Authenticating"
            /\ z.c = [u.c EXCEPT !.state = "Connected", !.timers = {"ping"}, !.answered = TRUE]
  BY <1>0, Receiving
<1> HIDE DEF z
<1>2. CASE z = u
  BY <1>1, <1>2
<1>3. CASE z # u
  <2>1. /\ z.c.state = "Connected" /\ z.c.timers = {"ping"} /\ z.c.radio = u.c.radio
        /\ z.c.try = u.c.try /\ z.c.asked = u.c.asked /\ u.c.state = "Authenticating"
    BY <1>0, <1>1, <1>3, ZenonT(40) DEF Client
  <2>2. WorldOK(z)
    BY <1>1, <2>1 DEF WorldOK, TimerOf
  <2>3. Owned(u, pending) => Owned(z, pending)
    BY <1>1, <2>1 DEF Owned, Current
  <2> QED
    BY <1>1, <2>1, <2>2, <2>3
<1> QED
  BY <1>2, <1>3

-----------------------------------------------------------------------------
(* The calls on their way to TcpClient: the last request among them, or the  *)
(* one TcpClient works on, is for the radio on the screen; and each of them  *)
(* was one of the tries.                                                     *)
Called == [t : {"connect", "disconnect"}, radio : K!MaybeRadio]
NoConnect(q) == \A i \in DOMAIN q : q[i].t # "connect"
IsLast(q, i) == q[i].t = "connect" /\ \A j \in DOMAIN q : j > i => q[j].t # "connect"
Asks(q, working, screen) ==
  /\ NoConnect(q) => working = screen
  /\ \A i \in DOMAIN q : IsLast(q, i) => q[i].radio = screen
Counts(q, f) == \A i \in DOMAIN q : f[i] = f[i - 1] + (IF q[i].t = "connect" THEN 1 ELSE 0)
Tried(q, try, tries) ==
  \E f \in [0 .. Len(q) -> 0 .. Tries] : f[0] = try /\ f[Len(q)] = Tries - tries /\ Counts(q, f)

\* What is known of a queue after a call is put into it.
LEMMA Calling ==
  ASSUME NEW S, NEW q \in Seq(S), NEW c \in S
  PROVE  /\ Append(q, c) \in Seq(S) /\ Len(Append(q, c)) = Len(q) + 1 /\ Len(q) \in Nat
         /\ DOMAIN Append(q, c) = 1 .. Len(q) + 1 /\ DOMAIN q = 1 .. Len(q)
         /\ \A i \in 1 .. Len(q) : Append(q, c)[i] = q[i]
         /\ Append(q, c)[Len(q) + 1] = c
OBVIOUS

\* ... and after its first one is taken.
LEMMA TakingSignal ==
  ASSUME NEW S, NEW q \in Seq(S), q # <<>>
  PROVE  /\ Tail(q) \in Seq(S) /\ Len(Tail(q)) = Len(q) - 1 /\ Len(q) \in Nat /\ Len(q) > 0
         /\ DOMAIN Tail(q) = 1 .. Len(q) - 1 /\ DOMAIN q = 1 .. Len(q)
         /\ \A i \in 1 .. Len(q) - 1 : Tail(q)[i] = q[i + 1]
         /\ Head(q) = q[1]
OBVIOUS

\* A disconnection asked for changes neither.
LEMMA PostDisconnect ==
  ASSUME NEW q \in Seq(Called), NEW c \in Called, c.t = "disconnect", NEW a, NEW b,
         Asks(q, a, b)
  PROVE  /\ Asks(Append(q, c), a, b)
         /\ NoConnect(Append(q, c)) => NoConnect(q)
         /\ \A try, tries : Tried(q, try, tries) => Tried(Append(q, c), try, tries)
<1> DEFINE n == Len(q)
           p == Append(q, c)
<1>1. /\ n \in Nat /\ DOMAIN p = 1 .. n + 1 /\ DOMAIN q = 1 .. n /\ Len(p) = n + 1
      /\ \A i \in 1 .. n : p[i] = q[i]
      /\ p[n + 1] = c
  BY Calling
<1> HIDE DEF n, p
<1>2. NoConnect(p) => NoConnect(q)
  BY <1>1 DEF NoConnect
<1>3. NoConnect(q) => NoConnect(p)
  BY <1>1 DEF NoConnect
<1>4. ASSUME NEW i \in DOMAIN p, IsLast(p, i) PROVE i \in DOMAIN q /\ IsLast(q, i)
  BY <1>1, <1>4 DEF IsLast
<1>5. Asks(p, a, b)
  BY <1>1, <1>2, <1>4 DEF Asks
<1>6. ASSUME NEW try, NEW tries, Tried(q, try, tries) PROVE Tried(p, try, tries)
  <2>1. PICK f \in [0 .. n -> 0 .. Tries] : f[0] = try /\ f[n] = Tries - tries /\ Counts(q, f)
    BY <1>6 DEF Tried, n
  <2> DEFINE g == [i \in 0 .. n + 1 |-> IF i = n + 1 THEN f[n] ELSE f[i]]
  <2>2. g \in [0 .. Len(p) -> 0 .. Tries]
    BY <1>1
  <2>3. g[0] = try /\ g[Len(p)] = Tries - tries
    BY <1>1, <2>1
  <2>4. Counts(p, g)
    <3> SUFFICES ASSUME NEW i \in 1 .. n + 1
                 PROVE  g[i] = g[i - 1] + (IF p[i].t = "connect" THEN 1 ELSE 0)
      BY <1>1 DEF Counts
    <3>1. CASE i = n + 1
      <4>1. g[i] = f[n] /\ g[i - 1] = f[n] /\ p[i].t = "disconnect" /\ f[n] \in 0 .. Tries
        BY <1>1, <3>1
      <4> QED
        BY <4>1
    <3>2. CASE i # n + 1
      <4>1. i \in 1 .. n /\ g[i] = f[i] /\ g[i - 1] = f[i - 1] /\ p[i] = q[i]
        BY <1>1, <3>2
      <4> QED
        BY <1>1, <2>1, <4>1 DEF Counts
    <3> QED
      BY <3>1, <3>2
  <2> HIDE DEF g
  <2> QED
    BY <2>2, <2>3, <2>4 DEF Tried
<1> QED
  BY <1>2, <1>5, <1>6 DEF p

\* A request is the last one, and one more try.
LEMMA PostConnect ==
  ASSUME NEW q \in Seq(Called), NEW c \in Called, c.t = "connect"
  PROVE  /\ ~NoConnect(Append(q, c))
         /\ \A a : Asks(Append(q, c), a, c.radio)
         /\ \A try : \A tries \in 1 .. Tries :
              Tries \in Nat /\ Tried(q, try, tries) => Tried(Append(q, c), try, tries - 1)
<1> DEFINE n == Len(q)
           p == Append(q, c)
<1>1. /\ n \in Nat /\ DOMAIN p = 1 .. n + 1 /\ DOMAIN q = 1 .. n /\ Len(p) = n + 1
      /\ \A i \in 1 .. n : p[i] = q[i]
      /\ p[n + 1] = c
  BY Calling
<1> HIDE DEF n, p
<1>2. ~NoConnect(p)
  <2>1. n + 1 \in DOMAIN p
    BY <1>1
  <2> QED
    BY <1>1, <2>1 DEF NoConnect
<1>3. ASSUME NEW a PROVE Asks(p, a, c.radio)
  <2>1. ASSUME NEW i \in DOMAIN p, IsLast(p, i) PROVE p[i].radio = c.radio
    <3>1. i = n + 1
      <4>1. n + 1 \in DOMAIN p /\ p[n + 1].t = "connect" /\ (i # n + 1 => n + 1 > i)
        BY <1>1
      <4> QED
        BY <2>1, <4>1 DEF IsLast
    <3> QED
      BY <1>1, <3>1
  <2> QED
    BY <1>2, <2>1 DEF Asks
<1>4. ASSUME NEW try, NEW tries \in 1 .. Tries, Tries \in Nat, Tried(q, try, tries)
      PROVE  Tried(p, try, tries - 1)
  <2>1. PICK f \in [0 .. n -> 0 .. Tries] : f[0] = try /\ f[n] = Tries - tries /\ Counts(q, f)
    BY <1>4 DEF Tried, n
  <2> DEFINE g == [i \in 0 .. n + 1 |-> IF i = n + 1 THEN f[n] + 1 ELSE f[i]]
  <2>2. f[n] + 1 \in 0 .. Tries /\ f[n] + 1 = Tries - (tries - 1)
    BY <1>1, <1>4, <2>1
  <2>3. g \in [0 .. Len(p) -> 0 .. Tries]
    BY <1>1, <2>2
  <2>4. g[0] = try /\ g[Len(p)] = Tries - (tries - 1)
    BY <1>1, <2>1, <2>2
  <2>5. Counts(p, g)
    <3> SUFFICES ASSUME NEW i \in 1 .. n + 1
                 PROVE  g[i] = g[i - 1] + (IF p[i].t = "connect" THEN 1 ELSE 0)
      BY <1>1 DEF Counts
    <3>1. CASE i = n + 1
      BY <1>1, <3>1
    <3>2. CASE i # n + 1
      <4>1. i \in 1 .. n /\ g[i] = f[i] /\ g[i - 1] = f[i - 1] /\ p[i] = q[i]
        BY <1>1, <3>2
      <4> QED
        BY <1>1, <2>1, <4>1 DEF Counts
    <3> QED
      BY <3>1, <3>2
  <2> HIDE DEF g
  <2> QED
    BY <2>3, <2>4, <2>5 DEF Tried
<1> QED
  BY <1>2, <1>3, <1>4 DEF p

\* The call at the head is taken: a disconnection changes neither, a request
\* becomes the one that TcpClient works on.
LEMMA TakeCall ==
  ASSUME NEW q \in Seq(Called), q # <<>>, NEW a, NEW b, Asks(q, a, b)
  PROVE  /\ Head(q).t # "connect" => Asks(Tail(q), a, b) /\ (NoConnect(Tail(q)) => NoConnect(q))
         /\ Head(q).t = "connect" => Asks(Tail(q), Head(q).radio, b)
         /\ \A try, tries : Tried(q, try, tries) =>
              Tried(Tail(q), IF Head(q).t = "connect" THEN try + 1 ELSE try, tries)
<1> DEFINE n == Len(q)
           p == Tail(q)
<1>1. /\ n \in Nat /\ n > 0 /\ DOMAIN p = 1 .. n - 1 /\ DOMAIN q = 1 .. n /\ Len(p) = n - 1
      /\ \A i \in 1 .. n - 1 : p[i] = q[i + 1]
      /\ Head(q) = q[1]
  BY TakingSignal
<1> HIDE DEF n, p
<1>2. ASSUME NEW i \in DOMAIN p, IsLast(p, i) PROVE i + 1 \in DOMAIN q /\ IsLast(q, i + 1)
  <2>1. i + 1 \in DOMAIN q /\ q[i + 1].t = "connect"
    BY <1>1, <1>2 DEF IsLast
  <2>2. ASSUME NEW j \in DOMAIN q, j > i + 1 PROVE q[j].t # "connect"
    <3>1. j - 1 \in DOMAIN p /\ j - 1 > i /\ p[j - 1] = q[j]
      BY <1>1, <2>2
    <3> QED
      BY <1>2, <3>1 DEF IsLast
  <2> QED
    BY <2>1, <2>2 DEF IsLast
<1>3. \A i \in DOMAIN p : IsLast(p, i) => p[i].radio = b
  BY <1>1, <1>2 DEF Asks
<1>4. ASSUME NoConnect(p), NEW j \in DOMAIN q, j # 1 PROVE q[j].t # "connect"
  <2>1. j - 1 \in DOMAIN p /\ p[j - 1] = q[j]
    BY <1>1, <1>4
  <2> QED
    BY <1>4, <2>1 DEF NoConnect
<1>5. Head(q).t # "connect" => Asks(p, a, b) /\ (NoConnect(p) => NoConnect(q))
  <2> SUFFICES ASSUME Head(q).t # "connect" PROVE Asks(p, a, b) /\ (NoConnect(p) => NoConnect(q))
    OBVIOUS
  <2>1. NoConnect(p) => NoConnect(q)
    BY <1>1, <1>4 DEF NoConnect
  <2> QED
    BY <1>3, <2>1 DEF Asks
<1>6. Head(q).t = "connect" => Asks(p, Head(q).radio, b)
  <2> SUFFICES ASSUME Head(q).t = "connect" PROVE Asks(p, Head(q).radio, b)
    OBVIOUS
  <2>1. ASSUME NoConnect(p) PROVE Head(q).radio = b
    <3>1. 1 \in DOMAIN q /\ \A j \in DOMAIN q : j > 1 => j # 1
      BY <1>1
    <3>2. IsLast(q, 1)
      BY <1>1, <1>4, <2>1, <3>1 DEF IsLast
    <3> QED
      BY <1>1, <3>1, <3>2 DEF Asks
  <2> QED
    BY <1>3, <2>1 DEF Asks
<1>7. ASSUME NEW try, NEW tries, Tried(q, try, tries)
      PROVE  Tried(p, IF Head(q).t = "connect" THEN try + 1 ELSE try, tries)
  <2>1. PICK f \in [0 .. n -> 0 .. Tries] : f[0] = try /\ f[n] = Tries - tries /\ Counts(q, f)
    BY <1>7 DEF Tried, n
  <2> DEFINE g == [i \in 0 .. n - 1 |-> f[i + 1]]
  <2>2. g \in [0 .. Len(p) -> 0 .. Tries]
    BY <1>1
  <2>3. g[Len(p)] = Tries - tries /\ g[0] = f[1]
    BY <1>1, <2>1
  <2>4. f[1] = IF Head(q).t = "connect" THEN try + 1 ELSE try
    <3>1. 1 \in DOMAIN q /\ f[1 - 1] = f[0] /\ f[0] \in Int
      BY <1>1
    <3>2. f[1] = f[1 - 1] + (IF q[1].t = "connect" THEN 1 ELSE 0)
      BY <2>1, <3>1 DEF Counts
    <3>3. f[1] = try + (IF Head(q).t = "connect" THEN 1 ELSE 0) /\ try \in Int
      BY <1>1, <2>1, <3>1, <3>2
    <3> QED
      BY <3>3
  <2>5. Counts(p, g)
    <3> SUFFICES ASSUME NEW i \in 1 .. n - 1
                 PROVE  g[i] = g[i - 1] + (IF p[i].t = "connect" THEN 1 ELSE 0)
      BY <1>1 DEF Counts
    <3>1. /\ i + 1 \in DOMAIN q /\ g[i] = f[i + 1] /\ g[i - 1] = f[(i + 1) - 1] /\ p[i] = q[i + 1]
      BY <1>1
    <3> HIDE DEF g
    <3> QED
      BY <2>1, <3>1 DEF Counts
  <2> HIDE DEF g
  <2> QED
    BY <2>2, <2>3, <2>4, <2>5 DEF Tried
<1> QED
  BY <1>5, <1>6, <1>7 DEF p

-----------------------------------------------------------------------------
Pending == \E l \in shown : l.try = ptt.try

ConnTypes ==
  /\ told \in [state : K!ConnectionState, radio : K!MaybeRadio]
  /\ toRadio \in Seq(Called)
  /\ \A i \in DOMAIN toRadio : toRadio[i].t = "connect" => toRadio[i].radio \in Radios
  /\ shown \subseteq [radio : Radios \cap Locals, try : Nat]
  /\ locked \in [debris : 0 .. Backlog, tail : 0 .. Backlog, heard : BOOLEAN]
  /\ stray \in BOOLEAN
  /\ budget \in [tries : 0 .. Tries, cancels : 0 .. Clicks]

\* The signal on its way last tells the state; with none and no request on its
\* way, the screen shows it.
Signals ==
  /\ toPhone # <<>> => toPhone[Len(toPhone)] = ptt.state
  /\ toPhone = <<>> /\ NoConnect(toRadio) => told.state = ptt.state

\* An answer of the present try is for the radio asked for.
Lookups == \A l \in shown : /\ l.try \in 1 .. ptt.try
                            /\ l.try = ptt.try => l.radio = ptt.radio

ConnInv ==
  /\ ConnTypes /\ WorldOK(K!World) /\ Signals /\ Lookups
  /\ Asks(toRadio, ptt.radio, told.radio)
  /\ Tried(toRadio, ptt.try, budget.tries)
  /\ stray \/ Owned(K!World, Pending)

\* A handler leaves the world it computes.
LEMMA Becoming ==
  ASSUME NEW w \in Worlds, K!Becomes(w)
  PROVE  K!World' = w /\ ptt' = w.c /\ link' = w.s /\ toPhone' = w.q
BY DEF K!World, K!Becomes, Worlds

\* The parts of the present world.
LEMMA Here == K!World.c = ptt /\ K!World.s = link /\ K!World.q = toPhone
BY DEF K!World

\* A socket may be owned with more lookups out than there are.
LEMMA Fewer ==
  ASSUME NEW w, NEW p, NEW r, Owned(w, p), r => p
  PROVE  Owned(w, r)
BY DEF Owned

\* What an I/O handler keeps that starts no request and opens no socket.
LEMMA IoKeeps ==
  ASSUME ConnInv, NEW w, K!Becomes(w), WorldOK(w), Signalled(K!World, w),
         w.c.radio = ptt.radio, w.c.try = ptt.try, UNCHANGED <<told, budget>>,
         \/ toRadio' = toRadio
         \/ toRadio # <<>> /\ Head(toRadio).t # "connect" /\ toRadio' = Tail(toRadio),
         shown' \subseteq shown, stray' \in BOOLEAN,
         locked' \in [debris : 0 .. Backlog, tail : 0 .. Backlog, heard : BOOLEAN],
         stray' \/ Owned(w, Pending')
  PROVE  ConnInv'
<1>0. /\ K!World' = w /\ ptt' = w.c /\ link' = w.s /\ toPhone' = w.q
      /\ ptt'.radio = ptt.radio /\ ptt'.try = ptt.try
  BY Becoming DEF WorldOK
<1>1. /\ toRadio' \in Seq(Called)
      /\ \A i \in DOMAIN toRadio' : toRadio'[i].t = "connect" => toRadio'[i].radio \in Radios
      /\ NoConnect(toRadio') => NoConnect(toRadio)
      /\ Asks(toRadio', ptt.radio, told.radio) /\ Tried(toRadio', ptt.try, budget.tries)
  <2>1. CASE toRadio' = toRadio
    BY <2>1 DEF ConnInv, ConnTypes
  <2>2. CASE toRadio # <<>> /\ Head(toRadio).t # "connect" /\ toRadio' = Tail(toRadio)
    <3>1. toRadio \in Seq(Called) /\ Asks(toRadio, ptt.radio, told.radio)
      BY DEF ConnInv, ConnTypes
    <3>2. /\ toRadio' \in Seq(Called) /\ DOMAIN toRadio' = 1 .. Len(toRadio) - 1 /\ Len(toRadio) \in Nat
          /\ DOMAIN toRadio = 1 .. Len(toRadio)
          /\ \A i \in 1 .. Len(toRadio) - 1 : toRadio'[i] = toRadio[i + 1]
      BY <2>2, <3>1, TakingSignal
    <3>3. /\ NoConnect(toRadio') => NoConnect(toRadio)
          /\ Asks(toRadio', ptt.radio, told.radio) /\ Tried(toRadio', ptt.try, budget.tries)
      BY <2>2, <3>1, TakeCall DEF ConnInv
    <3>4. ASSUME NEW i \in DOMAIN toRadio', toRadio'[i].t = "connect" PROVE toRadio'[i].radio \in Radios
      <4>1. i + 1 \in DOMAIN toRadio /\ toRadio'[i] = toRadio[i + 1]
        BY <3>2
      <4> QED
        BY <3>4, <4>1 DEF ConnInv, ConnTypes
    <3> QED
      BY <3>2, <3>3, <3>4
  <2> QED
    BY <2>1, <2>2
<1>2. ConnTypes'
  BY <1>1 DEF ConnInv, ConnTypes
<1>3. Signals'
  BY <1>0, <1>1, Here DEF ConnInv, Signals, Signalled
<1>4. Lookups'
  BY <1>0 DEF ConnInv, Lookups
<1>5. WorldOK(K!World)' /\ (stray \/ Owned(K!World, Pending))'
  <2>1. WorldOK(K!World)' = WorldOK(K!World') /\ Owned(K!World, Pending)' = Owned(K!World', Pending')
    BY DEF WorldOK, Owned, Current, Marked, Mute
  <2> QED
    BY <1>0, <2>1
<1>6. Asks(toRadio, ptt.radio, told.radio)' /\ Tried(toRadio, ptt.try, budget.tries)'
  <2>1. Asks(toRadio, ptt.radio, told.radio)' = Asks(toRadio', ptt'.radio, told.radio)
    BY DEF Asks, NoConnect, IsLast
  <2>2. Tried(toRadio, ptt.try, budget.tries)' = Tried(toRadio', ptt'.try, budget.tries)
    BY DEF Tried, Counts
  <2> QED
    BY <1>0, <1>1, <2>1, <2>2
<1> QED
  BY <1>2, <1>3, <1>4, <1>5, <1>6 DEF ConnInv

\* What ConnInv says of the world.
LEMMA Known ==
  ASSUME ConnInv
  PROVE  /\ WorldOK(K!World) /\ (stray \/ Owned(K!World, Pending)) /\ K!World \in Worlds
         /\ ptt \in Client /\ link \in SslSocket /\ ptt.timers = TimerOf(ptt.state)
         /\ K!World.c = ptt /\ K!World.s = link /\ K!World.q = toPhone
         /\ stray \in BOOLEAN
         /\ locked \in [debris : 0 .. Backlog, tail : 0 .. Backlog, heard : BOOLEAN]
BY Here DEF ConnInv, ConnTypes, WorldOK, Worlds

\* TcpClient gives up what it has: asked to, or a timer expired.
LEMMA GivingUpKeeps ==
  ASSUME ConnInv, NEW u, WorldOK(u), u.c.radio = ptt.radio, u.c.try = ptt.try, u.s = link,
         u.q = toPhone, u.c.state = ptt.state,
         stray \/ Owned(u, Pending), NEW lingers \in BOOLEAN,
         K!Becomes(K!DisconnectFromHost(u, lingers)), UNCHANGED <<told, budget, shown, locked, stray>>,
         \/ toRadio' = toRadio
         \/ toRadio # <<>> /\ Head(toRadio).t # "connect" /\ toRadio' = Tail(toRadio)
  PROVE  ConnInv'
<1> DEFINE w == K!DisconnectFromHost(u, lingers)
<1>1. u \in Worlds
  BY DEF WorldOK
<1>2. WorldOK(w) /\ w.c.radio = ptt.radio /\ w.c.try = ptt.try
  BY GivenUp
<1>3. Signalled(u, w)
  BY <1>1, Disconnecting
<1>4. Signalled(K!World, w)
  BY <1>3, Here DEF Signalled
<1>5. stray \/ Owned(w, TRUE)
  BY GivingUp
<1>6. K!Becomes(w)
  OBVIOUS
<1> HIDE DEF w
<1>7. stray' \/ Owned(w, Pending')
  BY <1>5 DEF Owned
<1> QED
  BY <1>2, <1>4, <1>6, <1>7, Known, IoKeeps

\* The operator's disconnection, taken by TcpClient.
LEMMA DisconnectKeeps ==
  ASSUME ConnInv, NEW lingers \in BOOLEAN, K!Disconnect(lingers)
  PROVE  ConnInv'
<1>1. /\ K!Becomes(K!DisconnectFromHost(K!World, lingers))
      /\ UNCHANGED <<told, budget, shown, locked, stray>>
      /\ toRadio # <<>> /\ Head(toRadio).t # "connect" /\ toRadio' = Tail(toRadio)
  BY DEF K!Disconnect, K!IoTakes, K!IoRest
<1> QED
  BY <1>1, Known, GivingUpKeeps

\* disconnectFromHost stops every timer, the expired one as well.
LEMMA StoppedBefore ==
  ASSUME NEW w \in Worlds, NEW T \in SUBSET K!AllTimers, NEW lingers \in BOOLEAN
  PROVE  K!DisconnectFromHost(K!Stop(w, T), lingers) = K!DisconnectFromHost(w, lingers)
<1> DEFINE t == K!Stop(w, T)
<1>0. w.c \in Client
  BY DEF Worlds
<1>1. t = [w EXCEPT !.c = [w.c EXCEPT !.timers = @ \ T]]
  BY <1>0 DEF K!Stop, Worlds
<1>2. t \in Worlds /\ t.c = [w.c EXCEPT !.timers = @ \ T] /\ t.s = w.s /\ t.q = w.q
  BY Timing
<1> HIDE DEF t
<1>3. K!Stop([t EXCEPT !.c.asked = FALSE], K!AllTimers)
        = [t EXCEPT !.c = [t.c EXCEPT !.asked = FALSE, !.timers = {}]]
  BY <1>2 DEF K!Stop, Worlds, Client
<1>4. K!Stop([w EXCEPT !.c.asked = FALSE], K!AllTimers)
        = [w EXCEPT !.c = [w.c EXCEPT !.asked = FALSE, !.timers = {}]]
  BY <1>0 DEF K!Stop, Worlds, Client
<1>5. [t.c EXCEPT !.asked = FALSE, !.timers = {}] = [w.c EXCEPT !.asked = FALSE, !.timers = {}]
  BY <1>0, <1>2 DEF Client
<1>6. [t EXCEPT !.c = [t.c EXCEPT !.asked = FALSE, !.timers = {}]]
        = [w EXCEPT !.c = [w.c EXCEPT !.asked = FALSE, !.timers = {}]]
  BY <1>1, <1>2, <1>5 DEF Worlds
<1>7. K!Stop([t EXCEPT !.c.asked = FALSE], K!AllTimers)
        = K!Stop([w EXCEPT !.c.asked = FALSE], K!AllTimers)
  BY <1>3, <1>4, <1>6
<1>8. t.c.state = w.c.state
  BY <1>0, <1>2 DEF Client
<1> QED
  BY <1>7, <1>8 DEF K!DisconnectFromHost, t

\* A deadline ends the attempt that is under way.
LEMMA ConnectTimeoutKeeps ==
  ASSUME ConnInv, NEW lingers \in BOOLEAN, K!OnConnectTimeout(lingers)
  PROVE  ConnInv'
<1>1. ptt.state = "Connecting"
  BY Known DEF K!OnConnectTimeout, K!Expires, TimerOf, Client, K!ConnectionState
<1>2. K!DisconnectFromHost(K!Stop(K!World, {"connect"}), lingers)
        = K!DisconnectFromHost(K!World, lingers)
  BY Known, StoppedBefore DEF K!AllTimers
<1>3. /\ K!Becomes(K!DisconnectFromHost(K!World, lingers))
      /\ UNCHANGED <<told, budget, shown, locked, stray, toRadio>>
  BY <1>1, <1>2 DEF K!OnConnectTimeout, K!SocketRest, K!IoRest
<1> QED
  BY <1>3, Known, GivingUpKeeps

\* ... and nobody has answered yet.
LEMMA AuthTimeoutKeeps ==
  ASSUME ConnInv, NEW lingers \in BOOLEAN, K!OnAuthTimeout(lingers)
  PROVE  ConnInv'
<1>1. ptt.state = "Authenticating"
  BY Known DEF K!OnAuthTimeout, K!Expires, TimerOf, Client, K!ConnectionState
<1>2. ~ptt.answered
  BY <1>1, Known DEF WorldOK
<1>3. K!DisconnectFromHost(K!Stop(K!World, {"auth"}), lingers)
        = K!DisconnectFromHost(K!World, lingers)
  BY Known, StoppedBefore DEF K!AllTimers
<1>4. /\ K!Becomes(K!DisconnectFromHost(K!World, lingers))
      /\ UNCHANGED <<told, budget, shown, locked, stray, toRadio>>
  BY <1>1, <1>2, <1>3 DEF K!OnAuthTimeout, K!SocketRest, K!IoRest
<1> QED
  BY <1>4, Known, GivingUpKeeps

\* What the socket's signals keep.
LEMMA SocketKeeps ==
  ASSUME ConnInv, NEW w, K!Becomes(w), WorldOK(w), Signalled(K!World, w),
         w.c.radio = ptt.radio, w.c.try = ptt.try, K!SocketRest,
         locked' \in [debris : 0 .. Backlog, tail : 0 .. Backlog, heard : BOOLEAN],
         Owned(K!World, Pending) => Owned(w, Pending)
  PROVE  ConnInv'
<1>1. UNCHANGED <<told, budget, toRadio, shown, stray>> /\ ptt' = w.c
  BY Becoming DEF K!SocketRest, K!IoRest, WorldOK
<1>2. Pending' = Pending
  BY <1>1 DEF Pending
<1>3. stray' \/ Owned(w, Pending')
  BY <1>1, <1>2, Known
<1> QED
  BY <1>1, <1>3, Known, IoKeeps

\* The socket has opened.
LEMMA OpenedKeeps ==
  ASSUME ConnInv, K!OnSocketConnected
  PROVE  ConnInv'
<1> DEFINE w == [K!World EXCEPT !.s.st = "open"]
           v == IF K!UseTls(w) THEN w ELSE K!Authenticating([w EXCEPT !.s.auth = TRUE])
           z == IF K!World.s.tls THEN v ELSE K!Settle(v)
<1>1. K!World.s.st = "opening" /\ K!Becomes(z) /\ K!SocketRest
  BY Here DEF K!OnSocketConnected
<1>2. /\ WorldOK(z) /\ Signalled(K!World, z) /\ z.c.radio = ptt.radio /\ z.c.try = ptt.try
      /\ Owned(K!World, Pending) => Owned(z, Pending)
  BY <1>1, Known, OpeningKeeps, ZenonT(40)
<1>3. locked' \in [debris : 0 .. Backlog, tail : 0 .. Backlog, heard : BOOLEAN]
  <2>1. locked.debris \in 0 .. Backlog /\ locked.tail \in 0 .. Backlog
    BY Known
  <2>2. 0 \in 0 .. Backlog
    BY ConnectionBounds
  <2> QED
    BY <2>1, <2>2 DEF K!OnSocketConnected
<1> HIDE DEF z
<1> QED
  BY <1>1, <1>2, <1>3, SocketKeeps

\* TLS is up.
LEMMA EncryptedKeeps ==
  ASSUME ConnInv, K!OnSocketEncrypted
  PROVE  ConnInv'
<1> DEFINE z == K!Settle(K!Authenticating([K!World EXCEPT !.s.secured = TRUE]))
<1>1. /\ link.st = "open" /\ link.tls /\ ~link.secured /\ link.peer \in Secure
      /\ K!Becomes(z) /\ K!SocketRest /\ locked' = locked
  BY DEF K!OnSocketEncrypted
<1>2. /\ WorldOK(z) /\ Signalled(K!World, z) /\ z.c.radio = ptt.radio /\ z.c.try = ptt.try
      /\ Owned(K!World, Pending) => Owned(z, Pending)
  BY <1>1, Known, EncryptingKeeps
<1> HIDE DEF z
<1> QED
  BY <1>1, <1>2, Known, SocketKeeps

\* The socket is down.
LEMMA EndedKeeps ==
  ASSUME ConnInv, K!OnSocketDisconnected
  PROVE  ConnInv'
<1> DEFINE z == K!SocketEnded(K!World)
<1>1. K!Becomes(z) /\ K!SocketRest /\ locked' = locked
  BY DEF K!OnSocketDisconnected
<1>2. /\ WorldOK(z) /\ Signalled(K!World, z) /\ z.c.radio = ptt.radio /\ z.c.try = ptt.try
      /\ Owned(z, Pending)
  BY Known, Ended
<1> HIDE DEF z
<1> QED
  BY <1>1, <1>2, Known, SocketKeeps

\* Bytes have come: packets, or the rest of one of another connection.
LEMMA ReadyReadKeeps ==
  ASSUME ConnInv, NEW tail \in 0 .. Backlog, K!OnReadyRead(tail)
  PROVE  ConnInv'
<1>1. /\ link.st \in {"open", "closing"} /\ (IF link.peer \in Secure THEN link.secured ELSE link.auth)
      /\ K!SocketRest /\ locked' = K!Parse(locked, tail)
      /\ K!Becomes(IF K!Finds(locked) THEN K!PacketReceived(K!World) ELSE K!World)
  BY DEF K!OnReadyRead
<1>2. locked' \in [debris : 0 .. Backlog, tail : 0 .. Backlog, heard : BOOLEAN]
  <2>1. CASE locked.debris > 1
    <3>1. locked' = [locked EXCEPT !.debris = @ - 1, !.heard = TRUE]
      BY <1>1, <2>1 DEF K!Parse
    <3>2. locked.debris - 1 \in 0 .. Backlog
      <4>1. locked.debris \in 0 .. Backlog
        BY Known
      <4> QED
        BY <2>1, <4>1, ConnectionBounds
    <3> QED
      BY <3>1, <3>2, Known
  <2>2. CASE ~(locked.debris > 1)
    <3>1. locked' = [debris |-> 0, tail |-> tail, heard |-> TRUE]
      BY <1>1, <2>2 DEF K!Parse
    <3>2. 0 \in 0 .. Backlog
      BY ConnectionBounds
    <3> QED
      BY <3>1, <3>2
  <2> QED
    BY <2>1, <2>2
<1>3. CASE K!Finds(locked)
  <2> DEFINE z == K!PacketReceived(K!World)
  <2>1. K!Becomes(z)
    BY <1>1, <1>3
  <2>2. /\ WorldOK(z) /\ Signalled(K!World, z) /\ z.c.radio = ptt.radio /\ z.c.try = ptt.try
        /\ Owned(K!World, Pending) => Owned(z, Pending)
    BY <1>1, Known, HearingKeeps
  <2> HIDE DEF z
  <2> QED
    BY <1>1, <1>2, <2>1, <2>2, SocketKeeps
<1>4. CASE ~K!Finds(locked)
  <2>1. K!Becomes(K!World) /\ Signalled(K!World, K!World)
    BY <1>1, <1>4 DEF Signalled
  <2> QED
    BY <1>1, <1>2, <2>1, Known, SocketKeeps
<1> QED
  BY <1>3, <1>4

\* A lookup that nobody waits for is dropped.
LEMMA UnusedKeeps ==
  ASSUME ConnInv, NEW l \in shown, K!LookupUnused(l)
  PROVE  ConnInv'
<1>1. /\ shown' \subseteq shown /\ UNCHANGED <<told, budget, toRadio, locked, stray, ptt>>
      /\ K!Becomes(K!World)
  BY Here DEF K!LookupUnused, K!LookupDone, K!IoRest, K!Becomes
<1>2. Signalled(K!World, K!World)
  BY DEF Signalled
<1>3. stray' \/ Owned(K!World, Pending')
  <2>1. Pending' => Pending
    BY <1>1 DEF Pending
  <2> QED
    BY <1>1, <2>1, Known DEF Owned
<1> QED
  BY <1>1, <1>2, <1>3, Known, IoKeeps

\* The answer that is taken is of the present try, or stray tells that it is not;
\* until then the socket is one given up, and afterwards no answer of this try is out.
LEMMA Answered ==
  ASSUME ConnInv, NEW l \in shown, shown' = shown \ {l}, stray' = K!Outdated(l), ~stray'
  PROVE  /\ Owned(K!World, TRUE) /\ l.radio = ptt.radio
         /\ ~\E k \in shown' : k.try = ptt.try
<1>1. ~stray /\ l.try = ptt.try
  BY Known DEF K!Outdated
<1>2. Pending
  BY <1>1 DEF Pending
<1>3. Owned(K!World, TRUE)
  BY <1>1, <1>2, Known
<1>4. l.radio = ptt.radio
  BY <1>1 DEF ConnInv, Lookups
<1>5. ASSUME NEW k \in shown, k.try = ptt.try PROVE k = l
  BY <1>1, <1>4, <1>5 DEF ConnInv, Lookups, ConnTypes
<1> QED
  BY <1>3, <1>4, <1>5

\* The name is unknown: the attempt is over.
LEMMA FailedKeeps ==
  ASSUME ConnInv, NEW l \in shown, K!LookupFailed(l)
  PROVE  ConnInv'
<1> DEFINE t == K!Stop(K!World, {"connect"})
           w == K!SetState(t, "Disconnected")
<1>1. /\ shown' = shown \ {l} /\ UNCHANGED <<told, budget, toRadio, locked>> /\ K!Becomes(w)
      /\ stray' = K!Outdated(l) /\ ptt.state = "Connecting"
  BY DEF K!LookupFailed, K!LookupDone, K!IoRest
<1>2. ptt \in Client /\ ptt.timers = {"connect"} /\ ~ptt.answered
  BY <1>1, Known DEF WorldOK, TimerOf
<1>3. t \in Worlds /\ t.c = [ptt EXCEPT !.timers = @ \ {"connect"}] /\ t.s = link /\ t.q = toPhone
  BY Known, Timing, ZenonT(40) DEF K!AllTimers
<1>4. t.c = [ptt EXCEPT !.timers = {}] /\ t.c.state = ptt.state
  BY <1>2, <1>3 DEF Client
<1> HIDE DEF t
<1>5. w \in Worlds /\ w.c = [t.c EXCEPT !.state = "Disconnected"] /\ w.s = link /\ Signalled(t, w)
  BY <1>3, Setting DEF K!ConnectionState
<1> HIDE DEF w
<1>6. /\ w.c.state = "Disconnected" /\ w.c.timers = {} /\ w.c.radio = ptt.radio /\ w.c.try = ptt.try
      /\ ~w.c.answered
  BY <1>2, <1>4, <1>5 DEF Client
<1>7. WorldOK(w) /\ Signalled(K!World, w)
  <2>1. link.st = "opening" => ~link.secured /\ ~link.auth
    BY Known DEF WorldOK
  <2>2. WorldOK(w)
    BY <1>5, <1>6, <2>1 DEF WorldOK, TimerOf
  <2>3. Signalled(K!World, w)
    BY <1>3, <1>4, <1>5, Here DEF Signalled
  <2> QED
    BY <2>2, <2>3
<1>8. stray' \/ Owned(w, Pending')
  <2>1. CASE stray'
    BY <2>1
  <2>2. CASE ~stray'
    <3>1. Owned(K!World, TRUE)
      BY <1>1, <2>2, Answered
    <3>2. Current(K!World) => Current(K!World) /\ ptt.state # "Disconnected"
      BY <1>1
    <3> QED
      BY <1>5, <3>1, Here DEF Owned
  <2> QED
    BY <2>1, <2>2
<1>9. stray' \in BOOLEAN /\ shown' \subseteq shown
  BY <1>1, Known DEF K!Outdated
<1> QED
  BY <1>1, <1>6, <1>7, <1>8, <1>9, Known, IoKeeps

\* The name is known: the socket is opened.
LEMMA FoundKeeps ==
  ASSUME ConnInv, NEW l \in shown, K!LookupFound(l)
  PROVE  ConnInv'
<1> DEFINE w == K!AttemptConnection(K!World, l.radio)
<1>1. /\ shown' = shown \ {l} /\ UNCHANGED <<told, budget, toRadio, locked>> /\ K!Becomes(w)
      /\ stray' = K!Outdated(l) /\ ptt.state = "Connecting"
  BY DEF K!LookupFound, K!LookupDone, K!IoRest
<1>2. l.radio \in K!MaybeRadio
  BY DEF ConnInv, ConnTypes, K!MaybeRadio
<1>3. /\ WorldOK(w) /\ Signalled(K!World, w) /\ w.c.radio = ptt.radio /\ w.c.try = ptt.try
      /\ Owned(K!World, TRUE) /\ l.radio = ptt.radio => Owned(w, FALSE)
  <2>1. WorldOK(K!World) /\ K!World.c = ptt
    BY Known
  <2>2. K!World.c.state = "Connecting"
    BY <1>1, <2>1
  <2>3. /\ WorldOK(w) /\ Signalled(K!World, w) /\ w.c.radio = K!World.c.radio
        /\ w.c.try = K!World.c.try
        /\ Owned(K!World, TRUE) /\ l.radio = K!World.c.radio => Owned(w, FALSE)
    BY <1>2, <2>1, <2>2, Trying
  <2> HIDE DEF w
  <2> QED
    BY <2>1, <2>3
<1> HIDE DEF w
<1>4. ptt' = w.c
  BY <1>1, <1>3, Becoming DEF WorldOK
<1>5. stray' \/ Owned(w, Pending')
  <2>1. CASE stray'
    BY <2>1
  <2>2. CASE ~stray'
    <3>1. Owned(K!World, TRUE) /\ l.radio = ptt.radio /\ ~\E k \in shown' : k.try = ptt.try
      BY <1>1, <2>2, Answered
    <3>2. Pending' => FALSE
      BY <1>3, <1>4, <3>1 DEF Pending
    <3> QED
      BY <1>3, <3>1, <3>2 DEF Owned
  <2> QED
    BY <2>1, <2>2
<1>6. stray' \in BOOLEAN /\ shown' \subseteq shown
  BY <1>1, Known DEF K!Outdated
<1> QED
  BY <1>1, <1>3, <1>5, <1>6, Known, IoKeeps

\* What a request leaves, once it is looked up or tried.
LEMMA RequestKeeps ==
  ASSUME ConnInv, NEW w, K!Becomes(w), WorldOK(w), w.q # <<>>, w.q[Len(w.q)] = w.c.state,
         NEW r, r = Head(toRadio).radio, w.c.radio = r, w.c.try = ptt.try + 1,
         toRadio # <<>>, Head(toRadio).t = "connect", toRadio' = Tail(toRadio),
         UNCHANGED <<told, budget, locked, stray>>,
         \/ shown' = shown
         \/ r \in Locals /\ shown' = shown \cup {[radio |-> r, try |-> ptt.try + 1]},
         stray \/ Owned(w, Pending')
  PROVE  ConnInv'
<1>0. /\ K!World' = w /\ ptt' = w.c /\ link' = w.s /\ toPhone' = w.q /\ ptt.try \in Nat
      /\ ptt'.radio = r /\ ptt'.try = ptt.try + 1
  BY Becoming, Known DEF WorldOK, Client
<1>1. toRadio \in Seq(Called) /\ Asks(toRadio, ptt.radio, told.radio)
  BY DEF ConnInv, ConnTypes
<1>2. /\ toRadio' \in Seq(Called) /\ DOMAIN toRadio' = 1 .. Len(toRadio) - 1 /\ Len(toRadio) \in Nat
      /\ Len(toRadio) > 0 /\ DOMAIN toRadio = 1 .. Len(toRadio) /\ Head(toRadio) = toRadio[1]
      /\ \A i \in 1 .. Len(toRadio) - 1 : toRadio'[i] = toRadio[i + 1]
  BY <1>1, TakingSignal
<1>3. Asks(toRadio', r, told.radio) /\ Tried(toRadio', ptt.try + 1, budget.tries)
  BY <1>1, TakeCall DEF ConnInv
<1>4. ASSUME NEW i \in DOMAIN toRadio', toRadio'[i].t = "connect" PROVE toRadio'[i].radio \in Radios
  <2>1. i + 1 \in DOMAIN toRadio /\ toRadio'[i] = toRadio[i + 1]
    BY <1>2
  <2> QED
    BY <1>4, <2>1 DEF ConnInv, ConnTypes
<1>5. r \in Radios
  BY <1>2 DEF ConnInv, ConnTypes
<1>6. shown' \subseteq [radio : Radios \cap Locals, try : Nat]
  BY <1>0, <1>5 DEF ConnInv, ConnTypes
<1>7. ConnTypes'
  BY <1>2, <1>4, <1>6 DEF ConnInv, ConnTypes
<1>8. Signals'
  BY <1>0 DEF Signals
<1>9. Lookups'
  <2> SUFFICES ASSUME NEW l \in shown'
               PROVE  l.try \in 1 .. ptt.try + 1 /\ (l.try = ptt.try + 1 => l.radio = r)
    BY <1>0 DEF Lookups
  <2>1. CASE l \in shown
    <3>1. l.try \in 1 .. ptt.try
      BY <2>1 DEF ConnInv, Lookups
    <3> QED
      BY <1>0, <3>1
  <2>2. CASE l \notin shown
    <3>1. l.try = ptt.try + 1 /\ l.radio = r
      BY <2>2
    <3> QED
      BY <1>0, <3>1
  <2> QED
    BY <2>1, <2>2
<1>10. WorldOK(K!World)' /\ (stray \/ Owned(K!World, Pending))'
  <2>1. WorldOK(K!World)' = WorldOK(K!World') /\ Owned(K!World, Pending)' = Owned(K!World', Pending')
    BY DEF WorldOK, Owned, Current, Marked, Mute
  <2> QED
    BY <1>0, <2>1
<1>11. Asks(toRadio, ptt.radio, told.radio)' /\ Tried(toRadio, ptt.try, budget.tries)'
  <2>1. Asks(toRadio, ptt.radio, told.radio)' = Asks(toRadio', ptt'.radio, told.radio)
    BY DEF Asks, NoConnect, IsLast
  <2>2. Tried(toRadio, ptt.try, budget.tries)' = Tried(toRadio', ptt'.try, budget.tries)
    BY DEF Tried, Counts
  <2> QED
    BY <1>0, <1>3, <2>1, <2>2
<1> QED
  BY <1>7, <1>8, <1>9, <1>10, <1>11 DEF ConnInv

\* A request gives up the socket there is; its name is looked up, or it is tried at once.
LEMMA ConnectToHostKeeps ==
  ASSUME ConnInv, NEW lingers \in BOOLEAN, K!ConnectToHost(lingers)
  PROVE  ConnInv'
<1> DEFINE r == Head(toRadio).radio
           w == IF K!World.c.state = "Disconnected" THEN K!World
                ELSE K!DisconnectFromHost(K!World, lingers)
           v == K!Connecting(K!Request(w, r))
           x == K!AttemptConnection(v, r)
<1>1. /\ toRadio # <<>> /\ Head(toRadio).t = "connect" /\ toRadio' = Tail(toRadio)
      /\ UNCHANGED <<told, budget, locked, stray>>
      /\ \/ r \in Locals /\ K!Becomes(v) /\ shown' = shown \cup {[radio |-> r, try |-> v.c.try]}
         \/ K!Becomes(x) /\ shown' = shown
  BY Here DEF K!ConnectToHost, K!IoTakes, K!IoRest
<1>2. r \in Radios
  <2>1. toRadio \in Seq(Called)
    BY DEF ConnInv, ConnTypes
  <2>2. 1 \in DOMAIN toRadio /\ Head(toRadio) = toRadio[1]
    BY <1>1, <2>1
  <2> QED
    BY <1>1, <2>2 DEF ConnInv, ConnTypes
<1> HIDE DEF r
<1>3. /\ WorldOK(v) /\ (Owned(K!World, FALSE) => Owned(v, TRUE))
      /\ v.c.radio = r /\ v.c.try = ptt.try + 1 /\ v.c.state = "Connecting"
      /\ v.q # <<>> /\ v.q[Len(v.q)] = "Connecting"
  <2>1. WorldOK(K!World) /\ K!World.c = ptt
    BY Known
  <2>2. /\ WorldOK(v) /\ (Owned(K!World, FALSE) => Owned(v, TRUE))
        /\ v.c.radio = r /\ v.c.try = K!World.c.try + 1 /\ v.c.state = "Connecting"
        /\ v.q # <<>> /\ v.q[Len(v.q)] = "Connecting"
    BY <1>2, <2>1, Renewing
  <2> HIDE DEF v
  <2> QED
    BY <2>1, <2>2
<1>4. stray \/ Owned(v, TRUE)
  BY <1>3, Known DEF Owned
<1> HIDE DEF v
<1>5. CASE r \in Locals /\ K!Becomes(v) /\ shown' = shown \cup {[radio |-> r, try |-> v.c.try]}
  <2>1. stray \/ Owned(v, Pending')
    BY <1>4 DEF Owned
  <2> QED
    BY <1>1, <1>3, <1>5, <2>1, RequestKeeps DEF r
<1>6. CASE K!Becomes(x) /\ shown' = shown
  <2>1. r \in K!MaybeRadio
    BY <1>2 DEF K!MaybeRadio
  <2>2. /\ WorldOK(x) /\ Signalled(v, x) /\ x.c.radio = r /\ x.c.try = ptt.try + 1
        /\ Owned(v, TRUE) => Owned(x, FALSE)
    BY <1>3, <2>1, Trying
  <2>3. x.q # <<>> /\ x.q[Len(x.q)] = x.c.state
    BY <1>3, <2>2 DEF Signalled
  <2> HIDE DEF x
  <2>4. ptt' = x.c
    BY <1>6, <2>2, Becoming DEF WorldOK
  <2>5. Pending' => FALSE
    <3>1. ASSUME NEW l \in shown PROVE l.try # ptt.try + 1
      <4>1. l.try \in 1 .. ptt.try /\ ptt.try \in Nat
        BY Known DEF ConnInv, Lookups, Client
      <4> QED
        BY <4>1
    <3> QED
      BY <1>6, <2>2, <2>4, <3>1 DEF Pending
  <2>6. stray \/ Owned(x, Pending')
    BY <1>4, <2>2, <2>5 DEF Owned
  <2> QED
    BY <1>1, <1>6, <2>2, <2>3, <2>6, RequestKeeps DEF r
<1> QED
  BY <1>1, <1>5, <1>6

-----------------------------------------------------------------------------
\* What the UI's own steps keep, as they leave TcpClient and the socket alone.
LEMMA UiKeeps ==
  ASSUME ConnInv, UNCHANGED <<ptt, link, shown, locked, stray>>,
         toPhone' \in Seq(K!ConnectionState)
  PROVE  WorldOK(K!World)' /\ (stray \/ Owned(K!World, Pending))' /\ Lookups'
<1> DEFINE w == [c |-> ptt, s |-> link, q |-> toPhone']
<1>1. K!World' = w /\ w.c = ptt /\ w.s = link /\ w.q = toPhone'
  BY DEF K!World
<1> HIDE DEF w
<1>2. WorldOK(w)
  <2>1. w \in Worlds
    BY Known DEF Worlds, w
  <2> QED
    BY <1>1, <2>1, Known DEF WorldOK
<1>3. stray \/ Owned(w, Pending)
  BY <1>1, Known DEF Owned, Current
<1>4. Pending' = Pending
  BY DEF Pending
<1>5. WorldOK(K!World)' = WorldOK(K!World') /\ Owned(K!World, Pending)' = Owned(K!World', Pending')
  BY DEF WorldOK, Owned, Current, Marked, Mute
<1>6. Lookups'
  BY DEF ConnInv, Lookups
<1> QED
  BY <1>1, <1>2, <1>3, <1>4, <1>5, <1>6

\* The primed queue is the queue's.
LEMMA Primed ==
  /\ Asks(toRadio, ptt.radio, told.radio)' = Asks(toRadio', ptt'.radio, told'.radio)
  /\ Tried(toRadio, ptt.try, budget.tries)' = Tried(toRadio', ptt'.try, budget'.tries)
  /\ NoConnect(toRadio)' = NoConnect(toRadio')
BY DEF Asks, NoConnect, IsLast, Tried, Counts

\* The operator disconnects.
LEMMA ClickKeeps ==
  ASSUME ConnInv, K!OnDisconnectClicked
  PROVE  ConnInv'
<1> DEFINE c == K!Call("disconnect", K!None)
<1>1. /\ toRadio' = Append(toRadio, c) /\ budget' = [budget EXCEPT !.cancels = @ - 1]
      /\ UNCHANGED <<ptt, link, shown, locked, stray, told, toPhone>> /\ budget.cancels > 0
  BY DEF K!OnDisconnectClicked, K!UiRest
<1>2. c \in Called /\ c.t = "disconnect" /\ toRadio \in Seq(Called)
  BY DEF ConnInv, ConnTypes, Called, K!Call, K!MaybeRadio
<1> HIDE DEF c
<1>3. /\ Asks(toRadio', ptt.radio, told.radio) /\ (NoConnect(toRadio') => NoConnect(toRadio))
      /\ Tried(toRadio', ptt.try, budget.tries)
  BY <1>1, <1>2, PostDisconnect DEF ConnInv
<1>4. ConnTypes'
  <2>1. /\ toRadio' \in Seq(Called) /\ DOMAIN toRadio' = 1 .. Len(toRadio) + 1 /\ Len(toRadio) \in Nat
        /\ DOMAIN toRadio = 1 .. Len(toRadio) /\ toRadio'[Len(toRadio) + 1] = c
        /\ \A i \in 1 .. Len(toRadio) : toRadio'[i] = toRadio[i]
    BY <1>1, <1>2, Calling
  <2>2. ASSUME NEW i \in DOMAIN toRadio', toRadio'[i].t = "connect" PROVE toRadio'[i].radio \in Radios
    BY <1>2, <2>1, <2>2 DEF ConnInv, ConnTypes
  <2>3. budget' \in [tries : 0 .. Tries, cancels : 0 .. Clicks]
    <3>1. budget.cancels - 1 \in 0 .. Clicks
      BY <1>1, ConnectionBounds DEF ConnInv, ConnTypes
    <3> QED
      BY <1>1, <3>1 DEF ConnInv, ConnTypes
  <2> QED
    BY <1>1, <2>1, <2>2, <2>3 DEF ConnInv, ConnTypes
<1>5. WorldOK(K!World)' /\ (stray \/ Owned(K!World, Pending))' /\ Lookups'
  <2>1. toPhone' \in Seq(K!ConnectionState)
    BY <1>1, Known DEF Worlds
  <2> QED
    BY <1>1, <2>1, UiKeeps
<1>6. Signals'
  BY <1>1, <1>3, Primed DEF ConnInv, Signals
<1>7. budget'.tries = budget.tries
  BY <1>1 DEF ConnInv, ConnTypes
<1> QED
  BY <1>1, <1>3, <1>4, <1>5, <1>6, <1>7, Primed DEF ConnInv

\* The operator asks for a K4.
LEMMA ConnectToRadioKeeps ==
  ASSUME ConnInv, NEW r \in Radios, K!ConnectToRadio(r)
  PROVE  ConnInv'
<1> DEFINE d == K!Call("disconnect", K!None)
           c == K!Call("connect", r)
           q == IF ptt.state = "Connected" THEN Append(toRadio, d) ELSE toRadio
<1>1. /\ budget.tries > 0 /\ told' = [state |-> "Connecting", radio |-> r]
      /\ toRadio' = toRadio \o (IF ptt.state = "Connected" THEN <<d>> ELSE <<>>) \o <<c>>
      /\ budget' = [budget EXCEPT !.tries = @ - 1]
      /\ UNCHANGED <<ptt, link, shown, locked, stray, toPhone>>
  BY DEF K!ConnectToRadio, K!UiRest
<1>2. /\ c \in Called /\ c.t = "connect" /\ c.radio = r /\ d \in Called /\ d.t = "disconnect"
      /\ toRadio \in Seq(Called)
  BY DEF ConnInv, ConnTypes, Called, K!Call, K!MaybeRadio
<1> HIDE DEF c, d
<1>3. toRadio' = Append(q, c)
  <2>1. CASE ptt.state = "Connected"
    <3>1. q = toRadio \o <<d>> /\ q \in Seq(Called)
      BY <1>2, <2>1
    <3>2. toRadio' = q \o <<c>>
      BY <1>1, <2>1, <3>1
    <3> HIDE DEF q
    <3> QED
      BY <1>2, <3>1, <3>2
  <2>2. CASE ptt.state # "Connected"
    <3>1. q = toRadio /\ toRadio \o <<>> = toRadio
      BY <1>2, <2>2
    <3>2. toRadio' = q \o <<c>>
      BY <1>1, <2>2, <3>1
    <3> QED
      BY <1>2, <3>1, <3>2
  <2> QED
    BY <2>1, <2>2
<1>4. /\ q \in Seq(Called) /\ Tried(q, ptt.try, budget.tries)
      /\ \A i \in DOMAIN q : q[i].t = "connect" => q[i].radio \in Radios
  <2>1. CASE ptt.state = "Connected"
    <3>1. q = Append(toRadio, d)
      BY <2>1
    <3>2. /\ q \in Seq(Called) /\ DOMAIN q = 1 .. Len(toRadio) + 1 /\ Len(toRadio) \in Nat
          /\ DOMAIN toRadio = 1 .. Len(toRadio) /\ q[Len(toRadio) + 1] = d
          /\ \A i \in 1 .. Len(toRadio) : q[i] = toRadio[i]
      BY <1>2, <3>1, Calling
    <3>3. Tried(q, ptt.try, budget.tries)
      BY <1>2, <3>1, PostDisconnect DEF ConnInv
    <3>4. ASSUME NEW i \in DOMAIN q, q[i].t = "connect" PROVE q[i].radio \in Radios
      BY <1>2, <3>2, <3>4 DEF ConnInv, ConnTypes
    <3> QED
      BY <3>2, <3>3, <3>4
  <2>2. CASE ptt.state # "Connected"
    BY <1>2, <2>2 DEF ConnInv, ConnTypes
  <2> QED
    BY <2>1, <2>2
<1> HIDE DEF q
<1>5. budget.tries \in 1 .. Tries /\ budget'.tries = budget.tries - 1
  BY <1>1, ConnectionBounds DEF ConnInv, ConnTypes
<1>6. /\ ~NoConnect(toRadio') /\ Asks(toRadio', ptt.radio, r)
      /\ Tried(toRadio', ptt.try, budget'.tries)
  <2>1. ~NoConnect(Append(q, c)) /\ Asks(Append(q, c), ptt.radio, c.radio)
    BY <1>2, <1>4, PostConnect
  <2>2. Tried(Append(q, c), ptt.try, budget.tries - 1)
    BY <1>2, <1>4, <1>5, PostConnect, ConnectionBounds
  <2> QED
    BY <1>2, <1>3, <1>5, <2>1, <2>2
<1>7. ConnTypes'
  <2>1. /\ toRadio' \in Seq(Called) /\ DOMAIN toRadio' = 1 .. Len(q) + 1 /\ Len(q) \in Nat
        /\ DOMAIN q = 1 .. Len(q) /\ toRadio'[Len(q) + 1] = c
        /\ \A i \in 1 .. Len(q) : toRadio'[i] = q[i]
    BY <1>2, <1>3, <1>4, Calling
  <2>2. ASSUME NEW i \in DOMAIN toRadio', toRadio'[i].t = "connect" PROVE toRadio'[i].radio \in Radios
    BY <1>2, <1>4, <2>1, <2>2
  <2>3. budget' \in [tries : 0 .. Tries, cancels : 0 .. Clicks]
    <3>1. budget.tries - 1 \in 0 .. Tries
      BY <1>5, ConnectionBounds
    <3> QED
      BY <1>1, <3>1 DEF ConnInv, ConnTypes
  <2>4. told' \in [state : K!ConnectionState, radio : K!MaybeRadio]
    BY <1>1 DEF K!ConnectionState, K!MaybeRadio
  <2> QED
    BY <1>1, <2>1, <2>2, <2>3, <2>4 DEF ConnInv, ConnTypes
<1>8. WorldOK(K!World)' /\ (stray \/ Owned(K!World, Pending))' /\ Lookups'
  <2>1. toPhone' \in Seq(K!ConnectionState)
    BY <1>1, Known DEF Worlds
  <2> QED
    BY <1>1, <2>1, UiKeeps
<1>9. Signals'
  BY <1>1, <1>6, Primed DEF ConnInv, Signals
<1> QED
  BY <1>1, <1>6, <1>7, <1>8, <1>9, Primed DEF ConnInv

\* A signal reaches the screen.
LEMMA ShownKeeps ==
  ASSUME ConnInv, K!OnStateChanged
  PROVE  ConnInv'
<1>1. /\ toPhone # <<>> /\ told' = [told EXCEPT !.state = Head(toPhone)] /\ toPhone' = Tail(toPhone)
      /\ UNCHANGED <<ptt, link, shown, locked, stray, toRadio, budget>>
  BY DEF K!OnStateChanged, K!UiRest
<1>2. toPhone \in Seq(K!ConnectionState)
  BY Known DEF Worlds
<1>3. /\ toPhone' \in Seq(K!ConnectionState) /\ Len(toPhone') = Len(toPhone) - 1
      /\ Len(toPhone) \in Nat /\ Len(toPhone) > 0 /\ Head(toPhone) = toPhone[1]
      /\ \A i \in 1 .. Len(toPhone) - 1 : toPhone'[i] = toPhone[i + 1]
  BY <1>1, <1>2, TakingSignal
<1>4. Head(toPhone) \in K!ConnectionState
  BY <1>1, <1>2
<1>5. ConnTypes' /\ told'.radio = told.radio /\ told'.state = Head(toPhone)
  BY <1>1, <1>4 DEF ConnInv, ConnTypes
<1>6. WorldOK(K!World)' /\ (stray \/ Owned(K!World, Pending))' /\ Lookups'
  BY <1>1, <1>3, UiKeeps
<1>7. Signals'
  <2>1. toPhone[Len(toPhone)] = ptt.state
    BY <1>1 DEF ConnInv, Signals
  <2>2. CASE toPhone' = <<>>
    <3>1. Len(toPhone) = 1
      BY <1>3, <2>2
    <3> QED
      BY <1>1, <1>3, <1>5, <2>1, <2>2, <3>1 DEF Signals
  <2>3. CASE toPhone' # <<>>
    <3>1. Len(toPhone') \in Nat /\ Len(toPhone') > 0
      BY <1>3, <2>3
    <3>2. toPhone'[Len(toPhone')] = toPhone[Len(toPhone)]
      BY <1>3, <3>1
    <3> QED
      BY <1>1, <2>1, <2>3, <3>2 DEF Signals
  <2> QED
    BY <2>2, <2>3
<1> QED
  BY <1>1, <1>5, <1>6, <1>7, Primed DEF ConnInv

-----------------------------------------------------------------------------
\* A step of the connection, for every one of its actions.
LEMMA ConnectionKeeps ==
  ASSUME ConnInv, part = "connection", [AllNext]_all
  PROVE  ConnInv'
<1>1. CASE UNCHANGED all
  <2>1. UNCHANGED <<told, toPhone, toRadio, ptt, shown, link, locked, stray, budget>>
    BY <1>1 DEF all, vars, session, control, wire
  <2>2. toPhone \in Seq(K!ConnectionState)
    BY Known DEF Worlds
  <2>3. WorldOK(K!World)' /\ (stray \/ Owned(K!World, Pending))' /\ Lookups'
    BY <2>1, <2>2, UiKeeps
  <2>4. ConnTypes' /\ Signals'
    BY <2>1, Primed DEF ConnInv, ConnTypes, Signals
  <2> QED
    BY <2>1, <2>3, <2>4, Primed DEF ConnInv
<1>2. ~Ptt /\ ~Mode /\ ~Calibration /\ ~Loudspeaker
  BY DEF Ptt, Mode, Calibration, Loudspeaker
<1>3. CASE AllNext
  <2>1. \/ \E r \in Radios : K!ConnectToRadio(r)
        \/ K!OnDisconnectClicked
        \/ K!OnStateChanged
        \/ \E lingers \in BOOLEAN : \/ K!ConnectToHost(lingers) \/ K!Disconnect(lingers)
                                    \/ K!OnConnectTimeout(lingers) \/ K!OnAuthTimeout(lingers)
        \/ \E l \in shown : K!LookupUnused(l) \/ K!LookupFailed(l) \/ K!LookupFound(l)
        \/ K!OnSocketConnected \/ K!OnSocketEncrypted \/ K!OnSocketDisconnected
        \/ \E tail \in 0 .. Backlog : K!OnReadyRead(tail)
    BY <1>2, <1>3 DEF AllNext
  <2>2. CASE \E r \in Radios : K!ConnectToRadio(r)
    BY <2>2, ConnectToRadioKeeps
  <2>3. CASE K!OnDisconnectClicked
    BY <2>3, ClickKeeps
  <2>4. CASE K!OnStateChanged
    BY <2>4, ShownKeeps
  <2>5. CASE \E lingers \in BOOLEAN : \/ K!ConnectToHost(lingers) \/ K!Disconnect(lingers)
                                      \/ K!OnConnectTimeout(lingers) \/ K!OnAuthTimeout(lingers)
    BY <2>5, ConnectToHostKeeps, DisconnectKeeps, ConnectTimeoutKeeps, AuthTimeoutKeeps
  <2>6. CASE \E l \in shown : K!LookupUnused(l) \/ K!LookupFailed(l) \/ K!LookupFound(l)
    BY <2>6, UnusedKeeps, FailedKeeps, FoundKeeps
  <2>7. CASE K!OnSocketConnected \/ K!OnSocketEncrypted \/ K!OnSocketDisconnected
    BY <2>7, OpenedKeeps, EncryptedKeeps, EndedKeeps
  <2>8. CASE \E tail \in 0 .. Backlog : K!OnReadyRead(tail)
    BY <2>8, ReadyReadKeeps
  <2> QED
    BY <2>1, <2>2, <2>3, <2>4, <2>5, <2>6, <2>7, <2>8
<1> QED
  BY <1>1, <1>3

\* Nothing is connected and nothing is under way.
LEMMA ConnectionBegins ==
  ASSUME K!Init
  PROVE  ConnInv
<1>1. /\ told = [state |-> "Disconnected", radio |-> K!None] /\ toPhone = <<>> /\ toRadio = <<>>
      /\ ptt = [state |-> "Disconnected", radio |-> K!None, timers |-> {}, answered |-> FALSE,
                try |-> 0, asked |-> FALSE]
      /\ shown = {} /\ link = K!Off /\ locked = [debris |-> 0, tail |-> 0, heard |-> FALSE]
      /\ stray = FALSE /\ budget = [tries |-> Tries, cancels |-> Clicks]
  BY DEF K!Init
<1>2. DOMAIN toRadio = {} /\ Len(toRadio) = 0 /\ toRadio \in Seq(Called)
  BY <1>1
<1>3. ConnTypes
  <2>1. /\ 0 \in 0 .. Backlog /\ Tries \in 0 .. Tries /\ Clicks \in 0 .. Clicks
    BY ConnectionBounds
  <2>2. told \in [state : K!ConnectionState, radio : K!MaybeRadio]
    BY <1>1 DEF K!ConnectionState, K!MaybeRadio
  <2> QED
    BY <1>1, <1>2, <2>1, <2>2 DEF ConnTypes
<1>4. ptt \in Client /\ link \in SslSocket /\ toPhone \in Seq(K!ConnectionState)
  <2>1. ptt \in Client
    BY <1>1 DEF Client, K!ConnectionState, K!MaybeRadio
  <2>2. link \in SslSocket
    BY <1>1 DEF SslSocket, K!Off, K!MaybeRadio
  <2> QED
    BY <1>1, <2>1, <2>2
<1>5. WorldOK(K!World) /\ Owned(K!World, Pending)
  <2>1. K!World \in Worlds
    BY <1>4 DEF Worlds, K!World
  <2>2. K!World.s.st = "off" /\ K!World.c = ptt
    BY <1>1, Here DEF K!Off
  <2> QED
    BY <1>1, <2>1, <2>2 DEF WorldOK, Owned, TimerOf
<1>6. Signals /\ Lookups
  BY <1>1 DEF Signals, Lookups
<1>7. Asks(toRadio, ptt.radio, told.radio)
  BY <1>1, <1>2 DEF Asks, NoConnect
<1>8. Tried(toRadio, ptt.try, budget.tries)
  <2> DEFINE f == [i \in 0 .. 0 |-> 0]
  <2>1. f \in [0 .. Len(toRadio) -> 0 .. Tries] /\ f[0] = 0 /\ f[Len(toRadio)] = Tries - budget.tries
    BY <1>1, <1>2, ConnectionBounds
  <2>2. Counts(toRadio, f)
    BY <1>2 DEF Counts
  <2> QED
    BY <1>1, <2>1, <2>2 DEF Tried
<1> QED
  BY <1>3, <1>5, <1>6, <1>7, <1>8 DEF ConnInv

\* Whatever is asked, answered or lost in whatever order, ConnInv holds.
LEMMA ConnectionIsOrderly == AllSpec => [](part = "connection" => ConnInv)
<1> DEFINE OfConnection == part = "connection" => ConnInv
<1>1. AllInit => OfConnection
  BY ConnectionBegins DEF AllInit
<1>2. OfConnection /\ [AllNext]_all => OfConnection'
  BY PartStays, ConnectionKeeps
<1> HIDE DEF OfConnection
<1>3. AllSpec => []OfConnection
  BY <1>1, <1>2, PTL DEF AllSpec
<1> QED
  BY <1>3 DEF OfConnection

(***************************************************************************)
(* The screen shows the state TcpClient is in, and the radio of the last   *)
(* request, once no call and no signal is on its way between the threads:  *)
(* for any number of requests, cancellations, answers and failures.        *)
(***************************************************************************)
THEOREM ScreenAgrees == AllSpec => []UiAgrees
<1>1. ASSUME part = "connection" => ConnInv PROVE UiAgrees
  <2> SUFFICES ASSUME ConnInv, toPhone = <<>>, toRadio = <<>>
               PROVE  told = [state |-> ptt.state, radio |-> ptt.radio]
    BY <1>1 DEF UiAgrees, K!UiAgrees
  <2>1. NoConnect(toRadio)
    BY DEF NoConnect
  <2>2. told.state = ptt.state /\ told.radio = ptt.radio
    BY <2>1 DEF ConnInv, Signals, Asks
  <2> QED
    BY <2>2 DEF ConnInv, ConnTypes
<1> QED
  BY <1>1, ConnectionIsOrderly, PTL

(***************************************************************************)
(* A K4 that is connected is the one asked for last, and the operator has  *)
(* not disconnected since, unless the answer to the lookup of an earlier   *)
(* request was taken for that of the present one.                          *)
(***************************************************************************)
THEOREM ConnectedIsAsked == AllSpec => []ConnectedAsAsked
<1>1. ASSUME part = "connection" => ConnInv PROVE ConnectedAsAsked
  <2> SUFFICES ASSUME ConnInv, ptt.state = "Connected", ~stray
               PROVE  link.peer = ptt.radio /\ ptt.asked
    BY <1>1 DEF ConnectedAsAsked, K!ConnectedAsAsked
  <2>1. link.st = "open" /\ (IF link.peer \in Secure THEN link.secured ELSE link.auth)
    BY Known DEF WorldOK
  <2>2. Current(K!World) \/ Marked(link) \/ Mute(link)
    BY <2>1, Known DEF Owned
  <2>3. ~Mute(link) /\ ~Marked(link)
    BY <2>1 DEF Mute, Marked
  <2> QED
    BY <2>2, <2>3, Here DEF Current
<1> QED
  BY <1>1, ConnectionIsOrderly, PTL

(***************************************************************************)
(* The connection keeps its types, and its state the one timer that may    *)
(* end it: no attempt is without a deadline, and none ends a later one.    *)
(***************************************************************************)
THEOREM DeadlinesFollowState == AllSpec => [](part = "connection" => K!TypeOK)
<1>1. ASSUME part = "connection" => ConnInv PROVE part = "connection" => K!TypeOK
  <2> SUFFICES ASSUME ConnInv PROVE K!TypeOK
    BY <1>1
  <2>1. ConnTypes /\ ptt \in Client /\ link \in SslSocket /\ toPhone \in Seq(K!ConnectionState)
    BY Known DEF ConnInv, Worlds
  <2>2. PICK f \in [0 .. Len(toRadio) -> 0 .. Tries] : f[0] = ptt.try
    BY DEF ConnInv, Tried
  <2>3. ptt.try \in 0 .. Tries
    <3>1. Len(toRadio) \in Nat
      BY <2>1 DEF ConnTypes
    <3> QED
      BY <2>2, <3>1
  <2>4. shown \subseteq [radio : Locals, try : 1 .. Tries]
    <3> SUFFICES ASSUME NEW l \in shown PROVE l \in [radio : Locals, try : 1 .. Tries]
      OBVIOUS
    <3>1. l \in [radio : Radios \cap Locals, try : Nat] /\ l.try \in 1 .. ptt.try
      BY <2>1 DEF ConnTypes, ConnInv, Lookups
    <3>2. l.try \in 1 .. Tries
      BY <2>3, <3>1, ConnectionBounds
    <3> QED
      BY <3>1, <3>2
  <2>5. ptt \in [state : K!ConnectionState, radio : K!MaybeRadio, timers : SUBSET K!AllTimers,
                 answered : BOOLEAN, try : 0 .. Tries, asked : BOOLEAN]
    BY <2>1, <2>3 DEF Client
  <2>6. K!TimersFollowState
    BY Known DEF K!TimersFollowState, TimerOf
  <2> QED
    BY <2>1, <2>4, <2>5, <2>6 DEF K!TypeOK, ConnTypes, SslSocket, Called
<1> QED
  BY <1>1, ConnectionIsOrderly, PTL

-----------------------------------------------------------------------------
(***************************************************************************)
(* The K4's mode while FT8 is shown.  Here told says that the FT8 screen   *)
(* is shown, granted is the mode saved, ptt the request pending, shown the *)
(* transmission, locked the K4's mode, shield the phone's copy of it, gate *)
(* the mode the operator chose and digital what made a decision stale.     *)
(***************************************************************************)
RealModes == (Nat \ {0}) \X Nat
Savable == (Nat \ {0}) \X (Nat \cup {-1})
ModeCommands == {F!None} \cup Savable
ModeReports == {"MD", "DT"} \X Nat

ModeTypes ==
  /\ told \in BOOLEAN /\ link \in BOOLEAN /\ shown \in BOOLEAN /\ ptt \in BOOLEAN
  /\ granted \in ModeCommands
  /\ locked \in RealModes /\ gate \in RealModes /\ shield \in Nat \X (Nat \cup {-1})
  /\ toRadio \in Seq(ModeCommands) /\ toPhone \in Seq(ModeReports)
  /\ digital \in {"no", "link", "panel", "reopen", "early", "turned"}

\* Without a connection nothing is saved, known or under way.
Parted ==
  ~link => /\ granted = F!None /\ shield = F!None /\ ~shown
           /\ toRadio = <<>> /\ toPhone = <<>>

\* Only the first command of a connection is the query.
AskedFirst == \A i \in DOMAIN toRadio : i > 1 => toRadio[i] # F!None

\* The reports under way end with what the K4 is in, unless it still has a
\* command before it.
Follows ==
  CASE Len(toPhone) = 0 -> shield = locked
    [] Len(toPhone) = 1 -> toPhone[1] = <<"DT", locked[2]>> /\ shield[1] = locked[1]
    [] OTHER -> /\ toPhone[Len(toPhone) - 1] = <<"MD", locked[1]>>
                /\ toPhone[Len(toPhone)] = <<"DT", locked[2]>>
Copied == link => toRadio # <<>> \/ Follows

\* The commands under way lead to the mode the operator chose.
EndsInOwn ==
  IF toRadio = <<>> \/ toRadio = <<F!None>> THEN locked = gate
  ELSE toRadio[Len(toRadio)] = gate

\* The screen was shown before the connection: the K4's first answer is awaited.
FirstAnswer ==
  /\ locked = gate
  /\ \/ toRadio = <<F!None>> /\ toPhone = <<>> /\ shield = F!None
     \/ toRadio = <<>> /\ toPhone = F!Reports(locked) /\ shield = F!None
     \/ toRadio = <<>> /\ toPhone = <<<<"DT", locked[2]>>>> /\ shield = <<locked[1], -1>>
     \/ toRadio = <<>> /\ toPhone = <<>> /\ shield = locked

\* The mode saved is the operator's; with none saved the K4 is going to it.
OwnMode ==
  link /\ digital \in {"no", "turned"} =>
    /\ granted # F!None => granted = gate
    /\ granted = F!None => EndsInOwn
    /\ told /\ granted = F!None => FirstAnswer

\* A turn of the panel counts as "turned" only with the screen closed and until
\* it is heard.
TurnedAlone ==
  digital = "turned" => /\ link /\ ~told /\ granted = F!None
                        /\ toRadio = <<>> /\ toPhone # <<>>

ModeInv == ModeTypes /\ Parted /\ AskedFirst /\ Copied /\ OwnMode /\ TurnedAlone

\* No mode is a mode that could be saved.
LEMMA NoMode == F!None = <<0, -1>> /\ F!None \in ModeCommands /\ \A c \in Savable : c # F!None
BY DEF F!None, Savable, ModeCommands

\* FT8's own mode is a real one.
LEMMA DataMode == F!DataA \in RealModes /\ F!DataA \in Savable
BY DEF F!DataA, RealModes, Savable

\* What a command put into the queue changes.
LEMMA Ordering ==
  ASSUME NEW q \in Seq(ModeCommands), NEW c \in Savable,
         \A i \in DOMAIN q : i > 1 => q[i] # F!None
  PROVE  /\ Append(q, c) \in Seq(ModeCommands) /\ Append(q, c) # <<>>
         /\ Append(q, c) # <<F!None>>
         /\ Append(q, c)[Len(Append(q, c))] = c
         /\ \A i \in DOMAIN Append(q, c) : i > 1 => Append(q, c)[i] # F!None
<1>1. c \in ModeCommands /\ c # F!None
  BY NoMode DEF ModeCommands
<1>2. /\ Append(q, c) \in Seq(ModeCommands) /\ Len(Append(q, c)) = Len(q) + 1 /\ Len(q) \in Nat
      /\ DOMAIN q = 1 .. Len(q) /\ DOMAIN Append(q, c) = 1 .. Len(q) + 1
      /\ Append(q, c)[Len(q) + 1] = c
      /\ \A i \in 1 .. Len(q) : Append(q, c)[i] = q[i]
  BY <1>1
<1>3. \A i \in DOMAIN Append(q, c) : i > 1 => Append(q, c)[i] # F!None
  BY <1>1, <1>2
<1>4. Append(q, c) # <<F!None>>
  <2> SUFFICES ASSUME Append(q, c) = <<F!None>> PROVE FALSE
    OBVIOUS
  <2>1. Len(Append(q, c)) = 1 /\ Append(q, c)[1] = F!None
    OBVIOUS
  <2> QED
    BY <1>1, <1>2, <2>1
<1> QED
  BY <1>2, <1>3, <1>4

\* update() saves the K4's mode as the phone knows it, asks for DATA-A, gives
\* the saved mode back, or does nothing.
LEMMA Updating ==
  ASSUME ModeInv, NEW shows \in BOOLEAN, F!Update(shows)
  PROVE  /\ ptt' \in BOOLEAN
         /\ \/ ~link /\ granted' = F!None /\ toRadio' = toRadio
            \/ /\ link /\ granted' = granted /\ toRadio' = toRadio
               /\ shown \/ granted # F!None \/ ~shows \/ shield[1] = 0
                  \/ (shield[1] \in {6, 9} /\ shield[2] < 0)
            \/ /\ link /\ ~shown /\ shows /\ granted = F!None /\ shield \in Savable
               /\ granted' = shield /\ toRadio' = Append(toRadio, F!DataA)
            \/ /\ link /\ shows /\ granted # F!None
               /\ granted' = granted /\ toRadio' = Append(toRadio, F!DataA)
            \/ /\ link /\ ~shows /\ granted \in Savable
               /\ granted' = F!None /\ toRadio' = Append(toRadio, granted)
<1>1. CASE ~link
  BY <1>1 DEF F!Update, ModeInv, ModeTypes
<1>2. CASE link /\ shown
  BY <1>2 DEF F!Update, ModeInv, ModeTypes
<1>3. CASE link /\ ~shown /\ ~shows
  BY <1>3 DEF F!Update, ModeInv, ModeTypes, ModeCommands
<1>4. CASE link /\ ~shown /\ shows
  <2>1. F!Select(granted, shield)
    BY <1>4 DEF F!Update
  <2>2. CASE shield[1] = 0 \/ (shield[1] \in {6, 9} /\ shield[2] < 0)
    BY <1>4, <2>1, <2>2 DEF F!Select, ModeInv, ModeTypes
  <2>3. CASE ~(shield[1] = 0 \/ (shield[1] \in {6, 9} /\ shield[2] < 0)) /\ granted = F!None
    <3>1. shield \in Savable
      BY <2>3 DEF ModeInv, ModeTypes, Savable
    <3> QED
      BY <1>4, <2>1, <2>3, <3>1 DEF F!Select
  <2>4. CASE ~(shield[1] = 0 \/ (shield[1] \in {6, 9} /\ shield[2] < 0)) /\ granted # F!None
    BY <1>4, <2>1, <2>4 DEF F!Select, ModeInv, ModeTypes
  <2> QED
    BY <2>2, <2>3, <2>4
<1> QED
  BY <1>1, <1>2, <1>3, <1>4

\* Whatever update() does, nothing else is unknown or out of order.
LEMMA UpdateKeeps ==
  ASSUME ModeInv, NEW shows \in BOOLEAN, F!Update(shows), told' \in BOOLEAN,
         UNCHANGED <<shown, F!wire, gate>>,
         digital' \in {"no", "link", "panel", "reopen", "early", "turned"}
  PROVE  ModeTypes' /\ Parted' /\ AskedFirst' /\ Copied'
<1>0. UNCHANGED <<shown, link, locked, shield, toPhone, gate>>
  BY DEF F!wire
<1>1. /\ granted' \in ModeCommands /\ ptt' \in BOOLEAN
      /\ ~link => granted' = F!None /\ toRadio' = toRadio
      /\ toRadio' = toRadio \/ \E c \in Savable : toRadio' = Append(toRadio, c)
  BY Updating, NoMode, DataMode DEF ModeCommands, ModeInv, ModeTypes
<1>2. toRadio' \in Seq(ModeCommands) /\ AskedFirst' /\ (toRadio # <<>> => toRadio' # <<>>)
  <2>1. CASE toRadio' = toRadio
    BY <2>1 DEF ModeInv, ModeTypes, AskedFirst
  <2>2. CASE \E c \in Savable : toRadio' = Append(toRadio, c)
    BY <2>2, Ordering DEF ModeInv, ModeTypes, AskedFirst
  <2> QED
    BY <1>1, <2>1, <2>2
<1>3. ModeTypes'
  BY <1>0, <1>1, <1>2 DEF ModeTypes, ModeInv
<1>4. Parted'
  BY <1>0, <1>1 DEF Parted, ModeInv
<1>5. Follows' <=> Follows
  BY <1>0 DEF Follows
<1>6. Copied'
  BY <1>0, <1>2, <1>5 DEF Copied, ModeInv
<1> QED
  BY <1>2, <1>3, <1>4, <1>6

\* With nothing under way the phone knows what the K4 is in, and that is the
\* operator's own mode if none is saved.
LEMMA AtRestKnown ==
  ASSUME ModeInv, F!Quiet, link
  PROVE  shield = locked /\ shield \in RealModes
         /\ (digital \in {"no", "turned"} => shield = gate)
<1>1. shield = locked /\ shield \in RealModes
  BY DEF ModeInv, Copied, Follows, F!Quiet, ModeTypes
<1>2. digital \in {"no", "turned"} => locked = gate
  BY DEF ModeInv, OwnMode, EndsInOwn, F!Quiet
<1> QED
  BY <1>1, <1>2

\* A mode saved without its submode is marked as early.
LEMMA Early ==
  ASSUME ModeInv, digital' = F!SavedEarly, granted = F!None, granted' # F!None, shield \in Savable,
         digital' \in {"no", "turned"}
  PROVE  digital = digital' /\ shield \in RealModes /\ shield[2] # -1
BY DEF F!SavedEarly, Savable, RealModes

\* FT8 is left: the mode saved goes back to the K4, unless it is transmitting.
LEMMA ClosingScreen ==
  ASSUME ModeInv, F!CloseFt8Screen
  PROVE  ModeInv'
<1>1. /\ F!Update(FALSE) /\ told /\ told' = FALSE
      /\ UNCHANGED <<shown, F!wire, link, locked, shield, toPhone, gate, digital>>
  BY DEF F!CloseFt8Screen, F!wire
<1>2. ModeTypes' /\ Parted' /\ AskedFirst' /\ Copied'
  BY <1>1, UpdateKeeps DEF ModeInv, ModeTypes
<1>3. TurnedAlone'
  BY <1>1 DEF ModeInv, TurnedAlone
<1>4. ASSUME link, digital \in {"no", "turned"}
      PROVE  /\ granted' # F!None => granted' = gate
             /\ granted' = F!None => EndsInOwn'
  <2>1. CASE granted' = granted /\ toRadio' = toRadio
    <3>1. granted = F!None => EndsInOwn
      BY <1>4 DEF ModeInv, OwnMode
    <3>2. EndsInOwn => EndsInOwn'
      BY <1>1, <2>1 DEF EndsInOwn
    <3> QED
      BY <1>4, <2>1, <3>1, <3>2 DEF ModeInv, OwnMode
  <2>2. CASE granted \in Savable /\ granted' = F!None /\ toRadio' = Append(toRadio, granted)
    <3>1. granted = gate
      BY <1>4, <2>2, NoMode DEF ModeInv, OwnMode
    <3> QED
      BY <1>1, <2>2, <3>1, Ordering DEF EndsInOwn, ModeInv, ModeTypes, AskedFirst
  <2> QED
    BY <1>1, <1>4, <2>1, <2>2, Updating
<1>5. OwnMode'
  BY <1>1, <1>4 DEF OwnMode
<1> QED
  BY <1>2, <1>3, <1>5 DEF ModeInv

\* The decision whether the mode is right.
LEMMA Ticking ==
  ASSUME ModeInv, F!Tick
  PROVE  ModeInv'
<1>1. /\ F!Update(told) /\ told' = told /\ digital' = F!SavedEarly
      /\ UNCHANGED <<shown, F!wire, link, locked, shield, toPhone, gate>>
      /\ digital' = "early" \/ digital' = digital
  BY DEF F!Tick, F!wire, F!SavedEarly
<1>2. ModeTypes' /\ Parted' /\ AskedFirst' /\ Copied'
  BY <1>1, UpdateKeeps DEF ModeInv, ModeTypes
<1>3. ASSUME link, digital' \in {"no", "turned"}
      PROVE  /\ granted' # F!None => granted' = gate
             /\ granted' = F!None => EndsInOwn'
             /\ told /\ granted' = F!None => FirstAnswer'
             /\ digital' = "turned" => granted' = F!None /\ toRadio' = <<>>
  <2>0. digital = digital'
    BY <1>1, <1>3
  <2>1. CASE granted' = granted /\ toRadio' = toRadio
    <3>1. EndsInOwn => EndsInOwn'
      BY <1>1, <2>1 DEF EndsInOwn
    <3>2. FirstAnswer => FirstAnswer'
      BY <1>1, <2>1 DEF FirstAnswer, F!Reports
    <3> QED
      BY <1>1, <1>3, <2>0, <2>1, <3>1, <3>2 DEF ModeInv, OwnMode, TurnedAlone
  <2>2. CASE /\ told /\ granted = F!None /\ shield \in Savable
             /\ granted' = shield /\ toRadio' = Append(toRadio, F!DataA)
    <3>1. shield \in RealModes /\ granted' # F!None
      BY <1>1, <1>3, <2>2, NoMode, Early
    <3>2. FirstAnswer
      BY <1>3, <2>0, <2>2 DEF ModeInv, OwnMode
    <3>3. shield # F!None /\ shield[2] # -1
      BY <3>1 DEF F!None, RealModes
    <3>4. shield = gate
      BY <3>2, <3>3 DEF FirstAnswer
    <3> QED
      BY <2>0, <2>2, <3>1, <3>4 DEF ModeInv, TurnedAlone
  <2>3. CASE told /\ granted # F!None /\ granted' = granted
    BY <1>3, <2>0, <2>3 DEF ModeInv, OwnMode, TurnedAlone
  <2>4. CASE ~told /\ granted \in Savable /\ granted' = F!None /\ toRadio' = Append(toRadio, granted)
    <3>1. granted = gate /\ granted # F!None
      BY <1>3, <2>0, <2>4, NoMode DEF ModeInv, OwnMode
    <3> QED
      BY <1>1, <2>0, <2>4, <3>1, Ordering DEF EndsInOwn, ModeInv, ModeTypes, AskedFirst, TurnedAlone
  <2>5. told \in BOOLEAN
    BY DEF ModeInv, ModeTypes
  <2> QED
    BY <1>1, <1>3, <2>1, <2>2, <2>3, <2>4, <2>5, Updating
<1>4. OwnMode'
  BY <1>1, <1>3 DEF OwnMode
<1>5. TurnedAlone'
  <2> SUFFICES ASSUME digital' = "turned" PROVE link /\ ~told /\ granted' = F!None
                                                /\ toRadio' = <<>> /\ toPhone # <<>>
    BY <1>1 DEF TurnedAlone
  <2>1. digital = "turned"
    BY <1>1
  <2> QED
    BY <1>3, <2>1 DEF ModeInv, TurnedAlone
<1> QED
  BY <1>2, <1>4, <1>5 DEF ModeInv

\* FT8 is shown.
LEMMA Opening ==
  ASSUME ModeInv, F!OpenFt8Screen
  PROVE  ModeInv'
<1>1. /\ F!Update(TRUE) /\ ~told /\ told' = TRUE /\ ~shown
      /\ UNCHANGED <<shown, F!wire, link, locked, shield, toPhone, gate>>
  BY DEF F!OpenFt8Screen, F!wire
<1>2. /\ ~link \/ F!Quiet => digital' = F!SavedEarly
      /\ ~(~link \/ F!Quiet) => digital' \notin {"no", "turned"}
                                /\ digital' \in {"reopen", "panel", F!SavedEarly}
      /\ F!SavedEarly \in {digital, "early"}
  BY DEF F!OpenFt8Screen, F!SavedEarly
<1>3. digital' \in {"no", "link", "panel", "reopen", "early", "turned"}
  BY <1>2 DEF ModeInv, ModeTypes
<1>4. ModeTypes' /\ Parted' /\ AskedFirst' /\ Copied'
  BY <1>1, <1>3, UpdateKeeps
<1>5. digital' # "turned"
  <2>1. CASE ~link
    BY <1>2, <2>1 DEF ModeInv, TurnedAlone
  <2>2. CASE link /\ F!Quiet
    BY <1>2, <2>2 DEF ModeInv, TurnedAlone, F!Quiet
  <2> QED
    BY <1>2, <2>1, <2>2
<1>6. ASSUME link, digital' = "no"
      PROVE  granted' = gate /\ granted' # F!None
  <2>1. F!Quiet
    BY <1>2, <1>6
  <2>2. digital = "no"
    BY <1>2, <1>6
  <2>3. shield = gate /\ shield \in RealModes /\ granted = F!None
    BY <1>6, <2>1, <2>2, AtRestKnown DEF F!Quiet
  <2>4. shield[1] # 0 /\ ~(shield[2] < 0) /\ shield \in Savable
    BY <2>3 DEF RealModes, Savable
  <2>5. granted' = shield
    BY <1>1, <1>6, <2>3, <2>4, Updating
  <2> QED
    BY <2>3, <2>4, <2>5, NoMode
<1>7. OwnMode'
  BY <1>1, <1>5, <1>6 DEF OwnMode
<1>8. TurnedAlone'
  BY <1>5 DEF TurnedAlone
<1> QED
  BY <1>4, <1>7, <1>8 DEF ModeInv
\* The transmission says nothing of the mode.
LEMMA TransmissionKeeps ==
  ASSUME ModeInv, F!Transmits \/ F!TransmitEnds
  PROVE  ModeInv'
<1>1. /\ UNCHANGED <<told, granted, ptt, link, locked, shield, toPhone, toRadio, gate, digital>>
      /\ shown' \in BOOLEAN /\ (~link => ~shown')
  BY DEF F!Transmits, F!TransmitEnds, F!wire, ModeInv, Parted
<1> QED
  BY <1>1 DEF ModeInv, ModeTypes, Parted, AskedFirst, Copied, Follows, OwnMode, EndsInOwn,
              FirstAnswer, F!Reports, TurnedAlone

\* A report is taken into the copy.
LEMMA HearingMode ==
  ASSUME ModeInv, F!Hear
  PROVE  ModeInv'
<1> DEFINE n == Len(toPhone)
           r == Head(toPhone)
<1>1. /\ toPhone # <<>> /\ toPhone' = Tail(toPhone)
      /\ shield' = IF r[1] = "MD" THEN <<r[2], shield[2]>> ELSE <<shield[1], r[2]>>
      /\ digital' = IF digital = "turned" /\ toPhone' = <<>> THEN "no" ELSE digital
      /\ UNCHANGED <<told, granted, ptt, shown, link, locked, toRadio, gate>>
  BY DEF F!Hear
<1>2. /\ toPhone \in Seq(ModeReports) /\ n \in Nat /\ n >= 1 /\ r = toPhone[1] /\ r \in ModeReports
      /\ toPhone' \in Seq(ModeReports) /\ Len(toPhone') = n - 1
      /\ \A i \in 1 .. n - 1 : toPhone'[i] = toPhone[i + 1]
      /\ link
  BY <1>1 DEF ModeInv, ModeTypes, Parted
<1>3. shield' \in Nat \X (Nat \cup {-1})
  BY <1>1, <1>2 DEF ModeReports, ModeInv, ModeTypes
<1>4. ModeTypes'
  BY <1>1, <1>2, <1>3 DEF ModeInv, ModeTypes
<1>5. Parted' /\ AskedFirst'
  BY <1>1, <1>2 DEF ModeInv, Parted, AskedFirst
<1>6. ASSUME Follows PROVE Follows'
  <2>1. CASE n = 1
    <3>1. Len(toPhone') = 0 /\ r = <<"DT", locked[2]>> /\ shield[1] = locked[1]
      BY <1>2, <1>6, <2>1 DEF Follows
    <3>2. shield' = <<locked[1], locked[2]>>
      BY <1>1, <3>1
    <3>3. locked = <<locked[1], locked[2]>>
      BY DEF ModeInv, ModeTypes, RealModes
    <3>4. shield' = locked'
      BY <1>1, <3>2, <3>3
    <3> QED
      BY <3>1, <3>4 DEF Follows
  <2>2. CASE n = 2
    <3>1. Len(toPhone') = 1 /\ r = <<"MD", locked[1]>> /\ toPhone'[1] = <<"DT", locked[2]>>
      BY <1>2, <1>6, <2>2 DEF Follows
    <3>2. shield' = <<locked[1], shield[2]>>
      BY <1>1, <3>1
    <3> QED
      BY <1>1, <3>1, <3>2 DEF Follows
  <2>3. CASE n > 2
    <3>1. /\ Len(toPhone') = n - 1 /\ Len(toPhone') # 0 /\ Len(toPhone') # 1
          /\ toPhone'[n - 2] = toPhone[n - 1] /\ toPhone'[n - 1] = toPhone[n]
      BY <1>2, <2>3
    <3> QED
      BY <1>1, <1>2, <1>6, <2>3, <3>1 DEF Follows
  <2> QED
    BY <1>2, <2>1, <2>2, <2>3
<1>7. Copied'
  BY <1>1, <1>6 DEF ModeInv, Copied
<1>8. ASSUME FirstAnswer PROVE FirstAnswer'
  <2>1. toRadio = <<>> /\ locked = gate
    BY <1>1, <1>8 DEF FirstAnswer
  <2>2. CASE toPhone = F!Reports(locked) /\ shield = F!None
    <3>1. r = <<"MD", locked[1]>> /\ toPhone' = <<<<"DT", locked[2]>>>>
      BY <1>1, <2>2 DEF F!Reports
    <3>2. shield' = <<locked[1], -1>>
      BY <1>1, <2>2, <3>1 DEF F!None
    <3> QED
      BY <1>1, <2>1, <3>1, <3>2 DEF FirstAnswer
  <2>3. CASE toPhone = <<<<"DT", locked[2]>>>> /\ shield = <<locked[1], -1>>
    <3>1. r = <<"DT", locked[2]>> /\ toPhone' = <<>>
      BY <1>1, <2>3
    <3>2. shield' = <<locked[1], locked[2]>>
      BY <1>1, <2>3, <3>1
    <3>3. locked = <<locked[1], locked[2]>>
      BY DEF ModeInv, ModeTypes, RealModes
    <3> QED
      BY <1>1, <2>1, <3>1, <3>2, <3>3 DEF FirstAnswer
  <2> QED
    BY <1>1, <1>8, <2>1, <2>2, <2>3 DEF FirstAnswer
<1>9. EndsInOwn' <=> EndsInOwn
  BY <1>1 DEF EndsInOwn
<1>10. OwnMode'
  <2>1. digital' \in {"no", "turned"} => digital \in {"no", "turned"}
    BY <1>1
  <2> QED
    BY <1>1, <1>8, <1>9, <2>1 DEF ModeInv, OwnMode
<1>11. TurnedAlone'
  BY <1>1 DEF ModeInv, TurnedAlone
<1> QED
  BY <1>4, <1>5, <1>7, <1>10, <1>11 DEF ModeInv

\* A connection: the query goes first.
LEMMA ConnectingMode ==
  ASSUME ModeInv, F!Connect
  PROVE  ModeInv'
<1>1. /\ ~link /\ link' = TRUE /\ toRadio' = <<F!None>> /\ gate' = locked' /\ digital' = "no"
      /\ locked' \in Modes \cup {locked}
      /\ UNCHANGED <<told, granted, ptt, shown, shield, toPhone>>
      /\ granted = F!None /\ shield = F!None /\ ~shown /\ toPhone = <<>>
  BY DEF F!Connect, ModeInv, Parted
<1>2. locked' \in RealModes
  BY <1>1, KnownModes DEF ModeInv, ModeTypes, RealModes
<1>3. <<F!None>> \in Seq(ModeCommands) /\ <<F!None>> # <<>>
      /\ \A i \in DOMAIN <<F!None>> : ~(i > 1)
  BY NoMode
<1>4. ModeTypes'
  BY <1>1, <1>2, <1>3 DEF ModeInv, ModeTypes
<1>5. Parted' /\ AskedFirst' /\ Copied' /\ TurnedAlone'
  BY <1>1, <1>3 DEF Parted, AskedFirst, Copied, TurnedAlone
<1>6. EndsInOwn' /\ FirstAnswer'
  BY <1>1 DEF EndsInOwn, FirstAnswer
<1> QED
  BY <1>1, <1>4, <1>5, <1>6 DEF ModeInv, OwnMode

\* The connection is lost, and with it what was under way.
LEMMA DisconnectingMode ==
  ASSUME ModeInv, F!Disconnect
  PROVE  ModeInv'
<1>1. /\ link' = FALSE /\ shown' = FALSE /\ granted' = F!None /\ ptt' = FALSE /\ shield' = F!None
      /\ toRadio' = <<>> /\ toPhone' = <<>> /\ UNCHANGED <<told, locked, gate>>
      /\ digital' = IF F!Quiet THEN digital ELSE "link"
  BY DEF F!Disconnect
<1>2. digital' # "turned"
  BY <1>1 DEF ModeInv, TurnedAlone, F!Quiet
<1>3. /\ F!None \in ModeCommands /\ F!None \in Nat \X (Nat \cup {-1})
      /\ toRadio' \in Seq(ModeCommands) /\ toPhone' \in Seq(ModeReports)
      /\ digital' \in {"no", "link", "panel", "reopen", "early", "turned"}
  BY <1>1 DEF ModeCommands, F!None, ModeInv, ModeTypes
<1>4. ModeTypes'
  BY <1>1, <1>3 DEF ModeInv, ModeTypes
<1>5. Parted' /\ AskedFirst' /\ Copied' /\ TurnedAlone' /\ OwnMode'
  BY <1>1, <1>2 DEF Parted, AskedFirst, Copied, TurnedAlone, OwnMode
<1> QED
  BY <1>4, <1>5 DEF ModeInv
\* What a report of the K4's mode, put under way, leaves of those before it.
LEMMA Reporting ==
  ASSUME ModeInv, locked' \in RealModes, toPhone' = toPhone \o F!Reports(locked')
  PROVE  toPhone' \in Seq(ModeReports) /\ Follows' /\ toPhone' # <<>>
<1> DEFINE m == <<"MD", locked'[1]>>
           d == <<"DT", locked'[2]>>
           n == Len(toPhone)
<1>1. m \in ModeReports /\ d \in ModeReports /\ F!Reports(locked') = <<m, d>>
  BY DEF RealModes, ModeReports, F!Reports
<1>2. <<m, d>> \in Seq(ModeReports) /\ Len(<<m, d>>) = 2 /\ <<m, d>>[1] = m /\ <<m, d>>[2] = d
  BY <1>1
<1> HIDE DEF m, d
<1>3. toPhone \in Seq(ModeReports) /\ n \in Nat
  BY DEF ModeInv, ModeTypes
<1>4. /\ toPhone' \in Seq(ModeReports) /\ Len(toPhone') = n + 2
      /\ toPhone'[n + 1] = m /\ toPhone'[n + 2] = d
  BY <1>1, <1>2, <1>3
<1>5. Follows'
  BY <1>3, <1>4 DEF Follows, m, d
<1> QED
  BY <1>3, <1>4, <1>5

\* The operator turns the mode at the K4.
LEMMA TurningMode ==
  ASSUME ModeInv, F!PanelTurns
  PROVE  ModeInv'
<1>1. /\ link /\ toPhone' = toPhone \o F!Reports(locked') /\ locked' \in Modes
      /\ gate' = IF told THEN gate ELSE locked'
      /\ digital' = IF told THEN IF granted = F!None THEN "panel" ELSE digital
                    ELSE IF F!Quiet \/ digital = "turned" THEN "turned" ELSE "panel"
      /\ UNCHANGED <<told, granted, ptt, shown, link, shield, toRadio>>
  BY DEF F!PanelTurns
<1>2. locked' \in RealModes
  BY <1>1, KnownModes DEF RealModes
<1>3. toPhone' \in Seq(ModeReports) /\ Follows' /\ toPhone' # <<>>
  BY <1>1, <1>2, Reporting
<1>4. digital' \in {"no", "link", "panel", "reopen", "early", "turned"}
  BY <1>1 DEF ModeInv, ModeTypes
<1>5. ModeTypes'
  BY <1>1, <1>2, <1>3, <1>4 DEF ModeInv, ModeTypes
<1>6. Parted' /\ AskedFirst' /\ Copied'
  BY <1>1, <1>3 DEF ModeInv, Parted, AskedFirst, Copied
<1>7. digital' = "turned" => ~told /\ granted = F!None /\ toRadio = <<>>
  BY <1>1 DEF ModeInv, TurnedAlone, F!Quiet
<1>8. TurnedAlone'
  BY <1>1, <1>3, <1>7 DEF TurnedAlone
<1>9. OwnMode'
  <2> SUFFICES ASSUME digital' \in {"no", "turned"}
               PROVE  /\ granted' # F!None => granted' = gate'
                      /\ granted' = F!None => EndsInOwn'
                      /\ told' /\ granted' = F!None => FirstAnswer'
    BY DEF OwnMode
  <2>1. CASE told
    BY <1>1, <2>1 DEF ModeInv, OwnMode
  <2>2. CASE ~told
    <3>1. granted = F!None /\ toRadio' = <<>> /\ gate' = locked'
      BY <1>1, <1>7, <2>2
    <3> QED
      BY <1>1, <2>2, <3>1 DEF EndsInOwn
  <2> QED
    BY <2>1, <2>2
<1> QED
  BY <1>5, <1>6, <1>8, <1>9 DEF ModeInv

\* The K4 takes a command, and reports.
LEMMA RadioTakesMode ==
  ASSUME ModeInv, F!RadioTakes
  PROVE  ModeInv'
<1> DEFINE n == Len(toRadio)
           c == Head(toRadio)
<1>1. /\ toRadio # <<>> /\ toRadio' = Tail(toRadio)
      /\ locked' = IF c = F!None THEN locked
                   ELSE <<c[1], IF c[2] < 0 THEN locked[2] ELSE c[2]>>
      /\ toPhone' = toPhone \o F!Reports(locked')
      /\ UNCHANGED <<told, granted, ptt, shown, link, shield, gate, digital>>
  BY DEF F!RadioTakes
<1>2. /\ n \in Nat /\ n >= 1 /\ c = toRadio[1] /\ c \in ModeCommands /\ toRadio' \in Seq(ModeCommands)
      /\ Len(toRadio') = n - 1 /\ \A i \in 1 .. n - 1 : toRadio'[i] = toRadio[i + 1]
      /\ DOMAIN toRadio' = 1 .. n - 1 /\ DOMAIN toRadio = 1 .. n /\ link
  BY <1>1 DEF ModeInv, ModeTypes, Parted
<1>3. locked' \in RealModes
  <2>1. CASE c = F!None
    BY <1>1, <2>1 DEF ModeInv, ModeTypes
  <2>2. CASE c # F!None
    <3>1. c \in Savable
      BY <1>2, <2>2 DEF ModeCommands
    <3>2. c[1] \in Nat \ {0} /\ c[2] \in Nat \cup {-1}
      BY <3>1 DEF Savable
    <3>3. locked[2] \in Nat
      BY DEF ModeInv, ModeTypes, RealModes
    <3> QED
      BY <1>1, <2>2, <3>2, <3>3 DEF RealModes
  <2> QED
    BY <2>1, <2>2
<1>4. toPhone' \in Seq(ModeReports) /\ Follows' /\ toPhone' # <<>>
  BY <1>1, <1>3, Reporting
<1>5. ModeTypes'
  BY <1>1, <1>2, <1>3, <1>4 DEF ModeInv, ModeTypes
<1>6. Parted' /\ Copied'
  BY <1>1, <1>2, <1>4 DEF Parted, Copied
<1>7. AskedFirst' /\ (\A i \in 1 .. n - 1 : toRadio'[i] # F!None)
  BY <1>2 DEF ModeInv, AskedFirst
<1>8. digital # "turned"
  BY <1>1 DEF ModeInv, TurnedAlone
<1>9. ASSUME EndsInOwn PROVE EndsInOwn'
  <2>1. CASE n = 1 /\ c = F!None
    <3>1. toRadio = <<F!None>> /\ toRadio' = <<>>
      BY <1>1, <1>2, <2>1
    <3> QED
      BY <1>1, <1>9, <2>1, <3>1 DEF EndsInOwn
  <2>2. CASE n = 1 /\ c # F!None
    <3>1. toRadio # <<F!None>> /\ toRadio' = <<>>
      BY <1>1, <1>2, <2>2
    <3>2. c = gate
      BY <1>1, <1>9, <2>2, <3>1 DEF EndsInOwn
    <3>3. c[2] \in Nat /\ c = <<c[1], c[2]>>
      BY <3>2 DEF ModeInv, ModeTypes, RealModes
    <3>4. locked' = c
      BY <1>1, <2>2, <3>3
    <3> QED
      BY <1>1, <3>1, <3>2, <3>4 DEF EndsInOwn
  <2>3. CASE n > 1
    <3>1. /\ toRadio # <<>> /\ toRadio # <<F!None>> /\ toRadio' # <<>>
      <4>1. Len(<<F!None>>) = 1 /\ Len(<<>>) = 0
        OBVIOUS
      <4> QED
        BY <1>2, <2>3, <4>1
    <3>2. toRadio' # <<F!None>>
      BY <1>2, <1>7, <2>3
    <3>3. toRadio'[n - 1] = toRadio[n]
      BY <1>2, <2>3
    <3> QED
      BY <1>1, <1>2, <1>9, <3>1, <3>2, <3>3 DEF EndsInOwn
  <2> QED
    BY <1>2, <2>1, <2>2, <2>3
<1>10. ASSUME FirstAnswer PROVE FirstAnswer'
  <2>1. locked = gate /\ toRadio = <<F!None>> /\ toPhone = <<>> /\ shield = F!None
    BY <1>1, <1>10 DEF FirstAnswer
  <2>2. toRadio' = <<>> /\ locked' = locked
    BY <1>1, <2>1
  <2>3. toPhone' = F!Reports(locked')
    BY <1>1, <2>1 DEF F!Reports
  <2> QED
    BY <1>1, <2>1, <2>2, <2>3 DEF FirstAnswer
<1>11. OwnMode' /\ TurnedAlone'
  BY <1>1, <1>8, <1>9, <1>10 DEF ModeInv, OwnMode, TurnedAlone
<1> QED
  BY <1>5, <1>6, <1>7, <1>11 DEF ModeInv

\* Every step of the part keeps the invariant.
LEMMA ModeKeeps ==
  ASSUME part = "mode", ModeInv, [AllNext]_all
  PROVE  ModeInv'
<1>1. \/ F!OpenFt8Screen \/ F!CloseFt8Screen \/ F!Tick \/ F!Transmits \/ F!TransmitEnds
      \/ F!Hear \/ F!Connect \/ F!Disconnect \/ F!RadioTakes \/ F!PanelTurns
      \/ UNCHANGED <<all, vars>>
  BY DEF AllNext, Ptt, Connection, Mode, Calibration, Loudspeaker, all
<1>2. CASE UNCHANGED <<all, vars>>
  <2>1. UNCHANGED <<told, granted, ptt, shown, link, locked, shield, toRadio, toPhone, gate, digital>>
    BY <1>2 DEF vars, session, control, engine, wire
  <2> QED
    BY <2>1 DEF ModeInv, ModeTypes, Parted, AskedFirst, Copied, Follows, OwnMode, EndsInOwn,
                FirstAnswer, F!Reports, TurnedAlone
<1> QED
  BY <1>1, <1>2, Opening, ClosingScreen, Ticking, TransmissionKeeps, HearingMode, ConnectingMode,
     DisconnectingMode, RadioTakesMode, TurningMode

\* It holds at first.
LEMMA ModeBegins ==
  ASSUME F!Init
  PROVE  ModeInv
<1>1. /\ told = FALSE /\ granted = F!None /\ ptt = FALSE /\ shown = FALSE /\ link = FALSE
      /\ locked \in Modes /\ shield = F!None /\ toRadio = <<>> /\ toPhone = <<>>
      /\ gate = locked /\ digital = "no"
  BY DEF F!Init
<1>2. locked \in RealModes
  BY <1>1, KnownModes DEF RealModes
<1>3. ModeTypes
  <2>1. F!None \in ModeCommands /\ F!None \in Nat \X (Nat \cup {-1})
    BY DEF ModeCommands, F!None
  <2>2. toRadio \in Seq(ModeCommands) /\ toPhone \in Seq(ModeReports)
    BY <1>1
  <2> QED
    BY <1>1, <1>2, <2>1, <2>2 DEF ModeTypes
<1> QED
  BY <1>1, <1>3 DEF ModeInv, Parted, AskedFirst, Copied, OwnMode, TurnedAlone

(***************************************************************************)
(* When FT8 is left the K4 goes back to the mode the operator chose, once  *)
(* nothing is under way and unless a decision was made on a stale copy.    *)
(***************************************************************************)
THEOREM GivesModeBack == AllSpec => []OwnModeReturns
<1> DEFINE I == part = "mode" => ModeInv
<1>1. AllInit => I
  BY ModeBegins DEF AllInit
<1>2. I /\ [AllNext]_all => I'
  <2>1. [AllNext]_all => part' = part
    BY DEF AllNext, all, Ptt, Connection, Mode, Calibration, Loudspeaker
  <2> QED
    BY <2>1, ModeKeeps
<1>3. I => OwnModeReturns
  <2> SUFFICES ASSUME ModeInv, link, ~told, F!Quiet, digital = "no" PROVE locked = gate
    BY DEF OwnModeReturns, F!ModeGivenBack
  <2> QED
    BY DEF ModeInv, OwnMode, EndsInOwn, F!Quiet
<1> QED
  BY <1>1, <1>2, <1>3, PTL DEF AllSpec

--------------------------------------------------------------------------------
(***************************************************************************)
(* A calibration keeps the tone in the K4's TEST mode and puts TEST back:  *)
(* proofs about DigitalCalibration as a part of MCPhone, which lends it    *)
(* the variables of voice PTT.  Here told is MainWindow's state, granted   *)
(* the generation that is prepared, ptt TcpClient, link the connection,    *)
(* toAudio the calls to TcpClient, toPhone the signals from it, shown the  *)
(* K4, toRadio the commands to it, locked its answers, shield TEST at      *)
(* first, gate the mix and budget the bounds.                              *)
(*                                                                         *)
(* The inductive invariant CalInv says where a generation is (OnePlace)    *)
(* and where the commands under way lead the K4 (Stages).                  *)
(***************************************************************************)
CatCommands == {"TS", "TS0", "TS1", "RX", "TX"}
CatAnswers == {"TS0", "TS1"}
Phases == {"None", "ReadTest", "EnableTest", "Running", "RestoreTest"}
CalCalls == [name : {"begin"}, gen : 1 .. Calibrations, verify : {FALSE}]
              \cup [name : {"cancel"}, gen : {0}, verify : {FALSE}]
CalSignals == [name : {"prepared", "preparationFailed", "finished"}, gen : 1 .. Calibrations,
               verify : BOOLEAN]

CalTypes ==
  /\ told \in [calibrating : BOOLEAN, started : BOOLEAN, gen : 0 .. Calibrations, verify : BOOLEAN]
  /\ granted \in 0 .. Calibrations /\ link \in BOOLEAN
  /\ ptt \in [phase : Phases, gen : 0 .. Calibrations, restore : BOOLEAN]
  /\ ptt.phase # "None" => link /\ ptt.gen # 0
  /\ toPhone \in Seq(CalSignals) /\ toAudio \in Seq(CalCalls)
  /\ shown \in [test : BOOLEAN, tx : BOOLEAN] /\ shield \in BOOLEAN /\ gate \in BOOLEAN
  /\ toRadio \in Seq(CatCommands) /\ locked \in Seq(CatAnswers)
  /\ budget \in [cancel : 0 .. Cancels, touch : 0 .. Touches]

\* Whoever asked for a calibration that has begun still waits for its end.
Working == told.calibrating /\ told.started

\* Classes of calls and signals, of the present generation and of others.
Begin == {c \in CalCalls : c.name = "begin"}
BeginOther(g) == {c \in Begin : c.gen # g}
Finish == {s \in CalSignals : s.name = "finished"}
FinishOther(g) == {s \in Finish : s.gen # g}
Prepared(g) == {s \in CalSignals : s.name # "finished" /\ s.gen = g}
Later(g) == {s \in CalSignals : s.name # "finished" /\ s.gen > g}

(* A generation is in one place at a time: prepared by the audio thread, its *)
(* answer under way, asked of TcpClient, worked on, or its end under way.    *)
BegunOnce ==
  /\ Once(toAudio, Begin) /\ ~Has(toAudio, BeginOther(told.gen))
  /\ Has(toAudio, Begin) => Working /\ ptt.phase = "None" /\ ~Has(toPhone, Finish)
EndedOnce ==
  /\ Once(toPhone, Finish) /\ ~Has(toPhone, FinishOther(told.gen))
  /\ Has(toPhone, Finish) => Working /\ ptt.phase = "None"
WorkedOn == ptt.phase # "None" => Working /\ ptt.gen = told.gen
PreparedOnce ==
  /\ Working => granted # told.gen /\ ~Has(toPhone, Prepared(told.gen))
  /\ Once(toPhone, Prepared(told.gen))
  /\ granted = told.gen => ~Has(toPhone, Prepared(told.gen))
  /\ ~Has(toPhone, Later(told.gen)) /\ granted <= told.gen
OnePlace == BegunOnce /\ EndedOnce /\ WorkedOn /\ PreparedOnce

-----------------------------------------------------------------------------
\* These are the module's types; a call to begin names a generation.
LEMMA CalTyped ==
  ASSUME CalTypes
  PROVE  C!TypeOK
<1> DEFINE A == [name : {"begin", "cancel"}, gen : 0 .. Calibrations, verify : {FALSE}]
<1>1. toAudio \in Seq(A)
  <2>1. ASSUME NEW c \in CalCalls PROVE c \in A
    <3>1. 0 \in 0 .. Calibrations /\ 1 .. Calibrations \subseteq 0 .. Calibrations
      BY CalibrationBounds
    <3>2. CASE c \in [name : {"begin"}, gen : 1 .. Calibrations, verify : {FALSE}]
      BY <3>1, <3>2
    <3>3. CASE c \in [name : {"cancel"}, gen : {0}, verify : {FALSE}]
      BY <3>1, <3>3
    <3> QED
      BY <3>2, <3>3 DEF CalCalls
  <2>2. Len(toAudio) \in Nat /\ \A i \in 1 .. Len(toAudio) : toAudio[i] \in CalCalls
    BY DEF CalTypes
  <2>3. toAudio = [i \in 1 .. Len(toAudio) |-> toAudio[i]]
    BY DEF CalTypes
  <2> HIDE DEF A
  <2>4. [i \in 1 .. Len(toAudio) |-> toAudio[i]] \in Seq(A)
    BY <2>1, <2>2
  <2> QED
    BY <2>3, <2>4
<1> QED
  BY <1>1 DEF CalTypes, C!TypeOK, Phases, CalSignals, CatCommands, CatAnswers

\* What CalTypes says now, whatever becomes of it.
LEMMA CalKnown ==
  ASSUME CalTypes
  PROVE
  /\ told \in [calibrating : BOOLEAN, started : BOOLEAN, gen : 0 .. Calibrations, verify : BOOLEAN]
  /\ granted \in 0 .. Calibrations /\ link \in BOOLEAN
  /\ ptt \in [phase : Phases, gen : 0 .. Calibrations, restore : BOOLEAN]
  /\ ptt.phase # "None" => link /\ ptt.gen # 0
  /\ toPhone \in Seq(CalSignals) /\ toAudio \in Seq(CalCalls)
  /\ shown \in [test : BOOLEAN, tx : BOOLEAN] /\ shield \in BOOLEAN /\ gate \in BOOLEAN
  /\ toRadio \in Seq(CatCommands) /\ locked \in Seq(CatAnswers)
  /\ budget \in [cancel : 0 .. Cancels, touch : 0 .. Touches]
BY DEF CalTypes

\* How TcpClient's work on a generation goes on: as it was, one phase on, or to its end.
GoesOn ==
  \/ UNCHANGED <<ptt, toPhone>>
  \/ ptt.phase # "None" /\ ptt'.phase # "None" /\ ptt'.gen = ptt.gen /\ toPhone' = toPhone
  \/ /\ ptt.phase # "None" /\ ptt'.phase = "None"
     /\ \E v \in BOOLEAN : toPhone' = Append(toPhone, C!Finished(ptt.gen, v))
IoOnly ==
  /\ UNCHANGED <<told, granted>> /\ GoesOn
  /\ \/ toAudio' = toAudio
     \/ toAudio # <<>> /\ Head(toAudio).name = "cancel" /\ toAudio' = Tail(toAudio)
IoTyped ==
  /\ ptt' \in [phase : Phases, gen : 0 .. Calibrations, restore : BOOLEAN]
  /\ ptt'.phase # "None" => ptt.phase # "None" /\ ptt'.gen = ptt.gen
  /\ toPhone' \in Seq(CalSignals) /\ GoesOn

\* A calibration is complete: its end is signalled.
LEMMA Completing ==
  ASSUME CalTypes, ptt.phase # "None", NEW v \in BOOLEAN, C!Complete(v)
  PROVE  /\ IoTyped /\ ptt' = [ptt EXCEPT !.phase = "None"]
         /\ C!Finished(ptt.gen, v) \in CalSignals
         /\ toPhone' = Append(toPhone, C!Finished(ptt.gen, v))
<1>1. ptt' = [ptt EXCEPT !.phase = "None"] /\ toPhone' = Append(toPhone, C!Finished(ptt.gen, v))
  BY DEF C!Complete
<1>2. C!Finished(ptt.gen, v) \in CalSignals
  <2>1. ptt.gen \in 1 .. Calibrations
    BY CalKnown
  <2> QED
    BY <2>1 DEF C!Finished, CalSignals
<1>3. ptt' \in [phase : Phases, gen : 0 .. Calibrations, restore : BOOLEAN] /\ ptt'.phase = "None"
  BY <1>1, CalKnown DEF Phases
<1>4. toPhone' \in Seq(CalSignals)
  BY <1>1, <1>2, CalKnown
<1> QED
  BY <1>1, <1>2, <1>3, <1>4 DEF IoTyped, GoesOn

\* Commands go out one after the other.
LEMMA OneSent ==
  ASSUME NEW S, NEW q \in Seq(S), NEW a \in S
  PROVE  q \o <<a>> = Append(q, a) /\ Append(q, a) \in Seq(S)
OBVIOUS

\* ... also when two are sent together.
LEMMA TwoSent ==
  ASSUME NEW S, NEW q \in Seq(S), NEW a \in S, NEW b \in S
  PROVE  q \o <<a, b>> = Append(Append(q, a), b) /\ Append(Append(q, a), b) \in Seq(S)
OBVIOUS

\* What winding up sends.
LEMMA ClosingIs ==
  ASSUME NEW q \in Seq(CatCommands)
  PROVE  LET rx == Append(q, "RX")
         IN  /\ rx \in Seq(CatCommands) /\ Append(rx, "TS0") \in Seq(CatCommands)
             /\ q \o C!Closing \in Seq(CatCommands)
             /\ q \o C!Closing = IF ptt.restore THEN Append(Append(rx, "TS0"), "TS") ELSE rx
<1> DEFINE rx == Append(q, "RX")
<1>1. {"RX", "TS0", "TS"} \subseteq CatCommands
  BY DEF CatCommands
<1>2. rx \in Seq(CatCommands) /\ q \o <<"RX">> = rx
  BY <1>1, OneSent
<1>3. CASE ptt.restore
  <2>1. C!Closing = <<"RX">> \o <<"TS0", "TS">>
    BY <1>3 DEF C!Closing
  <2>2. <<"RX">> \in Seq(CatCommands) /\ <<"TS0", "TS">> \in Seq(CatCommands)
    BY <1>1
  <2>3. q \o C!Closing = rx \o <<"TS0", "TS">>
    BY <1>2, <2>1, <2>2, ConcatAssociative
  <2> HIDE DEF rx
  <2>4. Append(rx, "TS0") \in Seq(CatCommands) /\ Append(Append(rx, "TS0"), "TS") \in Seq(CatCommands)
    BY <1>1, <1>2
  <2>5. rx \o <<"TS0", "TS">> = Append(Append(rx, "TS0"), "TS")
    BY <1>1, <1>2, TwoSent
  <2> QED
    BY <1>2, <1>3, <2>3, <2>4, <2>5 DEF rx
<1>4. CASE ~ptt.restore
  <2>1. C!Closing = <<"RX">> \o <<>>
    BY <1>4 DEF C!Closing
  <2>2. C!Closing = <<"RX">>
    BY <2>1
  <2>3. Append(rx, "TS0") \in Seq(CatCommands)
    BY <1>1, <1>2
  <2> QED
    BY <1>2, <1>4, <2>2, <2>3
<1> QED
  BY <1>3, <1>4

\* A calibration is wound up: RX, and TEST put back if it was switched on.
LEMMA Finishing ==
  ASSUME CalTypes, ptt.phase # "None", C!FinishDigitalCalibration
  PROVE  /\ IoTyped
         /\ toRadio' = toRadio \o C!Closing /\ toRadio' \in Seq(CatCommands)
         /\ ptt.restore => ptt' = [ptt EXCEPT !.phase = "RestoreTest"] /\ toPhone' = toPhone
         /\ ~ptt.restore => /\ ptt' = [ptt EXCEPT !.phase = "None"]
                            /\ toPhone' = Append(toPhone, C!Finished(ptt.gen, FALSE))
<1>1. toRadio' = toRadio \o C!Closing
  BY DEF C!FinishDigitalCalibration
<1>2. toRadio' \in Seq(CatCommands)
  BY <1>1, CalKnown, ClosingIs
<1>3. CASE ptt.restore
  <2>1. ptt' = [ptt EXCEPT !.phase = "RestoreTest"] /\ toPhone' = toPhone
    BY <1>3 DEF C!FinishDigitalCalibration
  <2>2. /\ ptt' \in [phase : Phases, gen : 0 .. Calibrations, restore : BOOLEAN]
        /\ ptt'.phase = "RestoreTest" /\ ptt'.gen = ptt.gen
    BY <2>1, CalKnown DEF Phases
  <2>3. IoTyped
    BY <2>1, <2>2, CalKnown DEF IoTyped, GoesOn
  <2> QED
    BY <1>1, <1>2, <1>3, <2>1, <2>3
<1>4. CASE ~ptt.restore
  <2>1. C!Complete(FALSE)
    BY <1>4 DEF C!FinishDigitalCalibration
  <2> QED
    BY <1>1, <1>2, <1>4, <2>1, Completing
<1> QED
  BY <1>3, <1>4, CalKnown

\* TcpClient's steps, but for the beginning of a calibration.
LEMMA IoWorks ==
  ASSUME CalTypes,
         \/ C!IoCancels \/ C!OnCatResponse \/ C!GuardEnds \/ C!DeadlinePasses
         \/ C!Disconnected \/ C!K4Obeys \/ C!Touched
  PROVE  IoOnly /\ CalTypes'
<1> DEFINE Taken == toAudio # <<>> /\ Head(toAudio).name = "cancel" /\ toAudio' = Tail(toAudio)
<1>1. ASSUME UNCHANGED <<told, granted, shield>>, IoTyped, toAudio' = toAudio \/ Taken,
             link' = link \/ (link' \in BOOLEAN /\ ptt'.phase = "None"),
             shown' \in [test : BOOLEAN, tx : BOOLEAN], gate' = gate,
             toRadio' \in Seq(CatCommands), locked' \in Seq(CatAnswers),
             budget' \in [cancel : 0 .. Cancels, touch : 0 .. Touches]
      PROVE  IoOnly /\ CalTypes'
  <2>1. IoOnly
    BY <1>1 DEF IoOnly, IoTyped, GoesOn
  <2>2. toAudio' \in Seq(CalCalls)
    <3>1. CASE toAudio' = toAudio
      BY <3>1, CalKnown
    <3>2. CASE Taken
      BY <3>2, CalKnown
    <3> QED
      BY <1>1, <3>1, <3>2
  <2>3. ptt'.phase # "None" => link' /\ ptt'.gen # 0
    <3>1. ptt'.phase # "None" => ptt.phase # "None" /\ ptt'.gen = ptt.gen /\ link' = link
      BY <1>1 DEF IoTyped, GoesOn
    <3> QED
      BY <3>1, CalKnown
  <2>4. CalTypes'
    BY <1>1, <2>2, <2>3, CalKnown DEF IoTyped, GoesOn, CalTypes
  <2> QED
    BY <2>1, <2>4
<1>2. C!IoRest => /\ UNCHANGED <<told, granted, link, shield>> /\ budget' = budget
  BY DEF C!IoRest
<1>3. IoTyped \/ ~UNCHANGED <<ptt, toPhone>>
  BY CalKnown DEF IoTyped, GoesOn
<1>4. CASE C!IoCancels
  <2>1. /\ Taken /\ UNCHANGED <<told, granted, link, shield>> /\ budget' = budget
        /\ UNCHANGED <<shown, locked, gate>>
    BY <1>2, <1>4 DEF C!IoCancels, C!IoTakes
  <2>2. CASE UNCHANGED <<ptt, toRadio, toPhone>>
    BY <1>1, <1>3, <2>1, <2>2, CalKnown
  <2>3. CASE ptt.phase # "None" /\ C!FinishDigitalCalibration
    <3>1. IoTyped /\ toRadio' \in Seq(CatCommands)
      BY <2>3, Finishing
    <3> QED
      BY <1>1, <2>1, <3>1, CalKnown
  <2> QED
    BY <1>4, <2>2, <2>3 DEF C!IoCancels
<1>5. CASE C!OnCatResponse
  <2>1. /\ UNCHANGED <<told, granted, link, shield, toAudio, shown, gate>> /\ budget' = budget
        /\ locked' = Tail(locked) /\ locked # <<>>
    BY <1>2, <1>5 DEF C!OnCatResponse
  <2>2. locked' \in Seq(CatAnswers)
    BY <2>1, CalKnown
  <2>3. CASE UNCHANGED <<ptt, toRadio, toPhone>>
    BY <1>1, <1>3, <2>1, <2>2, <2>3, CalKnown
  <2>4. CASE ptt.phase # "None" /\ C!FinishDigitalCalibration
    <3>1. IoTyped /\ toRadio' \in Seq(CatCommands)
      BY <2>4, Finishing
    <3> QED
      BY <1>1, <2>1, <2>2, <3>1, CalKnown
  <2>5. CASE ptt.phase # "None" /\ C!Complete(FALSE) /\ UNCHANGED toRadio
    <3>1. IoTyped
      BY <2>5, Completing
    <3> QED
      BY <1>1, <2>1, <2>2, <2>5, <3>1, CalKnown
  <2>6. CASE ptt.phase = "ReadTest" /\ ptt' = C!Read(Head(locked)) /\ UNCHANGED toPhone
             /\ toRadio' = toRadio \o <<"TS1", "TS">>
    <3>1. /\ ptt' \in [phase : Phases, gen : 0 .. Calibrations, restore : BOOLEAN]
          /\ ptt'.phase = "EnableTest" /\ ptt'.gen = ptt.gen
      BY <2>6, CalKnown DEF C!Read, Phases
    <3>2. IoTyped
      BY <2>6, <3>1, CalKnown DEF IoTyped, GoesOn
    <3>3. toRadio' \in Seq(CatCommands)
      BY <2>6, TwoSent, CalKnown DEF CatCommands
    <3> QED
      BY <1>1, <2>1, <2>2, <3>2, <3>3, CalKnown
  <2>7. CASE ptt.phase = "EnableTest" /\ ptt' = [ptt EXCEPT !.phase = "Running"]
             /\ toRadio' = Append(toRadio, "TX") /\ UNCHANGED toPhone
    <3>1. /\ ptt' \in [phase : Phases, gen : 0 .. Calibrations, restore : BOOLEAN]
          /\ ptt'.phase = "Running" /\ ptt'.gen = ptt.gen
      BY <2>7, CalKnown DEF Phases
    <3>2. IoTyped
      BY <2>7, <3>1, CalKnown DEF IoTyped, GoesOn
    <3>3. toRadio' \in Seq(CatCommands)
      BY <2>7, OneSent, CalKnown DEF CatCommands
    <3> QED
      BY <1>1, <2>1, <2>2, <3>2, <3>3, CalKnown
  <2> QED
    BY <1>5, <2>3, <2>4, <2>5, <2>6, <2>7 DEF C!OnCatResponse, C!MayKey
<1>6. CASE C!GuardEnds
  <2>1. /\ UNCHANGED <<told, granted, link, shield, toAudio, shown, gate, locked>> /\ budget' = budget
        /\ ptt.phase # "None" /\ C!FinishDigitalCalibration
    BY <1>2, <1>6 DEF C!GuardEnds
  <2>2. IoTyped /\ toRadio' \in Seq(CatCommands)
    BY <2>1, Finishing
  <2> QED
    BY <1>1, <2>1, <2>2, CalKnown
<1>7. CASE C!DeadlinePasses
  <2>1. /\ UNCHANGED <<told, granted, link, shield, toAudio, shown, gate, locked>> /\ budget' = budget
        /\ ptt.phase # "None"
    BY <1>2, <1>7 DEF C!DeadlinePasses
  <2>2. CASE C!FinishDigitalCalibration
    <3>1. IoTyped /\ toRadio' \in Seq(CatCommands)
      BY <2>1, <2>2, Finishing
    <3> QED
      BY <1>1, <2>1, <3>1, CalKnown
  <2>3. CASE C!Complete(TRUE) /\ UNCHANGED toRadio
    <3>1. IoTyped
      BY <2>1, <2>3, Completing
    <3> QED
      BY <1>1, <2>1, <2>3, <3>1, CalKnown
  <2> QED
    BY <1>7, <2>2, <2>3 DEF C!DeadlinePasses
<1>8. CASE C!Disconnected
  <2>1. /\ UNCHANGED <<told, granted, toAudio, shield, gate>> /\ budget' = budget
        /\ link' = FALSE /\ toRadio' = <<>> /\ locked' = <<>> /\ shown' = [shown EXCEPT !.tx = FALSE]
    BY <1>8 DEF C!Disconnected, C!history
  <2>2. shown' \in [test : BOOLEAN, tx : BOOLEAN]
    BY <2>1, CalKnown
  <2>4. toRadio' \in Seq(CatCommands) /\ locked' \in Seq(CatAnswers)
    BY <2>1
  <2>3. IoTyped /\ ptt'.phase = "None"
    <3>1. CASE ptt.phase = "None" /\ UNCHANGED <<ptt, toPhone>>
      BY <1>3, <3>1
    <3>2. CASE ptt.phase # "None" /\ C!Complete(TRUE)
      <4>1. IoTyped /\ ptt' = [ptt EXCEPT !.phase = "None"]
        BY <3>2, Completing
      <4> QED
        BY <4>1, CalKnown
    <3> QED
      BY <1>8, <3>1, <3>2 DEF C!Disconnected
  <2> QED
    BY <1>1, <2>1, <2>2, <2>3, <2>4, CalKnown
<1>9. CASE C!K4Obeys
  <2>1. UNCHANGED <<told, granted, ptt, link, toAudio, toPhone, shield, gate>> /\ budget' = budget
    BY <1>9 DEF C!K4Obeys, C!history
  <2>2. toRadio # <<>> /\ toRadio' = Tail(toRadio) /\ Head(toRadio) \in CatCommands
    BY <1>9, CalKnown DEF C!K4Obeys
  <2>3. toRadio' \in Seq(CatCommands)
    BY <2>2, CalKnown
  <2>4. shown' \in [test : BOOLEAN, tx : BOOLEAN] /\ locked' \in Seq(CatAnswers)
    <3>1. CASE Head(toRadio) = "TS"
      <4>1. UNCHANGED shown /\ locked' = Append(locked, IF shown.test THEN "TS1" ELSE "TS0")
        BY <1>9, <3>1 DEF C!K4Obeys
      <4> QED
        BY <4>1, OneSent, CalKnown DEF CatAnswers
    <3>2. CASE Head(toRadio) \in {"TS0", "TS1"}
      <4>1. UNCHANGED locked /\ shown' = [shown EXCEPT !.test = (Head(toRadio) = "TS1")]
        BY <1>9, <3>2 DEF C!K4Obeys
      <4> QED
        BY <4>1, CalKnown
    <3>3. CASE Head(toRadio) \in {"RX", "TX"}
      <4>1. UNCHANGED locked /\ shown' = [shown EXCEPT !.tx = (Head(toRadio) = "TX")]
        BY <1>9, <3>3 DEF C!K4Obeys
      <4> QED
        BY <4>1, CalKnown
    <3> QED
      BY <2>2, <3>1, <3>2, <3>3 DEF CatCommands
  <2> QED
    BY <1>1, <1>3, <2>1, <2>3, <2>4, CalKnown
<1>10. CASE C!Touched
  <2>1. /\ UNCHANGED <<told, granted, ptt, link, toAudio, toPhone, shield, gate, toRadio>>
        /\ shown' = [shown EXCEPT !.test = ~@]
        /\ locked' = Append(locked, IF shown'.test THEN "TS1" ELSE "TS0")
        /\ budget' = [budget EXCEPT !["touch"] = @ - 1] /\ budget["touch"] > 0
    BY <1>10 DEF C!Touched, C!Spends
  <2>2. shown' \in [test : BOOLEAN, tx : BOOLEAN]
    BY <2>1, CalKnown
  <2>3. locked' \in Seq(CatAnswers)
    BY <2>1, OneSent, CalKnown DEF CatAnswers
  <2>4. budget' \in [cancel : 0 .. Cancels, touch : 0 .. Touches]
    <3>1. budget.touch - 1 \in 0 .. Touches
      BY <2>1, CalKnown, CalibrationBounds
    <3> QED
      BY <2>1, <3>1, CalKnown
  <2> QED
    BY <1>1, <1>3, <2>1, <2>2, <2>3, <2>4, CalKnown
<1> QED
  BY <1>4, <1>5, <1>6, <1>7, <1>8, <1>9, <1>10

\* TcpClient's work moves a generation on, or to its end.
LEMMA IoInPlace ==
  ASSUME CalTypes, OnePlace, IoOnly
  PROVE  OnePlace'
<1> DEFINE g == told.gen
<1>0. /\ toAudio \in Seq(CalCalls) /\ toPhone \in Seq(CalSignals)
      /\ told' = told /\ granted' = granted
  BY CalKnown DEF IoOnly
<1>1. /\ Once(toAudio', Begin) /\ ~Has(toAudio', BeginOther(g))
      /\ Has(toAudio', Begin) => Has(toAudio, Begin)
  <2>1. CASE toAudio' = toAudio
    BY <2>1 DEF OnePlace, BegunOnce
  <2>2. CASE toAudio # <<>> /\ toAudio' = Tail(toAudio)
    <3>1. /\ Has(toAudio', Begin) => Has(toAudio, Begin)
          /\ Has(toAudio', BeginOther(g)) => Has(toAudio, BeginOther(g))
      BY <1>0, <2>2, HasTake
    <3>2. Once(toAudio', Begin)
      BY <1>0, <2>2, OnceTake DEF OnePlace, BegunOnce
    <3> QED
      BY <3>1, <3>2 DEF OnePlace, BegunOnce
  <2> QED
    BY <2>1, <2>2 DEF IoOnly
<1>2. CASE UNCHANGED <<ptt, toPhone>>
  BY <1>0, <1>1, <1>2 DEF OnePlace, BegunOnce, EndedOnce, WorkedOn, PreparedOnce, Working
<1>3. CASE ptt.phase # "None" /\ ptt'.phase # "None" /\ ptt'.gen = ptt.gen /\ toPhone' = toPhone
  BY <1>0, <1>1, <1>3 DEF OnePlace, BegunOnce, EndedOnce, WorkedOn, PreparedOnce, Working
<1>4. CASE /\ ptt.phase # "None" /\ ptt'.phase = "None"
           /\ \E v \in BOOLEAN : toPhone' = Append(toPhone, C!Finished(ptt.gen, v))
  <2>1. PICK v \in BOOLEAN : toPhone' = Append(toPhone, C!Finished(ptt.gen, v))
    BY <1>4
  <2> DEFINE m == C!Finished(ptt.gen, v)
  <2>2. Working /\ ptt.gen = g /\ ptt.gen \in 1 .. Calibrations
    BY <1>4, CalKnown DEF OnePlace, WorkedOn
  <2>3. m \in CalSignals /\ m.name = "finished" /\ m.gen = g
    BY <2>2 DEF C!Finished, CalSignals
  <2> HIDE DEF m
  <2>4. /\ m \in Finish /\ m \notin FinishOther(g) /\ m \notin Prepared(g) /\ m \notin Later(g)
    BY <2>3 DEF Finish, FinishOther, Prepared, Later
  <2>5. ~Has(toPhone, Finish) /\ ~Has(toAudio, Begin)
    BY <1>4 DEF OnePlace, BegunOnce, EndedOnce
  <2>6. toPhone' = Append(toPhone, m)
    BY <2>1 DEF m
  <2>7. /\ ~Has(toPhone', FinishOther(g)) /\ ~Has(toPhone', Prepared(g)) /\ ~Has(toPhone', Later(g))
    BY <1>0, <2>2, <2>3, <2>4, <2>6, HasPost DEF OnePlace, EndedOnce, PreparedOnce
  <2>8. Once(toPhone', Finish) /\ Once(toPhone', Prepared(g))
    BY <1>0, <2>3, <2>4, <2>5, <2>6, OncePost DEF OnePlace, EndedOnce, PreparedOnce
  <2>9. BegunOnce' /\ EndedOnce'
    BY <1>0, <1>1, <1>4, <2>2, <2>5, <2>7, <2>8 DEF BegunOnce, EndedOnce, Working
  <2>10. WorkedOn' /\ PreparedOnce'
    BY <1>0, <1>4, <2>2, <2>7, <2>8 DEF OnePlace, WorkedOn, PreparedOnce, Working
  <2> QED
    BY <2>9, <2>10 DEF OnePlace
<1> QED
  BY <1>2, <1>3, <1>4 DEF IoOnly, GoesOn

\* TcpClient begins the generation, or ends it at once.
LEMMA BeginInPlace ==
  ASSUME CalTypes, OnePlace, C!BeginDigitalCalibration
  PROVE  CalTypes' /\ OnePlace'
<1> DEFINE g == told.gen
           h == Head(toAudio)
<1>0. /\ toAudio \in Seq(CalCalls) /\ toPhone \in Seq(CalSignals) /\ toAudio # <<>>
      /\ UNCHANGED <<told, granted, link, shield, shown, locked, budget>>
      /\ toAudio' = Tail(toAudio) /\ h.name = "begin" /\ h \in CalCalls
  BY CalKnown DEF C!BeginDigitalCalibration, C!IoTakes, C!IoRest
<1>1. h \in Begin /\ h.gen \in 1 .. Calibrations
  BY <1>0 DEF Begin, CalCalls
<1>2. h.gen = g
  <2>1. h \notin BeginOther(g)
    BY <1>0, HasTake DEF OnePlace, BegunOnce
  <2> QED
    BY <1>1, <2>1 DEF BeginOther
<1>3. Working /\ ptt.phase = "None" /\ ~Has(toPhone, Finish)
  BY <1>0, <1>1, HasTake DEF OnePlace, BegunOnce
<1>4. /\ toAudio' \in Seq(CalCalls) /\ ~Has(toAudio', Begin) /\ Once(toAudio', Begin)
      /\ ~Has(toAudio', BeginOther(g))
  <2>1. Once(toAudio', Begin) /\ ~Has(toAudio', Begin)
    BY <1>0, <1>1, OnceTake DEF OnePlace, BegunOnce
  <2>2. ~Has(toAudio', BeginOther(g))
    BY <1>0, HasTake DEF OnePlace, BegunOnce
  <2> QED
    BY <1>0, <2>1, <2>2
<1> HIDE DEF h
<1>5. CASE link
  <2>1. /\ ptt' = [phase |-> "ReadTest", gen |-> h.gen, restore |-> FALSE]
        /\ toRadio' = Append(toRadio, "TS") /\ toPhone' = toPhone
        /\ gate' = (gate \/ toRadio # <<>> \/ locked # <<>>)
    BY <1>3, <1>5 DEF C!BeginDigitalCalibration, h
  <2>2. toRadio' \in Seq(CatCommands)
    BY <2>1, OneSent, CalKnown DEF CatCommands
  <2>3. /\ ptt' \in [phase : Phases, gen : 0 .. Calibrations, restore : BOOLEAN]
        /\ ptt'.gen = g /\ ptt'.phase = "ReadTest" /\ ptt'.gen # 0
    BY <1>1, <1>2, <2>1 DEF Phases
  <2>4. CalTypes'
    BY <1>0, <1>4, <1>5, <2>1, <2>2, <2>3, CalKnown DEF CalTypes
  <2>5. BegunOnce' /\ EndedOnce'
    BY <1>0, <1>3, <1>4, <2>1 DEF OnePlace, BegunOnce, EndedOnce, Working
  <2>6. WorkedOn' /\ PreparedOnce'
    BY <1>0, <1>3, <2>1, <2>3 DEF OnePlace, WorkedOn, PreparedOnce, Working
  <2> QED
    BY <2>4, <2>5, <2>6 DEF OnePlace
<1>6. CASE ~link
  <2> DEFINE m == C!Finished(h.gen, FALSE)
  <2>1. toPhone' = Append(toPhone, m) /\ UNCHANGED <<ptt, toRadio, gate>>
    BY <1>6 DEF C!BeginDigitalCalibration, h
  <2>2. m \in CalSignals /\ m.name = "finished" /\ m.gen = g
    BY <1>1, <1>2 DEF C!Finished, CalSignals
  <2> HIDE DEF m
  <2>3. /\ m \in Finish /\ m \notin FinishOther(g) /\ m \notin Prepared(g) /\ m \notin Later(g)
    BY <2>2 DEF Finish, FinishOther, Prepared, Later
  <2>4. /\ ~Has(toPhone', FinishOther(g)) /\ ~Has(toPhone', Prepared(g)) /\ ~Has(toPhone', Later(g))
    BY <1>0, <1>3, <2>1, <2>2, <2>3, HasPost DEF OnePlace, EndedOnce, PreparedOnce
  <2>5. Once(toPhone', Finish) /\ Once(toPhone', Prepared(g))
    BY <1>0, <1>3, <2>1, <2>2, <2>3, OncePost DEF OnePlace, EndedOnce, PreparedOnce
  <2>6. toPhone' \in Seq(CalSignals)
    BY <1>0, <2>1, <2>2
  <2>7. CalTypes'
    BY <1>0, <1>4, <2>1, <2>6, CalKnown DEF CalTypes
  <2>8. BegunOnce' /\ EndedOnce'
    BY <1>0, <1>3, <1>4, <2>1, <2>4, <2>5 DEF BegunOnce, EndedOnce, Working
  <2>9. WorkedOn' /\ PreparedOnce'
    BY <1>0, <1>3, <2>1, <2>4, <2>5 DEF OnePlace, WorkedOn, PreparedOnce, Working
  <2> QED
    BY <2>7, <2>8, <2>9 DEF OnePlace
<1> QED
  BY <1>5, <1>6, CalKnown

\* The operator starts a calibration, of a generation that is nowhere yet.
LEMMA StartInPlace ==
  ASSUME CalTypes, OnePlace, C!StartDigitalCalibration
  PROVE  CalTypes' /\ OnePlace'
<1> DEFINE g == told.gen
<1>0. /\ told' = [told EXCEPT !.calibrating = TRUE, !.started = FALSE, !.gen = @ + 1]
      /\ granted' = told'.gen /\ ~told.calibrating /\ told.gen < Calibrations
      /\ UNCHANGED <<ptt, link, toAudio, toPhone, shown, toRadio, locked, shield, gate, budget>>
  BY DEF C!StartDigitalCalibration, C!link, C!history
<1>1. /\ told'.gen = g + 1 /\ g \in Nat /\ g + 1 \in 0 .. Calibrations
      /\ told'.calibrating /\ ~told'.started
      /\ told' \in [calibrating : BOOLEAN, started : BOOLEAN, gen : 0 .. Calibrations,
                    verify : BOOLEAN]
  <2>1. g \in 0 .. Calibrations /\ g + 1 \in 0 .. Calibrations
    BY <1>0, CalKnown, CalibrationBounds
  <2>2. told' = [told EXCEPT !.calibrating = TRUE, !.started = FALSE, !.gen = g + 1]
    BY <1>0, CalKnown
  <2>3. g \in Nat
    BY <2>1, CalibrationBounds
  <2> HIDE DEF g
  <2>4. told' \in [calibrating : BOOLEAN, started : BOOLEAN, gen : 0 .. Calibrations,
                   verify : BOOLEAN]
    BY <2>1, <2>2, CalKnown
  <2>5. told'.gen = g + 1 /\ told'.calibrating /\ ~told'.started
    BY <2>2, CalKnown
  <2> QED
    BY <2>1, <2>3, <2>4, <2>5
<1>2. CalTypes'
  BY <1>0, <1>1, CalKnown DEF CalTypes
<1>3. ~Working /\ ~Has(toAudio, Begin) /\ ~Has(toPhone, Finish) /\ ptt.phase = "None"
  BY <1>0 DEF Working, OnePlace, BegunOnce, EndedOnce, WorkedOn
<1>4. ~Has(toAudio, BeginOther(g + 1)) /\ ~Has(toPhone, FinishOther(g + 1))
  BY <1>3 DEF Has, BeginOther, FinishOther
<1>5. ~Has(toPhone, Prepared(g + 1)) /\ ~Has(toPhone, Later(g + 1))
  <2>1. Prepared(g + 1) \subseteq Later(g) /\ Later(g + 1) \subseteq Later(g)
    BY <1>1, CalibrationBounds DEF Prepared, Later, CalSignals
  <2> QED
    BY <2>1, HasMore DEF OnePlace, PreparedOnce
<1>6. Once(toPhone, Prepared(g + 1))
  BY <1>5 DEF Once, Has
<1>7. BegunOnce' /\ EndedOnce'
  BY <1>0, <1>1, <1>3, <1>4 DEF OnePlace, BegunOnce, EndedOnce
<1>8. WorkedOn' /\ PreparedOnce'
  BY <1>0, <1>1, <1>3, <1>5, <1>6 DEF WorkedOn, PreparedOnce, Working
<1> QED
  BY <1>2, <1>7, <1>8 DEF OnePlace

\* The audio thread answers for the generation it was asked to prepare.
LEMMA PreparesInPlace ==
  ASSUME CalTypes, OnePlace, C!AudioPrepares
  PROVE  CalTypes' /\ OnePlace'
<1> DEFINE g == told.gen
<1>0. /\ granted # 0 /\ granted' = 0
      /\ UNCHANGED <<told, ptt, link, toAudio, shown, toRadio, locked, shield, gate, budget>>
  BY DEF C!AudioPrepares, C!link, C!history
<1>1. PICK name \in {"prepared", "preparationFailed"} : toPhone' = Append(toPhone, C!Call(name, granted))
  BY DEF C!AudioPrepares
<1> DEFINE m == C!Call(name, granted)
<1>2. m \in CalSignals /\ m.name # "finished" /\ m.gen = granted
  BY <1>0, CalKnown, CalibrationBounds DEF C!Call, CalSignals
<1> HIDE DEF m
<1>3. toPhone \in Seq(CalSignals) /\ toPhone' = Append(toPhone, m) /\ toPhone' \in Seq(CalSignals)
  BY <1>1, <1>2, CalKnown DEF m
<1>4. CalTypes'
  <2>1. 0 \in 0 .. Calibrations
    BY CalibrationBounds
  <2> QED
    BY <1>0, <1>3, <2>1, CalKnown DEF CalTypes
<1>5. g \in 0 .. Calibrations /\ granted \in 0 .. Calibrations /\ granted <= g
  BY CalKnown DEF OnePlace, PreparedOnce
<1>6. m \notin Finish /\ m \notin FinishOther(g) /\ m \notin Later(g)
      /\ (m \in Prepared(g) => granted = g)
  BY <1>2, <1>5, CalibrationBounds DEF Finish, FinishOther, Prepared, Later
<1>7. /\ Has(toPhone', Finish) => Has(toPhone, Finish)
      /\ ~Has(toPhone', FinishOther(g)) /\ ~Has(toPhone', Later(g))
      /\ Has(toPhone', Prepared(g)) => Has(toPhone, Prepared(g)) \/ granted = g
  BY <1>2, <1>3, <1>6, HasPost DEF OnePlace, EndedOnce, PreparedOnce
<1>8. Once(toPhone', Finish) /\ Once(toPhone', Prepared(g))
  BY <1>2, <1>3, <1>6, OncePost DEF OnePlace, EndedOnce, PreparedOnce
<1>9. BegunOnce' /\ EndedOnce'
  BY <1>0, <1>7, <1>8 DEF OnePlace, BegunOnce, EndedOnce, Working
<1>10. WorkedOn' /\ PreparedOnce'
  <2>1. granted = g => ~Working
    BY DEF OnePlace, PreparedOnce
  <2>2. g # 0
    BY <1>0, <1>5, CalibrationBounds
  <2> QED
    BY <1>0, <1>5, <1>7, <1>8, <2>1, <2>2, CalibrationBounds DEF OnePlace, WorkedOn, PreparedOnce, Working
<1> QED
  BY <1>4, <1>9, <1>10 DEF OnePlace

\* A stop is asked for: what has begun is waited for.
LEMMA CancelInPlace ==
  ASSUME CalTypes, OnePlace, C!CancelDigitalCalibration
  PROVE  CalTypes' /\ OnePlace'
<1> DEFINE c == C!Call("cancel", 0)
<1>0. /\ told' = C!Cancelled /\ toAudio' = Append(toAudio, c)
      /\ budget' = [budget EXCEPT !["cancel"] = @ - 1] /\ budget["cancel"] > 0
      /\ UNCHANGED <<granted, ptt, link, toPhone, shown, toRadio, locked, shield, gate>>
  BY DEF C!CancelDigitalCalibration, C!Spends, C!link
<1>1. c \in CalCalls /\ c \notin Begin /\ c \notin BeginOther(told.gen)
  BY DEF C!Call, CalCalls, Begin, BeginOther
<1> HIDE DEF c
<1>2. /\ told' \in [calibrating : BOOLEAN, started : BOOLEAN, gen : 0 .. Calibrations,
                    verify : BOOLEAN]
      /\ told'.gen = told.gen /\ Working' = Working
  BY <1>0, CalKnown DEF C!Cancelled, Working
<1>3. /\ toAudio' \in Seq(CalCalls) /\ Once(toAudio', Begin)
      /\ Has(toAudio', Begin) => Has(toAudio, Begin)
      /\ ~Has(toAudio', BeginOther(told.gen))
  <2>1. toAudio \in Seq(CalCalls)
    BY CalKnown
  <2>2. Once(toAudio', Begin)
    BY <1>0, <1>1, <2>1, OncePost DEF OnePlace, BegunOnce
  <2>3. /\ Has(toAudio', Begin) => Has(toAudio, Begin)
        /\ ~Has(toAudio', BeginOther(told.gen))
    BY <1>0, <1>1, <2>1, HasPost DEF OnePlace, BegunOnce
  <2> QED
    BY <1>0, <1>1, <2>1, <2>2, <2>3
<1>4. budget' \in [cancel : 0 .. Cancels, touch : 0 .. Touches]
  <2>1. budget.cancel - 1 \in 0 .. Cancels
    BY <1>0, CalKnown, CalibrationBounds
  <2> QED
    BY <1>0, <2>1, CalKnown
<1>5. CalTypes'
  BY <1>0, <1>2, <1>3, <1>4, CalKnown DEF CalTypes
<1>6. BegunOnce' /\ EndedOnce'
  BY <1>0, <1>2, <1>3 DEF OnePlace, BegunOnce, EndedOnce
<1>7. WorkedOn' /\ PreparedOnce'
  BY <1>0, <1>2 DEF OnePlace, WorkedOn, PreparedOnce
<1> QED
  BY <1>5, <1>6, <1>7 DEF OnePlace

\* MainWindow takes a signal: it asks TcpClient to begin, gives up, or is told of the end.
LEMMA HandlesInPlace ==
  ASSUME CalTypes, OnePlace, C!UiHandles
  PROVE  CalTypes' /\ OnePlace'
<1> DEFINE g == told.gen
           h == Head(toPhone)
<1>0. /\ toPhone \in Seq(CalSignals) /\ toAudio \in Seq(CalCalls) /\ toPhone # <<>>
      /\ toPhone' = Tail(toPhone) /\ h \in CalSignals /\ toPhone' \in Seq(CalSignals)
      /\ UNCHANGED <<granted, ptt, link, shown, toRadio, locked, shield, gate, budget>>
  <2>1. toPhone # <<>> /\ toPhone' = Tail(toPhone)
        /\ UNCHANGED <<granted, ptt, link, shown, toRadio, locked, shield, gate, budget>>
    BY DEF C!UiHandles, C!link, C!history
  <2> QED
    BY <2>1, CalKnown
<1>1. /\ Once(toPhone', Finish) /\ (h \in Finish => ~Has(toPhone', Finish))
      /\ Once(toPhone', Prepared(g)) /\ (h \in Prepared(g) => ~Has(toPhone', Prepared(g)))
  BY <1>0, OnceTake DEF OnePlace, EndedOnce, PreparedOnce
<1>2. /\ Has(toPhone', Finish) => Has(toPhone, Finish)
      /\ Has(toPhone', Prepared(g)) => Has(toPhone, Prepared(g))
      /\ ~Has(toPhone', FinishOther(g)) /\ ~Has(toPhone', Later(g))
      /\ h \in Finish => Has(toPhone, Finish)
      /\ h \in Prepared(g) => Has(toPhone, Prepared(g))
  BY <1>0, HasTake DEF OnePlace, EndedOnce, PreparedOnce
<1> HIDE DEF h
<1>3. CASE ~C!Mine(h)
  <2>1. UNCHANGED <<told, toAudio>>
    BY <1>3 DEF C!UiHandles, h
  <2>2. CalTypes'
    BY <1>0, <2>1, CalKnown DEF CalTypes
  <2>3. BegunOnce' /\ EndedOnce'
    BY <1>0, <1>1, <1>2, <2>1 DEF OnePlace, BegunOnce, EndedOnce, Working
  <2>4. WorkedOn' /\ PreparedOnce'
    BY <1>0, <1>1, <1>2, <2>1 DEF OnePlace, WorkedOn, PreparedOnce, Working
  <2> QED
    BY <2>2, <2>3, <2>4 DEF OnePlace
<1>4. CASE C!Mine(h) /\ h.name = "prepared"
  <2> DEFINE c == C!Call("begin", h.gen)
  <2>1. told' = [told EXCEPT !.started = TRUE] /\ toAudio' = Append(toAudio, c)
    BY <1>4 DEF C!UiHandles, h
  <2>2. h.gen = g /\ told.calibrating /\ h \in Prepared(g) /\ g \in 1 .. Calibrations
    BY <1>0, <1>4 DEF C!Mine, Prepared, CalSignals
  <2>3. ~Working /\ granted # g
    BY <1>2, <2>2 DEF OnePlace, PreparedOnce
  <2>4. ptt.phase = "None" /\ ~Has(toAudio, Begin) /\ ~Has(toPhone, Finish)
    BY <2>3 DEF OnePlace, BegunOnce, EndedOnce, WorkedOn
  <2>5. told' \in [calibrating : BOOLEAN, started : BOOLEAN, gen : 0 .. Calibrations, verify : BOOLEAN]
        /\ told'.gen = g /\ told'.calibrating /\ told'.started
    BY <2>1, <2>2, CalKnown
  <2>6. c \in CalCalls /\ c \in Begin /\ c \notin BeginOther(g)
    BY <2>2 DEF C!Call, CalCalls, Begin, BeginOther
  <2> HIDE DEF c
  <2>7. toAudio' \in Seq(CalCalls) /\ Once(toAudio', Begin) /\ ~Has(toAudio', BeginOther(g))
    <3>1. Once(toAudio', Begin)
      BY <1>0, <2>1, <2>4, <2>6, OncePost DEF OnePlace, BegunOnce
    <3>2. ~Has(toAudio', BeginOther(g))
      BY <1>0, <2>1, <2>6, HasPost DEF OnePlace, BegunOnce
    <3> QED
      BY <1>0, <2>1, <2>6, <3>1, <3>2
  <2>8. CalTypes'
    BY <1>0, <2>5, <2>7, CalKnown DEF CalTypes
  <2>9. BegunOnce' /\ EndedOnce'
    BY <1>0, <1>1, <1>2, <2>4, <2>5, <2>7 DEF BegunOnce, EndedOnce, Working
  <2>10. WorkedOn' /\ PreparedOnce'
    BY <1>0, <1>1, <1>2, <2>2, <2>3, <2>4, <2>5 DEF OnePlace, WorkedOn, PreparedOnce, Working
  <2> QED
    BY <2>8, <2>9, <2>10 DEF OnePlace
<1>5. CASE C!Mine(h) /\ h.name = "preparationFailed"
  <2> DEFINE c == C!Call("cancel", 0)
  <2>1. told' = C!Cancelled /\ toAudio' = Append(toAudio, c)
    BY <1>5 DEF C!UiHandles, h
  <2>2. h.gen = g /\ told.calibrating /\ h \in Prepared(g) /\ g \in 1 .. Calibrations
    BY <1>0, <1>5 DEF C!Mine, Prepared, CalSignals
  <2>3. ~Working /\ granted # g
    BY <1>2, <2>2 DEF OnePlace, PreparedOnce
  <2>4. ptt.phase = "None" /\ ~Has(toAudio, Begin) /\ ~Has(toPhone, Finish)
    BY <2>3 DEF OnePlace, BegunOnce, EndedOnce, WorkedOn
  <2>5. told' \in [calibrating : BOOLEAN, started : BOOLEAN, gen : 0 .. Calibrations, verify : BOOLEAN]
        /\ told'.gen = g /\ ~told'.calibrating
    BY <2>1, <2>2, <2>3, CalKnown DEF C!Cancelled, Working
  <2>6. c \in CalCalls /\ c \notin Begin /\ c \notin BeginOther(g)
    BY DEF C!Call, CalCalls, Begin, BeginOther
  <2> HIDE DEF c
  <2>7. /\ toAudio' \in Seq(CalCalls) /\ Once(toAudio', Begin) /\ ~Has(toAudio', BeginOther(g))
        /\ ~Has(toAudio', Begin)
    <3>1. Once(toAudio', Begin)
      BY <1>0, <2>1, <2>4, <2>6, OncePost DEF OnePlace, BegunOnce
    <3>2. ~Has(toAudio', BeginOther(g)) /\ ~Has(toAudio', Begin)
      BY <1>0, <2>1, <2>4, <2>6, HasPost DEF OnePlace, BegunOnce
    <3> QED
      BY <1>0, <2>1, <2>6, <3>1, <3>2
  <2>8. CalTypes'
    BY <1>0, <2>5, <2>7, CalKnown DEF CalTypes
  <2>9. BegunOnce' /\ EndedOnce'
    BY <1>0, <1>1, <1>2, <2>4, <2>5, <2>7 DEF BegunOnce, EndedOnce, Working
  <2>10. WorkedOn' /\ PreparedOnce'
    BY <1>0, <1>1, <1>2, <2>2, <2>3, <2>4, <2>5 DEF OnePlace, WorkedOn, PreparedOnce, Working
  <2> QED
    BY <2>8, <2>9, <2>10 DEF OnePlace
<1>6. CASE C!Mine(h) /\ h.name = "finished"
  <2>1. told' = [told EXCEPT !.calibrating = FALSE, !.verify = @ \/ h.verify] /\ toAudio' = toAudio
    BY <1>6 DEF C!UiHandles, h
  <2>2. h \in Finish /\ h.verify \in BOOLEAN
    BY <1>0, <1>6 DEF Finish, CalSignals
  <2>3. ptt.phase = "None" /\ ~Has(toAudio, Begin) /\ ~Has(toPhone', Finish)
    BY <1>1, <1>2, <2>2 DEF OnePlace, BegunOnce, EndedOnce
  <2>4. told' \in [calibrating : BOOLEAN, started : BOOLEAN, gen : 0 .. Calibrations, verify : BOOLEAN]
        /\ told'.gen = g /\ ~told'.calibrating
    BY <2>1, <2>2, CalKnown
  <2>5. CalTypes'
    BY <1>0, <2>1, <2>4, CalKnown DEF CalTypes
  <2>6. BegunOnce' /\ EndedOnce'
    BY <1>0, <1>1, <1>2, <2>1, <2>3, <2>4 DEF OnePlace, BegunOnce, EndedOnce, Working
  <2>7. WorkedOn' /\ PreparedOnce'
    BY <1>0, <1>1, <1>2, <2>3, <2>4 DEF OnePlace, WorkedOn, PreparedOnce, Working
  <2> QED
    BY <2>5, <2>6, <2>7 DEF OnePlace
<1>7. h.name \in {"prepared", "preparationFailed", "finished"}
  BY <1>0 DEF CalSignals
<1> QED
  BY <1>3, <1>4, <1>5, <1>6, <1>7

\* A generation stays in one place, whatever thread moves it.
LEMMA InPlace ==
  ASSUME CalTypes, OnePlace, C!Next
  PROVE  CalTypes' /\ OnePlace'
<1>1. CASE \/ C!IoCancels \/ C!OnCatResponse \/ C!GuardEnds \/ C!DeadlinePasses
           \/ C!Disconnected \/ C!K4Obeys \/ C!Touched
  BY <1>1, IoWorks, IoInPlace
<1> QED
  BY <1>1, StartInPlace, PreparesInPlace, CancelInPlace, HandlesInPlace, BeginInPlace DEF C!Next
-----------------------------------------------------------------------------
(* Where the commands under way lead the K4: its TEST and TX now, and after  *)
(* each of them.                                                             *)
RadioStates == [test : BOOLEAN, tx : BOOLEAN]
Obey(k, c) ==
  CASE c = "TS" -> k
    [] c \in {"TS0", "TS1"} -> [k EXCEPT !.test = (c = "TS1")]
    [] OTHER -> [k EXCEPT !.tx = (c = "TX")]
Leads(q, k, f) ==
  /\ f \in [0 .. Len(q) -> RadioStates] /\ f[0] = k
  /\ \A i \in 1 .. Len(q) : f[i] = Obey(f[i - 1], q[i])

\* No command under way makes the K4 transmit outside TEST.
Quiet(f) == \A i \in DOMAIN f : f[i].tx => f[i].test
Always(f, b) == \A i \in DOMAIN f : f[i].test <=> b

(* What the phase p of a calibration knows of TEST, of the commands q and the *)
(* answers a under way, if they are its own: o is TEST before the first one.  *)
ReadsIt(p, q, a, o, f) ==
  /\ Always(f, o) /\ ~p.restore
  /\ \/ q = <<"TS">> /\ a = <<>>
     \/ q = <<>> /\ a = <<IF f[0].test THEN "TS1" ELSE "TS0">>
HoldsIt(p, q, a, o, f) ==
  /\ (o <=> ~p.restore) /\ (~p.restore => Always(f, TRUE))
  /\ \A i \in DOMAIN a : a[i] = "TS1"
  /\ \A i \in DOMAIN q : q[i] = "TS" => f[i].test
PutsBack(p, q, a, o, f) ==
  /\ ~o /\ p.restore /\ ~f[Len(q)].test
  /\ \A i \in DOMAIN a : a[i] = "TS0" => q = <<>>
  /\ \A i \in DOMAIN q : q[i] = "TS" /\ ~f[i].test => i = Len(q)
Knows(p, q, a, o, f) ==
  /\ p.phase = "None" => Always(f, o)
  /\ p.phase = "ReadTest" => ReadsIt(p, q, a, o, f)
  /\ p.phase \in {"EnableTest", "Running"} => HoldsIt(p, q, a, o, f)
  /\ p.phase = "RestoreTest" => PutsBack(p, q, a, o, f)

\* "excused": answers of two calibrations are mixed, or the operator is told.
Stage(p, q, a, o, excused, f) ==
  /\ Quiet(f)
  /\ p.phase \in {"EnableTest", "Running"} => f[Len(q)].test
  /\ excused \/ Knows(p, q, a, o, f)

Verify == {s \in Finish : s.verify}
Told == told.verify \/ Has(toPhone, Verify)
Excused == gate \/ Told
Stages == C!Untouched =>
  \E f : Leads(toRadio, shown, f) /\ Stage(ptt, toRadio, locked, shield, Excused, f)

\* What a command makes of the K4.
LEMMA Obeyed ==
  ASSUME NEW k \in RadioStates, NEW c \in CatCommands
  PROVE  /\ Obey(k, c) \in RadioStates
         /\ c = "TS" => Obey(k, c) = k
         /\ c = "TS0" => ~Obey(k, c).test /\ Obey(k, c).tx = k.tx
         /\ c = "TS1" => Obey(k, c).test /\ Obey(k, c).tx = k.tx
         /\ c = "RX" => Obey(k, c).test = k.test /\ ~Obey(k, c).tx
         /\ c = "TX" => Obey(k, c).test = k.test /\ Obey(k, c).tx
<1>1. CASE c = "TS"
  BY <1>1 DEF Obey
<1>2. CASE c \in {"TS0", "TS1"}
  <2>1. Obey(k, c) = [k EXCEPT !.test = (c = "TS1")]
    BY <1>2 DEF Obey
  <2> QED
    BY <1>2, <2>1 DEF RadioStates
<1>3. CASE c \in {"RX", "TX"}
  <2>1. Obey(k, c) = [k EXCEPT !.tx = (c = "TX")]
    BY <1>3 DEF Obey
  <2> QED
    BY <1>3, <2>1 DEF RadioStates
<1> QED
  BY <1>1, <1>2, <1>3 DEF CatCommands

\* f goes on as g when the command c is sent after n others.
More(q, c, k, f, g, n) ==
  /\ Leads(Append(q, c), k, g) /\ DOMAIN g = 0 .. n + 1
  /\ DOMAIN f = 0 .. n /\ n \in Nat /\ f[n] \in RadioStates
  /\ \A i \in 0 .. n : g[i] = f[i]
  /\ g[n + 1] = Obey(f[n], c)
  /\ Append(q, c) \in Seq(CatCommands) /\ Len(Append(q, c)) = n + 1
  /\ DOMAIN q = 1 .. n /\ DOMAIN Append(q, c) = 1 .. n + 1
  /\ \A i \in 1 .. n : Append(q, c)[i] = q[i]
  /\ Append(q, c)[n + 1] = c

\* A command more: one state more.
LEMMA LeadsPost ==
  ASSUME NEW q \in Seq(CatCommands), NEW k, NEW f, Leads(q, k, f), NEW c \in CatCommands
  PROVE  \E g : More(q, c, k, f, g, Len(q))
<1> DEFINE n == Len(q)
           p == Append(q, c)
           g == [i \in 0 .. n + 1 |-> IF i = n + 1 THEN Obey(f[n], c) ELSE f[i]]
<1>1. /\ n \in Nat /\ DOMAIN p = 1 .. n + 1 /\ DOMAIN q = 1 .. n /\ Len(p) = n + 1
      /\ \A i \in 1 .. n : p[i] = q[i]
      /\ p[n + 1] = c /\ p \in Seq(CatCommands)
  OBVIOUS
<1>2. f \in [0 .. n -> RadioStates] /\ f[0] = k /\ \A i \in 1 .. n : f[i] = Obey(f[i - 1], q[i])
  BY DEF Leads
<1> HIDE DEF n, p
<1>3. f[n] \in RadioStates /\ Obey(f[n], c) \in RadioStates
  BY <1>1, <1>2, Obeyed
<1>4. /\ g \in [0 .. n + 1 -> RadioStates] /\ DOMAIN g = 0 .. n + 1 /\ DOMAIN f = 0 .. n
      /\ \A i \in 0 .. n : g[i] = f[i]
      /\ g[n + 1] = Obey(f[n], c)
  BY <1>1, <1>2, <1>3
<1> HIDE DEF g
<1>5. \A i \in 1 .. n + 1 : g[i] = Obey(g[i - 1], p[i])
  <2> SUFFICES ASSUME NEW i \in 1 .. n + 1 PROVE g[i] = Obey(g[i - 1], p[i])
    OBVIOUS
  <2>1. CASE i = n + 1
    <3>1. g[i - 1] = f[n] /\ p[i] = c
      BY <1>1, <1>4, <2>1
    <3> QED
      BY <1>4, <2>1, <3>1
  <2>2. CASE i # n + 1
    <3>1. i \in 1 .. n /\ g[i] = f[i] /\ g[i - 1] = f[i - 1] /\ p[i] = q[i]
      BY <1>1, <1>4, <2>2
    <3> QED
      BY <1>2, <3>1
  <2> QED
    BY <2>1, <2>2
<1>6. Leads(p, k, g)
  <2>1. g[0] = k
    BY <1>1, <1>2, <1>4
  <2> QED
    BY <1>1, <1>4, <1>5, <2>1 DEF Leads
<1>7. More(q, c, k, f, g, n)
  BY <1>1, <1>3, <1>4, <1>6 DEF More, p
<1> QED
  BY <1>7 DEF n

\* A command obeyed: the states that follow.
LEMMA LeadsTake ==
  ASSUME NEW q \in Seq(CatCommands), q # <<>>, NEW k, NEW f, Leads(q, k, f)
  PROVE  \E h : /\ Leads(Tail(q), Obey(k, Head(q)), h) /\ DOMAIN h = 0 .. Len(q) - 1
                /\ DOMAIN f = 0 .. Len(q) /\ Len(q) \in Nat /\ Len(q) > 0
                /\ k \in RadioStates /\ f[0] = k /\ f[1] = Obey(k, Head(q))
                /\ \A i \in 0 .. Len(q) - 1 : h[i] = f[i + 1]
                /\ Tail(q) \in Seq(CatCommands) /\ Len(Tail(q)) = Len(q) - 1
                /\ DOMAIN q = 1 .. Len(q) /\ DOMAIN Tail(q) = 1 .. Len(q) - 1
                /\ \A i \in 1 .. Len(q) - 1 : Tail(q)[i] = q[i + 1]
                /\ Head(q) = q[1] /\ Head(q) \in CatCommands
<1> DEFINE n == Len(q)
           p == Tail(q)
           h == [i \in 0 .. n - 1 |-> f[i + 1]]
<1>1. /\ n \in Nat /\ n > 0 /\ DOMAIN p = 1 .. n - 1 /\ DOMAIN q = 1 .. n /\ Len(p) = n - 1
      /\ \A i \in 1 .. n - 1 : p[i] = q[i + 1]
      /\ p \in Seq(CatCommands) /\ Head(q) = q[1] /\ Head(q) \in CatCommands
  OBVIOUS
<1>2. f \in [0 .. n -> RadioStates] /\ f[0] = k /\ \A i \in 1 .. n : f[i] = Obey(f[i - 1], q[i])
  BY DEF Leads
<1> HIDE DEF n, p
<1>3. k \in RadioStates /\ f[1] = Obey(k, Head(q))
  <2>1. 1 \in 1 .. n /\ 1 - 1 = 0 /\ 0 \in 0 .. n
    BY <1>1
  <2> QED
    BY <1>1, <1>2, <2>1
<1>4. /\ h \in [0 .. n - 1 -> RadioStates] /\ DOMAIN h = 0 .. n - 1 /\ DOMAIN f = 0 .. n
      /\ \A i \in 0 .. n - 1 : h[i] = f[i + 1]
  BY <1>1, <1>2
<1> HIDE DEF h
<1>5. \A i \in 1 .. n - 1 : h[i] = Obey(h[i - 1], p[i])
  <2> SUFFICES ASSUME NEW i \in 1 .. n - 1 PROVE h[i] = Obey(h[i - 1], p[i])
    OBVIOUS
  <2>1. i + 1 \in 1 .. n /\ (i + 1) - 1 = i /\ i - 1 \in 0 .. n - 1 /\ (i - 1) + 1 = i
    BY <1>1
  <2>2. h[i] = f[i + 1] /\ h[i - 1] = f[i] /\ p[i] = q[i + 1]
    BY <1>1, <1>4, <2>1
  <2>3. f[i + 1] = Obey(f[(i + 1) - 1], q[i + 1])
    BY <1>2, <2>1
  <2> QED
    BY <2>1, <2>2, <2>3
<1>6. Leads(p, Obey(k, Head(q)), h)
  <2>1. h[0] = Obey(k, Head(q))
    <3>1. 0 \in 0 .. n - 1 /\ 0 + 1 = 1
      BY <1>1
    <3> QED
      BY <1>3, <1>4, <3>1
  <2> QED
    BY <1>1, <1>4, <1>5, <2>1 DEF Leads
<1> QED
  BY <1>1, <1>2, <1>3, <1>4, <1>6 DEF n, p

\* ReadTest has its answer: TEST on, if it was not, and asked for again.
LEMMA ReadsTest ==
  ASSUME NEW q \in Seq(CatCommands), NEW k, NEW f, Leads(q, k, f), NEW a \in Seq(CatAnswers), a # <<>>,
         NEW o, NEW e \in BOOLEAN, NEW p, NEW p2, Stage(p, q, a, o, e, f),
         p.phase = "ReadTest", p2.phase = "EnableTest", p2.restore = (Head(a) = "TS0")
  PROVE  \E g : LET q2 == Append(Append(q, "TS1"), "TS")
                IN  Leads(q2, k, g) /\ Stage(p2, q2, Tail(a), o, e, g)
<1> DEFINE n == Len(q)
           q1 == Append(q, "TS1")
           q2 == Append(q1, "TS")
<1>0. "TS1" \in CatCommands /\ "TS" \in CatCommands
  BY DEF CatCommands
<1>p1. PICK g : More(q, "TS1", k, f, g, n)
  BY <1>0, LeadsPost
<1>1. /\ Leads(q1, k, g) /\ DOMAIN g = 0 .. n + 1
      /\ DOMAIN f = 0 .. n /\ n \in Nat /\ f[n] \in RadioStates
      /\ \A i \in 0 .. n : g[i] = f[i]
      /\ g[n + 1] = Obey(f[n], "TS1")
      /\ q1 \in Seq(CatCommands) /\ Len(q1) = n + 1
      /\ DOMAIN q = 1 .. n /\ DOMAIN q1 = 1 .. n + 1
      /\ \A i \in 1 .. n : q1[i] = q[i]
      /\ q1[n + 1] = "TS1"
  BY <1>p1 DEF More, q1
<1> HIDE DEF n, q1
<1>p2. PICK h : More(q1, "TS", k, g, h, n + 1)
  BY <1>0, <1>1, LeadsPost
<1>2. /\ Leads(q2, k, h) /\ DOMAIN h = 0 .. n + 2
      /\ g[n + 1] \in RadioStates
      /\ \A i \in 0 .. n + 1 : h[i] = g[i]
      /\ h[n + 2] = Obey(g[n + 1], "TS")
      /\ q2 \in Seq(CatCommands) /\ Len(q2) = n + 2
      /\ DOMAIN q2 = 1 .. n + 2
      /\ \A i \in 1 .. n + 1 : q2[i] = q1[i]
      /\ q2[n + 2] = "TS"
  <2>1. n + 1 + 1 = n + 2
    BY <1>1
  <2>2. \A i \in 1 .. n + 1 : q2[i] = q1[i]
    BY <1>p2 DEF More, q2
  <2> QED
    BY <1>p2, <2>1, <2>2 DEF More, q2
<1> HIDE DEF q2
<1>3. /\ \A i \in 0 .. n : h[i] = f[i]
      /\ h[n + 1].test /\ h[n + 2].test
      /\ \A i \in 0 .. n + 2 : i \in 0 .. n \/ i = n + 1 \/ i = n + 2
  <2>1. g[n + 1].test
    BY <1>0, <1>1, Obeyed
  <2>2. h[n + 2] = g[n + 1] /\ h[n + 1] = g[n + 1]
    BY <1>0, <1>1, <1>2, Obeyed
  <2>3. \A i \in 0 .. n : h[i] = f[i]
    BY <1>1, <1>2
  <2> QED
    BY <1>1, <2>1, <2>2, <2>3
<1>4. Quiet(h)
  BY <1>1, <1>2, <1>3 DEF Stage, Quiet
<1>5. h[Len(q2)].test
  BY <1>2, <1>3
<1>6. ASSUME ~e PROVE Knows(p2, q2, Tail(a), o, h)
  <2>1. ReadsIt(p, q, a, o, f)
    BY <1>6 DEF Stage, Knows
  <2>2. q = <<>> /\ a = <<IF f[0].test THEN "TS1" ELSE "TS0">> /\ (f[0].test <=> o) /\ n = 0
    BY <1>1, <2>1 DEF ReadsIt, Always, n
  <2>3. Tail(a) = <<>> /\ Head(a) = (IF f[0].test THEN "TS1" ELSE "TS0")
    BY <2>2
  <2>5. o <=> ~p2.restore
    BY <2>2, <2>3
  <2>6. ASSUME ~p2.restore, NEW i \in DOMAIN h PROVE h[i].test
    <3>1. CASE i = 0
      <4>1. 0 \in 0 .. n /\ h[0] = f[0]
        BY <1>1, <1>3
      <4> QED
        BY <2>2, <2>5, <2>6, <3>1, <4>1
    <3>2. CASE i = 1 \/ i = 2
      BY <1>3, <2>2, <3>2
    <3>3. i \in 0 .. 2
      BY <1>2, <2>2, <2>6
    <3> QED
      BY <3>1, <3>2, <3>3
  <2>7. \A i \in DOMAIN q2 : q2[i] = "TS" => h[i].test
    BY <1>2, <1>3, <2>2
  <2>8. HoldsIt(p2, q2, Tail(a), o, h)
    <3>1. ~p2.restore => Always(h, TRUE)
      BY <2>6 DEF Always
    <3>2. \A i \in DOMAIN Tail(a) : Tail(a)[i] = "TS1"
      BY <2>3
    <3> QED
      BY <2>5, <2>7, <3>1, <3>2 DEF HoldsIt
  <2> QED
    BY <2>8 DEF Knows
<1>7. Stage(p2, q2, Tail(a), o, e, h)
  BY <1>4, <1>5, <1>6 DEF Stage
<1> QED
  BY <1>2, <1>7 DEF q2, q1

\* From phase p to phase p2: the tone starts; a calibration ends that left TEST as
\* it was; one that switched TEST on puts it back.
Keys(p, p2) == p.phase = "EnableTest" /\ p2.phase = "Running" /\ p2.restore = p.restore
Ends(p, p2) ==
  p.phase \in {"ReadTest", "EnableTest", "Running"} /\ ~p.restore /\ p2.phase = "None"
Restores(p, p2) ==
  /\ p.phase \in {"ReadTest", "EnableTest", "Running"} /\ p.restore
  /\ p2.phase = "RestoreTest" /\ p2.restore

\* TEST is confirmed: the tone may sound.
LEMMA KeysInTest ==
  ASSUME NEW q \in Seq(CatCommands), NEW k, NEW f, Leads(q, k, f), NEW a \in Seq(CatAnswers), a # <<>>,
         NEW o, NEW e \in BOOLEAN, NEW p, NEW p2, Stage(p, q, a, o, e, f),
         Keys(p, p2)
  PROVE  \E g : Leads(Append(q, "TX"), k, g) /\ Stage(p2, Append(q, "TX"), Tail(a), o, e, g)
<1>r. p.phase = "EnableTest" /\ p2.phase = "Running" /\ p2.restore = p.restore
  BY DEF Keys
<1> USE <1>r
<1> DEFINE n == Len(q)
           q1 == Append(q, "TX")
<1>0. "TX" \in CatCommands
  BY DEF CatCommands
<1>p1. PICK g : More(q, "TX", k, f, g, n)
  BY <1>0, LeadsPost
<1>1. /\ Leads(q1, k, g) /\ DOMAIN g = 0 .. n + 1
      /\ DOMAIN f = 0 .. n /\ n \in Nat /\ f[n] \in RadioStates
      /\ \A i \in 0 .. n : g[i] = f[i]
      /\ g[n + 1] = Obey(f[n], "TX")
      /\ q1 \in Seq(CatCommands) /\ Len(q1) = n + 1
      /\ DOMAIN q = 1 .. n /\ DOMAIN q1 = 1 .. n + 1
      /\ \A i \in 1 .. n : q1[i] = q[i]
      /\ q1[n + 1] = "TX"
  BY <1>p1 DEF More, q1
<1>2. f[n].test
  BY DEF Stage
<1> HIDE DEF n, q1
<1>3. g[n + 1].test = f[n].test
  BY <1>0, <1>1, Obeyed
<1>i. ASSUME NEW i \in DOMAIN g PROVE i = n + 1 \/ (i \in DOMAIN f /\ g[i] = f[i])
  BY <1>1, <1>i
<1>4. Quiet(g)
  BY <1>2, <1>3, <1>i DEF Stage, Quiet
<1>5. ASSUME ~e PROVE Knows(p2, q1, Tail(a), o, g)
  <2>1. HoldsIt(p, q, a, o, f)
    BY <1>5 DEF Stage, Knows
  <2>2. \A i \in DOMAIN Tail(a) : Tail(a)[i] = "TS1"
    BY <2>1, Taking DEF HoldsIt
  <2>3. ~p2.restore => Always(g, TRUE)
    BY <1>2, <1>3, <1>i, <2>1 DEF HoldsIt, Always
  <2>4. \A i \in DOMAIN q1 : q1[i] = "TS" => g[i].test
    BY <1>1, <2>1 DEF HoldsIt
  <2>5. HoldsIt(p2, q1, Tail(a), o, g)
    BY <2>1, <2>2, <2>3, <2>4 DEF HoldsIt
  <2> QED
    BY <2>5 DEF Knows
<1>6. Stage(p2, q1, Tail(a), o, e, g)
  BY <1>1, <1>2, <1>3, <1>4, <1>5 DEF Stage
<1> QED
  BY <1>1, <1>6 DEF q1

\* Before TEST is put back the K4 receives; if it was on, it stays on.
LEMMA Closes ==
  ASSUME NEW q \in Seq(CatCommands), NEW k, NEW f, Leads(q, k, f), NEW a \in Seq(CatAnswers),
         NEW o, NEW e \in BOOLEAN, NEW p, NEW p2, Stage(p, q, a, o, e, f),
         Ends(p, p2), NEW b, b = a \/ (a # <<>> /\ b = Tail(a))
  PROVE  \E g : Leads(Append(q, "RX"), k, g) /\ Stage(p2, Append(q, "RX"), b, o, e, g)
<1>r. p.phase \in {"ReadTest", "EnableTest", "Running"} /\ ~p.restore /\ p2.phase = "None"
  BY DEF Ends
<1> USE <1>r
<1> DEFINE n == Len(q)
           q1 == Append(q, "RX")
<1>0. "RX" \in CatCommands
  BY DEF CatCommands
<1>p1. PICK g : More(q, "RX", k, f, g, n)
  BY <1>0, LeadsPost
<1>1. /\ Leads(q1, k, g) /\ DOMAIN g = 0 .. n + 1
      /\ DOMAIN f = 0 .. n /\ n \in Nat /\ f[n] \in RadioStates
      /\ \A i \in 0 .. n : g[i] = f[i]
      /\ g[n + 1] = Obey(f[n], "RX")
      /\ q1 \in Seq(CatCommands) /\ Len(q1) = n + 1
      /\ DOMAIN q = 1 .. n /\ DOMAIN q1 = 1 .. n + 1
      /\ \A i \in 1 .. n : q1[i] = q[i]
      /\ q1[n + 1] = "RX"
  BY <1>p1 DEF More, q1
<1> HIDE DEF n, q1
<1>2. g[n + 1].test = f[n].test /\ ~g[n + 1].tx
  BY <1>0, <1>1, Obeyed
<1>i. ASSUME NEW i \in DOMAIN g PROVE i = n + 1 \/ (i \in DOMAIN f /\ g[i] = f[i])
  BY <1>1, <1>i
<1>n. n \in DOMAIN f
  BY <1>1
<1>3. Quiet(g)
  BY <1>2, <1>i DEF Stage, Quiet
<1>4. ASSUME ~e PROVE Always(g, o)
  <2>1. Always(f, o)
    <3>1. CASE p.phase = "ReadTest"
      BY <1>4, <3>1 DEF Stage, Knows, ReadsIt
    <3>2. CASE p.phase \in {"EnableTest", "Running"}
      <4>1. o /\ Always(f, TRUE)
        BY <1>4, <3>2 DEF Stage, Knows, HoldsIt
      <4> QED
        BY <4>1 DEF Always
    <3> QED
      BY <3>1, <3>2
  <2> QED
    BY <1>2, <1>i, <1>n, <2>1 DEF Always
<1>5. Stage(p2, q1, b, o, e, g)
  <2>1. ~e => Knows(p2, q1, b, o, g)
    BY <1>4 DEF Knows
  <2> QED
    BY <1>3, <2>1 DEF Stage
<1> QED
  BY <1>1, <1>5 DEF q1

\* TEST is put back and asked for, after RX.
LEMMA ClosesTest ==
  ASSUME NEW q \in Seq(CatCommands), NEW k, NEW f, Leads(q, k, f), NEW a \in Seq(CatAnswers),
         NEW o, NEW e \in BOOLEAN, NEW p, NEW p2, Stage(p, q, a, o, e, f),
         Restores(p, p2), NEW b, b = a \/ (a # <<>> /\ b = Tail(a))
  PROVE  \E g : /\ Leads(Append(Append(Append(q, "RX"), "TS0"), "TS"), k, g)
                /\ Stage(p2, Append(Append(Append(q, "RX"), "TS0"), "TS"), b, o, e, g)
<1>r. /\ p.phase \in {"ReadTest", "EnableTest", "Running"} /\ p.restore
      /\ p2.phase = "RestoreTest" /\ p2.restore
  BY DEF Restores
<1> USE <1>r
<1> DEFINE n == Len(q)
           q1 == Append(q, "RX")
           q2 == Append(q1, "TS0")
           q3 == Append(q2, "TS")
<1>0. "RX" \in CatCommands /\ "TS0" \in CatCommands /\ "TS" \in CatCommands
  BY DEF CatCommands
<1>p1. PICK g1 : More(q, "RX", k, f, g1, n)
  BY <1>0, LeadsPost
<1>1. /\ Leads(q1, k, g1) /\ DOMAIN g1 = 0 .. n + 1
      /\ DOMAIN f = 0 .. n /\ n \in Nat /\ f[n] \in RadioStates
      /\ \A i \in 0 .. n : g1[i] = f[i]
      /\ g1[n + 1] = Obey(f[n], "RX")
      /\ q1 \in Seq(CatCommands) /\ Len(q1) = n + 1
      /\ DOMAIN q = 1 .. n /\ DOMAIN q1 = 1 .. n + 1
      /\ \A i \in 1 .. n : q1[i] = q[i]
      /\ q1[n + 1] = "RX"
  BY <1>p1 DEF More, q1
<1> HIDE DEF n, q1
<1>p2. PICK g2 : More(q1, "TS0", k, g1, g2, n + 1)
  BY <1>0, <1>1, LeadsPost
<1>2. /\ Leads(q2, k, g2) /\ DOMAIN g2 = 0 .. n + 2
      /\ g1[n + 1] \in RadioStates
      /\ \A i \in 0 .. n + 1 : g2[i] = g1[i]
      /\ g2[n + 2] = Obey(g1[n + 1], "TS0")
      /\ q2 \in Seq(CatCommands) /\ Len(q2) = n + 2
      /\ DOMAIN q2 = 1 .. n + 2
      /\ \A i \in 1 .. n + 1 : q2[i] = q1[i]
      /\ q2[n + 2] = "TS0"
  <2>1. n + 1 + 1 = n + 2
    BY <1>1
  <2>2. \A i \in 1 .. n + 1 : q2[i] = q1[i]
    BY <1>p2 DEF More, q2
  <2> QED
    BY <1>p2, <2>1, <2>2 DEF More, q2
<1> HIDE DEF q2
<1>p3. PICK g : More(q2, "TS", k, g2, g, n + 2)
  BY <1>0, <1>2, LeadsPost
<1>3. /\ Leads(q3, k, g) /\ DOMAIN g = 0 .. n + 3
      /\ g2[n + 2] \in RadioStates
      /\ \A i \in 0 .. n + 2 : g[i] = g2[i]
      /\ g[n + 3] = Obey(g2[n + 2], "TS")
      /\ q3 \in Seq(CatCommands) /\ Len(q3) = n + 3
      /\ DOMAIN q3 = 1 .. n + 3
      /\ \A i \in 1 .. n + 2 : q3[i] = q2[i]
      /\ q3[n + 3] = "TS"
  <2>1. n + 2 + 1 = n + 3
    BY <1>1
  <2>2. \A i \in 1 .. n + 2 : q3[i] = q2[i]
    BY <1>p3 DEF More, q3
  <2> QED
    BY <1>p3, <2>1, <2>2 DEF More, q3
<1> HIDE DEF q3
<1>4. /\ \A i \in 0 .. n : g[i] = f[i]
      /\ g[n + 1] = g1[n + 1] /\ g[n + 2] = g2[n + 2] /\ g[n + 3] = g2[n + 2]
  <2>1. g[n + 3] = g2[n + 2]
    BY <1>0, <1>3, Obeyed
  <2>2. \A i \in 0 .. n : g[i] = f[i]
    BY <1>1, <1>2, <1>3
  <2>3. g[n + 1] = g1[n + 1] /\ g[n + 2] = g2[n + 2]
    BY <1>1, <1>2, <1>3
  <2> QED
    BY <2>1, <2>2, <2>3
<1>5. /\ ~g1[n + 1].tx
      /\ g2[n + 2].tx = g1[n + 1].tx /\ ~g2[n + 2].test
  <2>1. ~g1[n + 1].tx
    BY <1>0, <1>1, Obeyed
  <2>2. g2[n + 2].tx = g1[n + 1].tx /\ ~g2[n + 2].test
    BY <1>0, <1>2, Obeyed, SMTT(30)
  <2> QED
    BY <2>1, <2>2
<1>6. \A i \in 0 .. n + 3 : i \in 0 .. n \/ i = n + 1 \/ i = n + 2 \/ i = n + 3
  BY <1>1
<1>7. Quiet(g)
  <2> SUFFICES ASSUME NEW i \in 0 .. n + 3, g[i].tx PROVE g[i].test
    BY <1>3 DEF Quiet
  <2>1. CASE i \in 0 .. n
    BY <1>1, <1>4, <2>1 DEF Stage, Quiet
  <2> QED
    BY <1>4, <1>5, <1>6, <2>1
<1>8. ASSUME ~e PROVE Knows(p2, q3, b, o, g)
  <2>1. HoldsIt(p, q, a, o, f)
    <3>1. p.phase # "ReadTest"
      BY <1>8 DEF Stage, Knows, ReadsIt
    <3> QED
      BY <1>8, <3>1 DEF Stage, Knows
  <2>2. ~o /\ p2.restore
    BY <2>1 DEF HoldsIt
  <2>3. ~g[Len(q3)].test
    <3>1. g[Len(q3)] = g2[n + 2]
      BY <1>3, <1>4
    <3> QED
      BY <1>5, <3>1
  <2>4. \A i \in DOMAIN b : b[i] = "TS0" => q3 = <<>>
    <3>1. \A i \in DOMAIN b : \E j \in DOMAIN a : b[i] = a[j]
      BY Taking
    <3> QED
      BY <2>1, <3>1 DEF HoldsIt
  <2>5. ASSUME NEW i \in DOMAIN q3, q3[i] = "TS", ~g[i].test PROVE i = Len(q3)
    <3>1. CASE i \in 1 .. n
      <4>1. i \in DOMAIN q /\ q[i] = q3[i] /\ g[i] = f[i]
        BY <1>1, <1>2, <1>3, <1>4, <3>1
      <4>2. f[i].test
        BY <2>1, <2>5, <4>1 DEF HoldsIt
      <4> QED
        BY <2>5, <4>1, <4>2
    <3>2. CASE i = n + 1
      <4>1. q3[i] = "RX"
        BY <1>1, <1>2, <1>3, <3>2
      <4> QED
        BY <2>5, <4>1
    <3>3. CASE i = n + 2
      <4>1. q3[i] = "TS0"
        BY <1>1, <1>2, <1>3, <3>3
      <4> QED
        BY <2>5, <4>1
    <3>4. i \in 1 .. n \/ i = n + 1 \/ i = n + 2 \/ i = n + 3
      <4>1. i \in 1 .. n + 3 /\ n \in Nat
        BY <1>1, <1>3
      <4> QED
        BY <4>1
    <3> QED
      BY <1>3, <3>1, <3>2, <3>3, <3>4
  <2>6. PutsBack(p2, q3, b, o, g)
    BY <2>2, <2>3, <2>4, <2>5 DEF PutsBack
  <2> QED
    BY <2>6 DEF Knows
<1>9. Stage(p2, q3, b, o, e, g)
  BY <1>7, <1>8 DEF Stage
<1> QED
  BY <1>3, <1>9 DEF q3, q2, q1

\* The K4 has said TEST is off again, after all commands.
LEMMA IsBack ==
  ASSUME NEW q \in Seq(CatCommands), NEW k, NEW f, Leads(q, k, f), NEW a \in Seq(CatAnswers), a # <<>>,
         NEW o, NEW e \in BOOLEAN, NEW p, NEW p2, Stage(p, q, a, o, e, f),
         p.phase = "RestoreTest", Head(a) = "TS0", p2.phase = "None"
  PROVE  Stage(p2, q, Tail(a), o, e, f)
<1>1. ASSUME ~e PROVE Always(f, o)
  <2>1. PutsBack(p, q, a, o, f)
    BY <1>1 DEF Stage, Knows
  <2>2. 1 \in DOMAIN a /\ a[1] = "TS0"
    OBVIOUS
  <2>3. q = <<>>
    BY <2>1, <2>2 DEF PutsBack
  <2>4. Len(q) = 0
    BY <2>3
  <2>5. DOMAIN f = {0}
    <3>1. f \in [0 .. 0 -> RadioStates]
      BY <2>4 DEF Leads
    <3> QED
      BY <3>1
  <2>6. ~o /\ ~f[0].test
    BY <2>1, <2>4 DEF PutsBack
  <2> QED
    BY <2>5, <2>6 DEF Always
<1>2. ~e => Knows(p2, q, Tail(a), o, f)
  BY <1>1 DEF Knows
<1> QED
  BY <1>2 DEF Stage

\* An answer that changes nothing is gone.
LEMMA Ignores ==
  ASSUME NEW q, NEW f, NEW a \in Seq(CatAnswers), a # <<>>,
         NEW o, NEW e \in BOOLEAN, NEW p, Stage(p, q, a, o, e, f), p.phase # "ReadTest"
  PROVE  Stage(p, q, Tail(a), o, e, f)
<1>1. \A i \in DOMAIN Tail(a) : i + 1 \in DOMAIN a /\ Tail(a)[i] = a[i + 1]
  BY Taking
<1>2. HoldsIt(p, q, a, o, f) => HoldsIt(p, q, Tail(a), o, f)
  BY <1>1 DEF HoldsIt
<1>3. PutsBack(p, q, a, o, f) => PutsBack(p, q, Tail(a), o, f)
  BY <1>1 DEF PutsBack
<1> QED
  BY <1>2, <1>3 DEF Stage, Knows

\* The K4 obeys; if it is asked for TEST, it answers.
LEMMA Obeys ==
  ASSUME NEW q \in Seq(CatCommands), q # <<>>, NEW k, NEW f, Leads(q, k, f), NEW a \in Seq(CatAnswers),
         NEW o, NEW e \in BOOLEAN, NEW p, Stage(p, q, a, o, e, f), NEW b,
         Head(q) = "TS" => b = Append(a, IF k.test THEN "TS1" ELSE "TS0"),
         Head(q) # "TS" => b = a
  PROVE  \E h : Leads(Tail(q), Obey(k, Head(q)), h) /\ Stage(p, Tail(q), b, o, e, h)
<1> DEFINE n == Len(q)
           q1 == Tail(q)
<1>1. PICK h : /\ Leads(q1, Obey(k, Head(q)), h) /\ DOMAIN h = 0 .. n - 1
               /\ DOMAIN f = 0 .. n /\ n \in Nat /\ n > 0
               /\ k \in RadioStates /\ f[0] = k /\ f[1] = Obey(k, Head(q))
               /\ \A i \in 0 .. n - 1 : h[i] = f[i + 1]
               /\ q1 \in Seq(CatCommands) /\ Len(q1) = n - 1
               /\ DOMAIN q = 1 .. n /\ DOMAIN q1 = 1 .. n - 1
               /\ \A i \in 1 .. n - 1 : q1[i] = q[i + 1]
               /\ Head(q) = q[1] /\ Head(q) \in CatCommands
  BY LeadsTake
<1> HIDE DEF n, q1
<1>e. n = 1 => q1 = <<>>
  BY <1>1
<1>2. /\ \A i \in 0 .. n - 1 : i + 1 \in DOMAIN f /\ h[i] = f[i + 1]
      /\ \A i \in 1 .. n - 1 : i + 1 \in DOMAIN q /\ q1[i] = q[i + 1]
      /\ h[Len(q1)] = f[n] /\ h[0] = f[1] /\ 1 \in DOMAIN q
  BY <1>1
<1>3. Quiet(h)
  BY <1>1, <1>2 DEF Stage, Quiet
<1>4. p.phase \in {"EnableTest", "Running"} => h[Len(q1)].test
  BY <1>2 DEF Stage, n
<1>5. ASSUME NEW c, Always(f, c) PROVE Always(h, c)
  <2>1. \A i \in DOMAIN h : i + 1 \in DOMAIN f /\ h[i] = f[i + 1]
    BY <1>1, <1>2
  <2> QED
    BY <1>5, <2>1 DEF Always
<1>6. Head(q) = "TS" => f[1] = k
  BY <1>1, Obeyed
<1>7. ASSUME ~e PROVE Knows(p, q1, b, o, h)
  <2>0. Knows(p, q, a, o, f)
    BY <1>7 DEF Stage
  <2>1. ASSUME p.phase = "None" PROVE Always(h, o)
    BY <1>5, <2>0, <2>1 DEF Knows
  <2>2. ASSUME p.phase = "ReadTest" PROVE ReadsIt(p, q1, b, o, h)
    <3>1. ReadsIt(p, q, a, o, f)
      BY <2>0, <2>2 DEF Knows
    <3>2. q = <<"TS">> /\ a = <<>>
      BY <3>1 DEF ReadsIt
    <3>3. q1 = <<>> /\ Head(q) = "TS"
      BY <3>2 DEF q1
    <3>4. b = <<IF h[0].test THEN "TS1" ELSE "TS0">>
      <4>1. h[0] = k
        BY <1>2, <1>6, <3>3
      <4> QED
        BY <3>2, <3>3, <4>1
    <3> QED
      BY <1>5, <3>1, <3>3, <3>4 DEF ReadsIt
  <2>3. ASSUME p.phase \in {"EnableTest", "Running"} PROVE HoldsIt(p, q1, b, o, h)
    <3>1. HoldsIt(p, q, a, o, f)
      BY <2>0, <2>3 DEF Knows
    <3>2. \A i \in DOMAIN b : b[i] = "TS1"
      <4>1. CASE Head(q) = "TS"
        <5>1. k.test
          BY <1>1, <1>2, <1>6, <3>1, <4>1 DEF HoldsIt
        <5>2. b = Append(a, "TS1")
          BY <4>1, <5>1
        <5>3. "TS1" \in CatAnswers
          BY DEF CatAnswers
        <5> QED
          BY <3>1, <5>2, <5>3, Posting DEF HoldsIt
      <4> QED
        BY <3>1, <4>1 DEF HoldsIt
    <3>3. \A i \in DOMAIN q1 : q1[i] = "TS" => h[i].test
      <4>1. \A i \in DOMAIN q1 : h[i] = f[i + 1] /\ i + 1 \in DOMAIN q /\ q1[i] = q[i + 1]
        BY <1>1, <1>2
      <4> QED
        BY <3>1, <4>1 DEF HoldsIt
    <3> QED
      BY <1>5, <3>1, <3>2, <3>3 DEF HoldsIt
  <2>4. ASSUME p.phase = "RestoreTest" PROVE PutsBack(p, q1, b, o, h)
    <3>1. PutsBack(p, q, a, o, f)
      BY <2>0, <2>4 DEF Knows
    <3>2. \A i \in DOMAIN a : a[i] # "TS0"
      BY <3>1 DEF PutsBack
    <3>3. ASSUME NEW i \in DOMAIN b, b[i] = "TS0" PROVE q1 = <<>>
      <4>1. Head(q) = "TS"
        BY <3>2, <3>3
      <4>2. ~k.test
        <5>1. ASSUME k.test PROVE FALSE
          <6>1. b = Append(a, "TS1") /\ "TS1" \in CatAnswers
            BY <4>1, <5>1 DEF CatAnswers
          <6> QED
            BY <3>2, <3>3, <6>1, Posting
        <5> QED
          BY <5>1
      <4>3. q[1] = "TS" /\ ~f[1].test
        BY <1>1, <1>6, <4>1, <4>2
      <4>4. n = 1
        BY <1>2, <3>1, <4>3 DEF PutsBack, n
      <4> QED
        BY <1>e, <4>4 
    <3>4. ASSUME NEW i \in DOMAIN q1, q1[i] = "TS", ~h[i].test PROVE i = Len(q1)
      <4>1. i \in 1 .. n - 1 /\ i + 1 \in DOMAIN q /\ q[i + 1] = "TS" /\ h[i] = f[i + 1]
        BY <1>1, <1>2, <3>4
      <4>2. i + 1 = n
        BY <3>1, <3>4, <4>1 DEF PutsBack, n
      <4> QED
        BY <1>1, <4>1, <4>2
    <3>5. ~h[Len(q1)].test
      BY <1>2, <3>1 DEF PutsBack, n
    <3> QED
      BY <3>1, <3>3, <3>4, <3>5 DEF PutsBack
  <2> QED
    BY <2>1, <2>2, <2>3, <2>4 DEF Knows
<1>8. Stage(p, q1, b, o, e, h)
  BY <1>3, <1>4, <1>7 DEF Stage
<1> QED
  BY <1>1, <1>8 DEF q1

\* A calibration begins: nothing of an earlier one is under way, or it is excused.
LEMMA Begins ==
  ASSUME NEW q \in Seq(CatCommands), NEW k, NEW f, Leads(q, k, f), NEW a,
         NEW o, NEW e \in BOOLEAN, NEW e2 \in BOOLEAN, NEW p, NEW p2, Stage(p, q, a, o, e, f),
         p.phase = "None", p2.phase = "ReadTest", ~p2.restore,
         e2 \/ (~e /\ q = <<>> /\ a = <<>>)
  PROVE  \E g : Leads(Append(q, "TS"), k, g) /\ Stage(p2, Append(q, "TS"), a, o, e2, g)
<1> DEFINE n == Len(q)
           q1 == Append(q, "TS")
<1>0. "TS" \in CatCommands
  BY DEF CatCommands
<1>p1. PICK g : More(q, "TS", k, f, g, n)
  BY <1>0, LeadsPost
<1>1. /\ Leads(q1, k, g) /\ DOMAIN g = 0 .. n + 1
      /\ DOMAIN f = 0 .. n /\ n \in Nat /\ f[n] \in RadioStates
      /\ \A i \in 0 .. n : g[i] = f[i]
      /\ g[n + 1] = Obey(f[n], "TS")
  BY <1>p1 DEF More, q1
<1>e. q = <<>> => q1 = <<"TS">>
  OBVIOUS
<1> HIDE DEF n, q1
<1>2. g[n + 1] = f[n] /\ n \in DOMAIN f
  BY <1>0, <1>1, Obeyed
<1>i. ASSUME NEW i \in DOMAIN g PROVE \E j \in DOMAIN f : g[i] = f[j]
  <2>1. i = n + 1 \/ i \in 0 .. n
    BY <1>1, <1>i
  <2> QED
    BY <1>1, <1>2, <2>1
<1>3. Quiet(g)
  BY <1>i DEF Stage, Quiet
<1>4. ASSUME ~e2 PROVE Knows(p2, q1, a, o, g)
  <2>1. Always(f, o) /\ q = <<>> /\ a = <<>>
    BY <1>4 DEF Stage, Knows
  <2>2. Always(g, o)
    BY <1>i, <2>1 DEF Always
  <2>3. ReadsIt(p2, q1, a, o, g)
    BY <1>e, <2>1, <2>2 DEF ReadsIt
  <2> QED
    BY <2>3 DEF Knows
<1>5. Stage(p2, q1, a, o, e2, g)
  BY <1>3, <1>4 DEF Stage
<1> QED
  BY <1>1, <1>5 DEF q1

\* An excuse more.
LEMMA Excusing ==
  ASSUME NEW p, NEW q, NEW a, NEW o, NEW e, NEW e2, NEW f, Stage(p, q, a, o, e, f), e => e2
  PROVE  Stage(p, q, a, o, e2, f)
BY DEF Stage

\* What the next state needs.
LEMMA StagesFrom ==
  ASSUME C!Untouched' => \E f : /\ Leads(toRadio', shown', f)
                                /\ Stage(ptt', toRadio', locked', shield', Excused', f)
  PROVE  Stages'
BY DEF Stages, C!Untouched, Leads, Obey, Stage, Quiet, Knows, ReadsIt, HoldsIt, PutsBack, Always

\* What concerns neither TcpClient nor the K4.
LEMMA StagesStay ==
  ASSUME Stages, UNCHANGED <<toRadio, shown, ptt, locked, shield>>,
         C!Untouched' => C!Untouched, Excused => Excused'
  PROVE  Stages'
<1> SUFFICES ASSUME C!Untouched'
             PROVE  \E f : /\ Leads(toRadio', shown', f)
                           /\ Stage(ptt', toRadio', locked', shield', Excused', f)
  BY StagesFrom
<1>1. PICK f : Leads(toRadio, shown, f) /\ Stage(ptt, toRadio, locked, shield, Excused, f)
  BY DEF Stages
<1>2. Stage(ptt, toRadio, locked, shield, Excused', f)
  BY <1>1, Excusing
<1> QED
  BY <1>1, <1>2

\* A signal more leaves the operator told.
LEMMA ToldStays ==
  ASSUME NEW s \in CalSignals, toPhone \in Seq(CalSignals),
         toPhone' = toPhone \/ toPhone' = Append(toPhone, s), told.verify => told'.verify
  PROVE  Told => Told'
<1>1. Has(toPhone, Verify) => Has(toPhone', Verify)
  <2>1. Has(Append(toPhone, s), Verify) <=> Has(toPhone, Verify) \/ s \in Verify
    BY HasPost
  <2> QED
    BY <2>1
<1>2. Told' <=> told'.verify \/ Has(toPhone', Verify)
  BY DEF Told, Has, Verify, Finish, CalSignals
<1> QED
  BY <1>1, <1>2 DEF Told

\* The end of a calibration that asks to verify TEST tells the operator.
LEMMA Tells ==
  ASSUME NEW s \in CalSignals, toPhone \in Seq(CalSignals), toPhone' = Append(toPhone, s),
         s.name = "finished", s.verify
  PROVE  Told'
<1>1. s \in Verify
  BY DEF Verify, Finish
<1>2. Has(toPhone', Verify)
  <2>1. Has(Append(toPhone, s), Verify) <=> Has(toPhone, Verify) \/ s \in Verify
    BY HasPost
  <2> QED
    BY <1>1, <2>1
<1>3. Told' <=> told'.verify \/ Has(toPhone', Verify)
  BY DEF Told, Has, Verify, Finish, CalSignals
<1> QED
  BY <1>2, <1>3

\* MainWindow's and the audio thread's steps.
LEMMA UiStages ==
  ASSUME CalTypes, OnePlace, Stages,
         C!StartDigitalCalibration \/ C!AudioPrepares \/ C!CancelDigitalCalibration \/ C!UiHandles
  PROVE  Stages'
<1>1. UNCHANGED <<toRadio, shown, ptt, locked, shield, gate>> /\ (C!Untouched' => C!Untouched)
  <2>1. CASE C!StartDigitalCalibration
    BY <2>1 DEF C!StartDigitalCalibration, C!link, C!history, C!Untouched
  <2>2. CASE C!AudioPrepares
    BY <2>2 DEF C!AudioPrepares, C!link, C!history, C!Untouched
  <2>3. CASE C!CancelDigitalCalibration
    <3>1. budget' = [budget EXCEPT !["cancel"] = @ - 1] /\ budget \in [cancel : 0 .. Cancels, touch : 0 .. Touches]
      BY <2>3, CalKnown DEF C!CancelDigitalCalibration, C!Spends
    <3>2. budget'.touch = budget.touch
      BY <3>1
    <3> QED
      BY <2>3, <3>2 DEF C!CancelDigitalCalibration, C!link, C!Untouched
  <2>4. CASE C!UiHandles
    BY <2>4 DEF C!UiHandles, C!link, C!history, C!Untouched
  <2> QED
    BY <2>1, <2>2, <2>3, <2>4
<1>0. toPhone \in Seq(CalSignals)
  BY CalKnown
<1>2. Told => Told'
  <2>1. CASE C!StartDigitalCalibration
    <3>1. toPhone' = toPhone /\ told' = [told EXCEPT !.calibrating = TRUE, !.started = FALSE, !.gen = @ + 1]
      BY <2>1 DEF C!StartDigitalCalibration
    <3>2. told'.verify = told.verify
      BY <3>1, CalKnown
    <3> QED
      BY <3>1, <3>2 DEF Told
  <2>2. CASE C!AudioPrepares
    <3>1. PICK name \in {"prepared", "preparationFailed"} : toPhone' = Append(toPhone, C!Call(name, granted))
      BY <2>2 DEF C!AudioPrepares
    <3>2. granted \in 1 .. Calibrations /\ told' = told
      BY <2>2, CalKnown, CalibrationBounds DEF C!AudioPrepares
    <3>3. C!Call(name, granted) \in CalSignals
      BY <3>2 DEF C!Call, CalSignals
    <3> QED
      BY <1>0, <3>1, <3>2, <3>3, ToldStays
  <2>3. CASE C!CancelDigitalCalibration
    <3>1. toPhone' = toPhone /\ told' = C!Cancelled
      BY <2>3 DEF C!CancelDigitalCalibration
    <3>2. told'.verify = told.verify
      BY <3>1, CalKnown DEF C!Cancelled
    <3> QED
      BY <3>1, <3>2 DEF Told
  <2>4. CASE C!UiHandles
    <3> DEFINE h == Head(toPhone)
    <3>1. toPhone # <<>> /\ toPhone' = Tail(toPhone) /\ h \in CalSignals
      BY <1>0, <2>4 DEF C!UiHandles
    <3> HIDE DEF h
    <3>2. told.verify => told'.verify
      <4>1. CASE ~C!Mine(h)
        BY <2>4, <4>1 DEF C!UiHandles, h
      <4>2. CASE C!Mine(h) /\ h.name = "prepared"
        <5>1. told' = [told EXCEPT !.started = TRUE]
          BY <2>4, <4>2 DEF C!UiHandles, h
        <5> QED
          BY <5>1, CalKnown
      <4>3. CASE C!Mine(h) /\ h.name = "preparationFailed"
        <5>1. told' = C!Cancelled
          BY <2>4, <4>3 DEF C!UiHandles, h
        <5> QED
          BY <5>1, CalKnown DEF C!Cancelled
      <4>4. CASE C!Mine(h) /\ h.name = "finished"
        <5>1. told' = [told EXCEPT !.calibrating = FALSE, !.verify = @ \/ h.verify]
          BY <2>4, <4>4 DEF C!UiHandles, h
        <5> QED
          BY <5>1, CalKnown
      <4>5. h.name \in {"prepared", "preparationFailed", "finished"}
        BY <3>1 DEF CalSignals
      <4> QED
        BY <4>1, <4>2, <4>3, <4>4, <4>5
    <3>3. ASSUME h \in Verify PROVE told'.verify
      <4>1. h \in Finish /\ h.verify
        BY <3>3 DEF Verify
      <4>2. Has(toPhone, Finish) /\ h \notin FinishOther(told.gen)
        BY <1>0, <3>1, <4>1, HasTake DEF OnePlace, EndedOnce, h
      <4>3. told.calibrating /\ h.gen = told.gen /\ h.name = "finished"
        BY <4>1, <4>2 DEF OnePlace, EndedOnce, Working, FinishOther, Finish
      <4>4. C!Mine(h)
        BY <4>3 DEF C!Mine
      <4>5. told' = [told EXCEPT !.calibrating = FALSE, !.verify = @ \/ h.verify]
        BY <2>4, <4>3, <4>4 DEF C!UiHandles, h
      <4> QED
        BY <4>1, <4>5, CalKnown
    <3>4. Has(toPhone, Verify) <=> h \in Verify \/ Has(Tail(toPhone), Verify)
      BY <1>0, <3>1, HasTake DEF h
    <3>5. Told' <=> told'.verify \/ Has(toPhone', Verify)
      BY DEF Told, Has, Verify, Finish, CalSignals
    <3> QED
      BY <3>1, <3>2, <3>3, <3>4, <3>5 DEF Told
  <2> QED
    BY <2>1, <2>2, <2>3, <2>4
<1>3. Excused => Excused'
  BY <1>1, <1>2 DEF Excused
<1> QED
  BY <1>1, <1>3, StagesStay

\* TcpClient begins: it asks for TEST.
LEMMA BeginStages ==
  ASSUME CalTypes, OnePlace, Stages, C!BeginDigitalCalibration
  PROVE  Stages'
<1> DEFINE h == Head(toAudio)
<1>0. /\ toAudio \in Seq(CalCalls) /\ toPhone \in Seq(CalSignals) /\ toAudio # <<>>
      /\ UNCHANGED <<told, shield, shown, locked, budget>>
      /\ h.name = "begin" /\ h \in CalCalls
  BY CalKnown DEF C!BeginDigitalCalibration, C!IoTakes, C!IoRest
<1>1. h \in Begin /\ h.gen \in 1 .. Calibrations
  BY <1>0 DEF Begin, CalCalls
<1>2. ptt.phase = "None"
  BY <1>0, <1>1, HasTake DEF OnePlace, BegunOnce
<1> HIDE DEF h
<1>3. CASE link
  <2>1. /\ ptt' = [phase |-> "ReadTest", gen |-> h.gen, restore |-> FALSE]
        /\ toRadio' = Append(toRadio, "TS") /\ toPhone' = toPhone
        /\ gate' = (gate \/ toRadio # <<>> \/ locked # <<>>)
    BY <1>2, <1>3 DEF C!BeginDigitalCalibration, h
  <2>2. Excused \in BOOLEAN /\ Excused' \in BOOLEAN /\ (Excused' <=> gate' \/ Told)
    <3>1. Told' = Told
      BY <1>0, <2>1 DEF Told, Has
    <3>2. Told \in BOOLEAN
      BY CalKnown DEF Told, Has
    <3> QED
      BY <2>1, <3>1, <3>2, CalKnown DEF Excused
  <2>3. Excused' \/ (~Excused /\ toRadio = <<>> /\ locked = <<>>)
    BY <2>1, <2>2 DEF Excused
  <2> SUFFICES ASSUME C!Untouched'
               PROVE  \E f : /\ Leads(toRadio', shown', f)
                             /\ Stage(ptt', toRadio', locked', shield', Excused', f)
    BY StagesFrom
  <2>4. PICK f : Leads(toRadio, shown, f) /\ Stage(ptt, toRadio, locked, shield, Excused, f)
    BY <1>0 DEF Stages, C!Untouched
  <2>5. ptt'.phase = "ReadTest" /\ ~ptt'.restore
    BY <2>1
  <2>6. PICK g : /\ Leads(Append(toRadio, "TS"), shown, g)
                 /\ Stage(ptt', Append(toRadio, "TS"), locked, shield, Excused', g)
    BY <1>2, <2>2, <2>3, <2>4, <2>5, CalKnown, Begins
  <2> QED
    BY <1>0, <2>1, <2>6
<1>4. CASE ~link
  <2>1. toPhone' = Append(toPhone, C!Finished(h.gen, FALSE)) /\ UNCHANGED <<ptt, toRadio, gate>>
    BY <1>4 DEF C!BeginDigitalCalibration, h
  <2>2. C!Finished(h.gen, FALSE) \in CalSignals
    BY <1>1 DEF C!Finished, CalSignals
  <2>3. Excused => Excused'
    BY <1>0, <2>1, <2>2, ToldStays DEF Excused
  <2>4. C!Untouched' => C!Untouched
    BY <1>0 DEF C!Untouched
  <2> QED
    BY <1>0, <2>1, <2>3, <2>4, StagesStay
<1> QED
  BY <1>3, <1>4, CalKnown

\* A calibration is wound up, with or without an answer that says so.
LEMMA FinishStages ==
  ASSUME CalTypes, Stages, ptt.phase \in {"ReadTest", "EnableTest", "Running"},
         C!FinishDigitalCalibration, UNCHANGED <<told, shield, shown, gate, budget>>,
         locked' = locked \/ (locked # <<>> /\ locked' = Tail(locked))
  PROVE  Stages'
<1>0. ptt.phase # "None" /\ toPhone \in Seq(CalSignals) /\ toRadio \in Seq(CatCommands)
      /\ locked \in Seq(CatAnswers)
  BY CalKnown
<1>1. /\ toRadio' = toRadio \o C!Closing
      /\ ptt.restore => ptt' = [ptt EXCEPT !.phase = "RestoreTest"] /\ toPhone' = toPhone
      /\ ~ptt.restore => /\ ptt' = [ptt EXCEPT !.phase = "None"]
                         /\ toPhone' = Append(toPhone, C!Finished(ptt.gen, FALSE))
  BY <1>0, Finishing
<1>2. Excused \in BOOLEAN /\ (Excused => Excused')
  <2>1. C!Finished(ptt.gen, FALSE) \in CalSignals
    <3>1. ptt.gen \in 1 .. Calibrations
      BY <1>0, CalKnown
    <3> QED
      BY <3>1 DEF C!Finished, CalSignals
  <2>2. toPhone' = toPhone \/ toPhone' = Append(toPhone, C!Finished(ptt.gen, FALSE))
    BY <1>1, CalKnown
  <2>3. Told => Told'
    BY <1>0, <2>1, <2>2, ToldStays
  <2>4. Excused \in BOOLEAN
    BY CalKnown DEF Excused, Told, Has
  <2> QED
    BY <2>3, <2>4 DEF Excused
<1> SUFFICES ASSUME C!Untouched'
             PROVE  \E f : /\ Leads(toRadio', shown', f)
                           /\ Stage(ptt', toRadio', locked', shield', Excused', f)
  BY StagesFrom
<1>3. PICK f : Leads(toRadio, shown, f) /\ Stage(ptt, toRadio, locked, shield, Excused, f)
  BY DEF Stages, C!Untouched
<1>4. CASE ptt.restore
  <2> DEFINE q3 == Append(Append(Append(toRadio, "RX"), "TS0"), "TS")
  <2>1. ptt'.phase = "RestoreTest" /\ ptt'.restore = ptt.restore
    BY <1>1, <1>4, CalKnown
  <2>2. toRadio' = q3
    BY <1>0, <1>1, <1>4, ClosingIs
  <2>3. PICK g : Leads(q3, shown, g) /\ Stage(ptt', q3, locked', shield, Excused, g)
    <3>1. /\ toRadio \in Seq(CatCommands) /\ Leads(toRadio, shown, f) /\ locked \in Seq(CatAnswers)
          /\ Excused \in BOOLEAN /\ Stage(ptt, toRadio, locked, shield, Excused, f)
          /\ locked' = locked \/ (locked # <<>> /\ locked' = Tail(locked))
      BY <1>0, <1>2, <1>3
    <3>2. Restores(ptt, ptt')
      BY <1>4, <2>1 DEF Restores
    <3> QED
      BY <3>1, <3>2, ClosesTest
  <2> HIDE DEF q3
  <2>5. Stage(ptt', q3, locked', shield, Excused', g)
    BY <1>2, <2>3, Excusing
  <2> QED
    BY <2>2, <2>3, <2>5
<1>5. CASE ~ptt.restore
  <2>1. ptt'.phase = "None"
    BY <1>1, <1>5, CalKnown
  <2>2. toRadio' = Append(toRadio, "RX")
    BY <1>0, <1>1, <1>5, ClosingIs
  <2>3. PICK g : /\ Leads(Append(toRadio, "RX"), shown, g)
                 /\ Stage(ptt', Append(toRadio, "RX"), locked', shield, Excused, g)
    <3>1. /\ toRadio \in Seq(CatCommands) /\ Leads(toRadio, shown, f) /\ locked \in Seq(CatAnswers)
          /\ Excused \in BOOLEAN /\ Stage(ptt, toRadio, locked, shield, Excused, f)
          /\ locked' = locked \/ (locked # <<>> /\ locked' = Tail(locked))
      BY <1>0, <1>2, <1>3
    <3>2. Ends(ptt, ptt')
      BY <1>5, <2>1 DEF Ends
    <3> QED
      BY <3>1, <3>2, Closes
  <2>4. Stage(ptt', Append(toRadio, "RX"), locked', shield, Excused', g)
    BY <1>2, <2>3, Excusing
  <2> QED
    BY <2>2, <2>3, <2>4
<1> QED
  BY <1>4, <1>5

\* An answer of the K4.
LEMMA AnswerStages ==
  ASSUME CalTypes, Stages, C!OnCatResponse
  PROVE  Stages'
<1> DEFINE h == Head(locked)
<1>0. /\ UNCHANGED <<told, shield, toAudio, shown, gate, budget>>
      /\ locked' = Tail(locked) /\ locked # <<>>
  BY DEF C!OnCatResponse, C!IoRest
<1>t. /\ toPhone \in Seq(CalSignals) /\ toRadio \in Seq(CatCommands) /\ locked \in Seq(CatAnswers)
      /\ Excused \in BOOLEAN
  BY CalKnown DEF Excused, Told, Has
<1>s. toPhone' = toPhone => Excused' = Excused
  BY <1>0 DEF Excused, Told, Has
<1> HIDE DEF h
<1>1. CASE ptt.phase # "None" /\ ptt.phase # "RestoreTest" /\ C!FinishDigitalCalibration
  <2>1. ptt.phase \in {"ReadTest", "EnableTest", "Running"}
    BY <1>1, CalKnown DEF Phases
  <2> QED
    BY <1>0, <1>1, <2>1, FinishStages
<1>2. CASE ~(ptt.phase # "None" /\ ptt.phase # "RestoreTest" /\ C!FinishDigitalCalibration)
  <2> SUFFICES ASSUME C!Untouched'
               PROVE  \E f : /\ Leads(toRadio', shown', f)
                             /\ Stage(ptt', toRadio', locked', shield', Excused', f)
    BY StagesFrom
  <2>1. PICK f : Leads(toRadio, shown, f) /\ Stage(ptt, toRadio, locked, shield, Excused, f)
    BY <1>0 DEF Stages, C!Untouched
  <2>2. CASE ptt.phase = "ReadTest" /\ ptt' = C!Read(h) /\ toRadio' = toRadio \o <<"TS1", "TS">>
             /\ UNCHANGED toPhone
    <3> DEFINE q2 == Append(Append(toRadio, "TS1"), "TS")
    <3>1. ptt'.phase = "EnableTest" /\ ptt'.restore = (h = "TS0")
      BY <2>2, CalKnown DEF C!Read
    <3>2. toRadio' = q2
      BY <1>t, <2>2, TwoSent DEF CatCommands
    <3>3. PICK g : Leads(q2, shown, g) /\ Stage(ptt', q2, Tail(locked), shield, Excused, g)
      BY <1>0, <1>t, <2>1, <2>2, <3>1, ReadsTest DEF h
    <3> HIDE DEF q2
    <3> QED
      BY <1>0, <1>s, <2>2, <3>2, <3>3
  <2>3. CASE /\ ptt.phase = "EnableTest" /\ ptt' = [ptt EXCEPT !.phase = "Running"]
             /\ toRadio' = Append(toRadio, "TX") /\ UNCHANGED toPhone
    <3>1. ptt'.phase = "Running" /\ ptt'.restore = ptt.restore
      BY <2>3, CalKnown
    <3>2. PICK g : /\ Leads(Append(toRadio, "TX"), shown, g)
                   /\ Stage(ptt', Append(toRadio, "TX"), Tail(locked), shield, Excused, g)
      <4>1. /\ toRadio \in Seq(CatCommands) /\ Leads(toRadio, shown, f) /\ locked \in Seq(CatAnswers)
            /\ locked # <<>> /\ Excused \in BOOLEAN
            /\ Stage(ptt, toRadio, locked, shield, Excused, f)
        BY <1>0, <1>t, <2>1
      <4>2. Keys(ptt, ptt')
        BY <2>3, <3>1 DEF Keys
      <4> QED
        BY <4>1, <4>2, KeysInTest
    <3> QED
      BY <1>0, <1>s, <2>3, <3>2
  <2>4. CASE ptt.phase = "RestoreTest" /\ h = "TS0" /\ C!Complete(FALSE) /\ UNCHANGED toRadio
    <3>1. ptt.phase # "None"
      BY <2>4
    <3>2. /\ ptt' = [ptt EXCEPT !.phase = "None"] /\ C!Finished(ptt.gen, FALSE) \in CalSignals
          /\ toPhone' = Append(toPhone, C!Finished(ptt.gen, FALSE))
      BY <2>4, <3>1, Completing
    <3>3. Excused => Excused'
      BY <1>0, <1>t, <3>2, ToldStays DEF Excused
    <3>4. ptt'.phase = "None"
      BY <3>2, CalKnown
    <3>5. Stage(ptt', toRadio, Tail(locked), shield, Excused, f)
      BY <1>0, <1>t, <2>1, <2>4, <3>4, IsBack DEF h
    <3>6. Stage(ptt', toRadio, Tail(locked), shield, Excused', f)
      BY <3>3, <3>5, Excusing
    <3> QED
      BY <1>0, <2>1, <2>4, <3>6
  <2>5. CASE ptt.phase # "ReadTest" /\ UNCHANGED <<ptt, toRadio, toPhone>>
    <3>1. Stage(ptt, toRadio, Tail(locked), shield, Excused, f)
      BY <1>0, <1>t, <2>1, <2>5, Ignores
    <3> QED
      BY <1>0, <1>s, <2>1, <2>5, <3>1
  <2> QED
    BY <1>2, <2>2, <2>3, <2>4, <2>5 DEF C!OnCatResponse, C!MayKey, h
<1> QED
  BY <1>1, <1>2

\* TcpClient is asked to stop, the guard ends the tone, or a deadline passes.
LEMMA EndStages ==
  ASSUME CalTypes, Stages, C!IoCancels \/ C!GuardEnds \/ C!DeadlinePasses
  PROVE  Stages'
<1>0. /\ UNCHANGED <<told, shield, shown, gate, budget, locked>>
      /\ toPhone \in Seq(CalSignals) /\ (C!Untouched' => C!Untouched)
  BY CalKnown DEF C!IoCancels, C!GuardEnds, C!DeadlinePasses, C!IoRest, C!Untouched
<1>1. CASE UNCHANGED <<ptt, toRadio, toPhone>>
  <2>1. Excused => Excused'
    BY <1>0, <1>1 DEF Excused, Told, Has
  <2> QED
    BY <1>0, <1>1, <2>1, StagesStay
<1>2. CASE ptt.phase \in {"ReadTest", "EnableTest", "Running"} /\ C!FinishDigitalCalibration
  BY <1>0, <1>2, FinishStages
<1>3. CASE ptt.phase = "RestoreTest" /\ C!Complete(TRUE) /\ UNCHANGED toRadio
  <2>1. ptt.phase # "None"
    BY <1>3
  <2>2. /\ ptt' = [ptt EXCEPT !.phase = "None"] /\ C!Finished(ptt.gen, TRUE) \in CalSignals
        /\ toPhone' = Append(toPhone, C!Finished(ptt.gen, TRUE))
    BY <1>3, <2>1, Completing
  <2>3. Excused'
    <3>1. C!Finished(ptt.gen, TRUE).name = "finished" /\ C!Finished(ptt.gen, TRUE).verify
      BY DEF C!Finished
    <3>2. Told'
      BY <1>0, <2>2, <3>1, Tells
    <3> QED
      BY <3>2 DEF Excused
  <2>4. ptt'.phase = "None"
    BY <2>2, CalKnown
  <2> SUFFICES ASSUME C!Untouched'
               PROVE  \E f : /\ Leads(toRadio', shown', f)
                             /\ Stage(ptt', toRadio', locked', shield', Excused', f)
    BY StagesFrom
  <2>5. PICK f : Leads(toRadio, shown, f) /\ Stage(ptt, toRadio, locked, shield, Excused, f)
    BY <1>0 DEF Stages
  <2>6. Stage(ptt', toRadio, locked, shield, Excused', f)
    BY <2>3, <2>4, <2>5 DEF Stage
  <2> QED
    BY <1>0, <1>3, <2>5, <2>6
<1>4. CASE C!IoCancels
  BY <1>1, <1>2, <1>4, CalKnown DEF C!IoCancels, Phases
<1>5. CASE C!GuardEnds
  BY <1>2, <1>5 DEF C!GuardEnds
<1>6. CASE C!DeadlinePasses
  BY <1>2, <1>3, <1>6 DEF C!DeadlinePasses
<1> QED
  BY <1>4, <1>5, <1>6

\* The connection is lost: the K4 receives, and is asked nothing more.
LEMMA LostStages ==
  ASSUME CalTypes, Stages, C!Disconnected
  PROVE  Stages'
<1>0. /\ UNCHANGED <<told, shield, gate, budget>>
      /\ toRadio' = <<>> /\ locked' = <<>> /\ shown' = [shown EXCEPT !.tx = FALSE]
      /\ shown \in RadioStates /\ toPhone \in Seq(CalSignals)
  BY CalKnown DEF C!Disconnected, C!history, RadioStates
<1>1. shown' \in RadioStates /\ ~shown'.tx /\ shown'.test = shown.test
  BY <1>0 DEF RadioStates
<1>2. IF ptt.phase = "None" THEN UNCHANGED <<ptt, toPhone>>
      ELSE Excused' /\ ptt' = [ptt EXCEPT !.phase = "None"]
  <2>1. CASE ptt.phase = "None"
    BY <2>1 DEF C!Disconnected
  <2>2. CASE ptt.phase # "None"
    <3>1. C!Complete(TRUE)
      BY <2>2 DEF C!Disconnected
    <3>2. /\ ptt' = [ptt EXCEPT !.phase = "None"] /\ C!Finished(ptt.gen, TRUE) \in CalSignals
          /\ toPhone' = Append(toPhone, C!Finished(ptt.gen, TRUE))
      BY <2>2, <3>1, Completing
    <3>3. C!Finished(ptt.gen, TRUE).name = "finished" /\ C!Finished(ptt.gen, TRUE).verify
      BY DEF C!Finished
    <3>4. Told'
      BY <1>0, <3>2, <3>3, Tells
    <3> QED
      BY <2>2, <3>2, <3>4 DEF Excused
  <2> QED
    BY <2>1, <2>2
<1>3. ptt'.phase = "None"
  BY <1>2, CalKnown
<1> SUFFICES ASSUME C!Untouched'
             PROVE  \E f : /\ Leads(toRadio', shown', f)
                           /\ Stage(ptt', toRadio', locked', shield', Excused', f)
  BY StagesFrom
<1>4. PICK f : Leads(toRadio, shown, f) /\ Stage(ptt, toRadio, locked, shield, Excused, f)
  BY <1>0 DEF Stages, C!Untouched
<1> DEFINE g == [i \in {0} |-> shown']
<1>5. Leads(<<>>, shown', g) /\ g[0] = shown' /\ DOMAIN g = {0}
  <2>1. Len(<<>>) = 0 /\ 0 .. 0 = {0} /\ 1 .. 0 = {}
    OBVIOUS
  <2> QED
    BY <1>1, <2>1 DEF Leads
<1> HIDE DEF g
<1>6. Quiet(g)
  BY <1>1, <1>5 DEF Quiet
<1>7. ASSUME ~Excused' PROVE Always(g, shield)
  <2>1. ptt.phase = "None" /\ ~Excused
    BY <1>0, <1>2, <1>7 DEF Excused, Told, Has
  <2>2. Always(f, shield)
    BY <1>4, <2>1 DEF Stage, Knows
  <2>3. 0 \in DOMAIN f /\ f[0] = shown
    <3>1. Len(toRadio) \in Nat
      BY CalKnown
    <3> QED
      BY <1>4, <3>1 DEF Leads
  <2> QED
    BY <1>1, <1>5, <2>2, <2>3 DEF Always
<1>8. Stage(ptt', <<>>, locked', shield', Excused', g)
  BY <1>0, <1>3, <1>6, <1>7 DEF Stage, Knows
<1> QED
  BY <1>0, <1>5, <1>8

\* The K4 obeys a command, or the operator touches TEST.
LEMMA RadioStages ==
  ASSUME CalTypes, Stages, C!K4Obeys \/ C!Touched
  PROVE  Stages'
<1>1. CASE C!K4Obeys
  <2> DEFINE c == Head(toRadio)
  <2>0. /\ UNCHANGED <<told, ptt, toPhone, shield, gate, budget>>
        /\ toRadio # <<>> /\ toRadio' = Tail(toRadio) /\ c \in CatCommands
        /\ toRadio \in Seq(CatCommands) /\ locked \in Seq(CatAnswers)
        /\ Excused \in BOOLEAN /\ Excused' = Excused
    BY <1>1, CalKnown DEF C!K4Obeys, C!history, Excused, Told, Has
  <2>1. shown' = Obey(shown, c)
    <3>1. CASE c = "TS"
      BY <1>1, <3>1 DEF C!K4Obeys, Obey
    <3>2. CASE c \in {"TS0", "TS1"}
      BY <1>1, <3>2 DEF C!K4Obeys, Obey
    <3>3. CASE c \in {"RX", "TX"}
      BY <1>1, <3>3 DEF C!K4Obeys, Obey
    <3> QED
      BY <2>0, <3>1, <3>2, <3>3 DEF CatCommands
  <2>2. /\ c = "TS" => locked' = Append(locked, IF shown.test THEN "TS1" ELSE "TS0")
        /\ c # "TS" => locked' = locked
    <3>1. CASE c = "TS"
      BY <1>1, <3>1 DEF C!K4Obeys
    <3>2. CASE c \in {"TS0", "TS1"}
      BY <1>1, <3>2 DEF C!K4Obeys
    <3>3. CASE c \in {"RX", "TX"}
      BY <1>1, <3>3 DEF C!K4Obeys
    <3> QED
      BY <2>0, <3>1, <3>2, <3>3 DEF CatCommands
  <2> SUFFICES ASSUME C!Untouched'
               PROVE  \E f : /\ Leads(toRadio', shown', f)
                             /\ Stage(ptt', toRadio', locked', shield', Excused', f)
    BY StagesFrom
  <2>3. PICK f : Leads(toRadio, shown, f) /\ Stage(ptt, toRadio, locked, shield, Excused, f)
    BY <2>0 DEF Stages, C!Untouched
  <2>4. PICK g : /\ Leads(Tail(toRadio), Obey(shown, Head(toRadio)), g)
                 /\ Stage(ptt, Tail(toRadio), locked', shield, Excused, g)
    BY <2>0, <2>2, <2>3, Obeys
  <2> QED
    BY <2>0, <2>1, <2>4
<1>2. CASE C!Touched
  <2>1. budget' = [budget EXCEPT !["touch"] = @ - 1] /\ budget["touch"] > 0
    BY <1>2 DEF C!Touched, C!Spends
  <2>2. budget.touch \in 0 .. Touches /\ budget'.touch = budget.touch - 1
    BY <2>1, CalKnown
  <2>3. ~C!Untouched'
    BY <2>2, CalibrationBounds DEF C!Untouched
  <2> QED
    BY <2>3, StagesFrom
<1> QED
  BY <1>1, <1>2

-----------------------------------------------------------------------------
CalInv == CalTypes /\ OnePlace /\ Stages

\* Nothing is under way, and the K4 is in the TEST it is found in.
LEMMA CalibrationBegins ==
  ASSUME C!Init
  PROVE  CalInv
<1>1. /\ told = [calibrating |-> FALSE, started |-> FALSE, gen |-> 0, verify |-> FALSE]
      /\ granted = 0 /\ ptt = [phase |-> "None", gen |-> 0, restore |-> FALSE]
      /\ link = TRUE /\ toAudio = <<>> /\ toPhone = <<>> /\ toRadio = <<>> /\ locked = <<>>
      /\ shield \in BOOLEAN /\ shown = [test |-> shield, tx |-> FALSE] /\ gate = FALSE
      /\ budget = [cancel |-> Cancels, touch |-> Touches]
  BY DEF C!Init
<1>2. CalTypes
  <2>1. 0 \in 0 .. Calibrations /\ Cancels \in 0 .. Cancels /\ Touches \in 0 .. Touches
    BY CalibrationBounds
  <2>2. /\ toPhone \in Seq(CalSignals) /\ toAudio \in Seq(CalCalls)
        /\ toRadio \in Seq(CatCommands) /\ locked \in Seq(CatAnswers)
    BY <1>1
  <2> QED
    BY <1>1, <2>1, <2>2 DEF CalTypes, Phases
<1>3. OnePlace
  <2>1. DOMAIN toAudio = {} /\ DOMAIN toPhone = {}
    BY <1>1
  <2>2. \A S : ~Has(toAudio, S) /\ ~Has(toPhone, S) /\ Once(toAudio, S) /\ Once(toPhone, S)
    BY <2>1 DEF Has, Once
  <2>3. BegunOnce /\ EndedOnce
    BY <2>2 DEF BegunOnce, EndedOnce
  <2>4. WorkedOn /\ PreparedOnce
    BY <1>1, <2>2 DEF WorkedOn, PreparedOnce, Working
  <2> QED
    BY <2>3, <2>4 DEF OnePlace
<1>4. Stages
  <2> DEFINE f == [i \in {0} |-> shown]
  <2>1. Leads(toRadio, shown, f) /\ f[0] = shown /\ DOMAIN f = {0}
    <3>1. Len(toRadio) = 0 /\ 0 .. 0 = {0} /\ 1 .. 0 = {}
      BY <1>1
    <3>2. shown \in RadioStates
      BY <1>1 DEF RadioStates
    <3> QED
      BY <3>1, <3>2 DEF Leads
  <2> HIDE DEF f
  <2>2. Quiet(f) /\ Always(f, shield)
    BY <1>1, <2>1 DEF Quiet, Always
  <2>3. Stage(ptt, toRadio, locked, shield, Excused, f)
    BY <1>1, <2>2 DEF Stage, Knows
  <2> QED
    BY <2>1, <2>3 DEF Stages
<1> QED
  BY <1>2, <1>3, <1>4 DEF CalInv

\* A step of a calibration, for every one of its actions.
LEMMA CalibrationKeeps ==
  ASSUME CalInv, part = "calibration", [AllNext]_all
  PROVE  CalInv'
<1>1. CASE UNCHANGED all
  <2>1. /\ UNCHANGED <<told, granted, ptt, link, toAudio, toPhone, shown, toRadio, locked, shield, gate>>
        /\ budget' = budget
    BY <1>1 DEF all, vars, session, control, engine, wire
  <2>2. CalTypes'
    BY <2>1 DEF CalInv, CalTypes
  <2>3. OnePlace'
    BY <2>1 DEF CalInv, OnePlace, BegunOnce, EndedOnce, WorkedOn, PreparedOnce, Working
  <2>4. Stages'
    <3>1. Excused' = Excused /\ C!Untouched' = C!Untouched
      BY <2>1 DEF Excused, Told, Has, C!Untouched
    <3> QED
      BY <2>1, <3>1, StagesStay DEF CalInv
  <2> QED
    BY <2>2, <2>3, <2>4 DEF CalInv
<1>2. CASE AllNext
  <2>1. ~Ptt /\ ~Connection /\ ~Mode /\ ~Loudspeaker
    BY DEF Ptt, Connection, Mode, Loudspeaker
  <2>2. C!Next
    BY <1>2, <2>1 DEF AllNext, C!Next
  <2>3. CalTypes' /\ OnePlace'
    BY <2>2, InPlace DEF CalInv
  <2>4. Stages'
    BY <2>2, UiStages, BeginStages, AnswerStages, EndStages, LostStages, RadioStages
    DEF CalInv, C!Next
  <2> QED
    BY <2>3, <2>4 DEF CalInv
<1> QED
  BY <1>1, <1>2

\* Whatever is stopped, late, lost or touched in whatever order, CalInv holds.
LEMMA CalibrationIsOrderly == AllSpec => [](part = "calibration" => CalInv)
<1> DEFINE OfCalibration == part = "calibration" => CalInv
<1>1. AllInit => OfCalibration
  BY CalibrationBegins DEF AllInit
<1>2. OfCalibration /\ [AllNext]_all => OfCalibration'
  <2>1. [AllNext]_all => part' = part
    BY DEF AllNext, all, Ptt, Connection, Mode, Calibration, Loudspeaker
  <2> QED
    BY <2>1, CalibrationKeeps
<1> HIDE DEF OfCalibration
<1>3. AllSpec => []OfCalibration
  BY <1>1, <1>2, PTL DEF AllSpec
<1> QED
  BY <1>3 DEF OfCalibration

(***************************************************************************)
(* The calibration tone sounds in the K4's TEST mode only, and once all    *)
(* has come to rest TEST is as it was before or the screen says to verify  *)
(* it: for any number of calibrations and stops, with answers of any age,  *)
(* unless the operator switches TEST at the radio (and, of the second, if  *)
(* no calibration began among the answers to another).                     *)
(***************************************************************************)
THEOREM ToneKeepsToTest == AllSpec => []TestIsKept
<1>1. ASSUME part = "calibration" => CalInv PROVE TestIsKept
  <2> SUFFICES ASSUME CalInv PROVE C!ToneInTest /\ C!TestRestored
    BY <1>1 DEF TestIsKept
  <2>1. SUFFICES ASSUME C!Untouched
                 PROVE  /\ shown.tx => shown.test
                        /\ C!AtRest /\ ~gate => C!RestoredOrTold
    BY DEF C!ToneInTest, C!TestRestored
  <2>2. PICK f : Leads(toRadio, shown, f) /\ Stage(ptt, toRadio, locked, shield, Excused, f)
    BY <2>1 DEF CalInv, Stages
  <2>3. 0 \in DOMAIN f /\ f[0] = shown
    <3>1. Len(toRadio) \in Nat
      BY DEF CalInv, CalTypes
    <3> QED
      BY <2>2, <3>1 DEF Leads
  <2>4. shown.tx => shown.test
    BY <2>2, <2>3 DEF Stage, Quiet
  <2>5. ASSUME C!AtRest, ~gate PROVE C!RestoredOrTold
    <3>1. toPhone = <<>> /\ ptt.phase = "None"
      BY <2>5 DEF C!AtRest
    <3>2. Told <=> told.verify
      BY <3>1 DEF Told, Has
    <3>3. ~told.verify => Always(f, shield)
      BY <2>2, <2>5, <3>1, <3>2 DEF Stage, Knows, Excused
    <3>4. ~told.verify => (shown.test <=> shield)
      BY <2>3, <3>3 DEF Always
    <3>5. shown.test \in BOOLEAN /\ shield \in BOOLEAN
      BY DEF CalInv, CalTypes
    <3> QED
      BY <3>4, <3>5 DEF C!RestoredOrTold
  <2> QED
    BY <2>4, <2>5
<1> QED
  BY <1>1, CalibrationIsOrderly, PTL

(***************************************************************************)
(* A calibration keeps its types, and no phase of one runs without the     *)
(* connection: for any number of calibrations, stops and touches.          *)
(***************************************************************************)
THEOREM CalibrationTyped == AllSpec => [](part = "calibration" => C!TypeOK)
<1>1. ASSUME part = "calibration" => CalInv PROVE part = "calibration" => C!TypeOK
  BY <1>1, CalTyped DEF CalInv
<1> QED
  BY <1>1, CalibrationIsOrderly, PTL

-----------------------------------------------------------------------------
(***************************************************************************)
(* Playback.  Here toAudio is the jitter buffer, shown the rest of a       *)
(* packet, gate the stretch written last, digital whether its rest was     *)
(* discarded on purpose, locked the track and shield the packets that came *)
(* in; granted counts the bytes in the buffer.                             *)
(***************************************************************************)
Buffered == [packet : Nat, size : Nat \ {0}]
Stretch == [packet : Nat, from : Nat, to : Nat, size : Nat]

PlayTypes ==
  /\ toAudio \in Seq(Buffered) /\ shown \in Stretch /\ gate \in Stretch
  /\ locked \in -1 .. Room /\ shield \in Nat
  /\ ptt \in BOOLEAN /\ link \in BOOLEAN /\ digital \in BOOLEAN

\* Packets wait in the order they came in, and none was written yet.
Waiting(q, last, most) ==
  /\ \A i \in DOMAIN q : last < q[i].packet /\ q[i].packet <= most
  /\ \A i, j \in DOMAIN q : i < j => q[i].packet < q[j].packet

\* What was written last and what of it still waits.
Resting(rest, w, c) ==
  IF rest = L!None THEN w.to = w.size \/ c
  ELSE /\ rest.from <= rest.size /\ rest.from > 0
       /\ \/ rest.packet = w.packet /\ rest.from = w.to + 1 /\ rest.size = w.size
          \/ rest.packet > w.packet /\ rest.from = 1 /\ (w.to = w.size \/ c)
Latest == IF shown = L!None THEN gate.packet ELSE shown.packet

\* The counter that the limits of the buffer are compared with.
Counted == granted = L!Total(toAudio) /\ granted \in 0 .. MaxQueue

PlayInv ==
  /\ PlayTypes
  /\ Counted
  /\ Waiting(toAudio, Latest, shield)
  /\ Latest <= shield /\ gate.packet <= shield
  /\ Resting(shown, gate, digital)

\* The bytes of the first packets, up to any of them.
Running(q, f) == f[0] = 0 /\ \A i \in 1 .. Len(q) : f[i] = f[i - 1] + q[i].size

\* They are numbers.
LEMMA Sums ==
  ASSUME NEW q \in Seq(Buffered)
  PROVE  \A k \in Nat : k <= Len(q) =>
           \E g \in [0 .. k -> Nat] : g[0] = 0 /\ \A i \in 1 .. k : g[i] = g[i - 1] + q[i].size
<1> DEFINE Up(k, g) == g[0] = 0 /\ \A i \in 1 .. k : g[i] = g[i - 1] + q[i].size
           T == {k \in Nat : k <= Len(q) => \E g \in [0 .. k -> Nat] : Up(k, g)}
<1>1. 0 \in T
  <2>1. [i \in 0 .. 0 |-> 0] \in [0 .. 0 -> Nat] /\ Up(0, [i \in 0 .. 0 |-> 0])
    OBVIOUS
  <2> QED
    BY <2>1
<1>2. ASSUME NEW k \in T PROVE k + 1 \in T
  <2>1. k \in Nat /\ Len(q) \in Nat /\ k + 1 \in Nat
    OBVIOUS
  <2> HIDE DEF Up
  <2> SUFFICES ASSUME k + 1 <= Len(q) PROVE \E h \in [0 .. k + 1 -> Nat] : Up(k + 1, h)
    BY <2>1
  <2>2. PICK g \in [0 .. k -> Nat] : Up(k, g)
    BY <2>1
  <2> USE DEF Up
  <2>3. q[k + 1].size \in Nat
    <3>1. q[k + 1] \in Buffered
      BY <2>1
    <3> QED
      BY <3>1 DEF Buffered
  <2> DEFINE h == [i \in 0 .. k + 1 |-> IF i = k + 1 THEN g[k] + q[k + 1].size ELSE g[i]]
  <2>4. g[k] \in Nat
    BY <2>1
  <2>5. h \in [0 .. k + 1 -> Nat]
    BY <2>1, <2>3, <2>4
  <2>6. \A i \in 0 .. k : h[i] = g[i]
    BY <2>1
  <2>7. h[k + 1] = g[k] + q[k + 1].size
    BY <2>1
  <2>8. Up(k + 1, h)
    <3>1. ASSUME NEW i \in 1 .. k + 1 PROVE h[i] = h[i - 1] + q[i].size
      <4>1. CASE i = k + 1
        BY <2>1, <2>6, <2>7, <4>1
      <4>2. CASE i # k + 1
        <5>1. i \in 1 .. k /\ i - 1 \in 0 .. k /\ i \in 0 .. k
          BY <2>1, <4>2
        <5>2. h[i] = g[i] /\ h[i - 1] = g[i - 1] /\ g[i] = g[i - 1] + q[i].size
          BY <2>2, <2>6, <5>1
        <5> QED
          BY <5>2
      <4> QED
        BY <4>1, <4>2
    <3>2. h[0] = 0
      BY <2>1, <2>2, <2>6
    <3> QED
      BY <3>1, <3>2
  <2> QED
    BY <2>5, <2>8
<1> HIDE DEF Up
<1>3. T \in SUBSET Nat
  OBVIOUS
<1> HIDE DEF T
<1>4. \A k \in Nat : k \in T
  BY <1>1, <1>2, <1>3, EveryNumber
<1> QED
  BY <1>4 DEF T, Up

\* Sums of the same numbers are the same.
SumsOf(a, n, f) == \A i \in 1 .. n : f[i] = f[i - 1] + a[i]
LEMMA SameSums ==
  ASSUME NEW n \in Nat, NEW f, NEW g, NEW a, f[0] = g[0], SumsOf(a, n, f), SumsOf(a, n, g)
  PROVE  \A i \in 0 .. n : f[i] = g[i]
<1> DEFINE T == {k \in Nat : k <= n => f[k] = g[k]}
<1>1. 0 \in T
  OBVIOUS
<1>2. ASSUME NEW k \in T PROVE k + 1 \in T
  <2>1. k \in Nat /\ k + 1 \in Nat
    OBVIOUS
  <2> SUFFICES ASSUME k + 1 <= n PROVE f[k + 1] = g[k + 1]
    BY <2>1
  <2>2. k + 1 \in 1 .. n /\ (k + 1) - 1 = k /\ f[k] = g[k]
    BY <2>1
  <2> QED
    BY <2>2 DEF SumsOf
<1>3. T \in SUBSET Nat
  OBVIOUS
<1> HIDE DEF T
<1>4. \A k \in Nat : k \in T
  BY <1>1, <1>2, <1>3, EveryNumber
<1> QED
  BY <1>4 DEF T

\* The total of the packets is the last of these.
LEMMA Totals ==
  ASSUME NEW q \in Seq(Buffered)
  PROVE  \E f \in [0 .. Len(q) -> Nat] : Running(q, f) /\ L!Total(q) = f[Len(q)]
<1> DEFINE Bytes(f) == [n \in 0 .. Len(q) |-> IF n = 0 THEN 0 ELSE f[n - 1] + q[n].size]
           h == CHOOSE f : f = Bytes(f)
<1>0. Len(q) \in Nat
  OBVIOUS
<1>1. PICK g \in [0 .. Len(q) -> Nat] : Running(q, g)
  BY <1>0, Sums DEF Running
<1>2. g = Bytes(g)
  <2>1. DOMAIN g = 0 .. Len(q) /\ g = [n \in 0 .. Len(q) |-> g[n]]
    OBVIOUS
  <2>2. \A n \in 0 .. Len(q) : g[n] = IF n = 0 THEN 0 ELSE g[n - 1] + q[n].size
    BY <1>0, <1>1 DEF Running
  <2> QED
    BY <2>1, <2>2
<1>3. h = Bytes(h)
  <2> HIDE DEF Bytes
  <2> QED
    BY <1>2
<1>4. L!Total(q) = h[Len(q)]
  BY DEF L!Total
<1> HIDE DEF h
<1>5. \A n \in 0 .. Len(q) : h[n] = IF n = 0 THEN 0 ELSE h[n - 1] + q[n].size
  <2>1. \A n \in 0 .. Len(q) : Bytes(h)[n] = IF n = 0 THEN 0 ELSE h[n - 1] + q[n].size
    OBVIOUS
  <2> HIDE DEF Bytes
  <2> QED
    BY <1>3, <2>1
<1>6. h[Len(q)] = g[Len(q)]
  <2> DEFINE a == [i \in 1 .. Len(q) |-> q[i].size]
  <2>1. h[0] = g[0]
    BY <1>0, <1>1, <1>5 DEF Running
  <2>2. SumsOf(a, Len(q), h) /\ SumsOf(a, Len(q), g)
    BY <1>0, <1>1, <1>5 DEF Running, SumsOf
  <2> HIDE DEF a
  <2>3. \A i \in 0 .. Len(q) : h[i] = g[i]
    BY <1>0, <2>1, <2>2, SameSums
  <2> QED
    BY <1>0, <2>3
<1> QED
  BY <1>1, <1>4, <1>6

\* It is a number.
LEMMA TotalIsNatural == ASSUME NEW q \in Seq(Buffered) PROVE L!Total(q) \in Nat
<1>1. PICK f \in [0 .. Len(q) -> Nat] : L!Total(q) = f[Len(q)]
  BY Totals
<1> QED
  BY <1>1

\* No packets.
LEMMA TotalOfNone == L!Total(<<>>) = 0
<1>1. <<>> \in Seq(Buffered) /\ Len(<<>>) = 0
  OBVIOUS
<1> QED
  BY <1>1, Totals DEF Running

\* One packet more.
LEMMA TotalOfMore ==
  ASSUME NEW q \in Seq(Buffered), NEW p \in Buffered
  PROVE  L!Total(Append(q, p)) = L!Total(q) + p.size
<1> DEFINE r == Append(q, p)
           n == Len(q)
           a == [i \in 1 .. n |-> q[i].size]
<1>1. /\ r \in Seq(Buffered) /\ n \in Nat /\ Len(r) = n + 1 /\ r[n + 1] = p
      /\ \A i \in 1 .. n : r[i] = q[i]
  OBVIOUS
<1> HIDE DEF r
<1>2. PICK f \in [0 .. n -> Nat] : Running(q, f) /\ L!Total(q) = f[n]
  BY Totals
<1>3. PICK g \in [0 .. n + 1 -> Nat] : Running(r, g) /\ L!Total(r) = g[n + 1]
  BY <1>1, Totals
<1>4. f[0] = g[0]
  BY <1>2, <1>3 DEF Running
<1>5. SumsOf(a, n, f) /\ SumsOf(a, n, g)
  BY <1>1, <1>2, <1>3 DEF Running, SumsOf
<1> HIDE DEF a
<1>6. f[n] = g[n]
  <2>1. n \in Nat /\ n \in 0 .. n
    BY <1>1
  <2>2. \A i \in 0 .. n : f[i] = g[i]
    BY <2>1, <1>4, <1>5, SameSums, ZenonT(40)
  <2> QED
    BY <2>1, <2>2
<1>7. g[n + 1] = g[(n + 1) - 1] + r[n + 1].size
  BY <1>1, <1>3 DEF Running
<1>8. (n + 1) - 1 = n
  BY <1>1
<1>9. L!Total(r) = L!Total(q) + p.size
  BY <1>1, <1>2, <1>3, <1>6, <1>7, <1>8
<1> QED
  BY <1>9 DEF r

\* The first packet less.
LEMMA TotalOfRest ==
  ASSUME NEW q \in Seq(Buffered), q # <<>>
  PROVE  L!Total(Tail(q)) = L!Total(q) - Head(q).size /\ L!Total(q) \in Nat
<1> DEFINE r == Tail(q)
           n == Len(r)
           a == [i \in 1 .. n |-> r[i].size]
<1>1. /\ r \in Seq(Buffered) /\ n \in Nat /\ Len(q) = n + 1 /\ Head(q) = q[1]
      /\ \A i \in 1 .. n : r[i] = q[i + 1]
      /\ q[1] \in Buffered
  OBVIOUS
<1> HIDE DEF r
<1>2. PICK f \in [0 .. n + 1 -> Nat] : Running(q, f) /\ L!Total(q) = f[n + 1]
  BY <1>1, Totals
<1>3. PICK g \in [0 .. n -> Nat] : Running(r, g) /\ L!Total(r) = g[n]
  BY <1>1, Totals
<1> DEFINE u == [i \in 0 .. n |-> f[i + 1]]
           v == [i \in 0 .. n |-> g[i] + q[1].size]
<1>4. q[1].size \in Nat
  BY <1>1 DEF Buffered
<1>5. f[1] = q[1].size /\ g[0] = 0
  <2>1. 1 \in 1 .. Len(q)
    BY <1>1
  <2>2. f[1] = f[1 - 1] + q[1].size
    BY <1>2, <2>1 DEF Running
  <2>3. f[0] = 0 /\ g[0] = 0
    BY <1>2, <1>3 DEF Running
  <2> QED
    BY <1>4, <2>2, <2>3
<1>6. u[0] = v[0]
  BY <1>1, <1>4, <1>5
<1>7. ASSUME NEW i \in 1 .. n PROVE u[i] = u[i - 1] + a[i] /\ v[i] = v[i - 1] + a[i]
  <2>1. i \in 0 .. n /\ i - 1 \in 0 .. n /\ i + 1 \in 1 .. Len(q) /\ (i - 1) + 1 = i
        /\ (i + 1) - 1 = i /\ i \in 1 .. Len(r) /\ i \in 0 .. n + 1
    BY <1>1
  <2>2. f[i + 1] = f[(i + 1) - 1] + q[i + 1].size
    BY <1>2, <2>1 DEF Running
  <2>3. g[i] = g[i - 1] + r[i].size
    BY <1>3, <2>1 DEF Running
  <2>4. a[i] = r[i].size /\ r[i] = q[i + 1] /\ r[i] \in Buffered
    BY <1>1, <2>1
  <2>5. g[i - 1] \in Nat /\ f[i] \in Nat
    BY <1>1, <2>1
  <2>6. r[i].size \in Nat
    BY <2>4 DEF Buffered
  <2>7. u[i] = f[i + 1] /\ u[i - 1] = f[i] /\ v[i] = g[i] + q[1].size /\ v[i - 1] = g[i - 1] + q[1].size
    BY <2>1
  <2>8. f[i + 1] = f[i] + a[i] /\ g[i] = g[i - 1] + a[i] /\ a[i] \in Nat
    BY <2>1, <2>2, <2>3, <2>4, <2>6
  <2> HIDE DEF u, v
  <2> QED
    BY <1>4, <2>5, <2>7, <2>8
<1> HIDE DEF a
<1>8. u[n] = v[n]
  <2> HIDE DEF u, v
  <2>0. SumsOf(a, n, u) /\ SumsOf(a, n, v)
    BY <1>7 DEF SumsOf
  <2>1. \A i \in 0 .. n : u[i] = v[i]
    BY <1>1, <1>6, <2>0, SameSums
  <2> QED
    BY <1>1, <2>1
<1>9. f[n + 1] = g[n] + q[1].size /\ f[n + 1] \in Nat /\ g[n] \in Nat
  BY <1>1, <1>8
<1>10. L!Total(r) = L!Total(q) - q[1].size /\ L!Total(q) \in Nat
  BY <1>2, <1>3, <1>4, <1>9
<1> QED
  BY <1>1, <1>10 DEF r

\* Nothing waits.
LEMMA NoStretch ==
  /\ L!None \in Stretch /\ L!None.packet = 0 /\ L!None.from = 1
  /\ L!None.to = 0 /\ L!None.size = 0
BY DEF L!None, Stretch

\* What is left of the jitter buffer when old packets are taken off.
LEMMA Trimming ==
  ASSUME NEW q \in Seq(Buffered), NEW most, NEW r \in L!Trim(q, most),
         NEW last \in Nat, NEW n \in Nat, Waiting(q, last, n)
  PROVE  /\ r \in Seq(Buffered) /\ Waiting(r, last, n)
         /\ r = <<>> \/ L!Total(r) <= most
<1>1. PICK k \in 0 .. Len(q) : /\ r = SubSeq(q, k + 1, Len(q))
                               /\ k = Len(q) \/ L!Total(r) <= most
  BY DEF L!Trim
<1>2. /\ r \in Seq(Buffered) /\ DOMAIN r = 1 .. Len(q) - k /\ DOMAIN q = 1 .. Len(q)
      /\ Len(q) \in Nat /\ \A i \in 1 .. Len(q) - k : r[i] = q[k + i]
  BY <1>1
<1>3. \A i \in 1 .. Len(q) - k : k + i \in DOMAIN q
  BY <1>2
<1>4. \A i, j \in 1 .. Len(q) - k : i < j => k + i < k + j
  BY <1>2
<1>5. \A i \in DOMAIN r : last < r[i].packet /\ r[i].packet <= n
  BY <1>2, <1>3 DEF Waiting
<1>6. \A i, j \in DOMAIN r : i < j => r[i].packet < r[j].packet
  BY <1>2, <1>3, <1>4 DEF Waiting
<1>7. k = Len(q) => r = <<>>
  BY <1>1, <1>2
<1> QED
  BY <1>1, <1>2, <1>5, <1>6, <1>7 DEF Waiting

\* A packet comes in: old ones go, and it waits behind the others.
LEMMA EnqueueKeeps ==
  ASSUME PlayInv, NEW size \in Sizes, L!Enqueue(size)
  PROVE  PlayInv'
<1> DEFINE p == [packet |-> shield + 1, size |-> size]
<1>1. shield' = shield + 1 /\ UNCHANGED <<shown, gate, digital, locked, ptt, link>>
  BY DEF L!Enqueue
<1>2. PICK calm \in L!Calm(size) :
        \E room \in L!Trim(calm, MaxQueue - size) :
          /\ toAudio' = Append(room, p)
          /\ granted' = granted - L!Total(toAudio) + L!Total(room) + size
  BY Zenon DEF L!Enqueue
<1>2a. PICK room \in L!Trim(calm, MaxQueue - size) :
         /\ toAudio' = Append(room, p)
         /\ granted' = granted - L!Total(toAudio) + L!Total(room) + size
  BY <1>2
<1>3. size \in Nat \ {0} /\ size <= MaxQueue /\ MaxQueue \in Nat
  BY PlaybackBounds
<1>4. Latest \in Nat /\ shield \in Nat /\ toAudio \in Seq(Buffered) /\ Waiting(toAudio, Latest, shield)
  BY DEF PlayInv, PlayTypes, Stretch, Latest
<1>5. calm \in Seq(Buffered) /\ Waiting(calm, Latest, shield)
  BY <1>2, <1>3, <1>4, Trimming DEF L!Calm
<1>6. /\ room \in Seq(Buffered) /\ Waiting(room, Latest, shield)
      /\ room = <<>> \/ L!Total(room) <= MaxQueue - size
  BY <1>2a, <1>3, <1>4, <1>5, Trimming
<1>7. p \in Buffered /\ p.packet = shield + 1 /\ p.size = size
  BY <1>3, <1>4 DEF Buffered
<1> HIDE DEF p
<1>8. /\ toAudio' \in Seq(Buffered) /\ DOMAIN room = 1 .. Len(room) /\ Len(room) \in Nat
      /\ DOMAIN toAudio' = 1 .. Len(room) + 1 /\ toAudio'[Len(room) + 1] = p
      /\ \A i \in 1 .. Len(room) : toAudio'[i] = room[i]
  BY <1>2a, <1>6, <1>7
<1>9. Latest' = Latest
  BY <1>1 DEF Latest
<1>10. Waiting(toAudio', Latest, shield')
  <2>1. \A i \in DOMAIN room : room[i] \in Buffered /\ room[i].packet \in Nat
    <3>1. \A i \in DOMAIN room : room[i] \in Buffered
      BY <1>6
    <3> QED
      BY <3>1 DEF Buffered
  <2>2. \A i \in DOMAIN toAudio' : Latest < toAudio'[i].packet /\ toAudio'[i].packet <= shield'
    <3>1. Latest <= shield
      BY DEF PlayInv
    <3>2. \A i \in 1 .. Len(room) : Latest < room[i].packet /\ room[i].packet <= shield
      BY <1>6, <1>8 DEF Waiting
    <3>3. Latest < p.packet /\ p.packet <= shield'
      BY <1>1, <1>4, <1>7, <3>1
    <3>4. ASSUME NEW i \in 1 .. Len(room)
          PROVE  Latest < toAudio'[i].packet /\ toAudio'[i].packet <= shield'
      <4>1. toAudio'[i] = room[i] /\ room[i].packet \in Nat
        BY <1>8, <2>1
      <4> QED
        BY <1>1, <1>4, <3>2, <4>1
    <3> QED
      BY <1>8, <3>3, <3>4
  <2>3. ASSUME NEW i \in DOMAIN toAudio', NEW j \in DOMAIN toAudio', i < j
        PROVE  toAudio'[i].packet < toAudio'[j].packet
    <3>1. i \in 1 .. Len(room) /\ toAudio'[i] = room[i]
      BY <1>8, <2>3
    <3>2. room[i].packet \in Nat /\ room[i].packet <= shield
      BY <1>6, <1>8, <2>1, <3>1 DEF Waiting
    <3>3. CASE j = Len(room) + 1
      BY <1>4, <1>7, <1>8, <3>1, <3>2, <3>3
    <3>4. CASE j \in 1 .. Len(room)
      <4>1. toAudio'[j] = room[j]
        BY <1>8, <3>4
      <4> QED
        BY <1>6, <1>8, <2>3, <3>1, <3>4, <4>1 DEF Waiting
    <3> QED
      BY <1>8, <3>3, <3>4
  <2> QED
    BY <2>2, <2>3 DEF Waiting
<1>11. Counted'
  <2>1. L!Total(toAudio') = L!Total(room) + size
    BY <1>2a, <1>6, <1>7, TotalOfMore
  <2>2. L!Total(room) \in Nat /\ L!Total(room) <= MaxQueue - size
    BY <1>3, <1>6, TotalOfNone, TotalIsNatural
  <2>3. granted = L!Total(toAudio) /\ granted \in Nat
    BY PlaybackBounds DEF PlayInv, Counted
  <2>4. granted' = L!Total(room) + size
    BY <1>2a, <1>3, <2>2, <2>3
  <2> QED
    BY <1>3, <2>1, <2>2, <2>4 DEF Counted
<1> QED
  BY <1>1, <1>4, <1>8, <1>9, <1>10, <1>11 DEF PlayInv, PlayTypes, Stretch


\* A stretch of a packet, as much of it as the track takes, is written.
LEMMA Written ==
  ASSUME NEW s \in Stretch, s # L!None, NEW taken \in -1 .. Room, L!Accepts(s, taken),
         L!Writes(s, taken), PlayTypes,
         Resting(s, gate, digital)
  PROVE  /\ taken \in Int /\ taken <= s.size - s.from + 1
         /\ locked' \in -1 .. Room /\ gate' \in Stretch /\ digital' \in BOOLEAN
         /\ taken <= 0 => UNCHANGED <<gate, digital, locked>>
         /\ taken > 0 => gate' = [s EXCEPT !.to = s.from + taken - 1] /\ digital' = FALSE
         /\ L!Continues
<1>1. /\ s.packet \in Nat /\ s.from \in Nat /\ s.to \in Nat /\ s.size \in Nat
      /\ locked \in -1 .. Room /\ Room \in Nat /\ s.from <= s.size /\ s.from > 0
  BY PlaybackBounds DEF Stretch, PlayTypes, Resting
<1>2. taken \in Int /\ taken <= s.size - s.from + 1 /\ (taken > 0 => taken <= locked)
  BY <1>1, PlaybackBounds DEF L!Accepts, L!Least
<1>3. CASE taken <= 0
  BY <1>2, <1>3 DEF L!Writes, PlayTypes, L!Continues
<1>4. CASE taken > 0
  <2>1. gate' = [s EXCEPT !.to = s.from + taken - 1] /\ digital' = FALSE /\ locked' = locked - taken
    BY <1>4 DEF L!Writes
  <2>2. /\ gate' \in Stretch /\ gate'.packet = s.packet /\ gate'.from = s.from
    BY <1>1, <1>2, <1>4, <2>1 DEF Stretch
  <2>3. L!Continues
    BY <2>2, <1>1 DEF L!Continues, Resting
  <2>4. locked' \in -1 .. Room
    <3>1. locked \in Int /\ locked <= Room /\ taken > 0 /\ taken <= locked
      BY <1>1, <1>2, <1>4
    <3> QED
      BY <1>1, <1>2, <2>1, <3>1
  <2>5. ~(taken <= 0)
    BY <1>2, <1>4
  <2> QED
    BY <1>2, <2>1, <2>2, <2>3, <2>4, <2>5
<1> QED
  <2>1. taken <= 0 \/ taken > 0
    BY <1>2
  <2> QED
    BY <1>2, <1>3, <1>4, <2>1

\* The packet that is next is later than all that was written.
LEMMA TakingPacket ==
  ASSUME PlayTypes, Waiting(toAudio, Latest, shield), toAudio # <<>>
  PROVE  LET h == Head(toAudio) IN
         /\ h \in Buffered /\ Latest < h.packet /\ h.packet <= shield
         /\ Tail(toAudio) \in Seq(Buffered) /\ Waiting(Tail(toAudio), h.packet, shield)
<1> DEFINE h == toAudio[1]
           n == Len(toAudio)
<1>1. /\ toAudio \in Seq(Buffered) /\ n \in Nat /\ n >= 1 /\ Head(toAudio) = h /\ h \in Buffered
      /\ DOMAIN toAudio = 1 .. n
      /\ Tail(toAudio) \in Seq(Buffered) /\ DOMAIN Tail(toAudio) = 1 .. n - 1
      /\ \A i \in 1 .. n - 1 : Tail(toAudio)[i] = toAudio[i + 1]
  BY DEF PlayTypes
<1>2. Latest < h.packet /\ h.packet <= shield
  BY <1>1 DEF Waiting
<1>3. \A i \in 1 .. n - 1 : i + 1 \in DOMAIN toAudio /\ 1 \in DOMAIN toAudio /\ 1 < i + 1
  BY <1>1
<1>4. \A i \in DOMAIN Tail(toAudio) : h.packet < Tail(toAudio)[i].packet /\ Tail(toAudio)[i].packet <= shield
  BY <1>1, <1>3 DEF Waiting
<1>5. \A i, j \in DOMAIN Tail(toAudio) : i < j => Tail(toAudio)[i].packet < Tail(toAudio)[j].packet
  <2>1. \A i, j \in 1 .. n - 1 : i < j => i + 1 < j + 1
    BY <1>1
  <2> QED
    BY <1>1, <1>3, <2>1 DEF Waiting
<1> QED
  BY <1>1, <1>2, <1>4, <1>5 DEF Waiting

\* The rest of a packet is written, or part of it.
LEMMA FeedStagedKeeps ==
  ASSUME PlayInv, L!FeedStaged
  PROVE  PlayInv' /\ L!Continues
<1>1. shown # L!None /\ UNCHANGED <<toAudio, shield, granted, ptt, link>>
  BY DEF L!FeedStaged
<1>2. PICK taken \in -1 .. Room :
        /\ L!Accepts(shown, taken) /\ L!Writes(shown, taken)
        /\ shown' = IF taken > 0 THEN L!Rest(shown, taken) ELSE shown
  BY DEF L!FeedStaged
<1>3. /\ taken \in Int /\ taken <= shown.size - shown.from + 1
      /\ locked' \in -1 .. Room /\ gate' \in Stretch /\ digital' \in BOOLEAN
      /\ taken <= 0 => UNCHANGED <<gate, digital, locked>>
      /\ taken > 0 => gate' = [shown EXCEPT !.to = shown.from + taken - 1] /\ digital' = FALSE
      /\ L!Continues
  BY <1>1, <1>2, Written DEF PlayInv, PlayTypes, Counted
<1>4. CASE taken <= 0
  <2>1. shown' = shown /\ UNCHANGED <<gate, digital, locked>>
    BY <1>2, <1>3, <1>4
  <2>2. Latest' = Latest
    BY <2>1 DEF Latest
  <2> QED
    BY <1>1, <1>3, <2>1, <2>2 DEF PlayInv, PlayTypes, Counted
<1>5. CASE taken > 0
  <2>1. /\ shown.packet \in Nat /\ shown.from \in Nat /\ shown.to \in Nat /\ shown.size \in Nat
        /\ shown \in Stretch /\ shown.from > 0
    BY <1>1 DEF PlayInv, PlayTypes, Stretch, Resting
  <2>2. /\ gate'.packet = shown.packet /\ gate'.to = shown.from + taken - 1
        /\ gate'.size = shown.size /\ digital' = FALSE
    BY <1>3, <1>5, <2>1 DEF Stretch
  <2>3. shown' = L!Rest(shown, taken)
    BY <1>2, <1>5
  <2>4. Latest = shown.packet
    BY <1>1 DEF Latest
  <2>5. CASE shown.from + taken > shown.size
    <3>1. shown' = L!None
      BY <2>3, <2>5 DEF L!Rest
    <3>2. gate'.to = gate'.size
      BY <1>3, <2>1, <2>2, <2>5
    <3>3. Latest' = shown.packet
      BY <2>2, <3>1 DEF Latest
    <3> QED
      BY <1>1, <1>3, <2>2, <2>4, <3>1, <3>2, <3>3, NoStretch DEF PlayInv, PlayTypes, Resting, Counted
  <2>6. CASE ~(shown.from + taken > shown.size)
    <3>1. shown' = [shown EXCEPT !.from = @ + taken]
      BY <2>3, <2>6 DEF L!Rest
    <3>2. /\ shown' \in Stretch /\ shown'.packet = shown.packet /\ shown'.size = shown.size
          /\ shown'.from = shown.from + taken /\ shown'.from > 0
      BY <1>3, <1>5, <2>1, <3>1 DEF Stretch
    <3>3. shown'.from <= shown'.size
      BY <1>3, <2>1, <2>6, <3>2
    <3>4. shown' # L!None
      BY <2>1, <3>2, <3>3, NoStretch
    <3>5. Latest' = shown.packet
      BY <3>2, <3>4 DEF Latest
    <3>6. shown'.from = gate'.to + 1
      BY <1>3, <2>1, <2>2, <3>2
    <3>7. Resting(shown', gate', digital')
      BY <2>2, <3>2, <3>3, <3>4, <3>6 DEF Resting
    <3> QED
      BY <1>1, <1>3, <2>2, <2>4, <3>2, <3>5, <3>7 DEF PlayInv, PlayTypes, Counted
  <2> QED
    BY <2>5, <2>6
<1> QED
  <2>1. taken <= 0 \/ taken > 0
    BY <1>3
  <2> QED
    BY <1>3, <1>4, <1>5, <2>1

\* The next packet is taken and written, as far as the track takes it.
LEMMA FeedPacketKeeps ==
  ASSUME PlayInv, L!FeedPacket
  PROVE  PlayInv' /\ L!Continues
<1> DEFINE h == Head(toAudio)
           s == [packet |-> h.packet, from |-> 1, to |-> 0, size |-> h.size]
<1>1. /\ shown = L!None /\ toAudio # <<>> /\ toAudio' = Tail(toAudio) /\ shield' = shield
      /\ ptt' = FALSE /\ link' = link /\ granted' = granted - h.size
  BY DEF L!FeedPacket
<1>1a. Counted'
  <2>1. /\ toAudio \in Seq(Buffered) /\ L!Total(toAudio') = L!Total(toAudio) - h.size
        /\ L!Total(toAudio') \in Nat /\ h.size \in Nat
    <3>1. toAudio \in Seq(Buffered) /\ toAudio' \in Seq(Buffered) /\ h \in Buffered
      BY <1>1 DEF PlayInv, PlayTypes
    <3>2. h.size \in Nat
      BY <3>1 DEF Buffered
    <3> QED
      BY <1>1, <3>1, <3>2, TotalOfRest, TotalIsNatural
  <2> QED
    BY <1>1, <2>1, PlaybackBounds DEF PlayInv, Counted
<1>2. PICK taken \in -1 .. Room :
        /\ L!Accepts(s, taken) /\ L!Writes(s, taken)
        /\ shown' = IF taken < 0 THEN L!None ELSE L!Rest(s, taken)
  BY DEF L!FeedPacket
<1>3. Latest = gate.packet
  BY <1>1 DEF Latest
<1>4. /\ h \in Buffered /\ gate.packet < h.packet /\ h.packet <= shield
      /\ Tail(toAudio) \in Seq(Buffered) /\ Waiting(Tail(toAudio), h.packet, shield)
  BY <1>1, <1>3, TakingPacket DEF PlayInv
<1> HIDE DEF h
<1>5. /\ s \in Stretch /\ s # L!None /\ s.packet = h.packet /\ s.from = 1 /\ s.to = 0
      /\ s.size = h.size /\ s.size \in Nat \ {0} /\ h.packet \in Nat
  <2>1. h.packet \in Nat /\ h.size \in Nat \ {0}
    BY <1>4 DEF Buffered
  <2> QED
    BY <2>1 DEF L!None, Stretch
<1>6. Resting(s, gate, digital)
  BY <1>1, <1>1a, <1>4, <1>5, SMTT(30) DEF Resting, PlayInv, PlayTypes, Stretch
<1> HIDE DEF s
<1>7. /\ taken \in Int /\ taken <= s.size - s.from + 1
      /\ locked' \in -1 .. Room /\ gate' \in Stretch /\ digital' \in BOOLEAN
      /\ taken <= 0 => UNCHANGED <<gate, digital, locked>>
      /\ taken > 0 => gate' = [s EXCEPT !.to = s.from + taken - 1] /\ digital' = FALSE
      /\ L!Continues
  BY <1>2, <1>5, <1>6, Written DEF PlayInv
<1>8. gate \in Stretch /\ gate.packet \in Nat /\ shield \in Nat
  BY DEF PlayInv, PlayTypes, Stretch
<1>9. \A last \in Nat : last <= h.packet => Waiting(toAudio', last, shield')
  <2>1. \A i \in DOMAIN toAudio' : toAudio'[i].packet \in Nat
    <3>1. \A i \in DOMAIN toAudio' : toAudio'[i] \in Buffered
      BY <1>1, <1>4
    <3> QED
      BY <3>1 DEF Buffered
  <2> QED
    BY <1>1, <1>1a, <1>4, <1>5, <2>1 DEF Waiting
<1>10. CASE taken < 0
  <2>1. shown' = L!None /\ UNCHANGED <<gate, digital, locked>>
    BY <1>2, <1>7, <1>10
  <2>2. Latest' = gate.packet
    BY <2>1 DEF Latest
  <2>3. PlayTypes'
    BY <1>1, <1>4, <1>7, <1>8, <2>1, NoStretch DEF PlayInv, PlayTypes
  <2>4. Waiting(toAudio', Latest', shield')
    BY <1>4, <1>5, <1>8, <1>9, <2>2
  <2>5. Resting(shown', gate', digital')
    BY <1>1, <2>1 DEF PlayInv, Resting
  <2>6. Latest' <= shield' /\ gate'.packet <= shield'
    BY <1>1, <2>1, <2>2 DEF PlayInv
  <2> QED
    BY <1>1a, <1>7, <2>3, <2>4, <2>5, <2>6 DEF PlayInv
<1>11. CASE taken = 0
  <2>1. UNCHANGED <<gate, digital, locked>>
    BY <1>7, <1>11
  <2>2. shown' = [s EXCEPT !.from = s.from + taken]
    BY <1>2, <1>5, <1>11 DEF L!Rest
  <2>3. shown' = s
    BY <1>5, <1>11, <2>2 DEF Stretch
  <2>4. Latest' = h.packet
    BY <1>5, <2>3 DEF Latest
  <2> QED
    BY <1>1, <1>1a, <1>4, <1>5, <1>6, <1>7, <1>8, <1>9, <2>1, <2>3, <2>4 DEF PlayInv, PlayTypes
<1>12. CASE taken > 0
  <2>1. /\ gate'.packet = h.packet /\ gate'.to = taken /\ gate'.size = s.size /\ digital' = FALSE
    BY <1>5, <1>7, <1>12 DEF Stretch
  <2>2. shown' = L!Rest(s, taken)
    BY <1>2, <1>7, <1>12
  <2>3. CASE s.from + taken > s.size
    <3>1. shown' = L!None
      BY <2>2, <2>3 DEF L!Rest
    <3>2. gate'.to = gate'.size
      BY <1>5, <1>7, <2>1, <2>3
    <3>3. Latest' = h.packet
      BY <2>1, <3>1 DEF Latest
    <3> QED
      BY <1>1, <1>1a, <1>4, <1>5, <1>7, <1>8, <1>9, <2>1, <3>1, <3>2, <3>3, NoStretch
      DEF PlayInv, PlayTypes, Resting
  <2>4. CASE ~(s.from + taken > s.size)
    <3>1. shown' = [s EXCEPT !.from = @ + taken]
      BY <2>2, <2>4 DEF L!Rest
    <3>2. /\ shown' \in Stretch /\ shown'.packet = h.packet /\ shown'.size = s.size
          /\ shown'.from = taken + 1 /\ shown'.from > 0
      BY <1>5, <1>7, <1>12, <3>1 DEF Stretch
    <3>3. shown'.from <= shown'.size /\ shown'.size \in Nat \ {0}
      BY <1>5, <1>7, <2>4, <3>2
    <3>4. shown' # L!None
      BY <3>3, NoStretch
    <3>5. Latest' = h.packet
      BY <3>2, <3>4 DEF Latest
    <3>6. Resting(shown', gate', digital')
      BY <2>1, <3>2, <3>3, <3>4 DEF Resting
    <3> QED
      BY <1>1, <1>1a, <1>4, <1>5, <1>7, <1>8, <1>9, <2>1, <3>2, <3>5, <3>6 DEF PlayInv, PlayTypes
  <2> QED
    BY <2>3, <2>4
<1> QED
  <2>1. taken < 0 \/ taken = 0 \/ taken > 0
    BY <1>7
  <2> QED
    BY <1>7, <1>10, <1>11, <1>12, <2>1

\* The other operations leave the order alone, or empty the buffers.
LEMMA OthersKeep ==
  ASSUME PlayInv,
         \/ L!Play \/ L!Stop
         \/ \E made \in BOOLEAN : L!Rebuild(made) \/ L!Start(made)
  PROVE  PlayInv' /\ gate' = gate
<1>1. gate' = gate /\ shield' = shield /\ locked' \in -1 .. Room
  BY PlaybackBounds DEF L!Play, L!Stop, L!Rebuild, L!Start, PlayInv, PlayTypes
<1>2. /\ \/ UNCHANGED <<toAudio, shown, digital, granted, ptt>>
         \/ toAudio' = <<>> /\ shown' = L!None /\ digital' = TRUE /\ granted' = 0 /\ ptt' = TRUE
      /\ link' \in BOOLEAN
  BY DEF L!Play, L!Stop, L!Rebuild, L!Start, L!Emptied, PlayInv, PlayTypes
<1>3. CASE UNCHANGED <<toAudio, shown, digital, granted, ptt>>
  <2>1. Latest' = Latest
    BY <1>1, <1>3 DEF Latest
  <2> QED
    BY <1>1, <1>2, <1>3, <2>1 DEF PlayInv, PlayTypes, Counted
<1>4. CASE toAudio' = <<>> /\ shown' = L!None /\ digital' = TRUE /\ granted' = 0 /\ ptt' = TRUE
  <2>1. Latest' = gate.packet
    BY <1>1, <1>4 DEF Latest
  <2>2. Waiting(toAudio', Latest', shield') /\ Resting(shown', gate', digital')
    BY <1>4 DEF Waiting, Resting
  <2>3. PlayTypes'
    BY <1>1, <1>2, <1>4, NoStretch DEF PlayInv, PlayTypes
  <2>4. Counted'
    BY <1>4, TotalOfNone, PlaybackBounds DEF Counted
  <2> QED
    BY <1>1, <2>1, <2>2, <2>3, <2>4 DEF PlayInv
<1> QED
  BY <1>1, <1>2, <1>3, <1>4

\* Every step of the part keeps the invariant, and writes in order.
LEMMA PlaybackKeeps ==
  ASSUME part = "playback", PlayInv, [AllNext]_all
  PROVE  PlayInv' /\ L!Continues
<1>1. \/ \E size \in Sizes : L!Enqueue(size)
      \/ L!FeedStaged \/ L!FeedPacket
      \/ L!Play \/ L!Stop \/ \E made \in BOOLEAN : L!Rebuild(made) \/ L!Start(made)
      \/ UNCHANGED <<all, vars>>
  BY DEF AllNext, Ptt, Connection, Mode, Calibration, Loudspeaker, all
<1>2. CASE UNCHANGED <<all, vars>>
  <2>1. UNCHANGED <<toAudio, shown, gate, digital, locked, shield, granted, ptt, link>>
    BY <1>2 DEF vars, session, control, engine, wire
  <2> QED
    BY <2>1 DEF PlayInv, PlayTypes, Latest, Counted, L!Continues
<1>3. CASE \E size \in Sizes : L!Enqueue(size)
  <2>1. gate' = gate
    BY <1>3 DEF L!Enqueue
  <2> QED
    BY <1>3, <2>1, EnqueueKeeps DEF L!Continues
<1>4. CASE L!Play \/ L!Stop \/ \E made \in BOOLEAN : L!Rebuild(made) \/ L!Start(made)
  BY <1>4, OthersKeep DEF L!Continues
<1> QED
  BY <1>1, <1>2, <1>3, <1>4, FeedStagedKeeps, FeedPacketKeeps

\* It holds at first.
LEMMA PlaybackBegins ==
  ASSUME L!Init
  PROVE  PlayInv
<1>1. /\ toAudio = <<>> /\ shown = L!None /\ gate = L!None /\ locked = -1 /\ shield = 0
      /\ granted = 0 /\ ptt = TRUE /\ link = FALSE /\ digital = FALSE
  BY DEF L!Init
<1>2. PlayTypes
  <2>1. -1 \in -1 .. Room /\ 0 \in Nat /\ <<>> \in Seq(Buffered)
    BY PlaybackBounds
  <2> QED
    BY <1>1, <2>1, NoStretch DEF PlayTypes
<1>2a. Counted
  BY <1>1, TotalOfNone, PlaybackBounds DEF Counted
<1>3. Latest = 0
  BY <1>1, NoStretch DEF Latest
<1> QED
  BY <1>1, <1>2, <1>2a, <1>3, NoStretch DEF PlayInv, Waiting, Resting

(***************************************************************************)
(* Received packets are written in order and each one to its end, across   *)
(* partial and failed writes and new tracks: only starting or stopping the *)
(* engine discards the rest of a packet.                                   *)
(***************************************************************************)
THEOREM WritesWholePackets == AllSpec => PacketsAreWhole
<1> DEFINE I == part = "playback" => PlayInv
<1>1. AllInit => I
  BY PlaybackBegins DEF AllInit
<1>2. I /\ [AllNext]_all => I'
  <2>1. [AllNext]_all => part' = part
    BY DEF AllNext, all, Ptt, Connection, Mode, Calibration, Loudspeaker
  <2> QED
    BY <2>1, PlaybackKeeps
<1>3. I /\ [AllNext]_all => [part = "playback" => L!Continues]_all
  BY PlaybackKeeps
<1> QED
  BY <1>1, <1>2, <1>3, PTL DEF AllSpec, PacketsAreWhole

\* What the type invariant of Playback asks follows.
LEMMA PlaybackTypes ==
  ASSUME PlayInv
  PROVE  L!TypeOK
<1>1. shown.packet \in 0 .. shield
  <2>1. shown.packet \in Nat /\ shield \in Nat /\ shown.packet <= shield
    BY NoStretch DEF PlayInv, PlayTypes, Stretch, Latest
  <2> QED
    BY <2>1
<1>2. /\ granted \in Nat /\ granted <= MaxQueue /\ granted = L!Total(toAudio)
      /\ ptt \in BOOLEAN /\ link \in BOOLEAN /\ digital \in BOOLEAN /\ locked \in -1 .. Room
  BY PlaybackBounds DEF PlayInv, PlayTypes, Counted
<1> QED
  BY <1>1, <1>2 DEF L!TypeOK, L!QueueIsBounded

(***************************************************************************)
(* The count of waiting bytes, which the high-water rules compare with the *)
(* limits, is the sum of the packets in the buffer and never more than a   *)
(* second of audio, whatever sizes packets come in.                        *)
(***************************************************************************)
THEOREM PlaybackTyped == AllSpec => [](part = "playback" => L!TypeOK)
<1> DEFINE I == part = "playback" => PlayInv
<1>1. AllInit => I
  BY PlaybackBegins DEF AllInit
<1>2. I /\ [AllNext]_all => I'
  <2>1. [AllNext]_all => part' = part
    BY DEF AllNext, all, Ptt, Connection, Mode, Calibration, Loudspeaker
  <2> QED
    BY <2>1, PlaybackKeeps
<1>3. I => (part = "playback" => L!TypeOK)
  BY PlaybackTypes
<1> QED
  BY <1>1, <1>2, <1>3, PTL DEF AllSpec

(***************************************************************************)
(* The variables that the parts share hold what each part says they do, in *)
(* the parts that state it.                                                *)
(***************************************************************************)
THEOREM TypesKept == AllSpec => []TypesOK
BY DeadlinesFollowState, CalibrationTyped, PlaybackTyped, PTL DEF TypesOK
=============================================================================
