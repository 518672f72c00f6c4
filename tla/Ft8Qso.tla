-------------------------------- MODULE Ft8Qso --------------------------------
(***************************************************************************)
(* FT8/FT4 contacts between stations that all run this app.  Each has an    *)
(* Ft8Session and the part of Ft8Screen that sends its next message in the  *)
(* station's transmit period and hands it what the receiver decodes.        *)
(*                                                                          *)
(* Periods alternate.  A message on the air may be missed, decoded twice,   *)
(* or decoded only when the next period's transmission has begun.           *)
(***************************************************************************)
EXTENDS Integers, Sequences, SequencesExt

CONSTANTS
  Stations,
  Snr,          \* what a decode may say of the signal, "none" included
  MaxRetries,
  UseRr73,      \* the stations that finish with RR73
  CallFirst,    \* the stations that answer the first caller
  MaxOps        \* bound: what the operators do, in all

None == "none"

VARIABLES
  session,   \* Ft8Session, one per station
  live,      \* m_liveMessage while m_livePending
  replies,   \* m_liveReplies
  recent,    \* the last decode of each station in the activity list
  air,       \* the messages of the last period: its parity, who was sending
  ops,
  again,     \* history: the stations that broke off a contact to start another
  took       \* history: the reports each station has taken from each other

vars == <<session, live, replies, recent, air, ops, again, took>>

Message(to, from, kind, report) == [to |-> to, from |-> from, kind |-> kind, report |-> report]
NoMessage == Message(None, None, None, None)
Kinds == {"grid", "report", "Rreport", "RRR", "RR73", "73"}

Cleared(s) ==
  [s EXCEPT !.armed = FALSE, !.dx = None, !.next = NoMessage, !.sent = None, !.received = None,
            !.callingCq = FALSE, !.complete = FALSE, !.retries = 0,
            !.lastSent = NoMessage, !.lastId = NoMessage]
Halted(s) == [s EXCEPT !.armed = FALSE]
Armed(s) == [s EXCEPT !.armed = TRUE, !.retries = 0, !.lastSent = NoMessage]

Init ==
  /\ session = [me \in Stations |->
       [armed |-> FALSE, dx |-> None, next |-> NoMessage, sent |-> None, received |-> None,
        callingCq |-> FALSE, complete |-> FALSE, retries |-> 0, lastSent |-> NoMessage,
        lastId |-> NoMessage, even |-> TRUE]]
  /\ live = [me \in Stations |-> NoMessage] /\ replies = [me \in Stations |-> <<>>]
  /\ recent = [me \in Stations |-> {}]
  /\ air = [even |-> FALSE, sent |-> {}, deaf |-> {}]
  /\ ops = 0 /\ again = {}
  /\ took = [me \in Stations |-> {}]

(***************************************************************************)
(* Ft8Session                                                              *)
(***************************************************************************)
Select(me, s, d) ==
  LET m == d.message
      Directed(kind, report) == Message(m.from, me, kind, report)
      toMe == m.to = me
  IN [Cleared(s) EXCEPT
       !.dx = m.from, !.even = ~d.even, !.sent = d.snr,
       !.received = IF toMe /\ m.kind = "report" THEN m.report ELSE None,
       !.next = IF d.snr # None /\ toMe /\ m.kind = "grid" THEN Directed("report", d.snr)
                ELSE IF d.snr # None /\ toMe /\ m.kind = "report" THEN Directed("Rreport", d.snr)
                ELSE Directed("grid", None)]

\* An R report answers the report this station has sent last.
M_Confirms(s) == s.sent # None       \* mutant: or one of an earlier contact
Confirms(s) == s.sent # None /\ s.lastSent.kind \in {"report", "Rreport"} /\ s.lastSent.report = s.sent

\* The message that answers m, or none.
Answer(me, s, m) ==
  LET Directed(kind, report) == Message(s.dx, me, kind, report) IN
  CASE m.kind = "grid" /\ s.sent # None -> Directed("report", s.sent)
    [] m.kind = "report" /\ s.sent # None -> Directed("Rreport", s.sent)
    [] m.kind = "Rreport" /\ Confirms(s) ->
           Directed(IF me \in UseRr73 THEN "RR73" ELSE "RRR", None)
    [] m.kind \in {"RRR", "RR73"} /\ s.received # None /\ s.sent # None
         /\ s.lastSent = Directed("Rreport", s.sent) -> Directed("73", None)
    [] OTHER -> NoMessage

Received(s, m) ==
  IF m.kind = "report" \/ (m.kind = "Rreport" /\ Confirms(s)) THEN m.report ELSE s.received

Answered(s, next) == [s EXCEPT !.next = next, !.retries = IF next = s.next THEN @ ELSE 0]

Receive(me, s, d) ==
  LET m == d.message
      first == s.dx = None /\ s.callingCq /\ me \in CallFirst
      chosen == IF first THEN [Select(me, s, d) EXCEPT !.armed = TRUE] ELSE s
      heard == [chosen EXCEPT !.lastId = m, !.sent = IF @ = None THEN d.snr ELSE @]
      next == Answer(me, heard, m)
      got == [heard EXCEPT !.received = Received(heard, m)]
  IN CASE ~s.armed \/ s.complete \/ m = s.lastId \/ m.to # me -> s
       [] s.armed /\ ~s.complete /\ m # s.lastId /\ m.to = me /\ m.from # chosen.dx -> chosen
       [] OTHER ->
            IF m.kind = "73" /\ heard.lastSent.kind \in {"RRR", "RR73"}
            THEN Halted([heard EXCEPT !.complete = TRUE])
            ELSE IF next = NoMessage THEN got ELSE Answered(got, next)

M_LimitAfter(n) == n > MaxRetries      \* mutant: one too late
Limit(n) == n >= MaxRetries
M_Times(s) == 1                        \* mutant: not counted
Times(s) == IF s.lastSent = s.next THEN s.retries + 1 ELSE 1
Sent(s) ==
  LET n == Times(s)
      done == s.next.kind \in {"73", "RR73"} /\ s.received # None
  IN [s EXCEPT !.retries = n, !.lastSent = s.next, !.complete = done,
               !.armed = ~done /\ ~Limit(n)]

(***************************************************************************)
(* Ft8Screen                                                               *)
(***************************************************************************)
Takes(me, s) == took' = [took EXCEPT ![me] =
  IF s.received = None THEN @ ELSE @ \cup {[from |-> s.dx, report |-> s.received]}]

Leaves(me) == again' = IF session[me].dx # None /\ ~session[me].complete THEN again \cup {me} ELSE again
Pending(me) == live[me] # NoMessage
OperatorActs == ops < MaxOps /\ ops' = ops + 1 /\ UNCHANGED <<live, replies, recent, air>>

\* A tap on a row of the activity list, then Call.
SelectStation(me, d) ==
  /\ OperatorActs /\ ~Pending(me) /\ d \in recent[me]
  /\ Leaves(me)
  /\ LET s == Select(me, session[me], d)
     IN session' = [session EXCEPT ![me] = Armed(s)] /\ Takes(me, s)
CallCq(me) ==
  /\ OperatorActs /\ UNCHANGED took /\ ~Pending(me) /\ Leaves(me)
  /\ session' = [session EXCEPT ![me] =
       Armed([Cleared(@) EXCEPT !.callingCq = TRUE, !.next = Message("CQ", me, "cq", None)])]
Call(me) ==
  /\ OperatorActs /\ UNCHANGED <<again, took>> /\ ~Pending(me)
  /\ session[me].dx # None /\ ~session[me].complete
  /\ session' = [session EXCEPT ![me] = Armed(@)]
Halt(me) ==
  /\ OperatorActs /\ UNCHANGED <<again, took>>
  /\ session[me].armed \/ Pending(me)
  /\ session' = [session EXCEPT ![me] = Halted(@)]

\* tick() ahead of the station's own period; it runs while the screen is shown,
\* the K4 is connected and receiving, and no dialog is open.
Due(me) == session[me].armed /\ ~Pending(me) /\ session[me].even # air.even
Tick(me) ==
  /\ Due(me)
  /\ live' = [live EXCEPT ![me] = session[me].next]
  /\ UNCHANGED <<session, replies, recent, air, ops, again, took>>

\* finishLiveTransmit after a halt or a fault
TransmitFails(me) ==
  /\ Pending(me)
  /\ session' = [session EXCEPT ![me] = Halted(@)]
  /\ live' = [live EXCEPT ![me] = NoMessage] /\ replies' = [replies EXCEPT ![me] = <<>>]
  /\ UNCHANGED <<recent, air, ops, again, took>>

Listed(me, d) == recent' = [recent EXCEPT ![me] = {r \in @ : r.message.from # d.message.from} \cup {d}]
Buffers(me) == Pending(me)
AddDecodes(me, m, snr) ==
  LET d == [message |-> m, even |-> air.even, snr |-> snr] IN
  /\ me \notin air.deaf /\ m \in air.sent
  /\ Listed(me, d)
  /\ IF Buffers(me)
     THEN /\ \A r \in ToSet(replies[me]) : r.message # m      \* bound: a copy
          /\ replies' = [replies EXCEPT ![me] = Append(@, d)]
          /\ UNCHANGED <<session, took>>
     ELSE /\ session' = [session EXCEPT ![me] = Receive(me, @, d)]
          /\ Takes(me, session'[me]) /\ UNCHANGED replies
  /\ UNCHANGED <<live, air, ops, again>>

\* finishLiveTransmit of every station that sends, and the other period begins
Succeeds(me) == Pending(me) /\ session[me].armed /\ session[me].next = live[me]
\* The replies that were held back are received one after the other.
After(me) ==
  LET s[n \in 0 .. Len(replies[me])] ==
        IF n = 0 THEN Sent(session[me]) ELSE Receive(me, s[n - 1], replies[me][n])
  IN s
Finished(me) ==
  IF Succeeds(me) THEN After(me)[Len(replies[me])]
  ELSE IF Pending(me) THEN Halted(session[me]) ELSE session[me]
PeriodEnds ==
  /\ \A me \in Stations : ~Due(me)
  /\ session' = [me \in Stations |-> [Finished(me) EXCEPT !.lastId = NoMessage]]
  /\ took' = [me \in Stations |-> took[me] \cup
       LET s == Finished(me) IN IF s.received = None THEN {} ELSE {[from |-> s.dx, report |-> s.received]}]
  /\ air' = [even |-> ~air.even, sent |-> {live[me] : me \in {x \in Stations : Succeeds(x)}},
             deaf |-> {me \in Stations : Pending(me)}]
  /\ live' = [me \in Stations |-> NoMessage] /\ replies' = [me \in Stations |-> <<>>]
  /\ UNCHANGED <<recent, ops, again>>

Next ==
  \/ \E me \in Stations : CallCq(me) \/ Call(me) \/ Halt(me) \/ Tick(me) \/ TransmitFails(me)
  \/ \E me \in Stations : \E d \in recent[me] : SelectStation(me, d)
  \/ \E me \in Stations : \E m \in air.sent, snr \in Snr : AddDecodes(me, m, snr)
  \/ PeriodEnds
Spec == Init /\ [][Next]_vars

\* The periods follow the clock and tick() a timer; nothing is assumed of what is
\* decoded or of the operators.
FairSpec == Spec /\ WF_vars(PeriodEnds) /\ \A me \in Stations : WF_vars(Tick(me))

(***************************************************************************)
(* Properties                                                              *)
(***************************************************************************)
Decodes == [message : [to : Stations \cup {"CQ"}, from : Stations, kind : Kinds \cup {"cq"}, report : Snr \cup {None}],
            even : BOOLEAN, snr : Snr]
Messages == {NoMessage} \cup [to : Stations \cup {"CQ"}, from : Stations, kind : Kinds \cup {"cq"}, report : Snr \cup {None}]
TypeOK ==
  /\ \A me \in Stations :
       LET s == session[me] IN
       /\ {s.armed, s.callingCq, s.complete, s.even} \subseteq BOOLEAN
       /\ s.dx \in (Stations \ {me}) \cup {None} /\ {s.sent, s.received} \subseteq Snr \cup {None}
       /\ {s.next, s.lastSent, s.lastId, live[me]} \subseteq Messages
       /\ s.retries \in 0 .. MaxRetries
       /\ s.armed => ~s.complete /\ s.next # NoMessage /\ s.next.from = me
       /\ ToSet(replies[me]) \cup recent[me] \subseteq Decodes

(* A complete contact was one for both: the partner has taken the report this *)
(* station logs as sent.  Only an operator who broke off an unfinished contact *)
(* to start it over may be answered with what belongs to the first one.        *)
LogsAgree ==
  \A me \in Stations : session[me].complete /\ me \notin again =>
    [from |-> me, report |-> session[me].sent] \in took[session[me].dx]

(* What sent() counts and the exchange goes on from is what was on the air:   *)
(* the next message does not change while one is being sent.                  *)
SentAsShown == \A me \in Stations : Pending(me) /\ session[me].armed => session[me].next = live[me]

(* When the operators let it run, every call ends: in a contact, or because    *)
(* nothing new was heard for MaxRetries periods.                              *)
CallEnds == \A me \in Stations : session[me].armed ~> (~session[me].armed \/ ops < MaxOps)
=============================================================================
