---------------------------- MODULE TcpConnection ----------------------------
(***************************************************************************)
(* Connecting to a K4.  MainWindow (ui) keeps the radio the operator chose  *)
(* and posts connectToHost / disconnectFromHost to the I/O thread, where    *)
(* TcpClient (io) drives one QSslSocket (sock), its three timers and the    *)
(* lookups of ".local" names; Protocol's receive buffer (rx) is fed by the  *)
(* socket.  State changes go back to the UI through its event queue.        *)
(*                                                                          *)
(* The socket and the resolver are Qt's, modelled from the calls TcpClient  *)
(* makes: disconnectFromHost on a socket that is still opening only marks   *)
(* it (pendingClose), on an open one it closes at once unless data is left  *)
(* to write; a second connect is an error, or ignored by                    *)
(* connectToHostEncrypted.  A radio answers once the socket has             *)
(* authenticated the way that radio expects, TLS or password.  Time is      *)
(* abstract: a running timer may expire at any moment.                      *)
(***************************************************************************)
EXTENDS Naturals, Sequences

CONSTANTS
  Radios,       \* the radios of the radio list
  Locals,       \* those whose host name ends with ".local"
  Secure,       \* those that use TLS/PSK
  TlsAvailable, \* the OpenSSL runtime could be loaded
  MaxTries,     \* bound: connections the operator asks for
  MaxCancels,   \* bound: disconnections the operator asks for
  Backlog       \* bound: packets' worth of bytes an unfinished packet waits for

None == "no radio"

VARIABLES
  ui,       \* MainWindow: m_connectionState, m_currentRadio
  uiQ,      \* stateChanged signals on their way to it
  ioQ,      \* connectToHost and disconnectFromHost calls on their way to TcpClient
  io,       \* TcpClient; history: asked, no disconnectFromHost since the last request
  lookups,  \* QHostInfo lookups in progress
  sock,     \* the QSslSocket
  rx,       \* Protocol::m_buffer, by what is missing from it
  stale,    \* history: an answer to an earlier request's lookup was taken
  left      \* the requests the bounds still allow

vars == <<ui, uiQ, ioQ, io, lookups, sock, rx, stale, left>>

Off == [st |-> "off", peer |-> None, tls |-> FALSE, ending |-> FALSE, auth |-> FALSE,
        secured |-> FALSE]

Init ==
  /\ ui = [state |-> "Disconnected", radio |-> None]
  /\ uiQ = <<>> /\ ioQ = <<>>
  /\ io = [state |-> "Disconnected", radio |-> None, timers |-> {}, answered |-> FALSE,
           try |-> 0, asked |-> FALSE]
  /\ lookups = {}
  /\ sock = Off
  /\ rx = [debris |-> 0, tail |-> 0, heard |-> FALSE]
  /\ stale = FALSE
  /\ left = [tries |-> MaxTries, cancels |-> MaxCancels]

(***************************************************************************)
(* What one I/O handler changes: TcpClient c, the socket s, the signals q.  *)
(***************************************************************************)
World == [c |-> io, s |-> sock, q |-> uiQ]
Becomes(w) == io' = w.c /\ sock' = w.s /\ uiQ' = w.q

AllTimers == {"connect", "auth", "ping"}
Stop(w, timers) == [w EXCEPT !.c.timers = @ \ timers]
Start(w, timer) == [w EXCEPT !.c.timers = @ \cup {timer}]

\* mutant: the end of an attempt is not signalled
M_SetState(w, state) ==
  IF w.c.state = state THEN w
  ELSE [w EXCEPT !.c.state = state,
                 !.q = IF state = "Disconnected" /\ w.c.state # "Connected" THEN @
                       ELSE Append(@, state)]
\* A change, and only a change, is signalled.
SetState(w, state) ==
  IF w.c.state = state THEN w
  ELSE [w EXCEPT !.c.state = state, !.q = Append(@, state)]

\* onSocketDisconnected and onSocketError leave the same state behind.
SocketDown(w) == SetState(Stop(w, AllTimers), "Disconnected")
SocketEnded(w) == SocketDown([w EXCEPT !.s = Off])

\* QSslSocket::disconnectFromHost; lingers: there is data left to write.
Close(w, lingers) ==
  CASE w.s.st = "opening" -> [w EXCEPT !.s.ending = TRUE]
    [] w.s.st = "open" /\ lingers -> [w EXCEPT !.s.st = "closing"]
    [] w.s.st = "open" /\ ~lingers -> SocketEnded(w)
    [] OTHER -> w

\* mutant: only an established connection is closed
M_DisconnectFromHost(w, lingers) ==
  LET t == Stop([w EXCEPT !.c.asked = FALSE], AllTimers)
  IN SetState(IF w.c.state = "Connected" THEN Close(t, lingers) ELSE t, "Disconnected")
DisconnectFromHost(w, lingers) ==
  LET t == Stop([w EXCEPT !.c.asked = FALSE], AllTimers)
  IN SetState(Close(t, lingers), "Disconnected")

(* attemptConnection.  m_useTls is the last request's, the host the caller's. *)
(* A plain connect re-initialises a QSslSocket that still waits to start TLS. *)
UseTls(w) == w.c.radio \in Secure
Refused(s) == IF s.st = "opening" /\ s.tls THEN [s EXCEPT !.tls = FALSE, !.ending = FALSE]
              ELSE s
AttemptConnection(w, host) ==
  CASE UseTls(w) /\ ~TlsAvailable -> SetState(Stop(w, {"connect"}), "Disconnected")
    [] w.s.st = "off" /\ (UseTls(w) => TlsAvailable) ->
         [w EXCEPT !.s = [Off EXCEPT !.st = "opening", !.peer = host, !.tls = UseTls(w)]]
    [] w.s.st # "off" /\ UseTls(w) /\ TlsAvailable ->
         IF w.s.st = "closing" THEN SocketDown(w) ELSE w
    [] w.s.st # "off" /\ ~UseTls(w) -> SocketDown([w EXCEPT !.s = Refused(@)])

(***************************************************************************)
(* UI thread                                                               *)
(***************************************************************************)
Call(t, r) == [t |-> t, radio |-> r]
UiRest == UNCHANGED <<io, lookups, sock, rx, stale>>

\* MainWindow::connectToRadio; isConnected() reads TcpClient's atomic.
ConnectToRadio(r) ==
  /\ left.tries > 0
  /\ ui.state \notin {"Connecting", "Authenticating"}
  /\ ui' = [state |-> "Connecting", radio |-> r]
  /\ ioQ' = ioQ \o (IF io.state = "Connected" THEN <<Call("disconnect", None)>> ELSE <<>>)
                \o <<Call("connect", r)>>
  /\ left' = [left EXCEPT !.tries = @ - 1]
  /\ UiRest /\ UNCHANGED uiQ

OnDisconnectClicked ==
  /\ left.cancels > 0
  /\ ioQ' = Append(ioQ, Call("disconnect", None))
  /\ left' = [left EXCEPT !.cancels = @ - 1]
  /\ UiRest /\ UNCHANGED <<ui, uiQ>>

OnStateChanged ==
  /\ uiQ # <<>>
  /\ ui' = [ui EXCEPT !.state = Head(uiQ)]
  /\ uiQ' = Tail(uiQ)
  /\ UiRest /\ UNCHANGED <<ioQ, left>>

(***************************************************************************)
(* I/O thread: the calls posted to it, and the resolver's answers.         *)
(***************************************************************************)
IoTakes(t) == ioQ # <<>> /\ Head(ioQ).t = t /\ ioQ' = Tail(ioQ)
IoRest == UNCHANGED <<ui, left>>

Request(w, r) ==
  [w EXCEPT !.c.radio = r, !.c.answered = FALSE, !.c.try = @ + 1, !.c.asked = TRUE]
Connecting(w) == Start(SetState(w, "Connecting"), "connect")

ConnectToHost(lingers) ==
  /\ IoTakes("connect")
  /\ LET r == Head(ioQ).radio
         w == IF io.state = "Disconnected" THEN World ELSE DisconnectFromHost(World, lingers)
         v == Connecting(Request(w, r))
     IN IF r \in Locals
        THEN Becomes(v) /\ lookups' = lookups \cup {[radio |-> r, try |-> v.c.try]}
        ELSE Becomes(AttemptConnection(v, r)) /\ UNCHANGED lookups
  /\ IoRest /\ UNCHANGED <<rx, stale>>

Disconnect(lingers) ==
  /\ IoTakes("disconnect")
  /\ Becomes(DisconnectFromHost(World, lingers))
  /\ IoRest /\ UNCHANGED <<lookups, rx, stale>>

LookupDone(l) == l \in lookups /\ lookups' = lookups \ {l} /\ IoRest /\ UNCHANGED <<ioQ, rx>>
Outdated(l) == stale \/ l.try # io.try
LookupUnused(l) ==
  /\ LookupDone(l) /\ io.state # "Connecting" /\ UNCHANGED <<io, sock, uiQ, stale>>
LookupFailed(l) ==
  /\ LookupDone(l) /\ io.state = "Connecting"
  /\ Becomes(SetState(Stop(World, {"connect"}), "Disconnected"))
  /\ stale' = Outdated(l)
LookupFound(l) ==
  /\ LookupDone(l) /\ io.state = "Connecting"
  /\ Becomes(AttemptConnection(World, l.radio))
  /\ stale' = Outdated(l)

(***************************************************************************)
(* I/O thread: the socket's signals.                                       *)
(***************************************************************************)
SocketRest == IoRest /\ UNCHANGED <<ioQ, lookups, stale>>

Authenticating(w) == Start(SetState(Stop(w, {"connect"}), "Authenticating"), "auth")
Settle(w) == IF w.s.ending THEN Close(w, FALSE) ELSE w

\* onSocketConnected: with TLS wait for encrypted(), else send the password hash.
OnSocketConnected ==
  /\ sock.st = "opening"
  /\ LET w == [World EXCEPT !.s.st = "open"]
         v == IF UseTls(w) THEN w ELSE Authenticating([w EXCEPT !.s.auth = TRUE])
     IN Becomes(IF sock.tls THEN v ELSE Settle(v))
  /\ rx' = [debris |-> IF rx.debris > 0 THEN rx.debris ELSE rx.tail, tail |-> 0, heard |-> FALSE]
  /\ SocketRest

OnSocketEncrypted ==
  /\ sock.st = "open" /\ sock.tls /\ ~sock.secured /\ sock.peer \in Secure
  /\ Becomes(Settle(Authenticating([World EXCEPT !.s.secured = TRUE])))
  /\ SocketRest /\ UNCHANGED rx

\* Refused, reset, closed by the radio, or Qt's own connect timeout.
OnSocketDisconnected ==
  /\ sock.st # "off"
  /\ Becomes(SocketEnded(World))
  /\ SocketRest /\ UNCHANGED rx

(* Protocol::parse on one packet and the first bytes of the next, which still *)
(* waits for tail packets' worth of bytes.  Debris of an earlier connection's  *)
(* packet comes first in the buffer: until that packet's length is reached,    *)
(* nothing is found in it; then the end marker is missed and the rest found.   *)
Parse(b, tail) ==
  IF b.debris > 1 THEN [b EXCEPT !.debris = @ - 1, !.heard = TRUE]
  ELSE [debris |-> 0, tail |-> tail, heard |-> TRUE]
Finds(b) == b.debris <= 1

\* packetReceived: any packet means that authentication succeeded.
PacketReceived(w) ==
  IF w.c.state = "Authenticating" /\ ~w.c.answered
  THEN Start(SetState(Stop([w EXCEPT !.c.answered = TRUE], {"connect", "auth"}), "Connected"),
             "ping")
  ELSE w

OnReadyRead(tail) ==
  /\ sock.st \in {"open", "closing"}
  /\ IF sock.peer \in Secure THEN sock.secured ELSE sock.auth
  /\ rx' = Parse(rx, tail)
  /\ Becomes(IF Finds(rx) THEN PacketReceived(World) ELSE World)
  /\ SocketRest

(***************************************************************************)
(* I/O thread: single-shot timers.                                         *)
(***************************************************************************)
Expires(timer) == timer \in io.timers
OnConnectTimeout(lingers) ==
  /\ Expires("connect")
  /\ LET w == Stop(World, {"connect"})
     IN Becomes(IF io.state = "Connecting" THEN DisconnectFromHost(w, lingers) ELSE w)
  /\ SocketRest /\ UNCHANGED rx
OnAuthTimeout(lingers) ==
  /\ Expires("auth")
  /\ LET w == Stop(World, {"auth"})
     IN Becomes(IF io.state = "Authenticating" /\ ~io.answered
                THEN DisconnectFromHost(w, lingers) ELSE w)
  /\ SocketRest /\ UNCHANGED rx

Next ==
  \/ \E r \in Radios : ConnectToRadio(r)
  \/ OnDisconnectClicked
  \/ OnStateChanged
  \/ \E lingers \in BOOLEAN :
       \/ ConnectToHost(lingers) \/ Disconnect(lingers)
       \/ OnConnectTimeout(lingers) \/ OnAuthTimeout(lingers)
  \/ \E l \in lookups : LookupUnused(l) \/ LookupFailed(l) \/ LookupFound(l)
  \/ OnSocketConnected \/ OnSocketEncrypted \/ OnSocketDisconnected
  \/ \E tail \in 0 .. Backlog : OnReadyRead(tail)

(* The two event loops run and their timers expire; nothing is assumed of the *)
(* radio, the network or the resolver.                                         *)
Fairness ==
  /\ WF_vars(OnStateChanged)
  /\ WF_vars(\E lingers \in BOOLEAN : ConnectToHost(lingers) \/ Disconnect(lingers))
  /\ WF_vars(\E lingers \in BOOLEAN : OnConnectTimeout(lingers))
  /\ WF_vars(\E lingers \in BOOLEAN : OnAuthTimeout(lingers))

Spec == Init /\ [][Next]_vars
FairSpec == Spec /\ Fairness

(***************************************************************************)
(* Properties                                                              *)
(***************************************************************************)
ConnectionState == {"Disconnected", "Connecting", "Authenticating", "Connected"}
MaybeRadio == Radios \cup {None}

(* Every state has its own timer and no other one runs: no attempt is without *)
(* a deadline, and no deadline of an earlier attempt can end a later one.     *)
TimersFollowState ==
  io.timers = CASE io.state = "Disconnected" -> {}
                [] io.state = "Connecting" -> {"connect"}
                [] io.state = "Authenticating" -> {"auth"}
                [] io.state = "Connected" -> {"ping"}

\* The state of both threads, the socket and the buffer, and the timers above.
TypeOK ==
  /\ ui \in [state : ConnectionState, radio : MaybeRadio]
  /\ uiQ \in Seq(ConnectionState)
  /\ ioQ \in Seq([t : {"connect", "disconnect"}, radio : MaybeRadio])
  /\ io \in [state : ConnectionState, radio : MaybeRadio, timers : SUBSET AllTimers,
             answered : BOOLEAN, try : 0 .. MaxTries, asked : BOOLEAN]
  /\ lookups \subseteq [radio : Locals, try : 1 .. MaxTries]
  /\ sock \in [st : {"off", "opening", "open", "closing"}, peer : MaybeRadio, tls : BOOLEAN,
               ending : BOOLEAN, auth : BOOLEAN, secured : BOOLEAN]
  /\ rx \in [debris : 0 .. Backlog, tail : 0 .. Backlog, heard : BOOLEAN]
  /\ stale \in BOOLEAN
  /\ left \in [tries : 0 .. MaxTries, cancels : 0 .. MaxCancels]
  /\ TimersFollowState

(* When nothing is under way between the threads, the UI shows the state the *)
(* I/O thread is in, for the radio the operator asked for last.               *)
UiAgrees == uiQ = <<>> /\ ioQ = <<>> => ui = [state |-> io.state, radio |-> io.radio]

(* A connection that was not made from an outdated lookup answer is one to   *)
(* the radio asked for last, and the operator has not disconnected since.    *)
ConnectedAsAsked == io.state = "Connected" /\ ~stale => sock.peer = io.radio /\ io.asked

\* Whatever radio is on the other end is the one the operator asked for.
RightRadio == io.state = "Connected" => sock.peer = io.radio

(* The operator, who cannot start another connection while one is being made, *)
(* is not kept waiting for ever.                                               *)
Busy == ui.state \in {"Connecting", "Authenticating"}
AttemptEnds == Busy ~> ~Busy
=============================================================================
