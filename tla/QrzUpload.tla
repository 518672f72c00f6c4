----------------------------- MODULE QrzUpload -----------------------------
(***************************************************************************)
(* The contact log of FT8, SSTV and the operator (Ft8Logbook) and its      *)
(* upload to QRZ (QrzLogbook).  The log is one file, replaced as a whole   *)
(* at every change (QSaveFile), and read again before every change, so     *)
(* that the copies its users hold do not matter.  An upload is a field of  *)
(* the record: QUEUED, SENDING, then SENT with QRZ's confirmation or       *)
(* ERROR.  The queue and the request under way are memory only: the        *)
(* application can die between any two of these, and QRZ's answer may be   *)
(* lost although it took the contact.                                      *)
(*                                                                         *)
(* A contact's _QK4_ID is the contact itself.  A handler is one step: the  *)
(* program does all of this on one thread, and dying inside a handler is   *)
(* the same as dying after the last save it made.  A practice contact is   *)
(* refused at the same two places as one of another callsign.              *)
(***************************************************************************)
EXTENDS Naturals, Sequences

CONSTANTS Contacts,   \* contacts that may be logged
          Calls,      \* callsigns with a QRZ logbook
          None,
          Crashes, Faults, Asks, Edits   \* bounds of the model

ASSUME ConstantsAssumption ==
    Asks \in Nat /\ Edits \in Nat /\ Crashes \in Nat /\ Faults \in Nat /\ None \notin Contacts

Record == [state : {"", "QUEUED", "SENDING", "SENT", "ERROR"},
           status : {"", "Y", "M"}, station : Calls \cup {""}, text : 0..Edits]

ASSUME NoneAssumption == None \notin Record

VARIABLES
    file,     \* contacts.json: each contact's record
    up,       \* "down", "starting" (resume is due) or "up"
    call,     \* m_call, kept in QSettings ("" without a key)
    auto,     \* m_auto, kept in QSettings
    queue,    \* m_queue
    busy,     \* the contact process() works on (m_busy), or None
    kick,     \* a call of process() is due
    wire,     \* requests on their way to QRZ: contact and text
    server,   \* what QRZ's logbook holds
    answer,   \* QRZ took the request under way
    asks,     \* times each contact's sending was asked for
    posts,    \* times each contact was posted
    crashes, faults   \* used of the bounds

setup == <<call, auto>>
net == <<wire, server>>
vars == <<file, up, setup, queue, busy, kick, net, answer, asks, posts,
          crashes, faults>>

Queued(c) == \E i \in DOMAIN queue : queue[i] = c

\* QrzLogbook::sent.
Sent(r) == r.status \in {"Y", "M"}

Init ==
    /\ file = [c \in Contacts |-> None]
    /\ up = "starting" /\ call = "" /\ auto = FALSE
    /\ queue = <<>> /\ busy = None /\ kick = FALSE
    /\ wire = {} /\ server = {} /\ answer = FALSE
    /\ asks = [c \in Contacts |-> 0] /\ posts = [c \in Contacts |-> 0]
    /\ crashes = 0 /\ faults = 0

(***************************************************************************)
(* The storage fails for a moment: within a step with `bad`, any read or   *)
(* save of the log or of the key may fail.                                 *)
(***************************************************************************)
Storage(bad) ==
    /\ bad => faults < Faults
    /\ faults' = IF bad THEN faults + 1 ELSE faults

----------------------------------------------------------------------------
(***************************************************************************)
(* QrzLogbook::send on the file f: what refuses it, and the queued record. *)
(***************************************************************************)
\* A plausible bug: what is queued already can be sent once more.
M_Sendable(f, c) ==
    /\ call # "" /\ f[c] # None /\ asks[c] < Asks
    /\ ~Sent(f[c]) /\ f[c].state # "SENDING"
    /\ f[c].station \in {"", call}

Sendable(f, c) ==
    /\ call # "" /\ f[c] # None /\ asks[c] < Asks
    /\ ~Sent(f[c]) /\ f[c].state \notin {"QUEUED", "SENDING"}
    /\ f[c].station \in {"", call}

Enqueue(f, c) ==
    /\ file' = [f EXCEPT ![c] = [@ EXCEPT !.state = "QUEUED", !.station = call]]
    /\ queue' = Append(queue, c)
    /\ kick' = TRUE
    /\ asks' = [asks EXCEPT ![c] = @ + 1]

\* The operator presses Send to QRZ.  A failed load or save changes nothing.
Send(c) ==
    /\ up = "up" /\ Sendable(file, c)
    /\ Enqueue(file, c)
    /\ UNCHANGED <<up, setup, busy, net, answer, posts, crashes, faults>>

\* Ft8Logbook::append reads the file again, saves, and tells QrzLogbook,
\* whose contactAdded sends the contact if that is automatic.
AppendContact(c, station, bad) ==
    LET new == [state |-> "", status |-> "", station |-> station, text |-> 0]
        next == [file EXCEPT ![c] = new]
    IN /\ up = "up" /\ file[c] = None /\ Storage(bad)
       /\ IF auto /\ ~bad /\ Sendable(next, c)          \* bad: send failed
            THEN Enqueue(next, c)
            ELSE file' = next /\ UNCHANGED <<queue, kick, asks>>
       /\ UNCHANGED <<up, setup, busy, net, answer, posts, crashes>>

\* Ft8Logbook::importRecords: a record may say that QRZ has it already.
Import(c, status) ==
    /\ up = "up" /\ file[c] = None
    /\ file' = [file EXCEPT ![c] = [state |-> "", status |-> status,
                                    station |-> "", text |-> 0]]
    /\ server' = IF status = "Y" THEN server \cup {<<c, 0>>} ELSE server
    /\ UNCHANGED <<up, setup, queue, busy, kick, wire, answer, asks,
                   posts, crashes, faults>>

(***************************************************************************)
(* Ft8Logbook::replace: refused while the contact is being sent; it reads  *)
(* the file first, keeps the fields the upload manages, and marks what     *)
(* QRZ already has as modified.                                            *)
(***************************************************************************)
\* A plausible bug: the fields the editor does not show are not kept.
M_Edited(old, station) ==
    [state |-> "", status |-> "", station |-> station, text |-> old.text + 1]

Edited(old, station) ==
    [old EXCEPT !.text = @ + 1, !.station = station,
                !.status = IF Sent(old) THEN "M" ELSE @]

\* A plausible bug: a contact can be edited while it is being sent.
M_Replace(c, station) ==
    /\ up = "up"
    /\ file[c] # None /\ file[c].text < Edits
    /\ file' = [file EXCEPT ![c] = Edited(@, station)]
    /\ UNCHANGED <<up, setup, queue, busy, kick, net, answer, asks, posts,
                   crashes, faults>>

Replace(c, station) ==
    /\ up = "up"
    /\ file[c] # None /\ file[c].state # "SENDING" /\ file[c].text < Edits
    /\ file' = [file EXCEPT ![c] = Edited(@, station)]
    /\ UNCHANGED <<up, setup, queue, busy, kick, net, answer, asks, posts,
                   crashes, faults>>

----------------------------------------------------------------------------
(***************************************************************************)
(* QrzLogbook::finish.  If its load or save fails the record stays as it   *)
(* is; the next contact is taken up all the same.                          *)
(***************************************************************************)
Finished(r, good) ==
    IF good THEN [r EXCEPT !.state = "SENT", !.status = "Y"]
            ELSE [r EXCEPT !.state = "ERROR"]

\* A plausible bug: after an upload nothing takes up the next contact.
M_Finish(f, c, good, saved) ==
    /\ file' = IF saved THEN [f EXCEPT ![c] = Finished(@, good)] ELSE f
    /\ busy' = None /\ UNCHANGED kick

Finish(f, c, good, saved) ==
    /\ file' = IF saved THEN [f EXCEPT ![c] = Finished(@, good)] ELSE f
    /\ busy' = None /\ kick' = TRUE

(***************************************************************************)
(* QrzLogbook::process, on the file f and the queue q: it takes the first  *)
(* contact, marks it SENDING, and posts it only if that was saved.  A      *)
(* contact of another callsign, or a failure on the way, ends in finish.   *)
(***************************************************************************)
Post(f, c) ==
    /\ file' = [f EXCEPT ![c] = [@ EXCEPT !.state = "SENDING"]]
    /\ wire' = wire \cup {<<c, f[c].text>>}
    /\ posts' = [posts EXCEPT ![c] = @ + 1]
    /\ busy' = c /\ answer' = FALSE /\ kick' = FALSE

Process(f, q, bad) ==
    IF busy # None \/ q = <<>>
    THEN file' = f /\ queue' = q /\ kick' = FALSE
         /\ UNCHANGED <<busy, wire, posts, answer>>
    ELSE LET c == Head(q)
         IN /\ queue' = Tail(q)
            /\ \/ ~bad /\ ~Sent(f[c]) /\ f[c].station = call /\ Post(f, c)
               \/ /\ bad \/ (~Sent(f[c]) /\ f[c].station # call)
                  /\ \E saved \in BOOLEAN : (~saved => bad) /\ Finish(f, c, FALSE, saved)
                  /\ UNCHANGED <<wire, posts, answer>>
               \/ /\ ~bad /\ Sent(f[c])
                  /\ file' = f /\ kick' = TRUE
                  /\ UNCHANGED <<busy, wire, posts, answer>>

ProcessNext(bad) ==
    /\ up = "up" /\ kick /\ Storage(bad)
    /\ Process(file, queue, bad)
    /\ UNCHANGED <<up, setup, server, asks, crashes>>

\* The request's finished signal: confirmed, refused, cut off or after 35 s
\* aborted.  QRZ may have taken the contact although nothing confirms it.
Reply(good, bad) ==
    /\ up = "up" /\ busy # None /\ (good => answer)
    /\ Storage(bad)
    /\ Finish(file, busy, good, ~bad)
    /\ answer' = FALSE
    /\ UNCHANGED <<up, setup, queue, net, asks, posts, crashes>>

(***************************************************************************)
(* QrzLogbook::resume, once after a start: what was being sent is marked   *)
(* as uncertain, what was queued is queued again, and process() runs.      *)
(***************************************************************************)
Interrupted == {c \in Contacts : /\ file[c] # None /\ ~Sent(file[c])
                                 /\ file[c].state = "SENDING"}

Settled(failed) == [c \in Contacts |-> IF c \in Interrupted \ failed
                                       THEN [file[c] EXCEPT !.state = "ERROR"]
                                       ELSE file[c]]

\* A plausible bug: what was being sent when the application died is sent again.
M_Waiting == {c \in Contacts : /\ file[c] # None /\ ~Sent(file[c])
                               /\ file[c].state \in {"QUEUED", "SENDING"}}

Waiting == {c \in Contacts : /\ file[c] # None /\ ~Sent(file[c])
                             /\ file[c].state = "QUEUED"}

\* The waiting contacts, in some order and each once.
Orders == {q \in UNION {[1..n -> Waiting] : n \in 0..Asks * 2} :
              /\ \A i, j \in DOMAIN q : q[i] = q[j] => i = j
              /\ \A c \in Waiting : \E i \in DOMAIN q : q[i] = c}

Resume(bad) ==
    /\ up = "starting" /\ Storage(bad)
    /\ up' = "up"
    /\ \/ \E failed \in SUBSET Interrupted, q \in Orders :
             /\ failed # {} => bad
             /\ Process(Settled(failed), q, bad)
       \/ /\ bad                      \* the log could not be read
          /\ UNCHANGED <<file, queue, busy, kick, wire, posts, answer>>
    /\ UNCHANGED <<setup, server, asks, crashes>>

----------------------------------------------------------------------------
(***************************************************************************)
(* Setup: refused while anything is queued or being sent.                  *)
(***************************************************************************)
Idle == busy = None /\ queue = <<>>

Configure(newCall, newAuto) ==
    /\ up = "up" /\ Idle
    /\ <<newCall, newAuto>> # setup
    /\ call' = newCall /\ auto' = newAuto
    /\ UNCHANGED <<file, up, queue, busy, kick, net, answer, asks, posts, crashes, faults>>

Forget ==
    /\ up = "up" /\ Idle /\ call # ""
    /\ call' = "" /\ auto' = FALSE
    /\ UNCHANGED <<file, up, queue, busy, kick, net, answer, asks, posts, crashes, faults>>

\* The application dies, and is started again.
Crash ==
    /\ up # "down" /\ crashes < Crashes
    /\ crashes' = crashes + 1
    /\ up' = "down"
    /\ queue' = <<>> /\ busy' = None /\ kick' = FALSE /\ answer' = FALSE
    /\ UNCHANGED <<file, setup, net, asks, posts, faults>>

Start ==
    /\ up = "down" /\ up' = "starting"
    /\ UNCHANGED <<file, setup, queue, busy, kick, net, answer, asks, posts, crashes, faults>>

\* QRZ takes a request, once per contact and text, or never sees it.
Take(w) ==
    /\ w \in wire
    /\ wire' = wire \ {w}
    /\ server' = server \cup {w}
    /\ answer' = (answer \/ (busy = w[1] /\ w \notin server /\ file[busy].text = w[2]))
    /\ UNCHANGED <<file, up, setup, queue, busy, kick, asks, posts, crashes, faults>>

Lose(w) ==
    /\ w \in wire
    /\ wire' = wire \ {w}
    /\ UNCHANGED <<file, up, setup, queue, busy, kick, server, answer, asks, posts,
                   crashes, faults>>

----------------------------------------------------------------------------
Next ==
    \/ \E c \in Contacts : Send(c)
    \/ \E c \in Contacts, s \in Calls \cup {""}, bad \in BOOLEAN : AppendContact(c, s, bad)
    \/ \E c \in Contacts, s \in {"", "Y"} : Import(c, s)
    \/ \E c \in Contacts, s \in Calls \cup {""} : Replace(c, s)
    \/ \E bad \in BOOLEAN : ProcessNext(bad)
    \/ \E good, bad \in BOOLEAN : Reply(good, bad)
    \/ \E bad \in BOOLEAN : Resume(bad)
    \/ \E c \in Calls, a \in BOOLEAN : Configure(c, a)
    \/ Forget
    \/ Crash
    \/ Start
    \/ \E w \in wire : Take(w)
    \/ \E w \in wire : Lose(w)

(***************************************************************************)
(* Fairness: singleShot(0) calls run, and a request ends by its 35 s       *)
(* deadline (qrzlogbook.cpp:223-226) at the latest.                        *)
(***************************************************************************)
Fairness ==
    /\ WF_vars(\E bad \in BOOLEAN : ProcessNext(bad))
    /\ WF_vars(\E good, bad \in BOOLEAN : Reply(good, bad))

Spec == Init /\ [][Next]_vars /\ Fairness

----------------------------------------------------------------------------
(***************************************************************************)
(* The types; and the queue and the request agree with the log: a contact  *)
(* is queued at most once and as QUEUED, the one under way is SENDING, and *)
(* neither outlives the application.                                       *)
(***************************************************************************)
TypeOK ==
    /\ file \in [Contacts -> Record \cup {None}]
    /\ auto \in BOOLEAN /\ kick \in BOOLEAN /\ answer \in BOOLEAN
    /\ up \in {"down", "starting", "up"}
    /\ call \in Calls \cup {""}
    /\ queue \in Seq(Contacts)
    /\ busy \in Contacts \cup {None}
    /\ wire \subseteq Contacts \X (0..Edits) /\ server \subseteq Contacts \X (0..Edits)
    /\ asks \in [Contacts -> Nat] /\ posts \in [Contacts -> Nat]
    /\ crashes \in Nat /\ faults \in Nat
    /\ \A i, j \in DOMAIN queue : queue[i] = queue[j] => i = j
    /\ \A i \in DOMAIN queue : file[queue[i]] # None /\ file[queue[i]].state = "QUEUED"
    /\ busy # None => file[busy] # None /\ file[busy].state = "SENDING"
    /\ up # "up" => queue = <<>> /\ busy = None

(***************************************************************************)
(* A contact is never posted more often than its sending was asked for: no *)
(* crash, restart, failed save or lost answer makes the program repeat a   *)
(* post on its own ("is not blindly retried", docs/QRZ_LOGBOOK.md:28-29).  *)
(***************************************************************************)
PostedAsAsked == \A c \in Contacts : posts[c] <= asks[c]

(***************************************************************************)
(* A checked contact is one that QRZ holds with the text the log shows, or *)
(* is marked as modified since.                                            *)
(***************************************************************************)
CheckedIsOnQrz ==
    \A c \in Contacts :
        file[c] # None =>
            /\ file[c].status = "Y" => <<c, file[c].text>> \in server
            /\ file[c].status = "M" => \E t \in 0..file[c].text : <<c, t>> \in server

(***************************************************************************)
(* No change of the log, by the operator or by an upload, loses a contact or *)
(* the check of one that was sent.                                         *)
(***************************************************************************)
NothingIsLost ==
    [][\A c \in Contacts : file[c] # None =>
           /\ file'[c] # None /\ file'[c].text >= file[c].text
           /\ Sent(file[c]) => Sent(file'[c])]_file

(***************************************************************************)
(* A queued contact's upload ends: it leaves the queue and the request     *)
(* ends, or the application dies.                                          *)
(***************************************************************************)
UploadEnds == \A c \in Contacts : Queued(c) ~> (~Queued(c) /\ busy # c)

=============================================================================
