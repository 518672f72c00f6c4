-------------------------- MODULE QrzUploadProofs --------------------------
(***************************************************************************)
(* Proofs about QrzUpload, for every set of contacts and callsigns and     *)
(* every bound.  The invariants the runs check are not inductive: that a   *)
(* contact is not posted too often needs that each queued record stands    *)
(* for one post still owed, that the queue holds a contact once and only   *)
(* while its record says QUEUED, and that a checked contact is on QRZ      *)
(* needs what an answer under way stands for.                              *)
(***************************************************************************)
EXTENDS QrzUpload, SequenceTheorems, TLAPS

LogOK(f) == f \in [Contacts -> Record \cup {None}]

QueueOK(f, q) ==
    /\ q \in Seq(Contacts)
    /\ \A i, j \in DOMAIN q : q[i] = q[j] => i = j
    /\ \A i \in DOMAIN q : f[q[i]] # None /\ f[q[i]].state = "QUEUED"

BusyOK(f, b) ==
    /\ b \in Contacts \cup {None}
    /\ b # None => f[b] # None /\ f[b].state = "SENDING"

\* A queued record stands for one post that is still owed.
Owed(r) == IF r # None /\ r.state = "QUEUED" THEN 1 ELSE 0

Counted(f, p, a) ==
    /\ p \in [Contacts -> Nat] /\ a \in [Contacts -> Nat]
    /\ \A c \in Contacts : p[c] + Owed(f[c]) <= a[c]

\* What a checked record says about QRZ's logbook.
CheckedAt(r, c, s) ==
    r # None => /\ r.status = "Y" => <<c, r.text>> \in s
                /\ r.status = "M" => \E t \in 0..r.text : <<c, t>> \in s

Checked(f, s) == \A c \in Contacts : CheckedAt(f[c], c, s)

\* An answer under way is about the contact being sent, as the log has it.
Answered(f, b, a, s) == a => b # None /\ <<b, f[b].text>> \in s

Plain ==
    /\ auto \in BOOLEAN /\ kick \in BOOLEAN /\ answer \in BOOLEAN
    /\ up \in {"down", "starting", "up"}
    /\ call \in Calls \cup {""}
    /\ wire \subseteq Contacts \X (0..Edits) /\ server \subseteq Contacts \X (0..Edits)
    /\ crashes \in Nat /\ faults \in Nat
    /\ up # "up" => queue = <<>> /\ busy = None

\* A log, a queue, a request, the counts, QRZ's logbook and an answer agree.
Agree(f, q, b, p, a, s, x) ==
    /\ LogOK(f)
    /\ QueueOK(f, q)
    /\ BusyOK(f, b)
    /\ Counted(f, p, a)
    /\ Checked(f, s)
    /\ Answered(f, b, x, s)

IInv == Plain /\ Agree(file, queue, busy, posts, asks, server, answer)

\* What a step may do to one record.
KeepsRecord(r, s) ==
    r # None => s # None /\ s.text >= r.text /\ (Sent(r) => Sent(s))

Keeps(f, g) == \A c \in Contacts : KeepsRecord(f[c], g[c])

\* What the runs check follows from the invariant.
LEMMA InvariantImplies == IInv => TypeOK /\ PostedAsAsked /\ CheckedIsOnQrz
<1> SUFFICES ASSUME IInv PROVE TypeOK /\ PostedAsAsked /\ CheckedIsOnQrz
    OBVIOUS
<1>1. TypeOK
    BY DEF IInv, Agree, Plain, LogOK, QueueOK, BusyOK, Counted, TypeOK
<1>2. PostedAsAsked
  <2> SUFFICES ASSUME NEW c \in Contacts PROVE posts[c] <= asks[c]
      BY DEF PostedAsAsked
  <2>1. Owed(file[c]) \in {0, 1}
      BY DEF Owed
  <2> QED BY <2>1 DEF IInv, Agree, Counted
<1>3. CheckedIsOnQrz
    BY DEF IInv, Agree, Checked, CheckedAt, CheckedIsOnQrz
<1> QED BY <1>1, <1>2, <1>3

\* Nothing queued is as it should be.
LEMMA EmptyQueue == ASSUME NEW f PROVE QueueOK(f, <<>>)
<1>1. <<>> \in Seq(Contacts) /\ DOMAIN <<>> = {}
    BY EmptySeq
<1> QED BY <1>1, Zenon DEF QueueOK

\* The invariant holds at first.
LEMMA InitInvariant == Init => IInv
<1> SUFFICES ASSUME Init PROVE IInv
    OBVIOUS
<1>1. Plain /\ LogOK(file)
    BY DEF Init, setup, Plain, LogOK
<1>2. QueueOK(file, queue) /\ BusyOK(file, busy)
    BY EmptyQueue DEF Init, BusyOK
<1>3. Counted(file, posts, asks)
  <2>1. \A c \in Contacts : posts[c] = 0 /\ asks[c] = 0 /\ Owed(file[c]) = 0
      BY DEF Init, Owed
  <2>2. posts \in [Contacts -> Nat] /\ asks \in [Contacts -> Nat]
      BY DEF Init
  <2> QED BY <2>1, <2>2 DEF Counted
<1>4. Checked(file, server) /\ Answered(file, busy, answer, server)
    BY DEF Init, Checked, CheckedAt, Answered
<1> QED BY <1>1, <1>2, <1>3, <1>4 DEF IInv, Agree

----------------------------------------------------------------------------
(***************************************************************************)
(* One record of the log changes.  What follows for the queue, the request *)
(* and the counts is the same whoever changes it.                          *)
(***************************************************************************)
\* g is the log f with the record r for c.
Write(f, g, c, r) ==
    /\ LogOK(f) /\ LogOK(g)
    /\ g[c] = r
    /\ \A d \in Contacts : d # c => g[d] = f[d]

LEMMA OneRecord ==
    ASSUME NEW f, LogOK(f), NEW c \in Contacts, NEW r \in Record
    PROVE  Write(f, [f EXCEPT ![c] = r], c, r)
BY DEF LogOK, Write

LEMMA NotNone == ASSUME NEW r \in Record PROVE r # None
BY NoneAssumption

LEMMA RecordFields ==
    ASSUME NEW r \in Record
    PROVE  /\ r.state \in {"", "QUEUED", "SENDING", "SENT", "ERROR"}
           /\ r.status \in {"", "Y", "M"}
           /\ r.station \in Calls \cup {""}
           /\ r.text \in 0..Edits
BY DEF Record

LEMMA InLog ==
    ASSUME NEW f, LogOK(f), NEW c \in Contacts, f[c] # None
    PROVE  f[c] \in Record
BY DEF LogOK

\* The records the steps write.
LEMMA QueuedRecord ==
    ASSUME NEW r \in Record, NEW s \in Calls \cup {""}
    PROVE  LET n == [r EXCEPT !.state = "QUEUED", !.station = s]
           IN n \in Record /\ n.state = "QUEUED" /\ n.status = r.status /\ n.text = r.text
BY DEF Record

LEMMA SendingRecord ==
    ASSUME NEW r \in Record
    PROVE  LET n == [r EXCEPT !.state = "SENDING"]
           IN n \in Record /\ n.state = "SENDING" /\ n.status = r.status /\ n.text = r.text
BY DEF Record

LEMMA ErrorRecord ==
    ASSUME NEW r \in Record
    PROVE  LET n == [r EXCEPT !.state = "ERROR"]
           IN n \in Record /\ n.state = "ERROR" /\ n.status = r.status /\ n.text = r.text
BY DEF Record

LEMMA FinishedRecord ==
    ASSUME NEW r \in Record, NEW good \in BOOLEAN
    PROVE  LET n == Finished(r, good)
           IN /\ n \in Record /\ n.state \in {"SENT", "ERROR"} /\ n.text = r.text
              /\ n.status = IF good THEN "Y" ELSE r.status
BY DEF Record, Finished

LEMMA NextText == ASSUME NEW n \in 0..Edits, n < Edits PROVE n + 1 \in 0..Edits
BY ConstantsAssumption

LEMMA FirstText == 0 \in 0..Edits
BY ConstantsAssumption

LEMMA ChangedRecord ==
    ASSUME NEW r \in Record, NEW t \in 0..Edits, NEW s \in Calls \cup {""}, NEW m \in {"", "Y", "M"}
    PROVE  LET n == [r EXCEPT !.text = t, !.station = s, !.status = m]
           IN n \in Record /\ n.state = r.state /\ n.text = t /\ n.status = m
BY DEF Record

LEMMA EditedRecord ==
    ASSUME NEW r \in Record, r.text < Edits, NEW s \in Calls \cup {""}
    PROVE  LET n == Edited(r, s)
           IN /\ n \in Record /\ n.state = r.state /\ n.text = r.text + 1
              /\ n.status = IF Sent(r) THEN "M" ELSE r.status
<1> DEFINE m == IF Sent(r) THEN "M" ELSE r.status
           t == r.text + 1
<1>1. r.text \in 0..Edits /\ m \in {"", "Y", "M"}
    BY RecordFields
<1>2. t \in 0..Edits
    BY <1>1, NextText
<1>3. Edited(r, s) = [r EXCEPT !.text = t, !.station = s, !.status = m]
    BY DEF Edited, Record
<1> HIDE DEF m, t
<1>4. LET n == [r EXCEPT !.text = t, !.station = s, !.status = m]
      IN n \in Record /\ n.state = r.state /\ n.text = t /\ n.status = m
    BY <1>1, <1>2 DEF Record
<1> QED BY <1>3, <1>4 DEF m, t

LEMMA NewRecord ==
    ASSUME NEW st \in {"", "Y"}, NEW s \in Calls \cup {""}
    PROVE  [state |-> "", status |-> st, station |-> s, text |-> 0] \in Record
BY FirstText DEF Record

----------------------------------------------------------------------------
(***************************************************************************)
(* The parts of the invariant, when the record of c becomes r.             *)
(***************************************************************************)
LEMMA WriteQueue ==
    ASSUME NEW f, NEW g, NEW c \in Contacts, NEW r \in Record, Write(f, g, c, r),
           NEW q, QueueOK(f, q), \A i \in DOMAIN q : q[i] = c => r.state = "QUEUED"
    PROVE  QueueOK(g, q)
<1>1. ASSUME NEW i \in DOMAIN q PROVE g[q[i]] # None /\ g[q[i]].state = "QUEUED"
  <2>1. q[i] \in Contacts
      BY <1>1, ElementOfSeq DEF QueueOK
  <2>2. CASE q[i] = c
      BY <2>2, <1>1, NotNone DEF Write
  <2>3. CASE q[i] # c
      BY <2>1, <2>3, <1>1 DEF QueueOK, Write
  <2> QED BY <2>2, <2>3
<1> QED BY <1>1 DEF QueueOK

LEMMA WriteBusy ==
    ASSUME NEW f, NEW g, NEW c \in Contacts, NEW r, Write(f, g, c, r),
           NEW b, BusyOK(f, b), b # c
    PROVE  BusyOK(g, b)
BY DEF BusyOK, Write

LEMMA WriteCounted ==
    ASSUME NEW f, NEW g, NEW c \in Contacts, NEW r, Write(f, g, c, r),
           NEW p, NEW a, Counted(f, p, a), p[c] + Owed(r) <= a[c]
    PROVE  Counted(g, p, a)
<1>1. ASSUME NEW d \in Contacts PROVE p[d] + Owed(g[d]) <= a[d]
  <2>1. CASE d = c
      BY <2>1 DEF Write
  <2>2. CASE d # c
      BY <2>2 DEF Write, Counted
  <2> QED BY <2>1, <2>2
<1> QED BY <1>1 DEF Counted

LEMMA WriteChecked ==
    ASSUME NEW f, NEW g, NEW c \in Contacts, NEW r, Write(f, g, c, r),
           NEW s, Checked(f, s), CheckedAt(r, c, s)
    PROVE  Checked(g, s)
<1>1. ASSUME NEW d \in Contacts PROVE CheckedAt(g[d], d, s)
  <2>1. CASE d = c
      BY <2>1 DEF Write
  <2>2. CASE d # c
      BY <2>2 DEF Write, Checked
  <2> QED BY <2>1, <2>2
<1> QED BY <1>1 DEF Checked

LEMMA WriteAnswered ==
    ASSUME NEW f, NEW g, NEW c \in Contacts, NEW r, Write(f, g, c, r),
           NEW b, BusyOK(f, b), NEW x, NEW s, Answered(f, b, x, s), b # c
    PROVE  Answered(g, b, x, s)
BY DEF Answered, BusyOK, Write

LEMMA TextGrows ==
    ASSUME NEW n \in 0..Edits, NEW m, m = n + 1
    PROVE  m >= n /\ n \in 0..n /\ \A t \in 0..n : t \in 0..m
BY ConstantsAssumption

LEMMA StorageOp ==
    ASSUME faults \in Nat, NEW bad \in BOOLEAN, Storage(bad)
    PROVE  faults' \in Nat
<1>1. CASE bad
    BY <1>1 DEF Storage
<1>2. CASE ~bad
    BY <1>2 DEF Storage
<1> QED BY <1>1, <1>2

\* A record that nothing changes, or a step after another.
LEMMA KeepsSame == ASSUME NEW f, LogOK(f) PROVE Keeps(f, f)
<1> SUFFICES ASSUME NEW c \in Contacts, f[c] # None PROVE f[c].text >= f[c].text
    BY DEF Keeps, KeepsRecord
<1>1. f[c].text \in 0..Edits
    BY InLog, RecordFields
<1> QED BY <1>1, ConstantsAssumption

LEMMA KeepsTwice ==
    ASSUME NEW f, NEW g, NEW h, LogOK(f), LogOK(g), LogOK(h), Keeps(f, g), Keeps(g, h)
    PROVE  Keeps(f, h)
<1> SUFFICES ASSUME NEW c \in Contacts, f[c] # None PROVE KeepsRecord(f[c], h[c])
    BY DEF Keeps, KeepsRecord
<1>1. g[c] # None /\ g[c].text >= f[c].text /\ (Sent(f[c]) => Sent(g[c]))
    BY DEF Keeps, KeepsRecord
<1>2. h[c] # None /\ h[c].text >= g[c].text /\ (Sent(g[c]) => Sent(h[c]))
    BY <1>1 DEF Keeps, KeepsRecord
<1>3. f[c].text \in 0..Edits /\ g[c].text \in 0..Edits /\ h[c].text \in 0..Edits
    BY <1>1, <1>2, InLog, RecordFields
<1>4. h[c].text >= f[c].text
    BY <1>1, <1>2, <1>3, ConstantsAssumption
<1> QED BY <1>1, <1>2, <1>4 DEF KeepsRecord

LEMMA WriteKeeps ==
    ASSUME NEW f, NEW g, NEW c \in Contacts, NEW r, Write(f, g, c, r), KeepsRecord(f[c], r)
    PROVE  Keeps(f, g)
<1>1. Keeps(f, f)
    BY KeepsSame DEF Write
<1> QED BY <1>1 DEF Keeps, Write

\* A record with the text and the check of another keeps it.
LEMMA SameText ==
    ASSUME NEW r \in Record, NEW n \in Record, n.text = r.text, n.status = r.status
    PROVE  KeepsRecord(r, n) /\ \A c, s : CheckedAt(r, c, s) => CheckedAt(n, c, s)
<1>1. r.text \in 0..Edits /\ r # None /\ n # None
    BY RecordFields, NotNone
<1>2. n.text >= r.text
    BY <1>1, ConstantsAssumption
<1> QED BY <1>1, <1>2 DEF KeepsRecord, Sent, CheckedAt

----------------------------------------------------------------------------
(***************************************************************************)
(* Each operation keeps the agreement and every record.  The same four     *)
(* arguments recur: Agreed says when a written record keeps the agreement. *)
(***************************************************************************)
LEMMA Agreed ==
    ASSUME NEW f, NEW g, NEW c \in Contacts, NEW r \in Record, Write(f, g, c, r),
           NEW q, NEW b, NEW p, NEW a, NEW s, NEW x, Agree(f, q, b, p, a, s, x),
           \A i \in DOMAIN q : q[i] = c => r.state = "QUEUED",
           b # c, p[c] + Owed(r) <= a[c], CheckedAt(r, c, s)
    PROVE  Agree(g, q, b, p, a, s, x)
<1>1. LogOK(g)
    BY DEF Write
<1>2. QueueOK(g, q)
    BY WriteQueue DEF Agree
<1>3. BusyOK(g, b)
    BY WriteBusy DEF Agree
<1>4. Counted(g, p, a)
    BY WriteCounted DEF Agree
<1>5. Checked(g, s)
    BY WriteChecked DEF Agree
<1>6. Answered(g, b, x, s)
    BY WriteAnswered DEF Agree
<1> QED BY <1>1, <1>2, <1>3, <1>4, <1>5, <1>6 DEF Agree

\* A contact that is not QUEUED is not in the queue, and one not SENDING is
\* not under way.
LEMMA Outside ==
    ASSUME NEW f, NEW q, NEW b, QueueOK(f, q), BusyOK(f, b), NEW c \in Contacts
    PROVE  /\ ~(f[c] # None /\ f[c].state = "QUEUED") => \A i \in DOMAIN q : q[i] # c
           /\ ~(f[c] # None /\ f[c].state = "SENDING") => b # c
<1>1. ~(f[c] # None /\ f[c].state = "QUEUED") => \A i \in DOMAIN q : q[i] # c
    BY DEF QueueOK
<1>2. ~(f[c] # None /\ f[c].state = "SENDING") => b # c
    BY ConstantsAssumption DEF BusyOK
<1> QED BY <1>1, <1>2

LEMMA Counting ==
    ASSUME NEW x \in Nat, NEW y \in Nat, NEW n \in {0, 1}, NEW m \in {0, 1}, x + n <= y
    PROVE  x <= y /\ x + m <= y + 1 /\ (n = 1 => x + 1 <= y)
OBVIOUS

\* One more asked, or one more posted.
LEMMA OneMore ==
    ASSUME NEW a, NEW b, a \in [Contacts -> Nat], NEW c \in Contacts, b = [a EXCEPT ![c] = @ + 1]
    PROVE  /\ b \in [Contacts -> Nat] /\ b[c] = a[c] + 1
           /\ \A d \in Contacts : d # c => b[d] = a[d]
OBVIOUS

LEMMA AppendQueue ==
    ASSUME NEW f, NEW q, QueueOK(f, q), NEW c \in Contacts, \A i \in DOMAIN q : q[i] # c,
           f[c] # None, f[c].state = "QUEUED"
    PROVE  QueueOK(f, Append(q, c))
<1>1. q \in Seq(Contacts) /\ DOMAIN q = 1..Len(q) /\ Len(q) \in Nat
    BY LenProperties DEF QueueOK
<1> DEFINE n == Append(q, c)
<1>2. /\ n \in Seq(Contacts) /\ DOMAIN n = 1..Len(q) + 1
      /\ \A i \in DOMAIN n : n[i] = IF i \in DOMAIN q THEN q[i] ELSE c
      /\ \A i \in DOMAIN n : i \in DOMAIN q \/ i = Len(q) + 1
    BY <1>1
<1> HIDE DEF n
<1>3. \A i, j \in DOMAIN n : n[i] = n[j] => i = j
    BY <1>2 DEF QueueOK
<1>4. \A i \in DOMAIN n : f[n[i]] # None /\ f[n[i]].state = "QUEUED"
    BY <1>2 DEF QueueOK
<1>5. QueueOK(f, n)
    BY <1>2, <1>3, <1>4 DEF QueueOK
<1> QED BY <1>5 DEF n

LEMMA EnqueueStep ==
    ASSUME NEW f, Agree(f, queue, busy, posts, asks, server, answer), NEW c \in Contacts,
           Sendable(f, c), Enqueue(f, c), call \in Calls \cup {""},
           UNCHANGED <<busy, posts, server, answer>>
    PROVE  Agree(file', queue', busy', posts', asks', server', answer') /\ Keeps(f, file')
<1> DEFINE r == [f[c] EXCEPT !.state = "QUEUED", !.station = call]
<1>1. f[c] \in Record /\ LogOK(f) /\ f[c].state # "QUEUED" /\ f[c].state # "SENDING"
    BY InLog DEF Agree, Sendable
<1>2. /\ r \in Record /\ r.state = "QUEUED"
      /\ r.status = f[c].status /\ r.text = f[c].text
    BY <1>1, QueuedRecord
<1>3. file' = [f EXCEPT ![c] = r]
    BY DEF Enqueue
<1> HIDE DEF r
<1>4. Write(f, file', c, r)
    BY <1>1, <1>2, <1>3, OneRecord
<1>5. (\A i \in DOMAIN queue : queue[i] # c) /\ busy # c
  <2>1. QueueOK(f, queue) /\ BusyOK(f, busy)
      BY DEF Agree
  <2>2. \A i \in DOMAIN queue : queue[i] # c
      BY <2>1, <1>1 DEF QueueOK
  <2>3. busy # c
      BY <2>1, <1>1, ConstantsAssumption DEF BusyOK
  <2> QED BY <2>2, <2>3
<1>6. KeepsRecord(f[c], r) /\ CheckedAt(r, c, server)
    BY <1>1, <1>2, SameText DEF Agree, Checked
<1>7. QueueOK(file', queue')
  <2>1. QueueOK(file', queue)
      BY <1>2, <1>4, <1>5, WriteQueue DEF Agree
  <2>2. file'[c] # None /\ file'[c].state = "QUEUED"
      BY <1>2, <1>4, NotNone DEF Write
  <2> QED BY <2>1, <2>2, <1>5, AppendQueue DEF Enqueue
<1>8. Counted(file', posts, asks')
  <2>1. Counted(f, posts, asks) /\ asks' = [asks EXCEPT ![c] = @ + 1]
      BY DEF Agree, Enqueue
  <2>2. /\ asks' \in [Contacts -> Nat] /\ posts \in [Contacts -> Nat]
        /\ asks'[c] = asks[c] + 1
        /\ \A d \in Contacts : d # c => asks'[d] = asks[d]
      BY <2>1, OneMore DEF Counted
  <2>3. posts[c] \in Nat /\ asks[c] \in Nat /\ posts[c] + Owed(f[c]) <= asks[c]
      BY <2>1 DEF Counted
  <2>4. Owed(f[c]) = 0 /\ Owed(file'[c]) \in {0, 1}
      BY <1>1 DEF Owed
  <2>6. posts[c] + Owed(file'[c]) <= asks'[c]
    <3>1. Owed(f[c]) \in {0, 1}
        BY DEF Owed
    <3>2. posts[c] + Owed(file'[c]) <= asks[c] + 1
        BY <2>3, <2>4, <3>1, Counting, Zenon
    <3> QED BY <2>2, <3>2, Zenon
  <2>5. \A d \in Contacts : d # c => posts[d] + Owed(file'[d]) <= asks'[d]
      BY <2>1, <2>2, <1>4 DEF Write, Counted
  <2> QED BY <2>2, <2>6, <2>5 DEF Counted
<1>9. BusyOK(file', busy) /\ Checked(file', server) /\ Answered(file', busy, answer, server)
    BY <1>4, <1>5, <1>6, WriteBusy, WriteChecked, WriteAnswered DEF Agree
<1>10. Agree(file', queue', busy', posts', asks', server', answer')
    BY <1>4, <1>7, <1>8, <1>9 DEF Agree, Write
<1>11. Keeps(f, file')
    BY <1>4, <1>6, WriteKeeps
<1> QED BY <1>10, <1>11

\* A new contact, from the program or from a file.
LEMMA NewContact ==
    ASSUME IInv, NEW c \in Contacts, file[c] = None, NEW r \in Record, r.state = "",
           r.status # "M", NEW s, server \subseteq s, r.status = "Y" => <<c, r.text>> \in s
    PROVE  LET g == [file EXCEPT ![c] = r]
           IN Agree(g, queue, busy, posts, asks, s, answer) /\ Keeps(file, g) /\ LogOK(g)
<1> DEFINE g == [file EXCEPT ![c] = r]
<1>1. LogOK(file) /\ QueueOK(file, queue) /\ BusyOK(file, busy)
    BY DEF IInv, Agree
<1>2. Write(file, g, c, r)
    BY <1>1, OneRecord
<1> HIDE DEF g
<1>3. (\A i \in DOMAIN queue : queue[i] # c) /\ busy # c
    BY <1>1, Outside
<1>4. Agree(file, queue, busy, posts, asks, s, answer)
  <2>1. Checked(file, s)
      BY DEF IInv, Agree, Checked, CheckedAt
  <2>2. Answered(file, busy, answer, s)
      BY DEF IInv, Agree, Answered
  <2> QED BY <2>1, <2>2 DEF IInv, Agree
<1>5. posts[c] + Owed(r) <= asks[c]
  <2>1. Owed(r) = 0 /\ Owed(file[c]) = 0
      BY DEF Owed
  <2> QED BY <2>1 DEF IInv, Agree, Counted
<1>6. CheckedAt(r, c, s)
    BY DEF CheckedAt
<1>7. Agree(g, queue, busy, posts, asks, s, answer)
    BY <1>2, <1>3, <1>4, <1>5, <1>6, Agreed
<1>8. Keeps(file, g)
  <2>1. KeepsRecord(file[c], r)
      BY DEF KeepsRecord
  <2> QED BY <2>1, <1>2, WriteKeeps
<1> QED BY <1>2, <1>7, <1>8 DEF g, Write

LEMMA SendStep ==
    ASSUME IInv, NEW c \in Contacts, Send(c)
    PROVE  IInv' /\ Keeps(file, file')
<1>1. Agree(file', queue', busy', posts', asks', server', answer') /\ Keeps(file, file')
    BY EnqueueStep DEF Send, IInv, Plain, net
<1>2. Plain'
    BY DEF IInv, Plain, Send, Enqueue, setup, net
<1> QED BY <1>1, <1>2 DEF IInv

LEMMA AppendStep ==
    ASSUME IInv, NEW c \in Contacts, NEW s \in Calls \cup {""}, NEW bad \in BOOLEAN,
           AppendContact(c, s, bad)
    PROVE  IInv' /\ Keeps(file, file')
<1> DEFINE r == [state |-> "", status |-> "", station |-> s, text |-> 0]
           g == [file EXCEPT ![c] = r]
<1>1. r \in Record /\ r.state = "" /\ r.status = ""
    BY NewRecord
<1>2. /\ file[c] = None
      /\ \/ Sendable(g, c) /\ Enqueue(g, c)
         \/ file' = g /\ UNCHANGED <<queue, kick, asks>>
      /\ Storage(bad) /\ UNCHANGED <<up, setup, busy, net, answer, posts, crashes>>
      /\ up = "up"
    BY DEF AppendContact
<1>3. Agree(g, queue, busy, posts, asks, server, answer) /\ Keeps(file, g) /\ LogOK(g)
    BY <1>1, <1>2, NewContact
<1> HIDE DEF g, r
<1>4. LogOK(file)
    BY DEF IInv, Agree
<1>5. call \in Calls \cup {""} /\ faults' \in Nat
    BY <1>2, StorageOp DEF IInv, Plain
<1>6. CASE Sendable(g, c) /\ Enqueue(g, c)
  <2>1. Agree(file', queue', busy', posts', asks', server', answer') /\ Keeps(g, file')
      BY <1>2, <1>3, <1>5, <1>6, EnqueueStep DEF net
  <2>2. Keeps(file, file')
      BY <2>1, <1>3, <1>4, KeepsTwice DEF Agree
  <2>3. Plain'
      BY <1>2, <1>5, <1>6 DEF IInv, Plain, Enqueue, setup, net
  <2> QED BY <2>1, <2>2, <2>3 DEF IInv
<1>7. CASE file' = g /\ UNCHANGED <<queue, kick, asks>>
  <2>1. Agree(file', queue', busy', posts', asks', server', answer') /\ Keeps(file, file')
      BY <1>2, <1>3, <1>7 DEF net
  <2>2. Plain'
      BY <1>2, <1>5, <1>7 DEF IInv, Plain, setup, net
  <2> QED BY <2>1, <2>2 DEF IInv
<1> QED BY <1>2, <1>6, <1>7

LEMMA ImportStep ==
    ASSUME IInv, NEW c \in Contacts, NEW status \in {"", "Y"}, Import(c, status)
    PROVE  IInv' /\ Keeps(file, file')
<1> DEFINE r == [state |-> "", status |-> status, station |-> "", text |-> 0]
<1>1. r \in Record /\ r.state = "" /\ r.status = status /\ r.text = 0
    BY NewRecord
<1>2. file' = [file EXCEPT ![c] = r] /\ file[c] = None
    BY DEF Import
<1> HIDE DEF r
<1>3. server' = IF status = "Y" THEN server \cup {<<c, 0>>} ELSE server
    BY DEF Import
<1>4. Agree(file', queue, busy, posts, asks, server', answer) /\ Keeps(file, file')
  <2>1. server \subseteq server' /\ (r.status = "Y" => <<c, r.text>> \in server')
      BY <1>1, <1>3
  <2>2. r.status # "M"
      BY <1>1
  <2> QED BY <1>1, <1>2, <2>1, <2>2, NewContact
<1>5. Agree(file', queue', busy', posts', asks', server', answer')
    BY <1>4 DEF Import
<1>6. Plain'
  <2>1. <<c, 0>> \in Contacts \X (0..Edits)
      BY FirstText
  <2>2. server' \subseteq Contacts \X (0..Edits)
      BY <1>3, <2>1 DEF IInv, Plain
  <2> QED BY <2>2 DEF IInv, Plain, Import, setup
<1> QED BY <1>4, <1>5, <1>6 DEF IInv

LEMMA ReplaceStep ==
    ASSUME IInv, NEW c \in Contacts, NEW s \in Calls \cup {""}, Replace(c, s)
    PROVE  IInv' /\ Keeps(file, file')
<1> DEFINE o == file[c]
           r == Edited(o, s)
<1>1. o \in Record /\ o.text < Edits /\ o # None /\ o.state # "SENDING"
    BY InLog DEF IInv, Agree, Replace
<1>2. /\ r \in Record /\ r.state = o.state /\ r.text = o.text + 1
      /\ r.status = IF Sent(o) THEN "M" ELSE o.status
    BY <1>1, EditedRecord
<1>3. file' = [file EXCEPT ![c] = r]
    BY DEF Replace
<1>4. o.text \in 0..Edits
    BY <1>1, RecordFields
<1>5. Agree(file, queue, busy, posts, asks, server, answer)
    BY DEF IInv
<1>6. o = file[c]
    OBVIOUS
<1> HIDE DEF r, o
<1>7. Write(file, file', c, r)
    BY <1>2, <1>3, <1>5, OneRecord DEF Agree
<1>8. busy # c
  <2>1. BusyOK(file, busy) /\ file[c].state # "SENDING"
      BY <1>1, <1>5, <1>6 DEF Agree
  <2> QED BY <2>1, ConstantsAssumption DEF BusyOK
<1>9. \A i \in DOMAIN queue : queue[i] = c => r.state = "QUEUED"
    BY <1>2, <1>5, <1>6 DEF Agree, QueueOK
<1>10. posts[c] + Owed(r) <= asks[c]
  <2>1. Owed(r) = Owed(o)
      BY <1>1, <1>2, NotNone DEF Owed
  <2> QED BY <2>1, <1>5, <1>6 DEF Agree, Counted
<1>11. CheckedAt(o, c, server)
    BY <1>5, <1>6 DEF Agree, Checked
<1>12. CheckedAt(r, c, server)
  <2>1. o.status = "M" \/ o.status = "Y" => \E t \in 0..o.text : <<c, t>> \in server
      BY <1>1, <1>11, <1>4, TextGrows DEF CheckedAt
  <2>2. \A t \in 0..o.text : t \in 0..r.text
      BY <1>2, <1>4, TextGrows
  <2>3. r.status = "M" => o.status = "M" \/ o.status = "Y"
      BY <1>2 DEF Sent
  <2>4. r.status # "Y"
      BY <1>2 DEF Sent
  <2> QED BY <2>1, <2>2, <2>3, <2>4 DEF CheckedAt
<1>13. Agree(file', queue, busy, posts, asks, server, answer)
    BY <1>2, <1>5, <1>7, <1>8, <1>9, <1>10, <1>12, Agreed
<1>14. Agree(file', queue', busy', posts', asks', server', answer')
    BY <1>13 DEF Replace, net
<1>15. Keeps(file, file')
  <2>1. r.text >= o.text
      BY <1>2, <1>4, TextGrows
  <2>2. Sent(o) => Sent(r)
      BY <1>2 DEF Sent
  <2>3. KeepsRecord(o, r)
      BY <1>2, <2>1, <2>2, NotNone DEF KeepsRecord
  <2> QED BY <2>3, <1>6, <1>7, WriteKeeps
<1>16. Plain'
    BY DEF IInv, Plain, Replace, setup, net
<1> QED BY <1>14, <1>15, <1>16 DEF IInv

----------------------------------------------------------------------------
(***************************************************************************)
(* process(), on any log and queue that agree.                             *)
(***************************************************************************)
LEMMA TailQueue ==
    ASSUME NEW f, NEW q, QueueOK(f, q), q # <<>>
    PROVE  /\ QueueOK(f, Tail(q)) /\ Head(q) \in Contacts
           /\ f[Head(q)] # None /\ f[Head(q)].state = "QUEUED"
           /\ \A i \in DOMAIN Tail(q) : Tail(q)[i] # Head(q)
<1> DEFINE n == Tail(q)
<1>1. q \in Seq(Contacts) /\ DOMAIN q = 1..Len(q) /\ Len(q) \in Nat /\ Len(q) # 0
    BY LenProperties, EmptySeq DEF QueueOK
<1>2. Head(q) = q[1] /\ 1 \in DOMAIN q
    BY <1>1
<1>3. Head(q) \in Contacts /\ f[Head(q)] # None /\ f[Head(q)].state = "QUEUED"
    BY <1>1, <1>2, ElementOfSeq DEF QueueOK
<1>4. /\ n \in Seq(Contacts)
      /\ \A i \in DOMAIN n : i + 1 \in DOMAIN q /\ n[i] = q[i + 1] /\ i \in Nat /\ i # 0
    BY <1>1
<1> HIDE DEF n
<1>5. \A i, j \in DOMAIN n : n[i] = n[j] => i = j
  <2> SUFFICES ASSUME NEW i \in DOMAIN n, NEW j \in DOMAIN n, n[i] = n[j] PROVE i = j
      OBVIOUS
  <2>1. q[i + 1] = q[j + 1] /\ i + 1 \in DOMAIN q /\ j + 1 \in DOMAIN q
      BY <1>4
  <2>2. i + 1 = j + 1
      BY <2>1 DEF QueueOK
  <2>3. i \in Nat /\ j \in Nat
      BY <1>4
  <2> QED BY <2>2, <2>3
<1>6. \A i \in DOMAIN n : f[n[i]] # None /\ f[n[i]].state = "QUEUED"
    BY <1>4 DEF QueueOK
<1>7. ASSUME NEW i \in DOMAIN n PROVE n[i] # Head(q)
  <2>1. i + 1 \in DOMAIN q /\ n[i] = q[i + 1] /\ i + 1 # 1
      BY <1>4
  <2> QED BY <2>1, <1>2 DEF QueueOK
<1>8. QueueOK(f, n)
    BY <1>4, <1>5, <1>6 DEF QueueOK
<1> QED BY <1>3, <1>7, <1>8 DEF n

LEMMA PostStep ==
    ASSUME NEW f, NEW q, Agree(f, q, busy, posts, asks, server, answer), busy = None,
           NEW c \in Contacts, f[c] # None, f[c].state = "QUEUED", Post(f, c),
           \A i \in DOMAIN q : q[i] # c
    PROVE  Agree(file', q, busy', posts', asks, server, answer') /\ Keeps(f, file')
<1> DEFINE r == [f[c] EXCEPT !.state = "SENDING"]
<1>1. f[c] \in Record /\ LogOK(f)
    BY InLog DEF Agree
<1>2. /\ r \in Record /\ r.state = "SENDING"
      /\ r.status = f[c].status /\ r.text = f[c].text
    BY <1>1, SendingRecord
<1>3. file' = [f EXCEPT ![c] = r] /\ busy' = c /\ answer' = FALSE
    BY DEF Post
<1> HIDE DEF r
<1>4. Write(f, file', c, r)
    BY <1>1, <1>2, <1>3, OneRecord
<1>5. KeepsRecord(f[c], r) /\ CheckedAt(r, c, server)
    BY <1>1, <1>2, SameText DEF Agree, Checked
<1>6. QueueOK(file', q) /\ Checked(file', server)
    BY <1>2, <1>4, <1>5, WriteQueue, WriteChecked DEF Agree
<1>7. BusyOK(file', busy') /\ Answered(file', busy', answer', server)
    BY <1>2, <1>3, <1>4, NotNone DEF BusyOK, Answered, Write
<1>8. Counted(file', posts', asks)
  <2>1. Counted(f, posts, asks) /\ posts' = [posts EXCEPT ![c] = @ + 1]
      BY DEF Agree, Post
  <2>2. /\ posts' \in [Contacts -> Nat] /\ asks \in [Contacts -> Nat]
        /\ posts'[c] = posts[c] + 1
        /\ \A d \in Contacts : d # c => posts'[d] = posts[d]
      BY <2>1, OneMore DEF Counted
  <2>3. posts[c] \in Nat /\ asks[c] \in Nat /\ posts[c] + Owed(f[c]) <= asks[c]
      BY <2>1 DEF Counted
  <2>4. Owed(f[c]) = 1 /\ Owed(file'[c]) = 0
      BY <1>2, <1>4 DEF Owed, Write
  <2>5. posts'[c] + Owed(file'[c]) <= asks[c]
      BY <2>2, <2>3, <2>4
  <2>6. \A d \in Contacts : d # c => posts'[d] + Owed(file'[d]) <= asks[d]
      BY <2>1, <2>2, <1>4 DEF Write, Counted
  <2> QED BY <2>2, <2>5, <2>6 DEF Counted
<1>9. Agree(file', q, busy', posts', asks, server, answer')
    BY <1>4, <1>6, <1>7, <1>8 DEF Agree, Write
<1> QED BY <1>4, <1>5, <1>9, WriteKeeps

\* finish(), for a contact that is in no queue, when nothing is under way any more.
LEMMA FinishStep ==
    ASSUME NEW f, NEW q, NEW b, Agree(f, q, b, posts, asks, server, FALSE),
           NEW c \in Contacts, f[c] # None, \A i \in DOMAIN q : q[i] # c,
           NEW good \in BOOLEAN, good => <<c, f[c].text>> \in server,
           NEW saved \in BOOLEAN, Finish(f, c, good, saved)
    PROVE  Agree(file', q, busy', posts, asks, server, FALSE) /\ Keeps(f, file')
<1>1. f[c] \in Record /\ LogOK(f) /\ busy' = None
    BY InLog DEF Agree, Finish
<1>2. Agree(f, q, None, posts, asks, server, FALSE)
    BY DEF Agree, BusyOK, Answered
<1>3. CASE ~saved
    BY <1>1, <1>2, <1>3, KeepsSame DEF Finish
<1>4. CASE saved
  <2> DEFINE r == Finished(f[c], good)
  <2>1. /\ r \in Record /\ r.state \in {"SENT", "ERROR"} /\ r.text = f[c].text
        /\ r.status = IF good THEN "Y" ELSE f[c].status
      BY <1>1, FinishedRecord
  <2>2. file' = [f EXCEPT ![c] = r]
      BY <1>4 DEF Finish
  <2> HIDE DEF r
  <2>3. Write(f, file', c, r)
      BY <1>1, <2>1, <2>2, OneRecord
  <2>4. posts[c] + Owed(r) <= asks[c]
    <3>1. Owed(r) = 0 /\ Owed(f[c]) \in {0, 1}
        BY <2>1 DEF Owed
    <3>2. posts[c] \in Nat /\ asks[c] \in Nat /\ posts[c] + Owed(f[c]) <= asks[c]
        BY DEF Agree, Counted
    <3>3. posts[c] <= asks[c]
        BY <3>1, <3>2, Counting, Zenon
    <3> QED BY <3>1, <3>2, <3>3
  <2>5. f[c].text \in 0..Edits
      BY <1>1, RecordFields
  <2>6. CheckedAt(f[c], c, server)
      BY DEF Agree, Checked
  <2>7. CheckedAt(r, c, server)
      BY <1>1, <2>1, <2>6 DEF CheckedAt
  <2>8. KeepsRecord(f[c], r)
    <3>1. r.text >= f[c].text
        BY <2>1, <2>5, ConstantsAssumption
    <3> QED BY <3>1, <2>1, NotNone DEF KeepsRecord, Sent
  <2>9. None # c
      BY ConstantsAssumption
  <2>10. Agree(file', q, None, posts, asks, server, FALSE)
      BY <1>2, <2>1, <2>3, <2>4, <2>7, <2>9, Agreed
  <2> QED BY <1>1, <2>3, <2>8, <2>10, WriteKeeps
<1> QED BY <1>3, <1>4

LEMMA ProcessStep ==
    ASSUME NEW f, NEW q, Agree(f, q, busy, posts, asks, server, answer),
           answer \in BOOLEAN, kick \in BOOLEAN, wire \subseteq Contacts \X (0..Edits),
           NEW bad \in BOOLEAN, Process(f, q, bad)
    PROVE  /\ Agree(file', queue', busy', posts', asks, server, answer')
           /\ Keeps(f, file') /\ answer' \in BOOLEAN /\ kick' \in BOOLEAN
           /\ wire' \subseteq Contacts \X (0..Edits)
<1>1. LogOK(f) /\ QueueOK(f, q)
    BY DEF Agree
<1>2. CASE busy # None \/ q = <<>>
  <2>1. file' = f /\ queue' = q /\ kick' = FALSE /\ UNCHANGED <<busy, wire, posts, answer>>
      BY <1>2 DEF Process
  <2> QED BY <1>1, <2>1, KeepsSame
<1>3. CASE busy = None /\ q # <<>>
  <2> DEFINE c == Head(q)
  <2>1. /\ QueueOK(f, Tail(q)) /\ c \in Contacts /\ f[c] # None /\ f[c].state = "QUEUED"
        /\ \A i \in DOMAIN Tail(q) : Tail(q)[i] # c
      BY <1>1, <1>3, TailQueue
  <2>2. answer = FALSE
      BY <1>3 DEF Agree, Answered
  <2>3. Agree(f, Tail(q), busy, posts, asks, server, answer)
      BY <2>1 DEF Agree
  <2>4. /\ queue' = Tail(q)
        /\ \/ Post(f, c)
           \/ /\ \E saved \in BOOLEAN : Finish(f, c, FALSE, saved)
              /\ UNCHANGED <<wire, posts, answer>>
           \/ file' = f /\ kick' = TRUE /\ UNCHANGED <<busy, wire, posts, answer>>
      BY <1>3 DEF Process
  <2>5. f[c].text \in 0..Edits
      BY <1>1, <2>1, InLog, RecordFields
  <2> HIDE DEF c
  <2>6. CASE Post(f, c)
    <3>1. Agree(file', Tail(q), busy', posts', asks, server, answer') /\ Keeps(f, file')
        BY <1>3, <2>1, <2>3, <2>6, PostStep
    <3>2. answer' \in BOOLEAN /\ kick' \in BOOLEAN
        BY <2>6 DEF Post
    <3>3. wire' \subseteq Contacts \X (0..Edits)
        BY <2>1, <2>5, <2>6 DEF Post
    <3> QED BY <2>4, <3>1, <3>2, <3>3
  <2>7. CASE /\ \E saved \in BOOLEAN : Finish(f, c, FALSE, saved)
             /\ UNCHANGED <<wire, posts, answer>>
    <3>1. PICK saved \in BOOLEAN : Finish(f, c, FALSE, saved)
        BY <2>7
    <3>2. Agree(file', Tail(q), busy', posts, asks, server, FALSE) /\ Keeps(f, file')
        BY <2>1, <2>2, <2>3, <3>1, FinishStep
    <3>3. kick' \in BOOLEAN
        BY <3>1 DEF Finish
    <3> QED BY <2>2, <2>4, <2>7, <3>2, <3>3
  <2>8. CASE file' = f /\ kick' = TRUE /\ UNCHANGED <<busy, wire, posts, answer>>
      BY <1>1, <2>3, <2>4, <2>8, KeepsSame
  <2> QED BY <2>4, <2>6, <2>7, <2>8
<1> QED BY <1>2, <1>3

LEMMA ProcessNextStep ==
    ASSUME IInv, NEW bad \in BOOLEAN, ProcessNext(bad)
    PROVE  IInv' /\ Keeps(file, file')
<1>1. /\ Agree(file', queue', busy', posts', asks, server, answer')
      /\ Keeps(file, file') /\ answer' \in BOOLEAN /\ kick' \in BOOLEAN
      /\ wire' \subseteq Contacts \X (0..Edits)
    BY ProcessStep, ZenonT(40) DEF ProcessNext, IInv, Plain
<1>2. faults' \in Nat
    BY StorageOp DEF ProcessNext, IInv, Plain
<1>3. Plain'
    BY <1>1, <1>2 DEF ProcessNext, IInv, Plain, setup
<1>4. Agree(file', queue', busy', posts', asks', server', answer')
    BY <1>1 DEF ProcessNext
<1> QED BY <1>1, <1>3, <1>4 DEF IInv

LEMMA ReplyStep ==
    ASSUME IInv, NEW good \in BOOLEAN, NEW bad \in BOOLEAN, Reply(good, bad)
    PROVE  IInv' /\ Keeps(file, file')
<1>1. /\ busy # None /\ busy \in Contacts /\ file[busy] # None /\ file[busy].state = "SENDING"
      /\ LogOK(file) /\ QueueOK(file, queue)
    BY DEF Reply, IInv, Agree, BusyOK
<1>2. \A i \in DOMAIN queue : queue[i] # busy
    BY <1>1 DEF QueueOK
<1>3. good => <<busy, file[busy].text>> \in server
    BY DEF Reply, IInv, Agree, Answered
<1>4. Finish(file, busy, good, ~bad) /\ (~bad) \in BOOLEAN
    BY DEF Reply
<1>5. Agree(file, queue, busy, posts, asks, server, FALSE)
    BY DEF IInv, Agree, Answered
<1>6. Agree(file', queue, busy', posts, asks, server, FALSE) /\ Keeps(file, file')
    BY <1>1, <1>2, <1>3, <1>4, <1>5, FinishStep
<1>7. Agree(file', queue', busy', posts', asks', server', answer')
    BY <1>6 DEF Reply, net
<1>8. faults' \in Nat /\ kick' \in BOOLEAN
    BY <1>4, StorageOp DEF Reply, IInv, Plain, Finish
<1>9. Plain'
    BY <1>8 DEF Reply, IInv, Plain, setup, net
<1> QED BY <1>6, <1>7, <1>9 DEF IInv

\* What resume() makes of the log before it calls process().
LEMMA SettledLog ==
    ASSUME IInv, up = "starting", NEW failed \in SUBSET Interrupted, NEW q \in Orders
    PROVE  LET f == Settled(failed)
           IN Agree(f, q, busy, posts, asks, server, answer) /\ Keeps(file, f)
<1> DEFINE f == Settled(failed)
           e(c) == [file[c] EXCEPT !.state = "ERROR"]
<1>1. LogOK(file) /\ busy = None /\ Checked(file, server) /\ Counted(file, posts, asks)
    BY DEF IInv, Agree, Plain
<1>2. ASSUME NEW c \in Contacts
      PROVE  /\ f[c] = file[c] \/ (c \in Interrupted /\ f[c] = e(c))
             /\ c \notin Interrupted => f[c] = file[c]
    BY DEF Settled
<1>3. ASSUME NEW c \in Interrupted
      PROVE  /\ c \in Contacts /\ file[c] \in Record /\ file[c].state = "SENDING"
             /\ e(c) \in Record /\ e(c).state = "ERROR"
             /\ e(c).status = file[c].status /\ e(c).text = file[c].text
    BY <1>1, InLog, ErrorRecord DEF Interrupted
<1>4. LogOK(f)
  <2>1. f = [c \in Contacts |-> f[c]]
      BY DEF Settled
  <2>2. ASSUME NEW c \in Contacts PROVE f[c] \in Record \cup {None}
      BY <1>1, <1>2, <1>3 DEF LogOK
  <2> HIDE DEF f
  <2> QED BY <2>1, <2>2 DEF LogOK
<1> HIDE DEF f, e
<1>6. Counted(f, posts, asks)
  <2>1. ASSUME NEW c \in Contacts PROVE posts[c] + Owed(f[c]) <= asks[c]
    <3>1. CASE f[c] = file[c]
        BY <1>1, <3>1 DEF Counted
    <3>2. CASE c \in Interrupted /\ f[c] = e(c)
      <4>1. Owed(f[c]) = 0 /\ Owed(file[c]) = 0
          BY <1>3, <3>2 DEF Owed
      <4> QED BY <4>1, <1>1 DEF Counted
    <3> QED BY <1>2, <3>1, <3>2
  <2> QED BY <1>1, <2>1 DEF Counted
<1>7. Checked(f, server) /\ Keeps(file, f)
  <2>1. ASSUME NEW c \in Contacts PROVE CheckedAt(f[c], c, server) /\ KeepsRecord(file[c], f[c])
    <3>1. CASE f[c] = file[c]
        BY <1>1, <3>1, KeepsSame DEF Checked, Keeps
    <3>2. CASE c \in Interrupted /\ f[c] = e(c)
        BY <1>1, <1>3, <3>2, SameText DEF Checked
    <3> QED BY <1>2, <3>1, <3>2
  <2> QED BY <2>1 DEF Checked, Keeps
<1>8. QueueOK(f, q)
  <2>1. /\ q \in UNION {[1..n -> Waiting] : n \in 0..Asks * 2}
        /\ \A i, j \in DOMAIN q : q[i] = q[j] => i = j
      BY DEF Orders
  <2>2. PICK n \in 0..Asks * 2 : q \in [1..n -> Waiting]
      BY <2>1
  <2>3. n \in Nat /\ Waiting \subseteq Contacts
      BY <2>2, ConstantsAssumption DEF Waiting
  <2>4. q \in Seq(Contacts) /\ DOMAIN q = 1..n
      BY <2>2, <2>3
  <2>5. ASSUME NEW i \in DOMAIN q PROVE f[q[i]] # None /\ f[q[i]].state = "QUEUED"
    <3>1. q[i] \in Waiting
        BY <2>2, <2>5
    <3>2. /\ q[i] \in Contacts /\ file[q[i]] # None /\ file[q[i]].state = "QUEUED"
          /\ q[i] \notin Interrupted
        BY <3>1 DEF Waiting, Interrupted
    <3> QED BY <3>2, <1>2
  <2> QED BY <2>1, <2>4, <2>5 DEF QueueOK
<1>9. Agree(f, q, busy, posts, asks, server, answer)
    BY <1>1, <1>4, <1>6, <1>7, <1>8 DEF IInv, Agree, BusyOK, Answered
<1> QED BY <1>7, <1>9 DEF f

LEMMA ResumeStep ==
    ASSUME IInv, NEW bad \in BOOLEAN, Resume(bad)
    PROVE  IInv' /\ Keeps(file, file')
<1>1. /\ up = "starting" /\ up' = "up" /\ UNCHANGED <<setup, server, asks, crashes>>
      /\ \/ \E failed \in SUBSET Interrupted, q \in Orders : Process(Settled(failed), q, bad)
         \/ UNCHANGED <<file, queue, busy, kick, wire, posts, answer>>
    BY DEF Resume
<1>2. faults' \in Nat
    BY StorageOp DEF Resume, IInv, Plain
<1>3. LogOK(file)
    BY DEF IInv, Agree
<1>4. CASE \E failed \in SUBSET Interrupted, q \in Orders : Process(Settled(failed), q, bad)
  <2>1. PICK failed \in SUBSET Interrupted, q \in Orders : Process(Settled(failed), q, bad)
      BY <1>4
  <2> DEFINE f == Settled(failed)
  <2>2. Agree(f, q, busy, posts, asks, server, answer) /\ Keeps(file, f)
      BY <1>1, SettledLog
  <2>3. Process(f, q, bad)
      BY <2>1
  <2> HIDE DEF f
  <2>4. /\ Agree(file', queue', busy', posts', asks, server, answer')
        /\ Keeps(f, file') /\ answer' \in BOOLEAN /\ kick' \in BOOLEAN
        /\ wire' \subseteq Contacts \X (0..Edits)
      BY <2>2, <2>3, ProcessStep, ZenonT(40) DEF IInv, Plain
  <2>5. Keeps(file, file')
      BY <1>3, <2>2, <2>4, KeepsTwice DEF Agree
  <2>6. Plain'
      BY <1>1, <1>2, <2>4 DEF IInv, Plain, setup
  <2>7. Agree(file', queue', busy', posts', asks', server', answer')
      BY <1>1, <2>4
  <2> QED BY <2>5, <2>6, <2>7 DEF IInv
<1>5. CASE UNCHANGED <<file, queue, busy, kick, wire, posts, answer>>
  <2>1. Plain'
      BY <1>1, <1>2, <1>5 DEF IInv, Plain, setup
  <2>2. Agree(file', queue', busy', posts', asks', server', answer')
      BY <1>1, <1>5 DEF IInv
  <2> QED BY <1>3, <1>5, <2>1, <2>2, KeepsSame DEF IInv
<1> QED BY <1>1, <1>4, <1>5

\* Steps that leave the log alone and only forget or set up.
LEMMA SetupStep ==
    ASSUME IInv, (\E c \in Calls, a \in BOOLEAN : Configure(c, a)) \/ Forget \/ Start
    PROVE  IInv' /\ Keeps(file, file')
<1>1. /\ UNCHANGED <<file, queue, busy, kick, net, answer, asks, posts, crashes, faults>>
      /\ call' \in Calls \cup {""} /\ auto' \in BOOLEAN
      /\ up' = up \/ (up = "down" /\ up' = "starting")
    BY DEF Configure, Forget, Start, setup, IInv, Plain
<1>2. Plain'
    BY <1>1 DEF IInv, Plain, net
<1>3. Agree(file', queue', busy', posts', asks', server', answer')
    BY <1>1 DEF IInv, net
<1>4. Keeps(file, file')
    BY <1>1, KeepsSame DEF IInv, Agree
<1> QED BY <1>2, <1>3, <1>4 DEF IInv

LEMMA CrashStep == ASSUME IInv, Crash PROVE IInv' /\ Keeps(file, file')
<1>1. /\ file' = file /\ posts' = posts /\ asks' = asks /\ server' = server
      /\ queue' = <<>> /\ busy' = None /\ answer' = FALSE
    BY DEF Crash, net
<1>2. Agree(file', queue', busy', posts', asks', server', answer')
    BY <1>1, EmptyQueue DEF IInv, Agree, BusyOK, Answered
<1>3. Plain'
  <2>1. crashes' = crashes + 1 /\ crashes \in Nat
      BY DEF Crash, IInv, Plain
  <2>2. crashes' \in Nat
      BY <2>1
  <2>3. /\ up' = "down" /\ kick' = FALSE /\ answer' = FALSE
        /\ queue' = <<>> /\ busy' = None /\ UNCHANGED <<call, auto, wire, server, faults>>
      BY DEF Crash, setup, net
  <2> QED BY <2>2, <2>3 DEF IInv, Plain
<1>4. Keeps(file, file')
    BY <1>1, KeepsSame DEF IInv, Agree
<1> QED BY <1>2, <1>3, <1>4 DEF IInv

LEMMA WireStep ==
    ASSUME IInv, NEW w \in wire, Take(w) \/ Lose(w)
    PROVE  IInv' /\ Keeps(file, file')
<1>1. w \in Contacts \X (0..Edits)
    BY DEF IInv, Plain
<1>2. /\ UNCHANGED <<file, up, setup, queue, busy, kick, asks, posts, crashes, faults>>
      /\ wire' = wire \ {w} /\ server' \in {server, server \cup {w}}
      /\ answer' \in BOOLEAN
      /\ answer' => answer \/ (busy = w[1] /\ file[busy].text = w[2] /\ w \in server')
  <2>1. CASE Take(w)
    <3>1. answer' = (answer \/ (busy = w[1] /\ w \notin server /\ file[busy].text = w[2]))
        BY <2>1 DEF Take
    <3>2. /\ UNCHANGED <<file, up, setup, queue, busy, kick, asks, posts, crashes, faults>>
          /\ wire' = wire \ {w} /\ server' = server \cup {w}
        BY <2>1 DEF Take
    <3>3. answer \in BOOLEAN
        BY DEF IInv, Plain
    <3> QED BY <3>1, <3>2, <3>3
  <2>2. CASE Lose(w)
      BY <2>2 DEF Lose, IInv, Plain
  <2> QED BY <2>1, <2>2
<1>3. Answered(file, busy, answer', server')
  <2>1. w[1] # None /\ w = <<w[1], w[2]>>
      BY <1>1, ConstantsAssumption
  <2> QED BY <1>2, <2>1 DEF IInv, Agree, Answered
<1>4. Checked(file, server')
    BY <1>2 DEF IInv, Agree, Checked, CheckedAt
<1>5. Agree(file', queue', busy', posts', asks', server', answer')
    BY <1>2, <1>3, <1>4 DEF IInv, Agree
<1>6. Plain'
    BY <1>1, <1>2 DEF IInv, Plain, setup
<1>7. Keeps(file, file')
    BY <1>2, KeepsSame DEF IInv, Agree
<1> QED BY <1>5, <1>6, <1>7 DEF IInv

LEMMA StepInvariant == IInv /\ [Next]_vars => IInv' /\ Keeps(file, file')
<1> SUFFICES ASSUME IInv, [Next]_vars PROVE IInv' /\ Keeps(file, file')
    OBVIOUS
<1>1. CASE \E c \in Contacts : Send(c)
    BY <1>1, SendStep
<1>2. CASE \E c \in Contacts, s \in Calls \cup {""}, bad \in BOOLEAN : AppendContact(c, s, bad)
    BY <1>2, AppendStep
<1>3. CASE \E c \in Contacts, s \in {"", "Y"} : Import(c, s)
    BY <1>3, ImportStep
<1>4. CASE \E c \in Contacts, s \in Calls \cup {""} : Replace(c, s)
    BY <1>4, ReplaceStep
<1>5. CASE \E bad \in BOOLEAN : ProcessNext(bad)
    BY <1>5, ProcessNextStep
<1>6. CASE \E good, bad \in BOOLEAN : Reply(good, bad)
    BY <1>6, ReplyStep
<1>7. CASE \E bad \in BOOLEAN : Resume(bad)
    BY <1>7, ResumeStep
<1>8. CASE (\E c \in Calls, a \in BOOLEAN : Configure(c, a)) \/ Forget \/ Start
    BY <1>8, SetupStep
<1>9. CASE Crash
    BY <1>9, CrashStep
<1>10. CASE (\E w \in wire : Take(w)) \/ \E w \in wire : Lose(w)
    BY <1>10, WireStep
<1>11. CASE UNCHANGED vars
  <2>1. /\ UNCHANGED <<file, queue, busy, posts, asks, server, answer>>
        /\ UNCHANGED <<auto, kick, up, call, wire, crashes, faults>>
      BY <1>11 DEF vars, setup, net
  <2>2. Plain'
      BY <2>1 DEF IInv, Plain
  <2>3. Agree(file', queue', busy', posts', asks', server', answer')
      BY <2>1 DEF IInv
  <2>4. Keeps(file, file')
      BY <2>1, KeepsSame DEF IInv, Agree
  <2> QED BY <2>2, <2>3, <2>4 DEF IInv
<1> QED BY <1>1, <1>2, <1>3, <1>4, <1>5, <1>6, <1>7, <1>8, <1>9, <1>10, <1>11 DEF Next

\* The invariant holds in every behaviour: the log, its queue and the request
\* under way agree, through every crash and failure.
THEOREM Invariance == Spec => []IInv
<1>1. IInv /\ [Next]_vars => IInv'
    BY StepInvariant
<1> QED BY <1>1, InitInvariant, PTL DEF Spec

----------------------------------------------------------------------------
(***************************************************************************)
(* The types hold, the queue holds a contact once and as QUEUED, and what  *)
(* is under way is SENDING, whatever dies, fails or is lost.               *)
(***************************************************************************)
THEOREM TypeCorrect == Spec => []TypeOK
BY Invariance, InvariantImplies, PTL

(***************************************************************************)
(* However often the application dies, a save fails or an answer is lost,  *)
(* no contact is posted more often than its sending was asked for.         *)
(***************************************************************************)
THEOREM NoBlindRetry == Spec => []PostedAsAsked
BY Invariance, InvariantImplies, PTL

(***************************************************************************)
(* A contact shown as checked is in QRZ's logbook with the text the log    *)
(* has, and one shown as modified is there with an earlier text.           *)
(***************************************************************************)
THEOREM CheckIsTrue == Spec => []CheckedIsOnQrz
BY Invariance, InvariantImplies, PTL

(***************************************************************************)
(* No step loses a contact, takes its text back or the check of one that   *)
(* was sent.                                                               *)
(***************************************************************************)
THEOREM LogIsKept == Spec => NothingIsLost
<1> DEFINE A == \A c \in Contacts : file[c] # None =>
                  /\ file'[c] # None /\ file'[c].text >= file[c].text
                  /\ Sent(file[c]) => Sent(file'[c])
<1>1. IInv /\ [Next]_vars => [A]_file
    BY StepInvariant DEF Keeps, KeepsRecord
<1>2. NothingIsLost <=> [][A]_file
    BY DEF NothingIsLost
<1> QED BY <1>1, <1>2, Invariance, PTL DEF Spec
=============================================================================
