----------------------------- MODULE CallQueues -----------------------------
(***************************************************************************)
(* First-in first-out event queues, as far as the order of their calls     *)
(* matters: what a queue holds, what it holds once, and which call comes   *)
(* between two others.  A class of calls is a set of records.              *)
(***************************************************************************)
EXTENDS Naturals, Sequences, WellFoundedInduction, TLAPS

\* The queue holds a call of the class.
Has(q, S) == \E i \in DOMAIN q : q[i] \in S
\* It holds at most one.
Once(q, S) == \A i, j \in DOMAIN q : q[i] \in S /\ q[j] \in S => i = j

(* A call of class A opens something, one of class B closes it; "open" says   *)
(* whether it is open before the queue's first call.                          *)
\* Whatever is open is closed when the queue has been worked off.
Closed(q, open, A, B) ==
  /\ open => Has(q, B)
  /\ \A j \in DOMAIN q : q[j] \in A => \E k \in DOMAIN q : j < k /\ q[k] \in B
\* ... is closed when a call of class C comes to the head of the queue.
ClosedBefore(q, open, A, B, C) ==
  \A i \in DOMAIN q : q[i] \in C =>
    /\ open => \E k \in DOMAIN q : k < i /\ q[k] \in B
    /\ \A j \in DOMAIN q : j < i /\ q[j] \in A =>
         \E k \in DOMAIN q : j < k /\ k < i /\ q[k] \in B

-----------------------------------------------------------------------------
\* A posted call is the last one, the others stay where they were.
LEMMA Posting ==
  ASSUME NEW M, NEW q \in Seq(M), NEW m \in M
  PROVE  /\ DOMAIN q = 1 .. Len(q) /\ Len(q) \in Nat
         /\ DOMAIN Append(q, m) = 1 .. Len(q) + 1
         /\ \A i \in DOMAIN q : i \in DOMAIN Append(q, m) /\ Append(q, m)[i] = q[i] /\ i < Len(q) + 1
         /\ Len(q) + 1 \in DOMAIN Append(q, m) /\ Append(q, m)[Len(q) + 1] = m
         /\ \A i \in DOMAIN Append(q, m) : i \in DOMAIN q \/ i = Len(q) + 1
  OBVIOUS

\* When the first call is taken the others move up by one.
LEMMA Taking ==
  ASSUME NEW M, NEW q \in Seq(M), q # <<>>
  PROVE  /\ DOMAIN q = 1 .. Len(q) /\ Len(q) \in Nat /\ 1 \in DOMAIN q /\ Head(q) = q[1]
         /\ \A i \in DOMAIN Tail(q) : i + 1 \in DOMAIN q /\ Tail(q)[i] = q[i + 1] /\ i \in Nat /\ i > 0
         /\ \A i \in DOMAIN q : i = 1 \/ (i - 1 \in DOMAIN Tail(q) /\ Tail(q)[i - 1] = q[i])
  OBVIOUS

\* Posting adds one call to what the queue holds.
LEMMA HasPost ==
  ASSUME NEW M, NEW q \in Seq(M), NEW m \in M, NEW S
  PROVE  Has(Append(q, m), S) <=> Has(q, S) \/ m \in S
  BY Posting DEF Has

\* Taking the head takes one call from what the queue holds.
LEMMA HasTake ==
  ASSUME NEW M, NEW q \in Seq(M), q # <<>>, NEW S
  PROVE  Has(q, S) <=> Head(q) \in S \/ Has(Tail(q), S)
<1>1. ASSUME Has(q, S) PROVE Head(q) \in S \/ Has(Tail(q), S)
  BY <1>1, Taking DEF Has
<1>2. ASSUME Head(q) \in S PROVE Has(q, S)
  BY <1>2, Taking DEF Has
<1>3. ASSUME Has(Tail(q), S) PROVE Has(q, S)
  BY <1>3, Taking DEF Has
<1> QED
  BY <1>1, <1>2, <1>3

\* A larger class is held if a smaller one is.
LEMMA HasMore ==
  ASSUME NEW q, NEW S, NEW T, S \subseteq T, Has(q, S)
  PROVE  Has(q, T)
  BY DEF Has

\* A call posted while none of its class is in the queue is there once.
LEMMA OncePost ==
  ASSUME NEW M, NEW q \in Seq(M), NEW m \in M, NEW S, Once(q, S), m \in S => ~Has(q, S)
  PROVE  Once(Append(q, m), S)
  BY Posting DEF Has, Once

\* A call that was there once is gone when it is taken.
LEMMA OnceTake ==
  ASSUME NEW M, NEW q \in Seq(M), q # <<>>, NEW S, Once(q, S)
  PROVE  Once(Tail(q), S) /\ (Head(q) \in S => ~Has(Tail(q), S))
<1>1. Once(Tail(q), S)
  <2> SUFFICES ASSUME NEW i \in DOMAIN Tail(q), NEW j \in DOMAIN Tail(q),
                      Tail(q)[i] \in S, Tail(q)[j] \in S
               PROVE  i = j
    BY DEF Once
  <2>1. i + 1 = j + 1
    BY Taking DEF Once
  <2> QED
    BY <2>1, Taking
<1>2. ASSUME Head(q) \in S, NEW i \in DOMAIN Tail(q), Tail(q)[i] \in S PROVE FALSE
  <2>1. i + 1 = 1
    BY <1>2, Taking DEF Once
  <2> QED
    BY <2>1, Taking
<1> QED
  BY <1>1, <1>2 DEF Has

\* Less that opens, more that closes.
LEMMA ClosedMore ==
  ASSUME NEW q, NEW open \in BOOLEAN, NEW open2 \in BOOLEAN, NEW A, NEW A2, NEW B, NEW B2,
         Closed(q, open, A, B), open2 => open, A2 \subseteq A, B \subseteq B2
  PROVE  Closed(q, open2, A2, B2)
  BY DEF Closed, Has

\* A posted call that opens nothing leaves the rest closed; one that closes closes all.
LEMMA ClosedPost ==
  ASSUME NEW M, NEW q \in Seq(M), NEW m \in M, NEW open \in BOOLEAN, NEW A, NEW B,
         m \in B \/ Closed(q, open, A, B), m \notin A
  PROVE  Closed(Append(q, m), open, A, B)
<1>1. open => Has(Append(q, m), B)
  BY HasPost DEF Closed
<1>2. ASSUME NEW j \in DOMAIN Append(q, m), Append(q, m)[j] \in A
      PROVE  \E k \in DOMAIN Append(q, m) : j < k /\ Append(q, m)[k] \in B
  <2>1. j \in DOMAIN q /\ q[j] \in A
    BY <1>2, Posting
  <2>2. CASE m \in B
    BY <2>1, <2>2, Posting
  <2>3. CASE Closed(q, open, A, B)
    <3>1. PICK k \in DOMAIN q : j < k /\ q[k] \in B
      BY <2>1, <2>3 DEF Closed
    <3> QED
      BY <3>1, Posting
  <2> QED
    BY <2>2, <2>3
<1> QED
  BY <1>1, <1>2 DEF Closed

\* Taking the head: what is open now was open before or was opened by it.
LEMMA ClosedTake ==
  ASSUME NEW M, NEW q \in Seq(M), q # <<>>, NEW open \in BOOLEAN, NEW open2 \in BOOLEAN,
         NEW A, NEW B, Closed(q, open, A, B),
         open2 => Head(q) \in A \/ (open /\ Head(q) \notin B)
  PROVE  Closed(Tail(q), open2, A, B)
<1>1. open2 => Has(Tail(q), B)
  <2>1. CASE Head(q) \in A
    <3>1. PICK k \in DOMAIN q : 1 < k /\ q[k] \in B
      BY <2>1, Taking DEF Closed
    <3>2. k - 1 \in DOMAIN Tail(q) /\ Tail(q)[k - 1] = q[k]
      BY <3>1, Taking
    <3> QED
      BY <3>1, <3>2 DEF Has
  <2>2. CASE open /\ Head(q) \notin B
    BY <2>2, HasTake DEF Closed
  <2> QED
    BY <2>1, <2>2
<1>2. ASSUME NEW j \in DOMAIN Tail(q), Tail(q)[j] \in A
      PROVE  \E k \in DOMAIN Tail(q) : j < k /\ Tail(q)[k] \in B
  <2>1. j + 1 \in DOMAIN q /\ q[j + 1] \in A
    BY <1>2, Taking
  <2>2. PICK k \in DOMAIN q : j + 1 < k /\ q[k] \in B
    BY <2>1 DEF Closed
  <2>3. k - 1 \in DOMAIN Tail(q) /\ Tail(q)[k - 1] = q[k] /\ j < k - 1
    BY <2>2, Taking
  <2> QED
    BY <2>2, <2>3
<1> QED
  BY <1>1, <1>2 DEF Closed

\* Less that opens, more that closes, less that must come after.
LEMMA BeforeMore ==
  ASSUME NEW q, NEW open \in BOOLEAN, NEW open2 \in BOOLEAN,
         NEW A, NEW A2, NEW B, NEW B2, NEW C, NEW C2,
         ClosedBefore(q, open, A, B, C), open2 => open,
         A2 \subseteq A, B \subseteq B2, C2 \subseteq C
  PROVE  ClosedBefore(q, open2, A2, B2, C2)
<1> SUFFICES ASSUME NEW i \in DOMAIN q, q[i] \in C2
             PROVE  /\ open2 => \E k \in DOMAIN q : k < i /\ q[k] \in B2
                    /\ \A j \in DOMAIN q : j < i /\ q[j] \in A2 =>
                         \E k \in DOMAIN q : j < k /\ k < i /\ q[k] \in B2
  BY DEF ClosedBefore
<1>1. /\ open => \E k \in DOMAIN q : k < i /\ q[k] \in B
      /\ \A j \in DOMAIN q : j < i /\ q[j] \in A =>
           \E k \in DOMAIN q : j < k /\ k < i /\ q[k] \in B
  BY DEF ClosedBefore
<1> QED
  BY <1>1

\* A call of class C may be posted when everything is closed.
LEMMA BeforePost ==
  ASSUME NEW M, NEW q \in Seq(M), NEW m \in M, NEW open \in BOOLEAN, NEW A, NEW B, NEW C,
         ClosedBefore(q, open, A, B, C), m \in C => Closed(q, open, A, B)
  PROVE  ClosedBefore(Append(q, m), open, A, B, C)
<1> DEFINE p == Append(q, m)
<1> SUFFICES ASSUME NEW i \in DOMAIN p, p[i] \in C
             PROVE  /\ open => \E k \in DOMAIN p : k < i /\ p[k] \in B
                    /\ \A j \in DOMAIN p : j < i /\ p[j] \in A =>
                         \E k \in DOMAIN p : j < k /\ k < i /\ p[k] \in B
  BY DEF ClosedBefore
<1>0. /\ \A k \in DOMAIN q : k \in DOMAIN p /\ p[k] = q[k] /\ k < Len(q) + 1
      /\ \A k \in DOMAIN p : k \in DOMAIN q \/ k = Len(q) + 1
      /\ p[Len(q) + 1] = m
  BY Posting
<1>00. \A j, k \in DOMAIN p : j \in Nat /\ (j < k => ~(k < j))
  BY Posting
<1> HIDE DEF p
<1>1. CASE i \in DOMAIN q
  <2>1. /\ open => \E k \in DOMAIN q : k < i /\ q[k] \in B
        /\ \A j \in DOMAIN q : j < i /\ q[j] \in A =>
             \E k \in DOMAIN q : j < k /\ k < i /\ q[k] \in B
    BY <1>0, <1>1 DEF ClosedBefore
  <2>2. \A j \in DOMAIN p : j < i => j \in DOMAIN q
    BY <1>0, <1>00, <1>1
  <2> QED
    BY <1>0, <2>1, <2>2
<1>2. CASE i = Len(q) + 1
  <2>1. Closed(q, open, A, B)
    BY <1>0, <1>2
  <2>2. \A j \in DOMAIN p : j < i => j \in DOMAIN q
    BY <1>0, <1>00, <1>2
  <2>3. open => \E k \in DOMAIN p : k < i /\ p[k] \in B
    BY <1>0, <1>2, <2>1 DEF Closed, Has
  <2>4. ASSUME NEW j \in DOMAIN p, j < i, p[j] \in A
        PROVE  \E k \in DOMAIN p : j < k /\ k < i /\ p[k] \in B
    <3>1. PICK k \in DOMAIN q : j < k /\ q[k] \in B
      BY <1>0, <2>1, <2>2, <2>4 DEF Closed
    <3> QED
      BY <1>0, <1>2, <3>1
  <2> QED
    BY <2>3, <2>4
<1> QED
  BY <1>0, <1>1, <1>2

\* Taking the head; and a call of class C at the head finds nothing open.
LEMMA BeforeTake ==
  ASSUME NEW M, NEW q \in Seq(M), q # <<>>, NEW open \in BOOLEAN, NEW open2 \in BOOLEAN,
         NEW A, NEW B, NEW C, ClosedBefore(q, open, A, B, C),
         open2 => Head(q) \in A \/ (open /\ Head(q) \notin B)
  PROVE  ClosedBefore(Tail(q), open2, A, B, C) /\ (Head(q) \in C => ~open)
<1> DEFINE p == Tail(q)
<1>0. /\ \A i \in DOMAIN p : i + 1 \in DOMAIN q /\ p[i] = q[i + 1] /\ i \in Nat /\ i > 0
      /\ \A i \in DOMAIN q : i \in Nat /\ (i = 1 \/ (i - 1 \in DOMAIN p /\ p[i - 1] = q[i]))
      /\ 1 \in DOMAIN q /\ Head(q) = q[1] /\ \A i \in DOMAIN q : ~(i < 1)
  BY Taking
<1>1. Head(q) \in C => ~open
  BY <1>0 DEF ClosedBefore
<1> HIDE DEF p
<1>2. ASSUME NEW i \in DOMAIN p, p[i] \in C
      PROVE  /\ open2 => \E k \in DOMAIN p : k < i /\ p[k] \in B
             /\ \A j \in DOMAIN p : j < i /\ p[j] \in A =>
                  \E k \in DOMAIN p : j < k /\ k < i /\ p[k] \in B
  <2>1. /\ open => \E k \in DOMAIN q : k < i + 1 /\ q[k] \in B
        /\ \A j \in DOMAIN q : j < i + 1 /\ q[j] \in A =>
             \E k \in DOMAIN q : j < k /\ k < i + 1 /\ q[k] \in B
    BY <1>0, <1>2 DEF ClosedBefore
  <2>2. ASSUME open2 PROVE \E k \in DOMAIN p : k < i /\ p[k] \in B
    <3>1. \E k \in DOMAIN q : k < i + 1 /\ q[k] \in B /\ k # 1
      <4>1. CASE Head(q) \in A
        <5>1. 1 < i + 1
          BY <1>0, <1>2
        <5> QED
          BY <1>0, <2>1, <4>1, <5>1
      <4>2. CASE open /\ Head(q) \notin B
        BY <1>0, <2>1, <4>2
      <4> QED
        BY <2>2, <4>1, <4>2
    <3>2. PICK k \in DOMAIN q : k < i + 1 /\ q[k] \in B /\ k # 1
      BY <3>1
    <3>3. k - 1 \in DOMAIN p /\ p[k - 1] = q[k] /\ k - 1 < i
      <4>1. k \in Nat /\ k - 1 \in DOMAIN p /\ p[k - 1] = q[k]
        BY <1>0, <3>2
      <4>2. i \in Nat
        BY <1>0, <1>2
      <4> QED
        BY <3>2, <4>1, <4>2
    <3> QED
      BY <3>2, <3>3
  <2>3. ASSUME NEW j \in DOMAIN p, j < i, p[j] \in A
        PROVE  \E k \in DOMAIN p : j < k /\ k < i /\ p[k] \in B
    <3>1. PICK k \in DOMAIN q : j + 1 < k /\ k < i + 1 /\ q[k] \in B
      BY <1>0, <2>1, <2>3
    <3>2. k - 1 \in DOMAIN p /\ p[k - 1] = q[k] /\ j < k - 1 /\ k - 1 < i
      <4>1. i \in Nat /\ j \in Nat /\ j > 0
        BY <1>0, <1>2, <2>3
      <4>2. k \in Nat /\ k # 1
        BY <1>0, <3>1, <4>1
      <4>3. k - 1 \in DOMAIN p /\ p[k - 1] = q[k]
        BY <1>0, <4>2
      <4> QED
        BY <3>1, <4>1, <4>2, <4>3
    <3> QED
      BY <3>1, <3>2
  <2> QED
    BY <2>2, <2>3
<1>3. ClosedBefore(p, open2, A, B, C)
  BY <1>2 DEF ClosedBefore
<1> QED
  BY <1>1, <1>3 DEF p

-----------------------------------------------------------------------------
(* Posting at most two calls, all of one class: what happens when a handler   *)
(* posts nothing that matters to the order.                                   *)
Calmly(q, q2, S) ==
  \/ q2 = q
  \/ \E m \in S : q2 = Append(q, m)
  \/ \E m, n \in S : q2 = Append(Append(q, m), n)

\* What was held is held, and only calls of the class are new.
LEMMA CalmHas ==
  ASSUME NEW M, NEW q \in Seq(M), NEW S, S \subseteq M, NEW q2, Calmly(q, q2, S), NEW A
  PROVE  /\ Has(q, A) => Has(q2, A)
         /\ A \cap S = {} => (Has(q2, A) => Has(q, A))
<1>1. ASSUME NEW p \in Seq(M), NEW m \in S
      PROVE  /\ Append(p, m) \in Seq(M) /\ (Has(p, A) => Has(Append(p, m), A))
             /\ A \cap S = {} => (Has(Append(p, m), A) => Has(p, A))
  <2>1. m \in M
    OBVIOUS
  <2>2. Has(Append(p, m), A) <=> Has(p, A) \/ m \in A
    BY <2>1, HasPost
  <2>3. A \cap S = {} => m \notin A
    OBVIOUS
  <2>4. Append(p, m) \in Seq(M)
    BY <2>1
  <2> QED
    BY <2>2, <2>3, <2>4
<1>2. CASE \E m \in S : q2 = Append(q, m)
  BY <1>1, <1>2
<1>3. CASE \E m, n \in S : q2 = Append(Append(q, m), n)
  <2>1. PICK m \in S, n \in S : q2 = Append(Append(q, m), n)
    BY <1>3
  <2> QED
    BY <1>1, <2>1
<1> QED
  BY <1>2, <1>3 DEF Calmly

\* The head stays where it is.
LEMMA CalmHead ==
  ASSUME NEW M, NEW q \in Seq(M), q # <<>>, NEW S, S \subseteq M, NEW q2, Calmly(q, q2, S)
  PROVE  q2 \in Seq(M) /\ q2 # <<>> /\ Head(q2) = Head(q)
<1>1. ASSUME NEW p \in Seq(M), p # <<>>, NEW m \in S
      PROVE  Append(p, m) \in Seq(M) /\ Append(p, m) # <<>> /\ Head(Append(p, m)) = Head(p)
  <2>1. m \in M
    OBVIOUS
  <2> QED
    BY <1>1, <2>1
<1>2. CASE \E m \in S : q2 = Append(q, m)
  BY <1>1, <1>2
<1>3. CASE \E m, n \in S : q2 = Append(Append(q, m), n)
  <2>1. PICK m \in S, n \in S : q2 = Append(Append(q, m), n)
    BY <1>3
  <2> QED
    BY <1>1, <2>1
<1> QED
  BY <1>2, <1>3 DEF Calmly

\* If the class opens nothing, all stays closed ...
LEMMA CalmClosed ==
  ASSUME NEW M, NEW q \in Seq(M), NEW S, S \subseteq M, NEW q2, Calmly(q, q2, S),
         NEW open \in BOOLEAN, NEW A, NEW B, A \cap S = {}, Closed(q, open, A, B)
  PROVE  Closed(q2, open, A, B)
<1>1. ASSUME NEW p \in Seq(M), NEW m \in S, Closed(p, open, A, B)
      PROVE  Append(p, m) \in Seq(M) /\ Closed(Append(p, m), open, A, B)
  <2>1. m \in M /\ m \notin A
    OBVIOUS
  <2>2. Append(p, m) \in Seq(M)
    BY <2>1
  <2> QED
    BY <1>1, <2>1, <2>2, ClosedPost
<1>2. CASE \E m \in S : q2 = Append(q, m)
  BY <1>1, <1>2
<1>3. CASE \E m, n \in S : q2 = Append(Append(q, m), n)
  <2>1. PICK m \in S, n \in S : q2 = Append(Append(q, m), n)
    BY <1>3
  <2> QED
    BY <1>1, <2>1
<1> QED
  BY <1>2, <1>3 DEF Calmly

\* ... and if it need not come after anything, all stays in order.
LEMMA CalmBefore ==
  ASSUME NEW M, NEW q \in Seq(M), NEW S, S \subseteq M, NEW q2, Calmly(q, q2, S),
         NEW open \in BOOLEAN, NEW A, NEW B, NEW C, C \cap S = {}, ClosedBefore(q, open, A, B, C)
  PROVE  ClosedBefore(q2, open, A, B, C)
<1>1. ASSUME NEW p \in Seq(M), NEW m \in S, ClosedBefore(p, open, A, B, C)
      PROVE  Append(p, m) \in Seq(M) /\ ClosedBefore(Append(p, m), open, A, B, C)
  <2>1. m \in M /\ m \notin C
    OBVIOUS
  <2>2. Append(p, m) \in Seq(M)
    BY <2>1
  <2> QED
    BY <1>1, <2>1, <2>2, BeforePost
<1>2. CASE \E m \in S : q2 = Append(q, m)
  BY <1>1, <1>2
<1>3. CASE \E m, n \in S : q2 = Append(Append(q, m), n)
  <2>1. PICK m \in S, n \in S : q2 = Append(Append(q, m), n)
    BY <1>3
  <2> QED
    BY <1>1, <2>1
<1> QED
  BY <1>2, <1>3 DEF Calmly

\* What is not in the queue is closed.
LEMMA NothingOpen ==
  ASSUME NEW q, NEW A, NEW B, NEW C, ~Has(q, A)
  PROVE  Closed(q, FALSE, A, B) /\ ClosedBefore(q, FALSE, A, B, C)
  BY DEF Has, Closed, ClosedBefore

\* What nothing can close keeps the other class out of the queue.
LEMMA NeverAfter ==
  ASSUME NEW q, NEW A, NEW C, ClosedBefore(q, TRUE, A, {}, C)
  PROVE  ~Has(q, C)
  BY DEF Has, ClosedBefore

\* Everything closed and nothing more posted: the other class may come any time.
LEMMA ClosedHas ==
  ASSUME NEW q, NEW A, NEW B, Closed(q, TRUE, A, B)
  PROVE  Has(q, B)
  BY DEF Closed

-----------------------------------------------------------------------------
\* The least number of a set of numbers.
LEMMA LeastNumber ==
  ASSUME NEW T \in SUBSET Nat, T # {}
  PROVE  \E x \in T : \A y \in T : x <= y
<1>1. PICK x \in T : \A y \in T : <<y, x>> \notin OpToRel(<, Nat)
  BY WFMin, NatLessThanWellFounded, Zenon
<1>2. \A y \in T : ~(y < x)
  BY <1>1, Zenon DEF OpToRel
<1> QED
  BY <1>2

\* Induction, for the set of the numbers that have a property.
LEMMA EveryNumber ==
  ASSUME NEW T \in SUBSET Nat, 0 \in T, \A n \in T : n + 1 \in T
  PROVE  \A n \in Nat : n \in T
<1> SUFFICES ASSUME Nat \ T # {} PROVE FALSE
  OBVIOUS
<1>1. PICK x \in Nat \ T : \A y \in Nat \ T : x <= y
  BY LeastNumber
<1>2. x # 0 /\ x - 1 \in T
  BY <1>1
<1> QED
  BY <1>1, <1>2
=============================================================================
