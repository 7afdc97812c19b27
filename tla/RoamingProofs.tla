--------------------------- MODULE RoamingProofs ---------------------------
(***************************************************************************)
(* Proofs about Roaming for any messages and history, any page size and any*)
(* number of connections.                                                  *)
(***************************************************************************)
EXTENDS Roaming, FiniteSetTheorems, SequenceTheorems, WellFoundedInduction, TLAPS

Frame == [type : {"LOGIN", "TOKEN", "CHAT", "ACK", "ROAM", "PAGE"}, m : Msg \cup {0},
          seq : Nat, page : SUBSET Msg, more : BOOLEAN]
Number == Nat \cup {Absent}
Change == [op : {"insert", "update"}, m : Msg, seq : Nat]

TypeOK ==
  /\ log \in Seq(Msg) /\ waiting \in SUBSET Msg /\ posted \in SUBSET Msg /\ online \in BOOLEAN
  /\ conns \in Nat /\ link \in {"up", "none"} /\ up \in Seq(Frame) /\ down \in Seq(Frame)
  /\ screen \in {"login", "in"} /\ opened \in BOOLEAN /\ mem \in [Msg -> Number]
  /\ loadedMinSeq \in Nat /\ roamHasMore \in {"null", "yes", "no"} /\ roamLoading \in BOOLEAN
  /\ disk \in [Msg -> Number] /\ snapshot \in [Msg -> Number] /\ saving \in SUBSET Change
  /\ hydrating \in {"none", "opening", "reading", "merging", "done", "late"}
  /\ stuck \in BOOLEAN

\* Up to its login a device asks for nothing, and it logs in once.
LoginFirst ==
  /\ link = "none" => up = <<>>
  /\ opened => screen = "in"
  /\ screen = "login" => Len(up) <= 1 /\ ~roamLoading
  /\ \A i \in DOMAIN up : screen = "login" => up[i].type = "LOGIN"
  /\ \A i \in DOMAIN up : up[i].type = "LOGIN" =>
       screen = "login" /\ \A j \in DOMAIN down : down[j].type \notin {"LOGIN", "PAGE"}
  /\ \A i \in DOMAIN down : down[i].type = "LOGIN" =>
       /\ screen = "login" /\ up = <<>>
       /\ \A j \in DOMAIN down : down[j].type = "LOGIN" => i = j
       /\ \A j \in DOMAIN down : down[j].type # "PAGE"

\* One request or answer at a time, and none without roamLoading.
Asked == {i \in DOMAIN up : up[i].type = "ROAM"}
Answered == {i \in DOMAIN down : down[i].type = "PAGE"}
OnePage ==
  /\ \A i, j \in Asked : i = j
  /\ \A i, j \in Answered : i = j
  /\ Asked = {} \/ Answered = {}
  /\ screen = "in" /\ ~roamLoading => Asked = {} /\ Answered = {}
  /\ screen = "in" /\ ~stuck /\ roamLoading => Asked # {} \/ Answered # {}

\* What the database will hold is in the list, or about to be merged into it.
Held ==
  /\ hydrating = "merging" =>
       \A m \in Msg : disk[m] # Absent => snapshot[m] # Absent \/ mem[m] # Absent
  /\ hydrating = "done" => \A m \in Msg : disk[m] # Absent => mem[m] # Absent
  /\ \A p \in saving : mem[p.m] # Absent

\* The rows: no message twice, the history first, everything after it Known.
Former(i) == i <= Len(History)
Rows ==
  /\ Len(History) <= Len(log)
  /\ \A i \in Seqs : Former(i) => log[i] = History[i]
  /\ \A i, j \in Seqs : log[i] = log[j] => i = j
  /\ \A i \in Seqs : ~Former(i) => Known(log[i])
  /\ \A m \in waiting \cup posted : m \notin Mine /\ \E i \in Seqs : ~Former(i) /\ log[i] = m

\* s is the number of m, and everything from it on is Known.
Above(s) == \A j \in Seqs : j >= s => Known(log[j])
Right(m, s) == s \in Seqs /\ log[s] = m /\ Above(s)
PageOK(e) ==
  /\ \A m \in e.page : \E i \in Seqs : log[i] = m /\ e.seq <= i
  /\ e.page # {} => e.seq > 0
  /\ e.seq > 0 => \A i \in Seqs : i >= e.seq => log[i] \in e.page \/ Known(log[i])
  /\ ~e.more => \A i \in Seqs : log[i] \in e.page \/ Known(log[i])

UpOK(e) ==
  /\ e.type \in {"LOGIN", "TOKEN", "CHAT", "ROAM"}
  /\ e.type = "CHAT" => e.m \in Mine /\ mem[e.m] # Absent
  /\ e.type = "ROAM" => Above(e.seq)
DownOK(e) ==
  /\ e.type \in {"LOGIN", "TOKEN", "CHAT", "ACK", "PAGE"}
  /\ e.type = "CHAT" => e.m \in Msg \ Mine /\ Right(e.m, e.seq)
  /\ e.type = "ACK" => e.m \in Mine /\ Right(e.m, e.seq)
  /\ e.type = "PAGE" => PageOK(e)

\* Every number on the way, in the list and in the database is the server's, and
\* nothing from it on is missing.
Numbers ==
  /\ \A i \in DOMAIN up : UpOK(up[i])
  /\ \A i \in DOMAIN down : DownOK(down[i])
  /\ \A m \in Msg : mem[m] > 0 => Right(m, mem[m])
  /\ \A m \in Msg : disk[m] > 0 => Right(m, disk[m])
  /\ \A m \in Msg : snapshot[m] > 0 => Right(m, snapshot[m])
  /\ \A p \in saving : p.seq > 0 => Right(p.m, p.seq)
  /\ loadedMinSeq > 0 => Above(loadedMinSeq)
  /\ roamHasMore = "no" => \A j \in Seqs : Known(log[j])

Updated(m) == \E p \in saving : p.op = "update" /\ p.m = m

\* An own message saved without its number: the update is still to come.
Sticks ==
  /\ \A m \in Msg : snapshot[m] # Absent => disk[m] # Absent
  /\ \A m \in Msg : snapshot[m] > 0 => disk[m] > 0
  /\ \A p \in saving : p.op = "update" => p.seq > 0
  /\ \A p \in saving : p.seq = 0 => screen = "in" /\ StoreOpen
  /\ \A m \in Mine \ raced :
       \/ hydrating = "done"
       \/ hydrating = "merging" /\ snapshot[m] = Absent
       => (mem[m] > 0 /\ disk[m] = 0 => Updated(m))
  /\ \A m \in Mine \ raced : \A p \in saving :
       p.m = m /\ p.seq = 0 /\ mem[m] > 0 /\ disk[m] = Absent => Updated(m)

IInv == TypeOK /\ LoginFirst /\ OnePage /\ Held /\ Rows /\ Numbers /\ Sticks

-----------------------------------------------------------------------------
(* Sequences, seen from their elements.                                    *)

\* A queue without its head.
LEMMA TailFacts ==
  ASSUME NEW S, NEW q \in Seq(S), q # <<>>
  PROVE  /\ Head(q) = q[1] /\ Head(q) \in S /\ 1 \in DOMAIN q /\ Len(q) \in Nat /\ Len(q) >= 1
         /\ Tail(q) \in Seq(S) /\ Len(Tail(q)) = Len(q) - 1
         /\ DOMAIN q = 1..Len(q) /\ DOMAIN Tail(q) = 1..(Len(q) - 1)
         /\ \A i \in DOMAIN Tail(q) : i + 1 \in DOMAIN q /\ Tail(q)[i] = q[i + 1]
         /\ \A i \in DOMAIN q : i = 1 \/ (i - 1 \in DOMAIN Tail(q) /\ Tail(q)[i - 1] = q[i])
<1>1. /\ Head(q) = q[1] /\ Head(q) \in S /\ Tail(q) \in Seq(S) /\ Len(Tail(q)) = Len(q) - 1
      /\ \A i \in 1..Len(Tail(q)) : Tail(q)[i] = q[i + 1]
  BY HeadTailProperties
<1>2. Len(q) \in Nat /\ Len(q) # 0 /\ DOMAIN q = 1..Len(q) /\ DOMAIN Tail(q) = 1..Len(Tail(q))
  BY <1>1, LenProperties, EmptySeq
<1> QED
  BY <1>1, <1>2

\* A queue with one more element.
LEMMA AppendFacts ==
  ASSUME NEW S, NEW q \in Seq(S), NEW e \in S
  PROVE  /\ Append(q, e) \in Seq(S) /\ Len(q) \in Nat /\ Len(Append(q, e)) = Len(q) + 1
         /\ DOMAIN q = 1..Len(q) /\ DOMAIN Append(q, e) = 1..(Len(q) + 1)
         /\ \A i \in DOMAIN q : i \in DOMAIN Append(q, e) /\ Append(q, e)[i] = q[i]
         /\ Len(q) + 1 \in DOMAIN Append(q, e) /\ Append(q, e)[Len(q) + 1] = e
         /\ \A i \in DOMAIN Append(q, e) : i \in DOMAIN q \/ i = Len(q) + 1
<1>1. /\ Append(q, e) \in Seq(S) /\ Len(Append(q, e)) = Len(q) + 1
      /\ \A i \in 1..Len(q) : Append(q, e)[i] = q[i]
      /\ Append(q, e)[Len(q) + 1] = e
  BY AppendProperties
<1>2. Len(q) \in Nat /\ DOMAIN q = 1..Len(q) /\ DOMAIN Append(q, e) = 1..Len(Append(q, e))
  BY <1>1, LenProperties
<1> QED
  BY <1>1, <1>2

\* The front of a queue.
LEMMA PrefixFacts ==
  ASSUME NEW S, NEW q \in Seq(S), NEW k \in 0..Len(q)
  PROVE  /\ SubSeq(q, 1, k) \in Seq(S) /\ Len(q) \in Nat /\ DOMAIN q = 1..Len(q)
         /\ DOMAIN SubSeq(q, 1, k) = 1..k
         /\ \A i \in 1..k : i \in DOMAIN q /\ SubSeq(q, 1, k)[i] = q[i]
         /\ \A i \in DOMAIN q : i \in 1..k \/ i \in (k + 1)..Len(q)
<1>1. Len(q) \in Nat /\ DOMAIN q = 1..Len(q) /\ k \in Nat /\ k <= Len(q)
  BY LenProperties
<1>2. \A i \in 1..k : i \in 1..Len(q)
  BY <1>1
<1>3. /\ SubSeq(q, 1, k) \in Seq(S) /\ Len(SubSeq(q, 1, k)) = k
      /\ \A i \in 1..k : SubSeq(q, 1, k)[i] = q[i]
  BY <1>1, <1>2, SubSeqProperties
<1>4. DOMAIN SubSeq(q, 1, k) = 1..k
  BY <1>3, LenProperties
<1>5. \A i \in DOMAIN q : i \in 1..k \/ i \in (k + 1)..Len(q)
  BY <1>1
<1> QED
  BY <1>1, <1>2, <1>3, <1>4, <1>5

\* A queue with an element and a second queue behind it.
LEMMA AppendConcatFacts ==
  ASSUME NEW S, NEW q \in Seq(S), NEW e \in S, NEW r \in Seq(S), NEW z, z = Append(q, e) \o r
  PROVE  /\ z \in Seq(S) /\ Len(q) \in Nat /\ DOMAIN q = 1..Len(q)
         /\ \A i \in DOMAIN q : i \in DOMAIN z /\ z[i] = q[i]
         /\ Len(q) + 1 \in DOMAIN z /\ z[Len(q) + 1] = e
         /\ \A j \in DOMAIN r : Len(q) + 1 + j \in DOMAIN z /\ z[Len(q) + 1 + j] = r[j]
         /\ \A i \in DOMAIN z : i \in DOMAIN q \/ i = Len(q) + 1
                                \/ (i - Len(q) - 1 \in DOMAIN r /\ z[i] = r[i - Len(q) - 1])
<1>0. PICK a \in Seq(S) : a = Append(q, e)
  BY AppendFacts
<1>1. /\ Len(q) \in Nat /\ Len(a) = Len(q) + 1 /\ DOMAIN q = 1..Len(q)
      /\ \A i \in DOMAIN q : a[i] = q[i]
      /\ a[Len(q) + 1] = e
  BY <1>0, AppendFacts
<1>2. /\ z \in Seq(S) /\ Len(z) = Len(a) + Len(r)
      /\ \A i \in 1..(Len(a) + Len(r)) : z[i] = IF i <= Len(a) THEN a[i] ELSE r[i - Len(a)]
  BY <1>0, ConcatProperties
<1>3. Len(r) \in Nat /\ DOMAIN r = 1..Len(r) /\ DOMAIN z = 1..Len(z)
  BY <1>2, LenProperties
<1>4. \A i \in DOMAIN q : i \in DOMAIN z /\ z[i] = q[i]
  BY <1>1, <1>2, <1>3
<1>5. Len(q) + 1 \in DOMAIN z /\ z[Len(q) + 1] = e
  BY <1>1, <1>2, <1>3
<1>6. ASSUME NEW j \in DOMAIN r
      PROVE  Len(q) + 1 + j \in DOMAIN z /\ z[Len(q) + 1 + j] = r[j]
  <2>1. PICK i \in 1..(Len(a) + Len(r)) : i = Len(q) + 1 + j
    BY <1>1, <1>3
  <2>2. ~(i <= Len(a)) /\ i - Len(a) = j
    <3>1. j \in Nat /\ j >= 1
      BY <1>3
    <3> QED
      BY <1>1, <2>1, <3>1
  <2>3. i \in DOMAIN z /\ z[i] = r[j]
    BY <1>2, <1>3, <2>2
  <2> QED
    BY <2>1, <2>3
<1>7. ASSUME NEW i \in DOMAIN z
      PROVE  i \in DOMAIN q \/ i = Len(q) + 1
             \/ (i - Len(q) - 1 \in DOMAIN r /\ z[i] = r[i - Len(q) - 1])
  <2>1. CASE i > Len(q) + 1
    <3>1. /\ i \in 1..(Len(a) + Len(r)) /\ ~(i <= Len(a)) /\ i - Len(a) = i - Len(q) - 1
          /\ i - Len(q) - 1 \in 1..Len(r)
      BY <1>1, <1>2, <1>3, <2>1
    <3> QED
      BY <1>2, <1>3, <3>1
  <2>2. CASE ~(i > Len(q) + 1)
    BY <1>1, <1>2, <1>3, <2>2
  <2> QED
    BY <2>1, <2>2
<1> QED
  BY <1>1, <1>2, <1>4, <1>5, <1>6, <1>7

-----------------------------------------------------------------------------
(* Rows and frames.                                                        *)

\* Rows of a finite set are numbered from 1 on without gap.
LEMMA NthFacts ==
  ASSUME NEW W \in SUBSET Nat, IsFiniteSet(W)
  PROVE  /\ \A k \in 1..Cardinality(W) : Nth(W, k) \in W
         /\ \A i \in W : \E k \in 1..Cardinality(W) : Nth(W, k) = i
<1> DEFINE B(i) == {j \in W : j < i}
           r(i) == Cardinality(B(i))
           n == Cardinality(W)
<1>1. \A i : IsFiniteSet(B(i)) /\ r(i) \in Nat
  <2>1. \A i : B(i) \in SUBSET W
    OBVIOUS
  <2>2. \A i : IsFiniteSet(B(i))
    BY <2>1, FS_Subset
  <2> QED
    BY <2>2, FS_CardinalityType
<1>2. n \in Nat
  BY FS_CardinalityType
<1>3. ASSUME NEW i \in W, NEW j \in W, i < j
      PROVE  r(i) < r(j)
  <2>1. i \notin B(i) /\ B(i) \cup {i} \in SUBSET B(j)
    <3>1. \A x \in W : x \in Nat
      OBVIOUS
    <3>2. \A x \in W : x < i => x < j
      BY <1>3, <3>1
    <3>3. i \notin B(i)
      BY <3>1
    <3>4. \A x \in B(i) \cup {i} : x \in B(j)
      BY <1>3, <3>2
    <3> QED
      BY <3>3, <3>4
  <2> HIDE DEF B
  <2>2. IsFiniteSet(B(i) \cup {i}) /\ Cardinality(B(i) \cup {i}) = r(i) + 1
    BY <1>1, <2>1, FS_AddElement
  <2>3. Cardinality(B(i) \cup {i}) <= r(j)
    BY <1>1, <2>1, FS_Subset
  <2> QED
    BY <1>1, <2>2, <2>3
<1>4. \A i \in W : r(i) < n
  <2> SUFFICES ASSUME NEW i \in W PROVE r(i) < n
    OBVIOUS
  <2>1. i \notin B(i) /\ B(i) \cup {i} \in SUBSET W
    OBVIOUS
  <2> HIDE DEF B
  <2>2. IsFiniteSet(B(i) \cup {i}) /\ Cardinality(B(i) \cup {i}) = r(i) + 1
    BY <1>1, <2>1, FS_AddElement
  <2>3. Cardinality(B(i) \cup {i}) <= n
    BY <2>1, FS_Subset
  <2> QED
    BY <1>1, <1>2, <2>2, <2>3
<1> HIDE DEF B
<1>5. \A i, j \in W : r(i) = r(j) => i = j
  <2> SUFFICES ASSUME NEW i \in W, NEW j \in W, r(i) = r(j), i # j PROVE FALSE
    OBVIOUS
  <2>1. i < j \/ j < i
    OBVIOUS
  <2> QED
    BY <1>1, <1>3, <2>1
<1>6. ASSUME NEW k \in 1..n
      PROVE  \E i \in W : r(i) = k - 1
  <2> SUFFICES ASSUME \A i \in W : r(i) # k - 1 PROVE FALSE
    OBVIOUS
  <2> DEFINE T == (0..(n - 1)) \ {k - 1}
             f == [i \in W |-> r(i)]
  <2>1. IsFiniteSet(0..(n - 1)) /\ Cardinality(0..(n - 1)) = n
    <3>1. PICK b \in Int : b = n - 1
      BY <1>2
    <3>2. /\ IsFiniteSet(0..b)
          /\ Cardinality(0..b) = IF 0 > b THEN 0 ELSE b - 0 + 1
      BY FS_Interval
    <3> QED
      BY <1>2, <3>1, <3>2
  <2>2. IsFiniteSet(T) /\ Cardinality(T) = n - 1
    <3>1. k - 1 \in 0..(n - 1)
      BY <1>2
    <3>2. PICK S : S = 0..(n - 1)
      OBVIOUS
    <3>3. PICK x : x = k - 1
      OBVIOUS
    <3>4. IsFiniteSet(S) /\ x \in S /\ Cardinality(S) = n
      BY <2>1, <3>1, <3>2, <3>3
    <3>5. IsFiniteSet(S \ {x}) /\ Cardinality(S \ {x}) = Cardinality(S) - 1
      BY <3>4, FS_RemoveElement
    <3> QED
      BY <3>2, <3>3, <3>4, <3>5
  <2>3. f \in Injection(W, T)
    <3>1. \A i \in W : r(i) \in T
      BY <1>1, <1>2, <1>4
    <3> HIDE DEF T, r
    <3> QED
      BY <1>5, <3>1 DEF Injection, IsInjective
  <2> HIDE DEF T, f
  <2>4. Cardinality(W) <= Cardinality(T)
    BY <2>2, <2>3, FS_Injection
  <2> QED
    BY <1>2, <2>2, <2>4
<1>7. ASSUME NEW k \in 1..n
      PROVE  Nth(W, k) \in W /\ r(Nth(W, k)) = k - 1
  BY <1>6 DEF Nth, B
<1>8. ASSUME NEW i \in W
      PROVE  \E k \in 1..n : Nth(W, k) = i
  <2>1. PICK k \in 1..n : k = r(i) + 1
    BY <1>1, <1>2, <1>4
  <2>2. Nth(W, k) \in W /\ r(Nth(W, k)) = r(i)
    BY <1>1, <1>7, <2>1
  <2> QED
    BY <1>5, <2>2
<1> QED
  BY <1>7, <1>8

\* The number of a message that has a row.
LEMMA SeqOfFacts ==
  ASSUME NEW m, NEW i \in Seqs, log[i] = m
  PROVE  InLog(m) /\ SeqOf(m) \in Seqs /\ log[SeqOf(m)] = m
BY DEF InLog, SeqOf

\* The frames, field by field.
LEMMA LoginFrame ==
  ASSUME NEW t \in {"LOGIN", "TOKEN"}
  PROVE  Ev(t) \in Frame /\ Ev(t).type = t
BY DEF Ev, Frame

\* A message with its number, or the answer to one.
LEMMA NumberFrame ==
  ASSUME NEW m \in Msg, NEW s \in Nat, NEW t \in {"CHAT", "ACK"}, NEW e,
         e = [Ev(t) EXCEPT !.m = m, !.seq = s]
  PROVE  e \in Frame /\ e.type = t /\ e.m = m /\ e.seq = s
BY DEF Ev, Frame

\* A message on its way to the server.
LEMMA SendFrame ==
  ASSUME NEW m \in Msg, NEW e, e = [Ev("CHAT") EXCEPT !.m = m]
  PROVE  e \in Frame /\ e.type = "CHAT" /\ e.m = m
BY DEF Ev, Frame

\* A request for a page.
LEMMA RoamFrame ==
  ASSUME NEW s \in Nat, NEW e, e = [Ev("ROAM") EXCEPT !.seq = s]
  PROVE  e \in Frame /\ e.type = "ROAM" /\ e.seq = s
BY DEF Ev, Frame

\* A page.
LEMMA PageFrame ==
  ASSUME NEW S \in SUBSET Msg, NEW s \in Nat, NEW b \in BOOLEAN, NEW e,
         e = [Ev("PAGE") EXCEPT !.page = S, !.seq = s, !.more = b]
  PROVE  e \in Frame /\ e.type = "PAGE" /\ e.page = S /\ e.seq = s /\ e.more = b
BY DEF Ev, Frame

\* The frame of a stored message.
LEMMA ChatFacts ==
  ASSUME TypeOK, Rows, NEW i \in Seqs, NEW e, e = Chat(log[i])
  PROVE  e \in Frame /\ e.type = "CHAT" /\ e.m = log[i] /\ e.seq = i
<1>1. log[i] \in Msg /\ Len(log) \in Nat
  BY LenProperties, ElementOfSeq DEF TypeOK, Seqs
<1>2. SeqOf(log[i]) = i
  BY SeqOfFacts DEF Rows
<1>3. i \in Nat
  BY <1>1 DEF Seqs
<1>4. e = [Ev("CHAT") EXCEPT !.m = log[i], !.seq = i]
  BY <1>2 DEF Chat
<1> QED
  BY <1>1, <1>3, <1>4 DEF Ev, Frame

\* What activateSession sends again: each message that waits, and no other.
LEMMA ResentFacts ==
  ASSUME TypeOK, Rows
  PROVE  /\ Resent \in Seq(Frame)
         /\ \A k \in DOMAIN Resent : \E i \in Seqs :
              /\ log[i] \in waiting
              /\ Resent[k].type = "CHAT" /\ Resent[k].m = log[i] /\ Resent[k].seq = i
         /\ \A m \in waiting : \E k \in DOMAIN Resent :
              Resent[k].type = "CHAT" /\ Resent[k].m = m
<1> DEFINE W == WaitingRows
           n == Cardinality(W)
<1>1. Len(log) \in Nat
  BY LenProperties DEF TypeOK
<1>2. W \in SUBSET Nat /\ W \in SUBSET (1..Len(log)) /\ \A i \in W : i \in Seqs /\ log[i] \in waiting
  BY <1>1 DEF WaitingRows, Seqs
<1> HIDE DEF W
<1>3. IsFiniteSet(W) /\ n \in Nat
  <2>1. IsFiniteSet(1..Len(log))
    BY <1>1, FS_Interval
  <2>2. IsFiniteSet(W)
    BY <1>2, <2>1, FS_Subset
  <2> QED
    BY <2>2, FS_CardinalityType
<1>4. /\ \A k \in 1..n : Nth(W, k) \in W
      /\ \A i \in W : \E k \in 1..n : Nth(W, k) = i
  BY <1>2, <1>3, NthFacts
<1>5. Resent = [k \in 1..n |-> Chat(log[Nth(W, k)])]
  BY DEF Resent, W
<1>6. \A k \in 1..n : /\ Chat(log[Nth(W, k)]) \in Frame
                      /\ Chat(log[Nth(W, k)]).type = "CHAT"
                      /\ Chat(log[Nth(W, k)]).m = log[Nth(W, k)]
                      /\ Chat(log[Nth(W, k)]).seq = Nth(W, k)
  BY <1>2, <1>4, ChatFacts
<1>7. Resent \in Seq(Frame) /\ DOMAIN Resent = 1..n
  <2>1. Resent \in [1..n -> Frame]
    BY <1>5, <1>6
  <2> QED
    BY <1>3, <2>1, IsASeq
<1>8. ASSUME NEW k \in 1..n
      PROVE  \E i \in Seqs :
               /\ log[i] \in waiting
               /\ Resent[k].type = "CHAT" /\ Resent[k].m = log[i] /\ Resent[k].seq = i
  BY <1>2, <1>4, <1>5, <1>6
<1>9. ASSUME NEW m \in waiting
      PROVE  \E k \in 1..n : Resent[k].type = "CHAT" /\ Resent[k].m = m
  <2>1. PICK i \in W : log[i] = m
    BY DEF Rows, W, WaitingRows
  <2>2. PICK k \in 1..n : Nth(W, k) = i
    BY <1>4
  <2> QED
    BY <1>5, <1>6, <2>1, <2>2
<1> QED
  BY <1>7, <1>8, <1>9

\* The smallest of a set of numbers.
LEMMA MinFacts ==
  ASSUME NEW S \in SUBSET Nat, S # {}
  PROVE  Min(S) \in S /\ \A y \in S : Min(S) <= y
<1> DEFINE R == {rs \in Nat \X Nat : rs[1] < rs[2]}
<1>1. R = OpToRel(<, Nat)
  BY DEF OpToRel
<1>2. \A i, k \in Nat : <<i, k>> \in R <=> i < k
  OBVIOUS
<1> HIDE DEF R
<1>3. IsWellFoundedOn(R, Nat)
  BY <1>1, NatLessThanWellFounded, Zenon
<1>4. PICK k \in S : \A i \in S : ~(<<i, k>> \in R)
  BY <1>3, WFMin
<1>5. ASSUME NEW y \in S
      PROVE  k <= y
  <2>1. y \in Nat /\ k \in Nat
    OBVIOUS
  <2>2. ~(<<y, k>> \in R)
    BY <1>4
  <2>3. ~(y < k)
    BY <1>2, <2>1, <2>2
  <2> QED
    BY <2>1, <2>3
<1> QED
  BY <1>5 DEF Min

\* The largest of a bounded set of numbers.
LEMMA LargestFacts ==
  ASSUME NEW n \in Nat, NEW S \in SUBSET (1..n), S # {}
  PROVE  \E x \in S : \A y \in S : y <= x
<1> DEFINE T == {n - y : y \in S}
<1>1. T \in SUBSET Nat /\ T # {}
  <2>1. \A y \in S : n - y \in Nat
    OBVIOUS
  <2> QED
    BY <2>1
<1>2. PICK t \in T : \A u \in T : t <= u
  BY <1>1, MinFacts
<1>3. PICK x \in S : t = n - x
  OBVIOUS
<1>4. \A y \in S : n - y \in T /\ y \in Nat /\ x \in Nat
  OBVIOUS
<1> HIDE DEF T
<1>5. ASSUME NEW y \in S
      PROVE  y <= x
  <2>1. n - x <= n - y
    BY <1>2, <1>3, <1>4
  <2> QED
    BY <1>4, <2>1
<1> QED
  BY <1>5

\* Database::roamMessages: the rows right below the cursor, and all of them when the page
\* is not full.
LEMMA RoamFacts ==
  ASSUME TypeOK, NEW b \in Nat, NEW rows, rows = roamMessages(b)
  PROVE  /\ rows \in SUBSET Seqs /\ Seqs \in SUBSET Nat
         /\ \A i \in rows : i < b
         /\ IsFiniteSet(rows) /\ Cardinality(rows) \in Nat
         /\ \A x \in rows : \A i \in Seqs : x <= i /\ i < b => i \in rows
         /\ Cardinality(rows) # PageSize => \A i \in Seqs : i < b => i \in rows
<1> DEFINE older == {i \in Seqs : i < b}
           Up(i) == {j \in older : j > i}
<1>0. Len(log) \in Nat /\ PageSize \in Nat /\ PageSize > 0
  BY LenProperties, RoamingAssumption DEF TypeOK
<1>1. rows = {i \in older : Cardinality(Up(i)) < PageSize}
  BY DEF roamMessages
<1>2. /\ older \in SUBSET (1..Len(log)) /\ Seqs \in SUBSET Nat /\ older \in SUBSET Nat
      /\ older \in SUBSET Seqs /\ \A i \in Seqs : i \in older <=> i < b
  BY <1>0 DEF Seqs
<1>3. IsFiniteSet(1..Len(log))
  BY <1>0, FS_Interval
<1>4. \A i : Up(i) \in SUBSET older
  OBVIOUS
<1>5. \A i, j \in Nat : j \in Up(i) <=> j \in older /\ j > i
  OBVIOUS
<1> HIDE DEF older, Up
<1>6. IsFiniteSet(older) /\ \A T \in SUBSET older : IsFiniteSet(T) /\ Cardinality(T) \in Nat
  <2>1. IsFiniteSet(older)
    BY <1>2, <1>3, FS_Subset
  <2> QED
    BY <2>1, FS_Subset, FS_CardinalityType
<1>7. rows \in SUBSET older
  BY <1>1
<1>8. ASSUME NEW x \in rows, NEW i \in older, x <= i
      PROVE  i \in rows
  <2>1. Up(i) \in SUBSET Up(x)
    <3>1. x \in Nat /\ i \in Nat /\ \A j \in Up(i) : j \in Nat
      BY <1>2, <1>4, <1>7
    <3> QED
      BY <1>5, <1>8, <3>1
  <2>2. Cardinality(Up(i)) <= Cardinality(Up(x))
    BY <1>4, <1>6, <2>1, FS_Subset
  <2>3. Cardinality(Up(x)) < PageSize
    BY <1>1
  <2>4. Cardinality(Up(i)) \in Nat /\ Cardinality(Up(x)) \in Nat
    BY <1>4, <1>6
  <2> QED
    BY <1>0, <1>1, <2>2, <2>3, <2>4
<1>9. ASSUME NEW y \in older, y \notin rows
      PROVE  Cardinality(rows) = PageSize
  <2> DEFINE N == older \ rows
  <2>1. PICK i \in N : \A j \in N : j <= i
    <3>1. N \in SUBSET (1..Len(log)) /\ N # {}
      BY <1>2, <1>9
    <3> QED
      BY <1>0, <3>1, LargestFacts
  <2>2. i \in older /\ i \notin rows /\ i \in Nat /\ \A j \in older : j \in Nat
    BY <1>2
  <2>3. Up(i) = rows
    <3>1. \A j \in older : j > i => j \in rows
      BY <2>1, <2>2
    <3>2. \A j \in rows : j \in older /\ j > i
      BY <1>7, <1>8, <2>2
    <3> QED
      BY <1>4, <1>5, <2>2, <3>1, <3>2
  <2>4. Cardinality(rows) \in Nat /\ IsFiniteSet(rows)
    BY <1>6, <1>7
  <2>5. PageSize <= Cardinality(rows)
    <3>1. ~(Cardinality(Up(i)) < PageSize)
      BY <1>1, <2>2
    <3> QED
      BY <1>0, <2>3, <2>4, <3>1
  <2>6. rows # {}
    <3>1. Cardinality(rows) # 0
      BY <1>0, <2>4, <2>5
    <3> QED
      BY <3>1, FS_EmptySet
  <2>7. PICK x \in rows : \A j \in rows : x <= j
    <3>1. rows \in SUBSET Nat
      BY <1>2, <1>7
    <3> QED
      BY <2>6, <3>1, MinFacts
  <2>8. Up(x) = rows \ {x}
    <3>1. x \in Nat /\ x \in older
      BY <1>2, <1>7
    <3>2. \A j \in older : j > x => j \in rows /\ j # x
      BY <1>8, <2>2, <3>1
    <3>3. \A j \in rows \ {x} : j \in older /\ j > x
      BY <1>7, <2>2, <2>7, <3>1
    <3> QED
      BY <1>4, <1>5, <2>2, <3>1, <3>2, <3>3
  <2>9. Cardinality(rows \ {x}) = Cardinality(rows) - 1
    BY <2>4, FS_RemoveElement
  <2>10. Cardinality(Up(x)) < PageSize
    BY <1>1
  <2> QED
    BY <1>0, <2>4, <2>5, <2>8, <2>9, <2>10
<1>10. \A i \in rows : i \in Seqs /\ i < b
  BY <1>2, <1>7
<1>11. ASSUME NEW x \in rows, NEW i \in Seqs, x <= i, i < b
       PROVE  i \in rows
  BY <1>2, <1>8, <1>11
<1>12. ASSUME Cardinality(rows) # PageSize, NEW i \in Seqs, i < b
       PROVE  i \in rows
  BY <1>2, <1>9, <1>12
<1> QED
  BY <1>2, <1>6, <1>7, <1>10, <1>11, <1>12

-----------------------------------------------------------------------------
(* Steps, seen from the queues and the list.                               *)

\* z is q without its head.
Shifted(q, z) ==
  /\ 1 \in DOMAIN q /\ Len(q) \in Nat /\ Len(q) >= 1 /\ DOMAIN q = 1..Len(q)
  /\ DOMAIN z = 1..(Len(q) - 1) /\ Len(z) = Len(q) - 1
  /\ \A i \in DOMAIN z : i + 1 \in DOMAIN q /\ z[i] = q[i + 1]
  /\ \A i \in DOMAIN q : i = 1 \/ (i - 1 \in DOMAIN z /\ z[i - 1] = q[i])

\* z is q with e behind it.
Extended(q, z, e) ==
  /\ Len(q) \in Nat /\ DOMAIN q = 1..Len(q) /\ DOMAIN z = 1..(Len(q) + 1) /\ Len(z) = Len(q) + 1
  /\ \A i \in DOMAIN q : i \in DOMAIN z /\ z[i] = q[i]
  /\ z[Len(q) + 1] = e
  /\ \A i \in DOMAIN z : i \in DOMAIN q \/ i = Len(q) + 1

\* z is the front of q.
Front(q, z, k) ==
  /\ Len(q) \in Nat /\ DOMAIN q = 1..Len(q) /\ DOMAIN z = 1..k /\ k \in 0..Len(q)
  /\ \A i \in DOMAIN z : i \in DOMAIN q /\ z[i] = q[i]
  /\ \A i \in DOMAIN q : i \in DOMAIN z \/ i \in (k + 1)..Len(q)

\* The server takes the next request.
LEMMA ServedFacts ==
  ASSUME TypeOK, NEW t, Served(t)
  PROVE  /\ link = "up" /\ Head(up) = up[1] /\ up[1] \in Frame /\ up[1].type = t
         /\ up' \in Seq(Frame) /\ Shifted(up, up')
BY TailFacts DEF TypeOK, Served, Shifted

\* collectEvents takes the next event.
LEMMA CollectFacts ==
  ASSUME TypeOK, NEW t, Collect(t)
  PROVE  /\ Head(down) = down[1] /\ down[1] \in Frame /\ down[1].type = t
         /\ down' \in Seq(Frame) /\ Shifted(down, down')
BY TailFacts DEF TypeOK, Collect, Shifted

\* A frame is put behind the others.
LEMMA ExtendedFacts ==
  ASSUME NEW q \in Seq(Frame), NEW e \in Frame, NEW z, z = Append(q, e)
  PROVE  z \in Seq(Frame) /\ Extended(q, z, e)
BY AppendFacts DEF Extended

\* Frames are cut off behind.
LEMMA FrontFacts ==
  ASSUME NEW q \in Seq(Frame), NEW k \in 0..Len(q), NEW z, z = SubSeq(q, 1, k)
  PROVE  z \in Seq(Frame) /\ Front(q, z, k)
BY PrefixFacts DEF Front

\* append: what is in the list stays as it is, what is not comes in with its number and
\* is to be saved.
LEMMA ListFacts ==
  ASSUME TypeOK, NEW new \in SUBSET Change, \A p, q \in new : p.m = q.m => p = q, append(new)
  PROVE  /\ mem' \in [Msg -> Number] /\ saving' \in SUBSET Change
         /\ \A m \in Msg : mem[m] # Absent => mem'[m] = mem[m]
         /\ \A m \in Msg : mem[m] = Absent /\ mem'[m] # Absent =>
              \E p \in new : p.m = m /\ mem'[m] = p.seq
         /\ \A p \in new : mem'[p.m] # Absent
         /\ saving \subseteq saving'
         /\ \A p \in saving' : p \in saving \/ (p \in new /\ mem[p.m] = Absent /\ StoreOpen)
<1> DEFINE fresh == {p \in new : mem[p.m] = Absent}
           isNew(m) == \E p \in fresh : p.m = m
<1>1. /\ mem' = [m \in Msg |-> IF isNew(m) THEN (CHOOSE p \in fresh : p.m = m).seq ELSE mem[m]]
      /\ saving' = IF StoreOpen THEN saving \cup fresh ELSE saving
  BY DEF append
<1>2. \A p \in new : p \in Change /\ p.m \in Msg /\ p.seq \in Nat /\ p.seq # Absent
  BY DEF Change, Absent
<1>3. \A m \in Msg : isNew(m) =>
        /\ mem[m] = Absent
        /\ \E p \in fresh : p.m = m /\ (CHOOSE x \in fresh : x.m = m) = p
  OBVIOUS
<1>4. ASSUME NEW m \in Msg, mem[m] # Absent
      PROVE  mem'[m] = mem[m]
  BY <1>1, <1>4
<1>5. ASSUME NEW m \in Msg, mem[m] = Absent, mem'[m] # Absent
      PROVE  \E p \in new : p.m = m /\ mem'[m] = p.seq
  BY <1>1, <1>3, <1>5
<1>6. ASSUME NEW p \in new
      PROVE  mem'[p.m] # Absent
  <2>1. CASE mem[p.m] # Absent
    BY <1>2, <1>4, <2>1
  <2>2. CASE mem[p.m] = Absent
    <3>1. isNew(p.m)
      BY <2>2
    <3>2. PICK q \in fresh : q.m = p.m /\ (CHOOSE x \in fresh : x.m = p.m) = q
      BY <1>2, <1>3, <3>1
    <3>3. mem'[p.m] = q.seq
      BY <1>1, <1>2, <3>1, <3>2
    <3> QED
      BY <1>2, <3>3
  <2> QED
    BY <2>1, <2>2
<1>7. mem' \in [Msg -> Number]
  <2>1. mem \in [Msg -> Number] /\ Nat \subseteq Number
    BY DEF TypeOK, Number
  <2>2. \A m \in Msg : mem[m] \in Number
    BY <2>1
  <2>3. ASSUME NEW m \in Msg, isNew(m)
        PROVE  (CHOOSE p \in fresh : p.m = m).seq \in Number
    <3>1. PICK q \in fresh : (CHOOSE x \in fresh : x.m = m) = q
      BY <1>3, <2>3
    <3> QED
      BY <1>2, <2>1, <3>1
  <2> HIDE DEF isNew, fresh
  <2> QED
    BY <1>1, <2>2, <2>3
<1>8. saving' \in SUBSET Change /\ saving \subseteq saving'
  BY <1>1, <1>2 DEF TypeOK
<1>9. \A p \in saving' : p \in saving \/ (p \in new /\ mem[p.m] = Absent /\ StoreOpen)
  BY <1>1
<1> QED
  BY <1>4, <1>5, <1>6, <1>7, <1>8, <1>9

\* resetToLogin and the end of the process, in one.
LEMMA LeaveFacts ==
  ASSUME TypeOK, NEW ended \in BOOLEAN, Leave(ended)
  PROVE  /\ down' \in Seq(Frame)
         /\ \E k \in 0..Len(down) :
              /\ Front(down, down', k)
              /\ \A i \in (k + 1)..Len(down) : down[i].type = "CHAT" => down[i].m \in missed'
         /\ link' = "none" /\ up' = <<>> /\ conns' = conns
         /\ missed \cup posted \cup Unsaved \subseteq missed'
         /\ posted' = {} /\ stuck' = FALSE /\ Reset(ended)
<1>1. down \in Seq(Frame) /\ Len(down) \in Nat
  BY LenProperties DEF TypeOK
<1>2. PICK k \in 0..(IF ended THEN 0 ELSE Len(down)) :
        /\ down' = SubSeq(down, 1, k)
        /\ link' = "none" /\ up' = <<>> /\ UNCHANGED conns
        /\ missed' = missed \cup posted \cup Unsaved
                       \cup {down[i].m : i \in {j \in (k + 1)..Len(down) : down[j].type = "CHAT"}}
        /\ posted' = {} /\ stuck' = FALSE /\ Reset(ended)
  BY DEF Leave
<1>3. k \in 0..Len(down)
  BY <1>1, <1>2
<1>4. down' \in Seq(Frame) /\ Front(down, down', k)
  BY <1>1, <1>2, <1>3, FrontFacts
<1>5. \A i \in (k + 1)..Len(down) : down[i].type = "CHAT" => down[i].m \in missed'
  BY <1>2
<1> QED
  BY <1>2, <1>3, <1>4, <1>5

\* activateSession, seen from the two queues.
LEMMA ServeLoginFacts ==
  ASSUME TypeOK, Rows, ServeLogin
  PROVE  /\ link = "up" /\ up[1] \in Frame /\ up[1].type \in {"LOGIN", "TOKEN"}
         /\ up' \in Seq(Frame) /\ Shifted(up, up') /\ down' \in Seq(Frame)
         /\ Len(down) \in Nat /\ DOMAIN down = 1..Len(down)
         /\ \A i \in DOMAIN down : i \in DOMAIN down' /\ down'[i] = down[i]
         /\ Len(down) + 1 \in DOMAIN down' /\ down'[Len(down) + 1] = up[1]
         /\ \A i \in DOMAIN down' :
              \/ i \in DOMAIN down \/ i = Len(down) + 1
              \/ /\ down'[i].type = "CHAT"
                 /\ \E r \in Seqs : /\ log[r] \in waiting /\ down'[i].m = log[r]
                                    /\ down'[i].seq = r
         /\ \A m \in waiting : \E i \in DOMAIN down' : down'[i].type = "CHAT" /\ down'[i].m = m
<1>1. /\ link = "up" /\ Head(up) = up[1] /\ up[1] \in Frame
      /\ up[1].type \in {"LOGIN", "TOKEN"} /\ up' \in Seq(Frame) /\ Shifted(up, up')
  <2>1. CASE Served("LOGIN")
    BY <2>1, ServedFacts
  <2>2. CASE Served("TOKEN")
    BY <2>2, ServedFacts
  <2> QED
    BY <2>1, <2>2 DEF ServeLogin
<1>2. down' = Append(down, up[1]) \o Resent
  BY <1>1 DEF ServeLogin
<1>3. PICK r \in Seq(Frame) : r = Resent
  BY ResentFacts
<1>4. /\ \A k \in DOMAIN r : \E i \in Seqs :
           /\ log[i] \in waiting
           /\ r[k].type = "CHAT" /\ r[k].m = log[i] /\ r[k].seq = i
      /\ \A m \in waiting : \E k \in DOMAIN r : r[k].type = "CHAT" /\ r[k].m = m
  BY <1>3, ResentFacts
<1>5. down \in Seq(Frame)
  BY DEF TypeOK
<1>6. /\ down' \in Seq(Frame) /\ Len(down) \in Nat /\ DOMAIN down = 1..Len(down)
      /\ \A i \in DOMAIN down : i \in DOMAIN down' /\ down'[i] = down[i]
      /\ Len(down) + 1 \in DOMAIN down' /\ down'[Len(down) + 1] = up[1]
      /\ \A j \in DOMAIN r : Len(down) + 1 + j \in DOMAIN down' /\ down'[Len(down) + 1 + j] = r[j]
      /\ \A i \in DOMAIN down' :
           \/ i \in DOMAIN down \/ i = Len(down) + 1
           \/ i - Len(down) - 1 \in DOMAIN r /\ down'[i] = r[i - Len(down) - 1]
  BY <1>1, <1>2, <1>3, <1>5, AppendConcatFacts
<1>7. ASSUME NEW i \in DOMAIN down', i \notin DOMAIN down, i # Len(down) + 1
      PROVE  /\ down'[i].type = "CHAT"
             /\ \E n \in Seqs : /\ log[n] \in waiting /\ down'[i].m = log[n]
                                /\ down'[i].seq = n
  <2>1. PICK k \in DOMAIN r : down'[i] = r[k]
    BY <1>6, <1>7
  <2> QED
    BY <1>4, <2>1
<1>8. ASSUME NEW m \in waiting
      PROVE  \E i \in DOMAIN down' : down'[i].type = "CHAT" /\ down'[i].m = m
  <2>1. PICK k \in DOMAIN r : r[k].type = "CHAT" /\ r[k].m = m
    BY <1>4
  <2>2. Len(down) + 1 + k \in DOMAIN down' /\ down'[Len(down) + 1 + k] = r[k]
    BY <1>6
  <2> QED
    BY <2>1, <2>2
<1> QED
  BY <1>1, <1>6, <1>7, <1>8

\* onChat for a message of this device: the row it has or gets, and the answer.
LEMMA ServeChatFacts ==
  ASSUME TypeOK, Numbers, ServeChat
  PROVE  /\ link = "up" /\ up[1] \in Frame /\ up[1].type = "CHAT" /\ 1 \in DOMAIN up
         /\ up[1].m \in Mine /\ up[1].m \in Msg /\ mem[up[1].m] # Absent
         /\ up' \in Seq(Frame) /\ Shifted(up, up') /\ down' \in Seq(Frame)
         /\ log' \in Seq(Msg)
         /\ \/ log' = log
            \/ ~InLog(up[1].m) /\ log' = Append(log, up[1].m)
         /\ \E e \in Frame : /\ Extended(down, down', e) /\ e.type = "ACK" /\ e.m = up[1].m
                             /\ e.seq \in Seqs' /\ log'[e.seq] = e.m
<1>1. /\ link = "up" /\ Head(up) = up[1] /\ up[1] \in Frame
      /\ up[1].type = "CHAT" /\ up' \in Seq(Frame) /\ Shifted(up, up')
  BY ServedFacts DEF ServeChat
<1>2. 1 \in DOMAIN up
  BY <1>1 DEF Shifted
<1>3. UpOK(up[1])
  BY <1>2 DEF Numbers
<1>4. PICK m \in Msg : m = up[1].m /\ m \in Mine /\ mem[m] # Absent
  BY <1>1, <1>3, RoamingAssumption DEF UpOK
<1> DEFINE seq == IF InLog(m) THEN SeqOf(m) ELSE Len(log) + 1
           e == [Ev("ACK") EXCEPT !.m = m, !.seq = seq]
<1>5. /\ log' = IF InLog(m) THEN log ELSE Append(log, m)
      /\ down' = Append(down, e)
  BY <1>1, <1>4 DEF ServeChat
<1>6. log \in Seq(Msg) /\ Len(log) \in Nat /\ down \in Seq(Frame)
  BY LenProperties DEF TypeOK
<1>7. log' \in Seq(Msg) /\ seq \in Seqs' /\ log'[seq] = m
  <2>1. CASE InLog(m)
    BY <1>5, <1>6, <2>1, SeqOfFacts DEF InLog, Seqs
  <2>2. CASE ~InLog(m)
    <3>1. log' = Append(log, m) /\ seq = Len(log) + 1
      BY <1>5, <2>2
    <3>2. log' \in Seq(Msg) /\ Len(log') = Len(log) + 1 /\ log'[Len(log) + 1] = m
      BY <1>6, <3>1, AppendFacts
    <3> QED
      BY <1>6, <3>1, <3>2 DEF Seqs
  <2> QED
    BY <2>1, <2>2
<1>8. Len(log') \in Nat
  BY <1>7, LenProperties
<1>9. PICK s \in Nat : s = seq
  BY <1>7, <1>8 DEF Seqs
<1> HIDE DEF seq
<1>10. PICK f \in Frame : f = e /\ f.type = "ACK" /\ f.m = m /\ f.seq = s
  <2>1. e \in Frame /\ e.type = "ACK" /\ e.m = m /\ e.seq = s
    BY <1>9 DEF Ev, Frame
  <2> HIDE DEF e
  <2> QED
    BY <2>1
<1> HIDE DEF e
<1>11. down' \in Seq(Frame) /\ Extended(down, down', f)
  BY <1>5, <1>6, <1>10, ExtendedFacts
<1>12. log' = log \/ (~InLog(up[1].m) /\ log' = Append(log, up[1].m))
  BY <1>4, <1>5
<1>13. f.seq \in Seqs' /\ log'[f.seq] = f.m /\ f.m = up[1].m
  BY <1>4, <1>7, <1>9, <1>10
<1> QED
  BY <1>1, <1>2, <1>4, <1>7, <1>10, <1>11, <1>12, <1>13

\* onMessages: the page and its marks.
LEMMA ServeRoamFacts ==
  ASSUME TypeOK, ServeRoam
  PROVE  /\ link = "up" /\ up[1] \in Frame /\ up[1].type = "ROAM" /\ up[1].seq \in Nat
         /\ up' \in Seq(Frame) /\ Shifted(up, up') /\ down' \in Seq(Frame)
         /\ \E e \in Frame :
              /\ Extended(down, down', e) /\ e.type = "PAGE"
              /\ \A m \in e.page : \E i \in Seqs : log[i] = m /\ e.seq <= i
              /\ e.page # {} => e.seq > 0
              /\ e.seq > 0 => \A i \in Seqs : i >= e.seq /\ i < up[1].seq => log[i] \in e.page
              /\ ~e.more => \A i \in Seqs : i < up[1].seq => log[i] \in e.page
<1>1. /\ link = "up" /\ Head(up) = up[1] /\ up[1] \in Frame /\ up[1].type = "ROAM"
      /\ up' \in Seq(Frame) /\ Shifted(up, up')
  BY ServedFacts DEF ServeRoam
<1>2. PICK b \in Nat : b = up[1].seq
  BY <1>1 DEF Frame
<1>3. PICK rows : rows = roamMessages(b)
  OBVIOUS
<1>4. /\ rows \in SUBSET Seqs /\ Seqs \in SUBSET Nat /\ rows \in SUBSET Nat
      /\ \A x \in rows : \A i \in Seqs : x <= i /\ i < b => i \in rows
      /\ Cardinality(rows) # PageSize => \A i \in Seqs : i < b => i \in rows
  BY <1>3, RoamFacts
<1> DEFINE S == {log[i] : i \in rows}
           x == IF rows = {} THEN 0 ELSE Min(rows)
           more == (Cardinality(rows) = PageSize)
           e == [Ev("PAGE") EXCEPT !.page = S, !.seq = x, !.more = more]
<1>5. down' = Append(down, e)
  BY <1>1, <1>2, <1>3 DEF ServeRoam
<1>6. x \in Nat /\ (rows # {} => x \in rows /\ \A i \in rows : x <= i)
  BY <1>4, MinFacts
<1>7. S \in SUBSET Msg
  <2>1. \A i \in Seqs : log[i] \in Msg
    BY ElementOfSeq, LenProperties DEF TypeOK, Seqs
  <2> QED
    BY <1>4, <2>1
<1>8. more \in BOOLEAN
  OBVIOUS
<1> HIDE DEF x
<1>9. PICK f \in Frame : f = e /\ f.type = "PAGE" /\ f.page = S /\ f.seq = x /\ f.more = more
  <2>1. e \in Frame /\ e.type = "PAGE" /\ e.page = S /\ e.seq = x /\ e.more = more
    <3> HIDE DEF S, more
    <3> QED
      BY <1>6, <1>7, <1>8 DEF Ev, Frame
  <2> HIDE DEF e
  <2> QED
    BY <2>1
<1> HIDE DEF e
<1>10. down' \in Seq(Frame) /\ Extended(down, down', f)
  BY <1>5, <1>9, ExtendedFacts DEF TypeOK
<1>11. /\ \A m \in f.page : \E i \in Seqs : log[i] = m /\ f.seq <= i
       /\ f.page # {} => f.seq > 0
  <2>1. \A i \in rows : i \in Seqs /\ f.seq <= i
    BY <1>4, <1>6, <1>9
  <2>2. rows # {} => f.seq > 0
    BY <1>4, <1>6, <1>9 DEF Seqs
  <2> QED
    BY <1>9, <2>1, <2>2
<1>12. ASSUME f.seq > 0, NEW i \in Seqs, i >= f.seq, i < b
       PROVE  log[i] \in f.page
  <2>1. rows # {}
    BY <1>9, <1>12 DEF x
  <2>2. i \in rows
    BY <1>4, <1>6, <1>9, <1>12, <2>1
  <2> QED
    BY <1>9, <2>2
<1>13. ASSUME ~f.more, NEW i \in Seqs, i < b
       PROVE  log[i] \in f.page
  BY <1>4, <1>9, <1>13
<1> QED
  BY <1>1, <1>2, <1>9, <1>10, <1>11, <1>12, <1>13

\* The messages of a page, as they are inserted.
FromPage == {Insert(m, SeqOf(m)) : m \in Head(down).page}

\* They are the rows the page stands for.
LEMMA PageInserts ==
  ASSUME TypeOK, Numbers, Rows, Collect("PAGE"), NEW new, new = FromPage
  PROVE  /\ new \in SUBSET Change /\ \A p, q \in new : p.m = q.m => p = q
         /\ \A p \in new : /\ p.op = "insert" /\ p.m \in Head(down).page /\ p.seq > 0
                           /\ p.seq \in Seqs /\ log[p.seq] = p.m /\ Head(down).seq <= p.seq
         /\ \A m \in Head(down).page : \E p \in new : p.m = m
<1>1. Head(down) = down[1] /\ down[1] \in Frame /\ down[1].type = "PAGE" /\ 1 \in DOMAIN down
  BY CollectFacts DEF Shifted
<1>2. PageOK(down[1])
  BY <1>1 DEF Numbers, DownOK
<1>3. PICK S \in SUBSET Msg : S = Head(down).page
  BY <1>1 DEF Frame
<1>4. Seqs \in SUBSET Nat /\ \A i \in Seqs : i > 0
  BY LenProperties DEF TypeOK, Seqs
<1>5. ASSUME NEW m \in S
      PROVE  SeqOf(m) \in Seqs /\ log[SeqOf(m)] = m /\ Head(down).seq <= SeqOf(m)
  <2>1. PICK i \in Seqs : log[i] = m /\ Head(down).seq <= i
    BY <1>1, <1>2, <1>3 DEF PageOK
  <2>2. SeqOf(m) \in Seqs /\ log[SeqOf(m)] = m
    BY <2>1, SeqOfFacts
  <2>3. SeqOf(m) = i
    BY <2>1, <2>2 DEF Rows
  <2> QED
    BY <2>1, <2>2, <2>3
<1>6. ASSUME NEW p \in new
      PROVE  /\ p \in Change /\ p.m \in S /\ p = Insert(p.m, SeqOf(p.m))
             /\ p.op = "insert" /\ p.seq > 0
             /\ p.seq \in Seqs /\ log[p.seq] = p.m /\ Head(down).seq <= p.seq
  <2>1. PICK m \in S : p = Insert(m, SeqOf(m))
    BY <1>3 DEF FromPage
  <2>2. p.m = m /\ p.seq = SeqOf(m) /\ p.op = "insert"
    BY <2>1 DEF Insert
  <2>3. SeqOf(m) \in Nat /\ SeqOf(m) > 0
    BY <1>4, <1>5
  <2>4. p \in Change
    BY <2>1, <2>3 DEF Insert, Change
  <2> QED
    BY <1>5, <2>1, <2>2, <2>3, <2>4
<1>7. ASSUME NEW m \in S
      PROVE  \E p \in new : p.m = m
  <2>1. Insert(m, SeqOf(m)) \in new
    BY <1>3 DEF FromPage
  <2>2. Insert(m, SeqOf(m)).m = m
    BY DEF Insert
  <2> QED
    BY <2>1, <2>2
<1> QED
  BY <1>3, <1>6, <1>7

\* A connection that breaks.
LEMMA LoseFacts ==
  ASSUME TypeOK, Lose
  PROVE  /\ down' \in Seq(Frame) /\ up' = <<>> /\ link' = "none" /\ conns' = conns
         /\ \E k \in 0..Len(down) :
              /\ Front(down, down', k)
              /\ \A i \in (k + 1)..Len(down) : down[i].type = "CHAT" => down[i].m \in missed'
              /\ stuck' <=> \/ stuck \/ Asked # {}
                            \/ \E i \in (k + 1)..Len(down) : down[i].type = "PAGE"
         /\ missed \cup posted \subseteq missed' /\ posted' = {} /\ stuck' \in BOOLEAN
<1>1. down \in Seq(Frame) /\ Len(down) \in Nat
  BY LenProperties DEF TypeOK
<1>2. PICK k \in 0..Len(down) : Drop(k) /\ down' = SubSeq(down, 1, k)
  BY DEF Lose
<1>3. down' \in Seq(Frame) /\ Front(down, down', k)
  BY <1>1, <1>2, FrontFacts
<1> DEFINE cut == {down[i] : i \in (k + 1)..Len(down)}
<1>4. /\ link' = "none" /\ up' = <<>> /\ conns' = conns /\ posted' = {}
      /\ missed' = missed \cup {e.m : e \in {f \in cut : f.type = "CHAT"}} \cup posted
      /\ stuck' = (stuck \/ "ROAM" \in Types(up) \/ "PAGE" \in {e.type : e \in cut})
  BY <1>2 DEF Drop
<1>5. \A i \in (k + 1)..Len(down) : down[i].type = "CHAT" => down[i].m \in missed'
  BY <1>4
<1>6. "ROAM" \in Types(up) <=> Asked # {}
  BY DEF Types, Asked
<1>7. "PAGE" \in {e.type : e \in cut} <=> \E i \in (k + 1)..Len(down) : down[i].type = "PAGE"
  OBVIOUS
<1>8. stuck' <=> stuck \/ Asked # {} \/ \E i \in (k + 1)..Len(down) : down[i].type = "PAGE"
  BY <1>4, <1>6, <1>7
<1>9. stuck' \in BOOLEAN
  BY <1>4
<1> QED
  BY <1>3, <1>4, <1>5, <1>8, <1>9

\* requestHistory: one request at a time.
LEMMA RequestFacts ==
  ASSUME TypeOK, NEW before \in Nat, Request(before)
  PROVE  /\ up' \in Seq(Frame) /\ roamLoading' \in BOOLEAN /\ stuck' \in BOOLEAN
         /\ \/ roamLoading /\ roamLoading' /\ up' = up /\ stuck' = stuck
            \/ /\ ~roamLoading /\ roamLoading' /\ link = "up" /\ stuck' = stuck
               /\ \E e \in Frame : /\ Extended(up, up', e) /\ e.type = "ROAM"
                                   /\ e.seq = before
            \/ ~roamLoading /\ roamLoading' /\ link # "up" /\ up' = up /\ stuck'
<1>1. up \in Seq(Frame) /\ roamLoading \in BOOLEAN /\ stuck \in BOOLEAN
  BY DEF TypeOK
<1>2. CASE roamLoading
  BY <1>1, <1>2 DEF Request
<1>3. CASE ~roamLoading /\ link = "up"
  <2>1. PICK e \in Frame : e = [Ev("ROAM") EXCEPT !.seq = before] /\ e.type = "ROAM"
                           /\ e.seq = before
    BY RoamFrame
  <2>2. /\ up' = Append(up, e) /\ roamLoading' = TRUE /\ stuck' = stuck
    BY <1>3, <2>1 DEF Request
  <2>3. up' \in Seq(Frame) /\ Extended(up, up', e)
    BY <1>1, <2>2, ExtendedFacts
  <2> QED
    BY <1>1, <1>3, <2>1, <2>2, <2>3
<1>4. CASE ~roamLoading /\ link # "up"
  BY <1>1, <1>4 DEF Request
<1> QED
  BY <1>2, <1>3, <1>4

\* Long.MAX_VALUE is a number.
LEMMA LatestFacts == Latest \in Nat /\ Latest > 0 /\ Cardinality(Msg) \in Nat
BY RoamingAssumption, FS_CardinalityType DEF Latest

\* openChat and loadMoreHistory, seen from the requests and the cursor.
LEMMA ScrollFacts ==
  ASSUME TypeOK, openChat \/ loadMoreHistory
  PROVE  \/ /\ up' = up /\ roamLoading' = roamLoading /\ stuck' = stuck
            /\ \/ loadedMinSeq' = loadedMinSeq /\ roamHasMore' = roamHasMore
               \/ /\ roamHasMore' = "yes"
                  /\ \E m \in Msg : mem[m] > 0 /\ loadedMinSeq' = mem[m]
         \/ /\ loadedMinSeq' = loadedMinSeq /\ roamHasMore' = roamHasMore
            /\ \E before \in Nat :
                 Request(before) /\ (before = Latest \/ (before = loadedMinSeq /\ before > 0))
<1>1. CASE loadMoreHistory
  <2>1. loadedMinSeq \in Nat /\ loadedMinSeq > 0
    BY <1>1 DEF TypeOK, loadMoreHistory
  <2> QED
    BY <1>1, <2>1 DEF loadMoreHistory
<1>2. CASE openChat /\ (Shown(mem) = {} \/ (loadedMinSeq = 0 /\ Numbered = {}))
  BY <1>2, LatestFacts DEF openChat
<1>3. CASE /\ openChat /\ ~(Shown(mem) = {} \/ (loadedMinSeq = 0 /\ Numbered = {}))
           /\ loadedMinSeq = 0
  <2>1. \A m \in Numbered : m \in Msg /\ mem[m] \in Nat /\ mem[m] > 0
    BY DEF TypeOK, Number, Numbered, Absent
  <2> DEFINE S == {mem[m] : m \in Numbered}
  <2>2. S \in SUBSET Nat /\ S # {}
    BY <1>3, <2>1
  <2> HIDE DEF S
  <2>3. Min(S) \in S
    BY <2>2, MinFacts
  <2>4. loadedMinSeq' = Min(S) /\ roamHasMore' = "yes"
    BY <1>3 DEF openChat, S
  <2>5. \E m \in Msg : mem[m] > 0 /\ Min(S) = mem[m]
    BY <2>1, <2>3 DEF S
  <2> QED
    BY <1>3, <2>4, <2>5 DEF openChat
<1>4. CASE /\ openChat /\ ~(Shown(mem) = {} \/ (loadedMinSeq = 0 /\ Numbered = {}))
           /\ loadedMinSeq # 0
  BY <1>4 DEF openChat
<1> QED
  BY <1>1, <1>2, <1>3, <1>4

\* The state keeps its type.
LEMMA TypeStep ==
  ASSUME IInv, [Next]_vars
  PROVE  TypeOK'
<1>0. TypeOK /\ Rows /\ Numbers
  BY DEF IInv
<1>t. /\ log \in Seq(Msg) /\ up \in Seq(Frame) /\ down \in Seq(Frame) /\ mem \in [Msg -> Number]
      /\ disk \in [Msg -> Number] /\ snapshot \in [Msg -> Number] /\ saving \in SUBSET Change
      /\ Nothing \in [Msg -> Number] /\ Nat \subseteq Number
  BY <1>0 DEF TypeOK, Nothing, Number
<1>1. CASE PeerSaves
  <2>1. PICK m \in Msg : /\ log' = Append(log, m)
                         /\ posted' \in SUBSET Msg /\ waiting' \in SUBSET Msg
    BY <1>0, <1>1 DEF PeerSaves, TypeOK
  <2>2. log' \in Seq(Msg)
    BY <1>t, <2>1, AppendFacts
  <2> QED
    BY <1>0, <1>1, <2>1, <2>2 DEF PeerSaves, TypeOK, wire, paging, store, history
<1>2. CASE PeerDelivers
  <2>1. PICK m \in posted : /\ posted' = posted \ {m}
                            /\ down' = Append(down, Chat(m)) \/ down' = down
    BY <1>2 DEF PeerDelivers
  <2>2. Chat(m) \in Frame
    BY <1>0, ChatFacts DEF Rows
  <2>3. down' \in Seq(Frame)
    BY <1>t, <2>1, <2>2, ExtendedFacts
  <2> QED
    BY <1>0, <1>2, <2>1, <2>3 DEF PeerDelivers, TypeOK, paging, store
<1>3. CASE Elsewhere
  BY <1>0, <1>3 DEF Elsewhere, TypeOK, wire, paging, store
<1>4. CASE ServeLogin
  <2>1. up' \in Seq(Frame) /\ down' \in Seq(Frame)
    BY <1>0, <1>4, ServeLoginFacts
  <2> QED
    BY <1>0, <1>4, <2>1 DEF ServeLogin, TypeOK, paging, store, history
<1>5. CASE ServeChat
  <2>1. up' \in Seq(Frame) /\ down' \in Seq(Frame) /\ log' \in Seq(Msg)
    BY <1>0, <1>5, ServeChatFacts
  <2> QED
    BY <1>0, <1>5, <2>1 DEF ServeChat, TypeOK, paging, store, history
<1>6. CASE ServeRoam
  <2>1. up' \in Seq(Frame) /\ down' \in Seq(Frame)
    BY <1>0, <1>6, ServeRoamFacts
  <2> QED
    BY <1>0, <1>6, <2>1 DEF ServeRoam, TypeOK, server, paging, store, history
<1>7. CASE ServerNotices
  BY <1>0, <1>7 DEF ServerNotices, TypeOK, wire, paging, store, history
<1>8. CASE Connect
  <2>1. PICK t \in {"LOGIN", "TOKEN"} : up' = <<Ev(t)>>
    BY <1>8 DEF Connect
  <2>2. up' \in Seq(Frame)
    BY <2>1, LoginFrame
  <2> QED
    BY <1>0, <1>8, <2>2 DEF Connect, TypeOK, server, paging, store, history
<1>9. CASE Lose
  <2>1. /\ down' \in Seq(Frame) /\ up' = <<>> /\ link' = "none" /\ conns' = conns
        /\ posted' = {} /\ stuck' \in BOOLEAN
    BY <1>0, <1>9, LoseFacts
  <2>2. up' \in Seq(Frame)
    BY <2>1
  <2> QED
    BY <1>0, <1>9, <2>1, <2>2 DEF Lose, TypeOK, paging, store
<1>10. ASSUME NEW ended \in BOOLEAN, Leave(ended)
       PROVE  TypeOK'
  <2>1. /\ down' \in Seq(Frame) /\ up' = <<>> /\ link' = "none" /\ conns' = conns
        /\ posted' = {} /\ stuck' = FALSE /\ Reset(ended)
    BY <1>0, <1>10, LeaveFacts
  <2>2. up' \in Seq(Frame)
    BY <2>1
  <2>3. /\ hydrating' \in {"none", "opening", "reading", "merging", "done", "late"}
        /\ snapshot' \in [Msg -> Number]
    BY <1>t, <2>1 DEF Reset
  <2> QED
    BY <1>0, <1>t, <2>1, <2>2, <2>3 DEF TypeOK, Reset
<1>11. CASE openChat \/ loadMoreHistory
  <2>1. /\ up' \in Seq(Frame) /\ roamLoading' \in BOOLEAN /\ stuck' \in BOOLEAN
        /\ loadedMinSeq' \in Nat /\ roamHasMore' \in {"null", "yes", "no"}
    <3>1. \A m \in Msg : mem[m] > 0 => mem[m] \in Nat
      BY <1>t DEF Number, Absent
    <3>2. CASE UNCHANGED <<up, roamLoading, stuck>>
      BY <1>0, <1>11, <3>1, <3>2, ScrollFacts DEF TypeOK
    <3>3. CASE /\ UNCHANGED <<loadedMinSeq, roamHasMore>>
               /\ \E before \in Nat : Request(before)
      BY <1>0, <3>3, RequestFacts DEF TypeOK
    <3> QED
      BY <1>0, <1>11, <3>2, <3>3, ScrollFacts
  <2>2. /\ UNCHANGED <<log, waiting, posted, online, conns, link, down, screen, mem, disk,
                       hydrating, snapshot, saving>>
        /\ opened' \in BOOLEAN
    BY <1>0, <1>11 DEF openChat, loadMoreHistory, server, store, TypeOK
  <2> QED
    BY <1>0, <2>1, <2>2 DEF TypeOK
<1>12. CASE SendChat
  <2>1. PICK m \in Mine : append({Insert(m, 0)}) /\ up' = Append(up, [Ev("CHAT") EXCEPT !.m = m])
    BY <1>12 DEF SendChat
  <2>2. Insert(m, 0) \in Change /\ m \in Msg
    BY RoamingAssumption DEF Insert, Change
  <2>3. mem' \in [Msg -> Number] /\ saving' \in SUBSET Change
    BY <1>0, <2>1, <2>2, ListFacts
  <2>4. up' \in Seq(Frame)
    BY <1>t, <2>1, <2>2, SendFrame, ExtendedFacts
  <2> QED
    BY <1>0, <1>12, <2>3, <2>4 DEF SendChat, TypeOK, server, paging, history
<1>13. CASE OnLogin
  BY <1>0, <1>13, CollectFacts DEF OnLogin, TypeOK, server, paging, history
<1>14. CASE OnTokenLogin
  BY <1>0, <1>14, CollectFacts DEF OnTokenLogin, TypeOK, server, paging, store, history
<1>15. CASE OnChat
  <2>1. /\ Head(down) = down[1] /\ down[1] \in Frame /\ down[1].type = "CHAT" /\ 1 \in DOMAIN down
        /\ down' \in Seq(Frame)
    BY <1>0, <1>15, CollectFacts DEF OnChat, Shifted
  <2>2. down[1].m \in Msg /\ down[1].seq \in Nat
    BY <1>0, <2>1 DEF Numbers, DownOK, Frame
  <2>3. Insert(Head(down).m, Head(down).seq) \in Change
    BY <2>1, <2>2 DEF Insert, Change
  <2>4. mem' \in [Msg -> Number] /\ saving' \in SUBSET Change
    BY <1>0, <1>15, <2>3, ListFacts DEF OnChat
  <2> QED
    BY <1>0, <1>15, <2>1, <2>4 DEF OnChat, TypeOK, server, paging, history
<1>16. CASE OnAck
  <2>1. /\ Head(down) = down[1] /\ down[1] \in Frame /\ down[1].type = "ACK" /\ 1 \in DOMAIN down
        /\ down' \in Seq(Frame)
    BY <1>0, <1>16, CollectFacts DEF OnAck, Shifted
  <2>2. down[1].m \in Msg /\ down[1].seq \in Nat
    BY <1>0, <2>1, RoamingAssumption DEF Numbers, DownOK, Frame
  <2>3. mem' \in [Msg -> Number] /\ saving' \in SUBSET Change
    BY <1>t, <1>16, <2>1, <2>2 DEF OnAck, Change
  <2> QED
    BY <1>0, <1>16, <2>1, <2>3 DEF OnAck, TypeOK, server, paging, history
<1>17. CASE OnPage
  <2>1. /\ Collect("PAGE") /\ append(FromPage)
        /\ loadedMinSeq' = MinCursor /\ roamLoading' = FALSE
        /\ roamHasMore' \in {"null", "yes", "no"}
    BY <1>17 DEF OnPage, TakePage, FromPage
  <2>2. Head(down).seq \in Nat /\ down' \in Seq(Frame)
    BY <1>0, <2>1, CollectFacts DEF Frame
  <2>3. MinCursor \in Nat
    BY <1>0, <2>2 DEF MinCursor, TypeOK
  <2>4. mem' \in [Msg -> Number] /\ saving' \in SUBSET Change
    <3>1. PICK new : new = FromPage
      OBVIOUS
    <3>2. new \in SUBSET Change /\ (\A p, q \in new : p.m = q.m => p = q) /\ append(new)
      BY <1>0, <2>1, <3>1, PageInserts
    <3> QED
      BY <1>0, <3>2, ListFacts
  <2> QED
    BY <1>0, <1>17, <2>1, <2>2, <2>3, <2>4 DEF OnPage, TakePage, TypeOK, server, history
<1>18. CASE openStore
  BY <1>0, <1>18 DEF openStore, Hydrate, TypeOK, server, wire, paging, history
<1>19. CASE hydrate
  BY <1>0, <1>19 DEF hydrate, Hydrate, TypeOK, server, wire, paging, history
<1>20. CASE mergeMessages
  <2>1. mem' \in [Msg -> Number] /\ snapshot' \in [Msg -> Number]
    BY <1>t, <1>20 DEF mergeMessages
  <2> QED
    BY <1>0, <1>20, <2>1 DEF mergeMessages, Hydrate, TypeOK, server, wire, paging
<1>21. CASE Save
  <2>1. PICK p \in saving : /\ saving' = saving \ {p}
                            /\ disk' = [disk EXCEPT ![p.m] = p.seq] \/ disk' = disk
    BY <1>21 DEF Save
  <2>2. p \in Change /\ p.seq \in Number
    BY <1>t DEF Change
  <2>3. disk' \in [Msg -> Number] /\ saving' \in SUBSET Change
    BY <1>t, <2>1, <2>2
  <2> QED
    BY <1>0, <1>21, <2>3 DEF Save, TypeOK, server, wire, paging
<1>22. CASE UNCHANGED vars
  BY <1>0, <1>22 DEF vars, TypeOK, server, wire, paging, store, history
<1> QED
  BY <1>1, <1>2, <1>3, <1>4, <1>5, <1>6, <1>7, <1>8, <1>9, <1>10, <1>11, <1>12, <1>13, <1>14,
     <1>15, <1>16, <1>17, <1>18, <1>19, <1>20, <1>21, <1>22
  DEF Next, ServerStep, Event, StoreStep, Logout, ProcessEnds

-----------------------------------------------------------------------------
(* The login, and one page at a time.                                      *)

flow == <<link, up, down, screen, opened, roamLoading, stuck>>

\* Requests and pages after a frame has been taken from a queue or put behind it.
LEMMA AskedFacts ==
  ASSUME TypeOK
  PROVE  /\ Shifted(up, up') =>
              /\ \A i \in Asked' : i \in Nat /\ i + 1 \in Asked
              /\ \A i \in Asked : i = 1 \/ i - 1 \in Asked'
              /\ up[1].type = "ROAM" => 1 \in Asked
         /\ \A e : Extended(up, up', e) =>
              IF e.type = "ROAM" THEN Asked' = Asked \cup {Len(up) + 1} ELSE Asked' = Asked
         /\ Shifted(down, down') =>
              /\ \A i \in Answered' : i \in Nat /\ i + 1 \in Answered
              /\ \A i \in Answered : i = 1 \/ i - 1 \in Answered'
              /\ down[1].type = "PAGE" => 1 \in Answered
         /\ \A e : Extended(down, down', e) =>
              IF e.type = "PAGE" THEN Answered' = Answered \cup {Len(down) + 1}
              ELSE Answered' = Answered
<1>1. ASSUME Shifted(up, up')
      PROVE  /\ \A i \in Asked' : i \in Nat /\ i + 1 \in Asked
             /\ \A i \in Asked : i = 1 \/ i - 1 \in Asked'
             /\ up[1].type = "ROAM" => 1 \in Asked
  BY <1>1 DEF Shifted, Asked
<1>2. ASSUME Shifted(down, down')
      PROVE  /\ \A i \in Answered' : i \in Nat /\ i + 1 \in Answered
             /\ \A i \in Answered : i = 1 \/ i - 1 \in Answered'
             /\ down[1].type = "PAGE" => 1 \in Answered
  BY <1>2 DEF Shifted, Answered
<1>3. ASSUME NEW e, Extended(up, up', e)
      PROVE  IF e.type = "ROAM" THEN Asked' = Asked \cup {Len(up) + 1} ELSE Asked' = Asked
  <2>1. /\ Len(up) + 1 \in DOMAIN up' /\ up'[Len(up) + 1] = e /\ Len(up) + 1 \notin DOMAIN up
        /\ \A i \in DOMAIN up : i \in DOMAIN up' /\ up'[i] = up[i]
        /\ \A i \in DOMAIN up' : i \in DOMAIN up \/ i = Len(up) + 1
    BY <1>3 DEF Extended
  <2> QED
    BY <2>1 DEF Asked
<1>4. ASSUME NEW e, Extended(down, down', e)
      PROVE  IF e.type = "PAGE" THEN Answered' = Answered \cup {Len(down) + 1}
             ELSE Answered' = Answered
  <2>1. /\ Len(down) + 1 \in DOMAIN down' /\ down'[Len(down) + 1] = e
        /\ Len(down) + 1 \notin DOMAIN down
        /\ \A i \in DOMAIN down : i \in DOMAIN down' /\ down'[i] = down[i]
        /\ \A i \in DOMAIN down' : i \in DOMAIN down \/ i = Len(down) + 1
    BY <1>4 DEF Extended
  <2> QED
    BY <2>1 DEF Answered
<1> QED
  BY <1>1, <1>2, <1>3, <1>4

\* Up to its login a device asks for nothing, and it logs in once.
LEMMA LoginStep ==
  ASSUME IInv, [Next]_vars
  PROVE  LoginFirst'
<1>0. TypeOK /\ Rows /\ Numbers /\ LoginFirst
  BY DEF IInv
<1>t. /\ up \in Seq(Frame) /\ Len(up) \in Nat /\ DOMAIN up = 1..Len(up)
      /\ screen \in {"login", "in"} /\ opened \in BOOLEAN /\ roamLoading \in BOOLEAN
  BY <1>0, LenProperties DEF TypeOK
<1>a. screen = "in" => /\ \A i \in DOMAIN up : up[i].type # "LOGIN"
                       /\ \A i \in DOMAIN down : down[i].type # "LOGIN"
  BY <1>0 DEF LoginFirst
<1>b. ASSUME screen' = "in", link' = "none" => up' = <<>>,
             \A i \in DOMAIN up' : up'[i].type # "LOGIN",
             \A i \in DOMAIN down' : down'[i].type # "LOGIN"
      PROVE  LoginFirst'
  BY <1>b DEF LoginFirst
<1>c. ASSUME UNCHANGED flow
      PROVE  LoginFirst'
  BY <1>0, <1>c DEF LoginFirst, flow
<1>d. ASSUME UNCHANGED <<link, up, screen, opened>>, Shifted(down, down'),
             roamLoading' => roamLoading
      PROVE  LoginFirst'
  <2>1. /\ \A i \in DOMAIN down' : i \in Int /\ i + 1 \in DOMAIN down /\ down'[i] = down[i + 1]
    BY <1>d DEF Shifted
  <2>2. ASSUME NEW i \in DOMAIN down', down'[i].type = "LOGIN"
        PROVE  /\ screen' = "login" /\ up' = <<>>
               /\ \A j \in DOMAIN down' : down'[j].type = "LOGIN" => i = j
               /\ \A j \in DOMAIN down' : down'[j].type # "PAGE"
    <3>1. i + 1 \in DOMAIN down /\ down[i + 1].type = "LOGIN"
      BY <2>1, <2>2
    <3>2. /\ screen = "login" /\ up = <<>>
          /\ \A j \in DOMAIN down : down[j].type = "LOGIN" => i + 1 = j
          /\ \A j \in DOMAIN down : down[j].type # "PAGE"
      BY <1>0, <3>1 DEF LoginFirst
    <3>3. ASSUME NEW j \in DOMAIN down', down'[j].type = "LOGIN"
          PROVE  i = j
      <4>1. i + 1 = j + 1
        BY <2>1, <3>2, <3>3
      <4> QED
        BY <2>1, <4>1
    <3> QED
      BY <1>d, <2>1, <3>2, <3>3
  <2>3. ASSUME NEW i \in DOMAIN up', up'[i].type = "LOGIN"
        PROVE  screen' = "login" /\ \A j \in DOMAIN down' : down'[j].type \notin {"LOGIN", "PAGE"}
    BY <1>0, <1>d, <2>1, <2>3 DEF LoginFirst
  <2>4. /\ link' = "none" => up' = <<>>
        /\ opened' => screen' = "in"
        /\ screen' = "login" => Len(up') <= 1 /\ ~roamLoading'
        /\ \A i \in DOMAIN up' : screen' = "login" => up'[i].type = "LOGIN"
    BY <1>0, <1>d DEF LoginFirst
  <2> QED
    BY <2>2, <2>3, <2>4 DEF LoginFirst
<1>1. CASE PeerSaves \/ Elsewhere \/ ServerNotices
  BY <1>1, <1>c DEF PeerSaves, Elsewhere, ServerNotices, wire, paging, history, flow
<1>2. CASE PeerDelivers
  <2>1. /\ UNCHANGED <<link, up, screen, opened, roamLoading, stuck>>
        /\ down' = down \/ \E m \in posted : down' = Append(down, Chat(m))
    BY <1>2 DEF PeerDelivers, paging
  <2>2. CASE down' = down
    BY <1>c, <2>1, <2>2 DEF flow
  <2>3. ASSUME NEW m \in posted, down' = Append(down, Chat(m))
        PROVE  LoginFirst'
    <3>1. Chat(m) \in Frame /\ Chat(m).type = "CHAT"
      BY <1>0, ChatFacts DEF Rows
    <3>2. Extended(down, down', Chat(m))
      BY <1>0, <2>3, <3>1, ExtendedFacts DEF TypeOK
    <3>3. \A i \in DOMAIN down' :
            down'[i].type = "CHAT" \/ (i \in DOMAIN down /\ down'[i] = down[i])
      BY <3>1, <3>2 DEF Extended
    <3> QED
      BY <1>0, <2>1, <3>3 DEF LoginFirst
  <2> QED
    BY <2>1, <2>2, <2>3
<1>4. CASE ServeLogin
  <2>1. /\ link = "up" /\ up[1].type \in {"LOGIN", "TOKEN"}
        /\ up' \in Seq(Frame) /\ Shifted(up, up')
        /\ Len(down) \in Nat /\ DOMAIN down = 1..Len(down)
        /\ \A i \in DOMAIN down : i \in DOMAIN down' /\ down'[i] = down[i]
        /\ Len(down) + 1 \in DOMAIN down' /\ down'[Len(down) + 1] = up[1]
        /\ \A i \in DOMAIN down' :
             i \in DOMAIN down \/ i = Len(down) + 1 \/ down'[i].type = "CHAT"
    BY <1>0, <1>4, ServeLoginFacts
  <2>2. UNCHANGED <<link, screen, opened, roamLoading>>
    BY <1>4 DEF ServeLogin, paging
  <2>3. 1 \in DOMAIN up /\ \A i \in DOMAIN up' : i + 1 \in DOMAIN up /\ up'[i] = up[i + 1]
    BY <2>1 DEF Shifted
  <2>4. \A i \in DOMAIN down : down[i].type # "LOGIN"
    <3>1. up # <<>>
      BY <2>3
    <3> QED
      BY <1>0, <3>1 DEF LoginFirst
  <2>5. CASE screen = "login"
    <3>1. Len(up') = 0
      BY <1>0, <1>t, <2>1, <2>5 DEF Shifted, LoginFirst
    <3>2. up' = <<>>
      BY <2>1, <3>1, EmptySeq
    <3>3. \A j \in DOMAIN down : down[j].type # "PAGE"
      BY <1>0, <2>3, <2>5 DEF LoginFirst
    <3>4. \A j \in DOMAIN down' : down'[j].type # "PAGE"
      BY <2>1, <3>3
    <3>5. \A j \in DOMAIN down' : down'[j].type = "LOGIN" => j = Len(down) + 1
      BY <2>1, <2>4
    <3>6. opened' => screen' = "in"
      BY <1>0, <2>2 DEF LoginFirst
    <3> QED
      BY <1>0, <2>2, <2>5, <3>1, <3>2, <3>4, <3>5, <3>6 DEF LoginFirst
  <2>6. CASE screen = "in"
    <3>1. \A i \in DOMAIN up' : up'[i].type # "LOGIN"
      BY <1>a, <2>3, <2>6
    <3>2. \A i \in DOMAIN down' : down'[i].type # "LOGIN"
      BY <1>a, <2>1, <2>3, <2>6
    <3> QED
      BY <1>b, <2>1, <2>2, <2>6, <3>1, <3>2
  <2> QED
    BY <1>t, <2>5, <2>6
<1>5. CASE ServeChat \/ ServeRoam
  <2>1. /\ link = "up" /\ up[1].type \in {"CHAT", "ROAM"} /\ Shifted(up, up')
        /\ \E e : Extended(down, down', e) /\ e.type \in {"ACK", "PAGE"}
    BY <1>0, <1>5, ServeChatFacts, ServeRoamFacts
  <2>2. UNCHANGED <<link, screen>>
    BY <1>5 DEF ServeChat, ServeRoam
  <2>3. 1 \in DOMAIN up /\ \A i \in DOMAIN up' : i + 1 \in DOMAIN up /\ up'[i] = up[i + 1]
    BY <2>1 DEF Shifted
  <2>4. screen = "in"
    BY <1>0, <1>t, <2>1, <2>3 DEF LoginFirst
  <2>5. \A i \in DOMAIN down' : down'[i].type # "LOGIN"
    BY <1>a, <2>1, <2>4 DEF Extended
  <2> QED
    BY <1>a, <1>b, <2>1, <2>2, <2>3, <2>4, <2>5
<1>8. CASE Connect
  <2>1. /\ down = <<>> /\ link' = "up" /\ UNCHANGED <<down, screen, opened, roamLoading>>
        /\ up' = <<Ev(IF screen = "login" THEN "LOGIN" ELSE "TOKEN")>>
    BY <1>8 DEF Connect, paging
  <2>2. PICK t \in {"LOGIN", "TOKEN"} : up' = <<Ev(t)>> /\ (t = "LOGIN" <=> screen = "login")
    BY <2>1
  <2>3. Len(up') = 1 /\ DOMAIN up' = {1} /\ up'[1].type = t
    BY <2>2, LoginFrame
  <2>4. DOMAIN down' = {}
    BY <2>1
  <2> QED
    BY <1>0, <2>1, <2>2, <2>3, <2>4 DEF LoginFirst
<1>9. CASE Lose
  <2>1. /\ up' = <<>> /\ UNCHANGED <<screen, opened, roamLoading>>
        /\ \A i \in DOMAIN down' : i \in DOMAIN down /\ down'[i] = down[i]
    BY <1>0, <1>9, LoseFacts DEF Lose, paging, Front
  <2>2. Len(up') = 0 /\ DOMAIN up' = {}
    BY <2>1
  <2> QED
    BY <1>0, <2>1, <2>2 DEF LoginFirst
<1>10. ASSUME NEW ended \in BOOLEAN, Leave(ended), screen = "in"
       PROVE  LoginFirst'
  <2>1. /\ up' = <<>> /\ Reset(ended)
        /\ \A i \in DOMAIN down' : i \in DOMAIN down /\ down'[i] = down[i]
    BY <1>0, <1>10, LeaveFacts DEF Front
  <2>2. Len(up') = 0 /\ DOMAIN up' = {}
    BY <2>1
  <2>3. screen' = "login" /\ opened' = FALSE /\ roamLoading' = FALSE
    BY <2>1 DEF Reset
  <2> QED
    BY <1>a, <1>10, <2>1, <2>2, <2>3 DEF LoginFirst
<1>11. CASE openChat \/ loadMoreHistory
  <2>1. screen = "in" /\ UNCHANGED <<link, down, screen>>
    BY <1>0, <1>11 DEF openChat, loadMoreHistory, LoginFirst
  <2>2. \/ up' = up
        \/ link = "up" /\ \E e \in Frame : Extended(up, up', e) /\ e.type = "ROAM"
    BY <1>0, <1>11, ScrollFacts, RequestFacts
  <2>3. /\ link' = "none" => up' = <<>>
        /\ \A i \in DOMAIN up' : up'[i].type # "LOGIN"
    BY <1>0, <1>a, <2>1, <2>2 DEF Extended, LoginFirst
  <2> QED
    BY <1>a, <1>b, <2>1, <2>3
<1>12. CASE SendChat
  <2>1. screen = "in" /\ link = "up" /\ UNCHANGED <<link, down, screen>>
    BY <1>0, <1>12 DEF SendChat, LoginFirst
  <2>2. PICK m \in Mine : up' = Append(up, [Ev("CHAT") EXCEPT !.m = m])
    BY <1>12 DEF SendChat
  <2>3. PICK e \in Frame : e.type = "CHAT" /\ up' = Append(up, e)
    BY <2>2, SendFrame, RoamingAssumption
  <2>4. Extended(up, up', e)
    BY <1>t, <2>3, ExtendedFacts
  <2>5. \A i \in DOMAIN up' : up'[i].type # "LOGIN"
    BY <1>a, <2>1, <2>3, <2>4 DEF Extended
  <2> QED
    BY <1>a, <1>b, <2>1, <2>5
<1>13. CASE OnLogin
  <2>1. /\ down[1].type = "LOGIN" /\ Shifted(down, down') /\ screen' = "in"
        /\ UNCHANGED <<link, up>>
    BY <1>0, <1>13, CollectFacts DEF OnLogin
  <2>2. 1 \in DOMAIN down /\ \A i \in DOMAIN down' : /\ i \in Nat /\ i >= 1
                                                     /\ i + 1 \in DOMAIN down
                                                     /\ down'[i] = down[i + 1]
    BY <2>1 DEF Shifted
  <2>3. up = <<>> /\ \A j \in DOMAIN down : down[j].type = "LOGIN" => 1 = j
    BY <1>0, <2>1, <2>2 DEF LoginFirst
  <2>4. \A i \in DOMAIN down' : down'[i].type # "LOGIN"
    BY <2>2, <2>3
  <2>5. DOMAIN up' = {}
    BY <2>1, <2>3
  <2> QED
    BY <1>b, <2>1, <2>3, <2>4, <2>5
<1>14. CASE OnTokenLogin \/ OnChat \/ OnAck \/ OnPage
  <2>1. UNCHANGED <<link, up, screen, opened>> /\ (roamLoading' => roamLoading)
    BY <1>14 DEF OnTokenLogin, OnChat, OnAck, OnPage, TakePage, paging
  <2>2. \E t : Collect(t)
    BY <1>14 DEF OnTokenLogin, OnChat, OnAck, OnPage, TakePage
  <2>3. Shifted(down, down')
    BY <1>0, <2>2, CollectFacts
  <2> QED
    BY <1>d, <2>1, <2>3
<1>15. CASE StoreStep \/ UNCHANGED vars
  BY <1>15, <1>c DEF StoreStep, openStore, hydrate, mergeMessages, Save, vars, wire, paging,
                     history, flow
<1> QED
  BY <1>1, <1>2, <1>4, <1>5, <1>8, <1>9, <1>10, <1>11, <1>12, <1>13, <1>14, <1>15
  DEF Next, ServerStep, Event, Logout, ProcessEnds

\* One request or answer at a time, and none without roamLoading.
LEMMA OnePageStep ==
  ASSUME IInv, [Next]_vars
  PROVE  OnePage'
<1>0. TypeOK /\ Rows /\ Numbers /\ LoginFirst /\ OnePage
  BY DEF IInv
<1>t. /\ roamLoading \in BOOLEAN /\ stuck \in BOOLEAN /\ screen \in {"login", "in"}
      /\ roamLoading' \in BOOLEAN /\ stuck' \in BOOLEAN
  BY <1>0, TypeStep DEF TypeOK
<1>c. ASSUME UNCHANGED <<screen, roamLoading, stuck>>, Asked' = Asked, Answered' = Answered
      PROVE  OnePage'
  BY <1>0, <1>c DEF OnePage
<1>u. ASSUME UNCHANGED up
      PROVE  Asked' = Asked
  BY <1>u DEF Asked
<1>d. ASSUME UNCHANGED down
      PROVE  Answered' = Answered
  BY <1>d DEF Answered
<1>e. ASSUME up' = <<>>
      PROVE  Asked' = {}
  BY <1>e DEF Asked
<1>1. CASE PeerSaves \/ Elsewhere \/ ServerNotices \/ StoreStep \/ UNCHANGED vars
  <2>1. UNCHANGED <<screen, roamLoading, stuck, up, down>>
    BY <1>1 DEF PeerSaves, Elsewhere, ServerNotices, StoreStep, openStore, hydrate, mergeMessages,
                Save, vars, wire, paging, history
  <2> QED
    BY <1>c, <1>u, <1>d, <2>1
<1>2. CASE PeerDelivers
  <2>1. /\ UNCHANGED <<up, screen, roamLoading, stuck>>
        /\ down' = down \/ \E m \in posted : down' = Append(down, Chat(m))
    BY <1>2 DEF PeerDelivers, paging
  <2>2. ASSUME NEW m \in posted, down' = Append(down, Chat(m))
        PROVE  Answered' = Answered
    <3>1. Chat(m) \in Frame /\ Chat(m).type = "CHAT"
      BY <1>0, ChatFacts DEF Rows
    <3>2. Extended(down, down', Chat(m))
      BY <1>0, <2>2, <3>1, ExtendedFacts DEF TypeOK
    <3> QED
      BY <1>0, <3>1, <3>2, AskedFacts
  <2> QED
    BY <1>c, <1>u, <1>d, <2>1, <2>2
<1>3. ASSUME Shifted(up, up'), up[1].type # "ROAM", Answered' = Answered,
             UNCHANGED <<screen, roamLoading, stuck>>
      PROVE  OnePage'
  <2>1. /\ \A i \in Asked' : i \in Nat /\ i + 1 \in Asked
        /\ \A i \in Asked : i - 1 \in Asked'
    BY <1>0, <1>3, AskedFacts DEF Asked
  <2>2. \A i, j \in Asked' : i = j
    <3>1. \A i, j \in Asked' : i + 1 = j + 1
      BY <1>0, <2>1 DEF OnePage
    <3> QED
      BY <2>1, <3>1
  <2>3. Asked' = {} <=> Asked = {}
    BY <2>1
  <2> QED
    BY <1>0, <1>3, <2>2, <2>3 DEF OnePage
<1>4. CASE ServeLogin
  <2>1. /\ up[1].type \in {"LOGIN", "TOKEN"} /\ Shifted(up, up')
        /\ DOMAIN down = 1..Len(down) /\ Len(down) \in Nat
        /\ \A i \in DOMAIN down : i \in DOMAIN down' /\ down'[i] = down[i]
        /\ down'[Len(down) + 1] = up[1]
        /\ \A i \in DOMAIN down' :
             i \in DOMAIN down \/ i = Len(down) + 1 \/ down'[i].type = "CHAT"
    BY <1>0, <1>4, ServeLoginFacts
  <2>2. Answered' = Answered
    BY <2>1 DEF Answered
  <2>3. UNCHANGED <<screen, roamLoading, stuck>>
    BY <1>4 DEF ServeLogin, paging, history
  <2> QED
    BY <1>3, <2>1, <2>2, <2>3
<1>5. CASE ServeChat
  <2>1. /\ up[1].type = "CHAT" /\ Shifted(up, up')
        /\ \E e \in Frame : Extended(down, down', e) /\ e.type = "ACK"
    BY <1>0, <1>5, ServeChatFacts
  <2>2. Answered' = Answered
    BY <1>0, <2>1, AskedFacts
  <2>3. UNCHANGED <<screen, roamLoading, stuck>>
    BY <1>5 DEF ServeChat, paging, history
  <2> QED
    BY <1>3, <2>1, <2>2, <2>3
<1>6. CASE ServeRoam
  <2>1. /\ up[1].type = "ROAM" /\ Shifted(up, up')
        /\ \E e \in Frame : Extended(down, down', e) /\ e.type = "PAGE"
    BY <1>0, <1>6, ServeRoamFacts
  <2>2. 1 \in Asked /\ Answered' = Answered \cup {Len(down) + 1}
    BY <1>0, <2>1, AskedFacts
  <2>3. Answered = {} /\ \A i \in Asked : i = 1
    BY <1>0, <2>2 DEF OnePage
  <2>4. \A i \in Asked' : i \in DOMAIN up' /\ i >= 1 /\ i \in Nat /\ i + 1 \in Asked
    BY <1>0, <2>1, AskedFacts DEF Asked, Shifted
  <2>5. Asked' = {}
    BY <2>3, <2>4
  <2>6. UNCHANGED <<screen, roamLoading, stuck>>
    BY <1>6 DEF ServeRoam, paging, history
  <2>7. Answered' = {Len(down) + 1}
    BY <2>2, <2>3
  <2> QED
    BY <1>0, <2>2, <2>5, <2>6, <2>7 DEF OnePage
<1>8. CASE Connect
  <2>1. /\ link = "none" /\ UNCHANGED <<down, screen, roamLoading, stuck>>
        /\ up' = <<Ev(IF screen = "login" THEN "LOGIN" ELSE "TOKEN")>>
    BY <1>8 DEF Connect, paging, history
  <2>2. PICK t \in {"LOGIN", "TOKEN"} : up' = <<Ev(t)>>
    BY <2>1
  <2>3. DOMAIN up' = {1} /\ up'[1].type = t
    BY <2>2, LoginFrame
  <2>4. Asked = {}
    BY <1>0, <2>1 DEF LoginFirst, Asked
  <2>5. Asked' = {}
    BY <2>3 DEF Asked
  <2> QED
    BY <1>c, <1>d, <2>1, <2>4, <2>5
<1>9. CASE Lose
  <2>1. PICK k \in 0..Len(down) :
          /\ up' = <<>> /\ Front(down, down', k)
          /\ stuck' <=> \/ stuck \/ Asked # {}
                        \/ \E i \in (k + 1)..Len(down) : down[i].type = "PAGE"
    BY <1>0, <1>9, LoseFacts
  <2>2. UNCHANGED <<screen, roamLoading>>
    BY <1>9 DEF Lose, paging
  <2>3. Answered' \subseteq Answered /\ Asked' = {}
    BY <1>e, <2>1 DEF Front, Answered
  <2>4. ~stuck' => Asked = {} /\ Answered' = Answered
    BY <2>1, <2>3 DEF Front, Answered
  <2> QED
    BY <1>0, <1>t, <2>1, <2>2, <2>3, <2>4 DEF OnePage
<1>10. ASSUME NEW ended \in BOOLEAN, Leave(ended)
       PROVE  OnePage'
  <2>1. /\ up' = <<>> /\ Reset(ended)
        /\ \A i \in DOMAIN down' : i \in DOMAIN down /\ down'[i] = down[i]
    BY <1>0, <1>10, LeaveFacts DEF Front
  <2>2. Answered' \subseteq Answered /\ Asked' = {}
    BY <1>e, <2>1 DEF Answered
  <2>3. screen' = "login"
    BY <2>1 DEF Reset
  <2> QED
    BY <1>0, <2>2, <2>3 DEF OnePage
<1>11. CASE openChat \/ loadMoreHistory
  <2>1. screen = "in" /\ UNCHANGED <<down, screen>>
    BY <1>0, <1>11 DEF openChat, loadMoreHistory, LoginFirst
  <2>2. CASE UNCHANGED <<up, roamLoading, stuck>>
    BY <1>c, <1>d, <1>u, <2>1, <2>2
  <2>3. CASE ~roamLoading /\ roamLoading' /\ link # "up" /\ up' = up /\ stuck'
    BY <1>0, <1>d, <1>u, <2>1, <2>3 DEF OnePage
  <2>4. CASE /\ ~roamLoading /\ roamLoading' /\ link = "up" /\ stuck' = stuck
             /\ \E e \in Frame : Extended(up, up', e) /\ e.type = "ROAM"
    <3>1. Asked' = Asked \cup {Len(up) + 1}
      BY <1>0, <2>4, AskedFacts
    <3>2. Asked = {} /\ Answered' = {}
      BY <1>0, <1>d, <2>1, <2>4 DEF OnePage
    <3>3. Asked' = {Len(up) + 1}
      BY <3>1, <3>2
    <3> QED
      BY <2>1, <2>4, <3>2, <3>3 DEF OnePage
  <2> QED
    BY <1>0, <1>11, <1>t, <2>2, <2>3, <2>4, ScrollFacts, RequestFacts
<1>12. CASE SendChat
  <2>1. UNCHANGED <<down, screen, roamLoading, stuck>>
    BY <1>12 DEF SendChat, paging, history
  <2>2. PICK m \in Mine : up' = Append(up, [Ev("CHAT") EXCEPT !.m = m])
    BY <1>12 DEF SendChat
  <2>3. PICK e \in Frame : e.type = "CHAT" /\ up' = Append(up, e)
    BY <2>2, SendFrame, RoamingAssumption
  <2>4. Extended(up, up', e)
    BY <1>0, <2>3, ExtendedFacts DEF TypeOK
  <2>5. Asked' = Asked
    BY <1>0, <2>3, <2>4, AskedFacts
  <2> QED
    BY <1>c, <1>d, <2>1, <2>5
<1>13. CASE OnLogin
  <2>1. /\ down[1].type = "LOGIN" /\ Shifted(down, down') /\ screen' = "in" /\ 1 \in DOMAIN down
        /\ UNCHANGED <<up, roamLoading>>
    BY <1>0, <1>13, CollectFacts DEF OnLogin, Shifted, paging
  <2>2. up = <<>> /\ screen = "login" /\ \A j \in DOMAIN down : down[j].type # "PAGE"
    BY <1>0, <2>1 DEF LoginFirst
  <2>3. Answered' = {}
    BY <2>1, <2>2 DEF Shifted, Answered
  <2>4. Asked' = {} /\ ~roamLoading'
    BY <1>0, <1>e, <2>1, <2>2 DEF LoginFirst
  <2> QED
    BY <2>3, <2>4 DEF OnePage
<1>14. ASSUME Shifted(down, down'), down[1].type # "PAGE",
              UNCHANGED <<up, screen, roamLoading, stuck>>
       PROVE  OnePage'
  <2>1. /\ \A i \in Answered' : i \in Nat /\ i + 1 \in Answered
        /\ \A i \in Answered : i - 1 \in Answered'
    BY <1>0, <1>14, AskedFacts DEF Answered
  <2>2. \A i, j \in Answered' : i = j
    <3>1. \A i, j \in Answered' : i + 1 = j + 1
      BY <1>0, <2>1 DEF OnePage
    <3> QED
      BY <2>1, <3>1
  <2>3. (Answered' = {} <=> Answered = {}) /\ Asked' = Asked
    BY <1>u, <1>14, <2>1
  <2> QED
    BY <1>0, <1>14, <2>2, <2>3 DEF OnePage
<1>15. CASE OnTokenLogin \/ OnChat \/ OnAck
  <2>1. UNCHANGED <<up, screen, roamLoading, stuck>>
    BY <1>15 DEF OnTokenLogin, OnChat, OnAck, paging, history
  <2>2. \E t : Collect(t) /\ t # "PAGE"
    BY <1>15 DEF OnTokenLogin, OnChat, OnAck
  <2>3. Shifted(down, down') /\ down[1].type # "PAGE"
    BY <1>0, <2>2, CollectFacts
  <2> QED
    BY <1>14, <2>1, <2>3
<1>16. CASE OnPage
  <2>1. UNCHANGED <<up, screen, stuck>> /\ roamLoading' = FALSE /\ Collect("PAGE")
    BY <1>16 DEF OnPage, TakePage, history
  <2>2. Shifted(down, down') /\ down[1].type = "PAGE"
    BY <1>0, <2>1, CollectFacts
  <2>3. /\ 1 \in Answered
        /\ \A i \in Answered' : i \in DOMAIN down' /\ i >= 1 /\ i \in Nat /\ i + 1 \in Answered
    BY <1>0, <2>2, AskedFacts DEF Answered, Shifted
  <2>4. Answered' = {}
    <3>1. \A i \in Answered' : i + 1 = 1
      BY <1>0, <2>3 DEF OnePage
    <3> QED
      BY <2>3, <3>1
  <2>5. Asked' = {}
    BY <1>0, <1>u, <2>1, <2>3 DEF OnePage
  <2> QED
    BY <2>1, <2>4, <2>5 DEF OnePage
<1> QED
  BY <1>1, <1>2, <1>4, <1>5, <1>6, <1>8, <1>9, <1>10, <1>11, <1>12, <1>13, <1>15, <1>16
  DEF Next, ServerStep, Event, Logout, ProcessEnds

\* OnePage counts.
LEMMA OnePageCounts ==
  ASSUME OnePage, stuck \in BOOLEAN, roamLoading \in BOOLEAN
  PROVE  OnePageAtATime
<1>1. \A T : (\A i, j \in T : i = j) => T = {} \/ \E x : T = {x}
  <2> SUFFICES ASSUME NEW T, \A i, j \in T : i = j, T # {} PROVE \E x : T = {x}
    OBVIOUS
  <2>1. PICK x : x \in T
    OBVIOUS
  <2>2. T = {x}
    BY <2>1
  <2> QED
    BY <2>2
<1>2. Cardinality({}) = 0 /\ \A x : Cardinality({x}) = 1
  BY FS_EmptySet, FS_Singleton
<1>3. Asked = {} \/ \E x : Asked = {x}
  BY <1>1 DEF OnePage
<1>4. Answered = {} \/ \E x : Answered = {x}
  BY <1>1 DEF OnePage
<1>5. /\ Asked = {} => Cardinality(Asked) = 0
      /\ Asked # {} => Cardinality(Asked) = 1
      /\ Answered = {} => Cardinality(Answered) = 0
      /\ Answered # {} => Cardinality(Answered) = 1
  BY <1>2, <1>3, <1>4
<1>6. Outstanding = Cardinality(Asked) + Cardinality(Answered)
  BY DEF Outstanding, Asked, Answered
<1>7. Outstanding <= 1 /\ (Outstanding = 1 <=> Asked # {} \/ Answered # {})
  BY <1>5, <1>6 DEF OnePage
<1> QED
  BY <1>7 DEF OnePage, OnePageAtATime

-----------------------------------------------------------------------------
(* The list only grows, and what is Known stays Known.                     *)

\* An insert, field by field.
LEMMA InsertFacts ==
  ASSUME NEW m \in Msg, NEW s \in Nat
  PROVE  \E p \in Change : p = Insert(m, s) /\ p.m = m /\ p.seq = s /\ p.op = "insert"
<1>1. /\ Insert(m, s) \in Change /\ Insert(m, s).m = m /\ Insert(m, s).seq = s
      /\ Insert(m, s).op = "insert"
  BY DEF Insert, Change
<1> QED
  BY <1>1

\* What a send, a message or a page puts into the list.
LEMMA ListStep ==
  ASSUME TypeOK, Rows, Numbers, SendChat \/ OnChat \/ OnPage
  PROVE  \E new \in SUBSET Change :
           /\ (\A p, q \in new : p.m = q.m => p = q) /\ append(new)
           /\ UNCHANGED <<log, waiting, posted, disk, hydrating, snapshot, screen, raced>>
           /\ \A p \in new :
                /\ p.op = "insert"
                /\ \/ p.seq = 0 /\ opened /\ mem[p.m] = Absent
                   \/ p.seq > 0 /\ p.seq \in Seqs /\ log[p.seq] = p.m
           /\ OnChat => \E p \in new : p.m = down[1].m /\ p.seq = down[1].seq
           /\ OnPage => /\ \A m \in down[1].page : \E p \in new : p.m = m
                        /\ \A p \in new : p.m \in down[1].page /\ p.seq > 0 /\ down[1].seq <= p.seq
           /\ SendChat => \A p \in new : p.seq = 0
           /\ OnChat => \A p \in new : p.m = down[1].m /\ p.seq = down[1].seq /\ p.m \notin Mine
<1>x. Seqs \in SUBSET Nat /\ \A i \in Seqs : i > 0
  BY LenProperties DEF TypeOK, Seqs
<1>y. /\ SendChat => ~OnChat /\ ~OnPage
      /\ OnChat => ~OnPage
  <2>1. OnChat => Collect("CHAT")
    BY DEF OnChat
  <2>2. OnPage => Collect("PAGE")
    BY DEF OnPage, TakePage
  <2>3. Collect("CHAT") => ~Collect("PAGE")
    BY DEF Collect
  <2>4. SendChat => UNCHANGED down
    BY DEF SendChat
  <2>5. ASSUME NEW t, Collect(t)
        PROVE  down' # down
    <3>1. Len(down') = Len(down) - 1 /\ Len(down) \in Nat
      BY <2>5, CollectFacts DEF Shifted
    <3> QED
      BY <3>1
  <2> QED
    BY <2>1, <2>2, <2>3, <2>4, <2>5
<1>1. CASE SendChat
  <2>1. PICK m \in Mine : /\ append({Insert(m, 0)}) /\ opened /\ mem[m] = Absent
                          /\ UNCHANGED <<log, waiting, posted, disk, hydrating, snapshot, screen, raced>>
    BY <1>1 DEF SendChat, server, history
  <2>2. PICK p \in Change : p = Insert(m, 0) /\ p.m = m /\ p.seq = 0 /\ p.op = "insert"
    BY RoamingAssumption, InsertFacts
  <2>3. {p} \in SUBSET Change /\ append({p})
    BY <2>1, <2>2
  <2>4. \A q \in {p} : q = p
    OBVIOUS
  <2>5. /\ \A q, r \in {p} : q.m = r.m => q = r
        /\ \A q \in {p} : q.op = "insert" /\ q.seq = 0 /\ mem[q.m] = Absent
    BY <2>1, <2>2, <2>4
  <2>6. WITNESS {p} \in SUBSET Change
  <2> QED
    BY <1>1, <1>y, <2>1, <2>3, <2>5
<1>2. CASE OnChat
  <2>1. /\ Head(down) = down[1] /\ down[1] \in Frame /\ down[1].type = "CHAT" /\ 1 \in DOMAIN down
    BY <1>2, CollectFacts DEF OnChat, Shifted
  <2>2. PICK m \in Msg : m = down[1].m
    BY <2>1 DEF Numbers, DownOK
  <2>3. PICK s \in Seqs : s = down[1].seq /\ log[s] = m
    BY <2>1, <2>2 DEF Numbers, DownOK, Right
  <2>4. m \notin Mine
    BY <2>1, <2>2 DEF Numbers, DownOK
  <2>5. /\ append({Insert(m, s)})
        /\ UNCHANGED <<log, waiting, posted, disk, hydrating, snapshot, screen, raced>>
    BY <1>2, <2>1, <2>2, <2>3 DEF OnChat, server, history
  <2>6. PICK p \in Change : p = Insert(m, s) /\ p.m = m /\ p.seq = s /\ p.op = "insert"
    BY <1>x, InsertFacts
  <2>7. /\ \A q, r \in {p} : q.m = r.m => q = r
        /\ \A q \in {p} : /\ q.op = "insert" /\ q.seq > 0 /\ q.seq \in Seqs /\ log[q.seq] = q.m
                          /\ q.m = down[1].m /\ q.seq = down[1].seq /\ q.m \notin Mine
        /\ append({p})
    BY <1>x, <2>2, <2>3, <2>4, <2>5, <2>6
  <2>8. \E q \in {p} : q.m = down[1].m /\ q.seq = down[1].seq
    BY <2>2, <2>3, <2>6
  <2>9. WITNESS {p} \in SUBSET Change
  <2> QED
    BY <1>2, <1>y, <2>5, <2>7, <2>8
<1>3. CASE OnPage
  <2>1. /\ Collect("PAGE") /\ append(FromPage)
        /\ UNCHANGED <<log, waiting, posted, disk, hydrating, snapshot, screen, raced>>
    BY <1>3 DEF OnPage, TakePage, server, history, FromPage
  <2>2. Head(down) = down[1]
    BY <2>1, CollectFacts
  <2>3. PICK new \in SUBSET Change :
          /\ new = FromPage
          /\ \A p, q \in new : p.m = q.m => p = q
          /\ \A p \in new : /\ p.op = "insert" /\ p.m \in Head(down).page /\ p.seq > 0
                            /\ p.seq \in Seqs /\ log[p.seq] = p.m /\ Head(down).seq <= p.seq
          /\ \A m \in Head(down).page : \E p \in new : p.m = m
    <3>0. Collect("PAGE")
      BY <2>1
    <3>1. PICK z : z = FromPage
      OBVIOUS
    <3>2. z \in SUBSET Change /\ \A p, q \in z : p.m = q.m => p = q
      BY <3>0, <3>1, PageInserts
    <3>3. \A p \in z : p.op = "insert" /\ p.m \in Head(down).page /\ p.seq > 0
      BY <3>0, <3>1, PageInserts
    <3>4. \A p \in z : p.seq \in Seqs /\ log[p.seq] = p.m /\ Head(down).seq <= p.seq
      BY <3>0, <3>1, PageInserts
    <3>5. \A m \in Head(down).page : \E p \in z : p.m = m
      BY <3>0, <3>1, PageInserts
    <3> QED
      BY <3>1, <3>2, <3>3, <3>4, <3>5
  <2>4. /\ \A p \in new : p.m \in down[1].page /\ down[1].seq <= p.seq
        /\ \A m \in down[1].page : \E p \in new : p.m = m
    BY <2>2, <2>3
  <2>5. append(new)
    BY <2>1, <2>3
  <2>6. WITNESS new \in SUBSET Change
  <2> QED
    BY <1>3, <1>y, <2>1, <2>3, <2>4, <2>5
<1> QED
  BY <1>1, <1>2, <1>3

\* ChatSendResult, seen from the list.
LEMMA AckStep ==
  ASSUME TypeOK, Numbers, OnAck
  PROVE  /\ Shifted(down, down') /\ 1 \in DOMAIN down /\ down[1].type = "ACK"
         /\ down[1].m \in Mine /\ down[1].m \in Msg
         /\ down[1].seq \in Nat /\ down[1].seq > 0
         /\ Right(down[1].m, down[1].seq)
         /\ \A m \in Msg : mem'[m] = IF m = down[1].m /\ mem[m] # Absent THEN down[1].seq ELSE mem[m]
         /\ saving' = IF StoreOpen /\ mem[down[1].m] # Absent
                      THEN saving \cup {[op |-> "update", m |-> down[1].m, seq |-> down[1].seq]}
                      ELSE saving
         /\ UNCHANGED <<log, waiting, posted, up, screen, disk, hydrating, snapshot, missed, raced>>
<1>1. /\ Head(down) = down[1] /\ down[1] \in Frame /\ down[1].type = "ACK" /\ 1 \in DOMAIN down
      /\ Shifted(down, down')
  BY CollectFacts DEF OnAck, Shifted
<1>2. /\ down[1].m \in Mine /\ down[1].m \in Msg /\ Right(down[1].m, down[1].seq)
  BY <1>1, RoamingAssumption DEF Numbers, DownOK
<1>3. down[1].seq \in Nat /\ down[1].seq > 0
  BY <1>2, LenProperties DEF Right, Seqs, TypeOK
<1>4. \A m \in Msg : mem'[m] = IF m = down[1].m /\ mem[m] # Absent THEN down[1].seq ELSE mem[m]
  BY <1>1, <1>2 DEF OnAck, TypeOK
<1> QED
  BY <1>1, <1>2, <1>3, <1>4 DEF OnAck, server, history

\* Nothing but resetToLogin takes a message out of the list.
LEMMA ShownKept ==
  ASSUME IInv, [Next]_vars, ~(\E ended \in BOOLEAN : screen = "in" /\ Leave(ended))
  PROVE  \A m \in Msg : mem[m] # Absent => mem'[m] # Absent
<1>0. TypeOK /\ Rows /\ Numbers
  BY DEF IInv
<1>1. CASE UNCHANGED mem
  BY <1>1
<1>2. CASE SendChat \/ OnChat \/ OnPage
  BY <1>0, <1>2, ListStep, ListFacts
<1>3. CASE OnAck
  BY <1>0, <1>3, AckStep DEF Absent
<1>4. CASE mergeMessages
  BY <1>4 DEF mergeMessages
<1> QED
  BY <1>1, <1>2, <1>3, <1>4
  DEF Next, ServerStep, Event, StoreStep, Logout, ProcessEnds, PeerSaves, PeerDelivers, Elsewhere,
      ServeLogin, ServeChat, ServeRoam, ServerNotices, Connect, Lose, openChat, loadMoreHistory,
      OnLogin, OnTokenLogin, openStore, hydrate, Save, vars

\* Save, one insert or update.
LEMMA SaveFacts ==
  ASSUME TypeOK, Save
  PROVE  \E p \in saving :
           /\ p \in Change /\ p.m \in Msg /\ p.seq \in Nat /\ p.op \in {"insert", "update"}
           /\ saving' = saving \ {p}
           /\ \A m \in Msg :
                disk'[m] = IF m = p.m /\ ((p.op = "insert") = (disk[m] = Absent))
                           THEN p.seq ELSE disk[m]
           /\ raced \subseteq raced'
           /\ p.op = "update" /\ disk[p.m] = Absent => p.m \in raced'
           /\ UNCHANGED <<log, waiting, posted, up, down, mem, hydrating, snapshot, screen, missed>>
<1>1. PICK p \in saving :
        /\ saving' = saving \ {p}
        /\ disk' = IF (p.op = "insert") = (disk[p.m] = Absent)
                   THEN [disk EXCEPT ![p.m] = p.seq] ELSE disk
        /\ raced' = IF p.op = "update" /\ disk[p.m] = Absent THEN raced \cup {p.m} ELSE raced
        /\ UNCHANGED <<server, wire, screen, opened, mem, paging, hydrating, snapshot, missed, stuck>>
  BY DEF Save
<1>2. p \in Change /\ p.m \in Msg /\ p.seq \in Nat /\ p.op \in {"insert", "update"}
  BY DEF TypeOK, Change
<1>3. \A m \in Msg : disk'[m] = IF m = p.m /\ ((p.op = "insert") = (disk[m] = Absent))
                                THEN p.seq ELSE disk[m]
  BY <1>1, <1>2 DEF TypeOK
<1> QED
  BY <1>1, <1>2, <1>3 DEF server, wire

\* What the database will hold is in the list, or about to be merged into it.
LEMMA HeldStep ==
  ASSUME IInv, [Next]_vars
  PROVE  Held'
<1>0. TypeOK /\ Rows /\ Numbers /\ Held
  BY DEF IInv
<1>1. CASE UNCHANGED <<mem, disk, hydrating, snapshot, saving>>
  BY <1>0, <1>1 DEF Held
<1>2. ASSUME NEW ended \in BOOLEAN, Leave(ended)
      PROVE  Held'
  <2>1. Reset(ended)
    BY <1>0, <1>2, LeaveFacts
  <2>2. saving' = {} /\ hydrating' \notin {"merging", "done"}
    BY <2>1 DEF Reset
  <2> QED
    BY <2>2 DEF Held
<1>3. CASE SendChat \/ OnChat \/ OnPage
  <2>1. PICK new \in SUBSET Change :
          /\ (\A p, q \in new : p.m = q.m => p = q) /\ append(new)
          /\ UNCHANGED <<disk, hydrating, snapshot>>
    BY <1>0, <1>3, ListStep
  <2>2. /\ \A m \in Msg : mem[m] # Absent => mem'[m] # Absent
        /\ \A p \in new : mem'[p.m] # Absent
        /\ \A p \in saving' : p \in saving \/ p \in new
    BY <1>0, <2>1, ListFacts
  <2>3. \A p \in saving : p.m \in Msg
    BY <1>0 DEF TypeOK, Change
  <2> QED
    BY <1>0, <2>1, <2>2, <2>3 DEF Held
<1>4. CASE OnAck
  <2>1. /\ \A m \in Msg : mem[m] # Absent => mem'[m] # Absent
        /\ UNCHANGED <<disk, hydrating, snapshot>>
        /\ \A p \in saving' : p \in saving \/ (p.m = down[1].m /\ mem[p.m] # Absent)
    BY <1>0, <1>4, AckStep DEF Absent
  <2>2. \A p \in saving' : p.m \in Msg
    BY <1>0, TypeStep DEF TypeOK, Change
  <2> QED
    BY <1>0, <2>1, <2>2 DEF Held
<1>5. CASE OnLogin \/ openStore
  BY <1>0, <1>5 DEF OnLogin, openStore, Hydrate, Held
<1>6. CASE hydrate
  BY <1>0, <1>6 DEF hydrate, Hydrate, Held
<1>7. CASE mergeMessages
  <2>1. /\ UNCHANGED <<disk, saving>>
        /\ \A m \in Msg : mem'[m] = IF snapshot[m] # Absent THEN snapshot[m] ELSE mem[m]
        /\ \/ hydrating = "merging" /\ hydrating' = "done"
           \/ hydrating' = "none"
    BY <1>7 DEF mergeMessages, Hydrate
  <2>2. \A p \in saving : p.m \in Msg
    BY <1>0 DEF TypeOK, Change
  <2> QED
    BY <1>0, <2>1, <2>2 DEF Held
<1>8. CASE Save
  <2>1. PICK p \in saving :
          /\ p.m \in Msg /\ saving' = saving \ {p}
          /\ \A m \in Msg : m # p.m => disk'[m] = disk[m]
          /\ UNCHANGED <<mem, hydrating, snapshot>>
    BY <1>0, <1>8, SaveFacts
  <2> QED
    BY <1>0, <2>1 DEF Held
<1> QED
  BY <1>1, <1>2, <1>3, <1>4, <1>5, <1>6, <1>7, <1>8
  DEF Next, ServerStep, Event, StoreStep, Logout, ProcessEnds, PeerSaves, PeerDelivers, Elsewhere,
      ServeLogin, ServeChat, ServeRoam, ServerNotices, Connect, Lose, openChat, loadMoreHistory,
      OnTokenLogin, vars, store

\* A message that is on its way to the list.
Coming(m) == \E i \in DOMAIN down : down[i].type = "CHAT" /\ down[i].m = m

\* An event that is taken and is no message leaves the others as they are.
LEMMA ComingShifted ==
  ASSUME NEW m, Coming(m), Shifted(down, down'), down[1].type # "CHAT" \/ down[1].m # m
  PROVE  Coming(m)'
BY DEF Coming, Shifted

\* What is Known stays Known.
LEMMA KnownKept ==
  ASSUME IInv, [Next]_vars, NEW m \in Msg, Known(m)
  PROVE  Known(m)'
<1>0. TypeOK /\ Rows /\ Numbers /\ Held
  BY DEF IInv
<1>k. Known(m)' <=> \/ mem'[m] # Absent
                    \/ m \in waiting' \/ m \in posted' \/ m \in missed'
                    \/ Coming(m)'
                    \/ (disk'[m] # Absent /\ hydrating' # "done")
  BY DEF Known, Coming
<1>1. ASSUME NEW ended \in BOOLEAN, screen = "in", Leave(ended)
      PROVE  Known(m)'
  <2>1. PICK k \in 0..Len(down) :
          /\ Front(down, down', k)
          /\ \A i \in (k + 1)..Len(down) : down[i].type = "CHAT" => down[i].m \in missed'
    BY <1>0, <1>1, LeaveFacts
  <2>2. missed \cup posted \cup Unsaved \subseteq missed' /\ Reset(ended)
    BY <1>0, <1>1, LeaveFacts
  <2>3. UNCHANGED <<waiting, disk>> /\ hydrating' # "done"
    BY <2>2 DEF Reset
  <2>4. Coming(m) => Coming(m)' \/ m \in missed'
    BY <2>1 DEF Coming, Front
  <2>5. mem[m] # Absent => m \in missed' \/ disk'[m] # Absent
    BY <2>2, <2>3 DEF Unsaved, Shown
  <2> QED
    BY <1>k, <2>2, <2>3, <2>4, <2>5 DEF Known, Coming
<1>3. ASSUME disk'[m] # Absent \/ disk[m] = Absent, hydrating' = "done" => hydrating = "done",
             mem[m] # Absent => mem'[m] # Absent,
             m \in waiting => m \in waiting' \/ Coming(m)' \/ m \in missed',
             m \in posted => m \in posted' \/ Coming(m)' \/ m \in missed',
             m \in missed => m \in missed',
             Coming(m) => Coming(m)' \/ mem'[m] # Absent \/ m \in missed'
      PROVE  Known(m)'
  BY <1>3, <1>k DEF Known, Coming
<1>c. ASSUME UNCHANGED down
      PROVE  Coming(m) => Coming(m)'
  BY <1>c DEF Coming
<1>5. CASE PeerSaves
  <2>1. UNCHANGED <<mem, disk, hydrating, missed, down>>
    BY <1>5 DEF PeerSaves, wire, store, history
  <2>2. waiting \subseteq waiting' /\ posted \subseteq posted'
    BY <1>5 DEF PeerSaves
  <2> QED
    BY <1>3, <1>c, <2>1, <2>2
<1>6. CASE PeerDelivers
  <2>1. UNCHANGED <<mem, disk, hydrating, waiting>>
    BY <1>6 DEF PeerDelivers, store
  <2>2. PICK n \in posted : /\ posted' = posted \ {n}
                            /\ \/ down' = Append(down, Chat(n)) /\ missed' = missed
                               \/ down' = down /\ missed' = missed \cup {n}
    BY <1>6 DEF PeerDelivers
  <2>3. CASE down' = Append(down, Chat(n)) /\ missed' = missed
    <3>1. Chat(n) \in Frame /\ Chat(n).type = "CHAT" /\ Chat(n).m = n
      BY <1>0, ChatFacts DEF Rows
    <3>2. Extended(down, down', Chat(n))
      BY <1>0, <2>3, <3>1, ExtendedFacts DEF TypeOK
    <3>3. Coming(m) => Coming(m)'
      BY <3>2 DEF Extended, Coming
    <3>4. m = n => Coming(m)'
      BY <3>1, <3>2 DEF Extended, Coming
    <3> QED
      BY <1>3, <2>1, <2>2, <2>3, <3>3, <3>4
  <2>4. CASE down' = down /\ missed' = missed \cup {n}
    BY <1>3, <1>c, <2>1, <2>2, <2>4
  <2> QED
    BY <2>2, <2>3, <2>4
<1>7. CASE Elsewhere
  <2>1. UNCHANGED <<mem, disk, hydrating, posted, down>> /\ missed' = missed \cup waiting
    BY <1>7 DEF Elsewhere, wire, store
  <2> QED
    BY <1>3, <1>c, <2>1
<1>8. CASE ServeLogin
  <2>1. UNCHANGED <<mem, disk, hydrating, posted, missed>>
    BY <1>8 DEF ServeLogin, store, history
  <2>2. /\ m \in waiting => Coming(m)'
        /\ Coming(m) => Coming(m)'
    BY <1>0, <1>8, ServeLoginFacts DEF Coming
  <2> QED
    BY <1>3, <2>1, <2>2
<1>9. CASE ServeChat \/ ServeRoam
  <2>1. UNCHANGED <<mem, disk, hydrating, waiting, posted, missed>>
    BY <1>9 DEF ServeChat, ServeRoam, server, store, history
  <2>2. \E e : Extended(down, down', e)
    BY <1>0, <1>9, ServeChatFacts, ServeRoamFacts
  <2>3. Coming(m) => Coming(m)'
    BY <2>2 DEF Coming, Extended
  <2> QED
    BY <1>3, <2>1, <2>3
<1>10. CASE Lose
  <2>1. UNCHANGED <<mem, disk, hydrating, waiting>>
    BY <1>10 DEF Lose, store
  <2>2. PICK k \in 0..Len(down) :
          /\ Front(down, down', k)
          /\ \A i \in (k + 1)..Len(down) : down[i].type = "CHAT" => down[i].m \in missed'
    BY <1>0, <1>10, LoseFacts
  <2>3. missed \cup posted \subseteq missed'
    BY <1>0, <1>10, LoseFacts
  <2>4. Coming(m) => Coming(m)' \/ m \in missed'
    BY <2>2 DEF Coming, Front
  <2> QED
    BY <1>3, <2>1, <2>3, <2>4
<1>11. CASE SendChat
  <2>1. UNCHANGED <<disk, hydrating, waiting, posted, missed, down>>
    BY <1>11 DEF SendChat, server, history
  <2>2. mem[m] # Absent => mem'[m] # Absent
    BY <1>0, <1>11, ListStep, ListFacts
  <2> QED
    BY <1>3, <1>c, <2>1, <2>2
<1>12. CASE OnLogin \/ OnTokenLogin \/ OnAck \/ OnPage
  <2>1. UNCHANGED <<disk, waiting, posted, missed>> /\ (hydrating' = "done" => hydrating = "done")
    BY <1>12 DEF OnLogin, OnTokenLogin, OnAck, OnPage, TakePage, server, store, history
  <2>2. \E t : Collect(t) /\ t # "CHAT"
    BY <1>12 DEF OnLogin, OnTokenLogin, OnAck, OnPage, TakePage
  <2>3. Shifted(down, down') /\ down[1].type # "CHAT"
    BY <1>0, <2>2, CollectFacts
  <2>4. Coming(m) => Coming(m)'
    BY <2>3, ComingShifted
  <2>5. mem[m] # Absent => mem'[m] # Absent
    <3>1. CASE OnLogin \/ OnTokenLogin
      BY <3>1 DEF OnLogin, OnTokenLogin
    <3>2. CASE OnAck
      BY <1>0, <3>2, AckStep DEF Absent
    <3>3. CASE OnPage
      BY <1>0, <3>3, ListStep, ListFacts
    <3> QED
      BY <1>12, <3>1, <3>2, <3>3
  <2> QED
    BY <1>3, <2>1, <2>4, <2>5
<1>13. CASE OnChat
  <2>1. UNCHANGED <<disk, hydrating, waiting, posted, missed>>
    BY <1>13 DEF OnChat, server, history
  <2>2. Shifted(down, down') /\ down[1].type = "CHAT"
    BY <1>0, <1>13, CollectFacts DEF OnChat
  <2>3. PICK new \in SUBSET Change :
          /\ (\A p, q \in new : p.m = q.m => p = q) /\ append(new)
          /\ \E p \in new : p.m = down[1].m
    BY <1>0, <1>13, ListStep
  <2>4. /\ mem[m] # Absent => mem'[m] # Absent
        /\ \A p \in new : mem'[p.m] # Absent
    BY <1>0, <2>3, ListFacts
  <2>5. m = down[1].m => mem'[m] # Absent
    BY <2>3, <2>4
  <2>6. Coming(m) => Coming(m)' \/ mem'[m] # Absent
    BY <2>2, <2>5, ComingShifted
  <2> QED
    BY <1>3, <2>1, <2>4, <2>6
<1>14. CASE mergeMessages
  <2>1. /\ UNCHANGED <<disk, waiting, posted, missed, down>>
        /\ mem'[m] = IF snapshot[m] # Absent THEN snapshot[m] ELSE mem[m]
        /\ \/ hydrating = "merging" /\ hydrating' = "done"
           \/ hydrating' = "none"
    BY <1>14 DEF mergeMessages, Hydrate, server, wire
  <2>2. mem[m] # Absent => mem'[m] # Absent
    BY <2>1
  <2>3. hydrating' = "done" /\ disk[m] # Absent => mem'[m] # Absent
    BY <1>0, <2>1 DEF Held
  <2> QED
    BY <1>k, <1>c, <2>1, <2>2, <2>3 DEF Known, Coming
<1>15. CASE Save
  <2>1. /\ UNCHANGED <<mem, hydrating, waiting, posted, missed, down>>
        /\ disk[m] # Absent => disk'[m] # Absent
    BY <1>0, <1>15, SaveFacts DEF Absent
  <2> QED
    BY <1>3, <1>c, <2>1
<1>16. CASE /\ UNCHANGED <<mem, disk, waiting, posted, missed, down>>
            /\ (hydrating' = "done" => hydrating = "done")
  BY <1>3, <1>16, <1>c
<1>17. CASE \/ ServerNotices \/ Connect \/ openChat \/ loadMoreHistory \/ openStore \/ hydrate
            \/ UNCHANGED vars
  BY <1>16, <1>17 DEF ServerNotices, Connect, openChat, loadMoreHistory, openStore, hydrate, Hydrate,
                      vars, server, wire, store, history
<1> QED
  BY <1>1, <1>5, <1>6, <1>7, <1>8, <1>9, <1>10, <1>11, <1>12, <1>13, <1>14, <1>15, <1>17
  DEF Next, ServerStep, Event, StoreStep, Logout, ProcessEnds

-----------------------------------------------------------------------------
(* The rows and their numbers.                                             *)

\* A row is written once and stays; a new one is Known from the start.
LEMMA LogGrows ==
  ASSUME IInv, [Next]_vars
  PROVE  /\ Len(log) \in Nat /\ Len(log') \in Nat /\ Len(log) <= Len(log')
         /\ Seqs \subseteq Seqs' /\ Seqs' \in SUBSET Nat
         /\ \A i \in Seqs : log'[i] = log[i] /\ log[i] \in Msg
         /\ \A i \in Seqs' : \/ i \in Seqs
                             \/ i = Len(log) + 1 /\ Known(log[i])' /\ ~InLog(log'[i])
<1>0. TypeOK /\ Rows /\ Numbers
  BY DEF IInv
<1>1. log \in Seq(Msg) /\ Len(log) \in Nat /\ \A i \in Seqs : log[i] \in Msg
  BY <1>0, LenProperties, ElementOfSeq DEF TypeOK, Seqs
<1>2. ASSUME NEW m \in Msg, log' = Append(log, m), ~InLog(m), Known(m)'
      PROVE  /\ Len(log') \in Nat /\ Len(log) <= Len(log')
             /\ Seqs \subseteq Seqs' /\ Seqs' \in SUBSET Nat
             /\ \A i \in Seqs : log'[i] = log[i]
             /\ \A i \in Seqs' : \/ i \in Seqs
                                 \/ i = Len(log) + 1 /\ Known(log[i])' /\ ~InLog(log'[i])
  <2>1. /\ Len(log') = Len(log) + 1 /\ log'[Len(log) + 1] = m
        /\ \A i \in 1..Len(log) : log'[i] = log[i]
    BY <1>1, <1>2, AppendFacts
  <2>2. \A i \in Seqs' : i \in Seqs \/ i = Len(log) + 1
    BY <1>1, <2>1 DEF Seqs
  <2>3. ASSUME NEW i, i = Len(log) + 1
        PROVE  Known(log[i])' /\ ~InLog(log'[i])
    <3>1. log'[i] = m
      BY <2>1, <2>3
    <3> QED
      BY <1>2, <3>1 DEF Known
  <2> QED
    BY <1>1, <2>1, <2>2, <2>3 DEF Seqs
<1>3. CASE log' = log
  BY <1>1, <1>3 DEF Seqs
<1>4. CASE PeerSaves
  <2>1. PICK m \in Msg : ~InLog(m) /\ log' = Append(log, m) /\ m \in posted' \cup waiting'
    BY <1>4 DEF PeerSaves
  <2>2. Known(m)'
    BY <2>1 DEF Known
  <2> QED
    BY <1>1, <1>2, <2>1, <2>2
<1>5. CASE ServeChat
  <2>1. PICK m \in Msg : mem[m] # Absent /\ (log' = log \/ (~InLog(m) /\ log' = Append(log, m)))
    BY <1>0, <1>5, ServeChatFacts
  <2>2. Known(m)'
    BY <1>5, <2>1 DEF ServeChat, Known
  <2> QED
    BY <1>1, <1>2, <1>3, <2>1, <2>2
<1>6. CASE \E ended \in BOOLEAN : Leave(ended)
  BY <1>0, <1>3, <1>6, LeaveFacts DEF Reset
<1> QED
  BY <1>3, <1>4, <1>5, <1>6
  DEF Next, ServerStep, Event, StoreStep, Logout, ProcessEnds, PeerDelivers, Elsewhere, ServeLogin,
      ServeRoam, ServerNotices, Connect, Lose, openChat, loadMoreHistory, SendChat, OnLogin,
      OnTokenLogin, OnChat, OnAck, OnPage, TakePage, openStore, hydrate, mergeMessages, Save, vars,
      server

\* The rows: no message twice, the history first, everything after it Known.
LEMMA RowsStep ==
  ASSUME IInv, [Next]_vars
  PROVE  Rows'
<1>0. TypeOK /\ Rows /\ Numbers
  BY DEF IInv
<1>h. Len(History) \in Nat
  BY RoamingAssumption, LenProperties
<1>1. /\ Len(log) \in Nat /\ Len(log') \in Nat /\ Len(log) <= Len(log')
      /\ Seqs \subseteq Seqs' /\ Seqs' \in SUBSET Nat
      /\ \A i \in Seqs : log'[i] = log[i] /\ log[i] \in Msg
      /\ \A i \in Seqs' : \/ i \in Seqs
                          \/ i = Len(log) + 1 /\ Known(log[i])' /\ ~InLog(log'[i])
  BY LogGrows
<1>2. Len(History) <= Len(log')
  BY <1>0, <1>1, <1>h DEF Rows
<1>3. ASSUME NEW i \in Seqs', i <= Len(History)
      PROVE  log'[i] = History[i]
  BY <1>0, <1>1, <1>h, <1>3 DEF Rows, Former
<1>4. ASSUME NEW i \in Seqs', NEW j \in Seqs', log'[i] = log'[j]
      PROVE  i = j
  <2>1. CASE i \in Seqs /\ j \in Seqs
    BY <1>0, <1>1, <1>4, <2>1 DEF Rows
  <2>2. CASE i \in Seqs /\ j \notin Seqs
    BY <1>1, <1>4, <2>2 DEF InLog
  <2>3. CASE i \notin Seqs /\ j \in Seqs
    BY <1>1, <1>4, <2>3 DEF InLog
  <2>4. CASE i \notin Seqs /\ j \notin Seqs
    BY <1>1, <2>4
  <2> QED
    BY <2>1, <2>2, <2>3, <2>4
<1>5. ASSUME NEW i \in Seqs', ~(i <= Len(History))
      PROVE  Known(log[i])'
  <2>1. CASE i \in Seqs
    <3>1. PICK m \in Msg : m = log[i] /\ m = log'[i]
      BY <1>1, <2>1
    <3>2. Known(m)
      BY <1>0, <1>5, <2>1, <3>1 DEF Rows, Former
    <3>3. Known(m)'
      BY <3>2, KnownKept
    <3> QED
      BY <3>1, <3>3 DEF Known
  <2> QED
    BY <1>1, <2>1
<1>6. \/ waiting' \cup posted' \subseteq waiting \cup posted
      \/ \E m \in Msg \ Mine : /\ waiting' \cup posted' \subseteq waiting \cup posted \cup {m}
                               /\ log' = Append(log, m)
  <2>1. CASE PeerSaves
    BY <2>1 DEF PeerSaves
  <2>2. CASE \E ended \in BOOLEAN : Leave(ended)
    BY <1>0, <2>2, LeaveFacts DEF Reset
  <2>3. CASE Lose
    BY <1>0, <2>3, LoseFacts DEF Lose
  <2>4. CASE waiting' \subseteq waiting /\ posted' \subseteq posted
    BY <2>4
  <2> QED
    BY <2>1, <2>2, <2>3, <2>4
    DEF Next, ServerStep, Event, StoreStep, Logout, ProcessEnds, PeerDelivers, Elsewhere, ServeLogin,
        ServeChat, ServeRoam, ServerNotices, Connect, openChat, loadMoreHistory, SendChat, OnLogin,
        OnTokenLogin, OnChat, OnAck, OnPage, TakePage, openStore, hydrate, mergeMessages, Save, vars,
        server
<1>7. ASSUME NEW m \in waiting' \cup posted'
      PROVE  m \notin Mine /\ \E i \in Seqs' : ~(i <= Len(History)) /\ log'[i] = m
  <2>1. CASE m \in waiting \cup posted
    BY <1>0, <1>1, <2>1 DEF Rows, Former
  <2>2. CASE m \in Msg \ Mine /\ log' = Append(log, m)
    <3>1. Len(log') = Len(log) + 1 /\ log'[Len(log) + 1] = m
      BY <1>0, <2>2, AppendFacts DEF TypeOK
    <3>2. Len(log) + 1 \in Seqs' /\ ~(Len(log) + 1 <= Len(History))
      BY <1>0, <1>1, <1>h, <3>1 DEF Rows, Seqs
    <3> QED
      BY <2>2, <3>1, <3>2
  <2> QED
    BY <1>6, <2>1, <2>2
<1>8. \A i : Former(i)' <=> i <= Len(History)
  BY DEF Former
<1> QED
  BY <1>2, <1>3, <1>4, <1>5, <1>7, <1>8 DEF Rows

\* What holds from a number on goes on holding.
LEMMA AboveKept ==
  ASSUME IInv, [Next]_vars, NEW s, Above(s)
  PROVE  Above(s)'
<1>1. /\ \A i \in Seqs : log'[i] = log[i] /\ log[i] \in Msg
      /\ \A i \in Seqs' : i \in Seqs \/ Known(log[i])'
  BY LogGrows
<1>2. ASSUME NEW j \in Seqs', j >= s
      PROVE  Known(log[j])'
  <2>1. CASE j \in Seqs
    <3>1. PICK m \in Msg : m = log[j] /\ m = log'[j]
      BY <1>1, <2>1
    <3>2. Known(m)
      BY <1>2, <2>1, <3>1 DEF Above
    <3>3. Known(m)'
      BY <3>2, KnownKept
    <3> QED
      BY <3>1, <3>3 DEF Known
  <2> QED
    BY <1>1, <2>1
<1> QED
  BY <1>2 DEF Above

\* A number stays right.
LEMMA RightKept ==
  ASSUME IInv, [Next]_vars, NEW m, NEW s, Right(m, s)
  PROVE  Right(m, s)'
<1>1. s \in Seqs' /\ log'[s] = m
  BY LogGrows DEF Right
<1>2. Above(s)'
  BY AboveKept DEF Right
<1> QED
  BY <1>1, <1>2 DEF Right

\* A page on its way stays complete.
LEMMA PageKept ==
  ASSUME IInv, [Next]_vars, NEW e, PageOK(e)
  PROVE  PageOK(e)'
<1>1. /\ Seqs \subseteq Seqs' /\ \A i \in Seqs : log'[i] = log[i] /\ log[i] \in Msg
      /\ \A i \in Seqs' : i \in Seqs \/ Known(log[i])'
  BY LogGrows
<1>2. ASSUME NEW j \in Seqs, Known(log[j])
      PROVE  Known(log[j])'
  <2>1. PICK m \in Msg : m = log[j] /\ m = log'[j]
    BY <1>1
  <2>2. Known(m)'
    BY <1>2, <2>1, KnownKept
  <2> QED
    BY <2>1, <2>2 DEF Known
<1>3. \A m \in e.page : \E i \in Seqs' : log'[i] = m /\ e.seq <= i
  BY <1>1 DEF PageOK
<1>4. ASSUME e.seq > 0, NEW i \in Seqs', i >= e.seq
      PROVE  log'[i] \in e.page \/ Known(log[i])'
  BY <1>1, <1>2, <1>4 DEF PageOK
<1>5. ASSUME ~e.more, NEW i \in Seqs'
      PROVE  log'[i] \in e.page \/ Known(log[i])'
  BY <1>1, <1>2, <1>5 DEF PageOK
<1>6. e.page # {} => e.seq > 0
  BY DEF PageOK
<1> QED
  BY <1>3, <1>4, <1>5, <1>6 DEF PageOK

\* A frame on its way to the client stays right.
LEMMA DownKept ==
  ASSUME IInv, [Next]_vars, NEW e, DownOK(e)
  PROVE  DownOK(e)'
<1>1. /\ e.type \in {"LOGIN", "TOKEN", "CHAT", "ACK", "PAGE"}
      /\ e.type = "CHAT" => e.m \in Msg \ Mine
      /\ e.type = "ACK" => e.m \in Mine
  BY DEF DownOK
<1>2. e.type = "CHAT" => Right(e.m, e.seq)'
  BY RightKept DEF DownOK
<1>3. e.type = "ACK" => Right(e.m, e.seq)'
  BY RightKept DEF DownOK
<1>4. e.type = "PAGE" => PageOK(e)'
  BY PageKept DEF DownOK
<1> QED
  BY <1>1, <1>2, <1>3, <1>4 DEF DownOK

\* So does a request.
LEMMA UpKept ==
  ASSUME IInv, [Next]_vars, ~(\E ended \in BOOLEAN : screen = "in" /\ Leave(ended)), NEW e, UpOK(e)
  PROVE  UpOK(e)'
<1>1. e.type \in {"LOGIN", "TOKEN", "CHAT", "ROAM"}
  BY DEF UpOK
<1>2. e.type = "CHAT" => e.m \in Mine /\ mem'[e.m] # Absent
  BY ShownKept, RoamingAssumption DEF UpOK
<1>3. e.type = "ROAM" => Above(e.seq)'
  BY AboveKept DEF UpOK
<1> QED
  BY <1>1, <1>2, <1>3 DEF UpOK

\* No row has the number Long.MAX_VALUE.
LEMMA AboveLatest ==
  ASSUME TypeOK, Rows
  PROVE  Above(Latest)
<1>1. log \in [1..Len(log) -> Msg] /\ Len(log) \in Nat
  BY LenProperties DEF TypeOK
<1>2. log \in Injection(1..Len(log), Msg)
  BY <1>1 DEF Injection, IsInjective, Rows, Seqs
<1>3. Cardinality(1..Len(log)) <= Cardinality(Msg)
  BY <1>2, RoamingAssumption, FS_Injection
<1>4. PICK n \in Nat : n = Len(log)
  BY <1>1
<1>5. n \in Int /\ 1 \in Int
  OBVIOUS
<1>6. Cardinality(1..n) = IF 1 > n THEN 0 ELSE n - 1 + 1
  BY <1>5, FS_Interval
<1>7. n <= Cardinality(Msg)
  BY <1>3, <1>4, <1>6
<1>8. \A j \in Seqs : ~(j >= Latest)
  BY <1>4, <1>7, LatestFacts DEF Seqs, Latest
<1> QED
  BY <1>8 DEF Above

\* After a page has been taken, nothing is missing from its smallest number on.
LEMMA PageTaken ==
  ASSUME IInv, OnPage
  PROVE  /\ down[1].seq \in Nat /\ down[1] \in Frame /\ Shifted(down, down') /\ 1 \in DOMAIN down
         /\ down[1].seq > 0 => \A s \in Nat : s = down[1].seq => Above(s)'
         /\ ~down[1].more => Above(0)'
<1>0. TypeOK /\ Rows /\ Numbers
  BY DEF IInv
<1>n. [Next]_vars
  BY DEF Next, Event
<1>1. /\ down[1] \in Frame /\ down[1].type = "PAGE" /\ Shifted(down, down') /\ 1 \in DOMAIN down
  BY <1>0, CollectFacts DEF OnPage, TakePage, Shifted
<1>2. down[1].seq \in Nat
  BY <1>1 DEF Frame
<1>3. PICK e : e = down[1]
  OBVIOUS
<1>4. PageOK(e)
  BY <1>0, <1>1, <1>3 DEF Numbers, DownOK
<1>5. PICK new \in SUBSET Change :
        /\ (\A p, q \in new : p.m = q.m => p = q) /\ append(new) /\ UNCHANGED log
        /\ \A m \in down[1].page : \E p \in new : p.m = m
  BY <1>0, ListStep
<1>6. \A p \in new : mem'[p.m] # Absent
  BY <1>0, <1>5, ListFacts
<1>7. \A m \in e.page : mem'[m] # Absent
  BY <1>3, <1>5, <1>6
<1>8. PageOK(e)'
  BY <1>4, <1>n, PageKept
<1>9. \A i \in Seqs' : log'[i] \in e.page => Known(log[i])'
  BY <1>7 DEF Known
<1>10. e.seq > 0 => \A s \in Nat : s = e.seq => Above(s)'
  BY <1>8, <1>9 DEF PageOK, Above
<1>11. ~e.more => Above(0)'
  BY <1>8, <1>9 DEF PageOK, Above
<1> QED
  BY <1>1, <1>2, <1>3, <1>10, <1>11

\* The requests on their way.
LEMMA UpStep ==
  ASSUME IInv, [Next]_vars
  PROVE  \A i \in DOMAIN up' : UpOK(up[i])'
<1>0. TypeOK /\ Rows /\ Numbers /\ LoginFirst
  BY DEF IInv
<1>1. CASE up' = <<>>
  <2>1. DOMAIN up' = {}
    BY <1>1
  <2> QED
    BY <2>1
<1>2. ASSUME NEW e, UpOK(e), ~(\E ended \in BOOLEAN : screen = "in" /\ Leave(ended))
      PROVE  UpOK(e)'
  BY <1>2, UpKept
<1>3. ASSUME ~(\E ended \in BOOLEAN : screen = "in" /\ Leave(ended)),
             NEW i \in DOMAIN up', \E j \in DOMAIN up : up'[i] = up[j]
      PROVE  UpOK(up[i])'
  <2>1. PICK e : e = up'[i] /\ UpOK(e)
    BY <1>0, <1>3 DEF Numbers
  <2>2. UpOK(e)'
    BY <1>2, <1>3, <2>1
  <2> QED
    BY <2>1, <2>2 DEF UpOK
<1>4. ASSUME NEW e, Extended(up, up', e), UpOK(e)',
             ~(\E ended \in BOOLEAN : screen = "in" /\ Leave(ended))
      PROVE  \A i \in DOMAIN up' : UpOK(up[i])'
  <2> SUFFICES ASSUME NEW i \in DOMAIN up' PROVE UpOK(up[i])'
    OBVIOUS
  <2>1. CASE i \in DOMAIN up
    BY <1>3, <1>4, <2>1 DEF Extended
  <2>2. CASE i = Len(up) + 1
    <3>1. up'[i] = e
      BY <1>4, <2>2 DEF Extended
    <3> QED
      BY <1>4, <3>1 DEF UpOK
  <2> QED
    BY <1>4, <2>1, <2>2 DEF Extended
<1>5. CASE Connect
  <2>1. PICK t \in {"LOGIN", "TOKEN"} : up' = <<Ev(t)>>
    BY <1>5 DEF Connect
  <2>2. DOMAIN up' = {1} /\ up'[1].type = t
    BY <2>1, LoginFrame
  <2> QED
    BY <2>2 DEF UpOK
<1>6. CASE Lose
  BY <1>0, <1>1, <1>6, LoseFacts
<1>7. CASE \E ended \in BOOLEAN : screen = "in" /\ Leave(ended)
  BY <1>0, <1>1, <1>7, LeaveFacts
<1>8. CASE (openChat \/ loadMoreHistory) /\ ~(\E ended \in BOOLEAN : screen = "in" /\ Leave(ended))
  <2>1. CASE up' = up
    BY <1>3, <1>8, <2>1
  <2>2. ASSUME NEW before \in Nat, before = Latest \/ (before = loadedMinSeq /\ before > 0),
               NEW e \in Frame, Extended(up, up', e), e.type = "ROAM", e.seq = before
        PROVE  UpOK(e)'
    <3>1. Above(e.seq)
      BY <1>0, <2>2, AboveLatest DEF Numbers
    <3>2. UpOK(e)
      BY <2>2, <3>1 DEF UpOK
    <3> QED
      BY <1>2, <1>8, <3>2
  <2> QED
    BY <1>0, <1>4, <1>8, <2>1, <2>2, ScrollFacts, RequestFacts
<1>9. CASE SendChat /\ ~(\E ended \in BOOLEAN : screen = "in" /\ Leave(ended))
  <2>1. PICK m \in Mine : /\ up' = Append(up, [Ev("CHAT") EXCEPT !.m = m])
                          /\ append({Insert(m, 0)})
    BY <1>9 DEF SendChat
  <2>2. PICK e \in Frame : e.type = "CHAT" /\ e.m = m /\ up' = Append(up, e)
    BY <2>1, SendFrame, RoamingAssumption
  <2>3. Extended(up, up', e)
    BY <1>0, <2>2, ExtendedFacts DEF TypeOK
  <2>4. PICK p \in Change : p = Insert(m, 0) /\ p.m = m
    BY RoamingAssumption, InsertFacts
  <2>5. mem'[m] # Absent
    <3>1. append({p}) /\ {p} \in SUBSET Change /\ p \in {p} /\ \A q, r \in {p} : q.m = r.m => q = r
      BY <2>1, <2>4
    <3>2. PICK new \in SUBSET Change : new = {p}
      BY <3>1
    <3>3. mem'[p.m] # Absent
      BY <1>0, <3>1, <3>2, ListFacts
    <3> QED
      BY <2>4, <3>3
  <2>6. UpOK(e)'
    BY <2>2, <2>5 DEF UpOK
  <2> QED
    BY <1>4, <1>9, <2>3, <2>6
<1>10. CASE /\ ServeLogin \/ ServeChat \/ ServeRoam
            /\ ~(\E ended \in BOOLEAN : screen = "in" /\ Leave(ended))
  <2>1. Shifted(up, up')
    BY <1>0, <1>10, ServeLoginFacts, ServeChatFacts, ServeRoamFacts
  <2> QED
    BY <1>3, <1>10, <2>1 DEF Shifted
<1>11. CASE up' = up /\ ~(\E ended \in BOOLEAN : screen = "in" /\ Leave(ended))
  BY <1>3, <1>11
<1> QED
  BY <1>5, <1>6, <1>7, <1>8, <1>9, <1>10, <1>11
  DEF Next, ServerStep, Event, StoreStep, Logout, ProcessEnds, PeerSaves, PeerDelivers, Elsewhere,
      ServerNotices, OnLogin, OnTokenLogin, OnChat, OnAck, OnPage, TakePage, openStore, hydrate,
      mergeMessages, Save, vars, wire

\* The frames on their way.
LEMMA DownStep ==
  ASSUME IInv, [Next]_vars
  PROVE  \A i \in DOMAIN down' : DownOK(down[i])'
<1>0. TypeOK /\ Rows /\ Numbers
  BY DEF IInv
<1>1. ASSUME NEW i \in DOMAIN down', \E j \in DOMAIN down : down'[i] = down[j]
      PROVE  DownOK(down[i])'
  <2>1. PICK e : e = down'[i] /\ DownOK(e)
    BY <1>0, <1>1 DEF Numbers
  <2>2. DownOK(e)'
    BY <2>1, DownKept
  <2> QED
    BY <2>1, <2>2 DEF DownOK
<1>2. ASSUME NEW e, Extended(down, down', e), DownOK(e)'
      PROVE  \A i \in DOMAIN down' : DownOK(down[i])'
  <2> SUFFICES ASSUME NEW i \in DOMAIN down' PROVE DownOK(down[i])'
    OBVIOUS
  <2>1. CASE i \in DOMAIN down
    BY <1>1, <1>2, <2>1 DEF Extended
  <2>2. CASE i = Len(down) + 1
    <3>1. down'[i] = e
      BY <1>2, <2>2 DEF Extended
    <3> QED
      BY <1>2, <3>1 DEF DownOK
  <2> QED
    BY <1>2, <2>1, <2>2 DEF Extended
<1>3. ASSUME NEW m \in Msg, NEW r \in Seqs, log[r] = m, ~Former(r)
      PROVE  Right(m, r)
  <2>1. Len(History) \in Nat /\ Seqs \in SUBSET Nat
    BY <1>0, RoamingAssumption, LenProperties DEF TypeOK, Seqs
  <2>2. \A j \in Seqs : j >= r => ~Former(j)
    BY <1>3, <2>1 DEF Former
  <2> QED
    BY <1>0, <1>3, <2>2 DEF Rows, Right, Above
<1>4. ASSUME NEW m \in waiting \cup posted, NEW e, e.type = "CHAT", e.m = m,
             e.seq \in Seqs, log[e.seq] = m
      PROVE  DownOK(e)'
  <2>1. m \in Msg /\ m \notin Mine /\ ~Former(e.seq)
    BY <1>0, <1>4 DEF Rows, TypeOK
  <2>2. DownOK(e)
    BY <1>3, <1>4, <2>1 DEF DownOK
  <2> QED
    BY <2>2, DownKept
<1>5. CASE down' = down
  BY <1>1, <1>5
<1>6. CASE PeerDelivers
  <2>1. PICK m \in posted : down' = Append(down, Chat(m)) \/ down' = down
    BY <1>6 DEF PeerDelivers
  <2>2. PICK r \in Seqs : log[r] = m
    BY <1>0 DEF Rows
  <2>3. PICK e \in Frame : e = Chat(m) /\ e.type = "CHAT" /\ e.m = m /\ e.seq = r
    BY <1>0, <2>2, ChatFacts
  <2>4. DownOK(e)'
    BY <1>4, <2>2, <2>3
  <2>5. down' = down \/ Extended(down, down', e)
    BY <1>0, <2>1, <2>3, ExtendedFacts DEF TypeOK
  <2> QED
    BY <1>2, <1>5, <2>4, <2>5
<1>7. CASE ServeLogin
  <2> SUFFICES ASSUME NEW i \in DOMAIN down' PROVE DownOK(down[i])'
    OBVIOUS
  <2>1. CASE i \in DOMAIN down
    BY <1>0, <1>1, <1>7, <2>1, ServeLoginFacts
  <2>2. CASE i = Len(down) + 1
    <3>1. down'[i].type \in {"LOGIN", "TOKEN"}
      BY <1>0, <1>7, <2>2, ServeLoginFacts
    <3> QED
      BY <3>1 DEF DownOK
  <2>3. CASE i \notin DOMAIN down /\ i # Len(down) + 1
    <3>1. /\ down'[i].type = "CHAT"
          /\ \E r \in Seqs : /\ log[r] \in waiting /\ down'[i].m = log[r] /\ down'[i].seq = r
      BY <1>0, <1>7, <2>3, ServeLoginFacts
    <3>2. PICK e : e = down'[i]
      OBVIOUS
    <3>3. DownOK(e)'
      BY <1>4, <3>1, <3>2
    <3> QED
      BY <3>2, <3>3 DEF DownOK
  <2> QED
    BY <2>1, <2>2, <2>3
<1>8. CASE ServeChat
  <2>1. PICK e \in Frame : /\ Extended(down, down', e) /\ e.type = "ACK" /\ e.m = up[1].m
                           /\ e.seq \in Seqs' /\ log'[e.seq] = e.m
    BY <1>0, <1>8, ServeChatFacts
  <2>2. e.m \in Mine
    BY <1>0, <1>8, <2>1, ServeChatFacts
  <2>3. Rows'
    BY RowsStep
  <2>4. Len(History) \in Nat /\ Seqs' \in SUBSET Nat /\ \A i \in 1..Len(History) : History[i] \notin Mine
    BY RoamingAssumption, LenProperties, ElementOfSeq, LogGrows
  <2>5. ~(e.seq <= Len(History))
    <3> SUFFICES ASSUME e.seq <= Len(History) PROVE FALSE
      OBVIOUS
    <3>1. log'[e.seq] = History[e.seq] /\ e.seq \in 1..Len(History)
      BY <2>1, <2>3, <2>4, LogGrows DEF Rows, Former, Seqs
    <3> QED
      BY <2>1, <2>2, <2>4, <3>1
  <2>6. ASSUME NEW j \in Seqs', j >= e.seq PROVE ~(j <= Len(History))
    <3>1. PICK n \in Nat : n = Len(History)
      BY <2>4
    <3>2. PICK s \in Nat : s = e.seq
      BY <2>1, <2>4
    <3>3. j \in Nat
      BY <2>4
    <3> QED
      BY <2>5, <2>6, <3>1, <3>2, <3>3
  <2>7. Above(e.seq)'
    BY <2>3, <2>6 DEF Rows, Former, Above
  <2>8. DownOK(e)'
    BY <2>1, <2>2, <2>7 DEF DownOK, Right
  <2> QED
    BY <1>2, <2>1, <2>8
<1>9. CASE ServeRoam
  <2>1. PICK e \in Frame :
          /\ Extended(down, down', e) /\ e.type = "PAGE"
          /\ \A m \in e.page : \E i \in Seqs : log[i] = m /\ e.seq <= i
          /\ e.page # {} => e.seq > 0
          /\ e.seq > 0 => \A i \in Seqs : i >= e.seq /\ i < up[1].seq => log[i] \in e.page
          /\ ~e.more => \A i \in Seqs : i < up[1].seq => log[i] \in e.page
    BY <1>0, <1>9, ServeRoamFacts
  <2>2. /\ up[1].type = "ROAM" /\ 1 \in DOMAIN up /\ up[1].seq \in Nat
    BY <1>0, <1>9, ServeRoamFacts DEF Shifted
  <2>3. Above(up[1].seq)
    BY <1>0, <2>2 DEF Numbers, UpOK
  <2>4. \A i \in Seqs : i \in Nat /\ (i < up[1].seq \/ Known(log[i]))
    BY <1>0, <2>2, <2>3, LenProperties DEF Above, Seqs, TypeOK
  <2>5. PageOK(e)
    BY <2>1, <2>4 DEF PageOK
  <2>6. DownOK(e)
    BY <2>1, <2>5 DEF DownOK
  <2> QED
    BY <1>2, <2>1, <2>6, DownKept
<1>10. CASE Lose \/ \E ended \in BOOLEAN : Leave(ended)
  BY <1>0, <1>1, <1>10, LoseFacts, LeaveFacts DEF Front
<1>11. CASE \E t : Collect(t)
  <2>1. Shifted(down, down')
    BY <1>0, <1>11, CollectFacts
  <2> QED
    BY <1>1, <2>1 DEF Shifted
<1> QED
  BY <1>5, <1>6, <1>7, <1>8, <1>9, <1>10, <1>11
  DEF Next, ServerStep, Event, StoreStep, Logout, ProcessEnds, PeerSaves, Elsewhere, ServerNotices,
      Connect, openChat, loadMoreHistory, SendChat, OnLogin, OnTokenLogin, OnChat, OnAck, OnPage,
      TakePage, openStore, hydrate, mergeMessages, Save, vars, wire

\* What a live message, a page or an own message adds to the list.
LEMMA AddedRight ==
  ASSUME IInv, SendChat \/ OnChat \/ OnPage
  PROVE  \E new \in SUBSET Change :
           /\ (\A p, q \in new : p.m = q.m => p = q) /\ append(new)
           /\ \A p \in new : p.seq > 0 => Right(p.m, p.seq)'
<1>0. TypeOK /\ Rows /\ Numbers
  BY DEF IInv
<1>n. [Next]_vars
  BY DEF Next, Event
<1>1. PICK new \in SUBSET Change :
        /\ (\A p, q \in new : p.m = q.m => p = q) /\ append(new)
        /\ UNCHANGED log
        /\ \A p \in new : p.seq = 0 \/ (p.seq > 0 /\ p.seq \in Seqs /\ log[p.seq] = p.m)
        /\ OnPage => \A p \in new : p.m \in down[1].page /\ p.seq > 0 /\ down[1].seq <= p.seq
        /\ SendChat => \A p \in new : p.seq = 0
        /\ OnChat => \A p \in new : p.m = down[1].m /\ p.seq = down[1].seq /\ p.m \notin Mine
  BY <1>0, ListStep
<1> SUFFICES ASSUME NEW p \in new, p.seq > 0 PROVE Right(p.m, p.seq)'
  BY <1>1
<1>2. p.seq \in Seqs /\ log[p.seq] = p.m /\ p.seq \in Nat
  BY <1>1 DEF Change
<1>3. CASE SendChat
  BY <1>1, <1>2, <1>3
<1>4. CASE OnChat
  <2>1. down[1].type = "CHAT" /\ 1 \in DOMAIN down
    BY <1>0, <1>4, CollectFacts DEF OnChat, Shifted
  <2>2. Right(p.m, p.seq)
    BY <1>0, <1>1, <1>4, <2>1 DEF Numbers, DownOK
  <2> QED
    BY <1>n, <2>2, RightKept
<1>5. CASE OnPage
  <2>1. down[1].type = "PAGE" /\ 1 \in DOMAIN down
    BY <1>0, <1>5, CollectFacts DEF OnPage, TakePage, Shifted
  <2>2. PageOK(down[1]) /\ p.m \in down[1].page /\ down[1].seq <= p.seq
    BY <1>0, <1>1, <1>5, <2>1 DEF Numbers, DownOK
  <2>3. PICK s \in Nat : s = down[1].seq
    BY <1>5, PageTaken
  <2>4. s > 0
    BY <2>2, <2>3 DEF PageOK
  <2>5. Above(s)'
    BY <1>5, <2>3, <2>4, PageTaken
  <2>6. Seqs' \in SUBSET Nat
    BY <1>n, LogGrows
  <2>7. Above(p.seq)'
    BY <1>2, <2>2, <2>3, <2>5, <2>6 DEF Above
  <2>8. Seqs' = Seqs
    BY <1>1 DEF Seqs
  <2> QED
    BY <1>1, <1>2, <2>7, <2>8 DEF Right
<1> QED
  BY <1>3, <1>4, <1>5

\* The numbers in the list.
LEMMA ListNumbers ==
  ASSUME IInv, [Next]_vars, NEW m \in Msg, NEW s \in Nat, s > 0, s = mem'[m]
  PROVE  Right(m, s)'
<1>0. TypeOK /\ Rows /\ Numbers
  BY DEF IInv
<1>k. ASSUME Right(m, s) PROVE Right(m, s)'
  BY <1>k, RightKept
<1>1. CASE mem' = mem
  BY <1>0, <1>1, <1>k DEF Numbers
<1>2. CASE \E ended \in BOOLEAN : Leave(ended)
  <2>1. mem' = Nothing
    BY <1>2 DEF Leave, Reset
  <2> QED
    BY <2>1 DEF Nothing, Absent
<1>3. CASE SendChat \/ OnChat \/ OnPage
  <2>1. PICK new \in SUBSET Change :
          /\ (\A p, q \in new : p.m = q.m => p = q) /\ append(new)
          /\ \A p \in new : p.seq > 0 => Right(p.m, p.seq)'
    BY <1>3, AddedRight
  <2>2. /\ mem[m] # Absent => mem'[m] = mem[m]
        /\ mem[m] = Absent /\ mem'[m] # Absent => \E p \in new : p.m = m /\ mem'[m] = p.seq
    BY <1>0, <2>1, ListFacts
  <2>3. CASE mem[m] # Absent
    BY <1>0, <1>k, <2>2, <2>3 DEF Numbers
  <2>4. CASE mem[m] = Absent
    <3>1. s # Absent
      BY DEF Absent
    <3>2. PICK p \in new : p.m = m /\ s = p.seq
      BY <2>2, <2>4, <3>1
    <3> QED
      BY <2>1, <3>2
  <2> QED
    BY <2>3, <2>4
<1>4. CASE OnAck
  BY <1>0, <1>4, <1>k, AckStep DEF Numbers
<1>5. CASE mergeMessages
  <2>1. s = snapshot[m] \/ s = mem[m]
    BY <1>5 DEF mergeMessages
  <2> QED
    BY <1>0, <1>k, <2>1 DEF Numbers
<1> QED
  BY <1>1, <1>2, <1>3, <1>4, <1>5
  DEF Next, ServerStep, Event, StoreStep, Logout, ProcessEnds, PeerSaves, PeerDelivers, Elsewhere,
      ServeLogin, ServeChat, ServeRoam, ServerNotices, Connect, Lose, openChat, loadMoreHistory,
      OnLogin, OnTokenLogin, openStore, hydrate, Save, vars

\* The numbers in the database.
LEMMA DiskNumbers ==
  ASSUME IInv, [Next]_vars, NEW m \in Msg, NEW s \in Nat, s > 0, s = disk'[m]
  PROVE  Right(m, s)'
<1>0. TypeOK /\ Numbers
  BY DEF IInv
<1>k. ASSUME Right(m, s) PROVE Right(m, s)'
  BY <1>k, RightKept
<1>1. CASE disk' = disk
  BY <1>0, <1>1, <1>k DEF Numbers
<1>2. CASE Save
  <2>1. \E p \in saving : s = disk[m] \/ (m = p.m /\ s = p.seq)
    BY <1>0, <1>2, SaveFacts
  <2> QED
    BY <1>0, <1>k, <2>1 DEF Numbers
<1> QED
  BY <1>1, <1>2
  DEF Next, ServerStep, Event, StoreStep, Logout, ProcessEnds, PeerSaves, PeerDelivers, Elsewhere,
      ServeLogin, ServeChat, ServeRoam, ServerNotices, Connect, Lose, Leave, Reset, openChat,
      loadMoreHistory, SendChat, OnLogin, OnTokenLogin, OnChat, OnAck, OnPage, TakePage, openStore,
      hydrate, mergeMessages, vars, store

\* The numbers hydrate has read.
LEMMA SnapshotNumbers ==
  ASSUME IInv, [Next]_vars, NEW m \in Msg, NEW s \in Nat, s > 0, s = snapshot'[m]
  PROVE  Right(m, s)'
<1>0. TypeOK /\ Numbers
  BY DEF IInv
<1>k. ASSUME Right(m, s) PROVE Right(m, s)'
  BY <1>k, RightKept
<1>1. CASE snapshot' = snapshot
  BY <1>0, <1>1, <1>k DEF Numbers
<1>2. CASE snapshot' = Nothing
  BY <1>2 DEF Nothing, Absent
<1>3. CASE hydrate
  BY <1>0, <1>3, <1>k DEF Numbers, hydrate
<1> QED
  BY <1>1, <1>2, <1>3
  DEF Next, ServerStep, Event, StoreStep, Logout, ProcessEnds, PeerSaves, PeerDelivers, Elsewhere,
      ServeLogin, ServeChat, ServeRoam, ServerNotices, Connect, Lose, Leave, Reset, openChat,
      loadMoreHistory, SendChat, OnLogin, OnTokenLogin, OnChat, OnAck, OnPage, TakePage, openStore,
      mergeMessages, Save, vars, store

\* The numbers on their way to the database.
LEMMA SavingNumbers ==
  ASSUME IInv, [Next]_vars, NEW p \in saving', p.seq > 0
  PROVE  Right(p.m, p.seq)'
<1>0. TypeOK /\ Numbers
  BY DEF IInv
<1>k. ASSUME p \in saving PROVE Right(p.m, p.seq)'
  <2>1. Right(p.m, p.seq)
    BY <1>0, <1>k DEF Numbers
  <2> QED
    BY <2>1, RightKept
<1>1. CASE saving' = saving
  BY <1>1, <1>k
<1>2. CASE \E ended \in BOOLEAN : Leave(ended)
  BY <1>2 DEF Leave, Reset
<1>3. CASE SendChat \/ OnChat \/ OnPage
  <2>1. PICK new \in SUBSET Change :
          /\ (\A q, r \in new : q.m = r.m => q = r) /\ append(new)
          /\ \A q \in new : q.seq > 0 => Right(q.m, q.seq)'
    BY <1>3, AddedRight
  <2>2. p \in saving \/ p \in new
    BY <1>0, <2>1, ListFacts
  <2> QED
    BY <1>k, <2>1, <2>2
<1>4. CASE OnAck
  <2>1. PICK m, s : m = down[1].m /\ s = down[1].seq
    OBVIOUS
  <2>2. Right(m, s)'
    BY <1>0, <1>4, <2>1, AckStep, RightKept
  <2>3. p \in saving \/ p = [op |-> "update", m |-> m, seq |-> s]
    BY <1>0, <1>4, <2>1, AckStep
  <2> QED
    BY <1>k, <2>2, <2>3
<1>5. CASE Save
  BY <1>0, <1>5, <1>k, SaveFacts
<1> QED
  BY <1>1, <1>2, <1>3, <1>4, <1>5
  DEF Next, ServerStep, Event, StoreStep, Logout, ProcessEnds, PeerSaves, PeerDelivers, Elsewhere,
      ServeLogin, ServeChat, ServeRoam, ServerNotices, Connect, Lose, openChat, loadMoreHistory,
      OnLogin, OnTokenLogin, openStore, hydrate, mergeMessages, vars, store

\* The cursor.
LEMMA CursorNumbers ==
  ASSUME IInv, [Next]_vars, NEW s \in Nat, s > 0, s = loadedMinSeq'
  PROVE  Above(s)'
<1>0. TypeOK /\ Numbers
  BY DEF IInv
<1>k. ASSUME Above(s) PROVE Above(s)'
  BY <1>k, AboveKept
<1>1. CASE loadedMinSeq' = loadedMinSeq
  BY <1>0, <1>1, <1>k DEF Numbers
<1>2. CASE \E ended \in BOOLEAN : Leave(ended)
  BY <1>2 DEF Leave, Reset
<1>3. CASE openChat \/ loadMoreHistory
  <2>1. \/ loadedMinSeq' = loadedMinSeq
        \/ \E m \in Msg : mem[m] > 0 /\ loadedMinSeq' = mem[m]
    BY <1>0, <1>3, ScrollFacts
  <2>2. CASE \E m \in Msg : mem[m] > 0 /\ loadedMinSeq' = mem[m]
    BY <1>0, <1>k, <2>2 DEF Numbers, Right
  <2> QED
    BY <1>1, <2>1, <2>2
<1>4. CASE OnPage
  <2>1. Head(down) = down[1]
    BY <1>0, <1>4, CollectFacts DEF OnPage, TakePage
  <2>2. loadedMinSeq' = loadedMinSeq \/ (down[1].seq > 0 /\ s = down[1].seq)
    BY <1>4, <2>1 DEF OnPage, TakePage, MinCursor
  <2> QED
    BY <1>1, <1>4, <2>2, PageTaken
<1> QED
  BY <1>1, <1>2, <1>3, <1>4
  DEF Next, ServerStep, Event, StoreStep, Logout, ProcessEnds, PeerSaves, PeerDelivers, Elsewhere,
      ServeLogin, ServeChat, ServeRoam, ServerNotices, Connect, Lose, SendChat, OnLogin,
      OnTokenLogin, OnChat, OnAck, openStore, hydrate, mergeMessages, Save, vars, paging

\* Once roamHasMore is false.
LEMMA BeginningKept ==
  ASSUME IInv, [Next]_vars, roamHasMore' = "no"
  PROVE  Above(0)'
<1>0. TypeOK /\ Numbers
  BY DEF IInv
<1>1. CASE roamHasMore' = roamHasMore
  <2>1. Above(0)
    BY <1>0, <1>1 DEF Numbers, Above
  <2> QED
    BY <2>1, AboveKept
<1>2. CASE \E ended \in BOOLEAN : Leave(ended)
  BY <1>2 DEF Leave, Reset
<1>3. CASE openChat \/ loadMoreHistory
  <2>1. roamHasMore' = roamHasMore \/ roamHasMore' = "yes"
    BY <1>0, <1>3, ScrollFacts
  <2> QED
    BY <1>1, <2>1
<1>4. CASE OnPage
  <2>1. ~down[1].more
    BY <1>0, <1>4, CollectFacts DEF OnPage, TakePage
  <2> QED
    BY <1>4, <2>1, PageTaken
<1> QED
  BY <1>1, <1>2, <1>3, <1>4
  DEF Next, ServerStep, Event, StoreStep, Logout, ProcessEnds, PeerSaves, PeerDelivers, Elsewhere,
      ServeLogin, ServeChat, ServeRoam, ServerNotices, Connect, Lose, SendChat, OnLogin,
      OnTokenLogin, OnChat, OnAck, openStore, hydrate, mergeMessages, Save, vars, paging

\* All of them.
LEMMA NumbersStep ==
  ASSUME IInv, [Next]_vars
  PROVE  Numbers'
<1>0. TypeOK'
  BY TypeStep
<1>1. (\A i \in DOMAIN up : UpOK(up[i]))' /\ (\A i \in DOMAIN down : DownOK(down[i]))'
  BY UpStep, DownStep
<1>2. (\A m \in Msg : mem[m] > 0 => Right(m, mem[m]))'
  <2> SUFFICES ASSUME NEW m \in Msg, mem'[m] > 0 PROVE Right(m, mem[m])'
    OBVIOUS
  <2>1. PICK s \in Nat : s = mem'[m] /\ s > 0
    BY <1>0 DEF TypeOK, Number, Absent
  <2>2. Right(m, s)'
    BY <2>1, ListNumbers
  <2> QED
    BY <2>1, <2>2 DEF Right, Above
<1>3. (\A m \in Msg : disk[m] > 0 => Right(m, disk[m]))'
  <2> SUFFICES ASSUME NEW m \in Msg, disk'[m] > 0 PROVE Right(m, disk[m])'
    OBVIOUS
  <2>1. PICK s \in Nat : s = disk'[m] /\ s > 0
    BY <1>0 DEF TypeOK, Number, Absent
  <2>2. Right(m, s)'
    BY <2>1, DiskNumbers
  <2> QED
    BY <2>1, <2>2 DEF Right, Above
<1>4. (\A m \in Msg : snapshot[m] > 0 => Right(m, snapshot[m]))'
  <2> SUFFICES ASSUME NEW m \in Msg, snapshot'[m] > 0 PROVE Right(m, snapshot[m])'
    OBVIOUS
  <2>1. PICK s \in Nat : s = snapshot'[m] /\ s > 0
    BY <1>0 DEF TypeOK, Number, Absent
  <2>2. Right(m, s)'
    BY <2>1, SnapshotNumbers
  <2> QED
    BY <2>1, <2>2 DEF Right, Above
<1>5. (\A p \in saving : p.seq > 0 => Right(p.m, p.seq))'
  BY SavingNumbers
<1>6. (loadedMinSeq > 0 => Above(loadedMinSeq))'
  <2> SUFFICES ASSUME loadedMinSeq' > 0 PROVE Above(loadedMinSeq)'
    OBVIOUS
  <2>1. PICK s \in Nat : s = loadedMinSeq' /\ s > 0
    BY <1>0 DEF TypeOK
  <2>2. Above(s)'
    BY <2>1, CursorNumbers
  <2> QED
    BY <2>1, <2>2 DEF Above
<1>7. (roamHasMore = "no" => \A j \in Seqs : Known(log[j]))'
  <2> SUFFICES ASSUME roamHasMore' = "no" PROVE \A j \in Seqs' : Known(log[j])'
    OBVIOUS
  <2>1. Above(0)' /\ Seqs' \in SUBSET Nat
    BY BeginningKept, LogGrows
  <2> QED
    BY <2>1 DEF Above
<1> QED
  BY <1>1, <1>2, <1>3, <1>4, <1>5, <1>6, <1>7 DEF Numbers

-----------------------------------------------------------------------------
(* Numbers stick.                                                          *)

\* An own message saved without its number, seen from a state in which its number
\* is in the list: the two clauses of Sticks.
Late(m) ==
  /\ hydrating = "done" \/ (hydrating = "merging" /\ snapshot[m] = Absent)
  /\ mem[m] > 0 /\ disk[m] = 0

\* What a live message, a page or an own message does to them.
LEMMA SticksAdded ==
  ASSUME IInv, SendChat \/ OnChat \/ OnPage
  PROVE  Sticks'
<1>0. TypeOK /\ LoginFirst /\ Rows /\ Numbers /\ Held /\ Sticks
  BY DEF IInv
<1>1. PICK new \in SUBSET Change :
        /\ (\A p, q \in new : p.m = q.m => p = q) /\ append(new)
        /\ UNCHANGED <<disk, hydrating, snapshot, screen, raced>>
        /\ \A p \in new : p.op = "insert" /\ (p.seq = 0 => opened)
  BY <1>0, ListStep
<1>2. /\ \A m \in Msg : mem[m] # Absent => mem'[m] = mem[m]
      /\ \A m \in Msg : mem[m] = Absent /\ mem'[m] # Absent =>
           \E p \in new : p.m = m /\ mem'[m] = p.seq
      /\ saving \subseteq saving'
      /\ \A p \in saving' : p \in saving \/ (p \in new /\ mem[p.m] = Absent /\ StoreOpen)
  BY <1>0, <1>1, ListFacts
<1>3. \A p \in saving' : p.op = "update" => p.seq > 0
  BY <1>0, <1>1, <1>2 DEF Sticks
<1>4. \A p \in saving' : p.seq = 0 => screen' = "in" /\ StoreOpen'
  BY <1>0, <1>1, <1>2 DEF Sticks, StoreOpen, LoginFirst
<1>5. \A m : Updated(m) => Updated(m)'
  BY <1>2 DEF Updated
<1>6. ASSUME NEW m \in Mine \ raced', Late(m)' PROVE Updated(m)'
  <2>1. m \in Msg /\ m \in Mine \ raced
    BY <1>1, RoamingAssumption
  <2>2. mem[m] # Absent
    BY <1>0, <1>1, <1>6, <2>1 DEF Held, Late, Absent
  <2>3. Late(m)
    BY <1>1, <1>2, <1>6, <2>1, <2>2 DEF Late
  <2> QED
    BY <1>0, <1>5, <2>1, <2>3 DEF Sticks, Late
<1>7. ASSUME NEW m \in Mine \ raced', NEW q \in saving', q.m = m, q.seq = 0, mem'[m] > 0,
             disk'[m] = Absent
      PROVE  Updated(m)'
  <2>1. m \in Msg /\ m \in Mine \ raced
    BY <1>1, RoamingAssumption
  <2>2. CASE q \in saving
    <3>1. mem[m] # Absent
      BY <1>0, <1>7, <2>2 DEF Held
    <3>2. mem[m] > 0 /\ disk[m] = Absent
      BY <1>1, <1>2, <1>7, <2>1, <3>1
    <3> QED
      BY <1>0, <1>5, <1>7, <2>1, <2>2, <3>2 DEF Sticks
  <2>3. CASE q \in new /\ mem[m] = Absent
    <3>1. mem'[m] # Absent
      BY <1>7 DEF Absent
    <3>2. PICK p \in new : p.m = m /\ mem'[m] = p.seq
      BY <1>2, <2>1, <2>3, <3>1
    <3>3. p = q
      BY <1>1, <1>7, <2>3, <3>2
    <3> QED
      BY <1>7, <3>2, <3>3
  <2> QED
    BY <1>2, <1>7, <2>2, <2>3
<1>8. \A m \in Msg : /\ snapshot'[m] # Absent => disk'[m] # Absent
                     /\ snapshot'[m] > 0 => disk'[m] > 0
  BY <1>0, <1>1 DEF Sticks
<1> QED
  BY <1>3, <1>4, <1>6, <1>7, <1>8 DEF Sticks, Late

\* What the number of an own message does.
LEMMA SticksAcked ==
  ASSUME IInv, OnAck
  PROVE  Sticks'
<1>0. TypeOK /\ Numbers /\ Held /\ Sticks
  BY DEF IInv
<1>1. PICK a, s : a = down[1].m /\ s = down[1].seq
  OBVIOUS
<1>2. /\ a \in Msg /\ s \in Nat /\ s > 0
      /\ \A m \in Msg : mem'[m] = IF m = a /\ mem[m] # Absent THEN s ELSE mem[m]
      /\ saving' = IF StoreOpen /\ mem[a] # Absent
                   THEN saving \cup {[op |-> "update", m |-> a, seq |-> s]} ELSE saving
      /\ UNCHANGED <<screen, disk, hydrating, snapshot, raced>>
  BY <1>0, <1>1, AckStep
<1>3. \A p \in saving' : p \in saving \/ (p.op = "update" /\ p.seq > 0)
  BY <1>2
<1>4. \A p \in saving' : p.op = "update" => p.seq > 0
  BY <1>0, <1>3 DEF Sticks
<1>5. \A p \in saving' : p.seq = 0 => p \in saving /\ screen' = "in" /\ StoreOpen /\ StoreOpen'
  BY <1>0, <1>2, <1>3 DEF Sticks, StoreOpen
<1>6. \A m : Updated(m) => Updated(m)'
  BY <1>2 DEF Updated
<1>7. StoreOpen /\ mem[a] # Absent => Updated(a)'
  <2> SUFFICES ASSUME StoreOpen, mem[a] # Absent PROVE Updated(a)'
    OBVIOUS
  <2>1. [op |-> "update", m |-> a, seq |-> s] \in saving'
    BY <1>2
  <2>2. \E p \in saving' : p.op = "update" /\ p.m = a
    BY <2>1
  <2> QED
    BY <2>2 DEF Updated
<1>8. ASSUME NEW m \in Mine \ raced', Late(m)' PROVE Updated(m)'
  <2>1. m \in Msg /\ m \in Mine \ raced
    BY <1>2, RoamingAssumption
  <2>2. CASE m = a /\ mem[m] # Absent
    BY <1>2, <1>7, <1>8, <2>2 DEF Late, StoreOpen
  <2>3. CASE ~(m = a /\ mem[m] # Absent)
    <3>1. Late(m)
      BY <1>2, <1>8, <2>1, <2>3 DEF Late
    <3> QED
      BY <1>0, <1>6, <2>1, <3>1 DEF Sticks, Late
  <2> QED
    BY <2>2, <2>3
<1>9. ASSUME NEW m \in Mine \ raced', NEW q \in saving', q.m = m, q.seq = 0, mem'[m] > 0,
             disk'[m] = Absent
      PROVE  Updated(m)'
  <2>1. m \in Msg /\ m \in Mine \ raced /\ q \in saving /\ StoreOpen
    BY <1>2, <1>5, <1>9, RoamingAssumption
  <2>2. CASE m = a /\ mem[m] # Absent
    BY <1>7, <2>1, <2>2
  <2>3. CASE ~(m = a /\ mem[m] # Absent)
    <3>1. mem[m] > 0 /\ disk[m] = Absent
      BY <1>2, <1>9, <2>1, <2>3
    <3> QED
      BY <1>0, <1>6, <1>9, <2>1, <3>1 DEF Sticks
  <2> QED
    BY <2>2, <2>3
<1>10. \A m \in Msg : /\ snapshot'[m] # Absent => disk'[m] # Absent
                      /\ snapshot'[m] > 0 => disk'[m] > 0
  BY <1>0, <1>2 DEF Sticks
<1> QED
  BY <1>4, <1>5, <1>8, <1>9, <1>10 DEF Sticks, Late

\* What a merge does.
LEMMA SticksMerged ==
  ASSUME IInv, mergeMessages
  PROVE  Sticks'
<1>0. TypeOK /\ Sticks
  BY DEF IInv
<1>1. /\ (hydrating = "merging" /\ hydrating' = "done") \/ (hydrating = "late" /\ hydrating' = "none")
      /\ \A m \in Msg : mem'[m] = IF snapshot[m] # Absent THEN snapshot[m] ELSE mem[m]
      /\ raced \subseteq raced'
      /\ snapshot' = Nothing
      /\ UNCHANGED <<screen, disk, saving>>
  BY DEF mergeMessages, Hydrate
<1>2. \A m \in Msg : snapshot'[m] = Absent /\ ~(snapshot'[m] > 0)
  BY <1>1 DEF Nothing, Absent
<1>3. \A p \in saving' : p.seq = 0 => screen' = "in" /\ StoreOpen'
  BY <1>0, <1>1 DEF Sticks, StoreOpen
<1>4. \A m : Updated(m) => Updated(m)'
  BY <1>1 DEF Updated
<1>5. ASSUME NEW m \in Mine \ raced', mem'[m] > 0, disk'[m] = 0 \/ disk'[m] = Absent
      PROVE  m \in Msg /\ m \in Mine \ raced /\ mem[m] > 0 /\ snapshot[m] = Absent
  <2>1. m \in Msg /\ m \in Mine \ raced
    BY <1>1, RoamingAssumption
  <2>2. snapshot[m] > 0 => disk[m] > 0
    BY <1>0, <2>1 DEF Sticks
  <2> QED
    BY <1>1, <1>5, <2>1, <2>2 DEF Absent
<1>6. ASSUME NEW m \in Mine \ raced', Late(m)' PROVE Updated(m)'
  <2>1. m \in Mine \ raced /\ Late(m)
    BY <1>1, <1>5, <1>6 DEF Late
  <2> QED
    BY <1>0, <1>4, <2>1 DEF Sticks, Late
<1>7. ASSUME NEW m \in Mine \ raced', NEW q \in saving', q.m = m, q.seq = 0, mem'[m] > 0,
             disk'[m] = Absent
      PROVE  Updated(m)'
  <2>1. m \in Mine \ raced /\ mem[m] > 0 /\ disk[m] = Absent /\ q \in saving
    BY <1>1, <1>5, <1>7
  <2> QED
    BY <1>0, <1>4, <1>7, <2>1 DEF Sticks
<1>8. \A p \in saving' : p.op = "update" => p.seq > 0
  BY <1>0, <1>1 DEF Sticks
<1> QED
  BY <1>2, <1>3, <1>6, <1>7, <1>8 DEF Sticks, Late

\* What a save does.
LEMMA SticksSaved ==
  ASSUME IInv, Save
  PROVE  Sticks'
<1>0. TypeOK /\ Sticks
  BY DEF IInv
<1>1. PICK p \in saving :
        /\ p \in Change /\ p.m \in Msg /\ p.seq \in Nat /\ p.op \in {"insert", "update"}
        /\ saving' = saving \ {p}
        /\ \A m \in Msg :
             disk'[m] = IF m = p.m /\ ((p.op = "insert") = (disk[m] = Absent))
                        THEN p.seq ELSE disk[m]
        /\ raced \subseteq raced'
        /\ p.op = "update" /\ disk[p.m] = Absent => p.m \in raced'
        /\ UNCHANGED <<mem, hydrating, snapshot, screen>>
  BY <1>0, SaveFacts
<1>2. p.op = "update" => p.seq > 0
  BY <1>0, <1>1 DEF Sticks
<1>3. ASSUME NEW m \in Msg
      PROVE  /\ disk'[m] = disk[m] \/ (m = p.m /\ disk'[m] = p.seq)
             /\ disk[m] # Absent /\ m = p.m /\ p.op = "update" => disk'[m] = p.seq
             /\ disk[m] # Absent /\ m = p.m /\ p.op = "insert" => disk'[m] = disk[m]
             /\ disk[m] # Absent => disk'[m] # Absent
  <2>1. p.seq # Absent
    BY <1>1 DEF Absent
  <2> QED
    BY <1>1, <2>1
<1>4. ASSUME NEW m \in Msg
      PROVE  /\ snapshot'[m] # Absent => disk'[m] # Absent
             /\ snapshot'[m] > 0 => disk'[m] > 0
  <2>1. /\ snapshot[m] # Absent => disk[m] # Absent
        /\ snapshot[m] > 0 => disk[m] > 0
    BY <1>0 DEF Sticks
  <2>2. snapshot[m] \in Number /\ disk[m] \in Number
    BY <1>0 DEF TypeOK
  <2>3. snapshot'[m] = snapshot[m]
    BY <1>1
  <2>4. snapshot[m] > 0 => disk[m] # Absent
    BY <2>1, <2>2 DEF Absent, Number
  <2>5. disk[m] # Absent /\ disk[m] > 0 => disk'[m] > 0
    BY <1>1, <1>2, <1>3, <2>2
  <2> QED
    BY <1>3, <2>1, <2>3, <2>4, <2>5
<1>5. ASSUME NEW m \in Mine \ raced', NEW u \in saving, u.op = "update", u.m = m,
             disk'[m] = 0 \/ disk'[m] = Absent
      PROVE  Updated(m)'
  <2>1. m \in Msg /\ m \notin raced'
    BY RoamingAssumption
  <2>2. CASE u # p
    BY <1>1, <1>5, <2>2 DEF Updated
  <2>3. CASE u = p
    <3>1. disk[m] # Absent
      BY <1>1, <1>5, <2>1, <2>3
    <3>2. disk'[m] = p.seq /\ p.seq > 0
      BY <1>2, <1>3, <1>5, <2>1, <2>3, <3>1
    <3> QED
      BY <1>1, <1>5, <3>2 DEF Absent
  <2> QED
    BY <2>2, <2>3
<1>6. ASSUME NEW m \in Mine \ raced', Late(m)' PROVE Updated(m)'
  <2>1. m \in Msg /\ m \in Mine \ raced
    BY <1>1, RoamingAssumption
  <2>2. /\ hydrating = "done" \/ (hydrating = "merging" /\ snapshot[m] = Absent)
        /\ mem[m] > 0 /\ disk'[m] = 0
    BY <1>1, <1>6 DEF Late
  <2>3. Updated(m)
    <3>1. CASE disk[m] = 0
      BY <1>0, <2>1, <2>2, <3>1 DEF Sticks
    <3>2. CASE disk[m] # 0
      <4>1. m = p.m /\ p.seq = 0 /\ p.op = "insert"
        BY <1>1, <1>2, <1>3, <2>1, <2>2, <3>2
      <4>2. disk[m] = Absent
        BY <1>3, <2>1, <2>2, <3>2, <4>1
      <4> QED
        BY <1>0, <1>1, <2>1, <2>2, <4>1, <4>2 DEF Sticks
    <3> QED
      BY <3>1, <3>2
  <2> QED
    BY <1>5, <2>2, <2>3 DEF Updated
<1>7. ASSUME NEW m \in Mine \ raced', NEW q \in saving', q.m = m, q.seq = 0, mem'[m] > 0,
             disk'[m] = Absent
      PROVE  Updated(m)'
  <2>1. m \in Msg /\ m \in Mine \ raced /\ q \in saving
    BY <1>1, RoamingAssumption
  <2>2. disk[m] = Absent /\ mem[m] > 0
    BY <1>1, <1>3, <1>7, <2>1
  <2>3. Updated(m)
    BY <1>0, <1>7, <2>1, <2>2 DEF Sticks
  <2> QED
    BY <1>5, <1>7, <2>3 DEF Updated
<1>8. /\ \A q \in saving' : q.op = "update" => q.seq > 0
      /\ \A q \in saving' : q.seq = 0 => screen' = "in" /\ StoreOpen'
  BY <1>0, <1>1 DEF Sticks, StoreOpen
<1> QED
  BY <1>4, <1>6, <1>7, <1>8 DEF Sticks, Late

\* A number is in the list only if it is, or will be, in the database.
LEMMA SticksStep ==
  ASSUME IInv, [Next]_vars
  PROVE  Sticks'
<1>0. TypeOK /\ LoginFirst /\ Sticks
  BY DEF IInv
<1>1. CASE UNCHANGED <<mem, disk, snapshot, hydrating, saving, screen, raced>>
  BY <1>0, <1>1 DEF Sticks, Updated, StoreOpen
<1>2. CASE \E ended \in BOOLEAN : Leave(ended)
  <2>1. /\ saving' = {} /\ hydrating' \in {"none", "opening", "late"} /\ disk' = disk
        /\ snapshot' = snapshot \/ snapshot' = Nothing
    BY <1>2 DEF Leave, Reset
  <2>2. \A m \in Msg : /\ snapshot'[m] # Absent => disk'[m] # Absent
                       /\ snapshot'[m] > 0 => disk'[m] > 0
    BY <1>0, <2>1 DEF Sticks, Nothing, Absent
  <2> QED
    BY <2>1, <2>2 DEF Sticks
<1>3. CASE OnLogin
  <2>1. down[1].type = "LOGIN" /\ 1 \in DOMAIN down
    BY <1>0, <1>3, CollectFacts DEF OnLogin, Shifted
  <2>2. screen = "login"
    BY <1>0, <2>1 DEF LoginFirst
  <2>3. hydrating' = "opening" /\ UNCHANGED <<mem, disk, snapshot, saving, raced>>
    BY <1>3 DEF OnLogin, history
  <2>4. \A p \in saving' : p.seq # 0
    BY <1>0, <2>2, <2>3 DEF Sticks
  <2> QED
    BY <1>0, <2>3, <2>4 DEF Sticks
<1>4. CASE openStore
  <2>1. /\ hydrating = "opening" /\ hydrating' = "reading"
        /\ UNCHANGED <<mem, disk, snapshot, saving, screen, raced>>
    BY <1>4 DEF openStore, Hydrate, history
  <2> QED
    BY <1>0, <2>1 DEF Sticks, Updated, StoreOpen
<1>5. CASE hydrate
  <2>1. /\ hydrating' = "merging" /\ snapshot' = disk
        /\ UNCHANGED <<mem, disk, saving, screen, raced>>
    BY <1>5 DEF hydrate, Hydrate, history
  <2>2. \A m \in Mine \ raced' :
          ~(disk'[m] = 0 /\ (hydrating' = "done" \/ (hydrating' = "merging" /\ snapshot'[m] = Absent)))
    BY <2>1 DEF Absent
  <2> QED
    BY <1>0, <2>1, <2>2 DEF Sticks, Updated, StoreOpen
<1> QED
  BY <1>1, <1>2, <1>3, <1>4, <1>5, SticksAdded, SticksAcked, SticksMerged, SticksSaved
  DEF Next, ServerStep, Event, StoreStep, Logout, ProcessEnds, PeerSaves, PeerDelivers, Elsewhere,
      ServeLogin, ServeChat, ServeRoam, ServerNotices, Connect, Lose, openChat, loadMoreHistory,
      OnTokenLogin, vars, store, history

-----------------------------------------------------------------------------
(* The theorems.                                                           *)

\* The invariant holds before the first login: nothing is shown, saved or asked
\* for, and all rows are the history.
LEMMA InitIInv ==
  ASSUME Init
  PROVE  IInv
<1>0. /\ Len(History) \in Nat /\ DOMAIN History = 1..Len(History)
      /\ \A i \in 1..Len(History) : History[i] \in Msg
  BY RoamingAssumption, LenProperties, ElementOfSeq
<1>1. History \in Seq(Msg)
  BY RoamingAssumption
<1>2. Nothing \in [Msg -> Number] /\ \A m \in Msg : Nothing[m] = Absent /\ ~(Nothing[m] > 0)
  BY DEF Nothing, Number, Absent
<1>3. TypeOK
  <2>1. /\ log \in Seq(Msg) /\ up \in Seq(Frame) /\ down \in Seq(Frame)
        /\ conns \in Nat /\ loadedMinSeq \in Nat
    BY <1>1 DEF Init
  <2>2. mem \in [Msg -> Number] /\ disk \in [Msg -> Number] /\ snapshot \in [Msg -> Number]
    BY <1>2 DEF Init
  <2>3. /\ waiting \in SUBSET Msg /\ posted \in SUBSET Msg /\ saving \in SUBSET Change
        /\ link \in {"up", "none"} /\ screen \in {"login", "in"}
        /\ roamHasMore \in {"null", "yes", "no"}
        /\ hydrating \in {"none", "opening", "reading", "merging", "done", "late"}
    BY DEF Init
  <2>4. online \in BOOLEAN /\ opened \in BOOLEAN /\ roamLoading \in BOOLEAN /\ stuck \in BOOLEAN
    BY DEF Init
  <2> QED
    BY <2>1, <2>2, <2>3, <2>4 DEF TypeOK
<1>4. DOMAIN up = {} /\ DOMAIN down = {} /\ Len(up) = 0
  BY DEF Init
<1>5. LoginFirst
  BY <1>4 DEF Init, LoginFirst
<1>6. OnePage
  BY <1>4 DEF Init, OnePage, Asked, Answered
<1>7. Held
  BY DEF Init, Held
<1>8. Seqs = 1..Len(History)
  BY DEF Init, Seqs
<1>9. Rows
  BY <1>0, <1>1, <1>8, RoamingAssumption DEF Init, Rows, Former
<1>10. Numbers
  BY <1>2, <1>4 DEF Init, Numbers
<1>11. Sticks
  BY <1>2 DEF Init, Sticks
<1> QED
  BY <1>3, <1>5, <1>6, <1>7, <1>9, <1>10, <1>11 DEF IInv

\* Every step of the model keeps it.
LEMMA IInvStep ==
  ASSUME IInv, [Next]_vars
  PROVE  IInv'
<1>1. TypeOK' /\ LoginFirst' /\ OnePage' /\ Held'
  BY TypeStep, LoginStep, OnePageStep, HeldStep
<1>2. Rows' /\ Numbers' /\ Sticks'
  BY RowsStep, NumbersStep, SticksStep
<1> QED
  BY <1>1, <1>2 DEF IInv

\* The inductive invariant of one conversation, on the server, on the screen and in
\* the local database, whatever is lost, closed or reordered.
THEOREM RoamingInvariant == Spec => []IInv
<1>1. Init => IInv
  BY InitIInv
<1>2. IInv /\ [Next]_vars => IInv'
  BY IInvStep
<1> QED
  BY <1>1, <1>2, PTL DEF Spec

\* roamLoading lets one history request through at a time, and is held only by a
\* request that is on its way or was lost (requestHistory, RoamMessages).
THEOREM RoamingOnePageAtATime == Spec => []OnePageAtATime
<1>1. IInv => OnePageAtATime
  BY OnePageCounts DEF IInv, TypeOK
<1> QED
  BY <1>1, RoamingInvariant, PTL

\* Paging skips nothing: from the cursor on, and once roamHasMore is false from the
\* first row on, every message is shown or about to be, or in missed.
THEOREM RoamingNothingSkipped == Spec => []NothingSkipped
<1>1. ASSUME IInv PROVE NothingSkipped
  <2>1. roamHasMore = "no" => \A i \in Seqs : Known(log[i])
    BY <1>1 DEF IInv, Numbers
  <2>2. loadedMinSeq > 0 => \A i \in Seqs : i >= loadedMinSeq => Known(log[i])
    BY <1>1 DEF IInv, Numbers, Above
  <2> QED
    BY <2>1, <2>2 DEF NothingSkipped
<1> QED
  BY <1>1, RoamingInvariant, PTL

\* The number the server gave an own message is the one in the list and, once the
\* saves are through, the one in the database (updateStatus), but for raced ones.
THEOREM RoamingNumberSticks == Spec => []NumberSticks
<1>1. ASSUME IInv PROVE NumberSticks
  <2>0. TypeOK /\ Rows /\ Numbers /\ Sticks
    BY <1>1 DEF IInv
  <2> SUFFICES ASSUME NEW m \in Mine \ raced, mem[m] > 0
               PROVE  /\ log[mem[m]] = m
                      /\ saving = {} /\ hydrating = "done" /\ disk[m] # Absent => disk[m] = mem[m]
    BY DEF NumberSticks
  <2>1. m \in Msg
    BY RoamingAssumption
  <2>2. mem[m] \in Seqs /\ log[mem[m]] = m
    BY <2>0, <2>1 DEF Numbers, Right
  <2>3. ASSUME saving = {}, hydrating = "done", disk[m] # Absent PROVE disk[m] = mem[m]
    <3>1. disk[m] # 0
      BY <2>0, <2>3 DEF Sticks, Updated
    <3>2. disk[m] > 0
      BY <2>0, <2>1, <2>3, <3>1 DEF TypeOK, Number
    <3>3. disk[m] \in Seqs /\ log[disk[m]] = m
      BY <2>0, <2>1, <3>2 DEF Numbers, Right
    <3> QED
      BY <2>0, <2>2, <3>3 DEF Rows
  <2> QED
    BY <2>2, <2>3
<1> QED
  BY <1>1, RoamingInvariant, PTL

=============================================================================
