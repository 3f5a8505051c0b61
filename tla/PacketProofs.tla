---------------------------- MODULE PacketProofs ----------------------------
(***************************************************************************)
(* Proofs about PacketSvc, the packet service of the Rust port, for any    *)
(* packets and any number of connections, dials and closes.  ActorInv says *)
(* that a packet send() accepted is in one line (the send queue of one     *)
(* connection, and its inbox behind it) or has had its one outcome, that   *)
(* the lines are in the order of acceptance and the frames written not     *)
(* after what is still in line.  There is a lemma per action; each also    *)
(* says that the action is a step of SendContract for every packet.        *)
(***************************************************************************)
EXTENDS PacketActor, SequenceTheorems, TLAPS

\* The provers get more than their default time.
USE SMTT(40), ZenonT(40)

-----------------------------------------------------------------------------
(* A connection's line: its send queue and, behind it, its inbox.           *)

\* What an inbox holds.
Msgs == ActorPackets \cup {CloseMsg}

\* The packets a line owes an outcome.
Owed(l) == Range(l) \ {CloseMsg}

\* The packets of a line stand in it in the order R.
Sorted(l, R) ==
    \A i, j \in DOMAIN l :
        i < j /\ l[i] # CloseMsg /\ l[j] # CloseMsg => <<l[i], l[j]>> \in R

\* A sequence without its element i.
Cut(s, i) == SubSeq(s, 1, i - 1) \o SubSeq(s, i + 1, Len(s))

\* What Range is for sequences.
LEMMA RangeIs ==
    ASSUME NEW S, NEW s \in Seq(S)
    PROVE  /\ DOMAIN s = 1 .. Len(s) /\ Len(s) \in Nat
           /\ \A e : e \in Range(s) <=> \E i \in 1 .. Len(s) : s[i] = e
           /\ \A i \in 1 .. Len(s) : s[i] \in S
    BY DEF Range

\* Where the elements of a sequence are when one has been removed.
LEMMA CutIs ==
    ASSUME NEW S, NEW s \in Seq(S), NEW i \in 1 .. Len(s)
    PROVE  /\ Cut(s, i) \in Seq(S)
           /\ Len(Cut(s, i)) = Len(s) - 1
           /\ \A j \in 1 .. i - 1 : Cut(s, i)[j] = s[j]
           /\ \A j \in i .. Len(s) - 1 : Cut(s, i)[j] = s[j + 1]
<1> DEFINE a == SubSeq(s, 1, i - 1)
           b == SubSeq(s, i + 1, Len(s))
<1>0. Len(s) \in Nat /\ \A j \in 1 .. Len(s) : s[j] \in S
  OBVIOUS
<1>1. /\ a \in Seq(S) /\ Len(a) = i - 1
      /\ \A j \in 1 .. i - 1 : a[j] = s[j]
  <2>1. \A j \in 1 .. i - 1 : s[j] \in S
    BY <1>0
  <2> QED
    BY <1>0, <2>1
<1>2. /\ b \in Seq(S) /\ Len(b) = Len(s) - i
      /\ \A j \in 1 .. Len(s) - i : b[j] = s[i + j]
  <2>1. \A j \in i + 1 .. Len(s) : s[j] \in S
    BY <1>0
  <2> QED
    BY <1>0, <2>1
<1> HIDE DEF a, b
<1>3. /\ a \o b \in Seq(S) /\ Len(a \o b) = Len(a) + Len(b)
      /\ \A j \in 1 .. Len(a) + Len(b) :
            (a \o b)[j] = IF j <= Len(a) THEN a[j] ELSE b[j - Len(a)]
  BY Zenon, <1>1, <1>2, ConcatProperties
<1>4. ASSUME NEW j \in 1 .. i - 1 PROVE (a \o b)[j] = s[j]
  BY <1>0, <1>1, <1>2, <1>3
<1>5. ASSUME NEW j \in i .. Len(s) - 1 PROVE (a \o b)[j] = s[j + 1]
  <2>1. j \in 1 .. Len(a) + Len(b) /\ ~(j <= Len(a))
    BY <1>0, <1>1, <1>2
  <2>2. (a \o b)[j] = b[j - Len(a)]
    BY <2>1, <1>3
  <2>3. j - Len(a) \in 1 .. Len(s) - i /\ i + (j - Len(a)) = j + 1
    BY <1>0, <1>1
  <2> QED
    BY Zenon, <1>2, <2>2, <2>3
<1>6. Len(a \o b) = Len(s) - 1
  BY <1>0, <1>1, <1>2, <1>3
<1> QED
  BY Zenon, <1>3, <1>4, <1>5, <1>6 DEF Cut, a, b

\* A line from which something is removed is still in order, and owes all it
\* owed but for what was removed.
LEMMA CutKeeps ==
    ASSUME NEW l \in Seq(Msgs), NEW i \in 1 .. Len(l), NEW R,
           Sorted(l, R), \A p \in ActorPackets : <<p, p>> \notin R
    PROVE  /\ Cut(l, i) \in Seq(Msgs)
           /\ Sorted(Cut(l, i), R)
           /\ Owed(Cut(l, i)) = Owed(l) \ {l[i]}
<1> DEFINE c == Cut(l, i)
           at(j) == IF j < i THEN j ELSE j + 1
<1>1. /\ c \in Seq(Msgs) /\ Len(c) = Len(l) - 1
      /\ \A j \in 1 .. Len(c) : c[j] = l[at(j)] /\ at(j) \in 1 .. Len(l) /\ at(j) # i
      /\ \A j, k \in 1 .. Len(c) : j < k => at(j) < at(k)
  BY CutIs
<1>d. DOMAIN l = 1 .. Len(l) /\ DOMAIN c = 1 .. Len(c)
  BY <1>1, RangeIs
<1> HIDE DEF c
<1>2. Sorted(c, R)
  <2> SUFFICES ASSUME NEW j \in 1 .. Len(c), NEW k \in 1 .. Len(c), j < k,
                      c[j] # CloseMsg, c[k] # CloseMsg
               PROVE  <<c[j], c[k]>> \in R
    BY <1>d DEF Sorted
  <2> HIDE DEF at
  <2>1. /\ at(j) < at(k) /\ at(j) \in DOMAIN l /\ at(k) \in DOMAIN l
        /\ c[j] = l[at(j)] /\ c[k] = l[at(k)]
    BY <1>1, <1>d
  <2> QED
    BY <2>1, Zenon DEF Sorted
<1>3. ASSUME NEW e, e \in Owed(c) PROVE e \in Owed(l) \ {l[i]}
  <2>1. PICK j \in 1 .. Len(c) : c[j] = e
    BY <1>1, <1>3, RangeIs DEF Owed
  <2>2. e = l[at(j)] /\ at(j) \in 1 .. Len(l) /\ at(j) # i
    BY Zenon, <1>1, <2>1
  <2>3. e \in Owed(l) /\ e \in ActorPackets
    BY <1>3, <2>2, RangeIs DEF Owed, Msgs
  <2>4. ASSUME e = l[i] PROVE FALSE
    <3> HIDE DEF at
    <3>1. at(j) < i \/ i < at(j)
      BY <2>2
    <3>2. e # CloseMsg /\ at(j) \in DOMAIN l /\ i \in DOMAIN l /\ l[at(j)] = e
      BY <1>3, <1>d, <2>2 DEF Owed
    <3>3. <<e, e>> \in R
      BY <2>4, <3>1, <3>2, Zenon DEF Sorted
    <3> QED
      BY <2>3, <3>3
  <2> QED
    BY <2>3, <2>4
<1>4. ASSUME NEW e, e \in Owed(l) \ {l[i]} PROVE e \in Owed(c)
  <2>1. PICK j \in 1 .. Len(l) : l[j] = e /\ j # i
    BY <1>4, RangeIs DEF Owed
  <2>2. CASE j < i
    <3>1. j \in 1 .. Len(c) /\ c[j] = e
      BY <1>1, <2>1, <2>2
    <3> QED
      BY <1>1, <1>4, <3>1, RangeIs DEF Owed
  <2>3. CASE j > i
    <3>1. j - 1 \in 1 .. Len(c) /\ c[j - 1] = e
      BY <1>1, <2>1, <2>3
    <3> QED
      BY <1>1, <1>4, <3>1, RangeIs DEF Owed
  <2> QED
    BY <2>1, <2>2, <2>3
<1> QED
  BY <1>1, <1>2, <1>3, <1>4 DEF c

\* What is put at the end of a line is owed too, and in order if it comes
\* behind the others.
LEMMA PutKeeps ==
    ASSUME NEW l \in Seq(Msgs), NEW m \in Msgs, NEW R, Sorted(l, R),
           m # CloseMsg => \A e \in Owed(l) : <<e, m>> \in R
    PROVE  /\ Append(l, m) \in Seq(Msgs)
           /\ Sorted(Append(l, m), R)
           /\ Owed(Append(l, m)) = Owed(l) \cup ({m} \ {CloseMsg})
<1> DEFINE c == Append(l, m)
<1>1. /\ c \in Seq(Msgs) /\ Len(c) = Len(l) + 1
      /\ \A j \in 1 .. Len(l) : c[j] = l[j]
      /\ c[Len(l) + 1] = m
  BY AppendProperties
<1> HIDE DEF c
<1>2. Sorted(c, R)
  <2> SUFFICES ASSUME NEW j \in 1 .. Len(c), NEW k \in 1 .. Len(c), j < k,
                      c[j] # CloseMsg, c[k] # CloseMsg
               PROVE  <<c[j], c[k]>> \in R
    BY <1>1, RangeIs DEF Sorted
  <2>1. j \in 1 .. Len(l) /\ c[j] = l[j]
    BY <1>1, RangeIs
  <2>2. CASE k \in 1 .. Len(l)
    BY <1>1, <2>1, <2>2, RangeIs DEF Sorted
  <2>3. CASE k = Len(l) + 1
    <3>1. c[j] \in Owed(l)
      BY <2>1, RangeIs DEF Owed
    <3> QED
      BY <1>1, <2>3, <3>1
  <2> QED
    BY <2>2, <2>3, <1>1, RangeIs
<1>3. \A e : e \in Range(c) <=> e \in Range(l) \/ e = m
  <2>1. ASSUME NEW e, e \in Range(c) PROVE e \in Range(l) \/ e = m
    <3>1. PICK j \in 1 .. Len(c) : c[j] = e
      BY <1>1, <2>1, RangeIs
    <3>2. j \in 1 .. Len(l) \/ j = Len(l) + 1
      BY <1>1, RangeIs
    <3> QED
      BY <1>1, <3>1, <3>2, RangeIs
  <2>2. ASSUME NEW e, e \in Range(l) PROVE e \in Range(c)
    <3>1. PICK j \in 1 .. Len(l) : l[j] = e
      BY <2>2, RangeIs
    <3>2. j \in 1 .. Len(c) /\ c[j] = e
      BY <1>1, <3>1
    <3> QED
      BY <1>1, <3>2, RangeIs
  <2>3. m \in Range(c)
    <3>1. Len(l) + 1 \in 1 .. Len(c)
      BY <1>1, RangeIs
    <3> QED
      BY <1>1, <3>1, RangeIs
  <2> QED
    BY <2>1, <2>2, <2>3
<1>4. Owed(c) = Owed(l) \cup ({m} \ {CloseMsg})
  BY <1>3 DEF Owed
<1> QED
  BY <1>1, <1>2, <1>4 DEF c

\* Removing from the second of two sequences.
LEMMA CutBehind ==
    ASSUME NEW S, NEW q \in Seq(S), NEW b \in Seq(S), NEW i \in 1 .. Len(b)
    PROVE  Cut(q \o b, Len(q) + i) = q \o Cut(b, i)
<1> DEFINE l == q \o b
           n == Len(q) + i
           c == Cut(b, i)
           u == Cut(l, n)
           v == q \o c
<1>0. l \in Seq(S) /\ Len(l) = Len(q) + Len(b) /\ Len(q) \in Nat /\ Len(b) \in Nat
  BY Zenon, ConcatProperties, LenProperties
<1>1. /\ l \in Seq(S) /\ Len(l) = Len(q) + Len(b) /\ Len(q) \in Nat /\ Len(b) \in Nat
      /\ \A j \in 1 .. Len(q) + Len(b) :
            l[j] = IF j <= Len(q) THEN q[j] ELSE b[j - Len(q)]
  BY Zenon, <1>0, ConcatProperties
<1>2. /\ c \in Seq(S) /\ Len(c) = Len(b) - 1
      /\ \A j \in 1 .. i - 1 : c[j] = b[j]
      /\ \A j \in i .. Len(b) - 1 : c[j] = b[j + 1]
  BY Zenon, CutIs
<1> HIDE DEF l, c
<1>3. n \in 1 .. Len(l) /\ n \in Nat
  BY <1>0
<1>4. /\ u \in Seq(S) /\ Len(u) = Len(l) - 1
      /\ \A j \in 1 .. n - 1 : u[j] = l[j]
      /\ \A j \in n .. Len(l) - 1 : u[j] = l[j + 1]
  <2> HIDE DEF n
  <2> QED
    BY Zenon, <1>0, <1>3, CutIs
<1>5. /\ v \in Seq(S) /\ Len(v) = Len(q) + Len(c)
      /\ \A j \in 1 .. Len(q) + Len(c) :
            v[j] = IF j <= Len(q) THEN q[j] ELSE c[j - Len(q)]
  BY Zenon, <1>2, ConcatProperties
<1> HIDE DEF u, v
<1>6. ASSUME NEW j \in 1 .. Len(u) PROVE u[j] = v[j]
  <2>0. j \in Nat /\ j <= Len(q) + Len(b) - 1 /\ 1 <= j
    BY <1>0, <1>4
  <2>1. CASE j <= Len(q)
    <3>1. j \in 1 .. n - 1 /\ j \in 1 .. Len(q) + Len(b) /\ j \in 1 .. Len(q) + Len(c)
      BY <1>0, <1>2, <2>0, <2>1
    <3> QED
      BY Zenon, <1>1, <1>4, <1>5, <2>1, <3>1
  <2>2. CASE Len(q) < j /\ j < n
    <3>1. u[j] = b[j - Len(q)]
      <4>1. j \in 1 .. n - 1 /\ j \in 1 .. Len(q) + Len(b) /\ ~(j <= Len(q))
        BY <1>0, <2>0, <2>2
      <4> QED
        BY Zenon, <1>1, <1>4, <4>1
    <3>2. v[j] = c[j - Len(q)] /\ j - Len(q) \in 1 .. i - 1
      BY <1>1, <1>2, <1>4, <1>5, <2>2
    <3> QED
      BY <1>2, <3>1, <3>2
  <2>3. CASE n <= j
    <3>1. u[j] = b[(j + 1) - Len(q)]
      BY <1>1, <1>4, <2>3
    <3>2. v[j] = c[j - Len(q)] /\ j - Len(q) \in i .. Len(b) - 1
      BY <1>1, <1>2, <1>4, <1>5, <2>3
    <3>3. (j - Len(q)) + 1 = (j + 1) - Len(q)
      BY <1>1
    <3> QED
      BY <1>2, <3>1, <3>2, <3>3
  <2> QED
    BY <2>1, <2>2, <2>3, <1>1, <1>4
<1>7. Len(u) = Len(v)
  BY <1>1, <1>2, <1>4, <1>5
<1>8. u = v
  BY <1>4, <1>5, <1>6, <1>7, SeqEqual
<1> QED
  BY <1>8 DEF u, v, l, c

\* Removing from the first of two sequences.
LEMMA CutFront ==
    ASSUME NEW S, NEW q \in Seq(S), NEW b \in Seq(S), NEW i \in 1 .. Len(q)
    PROVE  Cut(q \o b, i) = Cut(q, i) \o b
<1> DEFINE l == q \o b
           c == Cut(q, i)
           u == Cut(l, i)
           v == c \o b
<1>0. l \in Seq(S) /\ Len(l) = Len(q) + Len(b) /\ Len(q) \in Nat /\ Len(b) \in Nat
  BY Zenon, ConcatProperties, LenProperties
<1>1. /\ l \in Seq(S) /\ Len(l) = Len(q) + Len(b) /\ Len(q) \in Nat /\ Len(b) \in Nat
      /\ \A j \in 1 .. Len(q) + Len(b) :
            l[j] = IF j <= Len(q) THEN q[j] ELSE b[j - Len(q)]
  BY Zenon, <1>0, ConcatProperties
<1>2. /\ c \in Seq(S) /\ Len(c) = Len(q) - 1
      /\ \A j \in 1 .. i - 1 : c[j] = q[j]
      /\ \A j \in i .. Len(q) - 1 : c[j] = q[j + 1]
  BY Zenon, CutIs
<1> HIDE DEF l, c
<1>4. /\ u \in Seq(S) /\ Len(u) = Len(l) - 1
      /\ \A j \in 1 .. i - 1 : u[j] = l[j]
      /\ \A j \in i .. Len(l) - 1 : u[j] = l[j + 1]
  <2>1. i \in 1 .. Len(l)
    BY <1>0
  <2> QED
    BY Zenon, <1>0, <2>1, CutIs
<1>5. /\ v \in Seq(S) /\ Len(v) = Len(c) + Len(b)
      /\ \A j \in 1 .. Len(c) + Len(b) :
            v[j] = IF j <= Len(c) THEN c[j] ELSE b[j - Len(c)]
  BY Zenon, <1>2, ConcatProperties
<1> HIDE DEF u, v
<1>6. ASSUME NEW j \in 1 .. Len(u) PROVE u[j] = v[j]
  <2>0. j \in Nat /\ Len(l) = Len(q) + Len(b) /\ j <= Len(q) + Len(b) - 1
    BY <1>0, <1>4
  <2>1. CASE j < i
    BY <1>1, <1>2, <1>4, <1>5, <2>1
  <2>2. CASE i <= j /\ j <= Len(q) - 1
    <3>1. u[j] = q[j + 1]
      BY <1>1, <1>4, <2>2
    <3>2. v[j] = c[j]
      BY <1>1, <1>2, <1>4, <1>5, <2>2
    <3> QED
      BY <1>2, <2>2, <3>1, <3>2
  <2>3. CASE Len(q) <= j
    <3>1. u[j] = b[(j + 1) - Len(q)]
      <4>1. /\ j \in i .. Len(l) - 1 /\ j + 1 \in 1 .. Len(q) + Len(b)
            /\ ~(j + 1 <= Len(q))
        BY <1>0, <2>0, <2>3
      <4> QED
        BY Zenon, <1>1, <1>4, <4>1
    <3>2. v[j] = b[j - Len(c)]
      <4>0. Len(c) = Len(q) - 1
        BY <1>2
      <4>1. j \in 1 .. Len(c) + Len(b) /\ ~(j <= Len(c))
        BY <1>0, <2>0, <2>3, <4>0
      <4> QED
        BY Zenon, <1>5, <4>1
    <3>3. j - Len(c) = (j + 1) - Len(q)
      BY <1>1, <1>2
    <3> QED
      BY <3>1, <3>2, <3>3
  <2> QED
    BY <2>1, <2>2, <2>3, <1>1, <1>4
<1>7. Len(u) = Len(v)
  BY <1>1, <1>2, <1>4, <1>5
<1>8. u = v
  BY <1>4, <1>5, <1>6, <1>7, SeqEqual
<1> QED
  BY <1>8 DEF u, v, l, c

\* Removing the first element.
LEMMA CutHead ==
    ASSUME NEW S, NEW s \in Seq(S), s # <<>>
    PROVE  /\ Cut(s, 1) = Tail(s)
           /\ Head(s) = s[1] /\ 1 \in 1 .. Len(s)
<1>0. Len(s) \in Nat \ {0}
  OBVIOUS
<1>1. Tail(s) = SubSeq(s, 2, Len(s)) /\ Tail(s) \in Seq(S)
  BY TailIsSubSeq, HeadTailProperties
<1>2. SubSeq(s, 1, 0) = <<>>
  BY SubSeqEmpty
<1>3. <<>> \o Tail(s) = Tail(s)
  BY <1>1, ConcatEmptySeq
<1>4. Cut(s, 1) = SubSeq(s, 1, 0) \o SubSeq(s, 2, Len(s))
  BY DEF Cut
<1> QED
  BY <1>0, <1>1, <1>2, <1>3, <1>4

\* Moving the first message of the inbox to the end of the queue leaves the
\* line as it is.
LEMMA MoveKeeps ==
    ASSUME NEW S, NEW q \in Seq(S), NEW b \in Seq(S), b # <<>>
    PROVE  Append(q, Head(b)) \o Tail(b) = q \o b
<1>1. Head(b) = b[1] /\ b[1] \in S /\ Len(b) \in Nat \ {0}
  OBVIOUS
<1>2. Append(q, Head(b)) = q \o <<b[1]>> /\ <<b[1]>> \in Seq(S)
  BY <1>1, AppendIsConcat
<1>3. Tail(b) = SubSeq(b, 2, Len(b)) /\ Tail(b) \in Seq(S)
  BY TailIsSubSeq, HeadTailProperties
<1>4. 1 \in 1 .. Len(b) /\ Len(b) \in 1 .. Len(b) /\ 1 + 1 = 2
  BY <1>1
<1>5. SubSeq(b, 1, Len(b)) = <<b[1]>> \o SubSeq(b, 2, Len(b))
  BY <1>4, SubSeqRecursiveFirst
<1>6. b = <<b[1]>> \o Tail(b)
  BY <1>3, <1>5, SubSeqFull
<1>7. (q \o <<b[1]>>) \o Tail(b) = q \o (<<b[1]>> \o Tail(b))
  BY <1>2, <1>3, ConcatAssociative
<1> QED
  BY <1>2, <1>6, <1>7

\* Three parts of a line.
LEMMA Regroup ==
    ASSUME NEW s \in Seq(Msgs), NEW t \in Seq(Msgs), NEW u \in Seq(Msgs)
    PROVE  (s \o t) \o u = s \o (t \o u)
    BY ConcatAssociative

\* What drain_ready leaves of a line: all of it, or all but the close.
LEMMA DrainKeeps ==
    ASSUME NEW q \in Seq(Msgs), NEW b \in Seq(Msgs), NEW n \in 0 .. Len(b),
           \A i \in 1 .. n : b[i] # CloseMsg,
           n < Len(b) => b[n + 1] = CloseMsg
    PROVE  /\ SubSeq(b, 1, n) \in Seq(ActorPackets)
           /\ SubSeq(b, n + 2, Len(b)) \in Seq(Msgs)
           /\ n = Len(b) => (q \o SubSeq(b, 1, n)) \o SubSeq(b, n + 2, Len(b)) = q \o b
           /\ n # Len(b) =>
                 /\ Len(q) + (n + 1) \in 1 .. Len(q \o b)
                 /\ (q \o b)[Len(q) + (n + 1)] = CloseMsg
                 /\ (q \o SubSeq(b, 1, n)) \o SubSeq(b, n + 2, Len(b)) =
                       Cut(q \o b, Len(q) + (n + 1))
<1>0. Len(b) \in Nat /\ Len(q) \in Nat
  OBVIOUS
<1>1. SubSeq(b, 1, n) \in Seq(ActorPackets)
  <2>1. \A i \in 1 .. n : b[i] \in ActorPackets
    BY <1>0 DEF Msgs
  <2>2. 1 \in Int /\ n \in Int
    BY <1>0
  <2> QED
    BY Zenon, <2>1, <2>2, SubSeqProperties
<1>2. SubSeq(b, n + 2, Len(b)) \in Seq(Msgs) /\ SubSeq(b, 1, n) \in Seq(Msgs)
  <2>1. \A i \in 1 .. Len(b) : b[i] \in Msgs
    OBVIOUS
  <2>2. \A i \in n + 2 .. Len(b) : b[i] \in Msgs
    BY <1>0, <2>1
  <2>3. \A i \in 1 .. n : b[i] \in Msgs
    BY <1>0, <2>1
  <2>4. 1 \in Int /\ n \in Int /\ n + 2 \in Int /\ Len(b) \in Int
    BY <1>0
  <2> QED
    BY Zenon, <2>2, <2>3, <2>4, SubSeqProperties
<1>3. (q \o SubSeq(b, 1, n)) \o SubSeq(b, n + 2, Len(b)) =
         q \o (SubSeq(b, 1, n) \o SubSeq(b, n + 2, Len(b)))
  BY Zenon, <1>2, Regroup
<1>4. ASSUME n = Len(b)
      PROVE  (q \o SubSeq(b, 1, n)) \o SubSeq(b, n + 2, Len(b)) = q \o b
  <2>1. Len(b) < n + 2 /\ Len(b) \in Int /\ n + 2 \in Int
    BY <1>0, <1>4
  <2>2. SubSeq(b, n + 2, Len(b)) = <<>>
    BY Zenon, <2>1, SubSeqEmpty
  <2>3. SubSeq(b, 1, n) = b
    BY Zenon, <1>4, SubSeqFull
  <2> QED
    BY Zenon, <1>3, <2>2, <2>3, ConcatEmptySeq
<1>5. ASSUME n # Len(b)
      PROVE  /\ Len(q) + (n + 1) \in 1 .. Len(q \o b)
             /\ (q \o b)[Len(q) + (n + 1)] = CloseMsg
             /\ (q \o SubSeq(b, 1, n)) \o SubSeq(b, n + 2, Len(b)) =
                   Cut(q \o b, Len(q) + (n + 1))
  <2>1. n + 1 \in 1 .. Len(b) /\ n < Len(b) /\ (n + 1) - 1 = n /\ (n + 1) + 1 = n + 2
    BY <1>0, <1>5
  <2>2. /\ Len(q \o b) = Len(q) + Len(b)
        /\ \A i \in 1 .. Len(q) + Len(b) :
              (q \o b)[i] = IF i <= Len(q) THEN q[i] ELSE b[i - Len(q)]
    BY Zenon, ConcatProperties
  <2>3. /\ Len(q) + (n + 1) \in 1 .. Len(q) + Len(b)
        /\ ~(Len(q) + (n + 1) <= Len(q)) /\ (Len(q) + (n + 1)) - Len(q) = n + 1
    BY <1>0, <2>1
  <2>4. (q \o b)[Len(q) + (n + 1)] = b[n + 1]
    BY Zenon, <2>2, <2>3
  <2>5. Cut(b, n + 1) = SubSeq(b, 1, n) \o SubSeq(b, n + 2, Len(b))
    <3>1. Cut(b, n + 1) = SubSeq(b, 1, (n + 1) - 1) \o SubSeq(b, (n + 1) + 1, Len(b))
      BY DEF Cut
    <3>2. (n + 1) - 1 = n /\ (n + 1) + 1 = n + 2
      BY <2>1
    <3> QED
      BY Zenon, <3>1, <3>2
  <2>6. Cut(q \o b, Len(q) + (n + 1)) = q \o Cut(b, n + 1)
    BY ZenonT(40), <2>1, CutBehind
  <2>7. (q \o SubSeq(b, 1, n)) \o SubSeq(b, n + 2, Len(b)) =
           Cut(q \o b, Len(q) + (n + 1))
    BY Zenon, <1>3, <2>5, <2>6
  <2>8. b[n + 1] = CloseMsg
    BY Zenon, <2>1
  <2>9. Len(q) + (n + 1) \in 1 .. Len(q \o b)
    BY Zenon, <2>2, <2>3
  <2> QED
    BY Zenon, <2>4, <2>7, <2>8, <2>9
<1> QED
  BY Zenon, <1>1, <1>2, <1>4, <1>5

\* What a line is when a close is taken from its inbox.
LEMMA DropClose ==
    ASSUME NEW q \in Seq(Msgs), NEW b \in Seq(Msgs), b # <<>>, Head(b) = CloseMsg
    PROVE  /\ Len(q) + 1 \in 1 .. Len(q \o b)
           /\ (q \o b)[Len(q) + 1] = CloseMsg
           /\ q \o Tail(b) = Cut(q \o b, Len(q) + 1)
<1>1. Cut(b, 1) = Tail(b) /\ b[1] = CloseMsg /\ 1 \in 1 .. Len(b)
  BY Zenon, CutHead
<1>2. Cut(q \o b, Len(q) + 1) = q \o Cut(b, 1)
  BY ZenonT(40), <1>1, CutBehind
<1>3. Len(q) \in Nat /\ Len(b) \in Nat
  BY Zenon, LenProperties
<1>4. /\ Len(q \o b) = Len(q) + Len(b)
      /\ \A i \in 1 .. Len(q) + Len(b) :
            (q \o b)[i] = IF i <= Len(q) THEN q[i] ELSE b[i - Len(q)]
  BY Zenon, ConcatProperties
<1>5. /\ Len(q) + 1 \in 1 .. Len(q) + Len(b) /\ ~(Len(q) + 1 <= Len(q))
      /\ (Len(q) + 1) - Len(q) = 1
  <2>1. 1 \in 1 .. Len(b)
    BY Zenon, <1>1
  <2> QED
    BY <1>3, <2>1
<1>6. (q \o b)[Len(q) + 1] = b[1]
  BY Zenon, <1>4, <1>5
<1> QED
  BY Zenon, <1>1, <1>2, <1>4, <1>5, <1>6

\* A position in the queue is that position in the line.
LEMMA FirstOfLine ==
    ASSUME NEW q \in Seq(Msgs), NEW b \in Seq(Msgs), NEW i \in 1 .. Len(q)
    PROVE  /\ i \in 1 .. Len(q \o b) /\ (q \o b)[i] = q[i]
           /\ Cut(q \o b, i) = Cut(q, i) \o b
<1>1. Len(q) \in Nat /\ Len(b) \in Nat
  BY Zenon, LenProperties
<1>2. /\ Len(q \o b) = Len(q) + Len(b)
      /\ \A j \in 1 .. Len(q) + Len(b) :
            (q \o b)[j] = IF j <= Len(q) THEN q[j] ELSE b[j - Len(q)]
  BY Zenon, ConcatProperties
<1>3. i \in 1 .. Len(q) + Len(b) /\ i <= Len(q)
  BY <1>1
<1>4. Cut(q \o b, i) = Cut(q, i) \o b
  BY Zenon, CutFront
<1> QED
  BY Zenon, <1>2, <1>3, <1>4

\* The range of a sequence.
LEMMA RangeIn ==
    ASSUME NEW S, NEW s \in Seq(S)
    PROVE  Range(s) \subseteq S
    BY DEF Range

\* What is in a line is in the queue or in the inbox.
LEMMA LineRange ==
    ASSUME NEW q \in Seq(Msgs), NEW b \in Seq(Msgs)
    PROVE  Range(q \o b) = Range(q) \cup Range(b)
<1>1. Len(q) \in Nat /\ Len(b) \in Nat
  BY Zenon, LenProperties
<1>2. /\ q \o b \in Seq(Msgs) /\ Len(q \o b) = Len(q) + Len(b)
      /\ \A j \in 1 .. Len(q) + Len(b) :
            (q \o b)[j] = IF j <= Len(q) THEN q[j] ELSE b[j - Len(q)]
  BY Zenon, ConcatProperties
<1>3. /\ \A e : e \in Range(q) <=> \E i \in 1 .. Len(q) : q[i] = e
      /\ \A e : e \in Range(b) <=> \E i \in 1 .. Len(b) : b[i] = e
      /\ \A e : e \in Range(q \o b) <=> \E i \in 1 .. Len(q) + Len(b) : (q \o b)[i] = e
  BY ZenonT(40), <1>2, RangeIs
<1>4. ASSUME NEW i \in 1 .. Len(q)
      PROVE  i \in 1 .. Len(q) + Len(b) /\ (q \o b)[i] = q[i]
  BY <1>1, <1>2
<1>5. ASSUME NEW i \in 1 .. Len(b)
      PROVE  Len(q) + i \in 1 .. Len(q) + Len(b) /\ (q \o b)[Len(q) + i] = b[i]
  <2>1. /\ Len(q) + i \in 1 .. Len(q) + Len(b) /\ ~(Len(q) + i <= Len(q))
        /\ (Len(q) + i) - Len(q) = i
    BY <1>1
  <2> QED
    BY Zenon, <1>2, <2>1
<1>6. ASSUME NEW i \in 1 .. Len(q) + Len(b)
      PROVE  \/ i \in 1 .. Len(q) /\ (q \o b)[i] = q[i]
             \/ i - Len(q) \in 1 .. Len(b) /\ (q \o b)[i] = b[i - Len(q)]
  BY <1>1, <1>2
<1> QED
  BY ZenonT(40), <1>3, <1>4, <1>5, <1>6

-----------------------------------------------------------------------------
(* The order in which send() accepted the packets.                          *)

\* The pairs of packets of which the first was accepted before the second.
Accepted(t) ==
    {pq \in ActorPackets \X ActorPackets :
        \E m, n \in DOMAIN t : m < n /\ t[m] = pq[1] /\ t[n] = pq[2]}

\* No packet was accepted twice.
EachOnce(t) == \A m, n \in DOMAIN t : t[m] = t[n] => m = n

\* A packet that was accepted once was not accepted before itself.
LEMMA AcceptedStrict ==
    ASSUME NEW t \in Seq(ActorPackets), EachOnce(t)
    PROVE  \A p \in ActorPackets : <<p, p>> \notin Accepted(t)
<1> SUFFICES ASSUME NEW p \in ActorPackets, <<p, p>> \in Accepted(t) PROVE FALSE
  BY Zenon
<1>1. PICK m, n \in DOMAIN t : m < n /\ t[m] = p /\ t[n] = p
  BY DEF Accepted
<1>2. m = n
  BY Zenon, <1>1 DEF EachOnce
<1>3. m \in Nat
  BY RangeIs
<1> QED
  BY <1>1, <1>2, <1>3

\* A packet that send() accepts comes after all that it accepted before.
LEMMA AcceptedLast ==
    ASSUME NEW t \in Seq(ActorPackets), NEW p \in ActorPackets,
           EachOnce(t), p \notin Range(t)
    PROVE  /\ Append(t, p) \in Seq(ActorPackets)
           /\ EachOnce(Append(t, p))
           /\ Range(Append(t, p)) = Range(t) \cup {p}
           /\ Accepted(t) \subseteq Accepted(Append(t, p))
           /\ \A e \in Range(t) : <<e, p>> \in Accepted(Append(t, p))
<1> DEFINE u == Append(t, p)
<1>1. /\ u \in Seq(ActorPackets) /\ Len(u) = Len(t) + 1
      /\ \A j \in 1 .. Len(t) : u[j] = t[j]
      /\ u[Len(t) + 1] = p
  BY AppendProperties
<1> HIDE DEF u
<1>2. /\ DOMAIN t = 1 .. Len(t) /\ DOMAIN u = 1 .. Len(u) /\ Len(t) \in Nat
      /\ \A e : e \in Range(t) <=> \E i \in 1 .. Len(t) : t[i] = e
      /\ \A e : e \in Range(u) <=> \E i \in 1 .. Len(u) : u[i] = e
  <2>1. u \in Seq(ActorPackets)
    BY Zenon, <1>1
  <2> QED
    BY Zenon, <2>1, RangeIs
<1>3. /\ \A j \in 1 .. Len(u) : j \in 1 .. Len(t) \/ j = Len(t) + 1
      /\ \A j \in 1 .. Len(t) : j \in 1 .. Len(u) /\ j < Len(t) + 1
      /\ Len(t) + 1 \in 1 .. Len(u)
  BY <1>1, <1>2
<1>4. Range(u) = Range(t) \cup {p}
  <2>1. ASSUME NEW e PROVE e \in Range(u) <=> e \in Range(t) \/ e = p
    BY Zenon, <1>1, <1>2, <1>3
  <2> QED
    BY Zenon, <2>1
<1>5. EachOnce(u)
  <2> SUFFICES ASSUME NEW m \in 1 .. Len(u), NEW n \in 1 .. Len(u), u[m] = u[n]
               PROVE  m = n
    BY Zenon, <1>2 DEF EachOnce
  <2>1. ASSUME NEW i \in 1 .. Len(t) PROVE u[i] # p
    <3>1. u[i] = t[i] /\ t[i] \in Range(t)
      BY Zenon, <1>1, <1>2
    <3> QED
      BY Zenon, <3>1
  <2>2. CASE m \in 1 .. Len(t) /\ n \in 1 .. Len(t)
    <3>1. t[m] = t[n] /\ m \in DOMAIN t /\ n \in DOMAIN t
      BY Zenon, <1>1, <1>2, <2>2
    <3> QED
      BY Zenon, <3>1 DEF EachOnce
  <2>3. CASE m = Len(t) + 1 /\ n \in 1 .. Len(t)
    BY Zenon, <1>1, <2>1, <2>3
  <2>4. CASE n = Len(t) + 1 /\ m \in 1 .. Len(t)
    BY Zenon, <1>1, <2>1, <2>4
  <2> QED
    BY Zenon, <1>3, <2>2, <2>3, <2>4
<1>6. ASSUME NEW pq \in Accepted(t) PROVE pq \in Accepted(u)
  <2>1. PICK m, n \in DOMAIN t : m < n /\ t[m] = pq[1] /\ t[n] = pq[2]
    BY Zenon DEF Accepted
  <2>2. m \in DOMAIN u /\ n \in DOMAIN u /\ u[m] = pq[1] /\ u[n] = pq[2]
    BY Zenon, <1>1, <1>2, <1>3, <2>1
  <2> QED
    BY Zenon, <2>1, <2>2 DEF Accepted
<1>7. ASSUME NEW e \in Range(t) PROVE <<e, p>> \in Accepted(u)
  <2>1. PICK m \in 1 .. Len(t) : t[m] = e
    BY Zenon, <1>2
  <2>2. /\ m \in DOMAIN u /\ Len(t) + 1 \in DOMAIN u /\ m < Len(t) + 1
        /\ u[m] = e /\ u[Len(t) + 1] = p
    BY Zenon, <1>1, <1>2, <1>3, <2>1
  <2>3. e \in ActorPackets
    BY <2>1, RangeIs
  <2>4. /\ <<e, p>> \in ActorPackets \X ActorPackets
        /\ <<e, p>>[1] = e /\ <<e, p>>[2] = p
    BY <2>3
  <2> QED
    BY Zenon, <2>2, <2>4 DEF Accepted
<1> QED
  BY Zenon, <1>1, <1>4, <1>5, <1>6, <1>7 DEF u

-----------------------------------------------------------------------------
(* The invariant.                                                           *)

AllOutcomes == {"Success", "TimedOut", "NoConnection", "Abort"}

ActorStates == {"none", "connect", "dialing", "backoff", "start", "serve",
                "finish", "drain", "done"}

ActorRec ==
    [at : ActorStates, open : BOOLEAN, connected : BOOLEAN, inbox : Seq(Msgs),
     sendq : Seq(ActorPackets), writing : ActorPackets \cup {NoFrame},
     abort : BOOLEAN, wrote : Seq(ActorPackets)]

\* The packets for which a connection still owes an outcome.
Line(x) == x.sendq \o x.inbox
Holds(x) == Owed(Line(x))

\* They stand in line in the order in which send() accepted them.
LineOK(x, t) == Sorted(Line(x), Accepted(t)) /\ Holds(x) \subseteq Range(t)

\* The frames were written in that order, and no later than what is in line.
NotAfter(p, q, t) == p = q \/ <<p, q>> \in Accepted(t)
WroteOK(x, t) ==
    /\ Range(x.wrote) \subseteq Range(t)
    /\ \A i \in 1 .. Len(x.wrote) - 1 : NotAfter(x.wrote[i], x.wrote[i + 1], t)
    /\ x.wrote # <<>> => \A p \in Holds(x) : NotAfter(x.wrote[Len(x.wrote)], p, t)
    /\ x.writing # NoFrame => x.writing \in Range(x.wrote)

\* The inbox is open until Conn::finish, after which nothing is in line.
PhaseOK(x) ==
    /\ x.open <=> x.at \notin {"none", "drain", "done"}
    /\ x.at \in {"none", "done"} => x.inbox = <<>> /\ x.sendq = <<>>
    /\ x.at = "none" => x.wrote = <<>>

ConnOK(x, t) == x \in ActorRec /\ LineOK(x, t) /\ WroteOK(x, t) /\ PhaseOK(x)
ConnsOK ==
    /\ actor = [a \in ActorIds |-> actor[a]]
    /\ \A a \in ActorIds : ConnOK(actor[a], taken)

\* No packet is in two lines.
Apart ==
    \A a, b \in ActorIds : \A p \in Holds(actor[a]) : p \in Holds(actor[b]) => a = b

\* A packet send() did not accept has no outcome, or was refused; one that it
\* accepted is in a line and has none, or is in none and has one.
FateOK(p) ==
    /\ p \notin Range(taken) =>
          told[p] = <<>> \/ (told[p] = <<"refused">> /\ p \notin sending)
    /\ p \in Range(taken) =>
          \/ told[p] = <<>> /\ \E a \in ActorIds : p \in Holds(actor[a])
          \/ \E o \in AllOutcomes :
                /\ told[p] = <<o>>
                /\ \A a \in ActorIds : p \notin Holds(actor[a])
                /\ o = "Success" => \E a \in ActorIds : p \in Range(actor[a].wrote)
FatesOK == told = [p \in ActorPackets |-> told[p]] /\ \A p \in ActorPackets : FateOK(p)

\* What send() knows of the packets.
SendsOK ==
    /\ taken \in Seq(ActorPackets) /\ EachOnce(taken)
    /\ sending \subseteq ActorPackets /\ sending \cap Range(taken) = {}

ServiceRec ==
    [stopped : BOOLEAN, stopping : BOOLEAN, table : Nat, made : Nat, dials : Nat,
     closes : Nat]

\* The table's entry is a connection whose inbox is open.
ServiceOK ==
    /\ psvc \in ServiceRec
    /\ psvc.made <= MaxActors /\ psvc.table <= psvc.made
    /\ psvc.table # Nobody => actor[psvc.table].open
    /\ \A a \in ActorIds : a > psvc.made => actor[a].at = "none"

ActorInv == ConnsOK /\ Apart /\ FatesOK /\ SendsOK /\ ServiceOK

-----------------------------------------------------------------------------
(* What becomes of a packet.                                                *)

\* ActorFate, for one packet.
FateOf(outcomes, accepted) ==
    IF ~accepted THEN IF outcomes = <<>> THEN "unsent" ELSE outcomes[1]
    ELSE IF outcomes = <<>> THEN "taken"
    ELSE IF Len(outcomes) = 1 THEN outcomes[1] ELSE "answered twice"

\* The fates that the invariant allows.
LEMMA FateIs ==
    /\ FateOf(<<>>, FALSE) = "unsent" /\ FateOf(<<>>, TRUE) = "taken"
    /\ FateOf(<<"refused">>, FALSE) = "refused"
    /\ \A o \in AllOutcomes : FateOf(<<o>>, TRUE) = o
    BY DEF FateOf

\* The steps a packet may take, as SendContract has them.
FateStep(p) ==
    LET old == FateOf(told[p], p \in Range(taken))
        new == FateOf(told[p], p \in Range(taken))'
    IN  \/ new = old
        \/ old = "unsent" /\ new \in {"taken", "refused"}
        \/ old = "taken" /\ new \in AllOutcomes

\* The packets of G are given the outcome o.
Tells(G, o) ==
    /\ told' = [p \in ActorPackets |-> told'[p]]
    /\ \A p \in ActorPackets :
          told'[p] = IF p \in G THEN Append(told[p], o) ELSE told[p]

\* A connection's step that gives the packets which leave its line the outcome
\* o, keeps the invariant.
LEMMA ConnStep ==
    ASSUME ActorInv, ServiceOK',
           NEW a \in ActorIds, NEW y, ConnOK(y, taken), NEW o \in AllOutcomes,
           Holds(y) \subseteq Holds(actor[a]),
           Range(actor[a].wrote) \subseteq Range(y.wrote),
           actor' = [actor EXCEPT ![a] = y],
           Tells(Holds(actor[a]) \ Holds(y), o),
           o = "Success" => Holds(actor[a]) \ Holds(y) \subseteq Range(y.wrote),
           taken' = taken, sending' = sending
    PROVE  ActorInv' /\ \A p \in ActorPackets : FateStep(p)
<1> DEFINE x == actor[a]
           gone == Holds(x) \ Holds(y)
<1>1. /\ actor' = [b \in ActorIds |-> actor'[b]]
      /\ actor'[a] = y
      /\ \A b \in ActorIds : b # a => actor'[b] = actor[b]
  BY DEF ActorInv, ConnsOK
<1>2. /\ \A b \in ActorIds : Holds(actor'[b]) \subseteq Holds(actor[b])
      /\ \A b \in ActorIds : Range(actor[b].wrote) \subseteq Range(actor'[b].wrote)
  BY Zenon, <1>1
<1>3. ConnsOK'
  BY Zenon, <1>1 DEF ActorInv, ConnsOK
<1>4. Apart'
  BY Zenon, <1>2 DEF ActorInv, Apart
<1>5. SendsOK'
  BY Zenon DEF ActorInv, SendsOK
<1>6. ASSUME NEW p \in ActorPackets, p \in gone
      PROVE  /\ p \in Range(taken) /\ told[p] = <<>> /\ told'[p] = <<o>>
             /\ \A b \in ActorIds : p \notin Holds(actor'[b])
             /\ o = "Success" => p \in Range(actor'[a].wrote)
  <2>1. p \in Holds(actor[a]) /\ p \notin Holds(y)
    BY Zenon, <1>6
  <2>2. p \in Range(taken)
    BY Zenon, <2>1 DEF ActorInv, ConnsOK, ConnOK, LineOK
  <2>3. told[p] = <<>>
    BY Zenon, <2>1, <2>2 DEF ActorInv, FatesOK, FateOK
  <2>4. told'[p] = Append(<<>>, o)
    BY Zenon, <2>1, <2>3 DEF Tells
  <2>5. Append(<<>>, o) = <<o>>
    OBVIOUS
  <2>6. ASSUME NEW b \in ActorIds, p \in Holds(actor'[b]) PROVE FALSE
    <3>1. b # a
      BY Zenon, <1>1, <2>1, <2>6
    <3>2. p \in Holds(actor[b])
      BY Zenon, <1>2, <2>6
    <3> QED
      BY Zenon, <2>1, <3>1, <3>2 DEF ActorInv, Apart
  <2>7. o = "Success" => p \in Range(actor'[a].wrote)
    BY Zenon, <1>1, <1>6
  <2> QED
    BY Zenon, <2>2, <2>3, <2>4, <2>5, <2>6, <2>7
<1>7. ASSUME NEW p \in ActorPackets, p \notin gone
      PROVE  /\ told'[p] = told[p]
             /\ \A b \in ActorIds : p \in Holds(actor[b]) => p \in Holds(actor'[b])
  <2>1. told'[p] = told[p]
    BY Zenon, <1>7 DEF Tells
  <2>2. ASSUME NEW b \in ActorIds, p \in Holds(actor[b]) PROVE p \in Holds(actor'[b])
    BY Zenon, <1>1, <1>7, <2>2
  <2> QED
    BY Zenon, <2>1, <2>2
<1>8. ASSUME NEW p \in ActorPackets PROVE FateOK(p)' /\ FateStep(p)
  <2>0. FateOK(p)
    BY Zenon DEF ActorInv, FatesOK
  <2>1. CASE p \in gone
    <3>1. FateOK(p)'
      BY Zenon, <1>6, <2>1 DEF FateOK
    <3>2. /\ FateOf(told[p], p \in Range(taken)) = "taken"
          /\ FateOf(told[p], p \in Range(taken))' = o
      BY Zenon, <1>6, <2>1, FateIs
    <3> QED
      BY Zenon, <3>1, <3>2 DEF FateStep
  <2>2. CASE p \notin gone
    <3>1. told'[p] = told[p]
      BY Zenon, <1>7, <2>2
    <3>2. FateStep(p)
      BY Zenon, <3>1 DEF FateStep
    <3>3. CASE p \notin Range(taken)
      BY Zenon, <2>0, <3>1, <3>2, <3>3 DEF FateOK
    <3>4. CASE p \in Range(taken) /\ told[p] = <<>>
      <4>0. \A u : <<>> # <<u>>
        OBVIOUS
      <4>1. PICK b \in ActorIds : p \in Holds(actor[b])
        BY Zenon, <2>0, <3>4, <4>0 DEF FateOK
      <4>2. p \in Holds(actor'[b])
        BY Zenon, <1>7, <2>2, <4>1
      <4> QED
        BY Zenon, <3>1, <3>2, <3>4, <4>2 DEF FateOK
    <3>5. CASE p \in Range(taken) /\ told[p] # <<>>
      <4>1. PICK u \in AllOutcomes :
                /\ told[p] = <<u>>
                /\ \A b \in ActorIds : p \notin Holds(actor[b])
                /\ u = "Success" => \E b \in ActorIds : p \in Range(actor[b].wrote)
        BY Zenon, <2>0, <3>5 DEF FateOK
      <4>2. /\ \A b \in ActorIds : p \notin Holds(actor'[b])
            /\ u = "Success" => \E b \in ActorIds : p \in Range(actor'[b].wrote)
        BY Zenon, <1>2, <4>1
      <4> QED
        BY Zenon, <3>1, <3>2, <3>5, <4>1, <4>2 DEF FateOK
    <3> QED
      BY Zenon, <3>2, <3>3, <3>4, <3>5
  <2> QED
    BY Zenon, <2>1, <2>2
<1>9. told' = [p \in ActorPackets |-> told'[p]]
  BY Zenon DEF Tells
<1>10. FatesOK'
  BY Zenon, <1>8, <1>9 DEF FatesOK
<1> QED
  BY Zenon, <1>3, <1>4, <1>5, <1>8, <1>10 DEF ActorInv

\* A connection's step after which it holds the same packets.
LEMMA ConnMove ==
    ASSUME ActorInv, ServiceOK',
           NEW a \in ActorIds, NEW y, ConnOK(y, taken),
           Holds(y) = Holds(actor[a]),
           Range(actor[a].wrote) \subseteq Range(y.wrote),
           actor' = [actor EXCEPT ![a] = y],
           told' = told, taken' = taken, sending' = sending
    PROVE  ActorInv' /\ \A p \in ActorPackets : FateStep(p)
<1>1. "Abort" \in AllOutcomes /\ "Abort" # "Success"
  BY DEF AllOutcomes
<1>2. Tells(Holds(actor[a]) \ Holds(y), "Abort")
  <2>1. told = [p \in ActorPackets |-> told[p]]
    BY Zenon DEF ActorInv, FatesOK
  <2> QED
    BY Zenon, <2>1 DEF Tells
<1> QED
  BY Zenon, <1>1, <1>2, ConnStep

\* The table's entry is one of the connections that were made.
LEMMA TableIs ==
    ASSUME ServiceOK
    PROVE  /\ psvc.table # Nobody => psvc.table \in ActorIds
           /\ psvc.made < MaxActors => psvc.made + 1 \in ActorIds
<1>1. /\ psvc.table \in Nat /\ psvc.made \in Nat
      /\ psvc.made <= MaxActors /\ psvc.table <= psvc.made
  BY DEF ServiceOK, ServiceRec
<1> QED
  BY <1>1, ActorAssumption DEF Nobody, ActorIds

\* A step of a connection of the table that leaves its inbox open and does not
\* touch the table.
LEMMA ServiceKept ==
    ASSUME ActorInv, NEW a \in ActorIds, NEW y, y.open = actor[a].open,
           actor[a].at # "none", actor' = [actor EXCEPT ![a] = y],
           \/ psvc' = psvc
           \/ psvc' \in ServiceRec /\ psvc'.table = psvc.table /\ psvc'.made = psvc.made
    PROVE  ServiceOK'
<1>1. /\ actor'[a] = y
      /\ \A b \in ActorIds : b # a => actor'[b] = actor[b]
  BY Zenon DEF ActorInv, ConnsOK
<1>2. ASSUME NEW b \in ActorIds, b > psvc.made PROVE actor'[b].at = "none"
  <2>1. actor[b].at = "none"
    BY Zenon, <1>2 DEF ActorInv, ServiceOK
  <2> QED
    BY Zenon, <1>1, <2>1
<1>3. psvc.table # Nobody => psvc.table \in ActorIds
  BY Zenon, TableIs DEF ActorInv
<1>4. psvc.table # Nobody => actor'[psvc.table].open
  BY Zenon, <1>1, <1>3 DEF ActorInv, ServiceOK
<1>5. /\ psvc' \in ServiceRec /\ psvc'.table = psvc.table /\ psvc'.made = psvc.made
      /\ psvc.made <= MaxActors /\ psvc.table <= psvc.made
  BY Zenon DEF ActorInv, ServiceOK
<1> QED
  BY Zenon, <1>2, <1>4, <1>5 DEF ServiceOK

-----------------------------------------------------------------------------
(* The records of connections.                                              *)

\* The facts of a record that the proofs use.
LEMMA RecIs ==
    ASSUME NEW x \in ActorRec
    PROVE  /\ x.sendq \in Seq(ActorPackets) /\ x.sendq \in Seq(Msgs)
           /\ x.inbox \in Seq(Msgs) /\ x.wrote \in Seq(ActorPackets)
           /\ Line(x) \in Seq(Msgs)
           /\ \A p \in Holds(x) : p \in ActorPackets
<1>1. /\ x.sendq \in Seq(ActorPackets) /\ x.inbox \in Seq(Msgs)
      /\ x.wrote \in Seq(ActorPackets)
  BY DEF ActorRec
<1>2. x.sendq \in Seq(Msgs)
  <2>1. ActorPackets \subseteq Msgs
    BY Zenon DEF Msgs
  <2> QED
    BY Zenon, <1>1, <2>1, SeqMonotonic
<1>3. Line(x) \in Seq(Msgs)
  BY Zenon, <1>1, <1>2, ConcatProperties DEF Line
<1>4. \A p \in Holds(x) : p \in ActorPackets
  <2>1. Range(Line(x)) \subseteq Msgs
    BY <1>3, RangeIs
  <2> QED
    BY Zenon, <2>1 DEF Holds, Owed, Msgs
<1> QED
  BY Zenon, <1>1, <1>2, <1>3, <1>4

\* A connection whose line loses packets is still in order.
LEMMA KeepsConn ==
    ASSUME NEW t, NEW x, ConnOK(x, t), NEW y \in ActorRec,
           Sorted(Line(y), Accepted(t)), Holds(y) \subseteq Holds(x),
           y.wrote = x.wrote, y.writing \in {x.writing, NoFrame}, PhaseOK(y)
    PROVE  ConnOK(y, t)
<1>1. LineOK(y, t)
  BY Zenon DEF ConnOK, LineOK
<1>2. WroteOK(y, t)
  BY Zenon DEF ConnOK, WroteOK
<1> QED
  BY Zenon, <1>1, <1>2 DEF ConnOK

\* A connection whose line stays as it is.
LEMMA SameLine ==
    ASSUME NEW t, NEW x, ConnOK(x, t), NEW y \in ActorRec,
           Line(y) = Line(x),
           y.wrote = x.wrote, y.writing \in {x.writing, NoFrame}, PhaseOK(y)
    PROVE  ConnOK(y, t) /\ Holds(y) = Holds(x)
<1>1. Holds(y) = Holds(x) /\ Sorted(Line(y), Accepted(t))
  BY Zenon DEF Holds, ConnOK, LineOK
<1> QED
  BY Zenon, <1>1, KeepsConn

\* A connection from whose line something is removed.
LEMMA ShorterLine ==
    ASSUME NEW t \in Seq(ActorPackets), EachOnce(t), NEW x, ConnOK(x, t),
           NEW y \in ActorRec, NEW i \in 1 .. Len(Line(x)),
           Line(y) = Cut(Line(x), i),
           y.wrote = x.wrote, y.writing \in {x.writing, NoFrame}, PhaseOK(y)
    PROVE  ConnOK(y, t) /\ Holds(y) = Holds(x) \ {Line(x)[i]}
<1>1. Line(x) \in Seq(Msgs) /\ Sorted(Line(x), Accepted(t))
  BY Zenon, RecIs DEF ConnOK, LineOK
<1>2. \A p \in ActorPackets : <<p, p>> \notin Accepted(t)
  BY Zenon, AcceptedStrict
<1> DEFINE l == Line(x)
<1>3. Sorted(Cut(l, i), Accepted(t)) /\ Owed(Cut(l, i)) = Owed(l) \ {l[i]}
  <2> HIDE DEF l
  <2>1. l \in Seq(Msgs) /\ Sorted(l, Accepted(t)) /\ i \in 1 .. Len(l)
    BY Zenon, <1>1 DEF l
  <2> QED
    BY Zenon, <1>2, <2>1, CutKeeps
<1>4. Holds(y) = Holds(x) \ {Line(x)[i]}
  BY Zenon, <1>3 DEF Holds
<1> QED
  BY Zenon, <1>3, <1>4, KeepsConn

-----------------------------------------------------------------------------
(* The steps of a connection.                                               *)

\* What the invariant says of one connection.
LEMMA ConnIs ==
    ASSUME ActorInv, NEW a \in ActorIds
    PROVE  /\ ConnOK(actor[a], taken) /\ actor[a] \in ActorRec /\ PhaseOK(actor[a])
           /\ taken \in Seq(ActorPackets) /\ EachOnce(taken)
           /\ \A y : [actor EXCEPT ![a] = y] =
                       [b \in ActorIds |-> IF b = a THEN y ELSE actor[b]]
<1>1. actor = [b \in ActorIds |-> actor[b]]
  BY Zenon DEF ActorInv, ConnsOK
<1>2. \A y : [actor EXCEPT ![a] = y] = [b \in ActorIds |-> IF b = a THEN y ELSE actor[b]]
  BY <1>1
<1> QED
  BY Zenon, <1>2 DEF ActorInv, ConnsOK, ConnOK, SendsOK

\* Before Conn::finish.
Working == ActorStates \ {"none", "drain", "done"}

\* A working connection has an open inbox.
LEMMA WorkingIs ==
    ASSUME NEW x, PhaseOK(x), x.at \in Working, NEW y, y.at \in Working,
           y.open = x.open
    PROVE  PhaseOK(y) /\ x.at # "none"
    BY Zenon DEF PhaseOK, Working

\* A step of a connection that leaves its line, its frames and the inbox's being
\* open as they are.
LEMMA LineKept ==
    ASSUME ActorInv, NEW a \in ActorIds, actor[a].at \in Working,
           NEW y \in ActorRec, y.at \in Working, y.open = actor[a].open,
           y.sendq = actor[a].sendq, y.inbox = actor[a].inbox,
           y.wrote = actor[a].wrote, y.writing \in {actor[a].writing, NoFrame},
           actor' = [actor EXCEPT ![a] = y],
           psvc' = psvc, told' = told, taken' = taken, sending' = sending
    PROVE  ActorInv' /\ \A p \in ActorPackets : FateStep(p)
<1> DEFINE x == actor[a]
<1>1. ConnOK(x, taken) /\ x \in ActorRec /\ PhaseOK(x)
  BY Zenon, ConnIs
<1>2. PhaseOK(y) /\ x.at # "none"
  BY Zenon, <1>1, WorkingIs
<1>3. Line(y) = Line(x)
  BY Zenon DEF Line
<1>4. ConnOK(y, taken) /\ Holds(y) = Holds(x)
  BY Zenon, <1>1, <1>2, <1>3, SameLine
<1>5. ServiceOK'
  BY Zenon, <1>2, ServiceKept
<1>6. Range(actor[a].wrote) \subseteq Range(y.wrote)
  BY Zenon
<1> QED
  BY Zenon, <1>4, <1>5, <1>6, ConnMove

\* A task that goes on elsewhere.
Goes(x, at) == [x EXCEPT !.at = at]

\* Going on elsewhere changes nothing else of a connection.
LEMMA SetAt ==
    ASSUME NEW x \in ActorRec, NEW at \in ActorStates, NEW y,
           y = Goes(x, at)
    PROVE  /\ y \in ActorRec /\ y.at = at /\ y.open = x.open /\ y.sendq = x.sendq
           /\ y.inbox = x.inbox /\ y.wrote = x.wrote /\ y.writing = x.writing
    BY Zenon DEF ActorRec, Goes

\* A task that goes on with Conn::finish.
LEMMA EndsIs ==
    ASSUME NEW x \in ActorRec, NEW b \in BOOLEAN, NEW y, y = Ends(x, b)
    PROVE  /\ y \in ActorRec /\ y.at = "finish" /\ y.open = x.open /\ y.sendq = x.sendq
           /\ y.inbox = x.inbox /\ y.wrote = x.wrote /\ y.writing = x.writing
    BY Zenon DEF ActorRec, ActorStates, Ends

\* A task whose link is gone.
LEMMA DownIs ==
    ASSUME NEW x \in ActorRec, NEW y,
           y = [x EXCEPT !.connected = FALSE, !.writing = NoFrame]
    PROVE  /\ y \in ActorRec /\ y.at = x.at /\ y.open = x.open /\ y.sendq = x.sendq
           /\ y.inbox = x.inbox /\ y.wrote = x.wrote /\ y.writing = NoFrame
    BY Zenon DEF ActorRec

\* The dial's outcome.
LEMMA DialedStep ==
    ASSUME ActorInv, NEW a \in ActorIds, Dialed(a)
    PROVE  ActorInv' /\ \A p \in ActorPackets : FateStep(p)
<1> DEFINE x == actor[a]
<1>1. x \in ActorRec
  BY Zenon, ConnIs
<1>2. /\ x.at \in Working /\ {"start", "backoff", "finish"} \subseteq Working
      /\ Working \subseteq ActorStates
  BY DEF Dialed, Working, ActorStates
<1>3. PICK y : /\ y \in {Goes(x, "start"), Goes(x, "backoff"), Ends(x, FALSE)}
               /\ actor' = [actor EXCEPT ![a] = y]
  BY Zenon DEF Dialed, Goes
<1>4. /\ y \in ActorRec /\ y.at \in Working /\ y.open = x.open
      /\ y.sendq = x.sendq /\ y.inbox = x.inbox /\ y.wrote = x.wrote
      /\ y.writing \in {x.writing, NoFrame}
  <2>1. FALSE \in BOOLEAN /\ "start" \in ActorStates /\ "backoff" \in ActorStates
    BY <1>2
  <2>2. CASE y = Goes(x, "start")
    <3>1. /\ y \in ActorRec /\ y.at = "start" /\ y.open = x.open /\ y.sendq = x.sendq
          /\ y.inbox = x.inbox /\ y.wrote = x.wrote /\ y.writing = x.writing
      BY <1>1, <2>1, <2>2, SetAt
    <3>2. "start" \in Working
      BY <1>2
    <3> QED
      BY Zenon, <3>1, <3>2
  <2>3. CASE y = Goes(x, "backoff")
    <3>1. /\ y \in ActorRec /\ y.at = "backoff" /\ y.open = x.open /\ y.sendq = x.sendq
          /\ y.inbox = x.inbox /\ y.wrote = x.wrote /\ y.writing = x.writing
      BY <1>1, <2>1, <2>3, SetAt
    <3>2. "backoff" \in Working
      BY <1>2
    <3> QED
      BY Zenon, <3>1, <3>2
  <2>4. CASE y = Ends(x, FALSE)
    BY ZenonT(40), <1>1, <1>2, <2>1, <2>4, EndsIs
  <2> QED
    BY Zenon, <1>3, <2>2, <2>3, <2>4
<1>5. psvc' = psvc /\ told' = told /\ taken' = taken /\ sending' = sending
  BY Zenon DEF Dialed
<1> QED
  BY Zenon, <1>2, <1>3, <1>4, <1>5, LineKept

\* The end of the pause after a failed dial.
LEMMA BackoffStep ==
    ASSUME ActorInv, NEW a \in ActorIds, BackoffOver(a)
    PROVE  ActorInv' /\ \A p \in ActorPackets : FateStep(p)
<1> DEFINE x == actor[a]
           y == Goes(x, "connect")
<1>1. x \in ActorRec
  BY Zenon, ConnIs
<1>2. x.at \in Working /\ "connect" \in Working /\ Working \subseteq ActorStates
  BY DEF BackoffOver, Working, ActorStates
<1>3. actor' = [actor EXCEPT ![a] = y]
  BY DEF BackoffOver, Goes
<1>4. /\ y \in ActorRec /\ y.at \in Working /\ y.open = x.open
      /\ y.sendq = x.sendq /\ y.inbox = x.inbox /\ y.wrote = x.wrote
      /\ y.writing \in {x.writing, NoFrame}
  <2>1. y = Goes(x, "connect") /\ "connect" \in ActorStates
    BY <1>2
  <2> HIDE DEF y
  <2> QED
    BY <1>1, <1>2, <2>1, SetAt
<1>5. psvc' = psvc /\ told' = told /\ taken' = taken /\ sending' = sending
  BY Zenon DEF BackoffOver
<1> HIDE DEF y
<1> QED
  BY Zenon, <1>2, <1>3, <1>4, <1>5, LineKept

\* Conn::serve begins.
LEMMA ServeStep ==
    ASSUME ActorInv, NEW a \in ActorIds, Serve(a)
    PROVE  ActorInv' /\ \A p \in ActorPackets : FateStep(p)
<1> DEFINE x == actor[a]
           y == [x EXCEPT !.at = "serve", !.connected = TRUE, !.writing = NoFrame]
<1>1. x \in ActorRec
  BY Zenon, ConnIs
<1>2. x.at \in Working /\ "serve" \in Working /\ Working \subseteq ActorStates
  BY DEF Serve, Working, ActorStates
<1>3. actor' = [actor EXCEPT ![a] = y]
  BY DEF Serve
<1>4. /\ y \in ActorRec /\ y.at \in Working /\ y.open = x.open
      /\ y.sendq = x.sendq /\ y.inbox = x.inbox /\ y.wrote = x.wrote
      /\ y.writing \in {x.writing, NoFrame}
  BY Zenon, <1>1, <1>2 DEF ActorRec
<1>5. psvc' = psvc /\ told' = told /\ taken' = taken /\ sending' = sending
  BY Zenon DEF Serve
<1> HIDE DEF y
<1> QED
  BY Zenon, <1>2, <1>3, <1>4, <1>5, LineKept

\* The link is lost.
LEMMA LostStep ==
    ASSUME ActorInv, NEW a \in ActorIds, Lost(a)
    PROVE  ActorInv' /\ \A p \in ActorPackets : FateStep(p)
<1> DEFINE x == actor[a]
           v == [x EXCEPT !.connected = FALSE, !.writing = NoFrame]
<1>1. x \in ActorRec
  BY Zenon, ConnIs
<1>2. /\ x.at \in Working /\ {"connect", "finish"} \subseteq Working
      /\ Working \subseteq ActorStates
  BY DEF Lost, Working, ActorStates
<1>3. PICK y : /\ y \in {Goes(v, "connect"), Ends(v, FALSE)}
               /\ actor' = [actor EXCEPT ![a] = y]
  BY Zenon DEF Lost, Goes
<1>4. /\ v \in ActorRec /\ v.open = x.open /\ v.sendq = x.sendq
      /\ v.inbox = x.inbox /\ v.wrote = x.wrote /\ v.writing = NoFrame
  BY Zenon, <1>1, DownIs
<1> HIDE DEF v
<1>5. /\ y \in ActorRec /\ y.at \in Working /\ y.open = x.open
      /\ y.sendq = x.sendq /\ y.inbox = x.inbox /\ y.wrote = x.wrote
      /\ y.writing \in {x.writing, NoFrame}
  <2>1. FALSE \in BOOLEAN /\ "connect" \in ActorStates
    BY <1>2
  <2>2. CASE y = Goes(v, "connect")
    <3>1. /\ y \in ActorRec /\ y.at = "connect" /\ y.open = v.open /\ y.sendq = v.sendq
          /\ y.inbox = v.inbox /\ y.wrote = v.wrote /\ y.writing = v.writing
      BY <1>4, <2>1, <2>2, SetAt
    <3>2. "connect" \in Working
      BY <1>2
    <3> QED
      BY Zenon, <1>4, <3>1, <3>2
  <2>3. CASE y = Ends(v, FALSE)
    BY ZenonT(40), <1>2, <1>4, <2>1, <2>3, EndsIs
  <2> QED
    BY Zenon, <1>3, <2>2, <2>3
<1>6. psvc' = psvc /\ told' = told /\ taken' = taken /\ sending' = sending
  BY Zenon DEF Lost
<1> QED
  BY Zenon, <1>2, <1>3, <1>5, <1>6, LineKept

\* What a connection becomes that takes a message.
LEMMA TakesIs ==
    ASSUME NEW x \in ActorRec, x.inbox # <<>>, NEW y, y = Takes1(x)
    PROVE  /\ y \in ActorRec /\ y.open = x.open /\ y.inbox = Tail(x.inbox)
           /\ y.wrote = x.wrote /\ y.writing = x.writing
           /\ Head(x.inbox) = CloseMsg => y.sendq = x.sendq /\ y.at = "finish"
           /\ Head(x.inbox) # CloseMsg =>
                 y.sendq = Append(x.sendq, Head(x.inbox)) /\ y.at = x.at
<1> DEFINE m == Head(x.inbox)
           b == Tail(x.inbox)
           v == [x EXCEPT !.inbox = b]
           z == [v EXCEPT !.connected = FALSE]
<1>0. x.inbox \in Seq(Msgs) /\ x.sendq \in Seq(ActorPackets)
  BY Zenon, RecIs
<1>1. m \in Msgs /\ b \in Seq(Msgs)
  BY Zenon, <1>0, HeadTailProperties
<1> HIDE DEF m, b
<1>2. /\ v \in ActorRec /\ v.at = x.at /\ v.open = x.open /\ v.sendq = x.sendq
      /\ v.inbox = b /\ v.wrote = x.wrote /\ v.writing = x.writing
  BY Zenon, <1>1 DEF ActorRec
<1>3. y = IF m = CloseMsg THEN Ends(z, TRUE) ELSE [v EXCEPT !.sendq = Append(v.sendq, m)]
  BY Zenon DEF Takes1, m, b
<1> HIDE DEF v
<1>4. CASE m = CloseMsg
  <2>1. /\ z \in ActorRec /\ z.open = v.open /\ z.sendq = v.sendq
        /\ z.inbox = v.inbox /\ z.wrote = v.wrote /\ z.writing = v.writing
    BY Zenon, <1>2 DEF ActorRec
  <2>2. y = Ends(z, TRUE) /\ TRUE \in BOOLEAN
    BY Zenon, <1>3, <1>4
  <2> HIDE DEF z
  <2> QED
    BY ZenonT(40), <1>2, <1>4, <2>1, <2>2, EndsIs DEF m, b
<1>5. CASE m # CloseMsg
  <2>1. m \in ActorPackets
    BY Zenon, <1>1, <1>5 DEF Msgs
  <2>2. Append(v.sendq, m) \in Seq(ActorPackets)
    BY Zenon, <1>0, <1>2, <2>1, AppendProperties
  <2>3. y = [v EXCEPT !.sendq = Append(v.sendq, m)]
    BY Zenon, <1>3, <1>5
  <2>4. /\ y \in ActorRec /\ y.at = v.at /\ y.open = v.open
        /\ y.sendq = Append(v.sendq, m)
        /\ y.inbox = v.inbox /\ y.wrote = v.wrote /\ y.writing = v.writing
    BY Zenon, <1>2, <2>2, <2>3 DEF ActorRec
  <2> QED
    BY Zenon, <1>2, <1>5, <2>4 DEF m, b
<1> QED
  BY Zenon, <1>4, <1>5

\* A line that loses a close still holds all its packets.
LEMMA CloseGone ==
    ASSUME NEW x, NEW y, NEW e, e = CloseMsg, Holds(y) = Holds(x) \ {e}
    PROVE  Holds(y) = Holds(x)
    BY Zenon DEF Holds, Owed

\* A message is taken from the inbox.
LEMMA TakeStep ==
    ASSUME ActorInv, NEW a \in ActorIds, TakeMessage(a)
    PROVE  ActorInv' /\ \A p \in ActorPackets : FateStep(p)
<1> DEFINE x == actor[a]
           y == Takes1(x)
           b == x.inbox
<1>1. /\ ConnOK(x, taken) /\ x \in ActorRec /\ PhaseOK(x)
      /\ taken \in Seq(ActorPackets) /\ EachOnce(taken)
  BY Zenon, ConnIs
<1>2. /\ x.at \in Working /\ "finish" \in Working /\ b # <<>>
      /\ psvc' = psvc /\ told' = told /\ taken' = taken /\ sending' = sending
  BY DEF TakeMessage, Working, ActorStates
<1>3. actor' = [actor EXCEPT ![a] = y]
  BY Zenon DEF TakeMessage
<1>4. /\ y \in ActorRec /\ y.open = x.open /\ y.inbox = Tail(b)
      /\ y.wrote = x.wrote /\ y.writing = x.writing
      /\ Head(b) = CloseMsg => y.sendq = x.sendq /\ y.at = "finish"
      /\ Head(b) # CloseMsg =>
            y.sendq = Append(x.sendq, Head(b)) /\ y.at = x.at
  BY Zenon, <1>1, <1>2, TakesIs
<1>5. x.sendq \in Seq(Msgs) /\ b \in Seq(Msgs)
  BY Zenon, <1>1, RecIs
<1> HIDE DEF y
<1>6. PhaseOK(y) /\ x.at # "none"
  BY Zenon, <1>1, <1>2, <1>4, WorkingIs
<1>7. ConnOK(y, taken) /\ Holds(y) = Holds(x)
  <2>1. CASE Head(b) # CloseMsg
    <3>1. Line(y) = Line(x)
      BY ZenonT(40), <1>2, <1>4, <1>5, <2>1, MoveKeeps DEF Line
    <3> QED
      BY Zenon, <1>1, <1>4, <1>6, <3>1, SameLine
  <2>2. CASE Head(b) = CloseMsg
    <3> DEFINE i == Len(x.sendq) + 1
    <3>1. /\ i \in 1 .. Len(x.sendq \o b) /\ (x.sendq \o b)[i] = CloseMsg
          /\ x.sendq \o Tail(b) = Cut(x.sendq \o b, i)
      BY Zenon, <1>2, <1>5, <2>2, DropClose
    <3>2. Line(x) = x.sendq \o b /\ Line(y) = x.sendq \o Tail(b)
      BY Zenon, <1>4, <2>2 DEF Line
    <3>3. /\ Line(y) = Cut(Line(x), i)
          /\ i \in 1 .. Len(Line(x)) /\ Line(x)[i] = CloseMsg
      BY Zenon, <3>1, <3>2
    <3> HIDE DEF i
    <3>4. y \in ActorRec /\ y.wrote = x.wrote /\ y.writing \in {x.writing, NoFrame}
      BY Zenon, <1>4
    <3>5. ConnOK(y, taken) /\ Holds(y) = Holds(x) \ {Line(x)[i]}
      BY <1>1, <1>6, <3>3, <3>4, ShorterLine
    <3> QED
      BY Zenon, <3>3, <3>5, CloseGone
  <2> QED
    BY Zenon, <2>1, <2>2
<1>8. ServiceOK'
  BY Zenon, <1>2, <1>3, <1>4, <1>6, ServiceKept
<1>9. Range(actor[a].wrote) \subseteq Range(y.wrote)
  BY Zenon, <1>4
<1> QED
  BY Zenon, <1>2, <1>3, <1>7, <1>8, <1>9, ConnMove

\* What drain_ready makes of a connection.
LEMMA DrainedIs ==
    ASSUME NEW x \in ActorRec, NEW n \in BeforeClose(x.inbox), NEW z, z = Drained(x, n)
    PROVE  /\ z \in ActorRec /\ z.open = x.open
           /\ z.wrote = x.wrote /\ z.writing = x.writing
           /\ z.at = x.at \/ z.at = "finish"
           /\ \/ Line(z) = Line(x)
              \/ \E i \in 1 .. Len(Line(x)) :
                    Line(x)[i] = CloseMsg /\ Line(z) = Cut(Line(x), i)
<1> DEFINE q == x.sendq
           b == x.inbox
           s1 == SubSeq(b, 1, n)
           s2 == SubSeq(b, n + 2, Len(b))
           v == [x EXCEPT !.sendq = q \o s1, !.inbox = s2]
<1>0. b \in Seq(Msgs) /\ q \in Seq(ActorPackets) /\ q \in Seq(Msgs)
  BY Zenon, RecIs
<1>1. /\ n \in 0 .. Len(b) /\ \A i \in 1 .. n : b[i] # CloseMsg
      /\ n < Len(b) => b[n + 1] = CloseMsg
  BY Zenon DEF BeforeClose
<1>2. z = IF n < Len(b) THEN Ends(v, TRUE) ELSE v
  BY Zenon DEF Drained
<1>3. /\ s1 \in Seq(ActorPackets) /\ s2 \in Seq(Msgs)
      /\ n = Len(b) => (q \o s1) \o s2 = q \o b
      /\ n # Len(b) => /\ Len(q) + (n + 1) \in 1 .. Len(q \o b)
                       /\ (q \o b)[Len(q) + (n + 1)] = CloseMsg
                       /\ (q \o s1) \o s2 = Cut(q \o b, Len(q) + (n + 1))
  BY ZenonT(40), <1>0, <1>1, DrainKeeps
<1> HIDE DEF s1, s2
<1>4. q \o s1 \in Seq(ActorPackets)
  BY Zenon, <1>0, <1>3, ConcatProperties
<1>5. /\ v \in ActorRec /\ v.at = x.at /\ v.open = x.open /\ v.sendq = q \o s1
      /\ v.inbox = s2 /\ v.wrote = x.wrote /\ v.writing = x.writing
  BY Zenon, <1>3, <1>4 DEF ActorRec
<1> HIDE DEF v
<1>6. /\ z \in ActorRec /\ z.open = v.open /\ z.wrote = v.wrote
      /\ z.writing = v.writing /\ z.sendq = v.sendq /\ z.inbox = v.inbox
      /\ z.at = v.at \/ z.at = "finish"
  <2>1. CASE n < Len(b)
    <3>1. z = Ends(v, TRUE) /\ TRUE \in BOOLEAN
      BY Zenon, <1>2, <2>1
    <3> QED
      BY Zenon, <1>5, <3>1, EndsIs
  <2>2. CASE ~(n < Len(b))
    BY Zenon, <1>2, <1>5, <2>2
  <2> QED
    BY Zenon, <2>1, <2>2
<1>7. Line(z) = (q \o s1) \o s2 /\ Line(x) = q \o b
  BY Zenon, <1>5, <1>6 DEF Line
<1>8. \/ Line(z) = Line(x)
      \/ \E i \in 1 .. Len(Line(x)) : Line(x)[i] = CloseMsg /\ Line(z) = Cut(Line(x), i)
  <2>1. CASE n = Len(b)
    BY Zenon, <1>3, <1>7, <2>1
  <2>2. CASE n # Len(b)
    <3> DEFINE i == Len(q) + (n + 1)
    <3>1. /\ i \in 1 .. Len(Line(x)) /\ Line(x)[i] = CloseMsg
          /\ Line(z) = Cut(Line(x), i)
      BY Zenon, <1>3, <1>7, <2>2
    <3> QED
      BY Zenon, <3>1
  <2> QED
    BY Zenon, <2>1, <2>2
<1> QED
  BY Zenon, <1>5, <1>6, <1>8

\* Conn::connect up to the dial.
LEMMA ConnectStep ==
    ASSUME ActorInv, NEW a \in ActorIds, ConnectBegins(a)
    PROVE  ActorInv' /\ \A p \in ActorPackets : FateStep(p)
<1>0. PICK n \in BeforeClose(actor[a].inbox) :
         LET z == Drained(actor[a], n)
         IN  actor' = [actor EXCEPT ![a] =
                          IF z.at = "finish" THEN z
                          ELSE IF z.sendq = <<>> THEN Ends(z, FALSE)
                          ELSE IF psvc.stopped THEN Ends(z, TRUE)
                          ELSE [z EXCEPT !.at = "dialing"]]
  BY Zenon DEF ConnectBegins
<1> DEFINE x == actor[a]
           z == Drained(x, n)
<1>1. /\ ConnOK(x, taken) /\ x \in ActorRec /\ PhaseOK(x)
      /\ taken \in Seq(ActorPackets) /\ EachOnce(taken)
  BY Zenon, ConnIs
<1>2. /\ x.at = "connect" /\ x.at \in Working /\ "finish" \in Working
      /\ "dialing" \in Working /\ "dialing" \in ActorStates
  BY DEF ConnectBegins, Working, ActorStates
<1>3. told' = told /\ taken' = taken /\ sending' = sending
  BY Zenon DEF ConnectBegins
<1>4. psvc' \in ServiceRec /\ psvc'.table = psvc.table /\ psvc'.made = psvc.made
  <2>1. psvc \in ServiceRec
    BY Zenon DEF ActorInv, ServiceOK
  <2>2. psvc' = [psvc EXCEPT !.dials = psvc.dials + 1]
    BY Zenon DEF ConnectBegins
  <2> QED
    BY <2>1, <2>2 DEF ServiceRec
<1>5. PICK y : /\ actor' = [actor EXCEPT ![a] = y]
               /\ \/ z.at = "finish" /\ y = z
                  \/ y = Ends(z, FALSE) \/ y = Ends(z, TRUE) \/ y = Goes(z, "dialing")
  BY Zenon, <1>0 DEF Goes
<1>6. /\ z \in ActorRec /\ z.open = x.open
      /\ z.wrote = x.wrote /\ z.writing = x.writing
      /\ \/ Line(z) = Line(x)
         \/ \E i \in 1 .. Len(Line(x)) :
               Line(x)[i] = CloseMsg /\ Line(z) = Cut(Line(x), i)
  BY <1>0, <1>1, DrainedIs
<1> HIDE DEF z
<1>7. /\ y \in ActorRec /\ y.open = z.open /\ y.sendq = z.sendq /\ y.inbox = z.inbox
      /\ y.wrote = z.wrote /\ y.writing = z.writing /\ y.at \in Working
  <2>1. CASE z.at = "finish" /\ y = z
    BY Zenon, <1>2, <1>6, <2>1
  <2>2. CASE y = Ends(z, FALSE) \/ y = Ends(z, TRUE)
    <3>1. PICK b \in BOOLEAN : y = Ends(z, b)
      BY Zenon, <2>2
    <3>2. z \in ActorRec /\ "finish" \in Working
      BY Zenon, <1>2, <1>6
    <3>3. /\ y \in ActorRec /\ y.at = "finish" /\ y.open = z.open /\ y.sendq = z.sendq
          /\ y.inbox = z.inbox /\ y.wrote = z.wrote /\ y.writing = z.writing
      BY ZenonT(40), <3>1, <3>2, EndsIs
    <3> QED
      BY Zenon, <3>2, <3>3
  <2>3. CASE y = Goes(z, "dialing")
    <3>1. /\ y \in ActorRec /\ y.at = "dialing" /\ y.open = z.open /\ y.sendq = z.sendq
          /\ y.inbox = z.inbox /\ y.wrote = z.wrote /\ y.writing = z.writing
      BY <1>2, <1>6, <2>3, SetAt
    <3> QED
      BY Zenon, <1>2, <3>1
  <2> QED
    BY Zenon, <1>5, <2>1, <2>2, <2>3
<1>8. PhaseOK(y) /\ x.at # "none"
  <2>1. y.open = x.open
    BY Zenon, <1>6, <1>7
  <2> QED
    BY Zenon, <1>1, <1>2, <1>7, <2>1, WorkingIs
<1>9. Line(y) = Line(z) /\ y.wrote = x.wrote /\ y.writing \in {x.writing, NoFrame}
  BY Zenon, <1>6, <1>7 DEF Line
<1>10. ConnOK(y, taken) /\ Holds(y) = Holds(x)
  <2>1. CASE Line(z) = Line(x)
    <3>1. Line(y) = Line(x)
      BY Zenon, <1>9, <2>1
    <3> QED
      BY Zenon, <1>1, <1>7, <1>8, <1>9, <3>1, SameLine
  <2>2. CASE \E i \in 1 .. Len(Line(x)) :
                Line(x)[i] = CloseMsg /\ Line(z) = Cut(Line(x), i)
    <3>1. PICK i \in 1 .. Len(Line(x)) : Line(x)[i] = CloseMsg /\ Line(y) = Cut(Line(x), i)
      BY Zenon, <1>9, <2>2
    <3>2. y \in ActorRec
      BY Zenon, <1>7
    <3>3. ConnOK(y, taken) /\ Holds(y) = Holds(x) \ {Line(x)[i]}
      BY <1>1, <1>8, <1>9, <3>1, <3>2, ShorterLine
    <3> QED
      BY Zenon, <3>1, <3>3, CloseGone
  <2> QED
    BY Zenon, <1>6, <2>1, <2>2
<1>11. ServiceOK'
  <2>1. y.open = actor[a].open
    BY Zenon, <1>6, <1>7
  <2> QED
    BY Zenon, <1>4, <1>5, <1>8, <2>1, ServiceKept
<1>12. Range(actor[a].wrote) \subseteq Range(y.wrote)
  BY Zenon, <1>9
<1> QED
  BY Zenon, <1>3, <1>5, <1>10, <1>11, <1>12, ConnMove

\* The first packet of the queue goes to the writer.
LEMMA WriteStep ==
    ASSUME ActorInv, NEW a \in ActorIds, WriteFrame(a)
    PROVE  ActorInv' /\ \A p \in ActorPackets : FateStep(p)
<1> DEFINE x == actor[a]
           q == x.sendq
           h == Head(q)
           w == x.wrote
           w1 == Append(w, h)
           y == [x EXCEPT !.writing = h, !.wrote = w1]
<1>1. /\ ConnOK(x, taken) /\ x \in ActorRec /\ PhaseOK(x)
      /\ taken \in Seq(ActorPackets) /\ EachOnce(taken)
  BY Zenon, ConnIs
<1>2. x.at \in Working /\ q # <<>>
  BY DEF WriteFrame, Working, ActorStates
<1>3. psvc' = psvc /\ told' = told /\ taken' = taken /\ sending' = sending
  BY Zenon DEF WriteFrame
<1>4. actor' = [actor EXCEPT ![a] = y]
  BY Zenon DEF WriteFrame
<1>5. q \in Seq(ActorPackets) /\ q \in Seq(Msgs) /\ x.inbox \in Seq(Msgs)
      /\ w \in Seq(ActorPackets) /\ Line(x) \in Seq(Msgs)
  BY Zenon, <1>1, RecIs
<1>6. h = q[1] /\ 1 \in 1 .. Len(q) /\ h \in ActorPackets
  BY Zenon, <1>2, <1>5, CutHead, HeadTailProperties
<1>7. 1 \in 1 .. Len(Line(x)) /\ Line(x)[1] = h
  BY Zenon, <1>5, <1>6, FirstOfLine DEF Line
<1> HIDE DEF h, q
<1>8. /\ w1 \in Seq(ActorPackets) /\ Len(w1) = Len(w) + 1
      /\ \A j \in 1 .. Len(w) : w1[j] = w[j]
      /\ w1[Len(w) + 1] = h /\ Len(w) \in Nat
  BY <1>5, <1>6, AppendProperties, LenProperties
<1>9. /\ y \in ActorRec /\ y.at = x.at /\ y.open = x.open /\ y.sendq = x.sendq
      /\ y.inbox = x.inbox /\ y.wrote = w1 /\ y.writing = h
  BY Zenon, <1>1, <1>6, <1>8 DEF ActorRec
<1> HIDE DEF y, w1
<1>10. Line(y) = Line(x) /\ Holds(y) = Holds(x)
  BY Zenon, <1>9 DEF Line, Holds
<1>11. h \in Holds(x) /\ h # CloseMsg
  <2>1. h # CloseMsg
    BY Zenon, <1>6, ActorAssumption
  <2>2. h \in Range(Line(x))
    BY Zenon, <1>5, <1>7, RangeIs
  <2> QED
    BY Zenon, <2>1, <2>2 DEF Holds, Owed
<1>12. ASSUME NEW e PROVE e \in Range(w1) <=> e \in Range(w) \/ e = h
  <2>1. /\ \A u : u \in Range(w) <=> \E i \in 1 .. Len(w) : w[i] = u
        /\ \A u : u \in Range(w1) <=> \E i \in 1 .. Len(w1) : w1[i] = u
    BY ZenonT(40), <1>5, <1>8, RangeIs
  <2>2. /\ \A j \in 1 .. Len(w1) : j \in 1 .. Len(w) \/ j = Len(w) + 1
        /\ \A j \in 1 .. Len(w) : j \in 1 .. Len(w1)
        /\ Len(w) + 1 \in 1 .. Len(w1)
    BY <1>8
  <2> QED
    BY Zenon, <1>8, <2>1, <2>2
<1>13. ASSUME NEW p \in Holds(x) PROVE NotAfter(h, p, taken)
  <2>1. Sorted(Line(x), Accepted(taken)) /\ DOMAIN Line(x) = 1 .. Len(Line(x))
    BY Zenon, <1>1, <1>5, RangeIs DEF ConnOK, LineOK
  <2>2. PICK j \in 1 .. Len(Line(x)) : Line(x)[j] = p /\ p # CloseMsg
    BY Zenon, <1>5, RangeIs DEF Holds, Owed
  <2>3. CASE j = 1
    BY Zenon, <1>7, <2>2, <2>3 DEF NotAfter
  <2>4. CASE j # 1
    <3>1. 1 < j
      BY <2>4
    <3>2. <<h, p>> \in Accepted(taken)
      BY Zenon, <1>7, <1>11, <2>1, <2>2, <3>1 DEF Sorted
    <3> QED
      BY Zenon, <3>2 DEF NotAfter
  <2> QED
    BY Zenon, <2>3, <2>4
<1>14. WroteOK(x, taken) /\ LineOK(x, taken)
  BY Zenon, <1>1 DEF ConnOK
<1>15. WroteOK(y, taken)
  <2>1. Range(w1) \subseteq Range(taken)
    <3>1. Range(w) \subseteq Range(taken) /\ h \in Range(taken)
      BY Zenon, <1>11, <1>14 DEF WroteOK, LineOK
    <3> QED
      BY Zenon, <1>12, <3>1
  <2>2. ASSUME NEW i \in 1 .. Len(w1) - 1 PROVE NotAfter(w1[i], w1[i + 1], taken)
    <3>1. CASE i \in 1 .. Len(w) - 1
      <4>1. NotAfter(w[i], w[i + 1], taken)
        BY Zenon, <1>14, <3>1 DEF WroteOK
      <4>2. i \in 1 .. Len(w) /\ i + 1 \in 1 .. Len(w)
        BY <1>8, <3>1
      <4> QED
        BY Zenon, <1>8, <4>1, <4>2
    <3>2. CASE i = Len(w)
      <4>1. w # <<>> /\ i \in 1 .. Len(w)
        BY <1>5, <1>8, <3>2
      <4>2. NotAfter(w[Len(w)], h, taken)
        BY Zenon, <1>11, <1>14, <4>1 DEF WroteOK
      <4> QED
        BY Zenon, <1>8, <3>2, <4>1, <4>2
    <3>3. i \in 1 .. Len(w) - 1 \/ i = Len(w)
      BY <1>8
    <3> QED
      BY Zenon, <3>1, <3>2, <3>3
  <2>3. w1[Len(w1)] = h
    BY Zenon, <1>8
  <2>4. h \in Range(w1)
    BY Zenon, <1>12
  <2> QED
    BY Zenon, <1>9, <1>10, <1>13, <2>1, <2>2, <2>3, <2>4 DEF WroteOK
<1>16. PhaseOK(y) /\ x.at # "none"
  <2>1. y.at \in Working /\ y.open = x.open
    BY Zenon, <1>2, <1>9
  <2> QED
    BY Zenon, <1>1, <1>2, <2>1, WorkingIs
<1>17. ConnOK(y, taken)
  BY Zenon, <1>9, <1>10, <1>14, <1>15, <1>16 DEF ConnOK, LineOK
<1>18. ServiceOK'
  BY Zenon, <1>3, <1>4, <1>9, <1>16, ServiceKept
<1>19. Range(actor[a].wrote) \subseteq Range(y.wrote)
  BY Zenon, <1>9, <1>12
<1> QED
  BY ZenonT(40), <1>3, <1>4, <1>10, <1>17, <1>18, <1>19, ConnMove

\* A connection's step in which one packet gets its outcome.
LEMMA ConnAnswer ==
    ASSUME ActorInv, ServiceOK',
           NEW a \in ActorIds, NEW y, ConnOK(y, taken), NEW o \in AllOutcomes,
           NEW e \in ActorPackets, e \in Holds(actor[a]),
           Holds(y) = Holds(actor[a]) \ {e},
           Range(actor[a].wrote) \subseteq Range(y.wrote),
           o = "Success" => e \in Range(y.wrote),
           actor' = [actor EXCEPT ![a] = y],
           told' = [told EXCEPT ![e] = Append(@, o)],
           taken' = taken, sending' = sending
    PROVE  ActorInv' /\ \A p \in ActorPackets : FateStep(p)
<1>1. \A p : p \in Holds(actor[a]) \ Holds(y) <=> p = e
  BY Zenon
<1>2. told = [p \in ActorPackets |-> told[p]]
  BY Zenon DEF ActorInv, FatesOK
<1>3. Tells(Holds(actor[a]) \ Holds(y), o)
  BY Zenon, <1>1, <1>2 DEF Tells
<1>4. o = "Success" => Holds(actor[a]) \ Holds(y) \subseteq Range(y.wrote)
  BY <1>1
<1>5. Holds(y) \subseteq Holds(actor[a])
  BY Zenon
<1> QED
  BY Zenon, <1>3, <1>4, <1>5, ConnStep

\* A queue from which a packet is taken.
LEMMA QueueLoses ==
    ASSUME NEW t \in Seq(ActorPackets), EachOnce(t), NEW x, ConnOK(x, t),
           NEW y \in ActorRec, NEW i \in 1 .. Len(x.sendq),
           y.sendq = Cut(x.sendq, i), y.inbox = x.inbox,
           y.wrote = x.wrote, y.writing \in {x.writing, NoFrame}, PhaseOK(y)
    PROVE  /\ ConnOK(y, t) /\ x.sendq[i] \in ActorPackets
           /\ x.sendq[i] \in Holds(x) /\ Holds(y) = Holds(x) \ {x.sendq[i]}
<1> DEFINE e == x.sendq[i]
<1>1. /\ x \in ActorRec /\ x.sendq \in Seq(ActorPackets) /\ x.sendq \in Seq(Msgs)
      /\ x.inbox \in Seq(Msgs) /\ Line(x) \in Seq(Msgs)
  BY Zenon, RecIs DEF ConnOK
<1>2. e \in ActorPackets
  BY <1>1
<1>3. i \in 1 .. Len(Line(x)) /\ Line(x)[i] = e /\ Line(y) = Cut(Line(x), i)
  <2>1. /\ i \in 1 .. Len(x.sendq \o x.inbox) /\ (x.sendq \o x.inbox)[i] = e
        /\ Cut(x.sendq \o x.inbox, i) = Cut(x.sendq, i) \o x.inbox
    BY Zenon, <1>1, FirstOfLine
  <2> QED
    BY Zenon, <2>1 DEF Line
<1>4. e # CloseMsg
  BY Zenon, <1>2, ActorAssumption
<1>5. e \in Holds(x)
  <2>1. e \in Range(Line(x))
    BY Zenon, <1>1, <1>3, RangeIs
  <2> QED
    BY Zenon, <1>4, <2>1 DEF Holds, Owed
<1>6. ConnOK(y, t) /\ Holds(y) = Holds(x) \ {Line(x)[i]}
  BY <1>3, ShorterLine
<1> QED
  BY Zenon, <1>2, <1>3, <1>5, <1>6

\* A packet of the queue gets its outcome.
LEMMA AnswerStep ==
    ASSUME ActorInv, NEW a \in ActorIds, actor[a].at \in Working,
           NEW y \in ActorRec, y.at \in Working, y.open = actor[a].open,
           NEW i \in 1 .. Len(actor[a].sendq), y.sendq = Cut(actor[a].sendq, i),
           y.inbox = actor[a].inbox, y.wrote = actor[a].wrote,
           y.writing \in {actor[a].writing, NoFrame},
           NEW o \in AllOutcomes,
           o = "Success" => actor[a].sendq[i] \in Range(actor[a].wrote),
           actor' = [actor EXCEPT ![a] = y],
           told' = [told EXCEPT ![actor[a].sendq[i]] = Append(@, o)],
           psvc' = psvc, taken' = taken, sending' = sending
    PROVE  ActorInv' /\ \A p \in ActorPackets : FateStep(p)
<1> DEFINE x == actor[a]
           e == x.sendq[i]
<1>1. /\ ConnOK(x, taken) /\ PhaseOK(x)
      /\ taken \in Seq(ActorPackets) /\ EachOnce(taken)
  BY Zenon, ConnIs
<1>2. PhaseOK(y) /\ x.at # "none"
  BY ZenonT(40), <1>1, WorkingIs
<1>3. /\ ConnOK(y, taken) /\ e \in ActorPackets
      /\ e \in Holds(x) /\ Holds(y) = Holds(x) \ {e}
  BY <1>1, <1>2, QueueLoses
<1>4. ServiceOK'
  BY Zenon, <1>2, ServiceKept
<1> QED
  BY Zenon, <1>3, <1>4, ConnAnswer

\* The writer reports a frame.
LEMMA WrittenStep ==
    ASSUME ActorInv, NEW a \in ActorIds, Written1(a)
    PROVE  ActorInv' /\ \A p \in ActorPackets : FateStep(p)
<1> DEFINE x == actor[a]
           there == x.sendq # <<>> /\ Head(x.sendq) = x.writing
           y == [x EXCEPT !.writing = NoFrame,
                          !.sendq = IF there THEN Tail(x.sendq) ELSE x.sendq]
<1>1. /\ x \in ActorRec /\ ConnOK(x, taken)
  BY Zenon, ConnIs
<1>2. x.at \in Working /\ x.writing # NoFrame
  BY DEF Written1, Working, ActorStates
<1>3. psvc' = psvc /\ taken' = taken /\ sending' = sending
  BY Zenon DEF Written1
<1>4. actor' = [actor EXCEPT ![a] = y]
  <2>1. actor = [b \in ActorIds |-> actor[b]]
    BY Zenon DEF ActorInv, ConnsOK
  <2> QED
    BY Zenon, <1>1, <2>1 DEF Written1, ActorRec
<1>5. told' = IF there THEN [told EXCEPT ![x.writing] = Append(@, "Success")]
              ELSE told
  BY Zenon DEF Written1
<1>6. CASE there
  <2>1. /\ Cut(x.sendq, 1) = Tail(x.sendq)
        /\ Head(x.sendq) = x.sendq[1] /\ 1 \in 1 .. Len(x.sendq)
        /\ Tail(x.sendq) \in Seq(ActorPackets)
    BY Zenon, <1>1, <1>6, RecIs, CutHead, HeadTailProperties
  <2>2. /\ y \in ActorRec /\ y.at = x.at /\ y.open = x.open
        /\ y.sendq = Cut(x.sendq, 1) /\ y.inbox = x.inbox
        /\ y.wrote = x.wrote /\ y.writing = NoFrame
    BY Zenon, <1>1, <1>6, <2>1 DEF ActorRec
  <2>3. x.sendq[1] = x.writing /\ x.writing \in Range(x.wrote)
    BY Zenon, <1>1, <1>2, <1>6, <2>1 DEF ConnOK, WroteOK
  <2>4. told' = [told EXCEPT ![x.sendq[1]] = Append(@, "Success")]
    BY Zenon, <1>5, <1>6, <2>3
  <2>5. "Success" \in AllOutcomes
    BY DEF AllOutcomes
  <2> HIDE DEF y
  <2> QED
    BY ZenonT(40), <1>2, <1>3, <1>4, <2>1, <2>2, <2>3, <2>4, <2>5, AnswerStep
<1>7. CASE ~there
  <2>1. /\ y \in ActorRec /\ y.at = x.at /\ y.open = x.open /\ y.sendq = x.sendq
        /\ y.inbox = x.inbox /\ y.wrote = x.wrote /\ y.writing = NoFrame
    BY Zenon, <1>1, <1>7 DEF ActorRec
  <2>2. told' = told
    BY Zenon, <1>5, <1>7
  <2> HIDE DEF y
  <2>3. y.at \in Working /\ y.writing \in {x.writing, NoFrame}
    BY Zenon, <1>2, <2>1
  <2> QED
    BY Zenon, <1>2, <1>3, <1>4, <2>1, <2>2, <2>3, LineKept
<1> QED
  BY Zenon, <1>6, <1>7

\* A packet's deadline passes.
LEMMA ExpireStep ==
    ASSUME ActorInv, NEW a \in ActorIds, NEW i \in DOMAIN actor[a].sendq, Expire(a, i)
    PROVE  ActorInv' /\ \A p \in ActorPackets : FateStep(p)
<1> DEFINE x == actor[a]
           y == [x EXCEPT !.sendq = Cut(x.sendq, i)]
<1>1. /\ x \in ActorRec /\ x.sendq \in Seq(ActorPackets)
  BY ZenonT(40), ConnIs, RecIs
<1>2. x.at \in Working
  BY DEF Expire, Working, ActorStates
<1>3. /\ psvc' = psvc /\ taken' = taken /\ sending' = sending
      /\ told' = [told EXCEPT ![x.sendq[i]] = Append(@, "TimedOut")]
  BY Zenon DEF Expire
<1>4. actor' = [actor EXCEPT ![a] = y]
  BY Zenon DEF Expire, Cut
<1>5. i \in 1 .. Len(x.sendq)
  BY Zenon, <1>1, RangeIs
<1>6. Cut(x.sendq, i) \in Seq(ActorPackets)
  BY Zenon, <1>1, <1>5, CutIs
<1>7. /\ y \in ActorRec /\ y.at = x.at /\ y.open = x.open
      /\ y.sendq = Cut(x.sendq, i) /\ y.inbox = x.inbox
      /\ y.wrote = x.wrote /\ y.writing = x.writing
  BY Zenon, <1>1, <1>6 DEF ActorRec
<1>8. "TimedOut" \in AllOutcomes /\ "TimedOut" # "Success"
  BY DEF AllOutcomes
<1> HIDE DEF y
<1>9. y.at \in Working /\ y.writing \in {x.writing, NoFrame}
  BY Zenon, <1>2, <1>7
<1> QED
  BY ZenonT(40), <1>2, <1>3, <1>4, <1>5, <1>7, <1>8, <1>9, AnswerStep

\* A connection leaves the table.
LEMMA FinishStep ==
    ASSUME ActorInv, NEW a \in ActorIds, Finish(a)
    PROVE  ActorInv' /\ \A p \in ActorPackets : FateStep(p)
<1> DEFINE x == actor[a]
           y == [x EXCEPT !.at = "drain", !.open = FALSE]
<1>1. /\ ConnOK(x, taken) /\ x \in ActorRec /\ x.at = "finish"
  BY Zenon, ConnIs DEF Finish
<1>2. /\ actor' = [actor EXCEPT ![a] = y]
      /\ told' = told /\ taken' = taken /\ sending' = sending
  BY Zenon DEF Finish
<1>3. psvc' = [psvc EXCEPT !.table = IF psvc.table = a THEN Nobody ELSE psvc.table]
  BY Zenon DEF Finish
<1>4. /\ y \in ActorRec /\ y.at = "drain" /\ y.open = FALSE /\ y.sendq = x.sendq
      /\ y.inbox = x.inbox /\ y.wrote = x.wrote /\ y.writing = x.writing
  BY Zenon, <1>1 DEF ActorRec, ActorStates
<1> HIDE DEF y
<1>5. PhaseOK(y)
  BY <1>4 DEF PhaseOK
<1>6. Line(y) = Line(x)
  BY Zenon, <1>4 DEF Line
<1>7. ConnOK(y, taken) /\ Holds(y) = Holds(x)
  BY Zenon, <1>1, <1>4, <1>5, <1>6, SameLine
<1>8. ServiceOK'
  <2>1. /\ actor'[a] = y
        /\ \A b \in ActorIds : b # a => actor'[b] = actor[b]
    BY Zenon, <1>2 DEF ActorInv, ConnsOK
  <2>2. ASSUME NEW b \in ActorIds, b > psvc.made PROVE actor'[b].at = "none"
    <3>1. actor[b].at = "none"
      BY Zenon, <2>2 DEF ActorInv, ServiceOK
    <3>2. "finish" # "none"
      OBVIOUS
    <3> QED
      BY Zenon, <1>1, <2>1, <3>1, <3>2
  <2>3. psvc.table # Nobody => psvc.table \in ActorIds
    BY Zenon, TableIs DEF ActorInv
  <2>4. psvc \in ServiceRec /\ psvc.made <= MaxActors /\ psvc.table <= psvc.made
    BY Zenon DEF ActorInv, ServiceOK
  <2>5. /\ psvc' \in ServiceRec /\ psvc'.made = psvc.made
        /\ psvc'.table \in {Nobody, psvc.table} \ {a}
        /\ Nobody <= psvc.made
    BY <1>3, <2>4 DEF ServiceRec, Nobody, ActorIds
  <2>6. psvc'.table # Nobody => actor'[psvc'.table].open
    BY Zenon, <2>1, <2>3, <2>5 DEF ActorInv, ServiceOK
  <2>7. psvc'.table <= psvc'.made /\ psvc'.made <= MaxActors
    BY Zenon, <2>4, <2>5
  <2> QED
    BY Zenon, <2>2, <2>5, <2>6, <2>7 DEF ServiceOK
<1>9. Range(x.wrote) \subseteq Range(y.wrote)
  BY Zenon, <1>4
<1> QED
  BY Zenon, <1>2, <1>7, <1>8, <1>9, ConnMove

\* Everything that is still owed an outcome is given one.
LEMMA DrainStep ==
    ASSUME ActorInv, NEW a \in ActorIds, Drain(a)
    PROVE  ActorInv' /\ \A p \in ActorPackets : FateStep(p)
<1> DEFINE x == actor[a]
           y == [x EXCEPT !.at = "done", !.sendq = <<>>, !.inbox = <<>>]
           owed == Range(x.sendq) \cup (Range(x.inbox) \ {CloseMsg})
           o == IF x.abort \/ psvc.stopped THEN "Abort" ELSE "NoConnection"
<1>1. /\ ConnOK(x, taken) /\ x \in ActorRec /\ PhaseOK(x) /\ x.at = "drain"
  BY Zenon, ConnIs DEF Drain
<1>2. /\ actor' = [actor EXCEPT ![a] = y] /\ psvc' = psvc /\ taken' = taken
      /\ sending' = sending
      /\ told' = [p \in ActorPackets |->
                     IF p \in owed THEN Append(told[p], o) ELSE told[p]]
  BY Zenon DEF Drain
<1>3. o \in AllOutcomes /\ o # "Success"
  BY DEF AllOutcomes
<1> HIDE DEF o
<1>4. x.sendq \in Seq(ActorPackets) /\ x.sendq \in Seq(Msgs) /\ x.inbox \in Seq(Msgs)
  BY Zenon, <1>1, RecIs
<1>5. Holds(x) = owed
  <2>1. Range(x.sendq \o x.inbox) = Range(x.sendq) \cup Range(x.inbox)
    BY Zenon, <1>4, LineRange
  <2>2. CloseMsg \notin Range(x.sendq)
    <3>1. Range(x.sendq) \subseteq ActorPackets
      BY Zenon, <1>4, RangeIn
    <3> QED
      BY Zenon, <3>1, ActorAssumption
  <2>3. Holds(x) = (Range(x.sendq) \cup Range(x.inbox)) \ {CloseMsg}
    BY Zenon, <2>1 DEF Holds, Owed, Line
  <2> QED
    BY <2>2, <2>3
<1> HIDE DEF owed
<1>6. /\ y \in ActorRec /\ y.at = "done" /\ y.open = x.open /\ y.sendq = <<>>
      /\ y.inbox = <<>> /\ y.wrote = x.wrote /\ y.writing = x.writing
  <2>1. <<>> \in Seq(ActorPackets) /\ <<>> \in Seq(Msgs) /\ "done" \in ActorStates
    BY DEF ActorStates
  <2> QED
    BY Zenon, <1>1, <2>1 DEF ActorRec
<1> HIDE DEF y
<1>7. PhaseOK(y) /\ x.at # "none"
  BY <1>1, <1>6 DEF PhaseOK
<1>8. Line(y) = <<>>
  BY Zenon, <1>6, ConcatEmptySeq, EmptySeq DEF Line
<1>9. Sorted(Line(y), Accepted(taken)) /\ Holds(y) = {}
  BY <1>8 DEF Sorted, Holds, Owed, Range
<1>10. Holds(y) \subseteq Holds(x) /\ y.writing \in {x.writing, NoFrame}
  BY Zenon, <1>6, <1>9
<1>11. ConnOK(y, taken)
  BY Zenon, <1>1, <1>6, <1>7, <1>9, <1>10, KeepsConn
<1>12. ServiceOK'
  BY Zenon, <1>2, <1>6, <1>7, ServiceKept
<1>13. Tells(Holds(x) \ Holds(y), o)
  <2>1. Holds(x) \ Holds(y) = owed
    BY Zenon, <1>5, <1>9
  <2>2. Tells(owed, o)
    BY Zenon, <1>2 DEF Tells
  <2> QED
    BY Zenon, <2>1, <2>2
<1>14. Range(x.wrote) \subseteq Range(y.wrote)
  BY Zenon, <1>6
<1> QED
  BY ZenonT(40), <1>2, <1>3, <1>10, <1>11, <1>12, <1>13, <1>14, ConnStep

-----------------------------------------------------------------------------
(* The service.                                                             *)

\* A step that touches nothing but the service's own record.
LEMMA ServiceStep ==
    ASSUME ActorInv, ServiceOK', actor' = actor, told' = told, taken' = taken,
           sending' \subseteq ActorPackets, sending' \cap Range(taken) = {},
           \A p \in sending' : p \in sending \/ told[p] = <<>>
    PROVE  ActorInv' /\ \A p \in ActorPackets : FateStep(p)
<1>1. ConnsOK' /\ Apart'
  BY Zenon DEF ActorInv, ConnsOK, Apart
<1>2. SendsOK'
  BY Zenon DEF ActorInv, SendsOK
<1>3. ASSUME NEW p \in ActorPackets PROVE FateOK(p)'
  <2>1. FateOK(p)
    BY Zenon DEF ActorInv, FatesOK
  <2>2. <<"refused">> # <<>>
    OBVIOUS
  <2> QED
    BY Zenon, <2>1, <2>2 DEF FateOK
<1>4. FatesOK'
  BY Zenon, <1>3 DEF ActorInv, FatesOK
<1>5. \A p \in ActorPackets : FateStep(p)
  BY Zenon DEF FateStep
<1> QED
  BY Zenon, <1>1, <1>2, <1>4, <1>5 DEF ActorInv

\* send() refuses a packet.
LEMMA RefuseStep ==
    ASSUME ActorInv, NEW p \in ActorPackets, p \notin Range(taken), told[p] = <<>>,
           told' = [told EXCEPT ![p] = <<"refused">>],
           actor' = actor, taken' = taken, psvc' = psvc,
           sending' \subseteq sending, p \notin sending'
    PROVE  ActorInv' /\ \A e \in ActorPackets : FateStep(e)
<1>1. ConnsOK' /\ Apart' /\ ServiceOK'
  BY Zenon DEF ActorInv, ConnsOK, Apart, ServiceOK
<1>2. SendsOK'
  BY Zenon DEF ActorInv, SendsOK
<1>3. /\ told' = [e \in ActorPackets |-> told'[e]] /\ told'[p] = <<"refused">>
      /\ \A e \in ActorPackets : e # p => told'[e] = told[e]
  BY DEF ActorInv, FatesOK
<1>4. ASSUME NEW e \in ActorPackets PROVE FateOK(e)' /\ FateStep(e)
  <2>1. FateOK(e)
    BY Zenon DEF ActorInv, FatesOK
  <2>2. CASE e = p
    <3>0. /\ told[e] = <<>> /\ told'[e] = <<"refused">>
          /\ (e \in Range(taken)) = FALSE /\ (e \in Range(taken'))  = FALSE
      BY <1>3, <2>2
    <3>1. FateOK(e)'
      BY Zenon, <1>3, <2>2 DEF FateOK
    <3>2. /\ FateOf(told[e], e \in Range(taken)) = "unsent"
          /\ FateOf(told[e], e \in Range(taken))' = "refused"
      BY Zenon, <3>0, FateIs
    <3> QED
      BY Zenon, <3>1, <3>2 DEF FateStep
  <2>3. CASE e # p
    <3>1. told'[e] = told[e]
      BY Zenon, <1>3, <2>3
    <3>2. FateStep(e)
      BY Zenon, <3>1 DEF FateStep
    <3> QED
      BY Zenon, <2>1, <3>1, <3>2 DEF FateOK
  <2> QED
    BY Zenon, <2>2, <2>3
<1>5. FatesOK'
  BY Zenon, <1>3, <1>4 DEF FatesOK
<1> QED
  BY Zenon, <1>1, <1>2, <1>4, <1>5 DEF ActorInv

\* What send() accepts later does not disturb a connection.
LEMMA MoreTaken ==
    ASSUME NEW x, NEW t, NEW u, ConnOK(x, t),
           Range(t) \subseteq Range(u), Accepted(t) \subseteq Accepted(u)
    PROVE  ConnOK(x, u)
<1>1. \A p, q : NotAfter(p, q, t) => NotAfter(p, q, u)
  BY Zenon DEF NotAfter
<1>2. LineOK(x, u)
  BY Zenon DEF ConnOK, LineOK, Sorted
<1>3. WroteOK(x, u)
  BY Zenon, <1>1 DEF ConnOK, WroteOK
<1> QED
  BY Zenon, <1>2, <1>3 DEF ConnOK

\* A packet that send() accepts is put into an inbox.
LEMMA PutConn ==
    ASSUME NEW t \in Seq(ActorPackets), EachOnce(t), NEW x, ConnOK(x, t),
           NEW p \in ActorPackets, p \notin Range(t), NEW y \in ActorRec,
           Line(y) = Append(Line(x), p), y.wrote = x.wrote,
           y.writing \in {x.writing, NoFrame}, PhaseOK(y)
    PROVE  ConnOK(y, Append(t, p)) /\ Holds(y) = Holds(x) \cup {p}
<1> DEFINE u == Append(t, p)
<1>1. /\ Range(u) = Range(t) \cup {p} /\ Accepted(t) \subseteq Accepted(u)
      /\ \A e \in Range(t) : <<e, p>> \in Accepted(u)
  BY Zenon, AcceptedLast
<1> HIDE DEF u
<1>2. ConnOK(x, u)
  <2>1. Range(t) \subseteq Range(u)
    BY Zenon, <1>1
  <2> QED
    BY Zenon, <1>1, <2>1, MoreTaken
<1>3. Line(x) \in Seq(Msgs) /\ x \in ActorRec /\ p \in Msgs /\ p # CloseMsg
  BY Zenon, RecIs, ActorAssumption DEF ConnOK, Msgs
<1>4. \A e \in Holds(x) : <<e, p>> \in Accepted(u)
  BY Zenon, <1>1 DEF ConnOK, LineOK
<1>5. /\ Sorted(Append(Line(x), p), Accepted(u))
      /\ Owed(Append(Line(x), p)) = Owed(Line(x)) \cup ({p} \ {CloseMsg})
  <2>1. Sorted(Line(x), Accepted(u))
    BY Zenon, <1>2 DEF ConnOK, LineOK
  <2>2. \A e \in Owed(Line(x)) : <<e, p>> \in Accepted(u)
    BY Zenon, <1>4 DEF Holds
  <2> QED
    BY Zenon, <1>3, <2>1, <2>2, PutKeeps
<1>6. Holds(y) = Holds(x) \cup {p}
  <2>1. {p} \ {CloseMsg} = {p}
    BY Zenon, <1>3
  <2>2. Holds(y) = Owed(Append(Line(x), p))
    BY Zenon DEF Holds
  <2> QED
    BY Zenon, <1>5, <2>1, <2>2 DEF Holds
<1>7. LineOK(y, u)
  <2>1. Holds(x) \subseteq Range(u) /\ p \in Range(u)
    BY Zenon, <1>1, <1>2 DEF ConnOK, LineOK
  <2>2. Sorted(Line(y), Accepted(u))
    BY Zenon, <1>5
  <2> QED
    BY Zenon, <1>6, <2>1, <2>2 DEF LineOK
<1>8. WroteOK(y, u)
  <2>1. WroteOK(x, u)
    BY Zenon, <1>2 DEF ConnOK
  <2>2. ASSUME y.wrote # <<>> PROVE NotAfter(y.wrote[Len(y.wrote)], p, u)
    <3> DEFINE w == x.wrote
    <3>1. w \in Seq(ActorPackets) /\ w # <<>>
      BY ZenonT(40), <1>3, <2>2, RecIs
    <3> HIDE DEF w
    <3>2. Len(w) \in 1 .. Len(w)
      BY <3>1
    <3>3. w[Len(w)] \in Range(w)
      BY Zenon, <3>1, <3>2, RangeIs
    <3>4. w[Len(w)] \in Range(t)
      BY Zenon, <3>3 DEF w, ConnOK, WroteOK
    <3>5. NotAfter(w[Len(w)], p, u)
      BY Zenon, <1>1, <3>4 DEF NotAfter
    <3> QED
      BY Zenon, <3>5 DEF w
  <2>3. ASSUME y.wrote # <<>>, NEW e \in Holds(y)
        PROVE  NotAfter(y.wrote[Len(y.wrote)], e, u)
    <3>1. CASE e = p
      BY Zenon, <2>2, <2>3, <3>1
    <3>2. CASE e \in Holds(x)
      BY Zenon, <2>1, <2>3, <3>2 DEF WroteOK
    <3> QED
      BY ZenonT(40), <1>6, <3>1, <3>2
  <2>4. /\ Range(y.wrote) \subseteq Range(u)
        /\ \A i \in 1 .. Len(y.wrote) - 1 : NotAfter(y.wrote[i], y.wrote[i + 1], u)
        /\ y.writing # NoFrame => y.writing \in Range(y.wrote)
    BY Zenon, <2>1 DEF WroteOK
  <2> QED
    BY Zenon, <2>3, <2>4 DEF WroteOK
<1>9. ConnOK(y, u)
  BY Zenon, <1>7, <1>8 DEF ConnOK
<1> QED
  BY Zenon, <1>6, <1>9 DEF u

\* send() accepts a packet that it knows nothing of.
LEMMA AcceptStep ==
    ASSUME ActorInv, ServiceOK', NEW p \in ActorPackets, p \notin Range(taken),
           told[p] = <<>>, NEW a \in ActorIds, NEW y \in ActorRec,
           Line(y) = Append(Line(actor[a]), p), y.wrote = actor[a].wrote,
           y.writing \in {actor[a].writing, NoFrame}, PhaseOK(y),
           actor' = [actor EXCEPT ![a] = y], told' = told,
           taken' = Append(taken, p), sending' = sending \ {p}
    PROVE  ActorInv' /\ \A e \in ActorPackets : FateStep(e)
<1> DEFINE x == actor[a]
<1>1. taken \in Seq(ActorPackets) /\ EachOnce(taken) /\ ConnOK(x, taken)
  BY Zenon, ConnIs
<1>2. /\ taken' \in Seq(ActorPackets) /\ EachOnce(taken')
      /\ Range(taken') = Range(taken) \cup {p}
      /\ Accepted(taken) \subseteq Accepted(taken')
  BY Zenon, <1>1, AcceptedLast
<1>3. ConnOK(y, taken') /\ Holds(y) = Holds(x) \cup {p}
  <2>1. ConnOK(y, Append(taken, p)) /\ Holds(y) = Holds(x) \cup {p}
    BY <1>1, PutConn
  <2> QED
    BY ZenonT(40), <2>1
<1>4. /\ actor' = [b \in ActorIds |-> actor'[b]] /\ actor'[a] = y
      /\ \A b \in ActorIds : b # a => actor'[b] = actor[b]
  BY DEF ActorInv, ConnsOK
<1>5. \A b \in ActorIds : ConnOK(actor[b], taken')
  <2>1. Range(taken) \subseteq Range(taken')
    BY Zenon, <1>2
  <2>2. \A b \in ActorIds : ConnOK(actor[b], taken)
    BY Zenon DEF ActorInv, ConnsOK
  <2> QED
    BY ZenonT(40), <1>2, <2>1, <2>2, MoreTaken
<1>6. ConnsOK'
  <2>1. ASSUME NEW b \in ActorIds PROVE ConnOK(actor'[b], taken')
    <3>1. CASE b = a
      BY ZenonT(40), <1>3, <1>4, <3>1
    <3>2. CASE b # a
      <4>1. actor'[b] = actor[b]
        BY Zenon, <1>4, <3>2
      <4> QED
        BY Zenon, <1>5, <4>1
    <3> QED
      BY ZenonT(40), <3>1, <3>2
  <2> QED
    BY Zenon, <1>4, <2>1 DEF ConnsOK
<1>7. \A b \in ActorIds : p \notin Holds(actor[b])
  BY Zenon DEF ActorInv, ConnsOK, ConnOK, LineOK
<1>8. \A b \in ActorIds : \A e : e \in Holds(actor'[b]) <=>
                                    e \in Holds(actor[b]) \/ (b = a /\ e = p)
  <2>1. ASSUME NEW b \in ActorIds, NEW e
        PROVE  e \in Holds(actor'[b]) <=> e \in Holds(actor[b]) \/ (b = a /\ e = p)
    <3>1. CASE b = a
      <4>1. Holds(actor'[b]) = Holds(actor[b]) \cup {p}
        BY Zenon, <1>3, <1>4, <3>1
      <4> QED
        BY Zenon, <3>1, <4>1
    <3>2. CASE b # a
      <4>1. actor'[b] = actor[b]
        BY Zenon, <1>4, <3>2
      <4> QED
        BY ZenonT(40), <3>2, <4>1
    <3> QED
      BY Zenon, <3>1, <3>2
  <2> QED
    BY Zenon, <2>1
<1>9. Apart'
  <2>1. ASSUME NEW b \in ActorIds, NEW c \in ActorIds, NEW e,
               e \in Holds(actor'[b]), e \in Holds(actor'[c])
        PROVE  b = c
    <3>1. CASE e = p
      BY Zenon, <1>7, <1>8, <2>1, <3>1
    <3>2. CASE e # p
      BY Zenon, <1>8, <2>1, <3>2 DEF ActorInv, Apart
    <3> QED
      BY Zenon, <3>1, <3>2
  <2> QED
    BY Zenon, <2>1 DEF Apart
<1>10. SendsOK'
  <2>1. sending \subseteq ActorPackets /\ sending \cap Range(taken) = {}
    BY ZenonT(40) DEF ActorInv, SendsOK
  <2>2. sending' \subseteq ActorPackets /\ sending' \cap Range(taken') = {}
    BY <1>2, <2>1
  <2> QED
    BY Zenon, <1>2, <2>2 DEF SendsOK
<1>11. ASSUME NEW b \in ActorIds PROVE actor'[b].wrote = actor[b].wrote
  BY Zenon, <1>4
<1>12. ASSUME NEW e \in ActorPackets PROVE FateOK(e)' /\ FateStep(e)
  <2>1. FateOK(e) /\ told'[e] = told[e]
    BY Zenon DEF ActorInv, FatesOK
  <2>2. CASE e = p
    <3>0. /\ told[e] = <<>> /\ told'[e] = <<>>
          /\ (e \in Range(taken)) = FALSE /\ (e \in Range(taken')) = TRUE
      BY <1>2, <2>1, <2>2
    <3>1. e \in Holds(actor'[a])
      BY Zenon, <1>8, <2>2
    <3>2. FateOK(e)'
      BY Zenon, <3>0, <3>1 DEF FateOK
    <3>3. /\ FateOf(told[e], e \in Range(taken)) = "unsent"
          /\ FateOf(told[e], e \in Range(taken))' = "taken"
      BY Zenon, <3>0, FateIs
    <3> QED
      BY ZenonT(40), <3>2, <3>3 DEF FateStep
  <2>3. CASE e # p
    <3>0. (e \in Range(taken')) = (e \in Range(taken))
      BY <1>2, <2>3
    <3>1. \A b \in ActorIds : e \in Holds(actor'[b]) <=> e \in Holds(actor[b])
      BY Zenon, <1>8, <2>3
    <3>2. FateStep(e)
      BY Zenon, <2>1, <3>0 DEF FateStep
    <3>3. FateOK(e)'
      <4>1. CASE e \notin Range(taken)
        <5>1. e \notin Range(taken') /\ (e \notin sending => e \notin sending')
          BY Zenon, <3>0, <4>1
        <5> QED
          BY Zenon, <2>1, <4>1, <5>1 DEF FateOK
      <4>2. CASE e \in Range(taken)
        <5>1. e \in Range(taken')
          BY Zenon, <3>0, <4>2
        <5> QED
          BY ZenonT(40), <1>11, <2>1, <3>1, <4>2, <5>1 DEF FateOK
      <4> QED
        BY Zenon, <4>1, <4>2
    <3> QED
      BY Zenon, <3>2, <3>3
  <2> QED
    BY Zenon, <2>2, <2>3
<1>13. FatesOK'
  BY Zenon, <1>12 DEF ActorInv, FatesOK
<1> QED
  BY ZenonT(40), <1>6, <1>9, <1>10, <1>12, <1>13 DEF ActorInv

\* A message at the end of the inbox is at the end of the line.
LEMMA LineGrows ==
    ASSUME NEW x \in ActorRec, NEW m \in Msgs, NEW y,
           y = [x EXCEPT !.inbox = Append(x.inbox, m)]
    PROVE  /\ y \in ActorRec /\ Line(y) = Append(Line(x), m)
           /\ y.at = x.at /\ y.open = x.open
           /\ y.wrote = x.wrote /\ y.writing = x.writing
<1> DEFINE q == x.sendq
           b == x.inbox
<1>1. /\ q \in Seq(Msgs) /\ b \in Seq(Msgs)
      /\ q \o b \in Seq(Msgs) /\ Append(b, m) \in Seq(Msgs)
  BY Zenon, RecIs, AppendProperties DEF Line
<1>2. /\ y \in ActorRec /\ y.sendq = q /\ y.inbox = Append(b, m)
      /\ y.at = x.at /\ y.open = x.open /\ y.wrote = x.wrote /\ y.writing = x.writing
  BY Zenon, <1>1 DEF ActorRec
<1> HIDE DEF q, b
<1>3. <<m>> \in Seq(Msgs)
  OBVIOUS
<1>4. Append(b, m) = b \o <<m>> /\ Append(q \o b, m) = (q \o b) \o <<m>>
  BY Zenon, <1>1, AppendIsConcat
<1>5. (q \o b) \o <<m>> = q \o (b \o <<m>>)
  BY <1>1, <1>3, ConcatAssociative
<1>6. q \o Append(b, m) = Append(q \o b, m)
  BY Zenon, <1>4, <1>5
<1>7. Line(y) = Append(Line(x), m)
  <2>1. Line(y) = q \o Append(b, m) /\ Line(x) = q \o b
    BY Zenon, <1>2 DEF Line, q, b
  <2> QED
    BY Zenon, <1>6, <2>1
<1> QED
  BY Zenon, <1>2, <1>7

\* The connection of the table.
LEMMA TableConn ==
    ASSUME ActorInv, psvc.table # Nobody
    PROVE  /\ psvc.table \in ActorIds /\ actor[psvc.table].open
           /\ actor[psvc.table].at \notin {"none", "drain", "done"}
<1>1. psvc.table \in ActorIds /\ actor[psvc.table].open
  BY Zenon, TableIs DEF ActorInv, ServiceOK
<1>2. PhaseOK(actor[psvc.table])
  BY Zenon, <1>1, ConnIs
<1> QED
  BY Zenon, <1>1, <1>2 DEF PhaseOK

\* close_connection() and stop() put a close into the inbox.
LEMMA CloseStep ==
    ASSUME ActorInv, psvc.table # Nobody, actor' = CloseTable,
           psvc' \in ServiceRec, psvc'.table = psvc.table, psvc'.made = psvc.made,
           told' = told, taken' = taken, sending' = sending
    PROVE  ActorInv' /\ \A p \in ActorPackets : FateStep(p)
<1> DEFINE a == psvc.table
           x == actor[a]
           y == [x EXCEPT !.inbox = Append(x.inbox, CloseMsg)]
<1>1. a \in ActorIds /\ x.open /\ x.at \notin {"none", "drain", "done"}
  BY Zenon, TableConn
<1>2. actor' = [actor EXCEPT ![a] = y]
  BY Zenon DEF CloseTable
<1>3. /\ ConnOK(x, taken) /\ x \in ActorRec /\ CloseMsg \in Msgs
  BY Zenon, <1>1, ConnIs DEF Msgs
<1> HIDE DEF a, x
<1>4. /\ y \in ActorRec /\ Line(y) = Append(Line(x), CloseMsg)
      /\ y.at = x.at /\ y.open = x.open /\ y.wrote = x.wrote /\ y.writing = x.writing
  BY ZenonT(40), <1>3, LineGrows
<1> HIDE DEF y
<1>5. PhaseOK(y)
  BY <1>1, <1>3, <1>4 DEF PhaseOK, ConnOK
<1>6. Line(x) \in Seq(Msgs) /\ Sorted(Line(x), Accepted(taken))
  BY Zenon, <1>3, RecIs DEF ConnOK, LineOK
<1>7. /\ Sorted(Append(Line(x), CloseMsg), Accepted(taken))
      /\ Owed(Append(Line(x), CloseMsg)) = Owed(Line(x)) \cup ({CloseMsg} \ {CloseMsg})
  BY Zenon, <1>3, <1>6, PutKeeps
<1>8. Holds(y) = Holds(x)
  <2>1. Owed(Line(x)) \cup ({CloseMsg} \ {CloseMsg}) = Owed(Line(x))
    BY Zenon
  <2> QED
    BY Zenon, <1>4, <1>7, <2>1 DEF Holds
<1>9. ConnOK(y, taken)
  <2>1. Sorted(Line(y), Accepted(taken))
    BY Zenon, <1>4, <1>7
  <2>2. Holds(y) \subseteq Holds(x) /\ y.writing \in {x.writing, NoFrame}
    BY Zenon, <1>4, <1>8
  <2> QED
    BY ZenonT(40), <1>3, <1>4, <1>5, <2>1, <2>2, KeepsConn
<1>10. Range(x.wrote) \subseteq Range(y.wrote) /\ x.at # "none"
  BY Zenon, <1>1, <1>4
<1>11. ServiceOK'
  BY ZenonT(40), <1>1, <1>2, <1>4, <1>10, ServiceKept DEF x
<1> QED
  BY ZenonT(40), <1>1, <1>2, <1>8, <1>9, <1>10, <1>11, ConnMove DEF x

\* close_connection().
LEMMA CloseConnectionStep ==
    ASSUME ActorInv, CloseConnection
    PROVE  ActorInv' /\ \A p \in ActorPackets : FateStep(p)
<1>1. psvc \in ServiceRec
  BY Zenon DEF ActorInv, ServiceOK
<1>2. psvc' \in ServiceRec /\ psvc'.table = psvc.table /\ psvc'.made = psvc.made
  BY <1>1 DEF CloseConnection, ServiceRec
<1> QED
  BY Zenon, <1>2, CloseStep DEF CloseConnection

\* The flag of stop().
LEMMA StopFlagStep ==
    ASSUME ActorInv, StopFlag
    PROVE  ActorInv' /\ \A p \in ActorPackets : FateStep(p)
<1>1. psvc \in ServiceRec
  BY Zenon DEF ActorInv, ServiceOK
<1>2. psvc' \in ServiceRec /\ psvc'.table = psvc.table /\ psvc'.made = psvc.made
  BY Zenon, <1>1 DEF StopFlag, ServiceRec
<1>3. actor' = actor /\ told' = told /\ taken' = taken /\ sending' = sending
  BY Zenon DEF StopFlag
<1>4. ServiceOK'
  BY Zenon, <1>2, <1>3 DEF ActorInv, ServiceOK
<1>5. sending \subseteq ActorPackets /\ sending \cap Range(taken) = {}
  BY Zenon DEF ActorInv, SendsOK
<1> QED
  BY ZenonT(40), <1>3, <1>4, <1>5, ServiceStep

\* The closes of stop().
LEMMA StopTableStep ==
    ASSUME ActorInv, StopTable
    PROVE  ActorInv' /\ \A p \in ActorPackets : FateStep(p)
<1>1. psvc \in ServiceRec
  BY Zenon DEF ActorInv, ServiceOK
<1>2. psvc' \in ServiceRec /\ psvc'.table = psvc.table /\ psvc'.made = psvc.made
  BY Zenon, <1>1 DEF StopTable, ServiceRec
<1>3. actor' = CloseTable /\ told' = told /\ taken' = taken /\ sending' = sending
  BY Zenon DEF StopTable
<1>4. CASE psvc.table # Nobody
  BY ZenonT(40), <1>2, <1>3, <1>4, CloseStep
<1>5. CASE psvc.table = Nobody
  <2>1. actor' = actor
    BY Zenon, <1>3, <1>5 DEF CloseTable
  <2>2. ServiceOK'
    BY ZenonT(40), <1>2, <2>1 DEF ActorInv, ServiceOK
  <2>3. sending \subseteq ActorPackets /\ sending \cap Range(taken) = {}
    BY Zenon DEF ActorInv, SendsOK
  <2> QED
    BY ZenonT(40), <1>3, <2>1, <2>2, <2>3, ServiceStep
<1> QED
  BY Zenon, <1>4, <1>5

\* A new connection in the table.
LEMMA MadeStep ==
    ASSUME ActorInv, psvc.made < MaxActors, NEW y, y.open = TRUE,
           actor' = [actor EXCEPT ![psvc.made + 1] = y],
           psvc' = [psvc EXCEPT !.made = psvc.made + 1, !.table = psvc.made + 1]
    PROVE  /\ ServiceOK' /\ psvc.made + 1 \in ActorIds
           /\ Line(actor[psvc.made + 1]) = <<>> /\ actor[psvc.made + 1].wrote = <<>>
<1> DEFINE b == psvc.made + 1
<1>1. psvc \in ServiceRec /\ b \in ActorIds
  BY Zenon, TableIs DEF ActorInv, ServiceOK
<1>2. psvc.made \in Nat /\ MaxActors \in Nat
  BY <1>1, ActorAssumption DEF ServiceRec
<1>3. b > psvc.made /\ b \in Nat /\ b <= MaxActors /\ b <= b
      /\ \A c \in ActorIds : c > b => c > psvc.made /\ c # b
  BY <1>2 DEF ActorIds
<1>4. psvc' \in ServiceRec /\ psvc'.made = b /\ psvc'.table = b
  BY Zenon, <1>1, <1>3 DEF ServiceRec
<1> HIDE DEF b
<1>5. /\ actor'[b] = y
      /\ \A c \in ActorIds : c # b => actor'[c] = actor[c]
  BY Zenon, <1>1 DEF ActorInv, ConnsOK, b
<1>6. \A c \in ActorIds : c > psvc.made => actor[c].at = "none"
  BY Zenon DEF ActorInv, ServiceOK
<1>7. \A c \in ActorIds : c > b => actor'[c].at = "none"
  BY Zenon, <1>3, <1>5, <1>6
<1>8. ServiceOK'
  BY ZenonT(40), <1>3, <1>4, <1>5, <1>7 DEF ServiceOK
<1>9. actor[b].at = "none"
  BY Zenon, <1>1, <1>3, <1>6
<1>10. actor[b].inbox = <<>> /\ actor[b].sendq = <<>> /\ actor[b].wrote = <<>>
  BY Zenon, <1>1, <1>9, ConnIs DEF PhaseOK
<1>11. Line(actor[b]) = <<>>
  BY ZenonT(40), <1>10, ConcatEmptySeq, EmptySeq DEF Line
<1> QED
  BY Zenon, <1>1, <1>8, <1>10, <1>11 DEF b

\* The record of a new connection.
LEMMA NewIs ==
    ASSUME NEW box \in Seq(Msgs), NEW y,
           \/ y = [NewActor EXCEPT !.inbox = box]
           \/ y = [NewActor EXCEPT !.at = "start"] /\ box = <<>>
    PROVE  /\ y \in ActorRec /\ PhaseOK(y) /\ y.open = TRUE /\ Line(y) = box
           /\ y.wrote = <<>> /\ y.writing = NoFrame
<1>1. /\ y.at \in {"connect", "start"} /\ y.open = TRUE /\ y.inbox = box
      /\ y.sendq = <<>> /\ y.wrote = <<>> /\ y.writing = NoFrame
  BY Zenon DEF NewActor
<1>2. y \in ActorRec
  <2>1. /\ <<>> \in Seq(ActorPackets) /\ <<>> \in Seq(Msgs)
        /\ {"connect", "start"} \subseteq ActorStates
    BY DEF ActorStates
  <2>2. NewActor \in ActorRec
    BY Zenon, <2>1 DEF NewActor, ActorRec
  <2> QED
    BY Zenon, <2>1, <2>2 DEF ActorRec
<1>3. PhaseOK(y)
  BY <1>1 DEF PhaseOK
<1>4. Line(y) = box
  BY Zenon, <1>1, ConcatEmptySeq DEF Line
<1> QED
  BY ZenonT(40), <1>1, <1>2, <1>3, <1>4

\* An accepted connection.
LEMMA AttachStep ==
    ASSUME ActorInv, Attach
    PROVE  ActorInv' /\ \A p \in ActorPackets : FateStep(p)
<1> DEFINE b == psvc.made + 1
           y == [NewActor EXCEPT !.at = "start"]
<1>1. actor' = [actor EXCEPT ![b] = y]
  BY Zenon DEF Attach
<1>2. /\ psvc.made < MaxActors /\ told' = told /\ taken' = taken /\ sending' = sending
      /\ psvc' = [psvc EXCEPT !.made = b, !.table = b]
  BY Zenon DEF Attach
<1>3. /\ y \in ActorRec /\ PhaseOK(y) /\ y.open = TRUE /\ Line(y) = <<>>
      /\ y.wrote = <<>> /\ y.writing = NoFrame
  <2>1. <<>> \in Seq(Msgs)
    OBVIOUS
  <2> QED
    BY Zenon, <2>1, NewIs
<1> HIDE DEF y
<1>4. /\ ServiceOK' /\ b \in ActorIds
      /\ Line(actor[b]) = <<>> /\ actor[b].wrote = <<>>
  BY Zenon, <1>1, <1>2, <1>3, MadeStep
<1> HIDE DEF b
<1>5. ConnOK(actor[b], taken)
  BY Zenon, <1>4, ConnIs
<1>6. Line(y) = Line(actor[b]) /\ y.wrote = actor[b].wrote
      /\ y.writing \in {actor[b].writing, NoFrame}
  BY Zenon, <1>3, <1>4
<1>7. ConnOK(y, taken) /\ Holds(y) = Holds(actor[b])
  BY Zenon, <1>3, <1>5, <1>6, SameLine
<1>8. Range(actor[b].wrote) \subseteq Range(y.wrote)
  BY Zenon, <1>6
<1> QED
  BY ZenonT(40), <1>1, <1>2, <1>4, <1>7, <1>8, ConnMove

\* send() tests the flag.
LEMMA SendBeginsStep ==
    ASSUME ActorInv, NEW p \in ActorPackets, SendBegins(p)
    PROVE  ActorInv' /\ \A e \in ActorPackets : FateStep(e)
<1>1. /\ p \notin sending /\ p \notin Range(taken) /\ told[p] = <<>>
      /\ psvc' = psvc /\ actor' = actor /\ taken' = taken
  BY Zenon DEF SendBegins
<1>2. CASE told' = [told EXCEPT ![p] = <<"refused">>] /\ sending' = sending
  <2>1. sending' \subseteq sending /\ p \notin sending'
    BY Zenon, <1>1, <1>2
  <2> QED
    BY Zenon, <1>1, <1>2, <2>1, RefuseStep
<1>3. CASE sending' = sending \cup {p} /\ told' = told
  <2>1. sending \subseteq ActorPackets /\ sending \cap Range(taken) = {}
    BY Zenon DEF ActorInv, SendsOK
  <2>2. sending' \subseteq ActorPackets /\ sending' \cap Range(taken) = {}
    BY Zenon, <1>1, <1>3, <2>1
  <2>3. \A e \in sending' : e \in sending \/ told[e] = <<>>
    BY Zenon, <1>1, <1>3
  <2>4. ServiceOK'
    BY Zenon, <1>1 DEF ActorInv, ServiceOK
  <2> QED
    BY ZenonT(40), <1>1, <1>3, <2>2, <2>3, <2>4, ServiceStep
<1> QED
  BY Zenon, <1>2, <1>3 DEF SendBegins

\* The rest of send().
LEMMA SendLocksStep ==
    ASSUME ActorInv, NEW p \in ActorPackets, SendLocks(p)
    PROVE  ActorInv' /\ \A e \in ActorPackets : FateStep(e)
<1>1. p \in sending /\ sending' = sending \ {p}
  BY Zenon DEF SendLocks
<1>2. p \notin Range(taken) /\ told[p] = <<>>
  <2>1. p \notin Range(taken)
    BY Zenon, <1>1 DEF ActorInv, SendsOK
  <2> QED
    BY Zenon, <1>1, <2>1 DEF ActorInv, FatesOK, FateOK
<1>3. CASE Refuses(p)
  <2>1. sending' \subseteq sending /\ p \notin sending'
    BY Zenon, <1>1
  <2> QED
    BY Zenon, <1>2, <1>3, <2>1, RefuseStep DEF Refuses
<1>4. ASSUME psvc.table # Nobody,
             actor' = [actor EXCEPT ![psvc.table].inbox = Append(@, p)],
             taken' = Append(taken, p), psvc' = psvc, told' = told
      PROVE  ActorInv' /\ \A e \in ActorPackets : FateStep(e)
  <2> DEFINE a == psvc.table
             x == actor[a]
             y == [x EXCEPT !.inbox = Append(x.inbox, p)]
  <2>1. a \in ActorIds /\ x.at \notin {"none", "drain", "done"}
    BY Zenon, <1>4, TableConn
  <2>2. actor' = [actor EXCEPT ![a] = y]
    BY Zenon, <1>4
  <2>3. x \in ActorRec /\ p \in Msgs /\ PhaseOK(x)
    BY Zenon, <2>1, ConnIs DEF Msgs
  <2> HIDE DEF a, x
  <2>4. /\ y \in ActorRec /\ Line(y) = Append(Line(x), p)
        /\ y.at = x.at /\ y.open = x.open /\ y.wrote = x.wrote /\ y.writing = x.writing
    BY ZenonT(40), <2>3, LineGrows
  <2> HIDE DEF y
  <2>5. PhaseOK(y)
    BY <2>1, <2>3, <2>4 DEF PhaseOK
  <2>6. ServiceOK'
    <3>1. x.at # "none" /\ psvc' = psvc
      BY Zenon, <1>4, <2>1
    <3> QED
      BY Zenon, <2>1, <2>2, <2>4, <3>1, ServiceKept DEF x
  <2>7. y.writing \in {x.writing, NoFrame}
    BY Zenon, <2>4
  <2> QED
    BY ZenonT(40), <1>1, <1>2, <1>4, <2>1, <2>2, <2>4, <2>5, <2>6, <2>7, AcceptStep
    DEF x
<1>5. ASSUME psvc.made < MaxActors, taken' = Append(taken, p), told' = told,
             actor' = [actor EXCEPT ![psvc.made + 1] = [NewActor EXCEPT !.inbox = <<p>>]],
             psvc' = [psvc EXCEPT !.made = psvc.made + 1, !.table = psvc.made + 1]
      PROVE  ActorInv' /\ \A e \in ActorPackets : FateStep(e)
  <2> DEFINE b == psvc.made + 1
             y == [NewActor EXCEPT !.inbox = <<p>>]
  <2>1. actor' = [actor EXCEPT ![b] = y]
    BY Zenon, <1>5
  <2>2. /\ y \in ActorRec /\ PhaseOK(y) /\ y.open = TRUE /\ Line(y) = <<p>>
        /\ y.wrote = <<>> /\ y.writing = NoFrame
    <3>0. p \in Msgs
      BY Zenon DEF Msgs
    <3>1. <<p>> \in Seq(Msgs)
      BY <3>0
    <3> QED
      BY Zenon, <3>1, NewIs
  <2> HIDE DEF y
  <2>3. /\ ServiceOK' /\ b \in ActorIds
        /\ Line(actor[b]) = <<>> /\ actor[b].wrote = <<>>
    BY ZenonT(40), <1>5, <2>1, <2>2, MadeStep
  <2> HIDE DEF b
  <2>4. Append(<<>>, p) = <<p>>
    OBVIOUS
  <2>5. Line(y) = Append(Line(actor[b]), p) /\ y.wrote = actor[b].wrote
        /\ y.writing \in {actor[b].writing, NoFrame}
    BY Zenon, <2>2, <2>3, <2>4
  <2> QED
    BY ZenonT(40), <1>1, <1>2, <1>5, <2>1, <2>2, <2>3, <2>5, AcceptStep
<1> QED
  BY Zenon, <1>3, <1>4, <1>5 DEF SendLocks

-----------------------------------------------------------------------------
(* The invariant, and what follows from it.                                 *)

\* The service starts with no packet and no connection.
LEMMA InitInv ==
    ASSUME InitActor
    PROVE  ActorInv
<1> DEFINE x == [NewActor EXCEPT !.at = "none", !.open = FALSE]
<1>1. /\ actor = [a \in ActorIds |-> x] /\ taken = <<>> /\ sending = {}
      /\ told = [p \in ActorPackets |-> <<>>]
      /\ psvc = [stopped |-> FALSE, stopping |-> FALSE, table |-> Nobody,
                 made |-> 0, dials |-> 0, closes |-> 0]
  BY Zenon DEF InitActor
<1>2. /\ x.at = "none" /\ x.open = FALSE /\ x.inbox = <<>> /\ x.sendq = <<>>
      /\ x.wrote = <<>> /\ x.writing = NoFrame
  BY Zenon DEF NewActor
<1>3. x \in ActorRec
  <2>1. /\ <<>> \in Seq(ActorPackets) /\ <<>> \in Seq(Msgs)
        /\ {"connect", "none"} \subseteq ActorStates
    BY DEF ActorStates
  <2>2. NewActor \in ActorRec
    BY Zenon, <2>1 DEF NewActor, ActorRec
  <2> QED
    BY Zenon, <2>1, <2>2 DEF ActorRec
<1> HIDE DEF x
<1>4. PhaseOK(x)
  BY <1>2 DEF PhaseOK
<1>5. Line(x) = <<>>
  BY Zenon, <1>2, ConcatEmptySeq, EmptySeq DEF Line
<1>6. DOMAIN <<>> = {} /\ Range(<<>>) = {} /\ Len(<<>>) = 0
  BY DEF Range
<1>7. Holds(x) = {} /\ LineOK(x, taken)
  BY Zenon, <1>5, <1>6 DEF Holds, Owed, LineOK, Sorted
<1>8. WroteOK(x, taken)
  <2>1. 1 .. 0 - 1 = {}
    OBVIOUS
  <2> QED
    BY ZenonT(40), <1>1, <1>2, <1>6, <2>1 DEF WroteOK
<1>9. ConnsOK
  BY ZenonT(40), <1>1, <1>3, <1>4, <1>7, <1>8 DEF ConnsOK, ConnOK
<1>10. Apart
  BY Zenon, <1>1, <1>7 DEF Apart
<1>11. FatesOK
  BY Zenon, <1>1, <1>6 DEF FatesOK, FateOK
<1>12. SendsOK
  <2>1. <<>> \in Seq(ActorPackets)
    OBVIOUS
  <2> QED
    BY Zenon, <1>1, <1>6, <2>1 DEF SendsOK, EachOnce
<1>13. ServiceOK
  <2>1. psvc \in ServiceRec /\ psvc.made = 0 /\ psvc.table = Nobody
    BY <1>1 DEF ServiceRec, Nobody
  <2>2. 0 <= MaxActors /\ Nobody <= 0
    BY ActorAssumption DEF Nobody
  <2> QED
    BY ZenonT(40), <1>1, <1>2, <2>1, <2>2 DEF ServiceOK
<1> QED
  BY ZenonT(40), <1>9, <1>10, <1>11, <1>12, <1>13 DEF ActorInv

\* Every step keeps the invariant, and is for each packet a step of SendContract.
LEMMA NextInv ==
    ASSUME ActorInv, [NextActor]_actorVars
    PROVE  ActorInv' /\ \A p \in ActorPackets : FateStep(p)
<1>1. CASE UNCHANGED actorVars
  <2>1. /\ psvc' = psvc /\ sending' = sending /\ actor' = actor /\ told' = told
        /\ taken' = taken
    BY Zenon, <1>1 DEF actorVars
  <2>2. ServiceOK'
    BY Zenon, <2>1 DEF ActorInv, ServiceOK
  <2>3. sending \subseteq ActorPackets /\ sending \cap Range(taken) = {}
    BY Zenon DEF ActorInv, SendsOK
  <2> QED
    BY Zenon, <2>1, <2>2, <2>3, ServiceStep
<1>2. CASE \E p \in ActorPackets : SendBegins(p) \/ SendLocks(p)
  BY Zenon, <1>2, SendBeginsStep, SendLocksStep
<1>3. CASE Attach \/ CloseConnection \/ StopFlag \/ StopTable
  BY ZenonT(40), <1>3, AttachStep, CloseConnectionStep, StopFlagStep, StopTableStep
<1>4. ASSUME NEW a \in ActorIds,
             \/ ConnectBegins(a) \/ TakeMessage(a) \/ Dialed(a) \/ BackoffOver(a)
             \/ Serve(a)
      PROVE  ActorInv' /\ \A p \in ActorPackets : FateStep(p)
  BY ZenonT(40), <1>4, ConnectStep, TakeStep, DialedStep, BackoffStep, ServeStep
<1>5. ASSUME NEW a \in ActorIds,
             \/ WriteFrame(a) \/ Written1(a) \/ Lost(a) \/ Finish(a) \/ Drain(a)
             \/ \E i \in DOMAIN actor[a].sendq : Expire(a, i)
      PROVE  ActorInv' /\ \A p \in ActorPackets : FateStep(p)
  BY ZenonT(40), <1>5, WriteStep, WrittenStep, LostStep, FinishStep, DrainStep,
     ExpireStep
<1> QED
  BY ZenonT(40), <1>1, <1>2, <1>3, <1>4, <1>5 DEF NextActor

\* The invariant says what becomes of each packet.
LEMMA InvAnswers ==
    ASSUME ActorInv
    PROVE  ActorAnswersOnce
<1> SUFFICES ASSUME NEW p \in Range(taken)
             PROVE  LET with == {a \in ActorIds : p \in Range(actor[a].inbox) \cup
                                                       Range(actor[a].sendq)}
                    IN  /\ \/ told[p] = <<>> /\ \E a \in ActorIds : with = {a}
                           \/ Len(told[p]) = 1 /\ with = {}
                        /\ told[p] = <<"Success">> =>
                              \E a \in ActorIds : p \in Range(actor[a].wrote)
  BY Zenon DEF ActorAnswersOnce
<1> DEFINE with == {a \in ActorIds : p \in Range(actor[a].inbox) \cup Range(actor[a].sendq)}
<1>1. p \in ActorPackets /\ p # CloseMsg
  <2>1. Range(taken) \subseteq ActorPackets
    BY Zenon, RangeIn DEF ActorInv, SendsOK
  <2> QED
    BY Zenon, <2>1, ActorAssumption
<1>2. \A a : a \in with <=> a \in ActorIds /\ p \in Holds(actor[a])
  <2>1. ASSUME NEW a \in ActorIds
        PROVE  p \in Holds(actor[a]) <=>
                  p \in Range(actor[a].inbox) \cup Range(actor[a].sendq)
    <3>1. actor[a].sendq \in Seq(Msgs) /\ actor[a].inbox \in Seq(Msgs)
      BY Zenon, ConnIs, RecIs
    <3>2. Range(Line(actor[a])) = Range(actor[a].sendq) \cup Range(actor[a].inbox)
      BY Zenon, <3>1, LineRange DEF Line
    <3> QED
      BY Zenon, <1>1, <3>2 DEF Holds, Owed
  <2> QED
    BY Zenon, <2>1
<1>3. FateOK(p)
  BY Zenon, <1>1 DEF ActorInv, FatesOK
<1> HIDE DEF with
<1>4. CASE told[p] = <<>> /\ \E a \in ActorIds : p \in Holds(actor[a])
  <2>1. PICK a \in ActorIds : p \in Holds(actor[a])
    BY Zenon, <1>4
  <2>2. with = {a}
    BY Zenon, <1>2, <2>1 DEF ActorInv, Apart
  <2>3. told[p] # <<"Success">>
    BY <1>4
  <2> QED
    BY Zenon, <1>4, <2>2, <2>3 DEF with
<1>5. CASE \E o \in AllOutcomes :
              /\ told[p] = <<o>>
              /\ \A a \in ActorIds : p \notin Holds(actor[a])
              /\ o = "Success" => \E a \in ActorIds : p \in Range(actor[a].wrote)
  <2>1. PICK o \in AllOutcomes :
              /\ told[p] = <<o>>
              /\ \A a \in ActorIds : p \notin Holds(actor[a])
              /\ o = "Success" => \E a \in ActorIds : p \in Range(actor[a].wrote)
    BY Zenon, <1>5
  <2>2. with = {}
    BY Zenon, <1>2, <2>1
  <2>3. Len(told[p]) = 1 /\ (told[p] = <<"Success">> => o = "Success")
    BY <2>1
  <2> QED
    BY Zenon, <2>1, <2>2, <2>3 DEF with
<1> QED
  BY Zenon, <1>3, <1>4, <1>5 DEF FateOK

\* The invariant says in which order the frames are written.
LEMMA InvInOrder ==
    ASSUME ActorInv
    PROVE  ActorInOrder
<1> SUFFICES ASSUME NEW a \in ActorIds, NEW i \in 1 .. Len(actor[a].wrote) - 1
             PROVE  \E m, n \in DOMAIN taken :
                       /\ m <= n /\ taken[m] = actor[a].wrote[i]
                       /\ taken[n] = actor[a].wrote[i + 1]
  BY Zenon DEF ActorInOrder
<1> DEFINE w == actor[a].wrote
<1>1. WroteOK(actor[a], taken) /\ taken \in Seq(ActorPackets) /\ w \in Seq(ActorPackets)
  BY Zenon, ConnIs, RecIs DEF ConnOK
<1>2. NotAfter(w[i], w[i + 1], taken)
  BY Zenon, <1>1 DEF WroteOK
<1>3. DOMAIN taken = 1 .. Len(taken) /\ Len(taken) \in Nat
  BY Zenon, <1>1, RangeIs
<1>4. CASE w[i] = w[i + 1]
  <2>1. Len(w) \in Nat
    BY Zenon, <1>1, LenProperties
  <2>2. i \in 1 .. Len(w)
    BY <2>1
  <2>3. w[i] \in Range(w)
    BY Zenon, <1>1, <2>2, RangeIs
  <2>4. w[i] \in Range(taken)
    BY Zenon, <1>1, <2>3 DEF WroteOK
  <2>5. PICK m \in 1 .. Len(taken) : taken[m] = w[i]
    BY Zenon, <1>1, <2>4, RangeIs
  <2>6. m <= m
    BY <1>3
  <2> QED
    BY Zenon, <1>3, <1>4, <2>5, <2>6
<1>5. CASE <<w[i], w[i + 1]>> \in Accepted(taken)
  <2>1. PICK m, n \in DOMAIN taken : m < n /\ taken[m] = w[i] /\ taken[n] = w[i + 1]
    BY <1>5 DEF Accepted
  <2>2. m <= n
    BY <1>3, <2>1
  <2> QED
    BY Zenon, <2>1, <2>2
<1> QED
  BY Zenon, <1>2, <1>4, <1>5 DEF NotAfter

\* The table's entry is open and a finished connection owes nothing.
LEMMA InvTable ==
    ASSUME ActorInv
    PROVE  TableEntryOpen
<1>1. ASSUME NEW a \in ActorIds, actor[a].at = "done"
      PROVE  actor[a].inbox = <<>> /\ actor[a].sendq = <<>>
  BY Zenon, <1>1, ConnIs DEF PhaseOK
<1>2. psvc.table # Nobody => actor[psvc.table].open
  BY Zenon DEF ActorInv, ServiceOK
<1> QED
  BY Zenon, <1>1, <1>2 DEF TableEntryOpen

\* PacketSvc of the Rust port, for every number of packets, connections, dials
\* and closes: no race of send(), a disconnect, a deadline, close_connection()
\* and stop() drops a packet that send() accepted or answers it twice, none is
\* reported as sent whose frame was not written, the table's connection still
\* reads its inbox, and the frames are written in the order of acceptance.
THEOREM PacketServiceSafe ==
    SpecActor => [](ActorAnswersOnce /\ TableEntryOpen /\ ActorInOrder)
<1>1. InitActor => ActorInv
  BY InitInv
<1>2. ActorInv /\ [NextActor]_actorVars => ActorInv'
  BY NextInv
<1>3. ActorInv => ActorAnswersOnce /\ TableEntryOpen /\ ActorInOrder
  BY InvAnswers, InvTable, InvInOrder
<1> QED
  BY <1>1, <1>2, <1>3, PTL DEF SpecActor

\* PacketSvc of the Rust port implements the contract that the packet service of
\* the C++ code keeps: send() takes or refuses each packet once, and what it took
\* gets one outcome.
THEOREM PacketServiceImplements == SpecActor => ActorKeepsContract
<1>1. InitActor => ActorInv
  BY InitInv
<1>2. ActorInv /\ [NextActor]_actorVars => ActorInv'
  BY NextInv
<1>3. InitActor => ActorContract!InitContract
  BY DEF InitActor, ActorContract!InitContract, ActorFate, Range
<1>4. ActorInv /\ [NextActor]_actorVars => [ActorContract!NextContract]_ActorFate
  <2> SUFFICES ASSUME ActorInv, [NextActor]_actorVars
               PROVE  ActorContract!NextContract
    BY Zenon
  <2>1. ActorInv' /\ \A p \in ActorPackets : FateStep(p)
    BY Zenon, NextInv
  <2>2. /\ ActorFate = [p \in ActorPackets |-> FateOf(told[p], p \in Range(taken))]
        /\ ActorFate' = [p \in ActorPackets |-> FateOf(told[p], p \in Range(taken))']
    BY DEF ActorFate, FateOf
  <2>3. ASSUME NEW p \in ActorPackets
        PROVE  FateOf(told[p], p \in Range(taken))' \in
                  {"unsent", "refused", "taken"} \cup AllOutcomes
    <3>1. FateOK(p)'
      BY Zenon, <2>1 DEF ActorInv, FatesOK
    <3>2. CASE p \notin Range(taken')
      <4>1. (p \in Range(taken')) = FALSE
        BY <3>2
      <4> QED
        BY ZenonT(40), <3>1, <3>2, <4>1, FateIs DEF FateOK
    <3>3. CASE p \in Range(taken')
      <4>1. (p \in Range(taken')) = TRUE
        BY <3>3
      <4> QED
        BY ZenonT(40), <3>1, <3>3, <4>1, FateIs DEF FateOK
    <3> QED
      BY Zenon, <3>2, <3>3
  <2>4. AllOutcomes = ActorContract!Outcomes
    BY Zenon DEF AllOutcomes, ActorContract!Outcomes
  <2>5. ASSUME NEW p \in ActorPackets PROVE ActorContract!Decided(p, ActorFate'[p])
    BY Zenon, <2>1, <2>2, <2>4 DEF FateStep, ActorContract!Decided
  <2>6. ActorFate' \in
           [ActorPackets -> {"unsent", "refused", "taken"} \cup ActorContract!Outcomes]
    BY Zenon, <2>2, <2>3, <2>4
  <2> QED
    BY Zenon, <2>5, <2>6 DEF ActorContract!NextContract
<1> QED
  BY <1>1, <1>2, <1>3, <1>4, PTL DEF SpecActor, ActorKeepsContract,
     ActorContract!SpecContract
=============================================================================
