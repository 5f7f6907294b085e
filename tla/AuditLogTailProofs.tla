-------------------------- MODULE AuditLogTailProofs --------------------------
(***************************************************************************)
(* Proofs about AuditLogTail: events are handed over once and in order, and *)
(* none is passed over, for any number of days, lines and events per        *)
(* Collect.                                                                *)
(***************************************************************************)
EXTENDS AuditLogTail, SequenceTheorems, WellFoundedInduction, TLAPS

(***************************************************************************)
(* Induction over the natural numbers, for sets                            *)
(***************************************************************************)

\* A set of natural numbers has a least element.
LEMMA LeastNumber ==
    ASSUME NEW S, S \subseteq Nat, S # {}
    PROVE  \E m \in S : \A k \in S : m <= k
<1>1. PICK R : IsWellFoundedOn(R, Nat) /\ \A i, j \in Nat : i < j => <<i, j>> \in R
  <2>1. \A i, j \in Nat : i < j => <<i, j>> \in OpToRel(<, Nat)
    BY DEF OpToRel
  <2>2. QED
    BY <2>1, NatLessThanWellFounded, Zenon
<1>2. IsWellFoundedOn(R, Nat)
  BY <1>1
<1>3. \E m \in S : \A k \in S : ~(<<k, m>> \in R)
  BY <1>2, WFMin
<1>4. PICK m \in S : \A k \in S : ~(<<k, m>> \in R)
  BY <1>3
<1>5. \A k \in S : ~(k < m)
  BY <1>1, <1>4, Zenon
<1>6. QED
  BY <1>5

\* A set that holds a and with every number below b the next one holds all of a .. b.
LEMMA IntervalInduction ==
    ASSUME NEW a \in Nat, NEW b \in Nat, NEW S,
           a \in S, \A n \in a .. b - 1 : n \in S => n + 1 \in S
    PROVE  a .. b \subseteq S
<1>1. SUFFICES ASSUME ~(a .. b \subseteq S) PROVE FALSE
  OBVIOUS
<1>2. (a .. b) \ S \subseteq Nat /\ (a .. b) \ S # {}
  BY <1>1
<1>3. PICK m \in (a .. b) \ S : \A k \in (a .. b) \ S : m <= k
  BY <1>2, LeastNumber
<1>4. m # a /\ m - 1 \in a .. b - 1
  BY <1>3
<1>5. m - 1 \in S
  BY <1>3, <1>4
<1>6. QED
  BY <1>3, <1>4, <1>5

\* A set of numbers up to b has a greatest element.
LEMMA GreatestNumber ==
    ASSUME NEW a \in Nat, NEW b \in Nat, NEW S, S \subseteq a .. b, S # {}
    PROVE  \E m \in S : \A k \in S : k <= m
<1> DEFINE D == {b - k : k \in S}
<1>1. D \subseteq Nat /\ D # {}
  OBVIOUS
<1>2. PICK d \in D : \A e \in D : d <= e
  BY <1>1, LeastNumber
<1>3. PICK m \in S : d = b - m
  BY <1>2
<1>4. \A k \in S : b - m <= b - k
  BY <1>2, <1>3
<1>5. QED
  BY <1>4

(***************************************************************************)
(* Found                                                                   *)
(***************************************************************************)

\* The function Found is the last value of.
UpTo(d, from, to) ==
    LET upTo[k \in from .. to] ==
          IF k = from THEN <<>>
          ELSE IF file[d][k] = Noise THEN upTo[k - 1] ELSE Append(upTo[k - 1], file[d][k])
    IN  upTo

FoundStep(g, d, from, to) ==
    [k \in from .. to |->
        IF k = from THEN <<>>
        ELSE IF file[d][k] = Noise THEN g[k - 1] ELSE Append(g[k - 1], file[d][k])]

\* The recursion defines a function: the values up to n fix the next one.
LEMMA UpToExists ==
    ASSUME NEW d, NEW from \in Nat, NEW to \in Nat, from <= to
    PROVE  \E g : g = FoundStep(g, d, from, to)
<1> DEFINE S == {n \in from .. to : \E g : g = FoundStep(g, d, from, n)}
<1>1. from \in S
  <2> DEFINE g == [k \in from .. from |-> <<>>]
  <2>1. g = FoundStep(g, d, from, from)
    BY DEF FoundStep
  <2>2. QED
    BY <2>1
<1>2. ASSUME NEW n \in from .. to - 1, n \in S PROVE n + 1 \in S
  <2>1. PICK g : g = FoundStep(g, d, from, n)
    BY <1>2
  <2> DEFINE v == IF file[d][n + 1] = Noise THEN g[n] ELSE Append(g[n], file[d][n + 1])
             h == [k \in from .. n + 1 |-> IF k = n + 1 THEN v ELSE g[k]]
  <2>2. \A k \in from .. n : h[k] = g[k]
    OBVIOUS
  <2>3. \A k \in from .. n : g[k] = IF k = from THEN <<>>
                                     ELSE IF file[d][k] = Noise THEN g[k - 1] ELSE Append(g[k - 1], file[d][k])
    BY <2>1 DEF FoundStep
  <2>4. h[n + 1] = v /\ n + 1 # from /\ (n + 1) - 1 = n
    OBVIOUS
  <2>5. \A k \in from .. n : k # from => k - 1 \in from .. n
    OBVIOUS
  <2> HIDE DEF v, h
  <2>6. ASSUME NEW k \in from .. n + 1
        PROVE  h[k] = IF k = from THEN <<>>
                      ELSE IF file[d][k] = Noise THEN h[k - 1] ELSE Append(h[k - 1], file[d][k])
    <3>1. CASE k = n + 1
      BY <3>1, <2>2, <2>4 DEF v
    <3>2. CASE k # n + 1
      BY <3>2, <2>2, <2>3, <2>5
    <3>3. QED
      BY <3>1, <3>2
  <2>7. h = FoundStep(h, d, from, n + 1)
    BY <2>6 DEF FoundStep, h
  <2>8. \E f : f = FoundStep(f, d, from, n + 1)
    BY <2>7
  <2>9. QED
    BY <2>8
<1> HIDE DEF S
<1>3. to \in S
  BY <1>1, <1>2, IntervalInduction
<1>4. QED
  BY <1>3 DEF S

LEMMA UpToIs ==
    ASSUME NEW d, NEW from \in Nat, NEW to \in Nat, from <= to
    PROVE  /\ Found(d, from, to) = UpTo(d, from, to)[to]
           /\ UpTo(d, from, to)[from] = <<>>
           /\ \A k \in from + 1 .. to :
                UpTo(d, from, to)[k] =
                  IF file[d][k] = Noise THEN UpTo(d, from, to)[k - 1]
                  ELSE Append(UpTo(d, from, to)[k - 1], file[d][k])
<1>1. UpTo(d, from, to) = FoundStep(UpTo(d, from, to), d, from, to)
  <2>1. \E g : g = FoundStep(g, d, from, to)
    BY UpToExists
  <2>2. QED
    BY <2>1 DEF UpTo, FoundStep
<1>2. Found(d, from, to) = UpTo(d, from, to)[to]
  BY DEF Found, UpTo
<1> DEFINE g == UpTo(d, from, to)
<1> HIDE DEF g
<1>3. g = FoundStep(g, d, from, to)
  BY <1>1 DEF g
<1>4. \A k \in from .. to : g[k] = IF k = from THEN <<>>
                                    ELSE IF file[d][k] = Noise THEN g[k - 1] ELSE Append(g[k - 1], file[d][k])
  BY <1>3 DEF FoundStep
<1>5. from \in from .. to /\ \A k \in from + 1 .. to : k \in from .. to /\ k # from
  OBVIOUS
<1>6. QED
  BY <1>2, <1>4, <1>5 DEF g

\* s holds the events of the lines from .. n, those and no others, in their order.
Gathers(s, d, from, n) ==
    /\ s \in Seq(1 .. MaxLines)
    /\ \A i \in 1 .. Len(s) : \E k \in from + 1 .. n : file[d][k] # Noise /\ s[i] = file[d][k]
    /\ \A k \in from + 1 .. n : file[d][k] # Noise => \E i \in 1 .. Len(s) : s[i] = file[d][k]
    /\ \A i, j \in 1 .. Len(s) : i < j => s[i] < s[j]

\* The lines of a file and the order of its events.
LEMMA FileLines ==
    ASSUME TypeOK, FilesInOrder, NEW d \in Day
    PROVE  /\ file[d] \in Seq(0 .. MaxLines) /\ Len(file[d]) \in Nat
           /\ \A k \in 1 .. Len(file[d]) : file[d][k] \in 0 .. MaxLines
           /\ \A k, l \in 1 .. Len(file[d]) :
                k < l /\ file[d][k] # Noise /\ file[d][l] # Noise => file[d][k] < file[d][l]
<1>1. file[d] \in Seq(0 .. MaxLines)
  BY DEF TypeOK
<1>2. \A k, l \in 1 .. Len(file[d]) :
        k < l /\ file[d][k] # Noise /\ file[d][l] # Noise => file[d][k] < file[d][l]
  BY DEF FilesInOrder
<1>3. \A k \in 1 .. Len(file[d]) : file[d][k] \in 0 .. MaxLines
  BY <1>1, ElementOfSeq
<1>4. QED
  BY <1>1, <1>2, <1>3

LEMMA GathersNext ==
    ASSUME TypeOK, FilesInOrder, NEW d \in Day, NEW from \in Nat, NEW n \in from .. Len(file[d]) - 1,
           NEW s, Gathers(s, d, from, n)
    PROVE  Gathers(IF file[d][n + 1] = Noise THEN s ELSE Append(s, file[d][n + 1]), d, from, n + 1)
<1>1. /\ Len(file[d]) \in Nat /\ n \in Nat /\ n + 1 \in 1 .. Len(file[d])
      /\ \A k \in 1 .. Len(file[d]) : file[d][k] \in 0 .. MaxLines
      /\ \A k, l \in 1 .. Len(file[d]) :
           k < l /\ file[d][k] # Noise /\ file[d][l] # Noise => file[d][k] < file[d][l]
  BY FileLines
<1>2. MaxLines \in Nat
  BY AuditLogAssumption
<1>3. CASE file[d][n + 1] = Noise
  <2>1. \A k \in from + 1 .. n + 1 : file[d][k] # Noise => k \in from + 1 .. n
    BY <1>1, <1>3
  <2>2. from + 1 .. n \subseteq from + 1 .. n + 1
    BY <1>1
  <2>3. QED
    BY <1>3, <2>1, <2>2 DEF Gathers
<1>4. CASE file[d][n + 1] # Noise
  <2> DEFINE e == file[d][n + 1]
             t == Append(s, e)
  <2>1. e \in 1 .. MaxLines
    BY <1>1, <1>2, <1>4 DEF Noise
  <2>2. /\ t \in Seq(1 .. MaxLines) /\ Len(t) = Len(s) + 1 /\ Len(s) \in Nat
        /\ t[Len(s) + 1] = e /\ \A i \in 1 .. Len(s) : t[i] = s[i]
    BY <2>1 DEF Gathers
  <2>3. \A i \in 1 .. Len(s) : s[i] < e
    <3>1. TAKE i \in 1 .. Len(s)
    <3>2. PICK k \in from + 1 .. n : file[d][k] # Noise /\ s[i] = file[d][k]
      BY DEF Gathers
    <3>3. k \in 1 .. Len(file[d]) /\ k < n + 1
      BY <1>1
    <3>4. QED
      BY <1>1, <1>4, <3>2, <3>3
  <2> HIDE DEF t
  <2>4. ASSUME NEW i \in 1 .. Len(t)
        PROVE  \E k \in from + 1 .. n + 1 : file[d][k] # Noise /\ t[i] = file[d][k]
    <3>1. CASE i = Len(s) + 1
      <4>1. n + 1 \in from + 1 .. n + 1
        BY <1>1
      <4>2. QED
        BY <1>4, <2>2, <3>1, <4>1
    <3>2. CASE i # Len(s) + 1
      <4>1. i \in 1 .. Len(s)
        BY <2>2, <3>2
      <4>2. PICK k \in from + 1 .. n : file[d][k] # Noise /\ s[i] = file[d][k]
        BY <4>1 DEF Gathers
      <4>3. k \in from + 1 .. n + 1
        BY <1>1
      <4>4. QED
        BY <2>2, <4>1, <4>2, <4>3
    <3>3. QED
      BY <3>1, <3>2
  <2>5. ASSUME NEW k \in from + 1 .. n + 1, file[d][k] # Noise
        PROVE  \E i \in 1 .. Len(t) : t[i] = file[d][k]
    <3>1. CASE k = n + 1
      BY <2>2, <3>1
    <3>2. CASE k # n + 1
      <4>1. k \in from + 1 .. n
        BY <1>1, <3>2
      <4>2. PICK i \in 1 .. Len(s) : s[i] = file[d][k]
        BY <2>5, <4>1 DEF Gathers
      <4>3. i \in 1 .. Len(t)
        BY <2>2
      <4>4. QED
        BY <2>2, <4>2, <4>3
    <3>3. QED
      BY <3>1, <3>2
  <2>6. ASSUME NEW i \in 1 .. Len(t), NEW j \in 1 .. Len(t), i < j
        PROVE  t[i] < t[j]
    <3>1. i \in 1 .. Len(s)
      BY <2>2, <2>6
    <3>2. CASE j \in 1 .. Len(s)
      BY <2>2, <2>6, <3>1, <3>2 DEF Gathers
    <3>3. CASE j = Len(s) + 1
      BY <2>2, <2>3, <3>1, <3>3
    <3>4. QED
      BY <2>2, <3>2, <3>3
  <2>7. Gathers(t, d, from, n + 1)
    BY <2>2, <2>4, <2>5, <2>6 DEF Gathers
  <2>8. QED
    BY <1>4, <2>7 DEF t
<1>5. QED
  BY <1>3, <1>4

\* Found is what its name says.
LEMMA FoundGathers ==
    ASSUME TypeOK, FilesInOrder, NEW d \in Day, NEW from \in Nat, NEW to \in from .. Len(file[d])
    PROVE  Gathers(Found(d, from, to), d, from, to)
<1>1. Len(file[d]) \in Nat /\ to \in Nat /\ from <= to /\ to <= Len(file[d])
  BY FileLines
<1> DEFINE g == UpTo(d, from, to)
           S == {n \in from .. to : Gathers(g[n], d, from, n)}
<1>2. from \in S
  <2>1. g[from] = <<>>
    BY <1>1, UpToIs
  <2>2. Gathers(<<>>, d, from, from)
    BY DEF Gathers
  <2>3. QED
    BY <1>1, <2>1, <2>2
<1>3. ASSUME NEW n \in from .. to - 1, n \in S PROVE n + 1 \in S
  <2>1. n \in from .. Len(file[d]) - 1 /\ n + 1 \in from + 1 .. to /\ (n + 1) - 1 = n /\ n + 1 \in from .. to
    BY <1>1
  <2>2. g[n + 1] = IF file[d][n + 1] = Noise THEN g[n] ELSE Append(g[n], file[d][n + 1])
    <3>1. \A k \in from + 1 .. to : g[k] = IF file[d][k] = Noise THEN g[k - 1] ELSE Append(g[k - 1], file[d][k])
      BY <1>1, UpToIs
    <3> HIDE DEF g
    <3>2. QED
      BY <2>1, <3>1
  <2>3. Gathers(g[n], d, from, n)
    BY <1>3
  <2> HIDE DEF g
  <2>4. Gathers(g[n + 1], d, from, n + 1)
    BY <2>1, <2>2, <2>3, GathersNext
  <2>5. QED
    BY <2>1, <2>4
<1> HIDE DEF S
<1>4. to \in S
  <2>1. from .. to \subseteq S
    BY <1>1, <1>2, <1>3, IntervalInduction
  <2>2. QED
    BY <1>1, <2>1
<1>5. Found(d, from, to) = g[to]
  BY <1>1, UpToIs
<1>6. QED
  BY <1>4, <1>5 DEF S

(***************************************************************************)
(* readFromOffset                                                          *)
(***************************************************************************)

\* Where a read of d from offset ends: at the end of the file or, with the limit
\* reached, before it.
LEMMA ReadToIs ==
    ASSUME TypeOK, FilesInOrder, NEW d \in Day, NEW offset \in 0 .. Len(file[d]), NEW max \in Int
    PROVE  /\ ReadTo(d, offset, max) \in offset .. Len(file[d])
           /\ Len(Found(d, offset, ReadTo(d, offset, max))) < max => ReadTo(d, offset, max) = Len(file[d])
<1> DEFINE ends == {e \in offset .. Len(file[d]) :
                      e = offset \/ max <= 0 \/ Len(Found(d, offset, e - 1)) < max}
           to == ReadTo(d, offset, max)
<1>1. Len(file[d]) \in Nat /\ offset \in Nat
  BY FileLines
<1>2. \E m \in ends : \A k \in ends : k <= m
  <2>1. offset \in ends /\ ends \subseteq offset .. Len(file[d])
    BY <1>1
  <2> HIDE DEF ends
  <2>2. QED
    BY <1>1, <2>1, GreatestNumber
<1>3. to \in ends /\ \A f \in ends : f <= to
  BY <1>2 DEF ReadTo
<1>4. to \in offset .. Len(file[d])
  BY <1>3
<1>5. ASSUME Len(Found(d, offset, to)) < max, to # Len(file[d]) PROVE FALSE
  <2>1. to + 1 \in offset .. Len(file[d]) /\ (to + 1) - 1 = to
    BY <1>1, <1>4, <1>5
  <2>2. Len(Found(d, offset, (to + 1) - 1)) < max
    BY <1>5, <2>1
  <2>3. to + 1 \in ends
    BY <2>1, <2>2
  <2>4. to \in Nat /\ to + 1 <= to
    BY <1>1, <1>3, <1>4, <2>3
  <2>5. QED
    BY <2>4
<1>6. QED
  BY <1>4, <1>5

\* What a read returns.
LEMMA ReadIs ==
    ASSUME TypeOK, FilesInOrder, NEW d \in Day, NEW offset \in Nat, NEW max \in Int,
           NEW r, r = readFromOffset(d, offset, max)
    PROVE  /\ r.offset \in Nat
           /\ Gathers(r.events, d, offset, r.offset)
           /\ d \in exists /\ offset <= Len(file[d]) =>
                r.offset \in offset .. Len(file[d]) /\ (Len(r.events) < max => r.offset = Len(file[d]))
           /\ ~(d \in exists /\ offset <= Len(file[d])) => r.events = <<>> /\ r.offset = offset
<1>1. Len(file[d]) \in Nat
  BY FileLines
<1>2. CASE d \in exists /\ offset <= Len(file[d])
  <2> DEFINE to == ReadTo(d, offset, max)
  <2>1. offset \in 0 .. Len(file[d])
    BY <1>1, <1>2
  <2>2. to \in offset .. Len(file[d]) /\ (Len(Found(d, offset, to)) < max => to = Len(file[d]))
    BY <2>1, ReadToIs
  <2>3. r.events = Found(d, offset, to) /\ r.offset = to
    BY <1>2 DEF readFromOffset
  <2>4. Gathers(Found(d, offset, to), d, offset, to)
    BY <2>2, FoundGathers
  <2> HIDE DEF to
  <2>5. QED
    BY <1>1, <1>2, <2>2, <2>3, <2>4
<1>3. CASE ~(d \in exists /\ offset <= Len(file[d]))
  <2>1. r.events = <<>> /\ r.offset = offset
    BY <1>3 DEF readFromOffset
  <2>2. Gathers(<<>>, d, offset, offset)
    BY DEF Gathers
  <2>3. QED
    BY <1>3, <2>1, <2>2
<1>4. QED
  BY <1>2, <1>3

(***************************************************************************)
(* What Collect reads                                                      *)
(***************************************************************************)

LEMMA LatestIs ==
    ASSUME TypeOK, exists # {}
    PROVE  latest \in exists /\ latest \in Day /\ \A e \in exists : e <= latest
<1>1. exists \subseteq 1 .. Days /\ Days \in Nat
  BY AuditLogAssumption DEF TypeOK, Day
<1>2. \E m \in exists : \A k \in exists : k <= m
  BY <1>1, GreatestNumber
<1>3. latest \in exists /\ \A e \in exists : e <= latest
  BY <1>2 DEF latest
<1>4. QED
  BY <1>1, <1>3 DEF Day

\* What is known of the result r of reading d from offset when the events I of those
\* handed over are behind that place.
ReadAhead(r, d, offset, I) ==
    /\ \A i \in 1 .. Len(r.events) :
         /\ r.events[i] <= written
         /\ \E k \in 1 .. Len(file[d]) : offset < k /\ k <= r.offset /\ file[d][k] # Noise /\ r.events[i] = file[d][k]
         /\ \A e \in Day : \A l \in 1 .. Len(file[e]) :
              file[e][l] # Noise /\ (d < e \/ (d = e /\ r.offset < l)) => r.events[i] < file[e][l]
    /\ \A i \in I, j \in 1 .. Len(r.events) : given[i] < r.events[j]

LEMMA ReadContinues ==
    ASSUME TypeOK, FilesInOrder, GivenInv, NEW d \in Day, NEW offset \in Nat, NEW max \in Int,
           NEW r, r = readFromOffset(d, offset, max), NEW I,
           \A i \in I : \A k \in 1 .. Len(file[d]) :
              file[d][k] # Noise /\ offset < k => given[i] < file[d][k]
    PROVE  ReadAhead(r, d, offset, I)
<1>1. /\ r.offset \in Nat
      /\ Gathers(r.events, d, offset, r.offset)
      /\ d \in exists /\ offset <= Len(file[d]) => r.offset \in offset .. Len(file[d])
      /\ ~(d \in exists /\ offset <= Len(file[d])) => r.events = <<>>
  BY ReadIs
<1>2. Len(file[d]) \in Nat
  BY FileLines
<1>3. ASSUME NEW i \in 1 .. Len(r.events)
      PROVE  \E k \in 1 .. Len(file[d]) : offset < k /\ k <= r.offset /\ file[d][k] # Noise /\ r.events[i] = file[d][k]
  <2>1. r.events # <<>>
    BY <1>3
  <2>2. r.offset \in offset .. Len(file[d])
    BY <1>1, <2>1
  <2>3. PICK k \in offset + 1 .. r.offset : file[d][k] # Noise /\ r.events[i] = file[d][k]
    BY <1>1 DEF Gathers
  <2>4. k \in 1 .. Len(file[d]) /\ offset < k /\ k <= r.offset
    BY <1>1, <1>2, <2>2
  <2>5. QED
    BY <2>3, <2>4
<1>4. ASSUME NEW i \in 1 .. Len(r.events)
      PROVE  /\ r.events[i] <= written
             /\ \A e \in Day : \A l \in 1 .. Len(file[e]) :
                  file[e][l] # Noise /\ (d < e \/ (d = e /\ r.offset < l)) => r.events[i] < file[e][l]
  <2>1. PICK k \in 1 .. Len(file[d]) : offset < k /\ k <= r.offset /\ file[d][k] # Noise /\ r.events[i] = file[d][k]
    BY <1>3
  <2>2. file[d][k] <= written
    BY DEF FilesInOrder
  <2>3. ASSUME NEW e \in Day, NEW l \in 1 .. Len(file[e]), file[e][l] # Noise, d < e \/ (d = e /\ r.offset < l)
        PROVE  file[d][k] < file[e][l]
    <3>1. d < e \/ (d = e /\ k < l)
      <4>1. k \in Nat /\ l \in Int
        OBVIOUS
      <4>2. QED
        BY <1>1, <2>1, <2>3, <4>1
    <3>2. QED
      BY <2>1, <2>3, <3>1 DEF FilesInOrder
  <2>4. QED
    BY <2>1, <2>2, <2>3
<1>5. ASSUME NEW i \in I, NEW j \in 1 .. Len(r.events)
      PROVE  given[i] < r.events[j]
  <2>1. PICK k \in 1 .. Len(file[d]) : offset < k /\ file[d][k] # Noise /\ r.events[j] = file[d][k]
    BY <1>3
  <2>2. QED
    BY <2>1
<1>6. QED
  BY <1>3, <1>4, <1>5 DEF ReadAhead

\* What lies ahead of the checkpoint that was read, and the only things that may be due.
LEMMA AtCheckpoint ==
    ASSUME IInv, NEW from \in {state, Start}
    PROVE  /\ from \in [current : Day \union {NoFile}, offset : Nat]
           /\ from.current \in Int /\ from.offset \in Nat
           /\ \A d \in Day : d \in Int /\ d > NoFile
           /\ \A i \in Continued(from) : from = state /\ Behind(from, given[i])
           /\ \A i \in Continued(from) : \A d \in Day : \A k \in 1 .. Len(file[d]) :
                file[d][k] # Noise /\ (from.current < d \/ (from.current = d /\ from.offset < k)) => given[i] < file[d][k]
           /\ \A d \in Day : \A k \in 1 .. Len(file[d]) :
                Due(d, k) => /\ d \in exists
                             /\ file[d][k] # Noise
                             /\ Ahead(d, k)
                             /\ from.current < d \/ (from.current = d /\ from.offset < k)
<1>1. state \in [current : Day \union {NoFile}, offset : Nat] /\ Days \in Nat
  BY AuditLogAssumption DEF IInv, TypeOK
<1>2. \A d \in Day : d \in Int /\ d > NoFile
  BY <1>1 DEF Day, NoFile
<1>3. Start \in [current : Day \union {NoFile}, offset : Nat]
  BY DEF Start
<1>4. from \in [current : Day \union {NoFile}, offset : Nat]
  BY <1>1, <1>3
<1>5. from.current \in Int /\ from.offset \in Nat
  BY <1>2, <1>4 DEF NoFile
<1>6. \A i \in Continued(from) : from = state /\ Behind(from, given[i])
  BY DEF IInv, GivenInv, Continued
<1>7. \A i \in Continued(from) : \A d \in Day : \A k \in 1 .. Len(file[d]) :
        file[d][k] # Noise /\ (from.current < d \/ (from.current = d /\ from.offset < k)) => given[i] < file[d][k]
  BY <1>6 DEF Behind, AheadOf
<1>8. ASSUME NEW d \in Day, NEW k \in 1 .. Len(file[d]), Due(d, k)
      PROVE  /\ d \in exists
             /\ file[d][k] # Noise
             /\ Ahead(d, k)
             /\ from.current < d \/ (from.current = d /\ from.offset < k)
  <2>1. d \in exists /\ file[d][k] # Noise /\ Ahead(d, k)
    BY <1>8 DEF IInv, NothingPassedOver, Due
  <2>2. CASE from = state
    BY <2>1, <2>2 DEF Ahead, AheadOf
  <2>3. CASE from = Start
    BY <1>2, <2>1, <2>3 DEF Start
  <2>4. QED
    BY <2>1, <2>2, <2>3
<1>9. QED
  BY <1>2, <1>4, <1>5, <1>6, <1>7, <1>8

LEMMA SameDayContinues ==
    ASSUME IInv, exists # {}, NEW from \in {state, Start}, from.current \in {NoFile, latest}
    PROVE  /\ Continues(from, SameDay(from).events, SameDay(from).at)
           /\ SameDay(from).events \in Seq(1 .. MaxLines)
           /\ SameDay(from).at \in [current : Day \union {NoFile}, offset : Nat]
<1> DEFINE known == IF from.current = latest THEN from.offset ELSE 0
           start == IF Len(file[latest]) < known THEN 0 ELSE known
           r == readFromOffset(latest, start, maxEventsPerCollect)
           p == [current |-> latest, offset |-> r.offset]
<1>1. TypeOK /\ FilesInOrder /\ GivenInv /\ NothingPassedOver
  BY DEF IInv
<1>2. latest \in exists /\ latest \in Day /\ \A e \in exists : e <= latest
  BY <1>1, LatestIs
<1>3. /\ from \in [current : Day \union {NoFile}, offset : Nat]
      /\ from.current \in Int /\ from.offset \in Nat
      /\ \A d \in Day : d \in Int /\ d > NoFile
      /\ \A i \in Continued(from) : from = state /\ Behind(from, given[i])
      /\ \A i \in Continued(from) : \A d \in Day : \A k \in 1 .. Len(file[d]) :
           file[d][k] # Noise /\ (from.current < d \/ (from.current = d /\ from.offset < k)) => given[i] < file[d][k]
      /\ \A d \in Day : \A k \in 1 .. Len(file[d]) :
           Due(d, k) => /\ d \in exists
                        /\ file[d][k] # Noise
                        /\ Ahead(d, k)
                        /\ from.current < d \/ (from.current = d /\ from.offset < k)
  BY AtCheckpoint
<1>4. Len(file[latest]) \in Nat /\ maxEventsPerCollect \in Int
  BY <1>1, <1>2, FileLines, AuditLogAssumption
<1>5. start \in Nat /\ start <= Len(file[latest])
  BY <1>3, <1>4
<1>6. \A i \in Continued(from) : \A k \in 1 .. Len(file[latest]) :
        file[latest][k] # Noise /\ start < k => given[i] < file[latest][k]
  <2> SUFFICES ASSUME NEW i \in Continued(from), NEW k \in 1 .. Len(file[latest]),
                      file[latest][k] # Noise, start < k
               PROVE  given[i] < file[latest][k]
    OBVIOUS
  <2>1. CASE from.current = latest /\ Len(file[latest]) < from.offset
    <3>1. Behind(from, given[i])
      BY <1>3
    <3>2. QED
      BY <1>2, <2>1, <3>1 DEF Behind
  <2>2. CASE from.current = latest /\ ~(Len(file[latest]) < from.offset)
    BY <1>2, <1>3, <2>2
  <2>3. CASE from.current # latest
    BY <1>2, <1>3, <2>3
  <2>4. QED
    BY <2>1, <2>2, <2>3
<1>7. SameDay(from).events = r.events /\ SameDay(from).at = p
  BY DEF SameDay, Done
<1>8. start # 0 => from.current = latest /\ start = from.offset
  OBVIOUS
<1> HIDE DEF known, start
<1>9. /\ r.offset \in Nat
      /\ Gathers(r.events, latest, start, r.offset)
      /\ r.offset \in start .. Len(file[latest])
  BY <1>1, <1>2, <1>4, <1>5, ReadIs
<1>10. /\ \A i \in 1 .. Len(r.events) :
            /\ r.events[i] <= written
            /\ \A e \in Day : \A l \in 1 .. Len(file[e]) :
                 file[e][l] # Noise /\ (latest < e \/ (latest = e /\ r.offset < l)) => r.events[i] < file[e][l]
       /\ \A i \in Continued(from), j \in 1 .. Len(r.events) : given[i] < r.events[j]
  <2>1. ReadAhead(r, latest, start, Continued(from))
    BY <1>1, <1>2, <1>4, <1>5, <1>6, ReadContinues
  <2>2. QED
    BY <2>1 DEF ReadAhead
<1> HIDE DEF r
<1>11. p.current = latest /\ p.offset = r.offset /\ latest # NoFile
  BY <1>2, <1>3
<1> HIDE DEF p
<1>12. InPlace(p)
  BY <1>2, <1>3, <1>4, <1>9, <1>11 DEF InPlace
<1>13. ASSUME NEW i \in Continued(from) PROVE Behind(p, given[i])
  <2> SUFFICES ASSUME NEW d \in Day, NEW k \in 1 .. Len(file[d]), file[d][k] # Noise,
                      latest < d \/ (latest = d /\ r.offset < k) \/ (d = latest /\ Len(file[d]) < r.offset)
               PROVE  given[i] < file[d][k]
    BY <1>11 DEF Behind, AheadOf
  <2>1. CASE latest < d
    <3>1. from.current < d
      BY <1>2, <1>3, <2>1
    <3>2. QED
      BY <1>3, <3>1
  <2>2. CASE latest = d /\ r.offset < k
    <3>1. start < k
      BY <1>4, <1>5, <1>9, <2>2
    <3>2. QED
      BY <1>6, <2>2, <3>1
  <2>3. ~(d = latest /\ Len(file[d]) < r.offset)
    BY <1>4, <1>9
  <2>4. QED
    BY <2>1, <2>2, <2>3
<1>14. ASSUME NEW i \in 1 .. Len(r.events) PROVE Behind(p, r.events[i])
  <2>1. ~(Len(file[latest]) < r.offset)
    BY <1>4, <1>9
  <2>2. QED
    BY <1>10, <1>11, <2>1 DEF Behind, AheadOf
<1>15. ASSUME NEW d \in Day, NEW k \in 1 .. Len(file[d]), Due(d, k)
       PROVE  \/ AheadOf(p, d, k)
              \/ \E i \in 1 .. Len(r.events) : r.events[i] = file[d][k]
              \/ Ahead(d, k) /\ d < p.current /\ d # from.current
  <2>1. /\ d \in exists /\ file[d][k] # Noise
        /\ from.current < d \/ (from.current = d /\ from.offset < k)
    BY <1>3, <1>15
  <2>2. d <= latest
    BY <1>2, <2>1
  <2>3. CASE d # latest
    <3>1. d < latest
      BY <1>2, <1>3, <2>2, <2>3
    <3>2. d # from.current
      BY <1>3, <3>1
    <3>3. QED
      BY <1>3, <1>11, <1>15, <3>1, <3>2
  <2>4. CASE d = latest
    <3>1. CASE r.offset < k
      BY <1>11, <2>4, <3>1 DEF AheadOf
    <3>2. CASE ~(r.offset < k)
      <4>1. start < k
        BY <1>2, <1>3, <1>5, <1>8, <2>1, <2>4
      <4>2. k \in start + 1 .. r.offset
        BY <1>5, <1>9, <3>2, <4>1
      <4>3. QED
        BY <1>9, <2>1, <2>4, <4>2 DEF Gathers
    <3>3. QED
      BY <3>1, <3>2
  <2>5. QED
    BY <2>3, <2>4
<1>16. \A i, j \in 1 .. Len(r.events) : i < j => r.events[i] < r.events[j]
  BY <1>9 DEF Gathers
<1>17. Continues(from, r.events, p)
  BY <1>10, <1>11, <1>12, <1>13, <1>14, <1>15, <1>16 DEF Continues
<1>18. r.events \in Seq(1 .. MaxLines) /\ p \in [current : Day \union {NoFile}, offset : Nat]
  BY <1>2, <1>9 DEF Gathers, p
<1>19. QED
  BY <1>7, <1>17, <1>18

\* The elements of two sequences one behind the other.
LEMMA Joined ==
    ASSUME NEW S, NEW s \in Seq(S), NEW t \in Seq(S)
    PROVE  /\ s \o t \in Seq(S)
           /\ Len(s \o t) = Len(s) + Len(t)
           /\ \A i \in 1 .. Len(s) : (s \o t)[i] = s[i]
           /\ \A i \in 1 .. Len(t) : (s \o t)[Len(s) + i] = t[i]
           /\ \A i \in 1 .. Len(s \o t) :
                \/ i \in 1 .. Len(s) /\ (s \o t)[i] = s[i]
                \/ i - Len(s) \in 1 .. Len(t) /\ (s \o t)[i] = t[i - Len(s)]
  OBVIOUS

LEMMA AfterDayChangeContinues ==
    ASSUME IInv, exists # {}, NEW from \in {state, Start}, from.current \notin {NoFile, latest}
    PROVE  /\ Continues(from, AfterDayChange(from).events, AfterDayChange(from).at)
           /\ AfterDayChange(from).events \in Seq(1 .. MaxLines)
           /\ AfterDayChange(from).at \in [current : Day \union {NoFile}, offset : Nat]
<1> DEFINE c == from.current
           old == readFromOffset(c, from.offset, maxEventsPerCollect)
           olds == old.events
           new == readFromOffset(latest, 0, maxEventsPerCollect - Len(olds))
           news == new.events
<1>1. TypeOK /\ FilesInOrder /\ GivenInv /\ NothingPassedOver
  BY DEF IInv
<1>2. latest \in exists /\ latest \in Day /\ \A e \in exists : e <= latest
  BY <1>1, LatestIs
<1>3. /\ from \in [current : Day \union {NoFile}, offset : Nat]
      /\ from.current \in Int /\ from.offset \in Nat
      /\ \A d \in Day : d \in Int /\ d > NoFile
      /\ \A i \in Continued(from) : from = state /\ Behind(from, given[i])
      /\ \A i \in Continued(from) : \A d \in Day : \A k \in 1 .. Len(file[d]) :
           file[d][k] # Noise /\ (from.current < d \/ (from.current = d /\ from.offset < k)) => given[i] < file[d][k]
      /\ \A d \in Day : \A k \in 1 .. Len(file[d]) :
           Due(d, k) => /\ d \in exists
                        /\ file[d][k] # Noise
                        /\ Ahead(d, k)
                        /\ from.current < d \/ (from.current = d /\ from.offset < k)
  BY AtCheckpoint
<1>4. maxEventsPerCollect \in Nat \ {0}
  BY AuditLogAssumption
<1>5. c \in Day /\ c < latest
  <2>1. c \in Day
    BY <1>3
  <2>2. PICK d \in exists : c <= d
    <3>1. from = state
      BY DEF Start
    <3>2. QED
      BY <1>1, <3>1 DEF GivenInv, InPlace
  <2>3. d \in Int /\ d <= latest /\ latest \in Int
    BY <1>1, <1>2, <1>3 DEF TypeOK
  <2>4. QED
    BY <1>3, <2>1, <2>2, <2>3
<1>6. Len(file[c]) \in Nat /\ Len(file[latest]) \in Nat
  BY <1>1, <1>2, <1>5, FileLines
<1>7. /\ old.offset \in Nat
      /\ Gathers(olds, c, from.offset, old.offset)
      /\ c \in exists /\ from.offset <= Len(file[c]) =>
           old.offset \in from.offset .. Len(file[c]) /\ (Len(olds) < maxEventsPerCollect => old.offset = Len(file[c]))
      /\ ~(c \in exists /\ from.offset <= Len(file[c])) => olds = <<>> /\ old.offset = from.offset
  BY <1>1, <1>3, <1>4, <1>5, ReadIs
<1>8. \A i \in Continued(from) : \A k \in 1 .. Len(file[c]) :
        file[c][k] # Noise /\ from.offset < k => given[i] < file[c][k]
  BY <1>3, <1>5
<1>9. /\ \A i \in 1 .. Len(olds) :
           /\ olds[i] <= written
           /\ \A e \in Day : \A l \in 1 .. Len(file[e]) :
                file[e][l] # Noise /\ (c < e \/ (c = e /\ old.offset < l)) => olds[i] < file[e][l]
      /\ \A i \in Continued(from), j \in 1 .. Len(olds) : given[i] < olds[j]
  <2>1. old = readFromOffset(c, from.offset, maxEventsPerCollect)
    OBVIOUS
  <2>2. c \in Day /\ from.offset \in Nat /\ maxEventsPerCollect \in Int
    BY <1>3, <1>4, <1>5
  <2> HIDE DEF c, old
  <2>3. ReadAhead(old, c, from.offset, Continued(from))
    BY <1>1, <1>8, <2>1, <2>2, ReadContinues
  <2>4. QED
    BY <2>3 DEF ReadAhead
<1> HIDE DEF old, olds
<1>10. Len(olds) \in Nat /\ olds \in Seq(1 .. MaxLines)
  BY <1>7 DEF Gathers
<1>11. ASSUME NEW d \in Day, NEW k \in 1 .. Len(file[d]), Due(d, k), d <= c
       PROVE  d = c /\ file[d][k] # Noise /\ from.offset < k /\ c \in exists /\ from.offset <= Len(file[c])
  <2>1. /\ d \in exists /\ file[d][k] # Noise
        /\ from.current < d \/ (from.current = d /\ from.offset < k)
    BY <1>3, <1>11
  <2>2. d = c /\ from.offset < k
    BY <1>3, <1>11, <2>1
  <2>3. QED
    BY <1>3, <1>6, <2>1, <2>2
<1>12. CASE Len(olds) >= maxEventsPerCollect
  <2> DEFINE p == [current |-> c, offset |-> old.offset]
  <2>1. AfterDayChange(from).events = olds /\ AfterDayChange(from).at = p
    BY <1>12 DEF AfterDayChange, Done, old, olds
  <2>2. c \in exists /\ from.offset <= Len(file[c]) /\ old.offset \in from.offset .. Len(file[c])
    <3>1. Len(olds) # 0
      BY <1>4, <1>10, <1>12
    <3>2. QED
      BY <1>7, <3>1
  <2>3. p.current = c /\ p.offset = old.offset
    OBVIOUS
  <2>4. p \in [current : Day \union {NoFile}, offset : Nat]
    BY <1>5, <1>7
  <2> HIDE DEF p
  <2>5. InPlace(p)
    BY <1>3, <1>5, <1>6, <2>2, <2>3 DEF InPlace
  <2>6. ASSUME NEW i \in Continued(from) PROVE Behind(p, given[i])
    <3> SUFFICES ASSUME NEW d \in Day, NEW k \in 1 .. Len(file[d]), file[d][k] # Noise,
                        c < d \/ (c = d /\ old.offset < k) \/ (d = c /\ Len(file[d]) < old.offset)
                 PROVE  given[i] < file[d][k]
      BY <2>3 DEF Behind, AheadOf
    <3>1. ~(d = c /\ Len(file[d]) < old.offset)
      BY <1>6, <2>2
    <3>2. c < d \/ (c = d /\ from.offset < k)
      BY <1>3, <1>7, <2>2, <3>1
    <3>3. QED
      BY <1>3, <3>2
  <2>7. ASSUME NEW i \in 1 .. Len(olds) PROVE Behind(p, olds[i])
    <3>1. ~(Len(file[c]) < old.offset)
      BY <1>6, <2>2
    <3>2. QED
      BY <1>9, <2>3, <3>1 DEF Behind, AheadOf
  <2>8. ASSUME NEW d \in Day, NEW k \in 1 .. Len(file[d]), Due(d, k)
        PROVE  AheadOf(p, d, k) \/ \E i \in 1 .. Len(olds) : olds[i] = file[d][k]
    <3>1. CASE c < d
      BY <2>3, <3>1 DEF AheadOf
    <3>2. CASE d <= c
      <4>1. d = c /\ file[d][k] # Noise /\ from.offset < k
        BY <1>11, <2>8, <3>2
      <4>2. CASE old.offset < k
        BY <2>3, <4>1, <4>2 DEF AheadOf
      <4>3. CASE ~(old.offset < k)
        <5>1. k \in from.offset + 1 .. old.offset
          BY <1>3, <1>7, <4>1, <4>3
        <5>2. QED
          BY <1>7, <4>1, <5>1 DEF Gathers
      <4>4. QED
        BY <4>2, <4>3
    <3>3. QED
      BY <1>3, <3>1, <3>2
  <2>9. \A i, j \in 1 .. Len(olds) : i < j => olds[i] < olds[j]
    BY <1>7 DEF Gathers
  <2>10. p.current # NoFile
    BY <1>3, <1>5, <2>3
  <2>11. Continues(from, olds, p)
    BY <1>9, <2>5, <2>6, <2>7, <2>8, <2>9, <2>10 DEF Continues
  <2>12. QED
    BY <1>10, <2>1, <2>4, <2>11
<1>13. CASE ~(Len(olds) >= maxEventsPerCollect)
  <2> DEFINE p == [current |-> latest, offset |-> new.offset]
             both == olds \o news
             rest == maxEventsPerCollect - Len(olds)
  <2>1. AfterDayChange(from).events = both /\ AfterDayChange(from).at = p
    BY <1>13 DEF AfterDayChange, Done, old, olds
  <2>2. rest \in Int
    BY <1>4, <1>10
  <2> HIDE DEF rest
  <2>3. new = readFromOffset(latest, 0, rest)
    BY DEF rest
  <2> HIDE DEF new, news
  <2>4. /\ new.offset \in Nat
        /\ Gathers(news, latest, 0, new.offset)
        /\ new.offset \in 0 .. Len(file[latest])
    BY <1>1, <1>2, <1>6, <2>2, <2>3, ReadIs DEF news
  <2>5. \A i \in Continued(from) : \A k \in 1 .. Len(file[latest]) :
          file[latest][k] # Noise /\ 0 < k => given[i] < file[latest][k]
    BY <1>2, <1>3, <1>5
  <2>6. /\ \A i \in 1 .. Len(news) :
             /\ news[i] <= written
             /\ \E k \in 1 .. Len(file[latest]) : file[latest][k] # Noise /\ news[i] = file[latest][k]
             /\ \A e \in Day : \A l \in 1 .. Len(file[e]) :
                  file[e][l] # Noise /\ (latest < e \/ (latest = e /\ new.offset < l)) => news[i] < file[e][l]
        /\ \A i \in Continued(from), j \in 1 .. Len(news) : given[i] < news[j]
    <3>1. ReadAhead(new, latest, 0, Continued(from))
      BY <1>1, <1>2, <2>2, <2>3, <2>5, ReadContinues
    <3>2. QED
      BY <3>1 DEF ReadAhead, news
  <2>7. news \in Seq(1 .. MaxLines) /\ Len(news) \in Nat
    BY <2>4 DEF Gathers
  <2>8. /\ both \in Seq(1 .. MaxLines)
        /\ Len(both) = Len(olds) + Len(news)
        /\ \A i \in 1 .. Len(olds) : both[i] = olds[i]
        /\ \A i \in 1 .. Len(news) : both[Len(olds) + i] = news[i]
        /\ \A i \in 1 .. Len(both) :
             \/ i \in 1 .. Len(olds) /\ both[i] = olds[i]
             \/ i - Len(olds) \in 1 .. Len(news) /\ both[i] = news[i - Len(olds)]
    BY <1>10, <2>7, Joined
  <2>9. p.current = latest /\ p.offset = new.offset
    OBVIOUS
  <2>10. p \in [current : Day \union {NoFile}, offset : Nat]
    BY <1>2, <2>4
  <2> HIDE DEF p, both
  <2>11. InPlace(p) /\ p.current # NoFile
    BY <1>2, <1>3, <1>6, <2>4, <2>9 DEF InPlace
  <2>12. ASSUME NEW i \in Continued(from) PROVE Behind(p, given[i])
    <3> SUFFICES ASSUME NEW d \in Day, NEW k \in 1 .. Len(file[d]), file[d][k] # Noise,
                        latest < d \/ d = latest
                 PROVE  given[i] < file[d][k]
      BY <2>9 DEF Behind, AheadOf
    <3>1. c < d
      BY <1>2, <1>3, <1>5
    <3>2. QED
      BY <1>3, <3>1
  <2>13. ASSUME NEW i \in 1 .. Len(both) PROVE both[i] <= written /\ Behind(p, both[i])
    <3>1. ~(Len(file[latest]) < new.offset)
      BY <1>6, <2>4
    <3>2. CASE i \in 1 .. Len(olds) /\ both[i] = olds[i]
      <4>1. \A e \in Day : e = latest \/ latest < e => c < e
        BY <1>2, <1>3, <1>5
      <4>2. QED
        BY <1>9, <2>9, <3>2, <4>1 DEF Behind, AheadOf
    <3>3. CASE i - Len(olds) \in 1 .. Len(news) /\ both[i] = news[i - Len(olds)]
      <4>1. PICK j \in 1 .. Len(news) : both[i] = news[j]
        BY <3>3
      <4>2. QED
        BY <2>6, <2>9, <3>1, <4>1 DEF Behind, AheadOf
    <3>4. QED
      BY <2>8, <3>2, <3>3
  <2>14. ASSUME NEW i \in 1 .. Len(olds), NEW j \in 1 .. Len(news)
         PROVE  olds[i] < news[j]
    <3>1. PICK k \in 1 .. Len(file[latest]) : file[latest][k] # Noise /\ news[j] = file[latest][k]
      BY <2>6
    <3>2. QED
      BY <1>2, <1>5, <1>9, <3>1
  <2>15. ASSUME NEW i \in 1 .. Len(both), NEW j \in 1 .. Len(both), i < j
         PROVE  both[i] < both[j]
    <3>1. CASE j \in 1 .. Len(olds)
      <4>1. i \in 1 .. Len(olds)
        BY <2>15, <3>1
      <4>2. QED
        BY <1>7, <2>8, <2>15, <3>1, <4>1 DEF Gathers
    <3>2. CASE i \in 1 .. Len(olds) /\ j \notin 1 .. Len(olds)
      BY <2>8, <2>14, <3>2
    <3>3. CASE i \notin 1 .. Len(olds)
      <4>1. j \notin 1 .. Len(olds)
        BY <1>10, <2>15, <3>3
      <4>2. /\ i - Len(olds) \in 1 .. Len(news) /\ both[i] = news[i - Len(olds)]
            /\ j - Len(olds) \in 1 .. Len(news) /\ both[j] = news[j - Len(olds)]
        BY <2>8, <3>3, <4>1
      <4>3. i - Len(olds) < j - Len(olds)
        BY <1>10, <2>15
      <4>4. QED
        BY <2>4, <4>2, <4>3 DEF Gathers
    <3>4. QED
      BY <3>1, <3>2, <3>3
  <2>16. ASSUME NEW i \in Continued(from), NEW j \in 1 .. Len(both) PROVE given[i] < both[j]
    BY <1>9, <2>6, <2>8
  <2>17. ASSUME NEW d \in Day, NEW k \in 1 .. Len(file[d]), Due(d, k)
         PROVE  \/ AheadOf(p, d, k)
                \/ \E i \in 1 .. Len(both) : both[i] = file[d][k]
                \/ Ahead(d, k) /\ d < p.current /\ d # from.current
    <3>1. d \in exists /\ file[d][k] # Noise /\ d <= latest
      BY <1>2, <1>3, <2>17
    <3>2. CASE d <= c
      <4>1. d = c /\ from.offset < k /\ c \in exists /\ from.offset <= Len(file[c])
        BY <1>11, <2>17, <3>2
      <4>2. old.offset = Len(file[c])
        BY <1>4, <1>7, <1>10, <1>13, <4>1
      <4>3. k \in from.offset + 1 .. old.offset
        BY <1>3, <1>6, <4>1, <4>2
      <4>4. PICK i \in 1 .. Len(olds) : olds[i] = file[d][k]
        BY <1>7, <3>1, <4>1, <4>3 DEF Gathers
      <4>5. i \in 1 .. Len(both)
        <5>1. Len(both) = Len(olds) + Len(news)
          BY <2>8
        <5>2. QED
          BY <1>10, <2>7, <4>4, <5>1
      <4>6. QED
        BY <2>8, <4>4, <4>5
    <3>3. CASE c < d /\ d < latest
      <4>1. d # from.current
        BY <1>3, <3>3
      <4>2. QED
        BY <1>3, <2>9, <2>17, <3>3, <4>1
    <3>4. CASE d = latest
      <4>1. CASE new.offset < k
        BY <2>9, <3>4, <4>1 DEF AheadOf
      <4>2. CASE ~(new.offset < k)
        <5>1. k \in 0 + 1 .. new.offset
          BY <2>4, <4>2
        <5>2. PICK i \in 1 .. Len(news) : news[i] = file[d][k]
          BY <2>4, <3>1, <3>4, <5>1 DEF Gathers
        <5>3. Len(olds) + i \in 1 .. Len(both)
          <6>1. Len(both) = Len(olds) + Len(news)
            BY <2>8
          <6>2. QED
            BY <1>10, <2>7, <5>2, <6>1
        <5>4. QED
          BY <2>8, <5>2, <5>3
      <4>3. QED
        BY <4>1, <4>2
    <3>5. QED
      BY <1>2, <1>3, <3>1, <3>2, <3>3, <3>4
  <2>18. Continues(from, both, p)
    BY <2>11, <2>12, <2>13, <2>15, <2>16, <2>17 DEF Continues
  <2>19. QED
    BY <2>1, <2>8, <2>10, <2>18
<1>14. QED
  BY <1>12, <1>13

\* Collect keeps the invariant.
LEMMA CollectKeeps ==
    ASSUME IInv, Collect
    PROVE  IInv'
<1>1. /\ exists # {} /\ file' = file /\ exists' = exists /\ written' = written /\ cut' = cut
      /\ state' = state /\ given' = given /\ resets' = resets /\ excused' = excused
  BY DEF Collect, world
<1>2. PICK from \in {state, Start} :
        job' = IF from.current \notin {NoFile, latest} THEN AfterDayChange(from) ELSE SameDay(from)
  BY DEF Collect, loadState
<1> DEFINE r == IF from.current \notin {NoFile, latest} THEN AfterDayChange(from) ELSE SameDay(from)
<1>3. /\ Continues(from, r.events, r.at)
      /\ r.events \in Seq(1 .. MaxLines)
      /\ r.at \in [current : Day \union {NoFile}, offset : Nat]
  <2>1. CASE from.current \notin {NoFile, latest}
    BY <1>1, <2>1, AfterDayChangeContinues
  <2>2. CASE from.current \in {NoFile, latest}
    BY <1>1, <2>2, SameDayContinues
  <2>3. QED
    BY <2>1, <2>2
<1>4. r = [busy |-> TRUE, from |-> from, events |-> r.events, at |-> r.at]
  BY DEF AfterDayChange, SameDay, Done
<1>5. from \in [current : Day \union {NoFile}, offset : Nat]
  BY AtCheckpoint
<1>6. job' = r
  BY <1>2
<1> HIDE DEF r
<1>7. job' = [busy |-> TRUE, from |-> from, events |-> r.events, at |-> r.at]
  BY <1>4, <1>6
<1>8. TypeOK'
  BY <1>1, <1>3, <1>5, <1>7 DEF IInv, TypeOK
<1>9. JobInv'
  BY <1>1, <1>3, <1>7 DEF JobInv, Continues, Continued, InPlace, Behind, AheadOf, Ahead, Due
<1>10. FilesInOrder' /\ GivenInv' /\ GivenOnceInOrder' /\ NothingPassedOver'
  BY <1>1 DEF IInv, FilesInOrder, GivenInv, Continued, InPlace, Behind, AheadOf, GivenOnceInOrder,
     NothingPassedOver, Due, Ahead
<1>11. QED
  BY <1>8, <1>9, <1>10 DEF IInv

(***************************************************************************)
(* The program that writes the files                                       *)
(***************************************************************************)

\* What its steps have in common: the lines of the next state are lines of this one or
\* one new line at the end of the latest file.
Grows ==
    /\ written <= written'
    /\ \A d \in Day \ exists : file'[d] = file[d]
    /\ \A d \in Day : \A k \in 1 .. Len(file'[d]) : file'[d][k] # Noise =>
         \/ k \in 1 .. Len(file[d]) /\ file'[d][k] = file[d][k] /\ Len(file[d]) <= Len(file'[d])
         \/ /\ d \in exists /\ \A e \in exists : e <= d
            /\ k = Len(file[d]) + 1 /\ file'[d][k] = written + 1 /\ written + 1 <= written'
    /\ \A d \in exists' \ cut' : d \in exists \ cut \/ file'[d] = <<>>
    /\ \A d \in exists : \E e \in exists' : d <= e
    /\ \A d \in Day \ cut' : d \notin cut /\ Len(file[d]) <= Len(file'[d])

\* The types of what the steps change, as numbers.
LEMMA Numbers ==
    ASSUME TypeOK, TypeOK'
    PROVE  /\ written \in Int /\ written' \in Int
           /\ \A d \in Day : d \in Int /\ d > NoFile
           /\ exists \subseteq Day /\ exists' \subseteq Day
           /\ \A d \in Day : Len(file[d]) \in Nat /\ Len(file'[d]) \in Nat
           /\ \A d \in Day : \A k \in 1 .. Len(file[d]) : file[d][k] \in Int
           /\ \A d \in Day : \A k \in 1 .. Len(file'[d]) : file'[d][k] \in Int
           /\ \A i \in 1 .. Len(given) : given[i] \in Int
           /\ Len(given) \in Nat
<1>1. Days \in Nat /\ MaxLines \in Nat
  BY AuditLogAssumption
<1>2. \A d \in Day : d \in Int /\ d > NoFile
  BY <1>1 DEF Day, NoFile
<1>3. /\ written \in Int /\ written' \in Int
      /\ exists \subseteq Day /\ exists' \subseteq Day
      /\ \A d \in Day : file[d] \in Seq(0 .. MaxLines) /\ file'[d] \in Seq(0 .. MaxLines)
      /\ given \in Seq(1 .. MaxLines)
  <2>1. /\ file \in [Day -> Seq(0 .. MaxLines)] /\ written \in 0 .. MaxLines /\ exists \subseteq Day
        /\ given \in Seq(1 .. MaxLines)
    BY Zenon DEF TypeOK
  <2>2. file' \in [Day -> Seq(0 .. MaxLines)] /\ written' \in 0 .. MaxLines /\ exists' \subseteq Day
    BY Zenon DEF TypeOK
  <2>3. QED
    BY <1>1, <2>1, <2>2
<1>4. \A s \in Seq(0 .. MaxLines) : Len(s) \in Nat /\ \A k \in 1 .. Len(s) : s[k] \in Int
  BY <1>1
<1>5. \A i \in 1 .. Len(given) : given[i] \in Int
  BY <1>1, <1>3
<1>6. Len(given) \in Nat
  BY <1>3
<1>7. QED
  BY <1>2, <1>3, <1>4, <1>5, <1>6

LEMMA GrowsInOrder ==
    ASSUME IInv, TypeOK', Grows
    PROVE  FilesInOrder'
<1>1. /\ written \in Int /\ written' \in Int
      /\ \A d \in Day : d \in Int
      /\ exists \subseteq Day /\ exists' \subseteq Day
      /\ \A d \in Day : Len(file[d]) \in Nat /\ Len(file'[d]) \in Nat
      /\ \A d \in Day : \A k \in 1 .. Len(file[d]) : file[d][k] \in Int
      /\ \A d \in Day : \A k \in 1 .. Len(file'[d]) : file'[d][k] \in Int
  BY Numbers DEF IInv
<1>2. FilesInOrder
  BY DEF IInv
<1>3. ASSUME NEW d \in Day, NEW k \in 1 .. Len(file'[d]) PROVE file'[d][k] <= written'
  <2>1. CASE file'[d][k] = Noise
    <3>1. written' \in 0 .. MaxLines
      BY DEF TypeOK
    <3>2. QED
      BY <2>1, <3>1, AuditLogAssumption DEF Noise
  <2>2. CASE file'[d][k] # Noise
    BY <1>1, <1>2, <2>2, SMTT(30) DEF FilesInOrder, Grows
  <2>3. QED
    BY <2>1, <2>2
<1>4. ASSUME NEW d \in Day, NEW e \in Day, NEW k \in 1 .. Len(file'[d]), NEW l \in 1 .. Len(file'[e]),
             file'[d][k] # Noise, file'[e][l] # Noise, d < e \/ (d = e /\ k < l)
      PROVE  file'[d][k] < file'[e][l]
  <2>1. \/ k \in 1 .. Len(file[d]) /\ file'[d][k] = file[d][k]
        \/ d \in exists /\ (\A f \in exists : f <= d) /\ k = Len(file[d]) + 1 /\ file'[d][k] = written + 1
    BY <1>4 DEF Grows
  <2>2. \/ l \in 1 .. Len(file[e]) /\ file'[e][l] = file[e][l]
        \/ e \in exists /\ (\A f \in exists : f <= e) /\ l = Len(file[e]) + 1 /\ file'[e][l] = written + 1
    BY <1>4 DEF Grows
  <2>3. CASE k \in 1 .. Len(file[d]) /\ file'[d][k] = file[d][k] /\ l \in 1 .. Len(file[e]) /\ file'[e][l] = file[e][l]
    BY <1>2, <1>4, <2>3 DEF FilesInOrder
  <2>4. CASE k \in 1 .. Len(file[d]) /\ file'[d][k] = file[d][k] /\ file'[e][l] = written + 1
    <3>1. file[d][k] <= written
      BY <1>2, <2>4 DEF FilesInOrder
    <3>2. QED
      BY <1>1, <2>4, <3>1
  <2>5. CASE d \in exists /\ (\A f \in exists : f <= d) /\ k = Len(file[d]) + 1
    <3>1. CASE d < e
      <4>1. \A f \in exists : f < e
        BY <1>1, <2>5, <3>1
      <4>2. file[e] = <<>> /\ e \notin exists
        BY <1>1, <1>2, <4>1 DEF FilesInOrder
      <4>3. QED
        BY <2>2, <4>2
    <3>2. CASE d = e /\ k < l
      BY <1>1, <2>2, <2>5, <3>2
    <3>3. QED
      BY <1>4, <3>1, <3>2
  <2>6. QED
    BY <2>1, <2>2, <2>3, <2>4, <2>5
<1>5. ASSUME NEW d \in Day, \A e \in exists' : e < d PROVE file'[d] = <<>>
  <2>1. \A f \in exists : f < d
    BY <1>1, <1>5 DEF Grows
  <2>2. file[d] = <<>> /\ d \notin exists
    BY <1>1, <1>2, <2>1 DEF FilesInOrder
  <2>3. QED
    BY <2>2 DEF Grows
<1>6. QED
  BY <1>3, <1>4, <1>5 DEF FilesInOrder

\* A place stays one, and what comes after it stays behind what was read before.
LEMMA GrowsBehind ==
    ASSUME IInv, TypeOK', Grows, NEW p, p \in [current : Day \union {NoFile}, offset : Nat], InPlace(p)
    PROVE  /\ p.current # NoFile => \E d \in exists' : p.current <= d
           /\ p.current \in Day \ cut' => p.offset <= Len(file'[p.current])
           /\ \A n \in Int : n <= written /\ Behind(p, n) =>
                /\ n <= written'
                /\ \A d \in Day : \A k \in 1 .. Len(file'[d]) :
                     file'[d][k] # Noise /\ (AheadOf(p, d, k) \/ (d = p.current /\ Len(file'[d]) < p.offset)) => n < file'[d][k]
<1>1. /\ written \in Int /\ written' \in Int
      /\ \A d \in Day : d \in Int /\ d > NoFile
      /\ exists \subseteq Day /\ exists' \subseteq Day
      /\ \A d \in Day : Len(file[d]) \in Nat /\ Len(file'[d]) \in Nat
      /\ \A d \in Day : \A k \in 1 .. Len(file[d]) : file[d][k] \in Int
      /\ \A d \in Day : \A k \in 1 .. Len(file'[d]) : file'[d][k] \in Int
  BY Numbers DEF IInv
<1>2. p.current \in Int /\ p.offset \in Nat /\ p.current \in Day \union {NoFile}
  BY <1>1 DEF NoFile
<1>3. ASSUME p.current # NoFile PROVE \E d \in exists' : p.current <= d
  <2>1. PICK d \in exists : p.current <= d
    BY <1>3 DEF InPlace
  <2>2. PICK e \in exists' : d <= e
    BY <2>1 DEF Grows
  <2>3. d \in Int /\ e \in Int
    BY <1>1, <2>1, <2>2
  <2>4. QED
    BY <1>2, <2>1, <2>2, <2>3
<1>4. ASSUME p.current \in Day \ cut' PROVE p.offset <= Len(file'[p.current])
  <2>1. p.current \notin cut /\ Len(file[p.current]) <= Len(file'[p.current])
    BY <1>4 DEF Grows
  <2>2. p.offset <= Len(file[p.current])
    BY <1>4, <2>1 DEF InPlace
  <2>3. QED
    BY <1>1, <1>2, <1>4, <2>1, <2>2
<1>5. ASSUME NEW n \in Int, n <= written, Behind(p, n), NEW d \in Day, NEW k \in 1 .. Len(file'[d]),
             file'[d][k] # Noise, AheadOf(p, d, k) \/ (d = p.current /\ Len(file'[d]) < p.offset)
      PROVE  n < file'[d][k]
  <2>1. CASE k \in 1 .. Len(file[d]) /\ file'[d][k] = file[d][k] /\ Len(file[d]) <= Len(file'[d])
    <3>1. AheadOf(p, d, k) \/ (d = p.current /\ Len(file[d]) < p.offset)
      BY <1>1, <1>2, <1>5, <2>1
    <3>2. QED
      BY <1>5, <2>1, <3>1 DEF Behind
  <2>2. CASE file'[d][k] = written + 1
    BY <1>1, <1>5, <2>2
  <2>3. QED
    BY <1>5, <2>1, <2>2 DEF Grows
<1>6. \A n \in Int : n <= written => n <= written'
  BY <1>1 DEF Grows
<1>7. QED
  BY <1>3, <1>4, <1>5, <1>6

\* What is due afterwards was due before, or is a new line that lies ahead.
LEMMA GrowsDue ==
    ASSUME IInv, TypeOK', Grows, given' = given, excused' = excused,
           NEW p, p \in [current : Day \union {NoFile}, offset : Nat], InPlace(p),
           NEW d \in Day, NEW k \in 1 .. Len(file'[d]), Due(d, k)'
    PROVE  \/ AheadOf(p, d, k)
           \/ k \in 1 .. Len(file[d]) /\ file'[d][k] = file[d][k] /\ Due(d, k)
<1>1. /\ \A e \in Day : e \in Int /\ e > NoFile
      /\ exists \subseteq Day /\ exists' \subseteq Day
      /\ Len(file[d]) \in Nat
  BY Numbers DEF IInv
<1>2. p.current \in Int /\ p.offset \in Nat /\ p.current \in Day \union {NoFile}
  BY <1>1 DEF NoFile
<1>3. d \in exists' \ cut' /\ file'[d][k] # Noise /\ file'[d][k] \notin excused
      /\ \A i \in 1 .. Len(given) : given[i] # file'[d][k]
  BY DEF Due
<1>4. file'[d] # <<>>
  OBVIOUS
<1>5. d \in exists \ cut
  BY <1>3, <1>4 DEF Grows
<1>6. CASE k \in 1 .. Len(file[d]) /\ file'[d][k] = file[d][k]
  BY <1>3, <1>5, <1>6 DEF Due
<1>7. CASE (\A e \in exists : e <= d) /\ k = Len(file[d]) + 1
  <2>1. CASE p.current = NoFile
    BY <1>1, <2>1 DEF AheadOf
  <2>2. CASE p.current # NoFile
    <3>1. PICK e \in exists : p.current <= e
      BY <2>2 DEF InPlace
    <3>2. p.current <= d
      BY <1>1, <1>2, <1>7, <3>1
    <3>3. p.current = d => p.offset < k
      BY <1>1, <1>2, <1>5, <1>7 DEF InPlace
    <3>4. QED
      BY <1>1, <1>2, <3>2, <3>3 DEF AheadOf
  <2>3. QED
    BY <2>1, <2>2
<1>8. QED
  BY <1>3, <1>6, <1>7 DEF Grows

LEMMA GrowsKeeps ==
    ASSUME IInv, TypeOK', Grows, UNCHANGED <<state, job, given, resets, excused>>
    PROVE  IInv'
<1>1. TypeOK /\ GivenInv /\ JobInv /\ GivenOnceInOrder /\ NothingPassedOver
  BY DEF IInv
<1>2. state' = state /\ job' = job /\ given' = given /\ resets' = resets /\ excused' = excused
  OBVIOUS
<1>3. /\ state \in [current : Day \union {NoFile}, offset : Nat]
      /\ job.at \in [current : Day \union {NoFile}, offset : Nat]
      /\ \A i \in 1 .. Len(given) : given[i] \in Int
      /\ \A i \in 1 .. Len(job.events) : job.events[i] \in Int
  <2>1. job.events \in Seq(1 .. MaxLines)
    BY <1>1 DEF TypeOK
  <2>2. \A i \in 1 .. Len(job.events) : job.events[i] \in 1 .. MaxLines
    BY <2>1, ElementOfSeq
  <2>3. \A n \in 1 .. MaxLines : n \in Int
    BY AuditLogAssumption
  <2>4. \A i \in 1 .. Len(given) : given[i] \in Int
    BY <1>1, Numbers
  <2>5. QED
    BY <1>1, <2>2, <2>3, <2>4 DEF TypeOK
<1>4. FilesInOrder'
  BY GrowsInOrder
<1>5. GivenInv'
  <2>1. /\ InPlace(state)
        /\ \A i \in 1 .. Len(given) : given[i] <= written
        /\ \A i \in Continued(state) : i \in 1 .. Len(given) /\ Behind(state, given[i])
    BY <1>1 DEF GivenInv, Continued
  <2>2. /\ state.current # NoFile => \E d \in exists' : state.current <= d
        /\ state.current \in Day \ cut' => state.offset <= Len(file'[state.current])
        /\ \A n \in Int : n <= written /\ Behind(state, n) =>
             /\ n <= written'
             /\ \A d \in Day : \A k \in 1 .. Len(file'[d]) :
                  file'[d][k] # Noise /\ (AheadOf(state, d, k) \/ (d = state.current /\ Len(file'[d]) < state.offset))
                    => n < file'[d][k]
    BY <1>3, <2>1, GrowsBehind
  <2>3. Continued(state)' = Continued(state)
    BY <1>2 DEF Continued
  <2>4. \A i \in 1 .. Len(given) : given[i] <= written'
    <3>1. written \in Int /\ written' \in Int /\ written <= written'
      BY <1>1, Numbers DEF Grows
    <3>2. QED
      BY <1>3, <2>1, <3>1
  <2>5. \A i \in Continued(state) : \A d \in Day : \A k \in 1 .. Len(file'[d]) :
          file'[d][k] # Noise /\ (AheadOf(state, d, k) \/ (d = state.current /\ Len(file'[d]) < state.offset))
            => given[i] < file'[d][k]
    BY <1>3, <2>1, <2>2
  <2>6. \A i \in Continued(state) : Behind(state, given[i])'
    BY <1>2, <2>5 DEF Behind, AheadOf
  <2>7. InPlace(state)'
    BY <1>2, <2>2 DEF InPlace
  <2>8. QED
    BY <1>2, <2>3, <2>4, <2>6, <2>7 DEF GivenInv
<1>6. JobInv'
  <2> SUFFICES ASSUME job.busy PROVE Continues(job.from, job.events, job.at)'
    BY <1>2 DEF JobInv
  <2> DEFINE p == job.at
             s == job.events
             f == job.from
  <2>1. Continues(f, s, p)
    BY <1>1 DEF JobInv
  <2>2. InPlace(p) /\ p.current # NoFile /\ p \in [current : Day \union {NoFile}, offset : Nat]
    BY <1>3, <2>1 DEF Continues
  <2>3. p' = p /\ s' = s /\ f' = f
    BY <1>2
  <2> HIDE DEF p, s, f
  <2>4. /\ \E d \in exists' : p.current <= d
        /\ p.current \in Day \ cut' => p.offset <= Len(file'[p.current])
        /\ \A n \in Int : n <= written /\ Behind(p, n) =>
             /\ n <= written'
             /\ \A d \in Day : \A k \in 1 .. Len(file'[d]) :
                  file'[d][k] # Noise /\ (AheadOf(p, d, k) \/ (d = p.current /\ Len(file'[d]) < p.offset))
                    => n < file'[d][k]
    BY <2>2, GrowsBehind
  <2>5. \A i \in Continued(f) : \A d \in Day : \A k \in 1 .. Len(file'[d]) :
          file'[d][k] # Noise /\ (AheadOf(p, d, k) \/ (d = p.current /\ Len(file'[d]) < p.offset))
            => given[i] < file'[d][k]
    <3>1. \A i \in Continued(f) : given[i] \in Int /\ given[i] <= written /\ Behind(p, given[i])
      BY <1>1, <1>3, <2>1 DEF GivenInv, Continues, Continued
    <3>2. QED
      BY <2>4, <3>1
  <2>6. \A i \in 1 .. Len(s) :
          /\ s[i] <= written'
          /\ \A d \in Day : \A k \in 1 .. Len(file'[d]) :
               file'[d][k] # Noise /\ (AheadOf(p, d, k) \/ (d = p.current /\ Len(file'[d]) < p.offset))
                 => s[i] < file'[d][k]
    <3>1. \A i \in 1 .. Len(s) : s[i] \in Int
      BY <1>3 DEF s
    <3>2. \A i \in 1 .. Len(s) : s[i] <= written /\ Behind(p, s[i])
      BY <2>1 DEF Continues
    <3>3. QED
      BY <2>4, <3>1, <3>2
  <2>7. ASSUME NEW d \in Day, NEW k \in 1 .. Len(file'[d]), Due(d, k)'
        PROVE  \/ AheadOf(p, d, k)
               \/ \E i \in 1 .. Len(s) : s[i] = file'[d][k]
               \/ Ahead(d, k) /\ d < p.current /\ d # f.current
    <3>1. \/ AheadOf(p, d, k)
          \/ k \in 1 .. Len(file[d]) /\ file'[d][k] = file[d][k] /\ Due(d, k)
      BY <1>2, <2>2, <2>7, GrowsDue
    <3>2. QED
      BY <2>1, <3>1 DEF Continues
  <2>8. p.current # NoFile /\ (\A i, j \in 1 .. Len(s) : i < j => s[i] < s[j])
        /\ \A i \in Continued(f), j \in 1 .. Len(s) : given[i] < s[j]
    BY <2>1 DEF Continues
  <2>9. Continued(f)' = Continued(f)
    BY <1>2, <2>3 DEF Continued
  <2>10. InPlace(p)' /\ (\A i \in Continued(f) : Behind(p, given[i])')
         /\ \A i \in 1 .. Len(s) : s[i] <= written' /\ Behind(p, s[i])'
    BY <1>2, <2>3, <2>4, <2>5, <2>6 DEF InPlace, Behind, AheadOf
  <2>11. \A d \in Day : \A k \in 1 .. Len(file'[d]) :
           Due(d, k)' => \/ AheadOf(p, d, k)'
                         \/ \E i \in 1 .. Len(s) : s[i] = file'[d][k]
                         \/ Ahead(d, k)' /\ d < p.current /\ d # f.current
    BY <1>2, <2>3, <2>7 DEF Ahead, AheadOf
  <2>12. Continues(f, s, p)'
    BY <1>2, <2>3, <2>8, <2>9, <2>10, <2>11 DEF Continues
  <2>13. QED
    BY <2>12 DEF s, p, f
<1>7. GivenOnceInOrder'
  BY <1>1, <1>2 DEF GivenOnceInOrder
<1>8. NothingPassedOver'
  <2> SUFFICES ASSUME NEW d \in Day, NEW k \in 1 .. Len(file'[d]), Due(d, k)'
               PROVE  AheadOf(state, d, k)
    BY <1>2 DEF NothingPassedOver, Ahead, AheadOf
  <2>1. InPlace(state)
    BY <1>1 DEF GivenInv
  <2>2. \/ AheadOf(state, d, k)
        \/ k \in 1 .. Len(file[d]) /\ file'[d][k] = file[d][k] /\ Due(d, k)
    BY <1>2, <1>3, <2>1, GrowsDue
  <2>3. QED
    BY <1>1, <2>2 DEF NothingPassedOver, Ahead
<1>9. QED
  BY <1>4, <1>5, <1>6, <1>7, <1>8 DEF IInv

LEMMA WriteKeeps ==
    ASSUME IInv, Write
    PROVE  IInv'
<1>1. TypeOK /\ FilesInOrder /\ exists # {} /\ written' = written + 1 /\ written < MaxLines
  BY DEF IInv, Write
<1>2. latest \in exists /\ latest \in Day /\ \A e \in exists : e <= latest
  BY <1>1, LatestIs
<1>3. PICK line \in {Noise, written + 1} : file' = [file EXCEPT ![latest] = Append(@, line)]
  BY DEF Write
<1>4. written \in Nat /\ written + 1 \in 0 .. MaxLines /\ line \in 0 .. MaxLines
  BY <1>1, <1>3, AuditLogAssumption DEF TypeOK, Noise
<1>5. file \in [Day -> Seq(0 .. MaxLines)]
  BY <1>1 DEF TypeOK
<1>6. /\ exists' = exists /\ cut' = cut
      /\ UNCHANGED <<state, job, given, resets, excused>>
  BY DEF Write
<1> DEFINE l == latest
<1>7. l \in exists /\ l \in Day /\ (\A e \in exists : e <= l) /\ file' = [file EXCEPT ![l] = Append(@, line)]
  BY <1>2, <1>3
<1> HIDE DEF l
<1>8. /\ file'[l] = Append(file[l], line)
      /\ \A d \in Day : d # l => file'[d] = file[d]
  BY <1>5, <1>7
<1>9. \A d \in Day : file[d] \in Seq(0 .. MaxLines) /\ Len(file[d]) \in Nat
  BY <1>5
<1>10. /\ Append(file[l], line) \in Seq(0 .. MaxLines)
       /\ Len(file'[l]) = Len(file[l]) + 1
       /\ \A k \in 1 .. Len(file[l]) : file'[l][k] = file[l][k]
       /\ file'[l][Len(file[l]) + 1] = line
  BY <1>4, <1>7, <1>8, <1>9
<1>11. file' \in [Day -> Seq(0 .. MaxLines)]
  BY <1>5, <1>7, <1>10
<1>12. TypeOK'
  BY <1>1, <1>4, <1>6, <1>11 DEF TypeOK
<1>13. ASSUME NEW d \in Day, NEW k \in 1 .. Len(file'[d]), file'[d][k] # Noise
       PROVE  \/ k \in 1 .. Len(file[d]) /\ file'[d][k] = file[d][k] /\ Len(file[d]) <= Len(file'[d])
              \/ /\ d \in exists /\ \A e \in exists : e <= d
                 /\ k = Len(file[d]) + 1 /\ file'[d][k] = written + 1 /\ written + 1 <= written'
  <2>1. CASE d # l
    BY <1>8, <1>9, <2>1
  <2>2. CASE d = l /\ k \in 1 .. Len(file[d])
    BY <1>9, <1>10, <2>2
  <2>3. CASE d = l /\ k \notin 1 .. Len(file[d])
    <3>1. k = Len(file[l]) + 1
      BY <1>7, <1>9, <1>10, <2>3
    <3>2. file'[d][k] = line /\ line = written + 1
      BY <1>3, <1>10, <1>13, <2>3, <3>1
    <3>3. QED
      BY <1>1, <1>4, <1>7, <2>3, <3>1, <3>2
  <2>4. QED
    BY <2>1, <2>2, <2>3
<1>14. written <= written' /\ (\A d \in Day \ exists : file'[d] = file[d])
       /\ (\A d \in exists' \ cut' : d \in exists \ cut \/ file'[d] = <<>>)
  BY <1>1, <1>4, <1>6, <1>7, <1>8
<1>15. \A d \in exists : \E e \in exists' : d <= e
  BY <1>6, <1>7
<1>16. \A d \in Day \ cut' : d \notin cut /\ Len(file[d]) <= Len(file'[d])
  <2>1. \A d \in Day : Len(file[d]) <= Len(file'[d])
    <3>1. Len(file[l]) <= Len(file[l]) + 1
      BY <1>7, <1>9
    <3>2. \A d \in Day : Len(file[d]) <= Len(file[d])
      BY <1>9
    <3>3. QED
      BY <1>8, <1>10, <3>1, <3>2
  <2>2. QED
    BY <1>6, <2>1
<1>17. Grows
  BY <1>13, <1>14, <1>15, <1>16 DEF Grows
<1>18. QED
  BY <1>6, <1>12, <1>17, GrowsKeeps

\* The steps that write no line.
LEMMA NoLineKeeps ==
    ASSUME IInv, TypeOK', written' = written, UNCHANGED <<state, job, given, resets, excused>>,
           \A d \in Day : file'[d] = file[d] \/ (file'[d] = <<>> /\ d \in exists /\ d \in cut'),
           \A d \in exists' \ cut' : d \in exists \ cut \/ file'[d] = <<>>,
           \A d \in exists : \E e \in exists' : d <= e,
           cut \subseteq cut'
    PROVE  IInv'
<1>1. \A d \in Day : Len(file[d]) \in Nat /\ Len(file'[d]) \in Nat
  BY Numbers DEF IInv
<1>2. written \in Int /\ written <= written'
  BY Numbers DEF IInv
<1>3. \A d \in Day : \A k \in 1 .. Len(file'[d]) :
        k \in 1 .. Len(file[d]) /\ file'[d][k] = file[d][k] /\ Len(file[d]) <= Len(file'[d])
  <2> SUFFICES ASSUME NEW d \in Day, NEW k \in 1 .. Len(file'[d])
               PROVE  k \in 1 .. Len(file[d]) /\ file'[d][k] = file[d][k] /\ Len(file[d]) <= Len(file'[d])
    OBVIOUS
  <2>1. file'[d] # <<>>
    OBVIOUS
  <2>2. file'[d] = file[d]
    BY <2>1
  <2>3. QED
    BY <1>1, <2>2
<1>4. \A d \in Day \ cut' : d \notin cut /\ Len(file[d]) <= Len(file'[d])
  BY <1>1
<1>5. Grows
  BY <1>2, <1>3, <1>4 DEF Grows
<1>6. QED
  BY <1>5, GrowsKeeps

LEMMA NewDayKeeps ==
    ASSUME IInv, NewDay
    PROVE  IInv'
<1>1. TypeOK /\ FilesInOrder
  BY DEF IInv
<1>2. PICK d \in Day : (\A e \in exists : e < d) /\ exists' = exists \union {d}
  BY DEF NewDay
<1>3. file' = file /\ written' = written /\ cut' = cut /\ UNCHANGED <<state, job, given, resets, excused>>
  BY DEF NewDay
<1>4. TypeOK'
  BY <1>1, <1>2, <1>3 DEF TypeOK
<1>5. file[d] = <<>>
  BY <1>1, <1>2 DEF FilesInOrder
<1>6. \A e \in exists' \ cut' : e \in exists \ cut \/ file'[e] = <<>>
  BY <1>2, <1>3, <1>5
<1>7. \A e \in exists : \E f \in exists' : e <= f
  <2>1. \A e \in exists : e \in Int
    BY <1>1, AuditLogAssumption DEF TypeOK, Day
  <2>2. QED
    BY <1>2, <2>1
<1>8. QED
  BY <1>3, <1>4, <1>6, <1>7, NoLineKeeps

LEMMA RemoveKeeps ==
    ASSUME IInv, Remove
    PROVE  IInv'
<1>1. TypeOK /\ exists # {}
  BY DEF IInv, Remove
<1>2. PICK d \in exists \ {latest} :
        exists' = exists \ {d} /\ file' = [file EXCEPT ![d] = <<>>] /\ cut' = cut \union {d}
  BY DEF Remove
<1>3. written' = written /\ UNCHANGED <<state, job, given, resets, excused>>
  BY DEF Remove
<1>4. latest \in exists /\ \A e \in exists : e <= latest
  BY <1>1, LatestIs
<1>5. TypeOK'
  <2>1. <<>> \in Seq(0 .. MaxLines)
    OBVIOUS
  <2>2. d \in Day
    BY <1>1, <1>2 DEF TypeOK
  <2>3. QED
    BY <1>1, <1>2, <1>3, <2>1, <2>2 DEF TypeOK
<1>6. \A e \in exists' \ cut' : e \in exists \ cut
  BY <1>2
<1>7. \A e \in exists : \E f \in exists' : e <= f
  BY <1>2, <1>4
<1>8. \A e \in Day : file'[e] = file[e] \/ (file'[e] = <<>> /\ e \in exists /\ e \in cut')
  BY <1>1, <1>2 DEF TypeOK
<1>9. cut \subseteq cut'
  BY <1>2
<1>10. QED
  BY <1>3, <1>5, <1>6, <1>7, <1>8, <1>9, NoLineKeeps

LEMMA TruncateKeeps ==
    ASSUME IInv, Truncate
    PROVE  IInv'
<1>1. TypeOK /\ exists # {}
  BY DEF IInv, Truncate
<1>2. latest \in exists /\ latest \in Day /\ \A e \in exists : e <= latest
  BY <1>1, LatestIs
<1>3. /\ file' = [file EXCEPT ![latest] = <<>>] /\ cut' = cut \union {latest}
      /\ exists' = exists /\ written' = written /\ UNCHANGED <<state, job, given, resets, excused>>
  BY DEF Truncate
<1>4. TypeOK'
  <2>1. <<>> \in Seq(0 .. MaxLines)
    OBVIOUS
  <2>2. QED
    BY <1>1, <1>2, <1>3, <2>1 DEF TypeOK
<1>5. \A d \in Day : file'[d] = file[d] \/ (file'[d] = <<>> /\ d \in exists /\ d \in cut')
  BY <1>1, <1>2, <1>3 DEF TypeOK
<1>6. \A d \in exists' \ cut' : d \in exists \ cut
  BY <1>3
<1>7. \A d \in exists : \E e \in exists' : d <= e
  BY <1>2, <1>3
<1>8. QED
  BY <1>3, <1>4, <1>5, <1>6, <1>7, NoLineKeeps

(***************************************************************************)
(* The end of Collect                                                      *)
(***************************************************************************)

\* The checkpoint moves to where the job has read: what it has not handed over then, or
\* lost in an accepted way, lies ahead.
LEMMA NothingPassedOnSave ==
    ASSUME IInv, job.busy, UNCHANGED world, state' = job.at,
           excused \subseteq excused', PassedBy \subseteq excused',
           \A i \in 1 .. Len(given) : \E j \in 1 .. Len(given') : given'[j] = given[i],
           \A i \in 1 .. Len(job.events) :
              job.events[i] \in excused' \/ \E j \in 1 .. Len(given') : given'[j] = job.events[i]
    PROVE  NothingPassedOver'
<1> SUFFICES ASSUME NEW d \in Day, NEW k \in 1 .. Len(file[d]), Due(d, k)'
             PROVE  AheadOf(job.at, d, k)
  BY DEF world, NothingPassedOver, Ahead, AheadOf
<1>1. file' = file /\ exists' = exists /\ cut' = cut
  BY DEF world
<1>2. /\ d \in exists \ cut /\ file[d][k] # Noise /\ file[d][k] \notin excused'
      /\ \A i \in 1 .. Len(given') : given'[i] # file[d][k]
  BY <1>1 DEF Due
<1>3. \A i \in 1 .. Len(given) : given[i] # file[d][k]
  BY <1>2
<1>4. Due(d, k)
  BY <1>2, <1>3 DEF Due
<1>5. Continues(job.from, job.events, job.at)
  BY DEF IInv, JobInv
<1>6. ~ \E i \in 1 .. Len(job.events) : job.events[i] = file[d][k]
  BY <1>2
<1>7. ~(Ahead(d, k) /\ d < job.at.current /\ d # job.from.current)
  BY <1>2 DEF PassedBy, Ahead
<1>8. QED
  BY <1>4, <1>5, <1>6, <1>7 DEF Continues

LEMMA PassedByType ==
    ASSUME TypeOK
    PROVE  PassedBy \subseteq 0 .. MaxLines
<1>1. \A e \in exists : file[e] \in Seq(0 .. MaxLines)
  BY DEF TypeOK
<1>2. \A e \in exists : \A k \in 1 .. Len(file[e]) : file[e][k] \in 0 .. MaxLines
  BY <1>1, ElementOfSeq
<1>3. QED
  BY <1>2 DEF PassedBy

\* What was handed over before a Collect without its checkpoint is not continued after it.
LEMMA ResetsIs ==
    ASSUME TypeOK
    PROVE  /\ resets \subseteq Resets /\ Resets \subseteq 0 .. Len(given) /\ Len(given) \in Nat
           /\ \A i \in 1 .. Len(given) : (\A r \in Resets : r < i) => i \in Continued(job.from)
<1>1. resets \subseteq 0 .. Len(given) /\ given \in Seq(1 .. MaxLines)
  BY DEF TypeOK
<1>2. Len(given) \in Nat
  BY <1>1
<1>3. resets \subseteq Resets /\ Resets \subseteq 0 .. Len(given)
  <2>1. Resets \subseteq resets \union {Len(given)} /\ resets \subseteq Resets
    BY DEF Resets
  <2>2. Len(given) \in 0 .. Len(given)
    BY <1>2
  <2>3. QED
    BY <1>1, <2>1, <2>2, Zenon
<1>4. ASSUME NEW i \in 1 .. Len(given), \A r \in Resets : r < i
      PROVE  i \in Continued(job.from)
  <2>1. job.from = state
    <3>1. SUFFICES ASSUME job.from # state PROVE FALSE
      OBVIOUS
    <3>2. Len(given) \in Resets
      BY <3>1 DEF Resets
    <3>3. QED
      BY <1>2, <1>4, <3>2
  <2>2. QED
    BY <1>3, <1>4, <2>1 DEF Continued
<1>5. QED
  BY <1>2, <1>3, <1>4

LEMMA SavedKeeps ==
    ASSUME IInv, Saved
    PROVE  IInv'
<1>1. TypeOK /\ FilesInOrder /\ GivenInv /\ JobInv /\ GivenOnceInOrder
  BY DEF IInv
<1> DEFINE s == job.events
<1>2. /\ job.busy /\ state' = job.at /\ given' = given \o s /\ job' = NoJob
      /\ resets' = Resets /\ excused' = excused \union PassedBy /\ UNCHANGED world
  BY DEF Saved
<1>3. s \in Seq(1 .. MaxLines) /\ given \in Seq(1 .. MaxLines) /\ Len(s) \in Nat /\ Len(given) \in Nat
  BY <1>1 DEF TypeOK
<1>4. Continues(job.from, s, job.at)
  BY <1>1, <1>2 DEF JobInv
<1> HIDE DEF s
<1>5. /\ given' \in Seq(1 .. MaxLines)
      /\ Len(given') = Len(given) + Len(s)
      /\ \A i \in 1 .. Len(given) : given'[i] = given[i]
      /\ \A i \in 1 .. Len(s) : given'[Len(given) + i] = s[i]
      /\ \A i \in 1 .. Len(given') :
           \/ i \in 1 .. Len(given) /\ given'[i] = given[i]
           \/ i - Len(given) \in 1 .. Len(s) /\ given'[i] = s[i - Len(given)]
  <2> DEFINE g == given \o s
  <2>1. /\ g \in Seq(1 .. MaxLines)
        /\ Len(g) = Len(given) + Len(s)
        /\ \A i \in 1 .. Len(given) : g[i] = given[i]
        /\ \A i \in 1 .. Len(s) : g[Len(given) + i] = s[i]
        /\ \A i \in 1 .. Len(g) :
             \/ i \in 1 .. Len(given) /\ g[i] = given[i]
             \/ i - Len(given) \in 1 .. Len(s) /\ g[i] = s[i - Len(given)]
    BY <1>3, Joined
  <2> HIDE DEF g
  <2>2. given' = g
    BY <1>2 DEF g
  <2>3. QED
    BY <2>1, <2>2
<1>6. TypeOK'
  <2>1. NoJob \in [busy : BOOLEAN, from : [current : Day \union {NoFile}, offset : Nat],
                    events : Seq(1 .. MaxLines), at : [current : Day \union {NoFile}, offset : Nat]]
    BY DEF NoJob, Start
  <2>2. state' \in [current : Day \union {NoFile}, offset : Nat]
    BY <1>1, <1>2 DEF TypeOK
  <2>3. resets' \subseteq 0 .. Len(given')
    <3>1. Resets \subseteq 0 .. Len(given)
      BY <1>1, ResetsIs
    <3>2. QED
      BY <1>2, <1>3, <1>5, <3>1
  <2>4. QED
    BY <1>1, <1>2, <1>5, <2>1, <2>2, <2>3, PassedByType DEF TypeOK, world
<1>7. FilesInOrder'
  BY <1>1, <1>2 DEF FilesInOrder, world
<1>8. GivenInv'
  <2>1. ASSUME NEW i \in 1 .. Len(given')
        PROVE  given'[i] <= written /\ ((\A r \in Resets : r < i) => Behind(job.at, given'[i]))
    <3>1. CASE i \in 1 .. Len(given) /\ given'[i] = given[i]
      <4>1. (\A r \in Resets : r < i) => i \in Continued(job.from)
        BY <1>1, <3>1, ResetsIs
      <4>2. QED
        BY <1>1, <1>4, <3>1, <4>1 DEF GivenInv, Continues
    <3>2. CASE i - Len(given) \in 1 .. Len(s) /\ given'[i] = s[i - Len(given)]
      BY <1>4, <3>2 DEF Continues
    <3>3. QED
      BY <1>5, <3>1, <3>2
  <2>2. InPlace(job.at)
    BY <1>4 DEF Continues
  <2>3. \A i \in Continued(state)' : i \in 1 .. Len(given') /\ \A r \in Resets : r < i
    BY <1>2 DEF Continued
  <2>4. InPlace(state)' /\ (\A i \in Continued(state)' : Behind(state, given[i])')
    BY <1>2, <2>1, <2>2, <2>3 DEF InPlace, Behind, AheadOf, world
  <2>5. QED
    BY <1>2, <2>1, <2>4 DEF GivenInv, world
<1>9. JobInv'
  BY <1>2 DEF JobInv, NoJob
<1>10. GivenOnceInOrder'
  <2> SUFFICES ASSUME NEW i \in 1 .. Len(given'), NEW j \in 1 .. Len(given'), i < j,
                      \A r \in Resets : r < i \/ j <= r
               PROVE  given'[i] < given'[j]
    BY <1>2 DEF GivenOnceInOrder
  <2>1. CASE j \in 1 .. Len(given)
    <3>1. i \in 1 .. Len(given)
      BY <1>3, <2>1
    <3>2. \A r \in resets : r < i \/ j <= r
      BY <1>1, ResetsIs
    <3>3. QED
      BY <1>1, <1>5, <2>1, <3>1, <3>2 DEF GivenOnceInOrder
  <2>2. CASE i \in 1 .. Len(given) /\ j \notin 1 .. Len(given)
    <3>1. \A r \in Resets : r < i
      <4>1. TAKE r \in Resets
      <4>2. r \in 0 .. Len(given)
        BY <1>1, ResetsIs
      <4>3. r < i \/ j <= r
        OBVIOUS
      <4>4. QED
        BY <1>3, <2>2, <4>2, <4>3
    <3>2. i \in Continued(job.from)
      BY <1>1, <2>2, <3>1, ResetsIs
    <3>3. QED
      BY <1>4, <1>5, <2>2, <3>2 DEF Continues
  <2>3. CASE i \notin 1 .. Len(given)
    <3>1. j \notin 1 .. Len(given)
      BY <1>3, <2>3
    <3>2. /\ i - Len(given) \in 1 .. Len(s) /\ given'[i] = s[i - Len(given)]
          /\ j - Len(given) \in 1 .. Len(s) /\ given'[j] = s[j - Len(given)]
      BY <1>5, <2>3, <3>1
    <3>3. i - Len(given) < j - Len(given)
      BY <1>3
    <3>4. QED
      BY <1>4, <3>2, <3>3 DEF Continues
  <2>4. QED
    BY <2>1, <2>2, <2>3
<1>11. NothingPassedOver'
  <2>1. \A i \in 1 .. Len(given) : i \in 1 .. Len(given')
    BY <1>3, <1>5
  <2>2. \A i \in 1 .. Len(s) : Len(given) + i \in 1 .. Len(given')
    BY <1>3, <1>5
  <2>3. \A i \in 1 .. Len(given) : \E j \in 1 .. Len(given') : given'[j] = given[i]
    BY <1>5, <2>1
  <2>4. \A i \in 1 .. Len(s) : \E j \in 1 .. Len(given') : given'[j] = s[i]
    BY <1>5, <2>2
  <2>5. QED
    BY <1>2, <2>3, <2>4, NothingPassedOnSave DEF s
<1>12. QED
  BY <1>6, <1>7, <1>8, <1>9, <1>10, <1>11 DEF IInv

\* A job that is dropped leaves the rest as it was.
LEMMA DropKeeps ==
    ASSUME IInv, job' = NoJob, UNCHANGED <<world, state, given, resets, excused>>
    PROVE  IInv'
<1>1. NoJob \in [busy : BOOLEAN, from : [current : Day \union {NoFile}, offset : Nat],
                  events : Seq(1 .. MaxLines), at : [current : Day \union {NoFile}, offset : Nat]]
  BY DEF NoJob, Start
<1>2. TypeOK'
  BY <1>1 DEF IInv, TypeOK, world
<1>3. JobInv'
  BY DEF JobInv, NoJob
<1>4. FilesInOrder' /\ GivenInv' /\ GivenOnceInOrder' /\ NothingPassedOver'
  <2>1. FilesInOrder' /\ GivenOnceInOrder'
    BY DEF IInv, FilesInOrder, GivenOnceInOrder, world
  <2>2. GivenInv'
    BY DEF IInv, GivenInv, Continued, InPlace, Behind, AheadOf, Ahead, world
  <2>3. NothingPassedOver'
    BY DEF IInv, NothingPassedOver, Due, Behind, AheadOf, Ahead, world
  <2>4. QED
    BY <2>1, <2>2, <2>3
<1>5. QED
  BY <1>2, <1>3, <1>4 DEF IInv

LEMMA CrashKeeps ==
    ASSUME IInv, Crash
    PROVE  IInv'
<1>1. TypeOK /\ FilesInOrder /\ GivenInv /\ JobInv /\ GivenOnceInOrder
  BY DEF IInv
<1>2. job.busy /\ job' = NoJob /\ UNCHANGED world /\ given' = given
  BY DEF Crash
<1> DEFINE s == job.events
<1>3. CASE UNCHANGED <<state, resets, excused>>
  BY <1>2, <1>3, DropKeeps
<1>4. CASE /\ state' = job.at /\ resets' = Resets
           /\ excused' = excused \union PassedBy \union {s[k] : k \in 1 .. Len(s)}
  <2>1. Continues(job.from, s, job.at)
    BY <1>1, <1>2 DEF JobInv
  <2>2. s \in Seq(1 .. MaxLines)
    BY <1>1 DEF TypeOK
  <2>3. TypeOK'
    <3>1. NoJob \in [busy : BOOLEAN, from : [current : Day \union {NoFile}, offset : Nat],
                      events : Seq(1 .. MaxLines), at : [current : Day \union {NoFile}, offset : Nat]]
      BY DEF NoJob, Start
    <3>2. state' \in [current : Day \union {NoFile}, offset : Nat]
      BY <1>1, <1>4 DEF TypeOK
    <3>3. {s[k] : k \in 1 .. Len(s)} \subseteq 0 .. MaxLines
      <4>1. \A k \in 1 .. Len(s) : s[k] \in 1 .. MaxLines
        BY <2>2, ElementOfSeq
      <4>2. QED
        BY <4>1, AuditLogAssumption
    <3> HIDE DEF s
    <3>4. QED
      BY <1>1, <1>2, <1>4, <3>1, <3>2, <3>3, PassedByType, ResetsIs DEF TypeOK, world
  <2>4. FilesInOrder' /\ JobInv' /\ GivenOnceInOrder'
    <3>1. resets \subseteq resets'
      BY <1>1, <1>4, ResetsIs
    <3>2. QED
      BY <1>1, <1>2, <3>1 DEF FilesInOrder, JobInv, NoJob, GivenOnceInOrder, world
  <2>5. GivenInv'
    <3>1. InPlace(job.at) /\ (\A i \in 1 .. Len(given) : given[i] <= written)
          /\ \A i \in Continued(job.from) : Behind(job.at, given[i])
      BY <1>1, <2>1 DEF Continues, GivenInv
    <3>2. \A i \in Continued(state)' : i \in Continued(job.from)
      <4>1. \A i \in Continued(state)' : i \in 1 .. Len(given) /\ \A r \in Resets : r < i
        BY <1>2, <1>4 DEF Continued
      <4>2. QED
        BY <1>1, <4>1, ResetsIs
    <3>3. QED
      BY <1>2, <1>4, <3>1, <3>2 DEF GivenInv, InPlace, Behind, AheadOf, world
  <2>6. NothingPassedOver'
    <3>1. \A i \in 1 .. Len(s) : s[i] \in excused'
      BY <1>4
    <3>2. QED
      BY <1>2, <1>4, <3>1, NothingPassedOnSave
  <2>7. QED
    BY <2>3, <2>4, <2>5, <2>6 DEF IInv
<1>5. QED
  BY <1>3, <1>4 DEF Crash

(***************************************************************************)
(* The theorems                                                            *)
(***************************************************************************)

LEMMA InitIInv == Init => IInv
<1> SUFFICES ASSUME Init PROVE IInv
  OBVIOUS
<1>1. TypeOK
  BY AuditLogAssumption DEF Init, TypeOK, NoJob, Start
<1>2. \A d \in Day : file[d] = <<>>
  BY DEF Init
<1>3. FilesInOrder /\ NothingPassedOver
  BY <1>2 DEF FilesInOrder, NothingPassedOver
<1>4. GivenInv /\ JobInv /\ GivenOnceInOrder
  <2>1. NoFile \notin Day
    BY AuditLogAssumption DEF NoFile, Day
  <2>2. QED
    BY <2>1 DEF Init, GivenInv, Continued, InPlace, JobInv, NoJob, Start, GivenOnceInOrder
<1>5. QED
  BY <1>1, <1>3, <1>4 DEF IInv

LEMMA NextIInv == IInv /\ [Next]_vars => IInv'
<1> SUFFICES ASSUME IInv, [Next]_vars PROVE IInv'
  OBVIOUS
<1>1. CASE Collect
  BY <1>1, CollectKeeps
<1>2. CASE Saved
  BY <1>2, SavedKeeps
<1>3. CASE SaveFails
  BY <1>3, DropKeeps DEF SaveFails
<1>4. CASE Crash
  BY <1>4, CrashKeeps
<1>5. CASE Write
  BY <1>5, WriteKeeps
<1>6. CASE NewDay
  BY <1>6, NewDayKeeps
<1>7. CASE Remove
  BY <1>7, RemoveKeeps
<1>8. CASE Truncate
  BY <1>8, TruncateKeeps
<1>9. CASE UNCHANGED vars
  <2>1. /\ file' = file /\ exists' = exists /\ written' = written /\ cut' = cut /\ state' = state
        /\ job' = job /\ given' = given /\ resets' = resets /\ excused' = excused
    BY <1>9 DEF vars
  <2>2. TypeOK' /\ FilesInOrder' /\ GivenInv' /\ GivenOnceInOrder' /\ NothingPassedOver'
    BY <2>1 DEF IInv, TypeOK, FilesInOrder, GivenInv, Continued, InPlace, Behind, AheadOf, GivenOnceInOrder,
       NothingPassedOver, Due, Ahead
  <2>3. JobInv'
    BY <2>1 DEF IInv, JobInv, Continues, Continued, InPlace, Behind, AheadOf, Due, Ahead
  <2>4. QED
    BY <2>2, <2>3 DEF IInv
<1>10. QED
  BY <1>1, <1>2, <1>3, <1>4, <1>5, <1>6, <1>7, <1>8, <1>9 DEF Next

\* The inductive invariant holds in every reachable state, whatever the files grow to
\* and whichever faults occur (audit_log_tail.go:57-152).
THEOREM Invariance == Spec => []IInv
BY InitIInv, NextIInv, PTL DEF Spec

\* Between two Collects that could not read the checkpoint, events are handed over in the
\* order they were written, none of them twice.
THEOREM OnceInOrder == Spec => []GivenOnceInOrder
<1>1. IInv => GivenOnceInOrder
  BY DEF IInv
<1>2. QED
  BY Invariance, <1>1, PTL

\* The checkpoint passes no event that was neither handed over nor lost in one of the
\* ways the collector accepts: a day never opened, a checkpoint that could not be read,
\* a crash behind the rename.
THEOREM NonePassedOver == Spec => []NothingPassedOver
<1>1. IInv => NothingPassedOver
  BY DEF IInv
<1>2. QED
  BY Invariance, <1>1, PTL

=============================================================================
