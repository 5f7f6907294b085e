---------------------------- MODULE ReceiptsProofs ----------------------------
(***************************************************************************)
(* Proofs about Receipts and EventLog: no event is overlooked, none read    *)
(* again without cause, and every recorded receipt is accepted, whatever    *)
(* the logs hold, for any number of requests, lines and faults.             *)
(***************************************************************************)
EXTENDS Receipts, SequenceTheorems, WellFoundedInduction, TLAPS

(***************************************************************************)
(* Induction over the natural numbers, for sets                            *)
(***************************************************************************)

\* A set of natural numbers has a least element.
LEMMA LeastNumber ==
    ASSUME NEW S, S \subseteq Nat, S # {}
    PROVE  \E m \in S : \A k \in S : m <= k
<1>1. PICK R : IsWellFoundedOn(R, Nat) /\ \A i, j \in Nat : i < j => <<i, j>> \in R
  <2>1. \A i, j \in Nat : i < j => <<i, j>> \in OpToRel(<, Nat)
    BY DEF OpToRel
  <2>2. QED
    BY <2>1, NatLessThanWellFounded, Zenon
<1>2. IsWellFoundedOn(R, Nat)
  BY <1>1
<1>3. \E m \in S : \A k \in S : ~(<<k, m>> \in R)
  BY <1>2, WFMin
<1>4. PICK m \in S : \A k \in S : ~(<<k, m>> \in R)
  BY <1>3
<1>5. \A k \in S : ~(k < m)
  BY <1>1, <1>4, Zenon
<1>6. QED
  BY <1>5

\* A set that holds a and with every number below b the next one holds all of a .. b.
LEMMA IntervalInduction ==
    ASSUME NEW a \in Nat, NEW b \in Nat, NEW S,
           a \in S, \A n \in a .. b - 1 : n \in S => n + 1 \in S
    PROVE  a .. b \subseteq S
<1>1. SUFFICES ASSUME ~(a .. b \subseteq S) PROVE FALSE
  OBVIOUS
<1>2. (a .. b) \ S \subseteq Nat /\ (a .. b) \ S # {}
  BY <1>1
<1>3. PICK m \in (a .. b) \ S : \A k \in (a .. b) \ S : m <= k
  BY <1>2, LeastNumber
<1>4. m # a /\ m - 1 \in a .. b - 1
  BY <1>3
<1>5. m - 1 \in S
  BY <1>3, <1>4
<1>6. QED
  BY <1>3, <1>4, <1>5

\* g is the recursive function that begins with v0 and goes on by F.
Unfolds(g, a, b, V, v0, F) ==
    /\ g = [k \in a .. b |-> IF k = a THEN v0 ELSE F[<<k, g[k - 1]>>]]
    /\ \A k \in a .. b : g[k] \in V

\* There is one.
LEMMA Recursion ==
    ASSUME NEW a \in Nat, NEW b \in Nat, a <= b, NEW V, NEW v0 \in V,
           NEW F, \A k \in a + 1 .. b : \A v \in V : F[<<k, v>>] \in V
    PROVE  \E g : Unfolds(g, a, b, V, v0, F)
<1> DEFINE Good(g, n) == Unfolds(g, a, n, V, v0, F)
           S == {n \in a .. b : \E g : Good(g, n)}
<1>1. a \in S
  <2> DEFINE g == [k \in a .. a |-> v0]
  <2>1. Good(g, a)
    BY DEF Unfolds
  <2> HIDE DEF Good, g
  <2>2. a \in a .. b
    OBVIOUS
  <2>3. QED
    BY <2>1, <2>2
<1>2. ASSUME NEW n \in a .. b - 1, n \in S PROVE n + 1 \in S
  <2>1. PICK g : Good(g, n)
    BY <1>2
  <2> DEFINE v == F[<<n + 1, g[n]>>]
             h == [k \in a .. n + 1 |-> IF k = n + 1 THEN v ELSE g[k]]
  <2>2. \A k \in a .. n : h[k] = g[k]
    OBVIOUS
  <2>3. \A k \in a .. n : /\ g[k] = IF k = a THEN v0 ELSE F[<<k, g[k - 1]>>]
                          /\ g[k] \in V
    BY <2>1 DEF Unfolds
  <2>4. h[n + 1] = v /\ n + 1 # a /\ (n + 1) - 1 = n /\ n \in a .. n /\ n + 1 \in a + 1 .. b
    OBVIOUS
  <2>5. \A k \in a .. n : k # a => k - 1 \in a .. n
    OBVIOUS
  <2>6. v \in V
    BY <2>3, <2>4
  <2> HIDE DEF v, h
  <2>7. ASSUME NEW k \in a .. n + 1
        PROVE  h[k] \in V /\ h[k] = IF k = a THEN v0 ELSE F[<<k, h[k - 1]>>]
    <3>1. CASE k = n + 1
      BY <3>1, <2>2, <2>4, <2>6 DEF v
    <3>2. CASE k # n + 1
      <4>1. k \in a .. n
        BY <3>2
      <4>2. h[k] = g[k] /\ (k # a => h[k - 1] = g[k - 1])
        BY <2>2, <2>5, <4>1
      <4>3. g[k] \in V /\ g[k] = IF k = a THEN v0 ELSE F[<<k, g[k - 1]>>]
        BY <2>3, <4>1
      <4>4. CASE k = a
        BY <4>2, <4>3, <4>4
      <4>5. CASE k # a
        BY <4>2, <4>3, <4>5
      <4>6. QED
        BY <4>4, <4>5
    <3>3. QED
      BY <3>1, <3>2
  <2>8. h = [k \in a .. n + 1 |-> IF k = a THEN v0 ELSE F[<<k, h[k - 1]>>]]
    BY <2>7 DEF h
  <2>9. Good(h, n + 1)
    BY <2>7, <2>8 DEF Unfolds
  <2> HIDE DEF Good
  <2>10. n + 1 \in a .. b
    OBVIOUS
  <2>11. QED
    BY <2>9, <2>10
<1> HIDE DEF S
<1>3. b \in S
  BY <1>1, <1>2, IntervalInduction
<1>4. QED
  BY <1>3 DEF S

(***************************************************************************)
(* Files of lines                                                          *)
(***************************************************************************)

\* The lines of PutAll, one after the other.
Puts(file, records) ==
    LET put[k \in 0 .. Len(records)] == IF k = 0 THEN file ELSE Put(put[k - 1], records[k])
    IN  put

LEMMA TornLine == Torn \in Line /\ Glued \in Line /\ Torn.what = "torn" /\ Glued.what = Noise /\ Noise = "noise"
<1>1. Noise = "noise" /\ NoId \in Int
  BY DEF Noise, NoId
<1>2. Torn.what \in Whats /\ Noise \in Whats
  BY DEF Whats
<1>3. Torn \in Line /\ Torn.what = "torn"
  BY <1>1, <1>2 DEF Torn, Line
<1>4. Glued \in Line /\ Glued.what = Noise
  BY <1>1, <1>2 DEF Glued, Line
<1>5. QED
  BY <1>1, <1>3, <1>4

\* One write keeps every whole line, and adds at most its own.
LEMMA PutIs ==
    ASSUME NEW file \in Seq(Line), NEW line \in Line
    PROVE  /\ Put(file, line) \in Seq(Line)
           /\ Whole(file) \subseteq Whole(Put(file, line))
           /\ Whole(Put(file, line)) \subseteq Whole(file) \union {line}
<1>1. CASE ~(file # <<>> /\ Last(file) = Torn)
  <2>1. Put(file, line) = Append(file, line)
    BY <1>1 DEF Put
  <2> DEFINE g == Append(file, line)
  <2>2. /\ g \in Seq(Line) /\ Len(g) = Len(file) + 1 /\ Len(file) \in Nat
        /\ \A k \in 1 .. Len(file) : g[k] = file[k]
        /\ g[Len(file) + 1] = line
    OBVIOUS
  <2> HIDE DEF g
  <2>3. DOMAIN g = 1 .. Len(file) + 1 /\ DOMAIN file = 1 .. Len(file)
    BY <2>2
  <2>4. ToSet(g) = ToSet(file) \union {line}
    BY <2>2, <2>3 DEF ToSet
  <2>5. QED
    BY <2>1, <2>2, <2>4 DEF Whole, g
<1>2. CASE file # <<>> /\ Last(file) = Torn
  <2> DEFINE piece == IF line = Torn THEN Torn ELSE Glued
             g == Append(Front(file), piece)
  <2>1. Put(file, line) = g
    BY <1>2 DEF Put
  <2>2. piece \in Line /\ piece.what \in {Noise, Torn.what}
    BY TornLine
  <2> HIDE DEF piece
  <2>3. Len(file) \in Nat \ {0} /\ DOMAIN file = 1 .. Len(file) /\ file[Len(file)] = Torn
    BY <1>2 DEF Last
  <2>4. /\ Front(file) \in Seq(Line) /\ Len(Front(file)) = Len(file) - 1
        /\ \A k \in 1 .. Len(file) - 1 : Front(file)[k] = file[k]
    BY <2>3 DEF Front
  <2>5. /\ g \in Seq(Line) /\ Len(g) = Len(file)
        /\ \A k \in 1 .. Len(file) - 1 : g[k] = file[k]
        /\ g[Len(file)] = piece
    <3> DEFINE front == Front(file)
    <3> HIDE DEF front
    <3>1. /\ front \in Seq(Line) /\ Len(front) = Len(file) - 1
          /\ \A k \in 1 .. Len(file) - 1 : front[k] = file[k]
      BY <2>4 DEF front
    <3>2. /\ Append(front, piece) \in Seq(Line) /\ Len(Append(front, piece)) = Len(front) + 1
          /\ \A k \in 1 .. Len(front) : Append(front, piece)[k] = front[k]
          /\ Append(front, piece)[Len(front) + 1] = piece
      BY <2>2, <3>1
    <3>3. Len(front) + 1 = Len(file)
      BY <2>3, <3>1
    <3>4. g = Append(front, piece)
      BY DEF front
    <3> HIDE DEF g
    <3>5. QED
      BY <3>1, <3>2, <3>3, <3>4
  <2> HIDE DEF g
  <2>6. DOMAIN g = 1 .. Len(file)
    BY <2>5
  <2>7. ToSet(g) = {file[k] : k \in 1 .. Len(file) - 1} \union {piece}
    BY <2>3, <2>5, <2>6 DEF ToSet
  <2>8. ToSet(file) = {file[k] : k \in 1 .. Len(file) - 1} \union {Torn}
    BY <2>3 DEF ToSet
  <2>9. Whole(g) = Whole(file)
    BY <2>2, <2>7, <2>8 DEF Whole
  <2>10. QED
    BY <2>1, <2>5, <2>9
<1>3. QED
  BY <1>1, <1>2

LEMMA PutsAre ==
    ASSUME NEW file \in Seq(Line), NEW records \in Seq(Line)
    PROVE  /\ PutAll(file, records) = Puts(file, records)[Len(records)]
           /\ Puts(file, records)[0] = file
           /\ \A k \in 0 .. Len(records) : Puts(file, records)[k] \in Seq(Line)
           /\ \A k \in 1 .. Len(records) :
                Puts(file, records)[k] = Put(Puts(file, records)[k - 1], records[k])
<1> DEFINE V == Seq(Line)
           b == Len(records)
           F == [p \in (1 .. b) \X V |-> Put(p[2], records[p[1]])]
           put == Puts(file, records)
<1>1. b \in Nat /\ file \in V /\ \A k \in 1 .. b : records[k] \in Line
  BY ElementOfSeq
<1>2. \A k \in 1 .. b : \A v \in V : F[<<k, v>>] = Put(v, records[k]) /\ Put(v, records[k]) \in V
  BY <1>1, PutIs
<1> HIDE DEF V, F
<1>3. ASSUME NEW k \in 0 + 1 .. b, NEW v \in V PROVE F[<<k, v>>] \in V
  <2>1. k \in 1 .. b
    BY <1>1
  <2>2. QED
    BY <1>2, <2>1
<1>4. PICK g : Unfolds(g, 0, b, V, file, F)
  <2> HIDE DEF b
  <2>1. 0 \in Nat /\ 0 <= b
    BY <1>1
  <2>2. QED
    BY <1>1, <1>3, <2>1, Recursion
<1>5. ASSUME NEW k \in 0 .. b, k # 0 PROVE F[<<k, g[k - 1]>>] = Put(g[k - 1], records[k])
  <2>1. k \in 1 .. b /\ k - 1 \in 0 .. b
    BY <1>1, <1>5
  <2>2. g[k - 1] \in V
    BY <1>4, <2>1 DEF Unfolds
  <2>3. QED
    BY <1>2, <2>1, <2>2
<1>6. g = [k \in 0 .. b |-> IF k = 0 THEN file ELSE Put(g[k - 1], records[k])]
  BY <1>4, <1>5 DEF Unfolds
<1>7. put = [k \in 0 .. b |-> IF k = 0 THEN file ELSE Put(put[k - 1], records[k])]
  BY <1>6 DEF Puts
<1>8. PutAll(file, records) = put[b]
  BY DEF PutAll, Puts
<1> HIDE DEF put
<1>9. /\ put[0] = file
      /\ \A k \in 1 .. b : put[k] = Put(put[k - 1], records[k])
  <2>1. \A k \in 0 .. b : put[k] = IF k = 0 THEN file ELSE Put(put[k - 1], records[k])
    BY <1>7
  <2>2. 0 \in 0 .. b /\ \A k \in 1 .. b : k \in 0 .. b /\ k # 0
    BY <1>1
  <2>3. QED
    BY <2>1, <2>2
<1>10. \A k \in 0 .. b : put[k] \in V
  <2> DEFINE S == {k \in 0 .. b : put[k] \in V}
  <2>1. 0 \in S
    BY <1>1, <1>9
  <2>2. ASSUME NEW n \in 0 .. b - 1, n \in S PROVE n + 1 \in S
    <3>1. n + 1 \in 1 .. b /\ (n + 1) - 1 = n /\ n + 1 \in 0 .. b
      BY <1>1
    <3>2. put[n + 1] = Put(put[n], records[n + 1])
      BY <1>9, <3>1
    <3>3. QED
      BY <1>2, <2>2, <3>1, <3>2
  <2> HIDE DEF S
  <2>3. 0 .. b \subseteq S
    <3> HIDE DEF b
    <3>1. QED
      BY <1>1, <2>1, <2>2, IntervalInduction
  <2>4. QED
    BY <2>3 DEF S
<1>11. QED
  BY <1>8, <1>9, <1>10 DEF put, V

\* A write of records keeps every whole line, and adds none but theirs.
LEMMA PutAllIs ==
    ASSUME NEW file \in Seq(Line), NEW records \in Seq(Line)
    PROVE  /\ PutAll(file, records) \in Seq(Line)
           /\ Whole(file) \subseteq Whole(PutAll(file, records))
           /\ Whole(PutAll(file, records)) \subseteq Whole(file) \union ToSet(records)
<1> DEFINE put == Puts(file, records)
           b == Len(records)
           S == {n \in 0 .. b : /\ Whole(file) \subseteq Whole(put[n])
                                /\ Whole(put[n]) \subseteq Whole(file) \union ToSet(records)}
<1>1. b \in Nat /\ DOMAIN records = 1 .. b /\ \A k \in 1 .. b : records[k] \in Line
  BY ElementOfSeq
<1>2. /\ PutAll(file, records) = put[b]
      /\ put[0] = file
      /\ \A k \in 0 .. b : put[k] \in Seq(Line)
      /\ \A k \in 1 .. b : put[k] = Put(put[k - 1], records[k])
  BY PutsAre
<1> HIDE DEF put
<1>3. 0 \in S
  BY <1>1, <1>2
<1>4. ASSUME NEW n \in 0 .. b - 1, n \in S PROVE n + 1 \in S
  <2>1. n + 1 \in 1 .. b /\ (n + 1) - 1 = n /\ n + 1 \in 0 .. b /\ n \in 0 .. b
    BY <1>1
  <2>2. put[n + 1] = Put(put[n], records[n + 1]) /\ put[n] \in Seq(Line) /\ records[n + 1] \in Line
    BY <1>1, <1>2, <2>1
  <2>3. /\ Whole(put[n]) \subseteq Whole(put[n + 1])
        /\ Whole(put[n + 1]) \subseteq Whole(put[n]) \union {records[n + 1]}
    BY <2>2, PutIs
  <2>4. records[n + 1] \in ToSet(records)
    BY <1>1, <2>1 DEF ToSet
  <2>5. QED
    BY <1>4, <2>1, <2>3, <2>4
<1> HIDE DEF S
<1>5. 0 .. b \subseteq S
  <2> HIDE DEF b
  <2>1. QED
    BY <1>1, <1>3, <1>4, IntervalInduction
<1>6. b \in S
  BY <1>1, <1>5
<1>7. QED
  BY <1>1, <1>2, <1>6 DEF S

(***************************************************************************)
(* ParseTail                                                               *)
(***************************************************************************)

\* The new events of parsed, one after the other.
News(seen, parsed) ==
    LET fresh[k \in 0 .. Len(parsed)] ==
          IF k = 0 THEN <<>>
          ELSE IF New(seen, parsed, k) THEN Append(fresh[k - 1], parsed[k]) ELSE fresh[k - 1]
    IN  fresh

LEMMA NewsAre ==
    ASSUME NEW seen, NEW parsed \in Seq(Line)
    PROVE  /\ ParseTail(seen, parsed) = News(seen, parsed)[Len(parsed)]
           /\ News(seen, parsed)[0] = <<>>
           /\ \A k \in 1 .. Len(parsed) :
                News(seen, parsed)[k] = IF New(seen, parsed, k) THEN Append(News(seen, parsed)[k - 1], parsed[k]) ELSE News(seen, parsed)[k - 1]
<1> DEFINE V == Seq(Line)
           b == Len(parsed)
           F == [p \in (1 .. b) \X V |-> IF New(seen, parsed, p[1]) THEN Append(p[2], parsed[p[1]]) ELSE p[2]]
           fresh == News(seen, parsed)
<1>1. b \in Nat /\ <<>> \in V /\ \A k \in 1 .. b : parsed[k] \in Line
  BY ElementOfSeq
<1>2. \A k \in 1 .. b : \A v \in V :
        /\ F[<<k, v>>] = IF New(seen, parsed, k) THEN Append(v, parsed[k]) ELSE v
        /\ Append(v, parsed[k]) \in V
  BY <1>1
<1> HIDE DEF V, F
<1>3. ASSUME NEW k \in 0 + 1 .. b, NEW v \in V PROVE F[<<k, v>>] \in V
  <2>1. k \in 1 .. b
    BY <1>1
  <2>2. QED
    BY <1>2, <2>1
<1>4. PICK g : Unfolds(g, 0, b, V, <<>>, F)
  <2> HIDE DEF b
  <2>1. 0 \in Nat /\ 0 <= b
    BY <1>1
  <2>2. QED
    BY <1>1, <1>3, <2>1, Recursion
<1>5. ASSUME NEW k \in 0 .. b, k # 0
      PROVE  F[<<k, g[k - 1]>>] = IF New(seen, parsed, k) THEN Append(g[k - 1], parsed[k]) ELSE g[k - 1]
  <2>1. k \in 1 .. b /\ k - 1 \in 0 .. b
    BY <1>1, <1>5
  <2>2. g[k - 1] \in V
    BY <1>4, <2>1 DEF Unfolds
  <2>3. QED
    BY <1>2, <2>1, <2>2
<1>6. g = [k \in 0 .. b |-> IF k = 0 THEN <<>>
                            ELSE IF New(seen, parsed, k) THEN Append(g[k - 1], parsed[k]) ELSE g[k - 1]]
  BY <1>4, <1>5 DEF Unfolds
<1>7. fresh = [k \in 0 .. b |-> IF k = 0 THEN <<>>
                                ELSE IF New(seen, parsed, k) THEN Append(fresh[k - 1], parsed[k]) ELSE fresh[k - 1]]
  BY <1>6 DEF News
<1>8. ParseTail(seen, parsed) = fresh[b]
  BY DEF ParseTail, News
<1> HIDE DEF fresh
<1>9. \A k \in 0 .. b : fresh[k] = IF k = 0 THEN <<>>
                                  ELSE IF New(seen, parsed, k) THEN Append(fresh[k - 1], parsed[k]) ELSE fresh[k - 1]
  BY <1>7
<1>10. 0 \in 0 .. b /\ \A k \in 1 .. b : k \in 0 .. b /\ k # 0
  BY <1>1
<1>11. QED
  BY <1>8, <1>9, <1>10 DEF fresh

\* What ParseTail gives of the first n events.
Fresh(seen, s, parsed, n) ==
    /\ s \in Seq(Line)
    /\ \A i \in 1 .. Len(s) : \E k \in 1 .. n : New(seen, parsed, k) /\ s[i] = parsed[k]
    /\ \A k \in 1 .. n : New(seen, parsed, k) => \E i \in 1 .. Len(s) : s[i] = parsed[k]

LEMMA FreshNext ==
    ASSUME NEW seen, NEW parsed \in Seq(Line), NEW n \in 0 .. Len(parsed) - 1, NEW s, Fresh(seen, s, parsed, n)
    PROVE  Fresh(seen, IF New(seen, parsed, n + 1) THEN Append(s, parsed[n + 1]) ELSE s, parsed, n + 1)
<1>1. n \in Nat /\ n + 1 \in 1 .. Len(parsed) /\ parsed[n + 1] \in Line
  <2>1. Len(parsed) \in Nat
    OBVIOUS
  <2>2. n \in Nat /\ n + 1 \in 1 .. Len(parsed)
    BY <2>1
  <2>3. QED
    BY <2>2, ElementOfSeq
<1>2. \A k \in 1 .. n + 1 : k \in 1 .. n \/ k = n + 1
  BY <1>1
<1>3. 1 .. n \subseteq 1 .. n + 1 /\ n + 1 \in 1 .. n + 1
  BY <1>1
<1>4. CASE ~New(seen, parsed, n + 1)
  BY <1>2, <1>3, <1>4 DEF Fresh
<1>5. CASE New(seen, parsed, n + 1)
  <2> DEFINE t == Append(s, parsed[n + 1])
  <2>1. /\ t \in Seq(Line) /\ Len(t) = Len(s) + 1 /\ Len(s) \in Nat
        /\ t[Len(s) + 1] = parsed[n + 1] /\ \A i \in 1 .. Len(s) : t[i] = s[i]
    BY <1>1 DEF Fresh
  <2> HIDE DEF t
  <2>2. /\ \A i \in 1 .. Len(t) : i \in 1 .. Len(s) \/ i = Len(s) + 1
        /\ 1 .. Len(s) \subseteq 1 .. Len(t) /\ Len(s) + 1 \in 1 .. Len(t)
    BY <2>1
  <2>3. \A i \in 1 .. Len(t) : \E k \in 1 .. n + 1 : New(seen, parsed, k) /\ t[i] = parsed[k]
    <3> SUFFICES ASSUME NEW i \in 1 .. Len(t) PROVE \E k \in 1 .. n + 1 : New(seen, parsed, k) /\ t[i] = parsed[k]
      OBVIOUS
    <3>1. CASE i = Len(s) + 1
      BY <1>3, <1>5, <2>1, <3>1
    <3>2. CASE i \in 1 .. Len(s)
      <4>1. PICK k \in 1 .. n : New(seen, parsed, k) /\ s[i] = parsed[k]
        BY <3>2 DEF Fresh
      <4>2. k \in 1 .. n + 1 /\ t[i] = s[i]
        BY <1>3, <2>1, <3>2, <4>1
      <4>3. QED
        BY <4>1, <4>2
    <3>3. QED
      BY <2>2, <3>1, <3>2
  <2>4. \A k \in 1 .. n + 1 : New(seen, parsed, k) => \E i \in 1 .. Len(t) : t[i] = parsed[k]
    BY <1>2, <2>1, <2>2 DEF Fresh
  <2>5. Fresh(seen, t, parsed, n + 1)
    BY <2>1, <2>3, <2>4 DEF Fresh
  <2>6. QED
    BY <1>5, <2>5 DEF t
<1>6. QED
  BY <1>4, <1>5

LEMMA ParseTailFresh ==
    ASSUME NEW seen, NEW parsed \in Seq(Line)
    PROVE  Fresh(seen, ParseTail(seen, parsed), parsed, Len(parsed))
<1> DEFINE fresh == News(seen, parsed)
           b == Len(parsed)
           S == {n \in 0 .. b : Fresh(seen, fresh[n], parsed, n)}
<1>1. b \in Nat
  OBVIOUS
<1>2. /\ ParseTail(seen, parsed) = fresh[b]
      /\ fresh[0] = <<>>
      /\ \A k \in 1 .. b : fresh[k] = IF New(seen, parsed, k) THEN Append(fresh[k - 1], parsed[k]) ELSE fresh[k - 1]
  BY NewsAre
<1> HIDE DEF fresh
<1>3. 0 \in S
  <2>1. Fresh(seen, <<>>, parsed, 0)
    BY DEF Fresh
  <2>2. QED
    BY <1>1, <1>2, <2>1
<1>4. ASSUME NEW n \in 0 .. b - 1, n \in S PROVE n + 1 \in S
  <2>1. n + 1 \in 1 .. b /\ (n + 1) - 1 = n /\ n + 1 \in 0 .. b
    BY <1>1
  <2>2. fresh[n + 1] = IF New(seen, parsed, n + 1) THEN Append(fresh[n], parsed[n + 1]) ELSE fresh[n]
    BY <1>2, <2>1
  <2>3. Fresh(seen, fresh[n + 1], parsed, n + 1)
    BY <1>4, <2>2, FreshNext
  <2>4. QED
    BY <2>1, <2>3
<1> HIDE DEF S
<1>5. 0 .. b \subseteq S
  <2> HIDE DEF b
  <2>1. QED
    BY <1>1, <1>3, <1>4, IntervalInduction
<1>6. b \in S
  BY <1>1, <1>5
<1>7. QED
  BY <1>2, <1>6 DEF S

\* The events of parsed are known already, or one with their key is in ParseTail.
LEMMA ParseTailIs ==
    ASSUME NEW seen, NEW parsed \in Seq(Line)
    PROVE  /\ ParseTail(seen, parsed) \in Seq(Line)
           /\ \A e \in ToSet(ParseTail(seen, parsed)) : e \in ToSet(parsed) /\ Key(e) \notin seen
           /\ \A e \in ToSet(parsed) : Key(e) \in seen \/ \E f \in ToSet(ParseTail(seen, parsed)) : Key(f) = Key(e)
<1> DEFINE s == ParseTail(seen, parsed)
<1>1. Fresh(seen, s, parsed, Len(parsed))
  BY ParseTailFresh
<1> HIDE DEF s
<1>2. s \in Seq(Line) /\ DOMAIN s = 1 .. Len(s) /\ DOMAIN parsed = 1 .. Len(parsed) /\ Len(parsed) \in Nat
  BY <1>1 DEF Fresh
<1>3. ASSUME NEW e \in ToSet(s) PROVE e \in ToSet(parsed) /\ Key(e) \notin seen
  <2>1. PICK i \in 1 .. Len(s) : e = s[i]
    BY <1>2 DEF ToSet
  <2>2. PICK k \in 1 .. Len(parsed) : New(seen, parsed, k) /\ s[i] = parsed[k]
    BY <1>1, <2>1 DEF Fresh
  <2>3. QED
    BY <1>2, <2>1, <2>2 DEF ToSet, New
<1>4. ASSUME NEW e \in ToSet(parsed), Key(e) \notin seen
      PROVE  \E f \in ToSet(s) : Key(f) = Key(e)
  <2> DEFINE K == {k \in 1 .. Len(parsed) : Key(parsed[k]) = Key(e)}
  <2>1. K \subseteq Nat /\ K # {}
    BY <1>2 DEF ToSet
  <2>2. PICK m \in K : \A k \in K : m <= k
    BY <2>1, LeastNumber
  <2>3. m \in 1 .. Len(parsed) /\ Key(parsed[m]) = Key(e)
    BY <2>2
  <2>4. \A j \in 1 .. m - 1 : Key(parsed[j]) # Key(parsed[m])
    <3> SUFFICES ASSUME NEW j \in 1 .. m - 1, Key(parsed[j]) = Key(parsed[m]) PROVE FALSE
      OBVIOUS
    <3>1. j \in 1 .. Len(parsed) /\ j < m
      BY <1>2, <2>3
    <3>2. j \in K
      BY <2>3, <3>1
    <3>3. QED
      BY <1>2, <2>2, <2>3, <3>1, <3>2
  <2>5. New(seen, parsed, m)
    BY <1>4, <2>3, <2>4 DEF New
  <2>6. PICK i \in 1 .. Len(s) : s[i] = parsed[m]
    BY <1>1, <2>3, <2>5 DEF Fresh
  <2>7. QED
    BY <1>2, <2>3, <2>6 DEF ToSet
<1>5. QED
  BY <1>2, <1>3, <1>4 DEF s

(***************************************************************************)
(* TailEvents                                                              *)
(***************************************************************************)

\* A line gives one event or none; a receipt is the line itself.
LEMMA ParseIs ==
    ASSUME TypeOK, NEW l \in Line
    PROVE  /\ Parse(l) \in Seq(Line)
           /\ kind = "http_outcome" => \A e \in ToSet(Parse(l)) : e = l /\ l.what = "receipt"
<1>1. <<>> \in Seq(Line) /\ <<l>> \in Seq(Line) /\ ToSet(<<>>) = {} /\ ToSet(<<l>>) = {l}
  BY DEF ToSet
<1>2. CASE kind = "http_outcome"
  <2>1. Parse(l) = ParseReceiptLine(l)
    BY <1>2 DEF Parse
  <2>2. QED
    BY <1>1, <2>1 DEF ParseReceiptLine
<1>3. CASE kind = "ssh"
  BY <1>1, <1>3 DEF Parse, SshLine
<1>4. CASE kind = "fail2ban"
  BY <1>1, <1>4 DEF Parse, Fail2banLine
<1>5. CASE kind = "nginx"
  <2> DEFINE m == [l EXCEPT !.op = IF @ = BadId THEN NoId ELSE @]
  <2>1. m \in Line
    BY DEF Line, NoId
  <2> HIDE DEF m
  <2>2. <<m>> \in Seq(Line)
    BY <2>1
  <2>3. Parse(l) = NginxLine(l)
    BY <1>5 DEF Parse
  <2>4. Parse(l) = <<m>> \/ Parse(l) = <<>>
    BY <2>3 DEF NginxLine, m
  <2>5. QED
    BY <1>1, <1>5, <2>2, <2>4
<1>6. QED
  BY <1>2, <1>3, <1>4, <1>5, EventLogAssumption DEF TypeOK

\* The function FlattenSeq is the last value of.
Flattened(seqs) ==
    LET flatten[i \in 1 .. Len(seqs)] == IF i = 1 THEN seqs[i] ELSE flatten[i - 1] \o seqs[i]
    IN  flatten

LEMMA FlattenedIs ==
    ASSUME NEW seqs \in Seq(Seq(Line)), Len(seqs) # 0
    PROVE  /\ FlattenSeq(seqs) = Flattened(seqs)[Len(seqs)]
           /\ Flattened(seqs)[1] = seqs[1]
           /\ \A k \in 2 .. Len(seqs) : Flattened(seqs)[k] = Flattened(seqs)[k - 1] \o seqs[k]
<1> DEFINE V == Seq(Line)
           b == Len(seqs)
           F == [p \in (1 .. b) \X V |-> p[2] \o seqs[p[1]]]
           flat == Flattened(seqs)
<1>1. b \in Nat /\ 1 <= b /\ \A k \in 1 .. b : seqs[k] \in V
  BY ElementOfSeq
<1>2. \A k \in 1 .. b : \A v \in V : F[<<k, v>>] = v \o seqs[k] /\ v \o seqs[k] \in V
  <2> TAKE k \in 1 .. b
  <2> TAKE v \in V
  <2>1. seqs[k] \in V
    BY <1>1
  <2>2. v \o seqs[k] \in V
    <3> DEFINE t == seqs[k]
    <3> HIDE DEF t
    <3>1. t \in Seq(Line)
      BY <2>1 DEF t
    <3>2. v \o t \in Seq(Line)
      BY <3>1
    <3>3. QED
      BY <3>2 DEF t
  <2>3. F[<<k, v>>] = v \o seqs[k]
    OBVIOUS
  <2>4. QED
    BY <2>2, <2>3
<1>3. seqs[1] \in V
  BY <1>1
<1> HIDE DEF V, F
<1>4. ASSUME NEW k \in 1 + 1 .. b, NEW v \in V PROVE F[<<k, v>>] \in V
  <2>1. k \in 1 .. b
    BY <1>1
  <2>2. QED
    BY <1>2, <2>1
<1>5. PICK g : Unfolds(g, 1, b, V, seqs[1], F)
  <2> HIDE DEF b
  <2>1. 1 \in Nat
    OBVIOUS
  <2>2. QED
    BY <1>1, <1>3, <1>4, <2>1, Recursion
<1>6. ASSUME NEW k \in 1 .. b, k # 1 PROVE F[<<k, g[k - 1]>>] = g[k - 1] \o seqs[k]
  <2>1. k - 1 \in 1 .. b
    BY <1>1, <1>6
  <2>2. g[k - 1] \in V
    BY <1>5, <2>1 DEF Unfolds
  <2>3. QED
    BY <1>2, <1>6, <2>2
<1>7. g = [k \in 1 .. b |-> IF k = 1 THEN seqs[k] ELSE g[k - 1] \o seqs[k]]
  BY <1>5, <1>6 DEF Unfolds
<1>8. flat = [k \in 1 .. b |-> IF k = 1 THEN seqs[k] ELSE flat[k - 1] \o seqs[k]]
  BY <1>7 DEF Flattened
<1>9. FlattenSeq(seqs) = flat[b]
  BY DEF FlattenSeq, Flattened
<1> HIDE DEF flat
<1>10. \A k \in 1 .. b : flat[k] = IF k = 1 THEN seqs[k] ELSE flat[k - 1] \o seqs[k]
  BY <1>8
<1>11. 1 \in 1 .. b /\ \A k \in 2 .. b : k \in 1 .. b /\ k # 1
  BY <1>1
<1>12. QED
  BY <1>9, <1>10, <1>11 DEF flat

LEMMA JoinedSets ==
    ASSUME NEW s \in Seq(Line), NEW t \in Seq(Line)
    PROVE  s \o t \in Seq(Line) /\ ToSet(s \o t) = ToSet(s) \union ToSet(t)
<1> DEFINE g == s \o t
<1>1. /\ g \in Seq(Line) /\ Len(g) = Len(s) + Len(t) /\ Len(s) \in Nat /\ Len(t) \in Nat
      /\ \A i \in 1 .. Len(s) : g[i] = s[i]
      /\ \A i \in 1 .. Len(t) : g[Len(s) + i] = t[i]
      /\ \A i \in 1 .. Len(g) : \/ i \in 1 .. Len(s) /\ g[i] = s[i]
                                \/ i - Len(s) \in 1 .. Len(t) /\ g[i] = t[i - Len(s)]
  OBVIOUS
<1> HIDE DEF g
<1>2. DOMAIN g = 1 .. Len(g) /\ DOMAIN s = 1 .. Len(s) /\ DOMAIN t = 1 .. Len(t)
  BY <1>1
<1>3. \A i \in 1 .. Len(s) : i \in 1 .. Len(g)
  BY <1>1
<1>4. \A i \in 1 .. Len(t) : Len(s) + i \in 1 .. Len(g)
  BY <1>1
<1>5. ToSet(g) \subseteq ToSet(s) \union ToSet(t)
  BY <1>1, <1>2 DEF ToSet
<1>6. ToSet(s) \subseteq ToSet(g) /\ ToSet(t) \subseteq ToSet(g)
  <2>1. \A i \in 1 .. Len(s) : g[i] \in ToSet(g) /\ g[i] = s[i]
    BY <1>1, <1>2, <1>3 DEF ToSet
  <2>2. \A i \in 1 .. Len(t) : g[Len(s) + i] \in ToSet(g) /\ g[Len(s) + i] = t[i]
    BY <1>1, <1>2, <1>4 DEF ToSet
  <2>3. QED
    BY <1>2, <2>1, <2>2 DEF ToSet
<1>7. QED
  BY <1>1, <1>5, <1>6 DEF g

\* The elements of FlattenSeq are elements of its sequences.
LEMMA FlattenIs ==
    ASSUME NEW seqs \in Seq(Seq(Line))
    PROVE  /\ FlattenSeq(seqs) \in Seq(Line)
           /\ \A e \in ToSet(FlattenSeq(seqs)) : \E k \in 1 .. Len(seqs) : e \in ToSet(seqs[k])
<1> DEFINE b == Len(seqs)
           flat == Flattened(seqs)
           S == {n \in 1 .. b : /\ flat[n] \in Seq(Line)
                                /\ \A e \in ToSet(flat[n]) : \E k \in 1 .. b : e \in ToSet(seqs[k])}
<1>1. b \in Nat /\ \A k \in 1 .. b : seqs[k] \in Seq(Line)
  BY ElementOfSeq
<1>2. CASE b = 0
  <2>1. FlattenSeq(seqs) = seqs /\ seqs = <<>>
    BY <1>2 DEF FlattenSeq
  <2>2. <<>> \in Seq(Line) /\ ToSet(<<>>) = {}
    BY DEF ToSet
  <2>3. QED
    BY <2>1, <2>2
<1>3. CASE b # 0
  <2>1. /\ FlattenSeq(seqs) = flat[b]
        /\ flat[1] = seqs[1]
        /\ \A k \in 2 .. b : flat[k] = flat[k - 1] \o seqs[k]
    BY <1>3, FlattenedIs
  <2> HIDE DEF flat
  <2>2. 1 \in S
    <3>1. 1 \in 1 .. b
      BY <1>1, <1>3
    <3>2. QED
      BY <1>1, <2>1, <3>1
  <2>3. ASSUME NEW n \in 1 .. b - 1, n \in S PROVE n + 1 \in S
    <3>1. n + 1 \in 2 .. b /\ (n + 1) - 1 = n /\ n + 1 \in 1 .. b
      BY <1>1
    <3>2. flat[n + 1] = flat[n] \o seqs[n + 1]
      BY <2>1, <3>1
    <3>3. flat[n] \in Seq(Line) /\ seqs[n + 1] \in Seq(Line)
      BY <1>1, <2>3, <3>1
    <3>4. flat[n + 1] \in Seq(Line) /\ ToSet(flat[n + 1]) = ToSet(flat[n]) \union ToSet(seqs[n + 1])
      BY <3>2, <3>3, JoinedSets
    <3>5. QED
      BY <2>3, <3>1, <3>4
  <2> HIDE DEF S
  <2>4. 1 .. b \subseteq S
    <3> HIDE DEF b
    <3>1. 1 \in Nat
      OBVIOUS
    <3>2. QED
      BY <1>1, <2>2, <2>3, <3>1, IntervalInduction
  <2>5. b \in S
    <3>1. b \in 1 .. b
      BY <1>1, <1>3
    <3>2. QED
      BY <2>4, <3>1
  <2>6. QED
    BY <2>1, <2>5 DEF S
<1>4. QED
  BY <1>2, <1>3

LEMMA TailEventsAre ==
    ASSUME TypeOK, NEW f \in {1, 2}
    PROVE  /\ TailEvents(f) \in Seq(Line)
           /\ kind = "http_outcome" => ToSet(TailEvents(f)) \subseteq Logged
<1> DEFINE lines == TailLines(log[f])
           seqs == [k \in 1 .. Len(lines) |-> Parse(lines[k])]
<1>1. log[f] \in Seq(Line) /\ Len(log[f]) \in Nat /\ DOMAIN log[f] = 1 .. Len(log[f])
  BY DEF TypeOK
<1>2. maxLines \in Nat
  BY EventLogAssumption
<1>3. lines \in Seq(Line) /\ \A k \in 1 .. Len(lines) : lines[k] \in ToSet(log[f])
  <2> DEFINE s == log[f]
             m == IF Len(s) > maxLines THEN Len(s) - maxLines + 1 ELSE 1
  <2>1. m \in 1 .. Len(s) + 1
    BY <1>1, <1>2
  <2> HIDE DEF m
  <2>2. lines = SubSeq(s, m, Len(s))
    BY DEF TailLines, m
  <2> HIDE DEF lines, s
  <2>3. s \in Seq(Line) /\ Len(s) \in Nat
    BY <1>1 DEF s
  <2>4. /\ lines \in Seq(Line) /\ Len(lines) = Len(s) - m + 1
        /\ \A k \in 1 .. Len(s) - m + 1 : lines[k] = s[m + k - 1] /\ m + k - 1 \in 1 .. Len(s)
    BY <2>1, <2>2, <2>3, SubSeqProperties
  <2>5. QED
    BY <1>1, <2>4 DEF ToSet, s
<1> HIDE DEF lines
<1>4. \A k \in 1 .. Len(lines) : lines[k] \in Line
  BY <1>3, ElementOfSeq
<1>5. seqs \in Seq(Seq(Line)) /\ Len(seqs) = Len(lines) /\ \A k \in 1 .. Len(lines) : seqs[k] = Parse(lines[k])
  <2>1. \A k \in 1 .. Len(lines) : Parse(lines[k]) \in Seq(Line)
    BY <1>4, ParseIs
  <2>2. Len(lines) \in Nat
    BY <1>3
  <2>3. QED
    BY <2>1, <2>2
<1>6. TailEvents(f) = FlattenSeq(seqs)
  BY DEF TailEvents, lines
<1> HIDE DEF seqs
<1>7. /\ FlattenSeq(seqs) \in Seq(Line)
      /\ \A e \in ToSet(FlattenSeq(seqs)) : \E k \in 1 .. Len(seqs) : e \in ToSet(seqs[k])
  BY <1>5, FlattenIs
<1>8. ASSUME kind = "http_outcome", NEW e \in ToSet(FlattenSeq(seqs)) PROVE e \in Logged
  <2>1. PICK k \in 1 .. Len(lines) : e \in ToSet(Parse(lines[k]))
    BY <1>5, <1>7
  <2>2. e = lines[k] /\ e.what = "receipt"
    BY <1>4, <1>8, <2>1, ParseIs
  <2>3. e \in ToSet(log[f])
    BY <1>3, <2>1, <2>2
  <2>4. QED
    BY <2>2, <2>3 DEF Logged
<1>9. QED
  BY <1>6, <1>7, <1>8

\* Two events with one key are the same event.
LEMMA SameKey ==
    ASSUME TypeOK, NEW e, NEW f, Key(e) = Key(f)
    PROVE  Same(e, f)
<1>1. kind \in {"ssh", "nginx", "fail2ban", "http_outcome"}
  BY EventLogAssumption DEF TypeOK
<1>2. CASE kind = "http_outcome"
  BY <1>2 DEF Key, Same
<1>3. CASE kind \in {"ssh", "fail2ban"}
  BY <1>3 DEF Key, Same, SshKey, Fail2banKey
<1>4. CASE kind = "nginx"
  <2>1. NginxKey(e) = NginxKey(f)
    BY <1>4 DEF Key
  <2>2. <<e.at, e.what, e.op>> # <<f.at, f.what>> /\ <<e.at, e.what>> # <<f.at, f.what, f.op>>
    BY Len(<<e.at, e.what, e.op>>) = 3, Len(<<f.at, f.what>>) = 2, Len(<<e.at, e.what>>) = 2, Len(<<f.at, f.what, f.op>>) = 3
  <2>3. QED
    BY <1>4, <2>1, <2>2 DEF NginxKey, Same
<1>5. QED
  BY <1>1, <1>2, <1>3, <1>4

(***************************************************************************)
(* What steps leave alone                                                  *)
(***************************************************************************)

RunSet == [pc : {"idle", "file", "append", "rotate"}, todo : Seq({1, 2}), fresh : Seq(Line),
           events : Seq(Line), looked : SUBSET Line]

LEMMA IdleIs ==
    /\ Idle \in RunSet
    /\ Idle.pc = "idle" /\ Idle.todo = <<>> /\ Idle.fresh = <<>> /\ Idle.events = <<>> /\ Idle.looked = {}
BY DEF Idle, RunSet

LEMMA ElementsAre ==
    ASSUME NEW s \in Seq(Line)
    PROVE  ToSet(s) \subseteq Line /\ ToSet(<<>>) = {}
<1>1. \A i \in DOMAIN s : s[i] \in Line
  BY ElementOfSeq
<1>2. QED
  BY <1>1 DEF ToSet

\* Keys are compared the same way in every state.
LEMMA KeysStay ==
    ASSUME kind' = kind
    PROVE  /\ \A e : Key(e)' = Key(e)
           /\ \A e, f : Same(e, f)' = Same(e, f)
<1>1. ASSUME NEW e PROVE Key(e)' = Key(e)
  BY DEF Key, SshKey, NginxKey, Fail2banKey
<1>2. ASSUME NEW e, NEW f PROVE Same(e, f)' = Same(e, f)
  BY DEF Same
<1>3. QED
  BY <1>1, <1>2

\* A step that leaves the collector alone.
LEMMA CollectorStays ==
    ASSUME IInv, UNCHANGED <<kind, jsonl, run, outcome>>
    PROVE  PlaceInv' /\ LookedInv' /\ KeysInv' /\ NothingOverlooked'
<1>1. /\ kind' = kind /\ jsonl' = jsonl /\ run' = run
      /\ sent' = sent /\ covered' = covered /\ lost' = lost /\ forgotten' = forgotten
  BY DEF outcome
<1>2. /\ \A e : Key(e)' = Key(e)
      /\ \A e, f : Same(e, f)' = Same(e, f)
  BY <1>1, KeysStay
<1>3. PlaceInv'
  BY <1>1 DEF IInv, PlaceInv
<1>4. Batch' = Batch /\ Shipped' = Shipped /\ Whole(jsonl)' = Whole(jsonl)
  BY <1>1 DEF Batch, Shipped, Whole
<1>5. LookedInv'
  BY <1>1, <1>2, <1>4 DEF IInv, LookedInv
<1>6. Remembered(jsonl)' = Remembered(jsonl)
  BY <1>1, <1>2, <1>4 DEF Remembered
<1>7. KeysInv'
  BY <1>1, <1>2, <1>4, <1>6 DEF IInv, KeysInv
<1>8. NothingOverlooked'
  BY <1>1, <1>2 DEF IInv, NothingOverlooked
<1>9. QED
  BY <1>3, <1>5, <1>7, <1>8

\* A step that leaves the requests alone and looks at nothing but receipts.
LEMMA RequestsStay ==
    ASSUME IInv, UNCHANGED <<kind, log, req>>, kind = "http_outcome" => run'.looked \subseteq run.looked \union Logged
    PROVE  RequestsInv'
<1>1. Logged' = Logged
  BY DEF Logged
<1>2. QED
  BY <1>1 DEF IInv, RequestsInv

(***************************************************************************)
(* The application and the world                                           *)
(***************************************************************************)

\* A step of the application or the world, but for its effect on the requests.
LEMMA WorldKeeps ==
    ASSUME IInv, TypeOK', UNCHANGED <<kind, jsonl, run, outcome>>, RequestsInv'
    PROVE  IInv'
BY CollectorStays DEF IInv

LEMMA QuietKeeps ==
    ASSUME IInv, NewFileSink \/ CloseSink \/ Chmod
    PROVE  IInv'
<1>1. TypeOK
  BY DEF IInv
<1>2. UNCHANGED <<kind, log, written, jsonl, run, outcome, req>>
  BY DEF NewFileSink, CloseSink, Chmod, eventVars, logs
<1>3. TypeOK'
  <2>1. CASE NewFileSink
    <3>1. layout' \in Path
      <4>1. Created \in Entry
        BY DEF Created, Entry, Me
      <4>2. QED
        BY <1>1, <2>1, <4>1 DEF NewFileSink, TypeOK, Path
    <3>2. /\ present' = present \union {1} /\ sink' = 1 /\ faults' = faults
      BY <2>1 DEF NewFileSink
    <3>3. QED
      BY <1>1, <1>2, <3>1, <3>2 DEF TypeOK, outcome
  <2>2. CASE CloseSink
    BY <1>1, <1>2, <2>2 DEF CloseSink, TypeOK, outcome, eventVars, logs
  <2>3. CASE Chmod
    <3>1. faults' = faults + 1 /\ layout' \in Path /\ present' = present /\ sink' = sink
      BY <2>3, ReceiptsAssumption DEF Chmod, Fault, logs
    <3>2. QED
      BY <1>1, <1>2, <3>1 DEF TypeOK, outcome
  <2>4. QED
    BY <2>1, <2>2, <2>3
<1>4. RequestsInv'
  BY <1>2, RequestsStay
<1>5. QED
  BY <1>2, <1>3, <1>4, WorldKeeps

LEMMA RenameKeeps ==
    ASSUME IInv, Rename
    PROVE  IInv'
<1>1. TypeOK
  BY DEF IInv
<1>2. /\ log' = [f \in {1, 2} |-> IF f = 2 THEN log[1] ELSE <<>>]
      /\ present' = {2} /\ sink' = (IF sink \in {1, 2} THEN sink + 1 ELSE sink) /\ faults' = faults + 1
      /\ UNCHANGED <<kind, written, jsonl, run, outcome, req, layout>>
  BY DEF Rename, Fault
<1>3. TypeOK'
  BY <1>1, <1>2 DEF TypeOK, outcome
<1>4. Logged' \subseteq Logged
  <2>1. ToSet(log'[1]) = {} /\ ToSet(log'[2]) = ToSet(log[1])
    BY <1>2 DEF ToSet
  <2>2. QED
    BY <2>1 DEF Logged
<1>5. RequestsInv'
  BY <1>2, <1>4 DEF IInv, RequestsInv
<1>6. QED
  BY <1>2, <1>3, <1>5, WorldKeeps

LEMMA TagKeeps ==
    ASSUME IInv, NEW r \in Req, Tag(r)
    PROVE  IInv'
<1>1. TypeOK /\ req[r].pc = "new" /\ req \in [Req -> Request]
  BY DEF IInv, TypeOK, Tag
<1>2. UNCHANGED <<kind, logs, jsonl, run, outcome, faults, sink, layout>>
  BY DEF Tag, eventVars
<1>3. PICK s \in Shapes :
         \E pc \in (IF allowedOperation(s.operation) THEN {"tagged", "plain"} ELSE {"plain"}) :
           req' = [req EXCEPT ![r] = [NewRequest EXCEPT !.pc = pc, !.shape = IF pc = "plain" THEN @ ELSE s]]
  BY DEF Tag
<1>4. PICK pc \in (IF allowedOperation(s.operation) THEN {"tagged", "plain"} ELSE {"plain"}) :
         req' = [req EXCEPT ![r] = [NewRequest EXCEPT !.pc = pc, !.shape = IF pc = "plain" THEN @ ELSE s]]
  BY <1>3
<1> DEFINE q == [NewRequest EXCEPT !.pc = pc, !.shape = IF pc = "plain" THEN @ ELSE s]
<1>5. NewRequest \in Request /\ pc \in {"tagged", "plain"}
  BY <1>4 DEF NewRequest, Request, Untagged
<1>6. /\ q \in Request /\ q.pc = pc
      /\ pc = "tagged" => allowedOperation(q.shape.operation)
  <2>1. q \in Request /\ q.pc = pc /\ (pc = "tagged" => q.shape = s)
    BY <1>5 DEF Request
  <2>2. QED
    BY <1>4, <2>1
<1> HIDE DEF q
<1>7. req' = [req EXCEPT ![r] = q]
  BY <1>4 DEF q
<1>8. req' \in [Req -> Request]
  BY <1>1, <1>6, <1>7
<1>9. req'[r] = q /\ \A i \in Req : i # r => req'[i] = req[i]
  BY <1>1, <1>7
<1>10. TypeOK'
  BY <1>1, <1>2, <1>8 DEF TypeOK, outcome, logs
<1>11. RequestsInv'
  <2> SUFFICES ASSUME kind = "http_outcome" PROVE RequestsInv'
    BY <1>2 DEF RequestsInv
  <2>1. Logged' = Logged /\ run' = run /\ kind' = kind
    BY <1>2 DEF Logged, logs
  <2>2. \A i \in Req : req'[i].pc \in {"tagged", "record"} => allowedOperation(req'[i].shape.operation)
    BY <1>5, <1>6, <1>9 DEF IInv, RequestsInv
  <2>3. \A l \in Logged \union run.looked : l.op \in Req /\ l.op # r
    BY <1>1 DEF IInv, RequestsInv
  <2>4. \A l \in Logged \union run.looked : req'[l.op] = req[l.op]
    BY <1>9, <2>3
  <2>5. QED
    BY <2>1, <2>2, <2>4 DEF IInv, RequestsInv, allowedOperation
<1>12. QED
  BY <1>2, <1>10, <1>11, WorldKeeps

LEMMA BaseReturnsKeeps ==
    ASSUME IInv, NEW r \in Req, BaseReturns(r)
    PROVE  IInv'
<1>1. TypeOK /\ req[r].pc \in {"tagged", "plain"} /\ req \in [Req -> Request]
  BY DEF IInv, TypeOK, BaseReturns
<1>2. UNCHANGED <<kind, logs, jsonl, run, outcome, faults, sink, layout>>
  BY DEF BaseReturns, eventVars
<1>3. /\ req' \in [Req -> Request]
      /\ \A i \in Req : i # r => req'[i] = req[i]
      /\ req'[r].pc \in {"record", "done"} /\ req'[r].shape = req[r].shape
      /\ req'[r].pc = "record" => req[r].pc = "tagged"
  <2>1. CASE req' = [req EXCEPT ![r].pc = IF @ = "tagged" THEN "record" ELSE "done", ![r].got = "response"]
    BY <1>1, <2>1, ZenonT(60) DEF Request
  <2>2. CASE req' = [req EXCEPT ![r].pc = "done", ![r].got = "error"]
    BY <1>1, <2>2 DEF Request
  <2>3. QED
    BY <2>1, <2>2 DEF BaseReturns
<1>4. TypeOK'
  BY <1>1, <1>2, <1>3 DEF TypeOK, outcome, logs
<1>5. RequestsInv'
  <2> SUFFICES ASSUME kind = "http_outcome" PROVE RequestsInv'
    BY <1>2 DEF RequestsInv
  <2>1. Logged' = Logged /\ run' = run /\ kind' = kind
    BY <1>2 DEF Logged, logs
  <2>2. \A i \in Req : req'[i].pc \in {"tagged", "record"} => allowedOperation(req'[i].shape.operation)
    BY <1>3 DEF IInv, RequestsInv
  <2>3. \A l \in Logged \union run.looked : l.op \in Req /\ l.op # r
    BY <1>1 DEF IInv, RequestsInv
  <2>4. \A l \in Logged \union run.looked : req'[l.op] = req[l.op]
    BY <1>3, <2>3
  <2>5. QED
    BY <2>1, <2>2, <2>4 DEF IInv, RequestsInv, allowedOperation
<1>6. QED
  BY <1>2, <1>4, <1>5, WorldKeeps

LEMMA RecordKeeps ==
    ASSUME IInv, NEW r \in Req, Record(r)
    PROVE  IInv'
<1>1. TypeOK /\ RequestsInv /\ req[r].pc = "record" /\ req \in [Req -> Request] /\ log \in [{1, 2} -> Seq(Line)]
  BY DEF IInv, TypeOK, Record
<1>2. /\ req' = [req EXCEPT ![r].pc = "done"]
      /\ UNCHANGED <<kind, present, jsonl, run, outcome, sink, layout>>
  BY DEF Record
<1>3. /\ req' \in [Req -> Request]
      /\ \A i \in Req : i # r => req'[i] = req[i]
      /\ req'[r].pc = "done" /\ req'[r].shape = req[r].shape
  BY <1>1, <1>2 DEF Request
<1>4. CASE sink \notin {1, 2}
  <2>1. UNCHANGED <<log, written, faults>>
    BY <1>4 DEF Record
  <2>2. TypeOK'
    BY <1>1, <1>2, <1>3, <2>1 DEF TypeOK, outcome
  <2>3. RequestsInv'
    <3> SUFFICES ASSUME kind = "http_outcome" PROVE RequestsInv'
      BY <1>2 DEF RequestsInv
    <3>1. Logged' = Logged
      BY <2>1 DEF Logged
    <3>2. \A l \in Logged \union run.looked : l.op # r /\ l.op \in Req /\ req'[l.op] = req[l.op]
      BY <1>1, <1>3 DEF RequestsInv
    <3>3. \A i \in Req : req'[i].pc \in {"tagged", "record"} => req[i].pc = req'[i].pc /\ req[i].shape = req'[i].shape
      BY <1>3
    <3>4. QED
      BY <1>1, <1>2, <3>1, <3>2, <3>3 DEF RequestsInv, allowedOperation
  <2>4. QED
    BY <1>2, <2>2, <2>3, WorldKeeps
<1>5. CASE sink \in {1, 2}
  <2> DEFINE new == [n |-> written + 1, at |-> 1, what |-> "receipt", op |-> r]
  <2>1. PICK line \in {new, Torn} :
           /\ log' = [log EXCEPT ![sink] = Put(@, line)]
           /\ IF line = Torn THEN Fault("short") ELSE faults' = faults
    BY <1>5 DEF Record
  <2>2. written' = written + 1 /\ written \in Nat /\ r \in Int
    BY <1>1, <1>5, ReceiptsAssumption DEF Record, TypeOK
  <2>3. new \in Line /\ new.op = r /\ new.what = "receipt"
    BY <2>2 DEF Line, Whats
  <2> HIDE DEF new
  <2>4. line \in Line /\ faults' \in Nat
    BY <1>1, <2>1, <2>3, TornLine DEF Fault, TypeOK
  <2>5. /\ Put(log[sink], line) \in Seq(Line)
        /\ Whole(Put(log[sink], line)) \subseteq Whole(log[sink]) \union {line}
    BY <1>1, <1>5, <2>4, PutIs
  <2>6. /\ log' \in [{1, 2} -> Seq(Line)]
        /\ \A f \in {1, 2} : Whole(log'[f]) \subseteq Whole(log[f]) \union {line}
    BY <1>1, <1>5, <2>1, <2>5
  <2>7. TypeOK'
    BY <1>1, <1>2, <1>3, <2>2, <2>4, <2>6 DEF TypeOK, outcome
  <2>8. RequestsInv'
    <3> SUFFICES ASSUME kind = "http_outcome" PROVE RequestsInv'
      BY <1>2 DEF RequestsInv
    <3>1. Logged' \subseteq Logged \union {new}
      <4>1. \A f \in {1, 2} : \A l \in ToSet(log'[f]) : l.what = "receipt" => l \in Whole(log'[f])
        BY DEF Whole, Noise, Torn
      <4>2. \A f \in {1, 2} : \A l \in ToSet(log'[f]) : l.what = "receipt" => l \in ToSet(log[f]) \/ l = line
        BY <2>6, <4>1 DEF Whole
      <4>3. line.what = "receipt" => line = new
        BY <2>1, TornLine
      <4>4. QED
        BY <4>2, <4>3 DEF Logged
    <3>2. \A l \in Logged \union run.looked : l.op # r /\ l.op \in Req /\ req'[l.op] = req[l.op]
      BY <1>1, <1>3 DEF RequestsInv
    <3>3. \A i \in Req : req'[i].pc \in {"tagged", "record"} => req[i].pc = req'[i].pc /\ req[i].shape = req'[i].shape
      BY <1>3
    <3>4. allowedOperation(req'[r].shape.operation)
      BY <1>1, <1>3 DEF RequestsInv
    <3>5. \A l \in Logged' \union run'.looked : l \in Logged \union run.looked \/ l = new
      BY <1>2, <3>1
    <3>6. \A l \in Logged' \union run'.looked :
            l.op \in Req /\ req'[l.op].pc = "done" /\ allowedOperation(req'[l.op].shape.operation)
      BY <1>1, <1>3, <2>3, <3>2, <3>4, <3>5 DEF RequestsInv
    <3>7. \A l, m \in Logged' \union run'.looked : l.op = m.op => l = m
      BY <1>1, <2>3, <3>2, <3>5 DEF RequestsInv
    <3>8. \A i \in Req : req'[i].pc \in {"tagged", "record"} => allowedOperation(req'[i].shape.operation)
      BY <1>1, <3>3 DEF RequestsInv
    <3>9. QED
      BY <3>6, <3>7, <3>8 DEF RequestsInv, allowedOperation
  <2>9. QED
    BY <1>2, <2>7, <2>8, WorldKeeps
<1>6. QED
  BY <1>4, <1>5

LEMMA DaemonWritesKeeps ==
    ASSUME IInv, NEW whats, whats \subseteq Whats, NEW ids, ids \subseteq Int, DaemonWrites(whats, ids), UNCHANGED app
    PROVE  IInv'
<1>1. TypeOK /\ log \in [{1, 2} -> Seq(Line)] /\ written \in Nat
  BY DEF IInv, TypeOK
<1>2. /\ kind # "http_outcome" /\ present' = present \union {1} /\ written' = written + 1
      /\ UNCHANGED <<kind, jsonl, run, outcome, faults, req, sink, layout>>
  BY DEF DaemonWrites, app
<1>3. PICK at \in 1 .. MaxTime, what \in whats, op \in ids :
         log' = [log EXCEPT ![1] = Append(@, [n |-> written + 1, at |-> at, what |-> what, op |-> op])]
  BY DEF DaemonWrites
<1> DEFINE line == [n |-> written + 1, at |-> at, what |-> what, op |-> op]
<1>4. line \in Line
  <2>1. MaxTime \in Nat
    BY EventLogAssumption
  <2>2. at \in Nat
    BY <1>3, <2>1
  <2>3. written + 1 \in Nat /\ what \in Whats /\ op \in Int
    BY <1>1, <1>3
  <2>4. QED
    BY <2>2, <2>3 DEF Line
<1> HIDE DEF line
<1>5. log' = [log EXCEPT ![1] = Append(@, line)]
  BY <1>3 DEF line
<1>6. log' \in [{1, 2} -> Seq(Line)]
  BY <1>1, <1>4, <1>5
<1>7. TypeOK'
  BY <1>1, <1>2, <1>6 DEF TypeOK, outcome
<1>8. RequestsInv'
  BY <1>2 DEF RequestsInv
<1>9. QED
  BY <1>2, <1>7, <1>8, WorldKeeps

(***************************************************************************)
(* Collect                                                                 *)
(***************************************************************************)

LEMMA StartKeeps ==
    ASSUME IInv, NEW files \in Seq({1, 2}), kind # "http_outcome" => Tail(files) = <<>>, Start(files), UNCHANGED app
    PROVE  IInv'
<1>1. TypeOK /\ PlaceInv /\ LookedInv /\ KeysInv /\ NothingOverlooked
  BY DEF IInv
<1>2. /\ run.pc = "idle" /\ run' = [Idle EXCEPT !.pc = "file", !.todo = files]
      /\ UNCHANGED <<kind, logs, jsonl, outcome, faults, req, sink, layout>>
  BY DEF Start, app
<1>3. /\ run' \in RunSet /\ run'.pc = "file" /\ run'.events = <<>> /\ run'.looked = {} /\ run'.todo = files
  BY <1>2, IdleIs DEF RunSet
<1>4. TypeOK'
  BY <1>1, <1>2, <1>3 DEF TypeOK, outcome, logs, RunSet
<1>5. RequestsInv'
  BY <1>2, <1>3, RequestsStay DEF logs
<1>6. /\ \A e : Key(e)' = Key(e)
      /\ \A e, f : Same(e, f)' = Same(e, f)
  BY <1>2, KeysStay
<1>7. /\ sent' = sent /\ covered' = covered /\ lost' = lost /\ forgotten' = forgotten /\ jsonl' = jsonl /\ kind' = kind
  BY <1>2 DEF outcome
<1>8. Shipped' = Shipped /\ Batch' = {} /\ Whole(jsonl)' = Whole(jsonl) /\ Shipped = sent
  <2>1. ToSet(<<>>) = {}
    BY DEF ToSet
  <2>2. run.events = <<>>
    BY <1>1, <1>2 DEF PlaceInv
  <2>3. QED
    BY <1>2, <1>3, <1>7, <2>1, <2>2 DEF Shipped, Batch, Whole
<1>9. PlaceInv'
  BY <1>3, <1>7 DEF PlaceInv
<1>10. LookedInv'
  BY <1>1, <1>3, <1>7, <1>8 DEF LookedInv
<1>11. Remembered(jsonl)' = Remembered(jsonl)
  BY <1>6, <1>8 DEF Remembered
<1>12. KeysInv'
  BY <1>1, <1>6, <1>7, <1>8, <1>11 DEF KeysInv
<1>13. NothingOverlooked'
  BY <1>1, <1>6, <1>7 DEF NothingOverlooked
<1>14. QED
  BY <1>4, <1>5, <1>9, <1>10, <1>12, <1>13 DEF IInv

\* A step of Collect, but for what it does to the events.
LEMMA StepKeeps ==
    ASSUME IInv, UNCHANGED <<kind, logs, app>>, PlaceInv',
           run' \in RunSet, jsonl' \in Seq(Line), sent' \subseteq Line, lost' \subseteq Line, faults' \in Nat,
           kind = "http_outcome" => run'.looked \subseteq run.looked \union Logged,
           covered' = covered \/ covered' = covered \union run.looked,
           Batch' \subseteq run'.looked,
           \A e \in run'.looked : \E f \in Shipped' \union lost' \union Batch' : Same(e, f),
           Whole(jsonl') \subseteq Shipped' \union lost',
           \A e \in Shipped' : Key(e) \in Remembered(jsonl') \union forgotten',
           \A e \in covered' : \E f \in sent' \union lost' : Same(e, f)
    PROVE  IInv'
<1>1. TypeOK
  BY DEF IInv
<1>2. kind' = kind /\ UNCHANGED <<log, present, written, req, sink, layout>>
  BY DEF logs, app
<1>3. /\ \A e : Key(e)' = Key(e)
      /\ \A e, f : Same(e, f)' = Same(e, f)
  BY <1>2, KeysStay
<1>4. TypeOK'
  <2>1. covered' \subseteq Line
    BY <1>1 DEF TypeOK
  <2>2. QED
    BY <1>1, <1>2, <2>1 DEF TypeOK, RunSet
<1>5. RequestsInv'
  BY <1>2, RequestsStay
<1>6. Whole(jsonl)' = Whole(jsonl')
  BY DEF Whole
<1>7. LookedInv'
  BY <1>3, <1>6 DEF LookedInv
<1>8. Remembered(jsonl)' = Remembered(jsonl')
  BY <1>3, <1>6 DEF Remembered
<1>9. KeysInv'
  BY <1>3, <1>8 DEF KeysInv
<1>10. NothingOverlooked'
  BY <1>3 DEF NothingOverlooked
<1>11. QED
  BY <1>4, <1>5, <1>7, <1>9, <1>10 DEF IInv

LEMMA SkippedIs ==
    ASSUME TypeOK, run.todo # <<>>
    PROVE  /\ Skipped \in RunSet
           /\ kind = "http_outcome" =>
                /\ Skipped.pc = "file" /\ Skipped.events = run.events /\ Skipped.looked = run.looked
           /\ kind # "http_outcome" => Skipped = Idle
<1>1. run \in RunSet
  BY DEF TypeOK, RunSet
<1>2. CASE kind = "http_outcome"
  <2> DEFINE next == [run EXCEPT !.pc = "file", !.todo = Tail(@), !.fresh = <<>>]
  <2>1. Tail(run.todo) \in Seq({1, 2})
    BY <1>1 DEF RunSet
  <2>2. <<>> \in Seq(Line)
    OBVIOUS
  <2>3. next \in RunSet /\ next.pc = "file" /\ next.events = run.events /\ next.looked = run.looked
    BY <1>1, <2>1, <2>2 DEF RunSet
  <2>4. QED
    BY <1>2, <2>3 DEF Skipped
<1>3. CASE kind # "http_outcome"
  BY <1>3, IdleIs DEF Skipped
<1>4. QED
  BY <1>2, <1>3

\* A Run that gives nothing leaves alone what is shipped.
LEMMA SkippedShips ==
    ASSUME IInv, run.todo # <<>>, kind' = kind, sent' = sent, NEW gone,
           run' = [Skipped EXCEPT !.looked = @ \ gone]
    PROVE  /\ run' \in RunSet /\ PlaceInv' /\ Batch' = {}
           /\ Shipped' = sent \union ToSet(run.events)
           /\ run'.looked \subseteq run.looked \ gone
<1>1. TypeOK /\ PlaceInv
  BY DEF IInv
<1>2. /\ Skipped \in RunSet
      /\ kind = "http_outcome" =>
           /\ Skipped.pc = "file" /\ Skipped.events = run.events /\ Skipped.looked = run.looked
      /\ kind # "http_outcome" => Skipped = Idle
  BY <1>1, SkippedIs
<1>3. /\ run' \in RunSet /\ run'.pc = Skipped.pc /\ run'.events = Skipped.events
      /\ run'.looked = Skipped.looked \ gone /\ run'.todo = Skipped.todo
  BY <1>2 DEF RunSet
<1>4. Skipped.pc \in {"file", "idle"} /\ (Skipped.pc = "idle" => Skipped = Idle)
  BY <1>2, IdleIs
<1>5. PlaceInv'
  BY <1>2, <1>3, <1>4, IdleIs DEF PlaceInv
<1>6. Batch' = {}
  BY <1>3, <1>4 DEF Batch
<1>7. run'.events = run.events
  BY <1>1, <1>2, <1>3, IdleIs DEF PlaceInv
<1>8. Shipped' = sent \union ToSet(run.events)
  BY <1>3, <1>4, <1>7 DEF Shipped
<1>9. run'.looked \subseteq run.looked \ gone
  BY <1>2, <1>3, IdleIs
<1>10. QED
  BY <1>3, <1>5, <1>6, <1>8, <1>9

\* The first records of a file are records of the file.
LEMMA FirstKeys ==
    ASSUME NEW file \in Seq(Line), NEW n \in 0 .. Len(file)
    PROVE  /\ Remembered(SubSeq(file, 1, n)) \subseteq Remembered(file)
           /\ n = Len(file) => Remembered(SubSeq(file, 1, n)) = Remembered(file)
<1> DEFINE g == SubSeq(file, 1, n)
<1>1. /\ g \in Seq(Line) /\ Len(g) = n /\ \A k \in 1 .. n : g[k] = file[k]
      /\ Len(file) \in Nat /\ n \in Nat
  OBVIOUS
<1>2. n = Len(file) => g = file
  OBVIOUS
<1> HIDE DEF g
<1>3. DOMAIN g = 1 .. n /\ DOMAIN file = 1 .. Len(file) /\ 1 .. n \subseteq 1 .. Len(file)
  BY <1>1
<1>4. ToSet(g) \subseteq ToSet(file)
  BY <1>1, <1>3 DEF ToSet
<1>5. Whole(g) \subseteq Whole(file)
  BY <1>4 DEF Whole
<1>6. Remembered(g) \subseteq Remembered(file)
  BY <1>5 DEF Remembered
<1>7. QED
  BY <1>2, <1>6 DEF g

\* The Run that has read one log, with the keys it found.
ReadKnowing(seen, f, trusted, parsed) ==
    run' = IF ~trusted \/ ~Readable(f) THEN Skipped
           ELSE IF ParseTail(seen, parsed) = <<>>
             THEN [run EXCEPT !.todo = Tail(@), !.looked = run.looked \union ToSet(parsed)]
           ELSE [run EXCEPT !.pc = "append", !.fresh = ParseTail(seen, parsed),
                            !.looked = run.looked \union ToSet(parsed)]

\* What a step of a Collect at one of its files does.
LEMMA ReadFileIs ==
    ASSUME TypeOK, NEW f, NEW trusted, NEW parsed, ReadFile(f, trusted, parsed)
    PROVE  /\ run.pc = "file" /\ run.todo # <<>> /\ UNCHANGED <<kind, logs, jsonl, outcome>> /\ faults' \in Nat
           /\ \E seen \in SUBSET Remembered(jsonl) :
                (faults' = faults => seen = Remembered(jsonl)) /\ ReadKnowing(seen, f, trusted, parsed)
<1>1. jsonl \in Seq(Line) /\ faults \in Nat
  BY DEF TypeOK
<1>2. run.pc = "file" /\ run.todo # <<>> /\ UNCHANGED <<kind, logs, jsonl, outcome>>
  BY DEF ReadFile
<1>3. PICK n \in 0 .. Len(jsonl) :
        /\ IF n = Len(jsonl) THEN faults' = faults ELSE trusted /\ Fault("unread")
        /\ run' = IF ~trusted \/ ~Readable(f) THEN Skipped
                  ELSE IF ParseTail(LoadSeen(n), parsed) = <<>>
                    THEN [run EXCEPT !.todo = Tail(@), !.looked = run.looked \union ToSet(parsed)]
                  ELSE [run EXCEPT !.pc = "append", !.fresh = ParseTail(LoadSeen(n), parsed),
                                   !.looked = run.looked \union ToSet(parsed)]
  BY DEF ReadFile
<1>4. LoadSeen(n) \subseteq Remembered(jsonl) /\ (n = Len(jsonl) => LoadSeen(n) = Remembered(jsonl))
  BY <1>1, FirstKeys DEF LoadSeen
<1>5. faults' \in Nat /\ (faults' = faults => n = Len(jsonl))
  BY <1>1, <1>3 DEF Fault
<1>6. QED
  BY <1>2, <1>3, <1>4, <1>5 DEF ReadKnowing

\* The events of the lines that Run looks at.
LEMMA ReadFileKeeps ==
    ASSUME IInv, NEW f \in {1, 2}, NEW trusted, ReadFile(f, trusted, TailEvents(f)), UNCHANGED app
    PROVE  IInv'
<1>1. TypeOK /\ PlaceInv /\ LookedInv /\ KeysInv /\ NothingOverlooked
  BY DEF IInv
<1> DEFINE parsed == TailEvents(f)
           looked == run.looked \union ToSet(parsed)
<1>2. run.pc = "file" /\ run.todo # <<>> /\ UNCHANGED <<kind, logs, jsonl, outcome>> /\ faults' \in Nat
  BY <1>1, ReadFileIs
<1>2a. PICK seen \in SUBSET Remembered(jsonl) :
         ReadKnowing(seen, f, trusted, parsed)
  BY <1>1, ReadFileIs
<1> DEFINE fresh == ParseTail(seen, parsed)
<1>3. run' = IF ~trusted \/ ~Readable(f) THEN Skipped
             ELSE IF fresh = <<>> THEN [run EXCEPT !.todo = Tail(@), !.looked = looked]
             ELSE [run EXCEPT !.pc = "append", !.fresh = fresh, !.looked = looked]
  BY <1>2a DEF ReadKnowing
<1>4. Shipped = sent \union ToSet(run.events) /\ Batch = {}
  BY <1>2 DEF Shipped, Batch
<1>5. /\ kind' = kind /\ jsonl' = jsonl
      /\ sent' = sent /\ covered' = covered /\ lost' = lost /\ forgotten' = forgotten
  BY <1>2 DEF outcome
<1>6. run \in RunSet /\ jsonl \in Seq(Line) /\ sent \subseteq Line /\ lost \subseteq Line
  BY <1>1 DEF TypeOK, RunSet
<1>7. /\ parsed \in Seq(Line)
      /\ kind = "http_outcome" => ToSet(parsed) \subseteq Logged
  BY <1>1, TailEventsAre
<1> HIDE DEF parsed
<1>8. /\ fresh \in Seq(Line)
      /\ \A e \in ToSet(fresh) : e \in ToSet(parsed) /\ Key(e) \notin seen
      /\ \A e \in ToSet(parsed) : Key(e) \in seen \/ \E g \in ToSet(fresh) : Key(g) = Key(e)
  BY <1>7, ParseTailIs
<1> HIDE DEF fresh
<1>9. ASSUME Shipped' = Shipped, run' \in RunSet, PlaceInv',
             Batch' \subseteq run'.looked,
             kind = "http_outcome" => run'.looked \subseteq run.looked \union Logged,
             \A e \in run'.looked : \E g \in Shipped \union lost \union Batch' : Same(e, g)
      PROVE  IInv'
  <2>1. \A e \in run'.looked : \E g \in Shipped' \union lost' \union Batch' : Same(e, g)
    BY <1>5, <1>9
  <2>2. Whole(jsonl') \subseteq Shipped' \union lost'
    BY <1>1, <1>5, <1>9 DEF LookedInv
  <2>3. \A e \in Shipped' : Key(e) \in Remembered(jsonl') \union forgotten'
    BY <1>1, <1>5, <1>9 DEF KeysInv
  <2>4. \A e \in covered' : \E g \in sent' \union lost' : Same(e, g)
    BY <1>1, <1>5 DEF NothingOverlooked
  <2>5. UNCHANGED <<kind, logs, app>> /\ covered' = covered /\ jsonl' \in Seq(Line)
        /\ sent' \subseteq Line /\ lost' \subseteq Line /\ faults' \in Nat
    BY <1>2, <1>5, <1>6
  <2>6. QED
    BY <1>9, <2>1, <2>2, <2>3, <2>4, <2>5, StepKeeps
<1>10. CASE ~trusted \/ ~Readable(f)
  <2>1. run' = Skipped /\ Skipped \in RunSet
    BY <1>1, <1>2, <1>3, <1>10, SkippedIs
  <2>2. run' = [Skipped EXCEPT !.looked = @ \ {}]
    BY <2>1 DEF RunSet
  <2>3. run' \in RunSet /\ PlaceInv' /\ Batch' = {} /\ Shipped' = Shipped /\ run'.looked \subseteq run.looked
    BY <1>2, <1>4, <1>5, <2>2, SkippedShips
  <2>4. \A e \in run'.looked : \E g \in Shipped \union lost : Same(e, g)
    BY <1>1, <1>4, <2>3 DEF LookedInv
  <2>5. QED
    BY <1>9, <2>3, <2>4
<1>11. CASE trusted /\ Readable(f)
  <2>1. ToSet(parsed) \subseteq Line /\ ToSet(fresh) \subseteq Line /\ ToSet(<<>>) = {}
    BY <1>7, <1>8, ElementsAre
  <2>2. looked \in SUBSET Line /\ (kind = "http_outcome" => looked \subseteq run.looked \union Logged)
    BY <1>6, <1>7, <2>1 DEF RunSet
  <2>3. \A e \in run.looked : \E g \in Shipped \union lost : Same(e, g)
    BY <1>1, <1>4 DEF LookedInv
  <2>4. \A e \in ToSet(parsed) : \E g \in Shipped \union lost \union ToSet(fresh) : Same(e, g)
    <3> SUFFICES ASSUME NEW e \in ToSet(parsed) PROVE \E g \in Shipped \union lost \union ToSet(fresh) : Same(e, g)
      OBVIOUS
    <3>1. CASE Key(e) \in seen
      <4>1. PICK g \in Whole(jsonl) : Key(e) = Key(g)
        BY <3>1 DEF Remembered
      <4>2. Same(e, g)
        BY <1>1, <4>1, SameKey
      <4>3. QED
        BY <1>1, <4>1, <4>2 DEF LookedInv
    <3>2. CASE \E g \in ToSet(fresh) : Key(g) = Key(e)
      <4>1. PICK g \in ToSet(fresh) : Key(g) = Key(e)
        BY <3>2
      <4>2. Same(e, g)
        BY <1>1, <4>1, SameKey
      <4>3. QED
        BY <4>1, <4>2
    <3>3. QED
      BY <1>8, <3>1, <3>2
  <2>5. \A e \in looked : \E g \in Shipped \union lost \union ToSet(fresh) : Same(e, g)
    BY <2>3, <2>4
  <2>6. ToSet(fresh) \subseteq looked
    BY <1>8
  <2> HIDE DEF looked
  <2>7. CASE fresh = <<>>
    <3>1. run' = [run EXCEPT !.todo = Tail(@), !.looked = looked]
      BY <1>3, <1>11, <2>7
    <3>2. Tail(run.todo) \in Seq({1, 2})
      BY <1>2, <1>6 DEF RunSet
    <3>3. /\ run' \in RunSet /\ run'.pc = "file" /\ run'.events = run.events
          /\ run'.looked = looked /\ run'.todo = Tail(run.todo)
      BY <1>2, <1>6, <2>2, <3>1, <3>2 DEF RunSet
    <3>4. Shipped' = Shipped /\ Batch' = {}
      BY <1>4, <1>5, <3>3 DEF Shipped, Batch
    <3>5. PlaceInv'
      BY <1>1, <1>2, <1>5, <3>3 DEF PlaceInv
    <3>6. QED
      BY <1>9, <2>1, <2>2, <2>5, <2>7, <3>3, <3>4, <3>5
  <2>8. CASE fresh # <<>>
    <3>1. run' = [run EXCEPT !.pc = "append", !.fresh = fresh, !.looked = looked]
      BY <1>3, <1>11, <2>8
    <3>2. /\ run' \in RunSet /\ run'.pc = "append" /\ run'.events = run.events
          /\ run'.looked = looked /\ run'.todo = run.todo /\ run'.fresh = fresh
      BY <1>6, <1>8, <2>2, <3>1 DEF RunSet
    <3>3. Shipped' = Shipped /\ Batch' = ToSet(fresh)
      BY <1>4, <1>5, <3>2 DEF Shipped, Batch
    <3>4. PlaceInv'
      BY <1>1, <1>2, <1>5, <3>2 DEF PlaceInv
    <3>5. QED
      BY <1>9, <2>2, <2>5, <2>6, <3>2, <3>3, <3>4
  <2>9. QED
    BY <2>7, <2>8
<1>12. QED
  BY <1>10, <1>11

LEMMA AppendJSONLKeeps ==
    ASSUME IInv, AppendJSONL, UNCHANGED app
    PROVE  IInv'
<1>1. TypeOK /\ PlaceInv /\ LookedInv /\ KeysInv /\ NothingOverlooked
  BY DEF IInv
<1>2. /\ run.pc = "append"
      /\ jsonl' = PutAll(jsonl, run.fresh)
      /\ forgotten' = (forgotten \union {Key(e) : e \in ToSet(run.fresh)}) \ Remembered(jsonl')
      /\ run' = [run EXCEPT !.pc = "rotate"]
      /\ UNCHANGED <<kind, logs, sent, covered, lost, faults>>
  BY DEF AppendJSONL
<1>3. run \in RunSet /\ jsonl \in Seq(Line) /\ sent \subseteq Line /\ lost \subseteq Line /\ faults \in Nat
  BY <1>1 DEF TypeOK, RunSet
<1>4. /\ run' \in RunSet /\ run'.pc = "rotate" /\ run'.events = run.events /\ run'.fresh = run.fresh
      /\ run'.looked = run.looked /\ run'.todo = run.todo
  BY <1>2, <1>3 DEF RunSet
<1>5. Batch' = Batch /\ Batch = ToSet(run.fresh) /\ Shipped' = Shipped \union ToSet(run.fresh)
  BY <1>2, <1>4 DEF Batch, Shipped
<1>6. /\ jsonl' \in Seq(Line)
      /\ Whole(jsonl) \subseteq Whole(jsonl')
      /\ Whole(jsonl') \subseteq Whole(jsonl) \union ToSet(run.fresh)
  <2>1. run.fresh \in Seq(Line)
    BY <1>3 DEF RunSet
  <2>2. QED
    BY <1>2, <1>3, <2>1, PutAllIs
<1>7. Remembered(jsonl) \subseteq Remembered(jsonl')
  BY <1>6 DEF Remembered
<1>8. PlaceInv'
  BY <1>1, <1>2, <1>4 DEF PlaceInv
<1>9. \A e \in run'.looked : \E f \in Shipped' \union lost' \union Batch' : Same(e, f)
  BY <1>1, <1>2, <1>4, <1>5 DEF LookedInv
<1>10. Batch' \subseteq run'.looked /\ Whole(jsonl') \subseteq Shipped' \union lost'
  BY <1>1, <1>2, <1>4, <1>5, <1>6 DEF LookedInv
<1>11. \A e \in Shipped' : Key(e) \in Remembered(jsonl') \union forgotten'
  BY <1>1, <1>2, <1>5, <1>7 DEF KeysInv
<1>12. \A e \in covered' : \E f \in sent' \union lost' : Same(e, f)
  BY <1>1, <1>2 DEF NothingOverlooked
<1>13. UNCHANGED <<kind, logs, app>> /\ covered' = covered /\ sent' \subseteq Line /\ lost' \subseteq Line
       /\ faults' \in Nat /\ run'.looked \subseteq run.looked
  BY <1>2, <1>3, <1>4
<1>14. QED
  BY <1>4, <1>6, <1>8, <1>9, <1>10, <1>11, <1>12, <1>13, StepKeeps

LEMMA AppendFailsKeeps ==
    ASSUME IInv, AppendFails, UNCHANGED app
    PROVE  IInv'
<1>1. TypeOK /\ PlaceInv /\ LookedInv /\ KeysInv /\ RequestsInv /\ NothingOverlooked
  BY DEF IInv
<1>2. /\ run.pc = "append" /\ faults' = faults + 1
      /\ run' = [Skipped EXCEPT !.looked = @ \ ToSet(run.fresh)]
      /\ UNCHANGED <<kind, logs, sent, covered, forgotten>>
  BY DEF AppendFails, Fault
<1>3. PICK k \in 0 .. Len(run.fresh) : \E rest \in {<<>>, <<Torn>>} :
         /\ jsonl' = PutAll(jsonl, SubSeq(run.fresh, 1, k) \o rest)
         /\ lost' = lost \union {e \in ToSet(SubSeq(run.fresh, 1, k)) : Key(e) \in Remembered(jsonl')}
  BY DEF AppendFails
<1> DEFINE part == SubSeq(run.fresh, 1, k)
<1>4. PICK rest \in {<<>>, <<Torn>>} :
         /\ jsonl' = PutAll(jsonl, part \o rest)
         /\ lost' = lost \union {e \in ToSet(part) : Key(e) \in Remembered(jsonl')}
  BY <1>3
<1>5. /\ run \in RunSet /\ run.fresh \in Seq(Line)
      /\ jsonl \in Seq(Line) /\ sent \subseteq Line /\ lost \subseteq Line /\ faults \in Nat
  BY <1>1 DEF TypeOK, RunSet
<1>6. part \in Seq(Line)
  BY <1>3, <1>5
<1> HIDE DEF part
<1>7. rest \in Seq(Line) /\ ToSet(rest) \subseteq {Torn}
  <2>1. CASE rest = <<>>
    BY <2>1 DEF ToSet
  <2>2. CASE rest = <<Torn>>
    <3>1. Len(rest) = 1 /\ rest[1] = Torn /\ DOMAIN rest = {1} /\ rest \in Seq(Line)
      <4> DEFINE t == Torn
      <4>1. t \in Line /\ rest = <<t>>
        BY <2>2, TornLine
      <4> HIDE DEF t
      <4>2. Len(rest) = 1 /\ rest[1] = t /\ DOMAIN rest = {1} /\ rest \in Seq(Line)
        BY <4>1
      <4>3. QED
        BY <4>2 DEF t
    <3>2. QED
      BY <3>1 DEF ToSet
  <2>3. QED
    BY <1>4, <2>1, <2>2
<1>8. part \o rest \in Seq(Line) /\ ToSet(part \o rest) \subseteq ToSet(part) \union {Torn}
  BY <1>6, <1>7, JoinedSets
<1>9. /\ jsonl' \in Seq(Line)
      /\ Whole(jsonl) \subseteq Whole(jsonl')
      /\ Whole(jsonl') \subseteq Whole(jsonl) \union ToSet(part) \union {Torn}
  BY <1>4, <1>5, <1>8, PutAllIs
<1>10. Whole(jsonl') \subseteq Whole(jsonl) \union lost'
  <2> SUFFICES ASSUME NEW e \in Whole(jsonl'), e \notin Whole(jsonl) PROVE e \in lost'
    OBVIOUS
  <2>1. e # Torn
    BY DEF Whole
  <2>2. e \in ToSet(part) /\ Key(e) \in Remembered(jsonl')
    BY <1>9, <2>1 DEF Remembered
  <2>3. QED
    BY <1>4, <2>2
<1>11. run.todo # <<>>
  BY <1>1, <1>2 DEF PlaceInv
<1>12. /\ run' \in RunSet /\ PlaceInv' /\ Batch' = {} /\ Shipped' = sent \union ToSet(run.events)
       /\ run'.looked \subseteq run.looked \ ToSet(run.fresh)
  BY <1>2, <1>11, SkippedShips
<1>13. Shipped' = Shipped /\ Batch = ToSet(run.fresh) /\ lost \subseteq lost'
  BY <1>2, <1>4, <1>12 DEF Shipped, Batch
<1>14. \A e \in run'.looked : \E f \in Shipped' \union lost' \union Batch' : Same(e, f)
  <2> SUFFICES ASSUME NEW e \in run'.looked PROVE \E f \in Shipped \union lost : Same(e, f)
    BY <1>13
  <2>1. PICK f \in Shipped \union lost \union Batch : Same(e, f)
    BY <1>1, <1>12 DEF LookedInv
  <2>2. CASE f \in Batch
    <3>1. kind = "http_outcome"
      <4>1. SUFFICES ASSUME kind # "http_outcome" PROVE FALSE
        OBVIOUS
      <4>2. Skipped = Idle
        BY <1>1, <1>11, <4>1, SkippedIs
      <4>3. run'.looked = {}
        BY <1>2, <4>2, IdleIs DEF RunSet
      <4>4. QED
        BY <4>3
    <3>2. e \in run.looked /\ f \in run.looked /\ e.op = f.op
      BY <1>1, <1>12, <2>1, <2>2, <3>1 DEF Same, LookedInv
    <3>3. e = f
      BY <1>1, <3>1, <3>2 DEF RequestsInv
    <3>4. QED
      BY <1>12, <1>13, <2>2, <3>3
  <2>3. QED
    BY <2>1, <2>2
<1>15. Whole(jsonl') \subseteq Shipped' \union lost'
  BY <1>1, <1>10, <1>13 DEF LookedInv
<1>16. \A e \in Shipped' : Key(e) \in Remembered(jsonl') \union forgotten'
  BY <1>1, <1>2, <1>9, <1>13 DEF KeysInv, Remembered
<1>17. \A e \in covered' : \E f \in sent' \union lost' : Same(e, f)
  BY <1>1, <1>2, <1>13 DEF NothingOverlooked
<1>18. ToSet(part) \subseteq Line
  BY <1>6, ElementsAre
<1>19. UNCHANGED <<kind, logs, app>> /\ covered' = covered /\ sent' \subseteq Line /\ lost' \subseteq Line
       /\ faults' \in Nat /\ run'.looked \subseteq run.looked /\ Batch' \subseteq run'.looked
  BY <1>2, <1>4, <1>5, <1>12, <1>18
<1>20. QED
  BY <1>9, <1>12, <1>14, <1>15, <1>16, <1>17, <1>19, StepKeeps

LEMMA RotateKeeps ==
    ASSUME IInv, Rotate, UNCHANGED app
    PROVE  IInv'
<1>1. TypeOK /\ PlaceInv /\ LookedInv /\ KeysInv /\ NothingOverlooked
  BY DEF IInv
<1>2. /\ run.pc = "rotate"
      /\ jsonl' = IF Len(jsonl) > MaxBytes THEN <<>> ELSE jsonl
      /\ forgotten' = IF Len(jsonl) > MaxBytes THEN forgotten \union Remembered(jsonl) ELSE forgotten
      /\ run' = [run EXCEPT !.pc = "file", !.todo = Tail(@), !.fresh = <<>>, !.events = @ \o run.fresh]
      /\ UNCHANGED <<kind, logs, sent, covered, lost, faults>>
  BY DEF Rotate
<1>3. run \in RunSet /\ jsonl \in Seq(Line) /\ sent \subseteq Line /\ lost \subseteq Line /\ faults \in Nat
  BY <1>1 DEF TypeOK, RunSet
<1> DEFINE events == run.events
           fresh == run.fresh
           joined == events \o fresh
<1>4. events \in Seq(Line) /\ fresh \in Seq(Line)
  BY <1>3 DEF RunSet
<1> HIDE DEF events, fresh
<1>5. joined \in Seq(Line) /\ ToSet(joined) = ToSet(events) \union ToSet(fresh)
  BY <1>4, JoinedSets
<1>6. run' = [run EXCEPT !.pc = "file", !.todo = Tail(@), !.fresh = <<>>, !.events = joined]
  BY <1>2 DEF events, fresh
<1> HIDE DEF joined
<1>7. run.todo # <<>>
  BY <1>1, <1>2 DEF PlaceInv
<1>8. /\ run' \in RunSet /\ run'.pc = "file" /\ run'.events = joined
      /\ run'.looked = run.looked /\ run'.todo = Tail(run.todo)
  <2>1. Tail(run.todo) \in Seq({1, 2}) /\ <<>> \in Seq(Line)
    BY <1>3, <1>7 DEF RunSet
  <2>2. QED
    BY <1>3, <1>5, <1>6, <2>1 DEF RunSet
<1>9. Batch' = {} /\ Batch \subseteq Shipped /\ Shipped' = Shipped
  BY <1>2, <1>5, <1>8 DEF Batch, Shipped, events, fresh
<1>10. jsonl' \in Seq(Line) /\ Whole(jsonl') \subseteq Whole(jsonl)
  BY <1>2, <1>3 DEF Whole, ToSet
<1>11. \A e \in Shipped' : Key(e) \in Remembered(jsonl') \union forgotten'
  BY <1>1, <1>2, <1>9 DEF KeysInv
<1>12. PlaceInv'
  BY <1>1, <1>2, <1>7, <1>8 DEF PlaceInv
<1>13. \A e \in run'.looked : \E f \in Shipped' \union lost' \union Batch' : Same(e, f)
  BY <1>1, <1>2, <1>8, <1>9 DEF LookedInv
<1>14. Batch' \subseteq run'.looked /\ Whole(jsonl') \subseteq Shipped' \union lost'
  BY <1>1, <1>2, <1>9, <1>10 DEF LookedInv
<1>15. \A e \in covered' : \E f \in sent' \union lost' : Same(e, f)
  BY <1>1, <1>2 DEF NothingOverlooked
<1>16. UNCHANGED <<kind, logs, app>> /\ covered' = covered /\ sent' \subseteq Line /\ lost' \subseteq Line
       /\ faults' \in Nat /\ run'.looked \subseteq run.looked
  BY <1>2, <1>3, <1>8
<1>17. QED
  BY <1>8, <1>10, <1>11, <1>12, <1>13, <1>14, <1>15, <1>16, StepKeeps

LEMMA RotateFailsKeeps ==
    ASSUME IInv, RotateFails, UNCHANGED app
    PROVE  IInv'
<1>1. TypeOK /\ PlaceInv /\ LookedInv /\ KeysInv /\ NothingOverlooked
  BY DEF IInv
<1>2. /\ run.pc = "rotate" /\ faults' = faults + 1
      /\ lost' = lost \union ToSet(run.fresh)
      /\ run' = [Skipped EXCEPT !.looked = @ \ ToSet(run.fresh)]
      /\ UNCHANGED <<kind, logs, jsonl, sent, covered, forgotten>>
  BY DEF RotateFails, Fault
<1>3. /\ run.fresh \in Seq(Line) /\ jsonl \in Seq(Line)
      /\ sent \subseteq Line /\ lost \subseteq Line /\ faults \in Nat
  BY <1>1 DEF TypeOK
<1>4. ToSet(run.fresh) \subseteq Line
  BY <1>3, ElementsAre
<1>5. run.todo # <<>>
  BY <1>1, <1>2 DEF PlaceInv
<1>6. /\ run' \in RunSet /\ PlaceInv' /\ Batch' = {} /\ Shipped' = sent \union ToSet(run.events)
      /\ run'.looked \subseteq run.looked \ ToSet(run.fresh)
  BY <1>2, <1>5, SkippedShips
<1>7. /\ Shipped' \subseteq Shipped
      /\ Shipped \union lost \union Batch \subseteq Shipped' \union lost'
  BY <1>2, <1>6 DEF Shipped, Batch
<1>8. \A e \in run'.looked : \E f \in Shipped' \union lost' \union Batch' : Same(e, f)
  BY <1>1, <1>6, <1>7 DEF LookedInv
<1>9. Whole(jsonl') \subseteq Shipped' \union lost'
  BY <1>1, <1>2, <1>7 DEF LookedInv
<1>10. \A e \in Shipped' : Key(e) \in Remembered(jsonl') \union forgotten'
  BY <1>1, <1>2, <1>7 DEF KeysInv
<1>11. \A e \in covered' : \E f \in sent' \union lost' : Same(e, f)
  BY <1>1, <1>2 DEF NothingOverlooked
<1>12. UNCHANGED <<kind, logs, app>> /\ covered' = covered /\ sent' \subseteq Line /\ lost' \subseteq Line
       /\ jsonl' \in Seq(Line) /\ faults' \in Nat /\ run'.looked \subseteq run.looked /\ Batch' \subseteq run'.looked
  BY <1>2, <1>3, <1>4, <1>6
<1>13. QED
  BY <1>6, <1>8, <1>9, <1>10, <1>11, <1>12, StepKeeps

LEMMA ReturnKeeps ==
    ASSUME IInv, Return, UNCHANGED app
    PROVE  IInv'
<1>1. TypeOK /\ PlaceInv /\ LookedInv /\ KeysInv /\ NothingOverlooked
  BY DEF IInv
<1>2. /\ run.pc = "file" /\ run' = Idle
      /\ sent' = sent \union ToSet(run.events)
      /\ covered' = covered \union run.looked
      /\ UNCHANGED <<kind, logs, jsonl, lost, forgotten, faults>>
  BY DEF Return
<1>3. run.events \in Seq(Line) /\ jsonl \in Seq(Line) /\ sent \subseteq Line /\ lost \subseteq Line /\ faults \in Nat
  BY <1>1 DEF TypeOK
<1>4. ToSet(run.events) \subseteq Line /\ ToSet(<<>>) = {}
  BY <1>3, ElementsAre
<1>5. Batch = {} /\ Batch' = {} /\ Shipped = sent' /\ Shipped' = Shipped
  BY <1>2, <1>4, IdleIs DEF Batch, Shipped
<1>6. run'.looked = {} /\ run' \in RunSet /\ PlaceInv'
  BY <1>2, IdleIs DEF PlaceInv
<1>7. \A e \in run.looked : \E f \in sent' \union lost' : Same(e, f)
  BY <1>1, <1>2, <1>5 DEF LookedInv
<1>8. \A e \in covered' : \E f \in sent' \union lost' : Same(e, f)
  BY <1>1, <1>2, <1>7 DEF NothingOverlooked
<1>9. Whole(jsonl') \subseteq Shipped' \union lost'
  BY <1>1, <1>2, <1>5 DEF LookedInv
<1>10. \A e \in Shipped' : Key(e) \in Remembered(jsonl') \union forgotten'
  BY <1>1, <1>2, <1>5 DEF KeysInv
<1>11. UNCHANGED <<kind, logs, app>> /\ sent' \subseteq Line /\ lost' \subseteq Line
       /\ jsonl' \in Seq(Line) /\ faults' \in Nat
  BY <1>2, <1>3, <1>4
<1>12. QED
  BY <1>2, <1>5, <1>6, <1>8, <1>9, <1>10, <1>11, StepKeeps

LEMMA CrashKeeps ==
    ASSUME IInv, Crash, UNCHANGED app
    PROVE  IInv'
<1>1. TypeOK /\ PlaceInv /\ LookedInv /\ KeysInv /\ NothingOverlooked
  BY DEF IInv
<1>2. /\ run' = Idle /\ faults' = faults + 1
      /\ lost' = lost \union ToSet(run.events) \union (IF run.pc = "rotate" THEN ToSet(run.fresh) ELSE {})
      /\ UNCHANGED <<kind, logs, jsonl, sent, covered, forgotten>>
  BY DEF Crash, Fault
<1>3. /\ run.events \in Seq(Line) /\ run.fresh \in Seq(Line) /\ jsonl \in Seq(Line)
      /\ sent \subseteq Line /\ lost \subseteq Line /\ faults \in Nat
  BY <1>1 DEF TypeOK
<1>4. ToSet(run.events) \subseteq Line /\ ToSet(run.fresh) \subseteq Line /\ ToSet(<<>>) = {}
  BY <1>3, ElementsAre
<1>5. Batch' = {} /\ Shipped' = sent /\ sent \subseteq Shipped /\ Shipped \union lost \subseteq sent \union lost'
  BY <1>2, <1>4, IdleIs DEF Batch, Shipped
<1>6. run'.looked = {} /\ run' \in RunSet /\ PlaceInv'
  BY <1>2, IdleIs DEF PlaceInv
<1>7. Whole(jsonl') \subseteq Shipped' \union lost'
  BY <1>1, <1>2, <1>5 DEF LookedInv
<1>8. \A e \in Shipped' : Key(e) \in Remembered(jsonl') \union forgotten'
  BY <1>1, <1>2, <1>5 DEF KeysInv
<1>9. \A e \in covered' : \E f \in sent' \union lost' : Same(e, f)
  BY <1>1, <1>2 DEF NothingOverlooked
<1>10. UNCHANGED <<kind, logs, app>> /\ covered' = covered /\ sent' \subseteq Line /\ lost' \subseteq Line
       /\ jsonl' \in Seq(Line) /\ faults' \in Nat
  BY <1>2, <1>3, <1>4
<1>11. QED
  BY <1>5, <1>6, <1>7, <1>8, <1>9, <1>10, StepKeeps

(***************************************************************************)
(* The inductive invariant                                                 *)
(***************************************************************************)

LEMMA InitIInv ==
    ASSUME Init
    PROVE  IInv
<1>1. /\ kind \in Kinds /\ log = [f \in {1, 2} |-> <<>>] /\ present = {} /\ written = 0 /\ jsonl = <<>> /\ run = Idle
      /\ sent = {} /\ covered = {} /\ lost = {} /\ forgotten = {} /\ faults = 0
      /\ req = [r \in Req |-> NewRequest] /\ sink = 0
  BY DEF Init, EventInit
<1>2. layout \in Path
  <2>1. layout \in Layouts
    BY ReceiptsAssumption DEF Init
  <2>2. QED
    BY <2>1, ReceiptsAssumption
<1>3. NewRequest \in Request /\ NewRequest.pc = "new"
  BY DEF NewRequest, Request, Untagged
<1>4. TypeOK
  <2>1. run \in RunSet
    BY <1>1, IdleIs
  <2>2. req \in [Req -> Request]
    BY <1>1, <1>3
  <2>3. QED
    BY <1>1, <1>2, <2>1, <2>2 DEF TypeOK, RunSet
<1>5. ToSet(<<>>) = {}
  BY DEF ToSet
<1>6. Batch = {} /\ Shipped = {} /\ Whole(jsonl) = {} /\ run.looked = {}
  BY <1>1, <1>5, IdleIs DEF Batch, Shipped, Whole
<1>7. PlaceInv
  BY <1>1, IdleIs DEF PlaceInv
<1>8. LookedInv /\ KeysInv /\ NothingOverlooked
  BY <1>1, <1>6 DEF LookedInv, KeysInv, NothingOverlooked
<1>9. RequestsInv
  <2>1. Logged = {}
    BY <1>1, <1>5 DEF Logged
  <2>2. \A r \in Req : req[r].pc = "new"
    BY <1>1, <1>3
  <2>3. QED
    BY <1>6, <2>1, <2>2 DEF RequestsInv
<1>10. QED
  BY <1>4, <1>7, <1>8, <1>9 DEF IInv

\* The daemons write lines of the kinds there are.
LEMMA WrittenLines ==
    (CASE kind = "ssh" -> {"failed", "preauth", Huge}
       [] kind = "fail2ban" -> {"ban", "unban", Noise}
       [] OTHER -> {"request", Noise, Huge}) \subseteq Whats
<1>1. CASE kind = "ssh"
  BY <1>1 DEF Whats
<1>2. CASE kind = "fail2ban"
  BY <1>2 DEF Whats
<1>3. CASE kind # "ssh" /\ kind # "fail2ban"
  BY <1>3 DEF Whats
<1>4. QED
  BY <1>1, <1>2, <1>3

LEMMA NextIInv ==
    ASSUME IInv, [Next]_vars
    PROVE  IInv'
<1>1. CASE NewFileSink \/ CloseSink \/ Chmod
  BY <1>1, QuietKeeps
<1>2. CASE Rename
  BY <1>2, RenameKeeps
<1>3. CASE \E r \in Req : Tag(r) \/ BaseReturns(r) \/ Record(r)
  BY <1>3, TagKeeps, BaseReturnsKeeps, RecordKeeps
<1>4. CASE Collect
  <2>1. CASE Start(IF kind = "http_outcome" THEN <<1, 2>> ELSE <<1>>) /\ UNCHANGED app
    <3> DEFINE files == IF kind = "http_outcome" THEN <<1, 2>> ELSE <<1>>
    <3>1. files \in Seq({1, 2}) /\ (kind # "http_outcome" => Tail(files) = <<>>)
      <4>1. <<1, 2>> \in Seq({1, 2}) /\ <<1>> \in Seq({1, 2}) /\ Tail(<<1>>) = <<>>
        OBVIOUS
      <4>2. CASE kind = "http_outcome"
        BY <4>1, <4>2
      <4>3. CASE kind # "http_outcome"
        BY <4>1, <4>3
      <4>4. QED
        BY <4>2, <4>3
    <3>2. Start(files) /\ UNCHANGED app
      BY <2>1
    <3> HIDE DEF files
    <3>3. QED
      BY <3>1, <3>2, StartKeeps
  <2>2. CASE \E f \in {1, 2} : ReadFile(f, mayRead(f), TailEvents(f)) /\ UNCHANGED app
    BY <2>2, ReadFileKeeps
  <2>3. QED
    BY <1>4, <2>1, <2>2 DEF Collect
<1>5. CASE (AppendJSONL \/ AppendFails \/ Rotate \/ RotateFails \/ Return \/ Crash) /\ UNCHANGED app
  BY <1>5, AppendJSONLKeeps, AppendFailsKeeps, RotateKeeps, RotateFailsKeeps, ReturnKeeps, CrashKeeps
<1>6. CASE DaemonWrites(CASE kind = "ssh" -> {"failed", "preauth", Huge}
                          [] kind = "fail2ban" -> {"ban", "unban", Noise}
                          [] OTHER -> {"request", Noise, Huge},
                        IF kind = "nginx" THEN {NoId, BadId, 1} ELSE {NoId}) /\ UNCHANGED app
  <2> DEFINE whats == CASE kind = "ssh" -> {"failed", "preauth", Huge}
                        [] kind = "fail2ban" -> {"ban", "unban", Noise}
                        [] OTHER -> {"request", Noise, Huge}
             ids == IF kind = "nginx" THEN {NoId, BadId, 1} ELSE {NoId}
  <2>1. whats \subseteq Whats
    BY WrittenLines
  <2>2. ids \subseteq Int
    BY DEF NoId, BadId
  <2>3. DaemonWrites(whats, ids) /\ UNCHANGED app
    BY <1>6
  <2> HIDE DEF whats, ids
  <2>4. QED
    BY <2>1, <2>2, <2>3, DaemonWritesKeeps
<1>7. CASE UNCHANGED vars
  <2>1. UNCHANGED <<kind, logs, jsonl, run, outcome, faults, req, sink, layout>>
    BY <1>7 DEF vars, eventVars, app
  <2>2. TypeOK'
    BY <2>1 DEF IInv, TypeOK, logs, outcome
  <2>3. RequestsInv'
    BY <2>1, RequestsStay DEF logs
  <2>4. QED
    BY <2>1, <2>2, <2>3, WorldKeeps
<1>8. QED
  BY <1>1, <1>2, <1>3, <1>4, <1>5, <1>6, <1>7 DEF Next

\* The inductive invariant of the log collectors and the receipts holds in every
\* reachable state (collector/jsonl.go, collector/vps/httpoutcome).
THEOREM Invariance == Spec => []IInv
<1>1. Init => IInv
  BY InitIInv
<1>2. IInv /\ [Next]_vars => IInv'
  BY NextIInv
<1>3. QED
  BY <1>1, <1>2, PTL DEF Spec

\* No event that a successful Run has looked at is overlooked: it was returned, or it is
\* among those a failed write or rename, or a crash, made the collector remember unsent
\* (jsonl.go:110-125).
THEOREM EventsReturned == Spec => []NothingOverlooked
<1>1. IInv => NothingOverlooked
  BY DEF IInv
<1>2. QED
  BY <1>1, Invariance, PTL

(***************************************************************************)
(* Events once, and accepted receipts                                      *)
(***************************************************************************)

LEMMA FreshAgain ==
    ASSUME IInv, [Next]_vars, run.pc = "file", run'.pc = "append",
           NEW k \in 1 .. Len(run'.fresh), NEW e \in sent \union ToSet(run.events), Key(e) = Key(run'.fresh[k])
    PROVE  \/ Key(run'.fresh[k]) \in forgotten
           \/ Key(run'.fresh[k]) \in Remembered(jsonl) /\ faults' # faults
<1>1. TypeOK /\ KeysInv
  BY DEF IInv
<1>2. UNCHANGED run => FALSE
  OBVIOUS
<1>3. PICK f \in {1, 2} : ReadFile(f, mayRead(f), TailEvents(f))
  <2>1. ~UNCHANGED vars
    BY <1>2 DEF vars, eventVars
  <2>2. ~(NewFileSink \/ CloseSink \/ Chmod \/ Rename)
    BY <1>2 DEF NewFileSink, CloseSink, Chmod, Rename, eventVars
  <2>3. ~\E r \in Req : Tag(r) \/ BaseReturns(r) \/ Record(r)
    BY <1>2 DEF Tag, BaseReturns, Record, eventVars
  <2>4. ~\E whats, ids : DaemonWrites(whats, ids)
    BY <1>2 DEF DaemonWrites
  <2>5. ~\E files : Start(files)
    BY DEF Start
  <2>6. ~(AppendJSONL \/ AppendFails \/ Rotate \/ RotateFails)
    BY DEF AppendJSONL, AppendFails, Rotate, RotateFails
  <2>7. ~(Return \/ Crash)
    BY IdleIs DEF Return, Crash
  <2>8. Collect
    BY <2>1, <2>2, <2>3, <2>4, <2>6, <2>7 DEF Next
  <2>9. QED
    BY <2>5, <2>8 DEF Collect
<1> DEFINE parsed == TailEvents(f)
           trusted == mayRead(f)
           looked == run.looked \union ToSet(parsed)
<1>4. ReadFile(f, trusted, parsed) /\ parsed \in Seq(Line)
  BY <1>1, <1>3, TailEventsAre
<1> HIDE DEF parsed, trusted
<1>5. run.todo # <<>> /\ run \in RunSet
  <2>1. run.todo # <<>>
    BY <1>1, <1>4, ReadFileIs
  <2>2. run \in RunSet
    BY <1>1 DEF TypeOK, RunSet
  <2>3. QED
    BY <2>1, <2>2
<1>6. Skipped.pc # "append"
  BY <1>1, <1>5, IdleIs, SkippedIs
<1>7. PICK seen \in SUBSET Remembered(jsonl) :
        (faults' = faults => seen = Remembered(jsonl)) /\ ReadKnowing(seen, f, trusted, parsed)
  BY <1>1, <1>4, ReadFileIs
<1> DEFINE fresh == ParseTail(seen, parsed)
<1>8. run'.fresh = fresh
  <2>1. run' = IF ~trusted \/ ~Readable(f) THEN Skipped
               ELSE IF fresh = <<>> THEN [run EXCEPT !.todo = Tail(@), !.looked = looked]
               ELSE [run EXCEPT !.pc = "append", !.fresh = fresh, !.looked = looked]
    BY <1>7 DEF ReadKnowing
  <2> HIDE DEF looked, fresh
  <2>2. run' = [run EXCEPT !.todo = Tail(@), !.looked = looked] => run'.pc = run.pc
    BY <1>5 DEF RunSet
  <2>3. run' = [run EXCEPT !.pc = "append", !.fresh = fresh, !.looked = looked]
    BY <1>6, <2>1, <2>2
  <2>4. QED
    BY <1>5, <2>3 DEF RunSet
<1>9. fresh \in Seq(Line) /\ \A g \in ToSet(fresh) : Key(g) \notin seen
  BY <1>4, ParseTailIs
<1> HIDE DEF fresh
<1>10. fresh[k] \in ToSet(fresh)
  BY <1>8, <1>9 DEF ToSet
<1>11. faults' = faults => Key(e) \notin Remembered(jsonl)
  BY <1>7, <1>8, <1>9, <1>10
<1>12. e \in Shipped
  BY DEF Shipped
<1>13. QED
  BY <1>1, <1>11, <1>12 DEF KeysInv

\* An event whose key was returned is read as a new one only if the key was forgotten,
\* since the file was renamed or the record is behind a torn one, or by a Run that could
\* not read the JSONL file to its end (jsonl.go:26-74).
THEOREM ReadOnce == Spec => AgainOnlyIfForgotten
<1>1. IInv /\ [Next]_vars =>
        [run.pc = "file" /\ run'.pc = "append" =>
           \A k \in 1 .. Len(run'.fresh) :
               (\E e \in sent \union ToSet(run.events) : Key(e) = Key(run'.fresh[k]))
               => \/ Key(run'.fresh[k]) \in forgotten
                  \/ Key(run'.fresh[k]) \in Remembered(jsonl) /\ faults' # faults]_vars
  BY FreshAgain
<1>2. QED
  BY <1>1, Invariance, PTL DEF Spec, AgainOnlyIfForgotten

LEMMA ElementIn ==
    ASSUME NEW s \in Seq(Line), NEW k \in 1 .. Len(s)
    PROVE  s[k] \in ToSet(s)
<1>1. k \in DOMAIN s
  OBVIOUS
<1>2. QED
  BY <1>1 DEF ToSet

LEMMA ReceiptLogged ==
    ASSUME NEW f \in {1, 2}, NEW l \in ToSet(log[f]), l.what = "receipt"
    PROVE  l \in Logged
<1>1. l \in {m \in ToSet(log[f]) : m.what = "receipt"}
  OBVIOUS
<1>2. QED
  BY <1>1 DEF Logged

LEMMA OutcomesAllowed ==
    ASSUME NEW s
    PROVE  allowedOutcome(Classify(s))
<1> DEFINE expected == <<s.operation, s.method, s.status>> \in
                         {<<"ensure_collection", "MKCOL", 405>>, <<"path_exists", "PROPFIND", 404>>}
           failed == <<s.operation, s.method, s.status>> \in
                       ({"fetch_file"} \X {"GET", "HEAD"} \X {404}) \union {<<"preview_file", "GET", 404>>}
<1>1. Classify(s) = IF s.status \in 200 .. 299 THEN "success"
                    ELSE IF expected THEN "expected" ELSE IF failed THEN "integration_error" ELSE "other"
  BY DEF Classify
<1> HIDE DEF expected, failed
<1>2. QED
  BY <1>1 DEF allowedOutcome

\* Every receipt that Transport records for a method and a status that HTTP knows, and
\* any other method that is neither empty, padded nor long, is one that ParseReceiptLine
\* accepts (httpoutcome.go:137-186, :236-244).
THEOREM RecordedAreAccepted == Spec => []ReceiptsAccepted
<1>1. IInv => ReceiptsAccepted
  <2> SUFFICES ASSUME IInv, kind = "http_outcome", NEW f \in {1, 2}, NEW k \in 1 .. Len(log[f]),
                      log[f][k].what = "receipt",
                      goodMethod(req[log[f][k].op].shape.method), req[log[f][k].op].shape.status \in 100 .. 599
               PROVE  ParseReceiptLine(log[f][k]) = <<log[f][k]>>
    BY ZenonT(60) DEF ReceiptsAccepted
  <2> DEFINE l == log[f][k]
             s == req[l.op].shape
  <2>1. log[f] \in Seq(Line)
    BY DEF IInv, TypeOK
  <2>2. l \in Logged
    BY <2>1, ElementIn, ReceiptLogged
  <2>3. allowedOperation(s.operation)
    BY <2>2 DEF IInv, RequestsInv
  <2>4. allowedOutcome(Classify(s))
    BY OutcomesAllowed
  <2>5. ValidateReceipt(Receipt(l.op))
    BY <2>3, <2>4 DEF ValidateReceipt, Receipt
  <2>6. QED
    BY <2>5 DEF ParseReceiptLine
<1>2. QED
  BY <1>1, Invariance, PTL

=============================================================================
