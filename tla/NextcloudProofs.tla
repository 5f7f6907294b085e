---------------------------- MODULE NextcloudProofs ----------------------------
(***************************************************************************)
(* Proofs about NextcloudTail: no event twice, the local copy exact, no log *)
(* starved and none skipped, for any number of lines, rotations, faults and *)
(* any size of fingerprints, events, reports and of the local file.         *)
(***************************************************************************)
EXTENDS NextcloudTail, SequenceTheorems, FiniteSetTheorems, WellFoundedInduction, TLAPS

(***************************************************************************)
(* Induction over the natural numbers, for sets                            *)
(***************************************************************************)

\* A set of natural numbers has a least element.
LEMMA LeastNumber ==
    ASSUME NEW S, S \subseteq Nat, S # {}
    PROVE  \E m \in S : \A k \in S : m <= k
<1>1. PICK R : IsWellFoundedOn(R, Nat) /\ \A i, j \in Nat : i < j => <<i, j>> \in R
  <2>1. \A i, j \in Nat : i < j => <<i, j>> \in OpToRel(<, Nat)
    BY DEF OpToRel
  <2>2. QED
    BY <2>1, NatLessThanWellFounded, Zenon
<1>2. IsWellFoundedOn(R, Nat)
  BY <1>1
<1>3. \E m \in S : \A k \in S : ~(<<k, m>> \in R)
  BY <1>2, WFMin
<1>4. PICK m \in S : \A k \in S : ~(<<k, m>> \in R)
  BY <1>3
<1>5. \A k \in S : ~(k < m)
  BY <1>1, <1>4, Zenon
<1>6. QED
  BY <1>5

\* A set that holds a and with every number below b the next one holds all of a .. b.
LEMMA IntervalInduction ==
    ASSUME NEW a \in Nat, NEW b \in Nat, NEW S,
           a \in S, \A n \in a .. b - 1 : n \in S => n + 1 \in S
    PROVE  a .. b \subseteq S
<1>1. SUFFICES ASSUME ~(a .. b \subseteq S) PROVE FALSE
  OBVIOUS
<1>2. (a .. b) \ S \subseteq Nat /\ (a .. b) \ S # {}
  BY <1>1
<1>3. PICK m \in (a .. b) \ S : \A k \in (a .. b) \ S : m <= k
  BY <1>2, LeastNumber
<1>4. m # a /\ m - 1 \in a .. b - 1
  BY <1>3
<1>5. m - 1 \in S
  BY <1>3, <1>4
<1>6. QED
  BY <1>3, <1>4, <1>5

(***************************************************************************)
(* Lines                                                                   *)
(***************************************************************************)

LEMMA Constants == maxResult \in Nat \ {0} /\ HeadLines \in Nat \ {0} /\ MaxLines \in Nat /\ Number \subseteq Nat
BY NextcloudAssumption DEF Number

LEMMA MatchesIs ==
    ASSUME NEW S, NEW head \in Seq(S), NEW lines \in Seq(S)
    PROVE  matches(head, lines) <=> Len(head) <= Len(lines) /\ \A i \in 1 .. Len(head) : head[i] = lines[i]
<1>1. CASE Len(head) <= Len(lines)
  <2>1. SubSeq(lines, 1, Len(head)) \in Seq(S) /\ Len(SubSeq(lines, 1, Len(head))) = Len(head)
    BY <1>1
  <2>2. \A i \in 1 .. Len(head) : SubSeq(lines, 1, Len(head))[i] = lines[i]
    BY <1>1
  <2>3. ASSUME \A i \in 1 .. Len(head) : head[i] = lines[i] PROVE SubSeq(lines, 1, Len(head)) = head
    BY <2>1, <2>2, <2>3, SeqEqual
  <2>4. QED
    BY <1>1, <2>2, <2>3 DEF matches
<1>2. CASE ~(Len(head) <= Len(lines))
  BY <1>2 DEF matches
<1>3. QED
  BY <1>1, <1>2

LEMMA ReadHeadIs ==
    ASSUME NEW S, NEW lines \in Seq(S)
    PROVE  /\ readHead(lines) \in Seq(S)
           /\ Len(readHead(lines)) <= Len(lines)
           /\ Len(lines) >= HeadLines => Len(readHead(lines)) = HeadLines
           /\ \A i \in 1 .. Len(readHead(lines)) : readHead(lines)[i] = lines[i]
           /\ readHead(lines) = <<>> <=> lines = <<>>
           /\ matches(readHead(lines), lines)
<1> DEFINE m == IF Len(lines) < HeadLines THEN Len(lines) ELSE HeadLines
<1>1. m \in Nat /\ m <= Len(lines) /\ (m = 0 <=> Len(lines) = 0) /\ (Len(lines) >= HeadLines => m = HeadLines)
  BY Constants
<1>2. readHead(lines) = SubSeq(lines, 1, m)
  BY DEF readHead
<1> HIDE DEF m
<1>3. /\ readHead(lines) \in Seq(S) /\ Len(readHead(lines)) = m
      /\ \A i \in 1 .. m : readHead(lines)[i] = lines[i]
  BY <1>1, <1>2
<1>4. readHead(lines) = <<>> <=> lines = <<>>
  BY <1>1, <1>3, EmptySeq
<1>5. QED
  BY <1>1, <1>3, <1>4, MatchesIs

LEMMA ToSetIs == \A S : \A s \in Seq(S) : ToSet(s) = {s[k] : k \in 1 .. Len(s)} /\ ToSet(s) \subseteq S
BY DEF ToSet

LEMMA ToSetAppend ==
    ASSUME NEW S, NEW s \in Seq(S), NEW e \in S
    PROVE  ToSet(Append(s, e)) = ToSet(s) \union {e}
<1>1. Append(s, e) \in Seq(S) /\ Len(Append(s, e)) = Len(s) + 1 /\ Append(s, e)[Len(s) + 1] = e
  OBVIOUS
<1>2. \A k \in 1 .. Len(s) : Append(s, e)[k] = s[k]
  OBVIOUS
<1>3. ToSet(Append(s, e)) = {Append(s, e)[k] : k \in 1 .. Len(s) + 1} /\ ToSet(s) = {s[k] : k \in 1 .. Len(s)}
  BY <1>1, ToSetIs
<1> DEFINE t == Append(s, e)
<1> HIDE DEF t
<1>4. {t[k] : k \in 1 .. Len(s) + 1} = {t[k] : k \in 1 .. Len(s)} \union {t[Len(s) + 1]}
  OBVIOUS
<1>5. QED
  BY <1>1, <1>2, <1>3, <1>4 DEF t

LEMMA NumbersIs ==
    ASSUME NEW S, NEW s \in Seq(S)
    PROVE  Numbers(s) = {s[k].n : k \in 1 .. Len(s)}
BY ToSetIs DEF Numbers

LEMMA Injective ==
    ASSUME NEW S, NEW s \in Seq(S)
    PROVE  IsInjective(s) <=> \A i, j \in 1 .. Len(s) : s[i] = s[j] => i = j
BY DEF IsInjective

LEMMA InjectiveAppend ==
    ASSUME NEW S, NEW s \in Seq(S), NEW e \in S, IsInjective(s), e \notin ToSet(s)
    PROVE  IsInjective(Append(s, e))
<1> DEFINE t == Append(s, e)
<1>1. t \in Seq(S) /\ Len(t) = Len(s) + 1 /\ t[Len(s) + 1] = e /\ \A k \in 1 .. Len(s) : t[k] = s[k]
  OBVIOUS
<1>2. \A k \in 1 .. Len(s) : s[k] # e
  BY ToSetIs
<1>3. \A i, j \in 1 .. Len(s) : s[i] = s[j] => i = j
  BY Injective
<1> HIDE DEF t
<1>4. \A k \in 1 .. Len(t) : k \in 1 .. Len(s) \/ k = Len(s) + 1
  BY <1>1
<1>5. \A i, j \in 1 .. Len(t) : t[i] = t[j] => i = j
  BY <1>1, <1>2, <1>3, <1>4
<1>6. QED
  BY <1>1, <1>5, Injective DEF t

LEMMA ToSetConcat ==
    ASSUME NEW S, NEW s \in Seq(S), NEW t \in Seq(S)
    PROVE  ToSet(s \o t) = ToSet(s) \union ToSet(t)
<1> DEFINE u == s \o t
<1>1. u \in Seq(S) /\ Len(u) = Len(s) + Len(t)
  OBVIOUS
<1>2. /\ \A k \in 1 .. Len(s) : u[k] = s[k]
      /\ \A k \in 1 .. Len(t) : u[Len(s) + k] = t[k]
  OBVIOUS
<1> HIDE DEF u
<1>3. /\ \A k \in 1 .. Len(u) : k \in 1 .. Len(s) \/ k - Len(s) \in 1 .. Len(t)
      /\ \A k \in 1 .. Len(s) : k \in 1 .. Len(u)
      /\ \A k \in 1 .. Len(t) : Len(s) + k \in 1 .. Len(u)
  BY <1>1
<1>4. \A k \in 1 .. Len(u) : k = Len(s) + (k - Len(s))
  BY <1>1
<1>5. ASSUME NEW x \in ToSet(u) PROVE x \in ToSet(s) \union ToSet(t)
  <2>1. PICK k \in 1 .. Len(u) : x = u[k]
    BY <1>1, ToSetIs
  <2>2. CASE k \in 1 .. Len(s)
    BY <2>1, <2>2, <1>2, ToSetIs
  <2>3. CASE k - Len(s) \in 1 .. Len(t)
    <3>1. u[k] = t[k - Len(s)]
      BY <2>3, <1>2, <1>4
    <3>2. QED
      BY <2>1, <2>3, <3>1, ToSetIs
  <2>4. QED
    BY <2>2, <2>3, <1>3
<1>6. ToSet(u) = {u[k] : k \in 1 .. Len(u)}
  BY <1>1, ToSetIs
<1>7. ASSUME NEW x \in ToSet(s) PROVE x \in ToSet(u)
  <2>1. PICK k \in 1 .. Len(s) : x = s[k]
    BY ToSetIs
  <2>2. x = u[k] /\ k \in 1 .. Len(u)
    BY <2>1, <1>2, <1>3
  <2>3. QED
    BY <2>2, <1>6
<1>8. ASSUME NEW x \in ToSet(t) PROVE x \in ToSet(u)
  <2>1. PICK k \in 1 .. Len(t) : x = t[k]
    BY ToSetIs
  <2>2. x = u[Len(s) + k] /\ Len(s) + k \in 1 .. Len(u)
    BY <2>1, <1>2, <1>3
  <2>3. QED
    BY <2>2, <1>6
<1>9. QED
  BY <1>5, <1>7, <1>8 DEF u

LEMMA InjectiveConcat ==
    ASSUME NEW S, NEW s \in Seq(S), NEW t \in Seq(S), IsInjective(s), IsInjective(t),
           ToSet(s) \intersect ToSet(t) = {}
    PROVE  IsInjective(s \o t)
<1> DEFINE u == s \o t
<1>1. u \in Seq(S) /\ Len(u) = Len(s) + Len(t)
  OBVIOUS
<1>2. /\ \A k \in 1 .. Len(s) : u[k] = s[k]
      /\ \A k \in 1 .. Len(t) : u[Len(s) + k] = t[k]
  OBVIOUS
<1> HIDE DEF u
<1>3. \A k \in 1 .. Len(u) : k \in 1 .. Len(s) \/ (k - Len(s) \in 1 .. Len(t) /\ k = Len(s) + (k - Len(s)))
  BY <1>1
<1>4. \A i \in 1 .. Len(s) : \A j \in 1 .. Len(t) : s[i] # t[j]
  BY ToSetIs
<1>5. /\ \A i, j \in 1 .. Len(s) : s[i] = s[j] => i = j
      /\ \A i, j \in 1 .. Len(t) : t[i] = t[j] => i = j
  BY Injective
<1>6. ASSUME NEW i \in 1 .. Len(u), NEW j \in 1 .. Len(u), u[i] = u[j] PROVE i = j
  <2>1. CASE i \in 1 .. Len(s) /\ j \in 1 .. Len(s)
    BY <2>1, <1>2, <1>5, <1>6
  <2>2. CASE i \in 1 .. Len(s) /\ j \notin 1 .. Len(s)
    <3>1. PICK m \in 1 .. Len(t) : j = Len(s) + m
      BY <2>2, <1>3
    <3>2. s[i] = t[m]
      BY <2>2, <3>1, <1>2, <1>6
    <3>3. QED
      BY <2>2, <3>2, <1>4
  <2>3. CASE i \notin 1 .. Len(s) /\ j \in 1 .. Len(s)
    <3>1. PICK m \in 1 .. Len(t) : i = Len(s) + m
      BY <2>3, <1>3
    <3>2. s[j] = t[m]
      BY <2>3, <3>1, <1>2, <1>6
    <3>3. QED
      BY <2>3, <3>2, <1>4
  <2>4. CASE i \notin 1 .. Len(s) /\ j \notin 1 .. Len(s)
    <3>1. PICK m \in 1 .. Len(t) : i = Len(s) + m
      BY <2>4, <1>3
    <3>2. PICK l \in 1 .. Len(t) : j = Len(s) + l
      BY <2>4, <1>3
    <3>3. t[m] = t[l]
      BY <3>1, <3>2, <1>2, <1>6
    <3>4. QED
      BY <3>1, <3>2, <3>3, <1>5
  <2>5. QED
    BY <2>1, <2>2, <2>3, <2>4
<1>7. QED
  BY <1>1, <1>6, Injective DEF u

(***************************************************************************)
(* readFrom                                                                *)
(***************************************************************************)

Acc == [left : Nat, share : Int, taken : Nat, events : Seq(Number), at : Nat, more : BOOLEAN]

\* The numbers of the events that a report can hold among the lines from i + 1 to j.
Some(lines, i, j) == {lines[m].n : m \in {q \in i + 1 .. j : lines[q].size <= maxResult}}

Counted(acc, a) == a.taken - acc.taken = Len(a.events) - Len(acc.events)

\* What a has, read from offset up to line k, beyond acc: which events, each once,
\* everything if there is room for it, and the first one if there is room for one.
ReadOK(lines, offset, acc, k, a) ==
    /\ a \in Acc
    /\ offset <= a.at /\ a.at <= k /\ (~a.more => a.at = k)
    /\ ToSet(a.events) = ToSet(acc.events) \union Some(lines, offset, a.at)
    /\ Counted(acc, a)
    /\ IsInjective(acc.events) /\ Distinct(lines) /\ ToSet(acc.events) \intersect Numbers(lines) = {}
         => IsInjective(a.events)
    /\ acc.share = acc.left /\ acc.left >= maxResult * (Len(lines) - offset)
         => ~a.more /\ a.share = a.left /\ a.left >= acc.left - maxResult * (k - offset)
    /\ acc.taken = 0 /\ acc.left >= maxResult
         => (a.taken = 0 /\ a.events = acc.events => a.left = acc.left /\ ~a.more /\ Some(lines, offset, k) = {})

LEMMA ReadStart ==
    ASSUME NEW lines \in Seq(Line), NEW offset \in 0 .. Len(lines), NEW acc \in Acc
    PROVE  ReadOK(lines, offset, acc, offset, [acc EXCEPT !.at = offset, !.more = FALSE])
<1> DEFINE a == [acc EXCEPT !.at = offset, !.more = FALSE]
<1>1. /\ a \in Acc
      /\ a.at = offset /\ a.more = FALSE /\ a.events = acc.events /\ a.left = acc.left /\ a.share = acc.share
      /\ a.taken = acc.taken
  <2>1. offset \in Nat
    OBVIOUS
  <2>2. QED
    BY <2>1, Zenon DEF Acc
<1>2. Some(lines, offset, offset) = {}
  BY DEF Some
<1>3. maxResult * (offset - offset) = 0
  BY Constants
<1>4. acc.left \in Nat /\ acc.taken \in Nat /\ acc.events \in Seq(Number)
  BY DEF Acc
<1> HIDE DEF a
<1>7. Counted(acc, a)
  BY <1>1, <1>4 DEF Counted
<1>5. ReadOK(lines, offset, acc, offset, a)
  BY <1>1, <1>2, <1>3, <1>4, <1>7 DEF ReadOK
<1>6. QED
  BY <1>5 DEF a

LEMMA SomeNext ==
    ASSUME NEW lines \in Seq(Line), NEW i \in 0 .. Len(lines), NEW k \in i + 1 .. Len(lines)
    PROVE  Some(lines, i, k) = IF lines[k].size > maxResult THEN Some(lines, i, k - 1)
                               ELSE Some(lines, i, k - 1) \union {lines[k].n}
<1>1. \A m : m \in i + 1 .. k <=> m \in i + 1 .. k - 1 \/ m = k
  OBVIOUS
<1>2. lines[k].size \in Nat /\ maxResult \in Nat
  <2>1. lines[k] \in Line
    OBVIOUS
  <2>2. QED
    BY <2>1, Constants DEF Line
<1>3. lines[k].size > maxResult <=> ~(lines[k].size <= maxResult)
  BY <1>2
<1> DEFINE P(m) == lines[m].size <= maxResult
           v(m) == lines[m].n
<1>4. P(k) <=> ~(lines[k].size > maxResult)
  BY <1>3
<1>5. Some(lines, i, k) = {v(m) : m \in {q \in i + 1 .. k : P(q)}}
      /\ Some(lines, i, k - 1) = {v(m) : m \in {q \in i + 1 .. k - 1 : P(q)}}
  BY DEF Some
<1> HIDE DEF P
<1>6. CASE P(k)
  <2>1. \A m : m \in {q \in i + 1 .. k : P(q)} <=> m \in {q \in i + 1 .. k - 1 : P(q)} \/ m = k
    BY <1>1, <1>6
  <2>2. {v(m) : m \in {q \in i + 1 .. k : P(q)}} = {v(m) : m \in {q \in i + 1 .. k - 1 : P(q)}} \union {v(k)}
    BY <2>1
  <2>3. QED
    BY <1>4, <1>5, <1>6, <2>2
<1>7. CASE ~P(k)
  <2>1. {q \in i + 1 .. k : P(q)} = {q \in i + 1 .. k - 1 : P(q)}
    BY <1>1, <1>7
  <2>2. QED
    BY <1>4, <1>5, <1>7, <2>1
<1>8. QED
  BY <1>6, <1>7

LEMMA Spent ==
    \A l, size, all, before, max \in Nat :
        size <= max /\ l >= all - before => l - size >= all - (before + max)
OBVIOUS

LEMMA ReadNext ==
    ASSUME NEW lines \in Seq(Line), NEW offset \in 0 .. Len(lines), NEW acc \in Acc,
           NEW k \in offset + 1 .. Len(lines), NEW a, ReadOK(lines, offset, acc, k - 1, a)
    PROVE  ReadOK(lines, offset, acc, k, readLine(a, lines[k], k))
<1> DEFINE b == readLine(a, lines[k], k)
           line == lines[k]
<1>1. /\ line \in Line /\ line.n \in Number /\ line.size \in Nat
      /\ a \in Acc /\ a.left \in Nat /\ a.share \in Int /\ a.taken \in Nat /\ a.events \in Seq(Number) /\ a.at \in Nat
      /\ a.more \in BOOLEAN
  <2>1. line \in Line
    OBVIOUS
  <2>2. a \in Acc
    BY DEF ReadOK
  <2> HIDE DEF line
  <2>3. QED
    BY <2>1, <2>2 DEF Line, Acc
<1>2. acc.left \in Nat /\ acc.taken \in Nat /\ acc.share \in Int /\ acc.events \in Seq(Number)
  BY DEF Acc
<1>3. k \in Nat /\ k - 1 \in Nat /\ offset \in Nat /\ Len(lines) \in Nat /\ offset <= k - 1
  OBVIOUS
<1>4. Some(lines, offset, k) = IF line.size > maxResult THEN Some(lines, offset, k - 1)
                               ELSE Some(lines, offset, k - 1) \union {line.n}
  BY SomeNext
<1>5. line.n \in Numbers(lines)
  BY NumbersIs
<1> DEFINE before == maxResult * (k - 1 - offset)
           upto == maxResult * (k - offset)
           all == maxResult * (Len(lines) - offset)
<1>6. /\ upto = before + maxResult
      /\ all >= upto
      /\ before \in Nat /\ upto \in Nat /\ all \in Nat
      /\ maxResult \in Nat
  <2>1. maxResult \in Nat
    BY Constants
  <2> DEFINE i == k - 1 - offset
             j == Len(lines) - k
  <2>2. i \in Nat /\ j \in Nat /\ k - offset = i + 1 /\ Len(lines) - offset = (i + 1) + j
    OBVIOUS
  <2> HIDE DEF i, j
  <2>3. maxResult * (i + 1) = maxResult * i + maxResult /\ maxResult * i \in Nat /\ maxResult * j \in Nat
    BY <2>1, <2>2
  <2>4. maxResult * ((i + 1) + j) = maxResult * (i + 1) + maxResult * j
    BY <2>1, <2>2
  <2>5. upto = maxResult * (i + 1) /\ before = maxResult * i
        /\ all = maxResult * ((i + 1) + j)
    BY <2>2 DEF i
  <2> HIDE DEF before, upto, all
  <2> DEFINE p == maxResult * i
             q == maxResult * (i + 1)
             r == maxResult * j
             t == maxResult * ((i + 1) + j)
  <2>6. q = p + maxResult /\ p \in Nat /\ r \in Nat /\ t = q + r
    BY <2>3, <2>4
  <2>7. upto = q /\ before = p /\ all = t
    BY <2>5
  <2> HIDE DEF p, q, r, t
  <2>8. q \in Nat /\ t \in Nat /\ t >= q
    BY <2>1, <2>6
  <2>9. QED
    BY <2>1, <2>6, <2>7, <2>8
<1>7. Distinct(lines) => line.n \notin Some(lines, offset, k - 1)
  <2>1. ASSUME Distinct(lines), NEW m \in offset + 1 .. k - 1 PROVE lines[m].n # line.n
    BY <2>1 DEF Distinct
  <2>2. QED
    BY <2>1 DEF Some
<1> HIDE DEF line, b, before, upto, all
<1>8. CASE a.more
  <2>1. b = a
    BY <1>8 DEF b, readLine, line
  <2>2. /\ ToSet(a.events) = ToSet(acc.events) \union Some(lines, offset, a.at)
        /\ Counted(acc, a)
        /\ offset <= a.at /\ a.at <= k - 1
        /\ IsInjective(acc.events) /\ Distinct(lines) /\ ToSet(acc.events) \intersect Numbers(lines) = {}
              => IsInjective(a.events)
        /\ acc.share = acc.left /\ acc.left >= all => ~a.more
        /\ acc.taken = 0 /\ acc.left >= maxResult => (a.taken = 0 /\ a.events = acc.events => ~a.more)
    BY DEF ReadOK, before, upto, all
  <2>3. a.at <= k
    BY <2>2, <1>1, <1>3
  <2>4. ReadOK(lines, offset, acc, k, a)
    BY <1>1, <1>8, <2>2, <2>3 DEF ReadOK, before, upto, all
  <2>5. QED
    BY <2>1, <2>4 DEF b, line
<1>9. CASE ~a.more
  <2>1. /\ a.at = k - 1
        /\ ToSet(a.events) = ToSet(acc.events) \union Some(lines, offset, k - 1)
        /\ Counted(acc, a)
        /\ IsInjective(acc.events) /\ Distinct(lines) /\ ToSet(acc.events) \intersect Numbers(lines) = {}
              => IsInjective(a.events)
        /\ acc.share = acc.left /\ acc.left >= all
              => a.share = a.left /\ a.left >= acc.left - before
        /\ acc.taken = 0 /\ acc.left >= maxResult
              => (a.taken = 0 /\ a.events = acc.events => a.left = acc.left /\ Some(lines, offset, k - 1) = {})
    BY <1>9 DEF ReadOK, before, upto, all
  <2>2. CASE line.size > maxResult
    <3>1. b = [a EXCEPT !.at = k]
      BY <1>9, <2>2 DEF b, readLine, line
    <3>2. /\ b \in Acc
          /\ b.at = k /\ b.more = a.more /\ b.left = a.left /\ b.share = a.share /\ b.events = a.events /\ b.taken = a.taken
          /\ Counted(acc, b)
      <4>1. /\ b \in Acc
            /\ b.at = k /\ b.more = a.more /\ b.left = a.left /\ b.share = a.share /\ b.events = a.events /\ b.taken = a.taken
        BY <3>1, <1>1, <1>3 DEF Acc
      <4>2. QED
        BY <4>1, <2>1 DEF Counted
    <3>3. Some(lines, offset, k) = Some(lines, offset, k - 1)
      BY <2>2, <1>4
    <3>4. acc.left - before >= acc.left - upto
      BY <1>2, <1>6
    <3>5. acc.share = acc.left /\ acc.left >= all
              => b.share = b.left /\ b.left >= acc.left - upto
      BY <3>2, <3>4, <2>1, <1>1, <1>2, <1>6, SMTT(30)
    <3>6. ReadOK(lines, offset, acc, k, b)
      BY <1>9, <2>1, <3>2, <3>3, <3>5, <1>3 DEF ReadOK, before, upto, all
    <3>7. QED
      BY <3>6 DEF b, line
  <2>3. CASE ~(line.size > maxResult) /\ ~take(a, line.size)
    <3>1. b = [a EXCEPT !.more = TRUE]
      BY <1>9, <2>3 DEF b, readLine, line
    <3>2. /\ b \in Acc
          /\ b.at = k - 1 /\ b.more = TRUE /\ b.left = a.left /\ b.share = a.share /\ b.events = a.events /\ b.taken = a.taken
          /\ Counted(acc, b)
      <4>1. /\ b \in Acc
            /\ b.at = k - 1 /\ b.more = TRUE /\ b.left = a.left /\ b.share = a.share /\ b.events = a.events /\ b.taken = a.taken
        BY <3>1, <2>1, <1>1, <1>3 DEF Acc
      <4>2. QED
        BY <4>1, <2>1 DEF Counted
    <3>3. line.size > a.left \/ (a.taken # 0 /\ line.size > a.share)
      BY <2>3, <1>1 DEF take
    <3>4. ~(acc.share = acc.left /\ acc.left >= all)
      <4>1. SUFFICES ASSUME acc.share = acc.left, acc.left >= all PROVE FALSE
        OBVIOUS
      <4>2. a.share = a.left /\ a.left >= acc.left - before
        BY <2>1, <4>1
      <4>3. a.left >= maxResult
        BY <4>1, <4>2, <1>1, <1>2, <1>6, SMTT(30)
      <4>4. QED
        BY <4>2, <4>3, <3>3, <2>3, <1>1, <1>6
    <3>5. acc.taken = 0 /\ acc.left >= maxResult => ~(a.taken = 0 /\ a.events = acc.events)
      BY <2>1, <2>3, <3>3, <1>1, <1>2, Constants
    <3>6. ReadOK(lines, offset, acc, k, b)
      BY <2>1, <3>2, <3>4, <3>5, <1>3 DEF ReadOK, before, upto, all
    <3>7. QED
      BY <3>6 DEF b, line
  <2>4. CASE ~(line.size > maxResult) /\ take(a, line.size)
    <3>1. line.size <= a.left
      BY <2>4 DEF take
    <3>2. /\ b.at = k /\ b.more = FALSE /\ b.left = a.left - line.size /\ b.share = a.share - line.size
          /\ b.events = Append(a.events, line.n) /\ b.taken = a.taken + 1
          /\ b \in Acc
      <4>1. b = [a EXCEPT !.at = k, !.events = Append(@, line.n),
                          !.left = @ - line.size, !.share = @ - line.size, !.taken = @ + 1]
        BY <1>9, <2>4 DEF b, readLine, line
      <4>2. a.left - line.size \in Nat /\ a.share - line.size \in Int /\ a.taken + 1 \in Nat /\ k \in Nat
            /\ Append(a.events, line.n) \in Seq(Number)
        BY <3>1, <1>1, <1>3, SMTT(30)
      <4> DEFINE e == Append(a.events, line.n)
                 l == a.left - line.size
                 s == a.share - line.size
                 n == a.taken + 1
      <4>3. b = [left |-> l, share |-> s, taken |-> n, events |-> e, at |-> k, more |-> FALSE]
        BY <4>1, <1>1, <1>9 DEF Acc
      <4>4. l \in Nat /\ s \in Int /\ n \in Nat /\ e \in Seq(Number)
        BY <4>2
      <4> HIDE DEF e, l, s, n
      <4>5. QED
        BY <4>3, <4>4, <1>3 DEF Acc, e, l, s, n
    <3>3. ToSet(b.events) = ToSet(a.events) \union {line.n}
      BY <3>2, <1>1, ToSetAppend, SMTT(30)
    <3>4. Some(lines, offset, k) = Some(lines, offset, k - 1) \union {line.n}
      BY <2>4, <1>4
    <3>5. IsInjective(acc.events) /\ Distinct(lines) /\ ToSet(acc.events) \intersect Numbers(lines) = {}
              => IsInjective(b.events)
      <4>1. SUFFICES ASSUME IsInjective(acc.events), Distinct(lines), ToSet(acc.events) \intersect Numbers(lines) = {}
                     PROVE  IsInjective(b.events)
        OBVIOUS
      <4>2. IsInjective(a.events) /\ line.n \notin ToSet(a.events)
        BY <4>1, <2>1, <1>5, <1>7
      <4>3. QED
        BY <4>2, <3>2, <1>1, InjectiveAppend
    <3>6. acc.share = acc.left /\ acc.left >= all
              => b.share = b.left /\ b.left >= acc.left - upto
      <4>1. SUFFICES ASSUME acc.share = acc.left, acc.left >= all
                     PROVE  b.share = b.left /\ b.left >= acc.left - upto
        OBVIOUS
      <4>2. a.share = a.left /\ a.left >= acc.left - before
        BY <2>1, <4>1
      <4>3. b.left = a.left - line.size /\ b.share = a.share - line.size
        BY <3>2
      <4>4. line.size <= maxResult
        BY <2>4, <1>1, <1>6
      <4>5. a.left - line.size >= acc.left - upto
        <5>1. /\ a.left \in Nat /\ line.size \in Nat /\ acc.left \in Nat /\ before \in Nat /\ maxResult \in Nat
              /\ upto = before + maxResult /\ a.left >= acc.left - before
          BY <4>2, <1>1, <1>2, <1>6
        <5>2. QED
          BY <4>4, <5>1, Spent
      <4>6. QED
        BY <4>2, <4>3, <4>5
    <3>7. b.taken # 0 /\ Counted(acc, b)
      <4> DEFINE i == Len(a.events)
                 j == Len(acc.events)
      <4>1. Len(b.events) = i + 1 /\ i \in Nat /\ j \in Nat
        <5>1. Len(Append(a.events, line.n)) = Len(a.events) + 1 /\ Len(a.events) \in Nat
          BY <1>1
        <5>2. Len(acc.events) \in Nat
          BY <1>2
        <5>3. b.events = Append(a.events, line.n)
          BY <3>2
        <5>4. QED
          BY <5>1, <5>2, <5>3
      <4>2. b.taken = a.taken + 1
        BY <3>2
      <4>3. a.taken - acc.taken = i - j
        BY <2>1 DEF Counted
      <4> HIDE DEF i, j
      <4>4. (a.taken + 1) - acc.taken = (i + 1) - j
        <5>1. a.taken \in Nat /\ acc.taken \in Nat
          BY <1>1, <1>2
        <5> DEFINE x == a.taken
                   y == acc.taken
        <5>2. x \in Nat /\ y \in Nat /\ i \in Nat /\ j \in Nat /\ x - y = i - j
          BY <4>1, <4>3, <5>1
        <5> HIDE DEF x, y
        <5>3. (x + 1) - y = (i + 1) - j
          BY <5>2
        <5>4. QED
          BY <5>3 DEF x, y
      <4>5. Counted(acc, b)
        BY <4>1, <4>2, <4>4, ZenonT(40) DEF Counted, j
      <4>6. a.taken + 1 # 0
        BY <1>1
      <4>7. QED
        BY <4>2, <4>5, <4>6
    <3>8. ReadOK(lines, offset, acc, k, b)
      BY <2>1, <3>2, <3>3, <3>4, <3>5, <3>6, <3>7, <1>3 DEF ReadOK, before, upto, all
    <3>9. QED
      BY <3>8 DEF b, line
  <2>5. QED
    BY <2>2, <2>3, <2>4
<1>10. QED
  BY <1>8, <1>9, <1>1

\* The function readFrom is the last value of.
UpTo(lines, offset, acc) ==
    LET upTo[k \in offset .. Len(lines)] ==
          IF k = offset THEN [acc EXCEPT !.at = offset, !.more = FALSE]
                        ELSE readLine(upTo[k - 1], lines[k], k)
    IN  upTo

LEMMA ReadFrom ==
    ASSUME NEW lines \in Seq(Line), NEW offset \in 0 .. Len(lines), NEW acc \in Acc
    PROVE  ReadOK(lines, offset, acc, Len(lines), readFrom(lines, offset, acc))
<1> DEFINE v0 == [acc EXCEPT !.at = offset, !.more = FALSE]
           b == Len(lines)
           Step(g) == [k \in offset .. b |-> IF k = offset THEN v0 ELSE readLine(g[k - 1], lines[k], k)]
           S == {n \in offset .. b : \E g : /\ g = [k \in offset .. n |-> IF k = offset THEN v0 ELSE readLine(g[k - 1], lines[k], k)]
                                            /\ \A k \in offset .. n : ReadOK(lines, offset, acc, k, g[k])}
<1>1. offset \in Nat /\ b \in Nat /\ offset <= b /\ offset \in offset .. b /\ b \in offset .. b
  OBVIOUS
<1>2. ReadOK(lines, offset, acc, offset, v0)
  BY ReadStart
<1>3. ASSUME NEW k \in offset + 1 .. b, NEW a, ReadOK(lines, offset, acc, k - 1, a)
      PROVE  ReadOK(lines, offset, acc, k, readLine(a, lines[k], k))
  BY <1>3, ReadNext
<1> HIDE DEF v0, b
<1>4. offset \in S
  <2> DEFINE g == [k \in offset .. offset |-> v0]
  <2>1. g = [k \in offset .. offset |-> IF k = offset THEN v0 ELSE readLine(g[k - 1], lines[k], k)]
    BY <1>1
  <2>2. \A k \in offset .. offset : ReadOK(lines, offset, acc, k, g[k])
    BY <1>1, <1>2
  <2> HIDE DEF g
  <2>3. QED
    BY <1>1, <2>1, <2>2
<1>5. ASSUME NEW n \in offset .. b - 1, n \in S PROVE n + 1 \in S
  <2>1. PICK g : /\ g = [k \in offset .. n |-> IF k = offset THEN v0 ELSE readLine(g[k - 1], lines[k], k)]
                 /\ \A k \in offset .. n : ReadOK(lines, offset, acc, k, g[k])
    BY <1>5
  <2> DEFINE v == readLine(g[n], lines[n + 1], n + 1)
             h == [k \in offset .. n + 1 |-> IF k = n + 1 THEN v ELSE g[k]]
  <2>2. \A k \in offset .. n : h[k] = g[k] /\ k \in offset .. n + 1 /\ (k # offset => k - 1 \in offset .. n)
    BY <1>1
  <2>3. h[n + 1] = v /\ n + 1 # offset /\ (n + 1) - 1 = n /\ n \in offset .. n /\ n + 1 \in offset + 1 .. b
        /\ n + 1 \in offset .. b
    BY <1>1
  <2>4. \A k \in offset .. n : g[k] = IF k = offset THEN v0 ELSE readLine(g[k - 1], lines[k], k)
    BY <2>1
  <2>5. ReadOK(lines, offset, acc, n + 1, v)
    BY <2>1, <2>3, <1>3
  <2> HIDE DEF h
  <2>6. ASSUME NEW k \in offset .. n + 1
        PROVE  /\ h[k] = IF k = offset THEN v0 ELSE readLine(h[k - 1], lines[k], k)
               /\ ReadOK(lines, offset, acc, k, h[k])
    <3>1. CASE k = n + 1
      <4>1. h[k - 1] = g[n]
        BY <3>1, <2>2, <2>3
      <4>2. QED
        BY <3>1, <4>1, <2>3, <2>5
    <3>2. CASE k # n + 1
      <4>1. k \in offset .. n
        BY <3>2, <1>1
      <4>2. h[k] = g[k] /\ (k # offset => h[k - 1] = g[k - 1])
        BY <4>1, <2>2
      <4>3. QED
        BY <4>1, <4>2, <2>1, <2>4
    <3>3. QED
      BY <3>1, <3>2
  <2>7. h = [k \in offset .. n + 1 |-> h[k]]
    BY DEF h
  <2>8. h = [k \in offset .. n + 1 |-> IF k = offset THEN v0 ELSE readLine(h[k - 1], lines[k], k)]
    BY <2>6, <2>7
  <2>9. QED
    BY <2>3, <2>6, <2>8
<1> HIDE DEF S
<1>6. b \in S
  BY <1>1, <1>4, <1>5, IntervalInduction
<1>7. PICK g : /\ g = Step(g)
               /\ \A k \in offset .. b : ReadOK(lines, offset, acc, k, g[k])
  BY <1>6 DEF S
<1>8. UpTo(lines, offset, acc) = Step(UpTo(lines, offset, acc))
  BY <1>7 DEF UpTo, v0, b
<1> DEFINE u == UpTo(lines, offset, acc)
<1> HIDE DEF u
<1>9. \A k \in offset .. b : u[k] = IF k = offset THEN v0 ELSE readLine(u[k - 1], lines[k], k)
  BY <1>8 DEF u
<1> DEFINE T == {n \in offset .. b : ReadOK(lines, offset, acc, n, u[n])}
<1>10. offset \in T
  BY <1>1, <1>2, <1>9
<1>11. ASSUME NEW n \in offset .. b - 1, n \in T PROVE n + 1 \in T
  <2>1. n + 1 \in offset + 1 .. b /\ n + 1 \in offset .. b /\ n + 1 # offset /\ (n + 1) - 1 = n
    BY <1>1
  <2>2. ReadOK(lines, offset, acc, n, u[n])
    BY <1>11
  <2>3. u[n + 1] = readLine(u[n], lines[n + 1], n + 1)
    BY <2>1, <1>9
  <2>4. ReadOK(lines, offset, acc, n + 1, readLine(u[n], lines[n + 1], n + 1))
    BY <2>1, <2>2, <1>3
  <2>5. QED
    BY <2>1, <2>3, <2>4
<1> HIDE DEF T
<1>12. b \in T
  BY <1>1, <1>10, <1>11, IntervalInduction
<1>13. ReadOK(lines, offset, acc, b, u[b])
  BY <1>12 DEF T
<1>14. readFrom(lines, offset, acc) = u[b]
  BY DEF readFrom, UpTo, u, b
<1>15. QED
  BY <1>13, <1>14 DEF b

(***************************************************************************)
(* readSource                                                              *)
(***************************************************************************)

Files == [cur : Log, prev : Log]

LEMMA FileTypes ==
    ASSUME NEW f \in Files
    PROVE  /\ f.cur.lines \in Seq(Line) /\ f.prev.lines \in Seq(Line)
           /\ f.cur.exists \in BOOLEAN /\ f.prev.exists \in BOOLEAN
           /\ f.cur.ino \in {0} \union Inode /\ f.prev.ino \in {0} \union Inode
BY DEF Files, Log

LEMMA PlaceTypes ==
    ASSUME NEW st \in Place
    PROVE  /\ st.known \in BOOLEAN /\ st.offset \in Nat /\ st.ino \in {0} \union Inode /\ st.head \in Seq(Line)
           /\ st.prev \in OldPlace
           /\ st.prev.known \in BOOLEAN /\ st.prev.offset \in Nat /\ st.prev.ino \in {0} \union Inode
           /\ st.prev.head \in Seq(Line)
BY DEF Place, OldPlace

LEMMA NoPrevIs == NoPrev \in OldPlace /\ ~NoPrev.known /\ NoPrev.head = <<>>
<1>1. <<>> \in Seq(Line) /\ 0 \in {0} \union Inode
  OBVIOUS
<1>2. QED
  BY <1>1 DEF NoPrev, OldPlace

LEMMA SwitchedIs ==
    ASSUME NEW st \in Place, NEW f \in Files
    PROVE  /\ Switched(st, f) \in Place
           /\ Switched(st, f).known = st.known
           /\ Switched(st, f).ino = f.cur.ino
           /\ ~rotated(st, f) => /\ Switched(st, f).offset = st.offset
                                 /\ Switched(st, f).prev = st.prev
                                 /\ Switched(st, f).head = IF Len(st.head) < HeadLines /\ Len(f.cur.lines) > Len(st.head)
                                                             THEN readHead(f.cur.lines) ELSE st.head
           /\ rotated(st, f) => /\ Switched(st, f).offset = 0
                                /\ Switched(st, f).head = readHead(f.cur.lines)
                                /\ ~(f.prev.exists /\ prevIsOldFile(st, f)) => Switched(st, f).prev = NoPrev
                                /\ f.prev.exists /\ prevIsOldFile(st, f) =>
                                     Switched(st, f).prev =
                                       [known |-> TRUE, offset |-> st.offset, ino |-> f.prev.ino, head |-> st.head]
<1> DEFINE old == f.prev.exists /\ prevIsOldFile(st, f)
           p == IF old THEN [known |-> TRUE, offset |-> st.offset, ino |-> f.prev.ino, head |-> st.head] ELSE NoPrev
           s == IF ~rotated(st, f) THEN st ELSE [st EXCEPT !.offset = 0, !.head = <<>>, !.prev = p]
           h == IF Len(s.head) < HeadLines /\ Len(f.cur.lines) > Len(s.head) THEN readHead(f.cur.lines) ELSE s.head
           w == Switched(st, f)
<1>1. w = [s EXCEPT !.ino = f.cur.ino, !.head = h]
  BY DEF Switched
<1>2. p \in OldPlace
  <2>1. st.offset \in Nat /\ f.prev.ino \in {0} \union Inode /\ st.head \in Seq(Line)
    BY FileTypes, PlaceTypes
  <2>2. [known |-> TRUE, offset |-> st.offset, ino |-> f.prev.ino, head |-> st.head] \in OldPlace
    BY <2>1 DEF OldPlace
  <2>3. QED
    BY <2>2, NoPrevIs
<1>3. p = IF old THEN [known |-> TRUE, offset |-> st.offset, ino |-> f.prev.ino, head |-> st.head] ELSE NoPrev
  OBVIOUS
<1> HIDE DEF p
<1>4. s \in Place /\ s.known = st.known
  <2>1. <<>> \in Seq(Line)
    OBVIOUS
  <2>2. [st EXCEPT !.offset = 0, !.head = <<>>, !.prev = p] \in Place
    BY <1>2, <2>1 DEF Place
  <2>3. [st EXCEPT !.offset = 0, !.head = <<>>, !.prev = p].known = st.known
    BY DEF Place
  <2>4. QED
    BY <2>2, <2>3
<1>5. /\ ~rotated(st, f) => s = st
      /\ rotated(st, f) => s.offset = 0 /\ s.head = <<>> /\ s.prev = p
  BY DEF Place
<1> HIDE DEF s
<1>6. h \in Seq(Line)
  BY <1>4, FileTypes, PlaceTypes, ReadHeadIs
<1>7. f.cur.ino \in {0} \union Inode
  BY FileTypes
<1>8. h = IF Len(s.head) < HeadLines /\ Len(f.cur.lines) > Len(s.head) THEN readHead(f.cur.lines) ELSE s.head
  OBVIOUS
<1> HIDE DEF h, w
<1>9. w \in Place /\ w.known = s.known /\ w.ino = f.cur.ino /\ w.head = h /\ w.offset = s.offset /\ w.prev = s.prev
  BY <1>1, <1>4, <1>6, <1>7 DEF Place
<1>10. rotated(st, f) => h = readHead(f.cur.lines)
  <2>1. SUFFICES ASSUME rotated(st, f) PROVE h = readHead(f.cur.lines)
    OBVIOUS
  <2>2. s.head = <<>> /\ Len(s.head) = 0
    BY <1>5, <2>1
  <2>3. f.cur.lines \in Seq(Line)
    BY FileTypes
  <2>4. CASE f.cur.lines = <<>>
    BY <1>8, <2>2, <2>3, <2>4, ReadHeadIs
  <2>5. CASE f.cur.lines # <<>>
    <3>1. Len(f.cur.lines) > 0
      BY <2>3, <2>5, EmptySeq
    <3>2. QED
      BY <1>8, <2>2, <3>1, Constants
  <2>6. QED
    BY <2>4, <2>5
<1>11. QED
  BY <1>3, <1>4, <1>5, <1>8, <1>9, <1>10 DEF w

\* The rest of the old file is another file than the new one.
LEMMA RestApart ==
    ASSUME NEW src \in Source, NEW last \in Nat, NEW half \in BOOLEAN, NEW f \in Files, LogOK(src, f, last, half), NEW p \in OldPlace, prevValid(p, f),
           src = "app" => p.head # <<>>, p.head # <<>> => ~matches(p.head, f.cur.lines)
    PROVE  Numbers(f.cur.lines) \intersect Numbers(f.prev.lines) = {}
<1>1. SUFFICES ASSUME src = "app", half PROVE FALSE
  BY DEF LogOK
<1>2. matches(f.prev.lines, f.cur.lines) /\ matches(p.head, f.prev.lines)
  BY <1>1 DEF LogOK, prevValid
<1>3. f.cur.lines \in Seq(Line) /\ f.prev.lines \in Seq(Line) /\ p.head \in Seq(Line)
  BY FileTypes DEF OldPlace
<1>4. matches(p.head, f.cur.lines)
  <2> DEFINE c == f.cur.lines
             d == f.prev.lines
             h == p.head
  <2>1. c \in Seq(Line) /\ d \in Seq(Line) /\ h \in Seq(Line) /\ matches(d, c) /\ matches(h, d)
    BY <1>2, <1>3
  <2> HIDE DEF c, d, h
  <2>2. Len(h) <= Len(d) /\ Len(d) <= Len(c) /\ \A i \in 1 .. Len(h) : h[i] = d[i] /\ \A j \in 1 .. Len(d) : d[j] = c[j]
    BY <2>1, MatchesIs
  <2>3. matches(h, c)
    BY <2>1, <2>2, MatchesIs
  <2>4. QED
    BY <2>3 DEF c, h
<1>5. QED
  BY <1>1, <1>4

LEMMA NumbersReadHead ==
    ASSUME NEW lines \in Seq(Line)
    PROVE  Numbers(readHead(lines)) \subseteq Numbers(lines)
<1> DEFINE h == readHead(lines)
<1>1. h \in Seq(Line) /\ Len(h) <= Len(lines) /\ \A i \in 1 .. Len(h) : h[i] = lines[i]
  BY ReadHeadIs
<1> HIDE DEF h
<1>2. Numbers(h) = {h[k].n : k \in 1 .. Len(h)} /\ Numbers(lines) = {lines[k].n : k \in 1 .. Len(lines)}
  BY <1>1, NumbersIs
<1>3. \A k \in 1 .. Len(h) : k \in 1 .. Len(lines)
  BY <1>1
<1>4. QED
  BY <1>1, <1>2, <1>3 DEF h

LEMMA NothingMatches ==
    ASSUME NEW lines \in Seq(Line), NEW head \in Seq(Line)
    PROVE  /\ head = <<>> => matches(head, lines)
           /\ head # <<>> /\ matches(head, lines) => lines # <<>>
<1>1. head = <<>> => matches(head, lines)
  <2>1. head = <<>> => Len(head) = 0 /\ Len(lines) \in Nat
    OBVIOUS
  <2>2. matches(head, lines) <=> Len(head) <= Len(lines) /\ \A i \in 1 .. Len(head) : head[i] = lines[i]
    BY MatchesIs
  <2>3. QED
    BY <2>1, <2>2
<1>2. head # <<>> => Len(head) > 0
  BY EmptySeq
<1>3. lines = <<>> => Len(lines) = 0
  OBVIOUS
<1>4. matches(head, lines) => Len(head) <= Len(lines)
  BY MatchesIs
<1>5. QED
  BY <1>1, <1>2, <1>3, <1>4

LEMMA NumbersEmpty == Numbers(<<>>) = {}
BY DEF Numbers, ToSet

\* After the look the place belongs to the new file.
LEMMA SwitchedFits ==
    ASSUME NEW st \in Place, NEW f \in Files
    PROVE  /\ matches(Switched(st, f).head, f.cur.lines)
           /\ Switched(st, f).head = <<>> => f.cur.lines = <<>>
           /\ Switched(st, f).offset <= Len(f.cur.lines)
           /\ ~rotated(Switched(st, f), f)
<1> DEFINE s == Switched(st, f)
           c == f.cur.lines
<1>1. c \in Seq(Line) /\ st.head \in Seq(Line) /\ st.offset \in Nat /\ Len(c) \in Nat
  BY FileTypes, PlaceTypes
<1>2. /\ s.ino = f.cur.ino
      /\ ~rotated(st, f) => s.offset = st.offset /\ s.head = IF Len(st.head) < HeadLines /\ Len(c) > Len(st.head)
                                                               THEN readHead(c) ELSE st.head
      /\ rotated(st, f) => s.offset = 0 /\ s.head = readHead(c)
  BY SwitchedIs
<1>3. ~rotated(st, f) => st.offset <= Len(c) /\ matches(st.head, c)
  BY <1>1 DEF rotated
<1>4. matches(readHead(c), c) /\ (readHead(c) = <<>> => c = <<>>)
  BY <1>1, ReadHeadIs
<1>5. matches(s.head, c)
  BY <1>2, <1>3, <1>4
<1>6. s.head = <<>> => c = <<>>
  <2>1. CASE rotated(st, f)
    BY <2>1, <1>2, <1>4
  <2>2. CASE ~rotated(st, f) /\ st.head = <<>> /\ s.head # readHead(c)
    <3>1. Len(st.head) = 0 /\ ~(Len(c) > 0)
      BY <2>2, <1>2, <1>1, Constants
    <3>2. QED
      BY <3>1, <1>1, EmptySeq
  <2>3. CASE ~rotated(st, f) /\ ~(st.head = <<>> /\ s.head # readHead(c))
    BY <2>3, <1>2, <1>4
  <2>4. QED
    BY <2>1, <2>2, <2>3
<1>7. s.offset <= Len(c)
  BY <1>1, <1>2, <1>3
<1>8. ~rotated(s, f)
  <2>1. s.offset \in Nat
    BY <1>1, <1>2
  <2> HIDE DEF s
  <2>2. QED
    BY <1>1, <1>2, <1>5, <1>7, <2>1 DEF rotated
<1>9. QED
  BY <1>5, <1>6, <1>7, <1>8

LEMMA SwitchedSound ==
    ASSUME NEW src \in Source, NEW last \in Nat, NEW half \in BOOLEAN, NEW st \in Place, NEW f \in Files, f.cur.exists, LogOK(src, f, last, half), st.known,
           PlaceOK(src, st, f, last), Recognised(st, f), NEW G, Fresh(st, f, G)
    PROVE  /\ PlaceOK(src, Switched(st, f), f, last)
           /\ Recognised(Switched(st, f), f)
           /\ Fresh(Switched(st, f), f, G)
           /\ prevValid(Switched(st, f).prev, f) => Numbers(f.cur.lines) \intersect Numbers(f.prev.lines) = {}
<1> DEFINE s == Switched(st, f)
           old == f.prev.exists /\ prevIsOldFile(st, f)
           p == [known |-> TRUE, offset |-> st.offset, ino |-> f.prev.ino, head |-> st.head]
<1>1. /\ s \in Place /\ s.ino = f.cur.ino
      /\ ~rotated(st, f) => s.offset = st.offset /\ s.prev = st.prev /\ (s.head = st.head \/ s.head = readHead(f.cur.lines))
      /\ rotated(st, f) => s.offset = 0 /\ s.head = readHead(f.cur.lines)
      /\ rotated(st, f) /\ ~old => s.prev = NoPrev
      /\ rotated(st, f) /\ old => s.prev = p
  BY SwitchedIs
<1>2. matches(s.head, f.cur.lines) /\ (s.head = <<>> => f.cur.lines = <<>>) /\ s.offset <= Len(f.cur.lines) /\ ~rotated(s, f)
  BY SwitchedFits
<1>3. /\ f.cur.lines \in Seq(Line) /\ f.prev.lines \in Seq(Line)
      /\ st.head \in Seq(Line) /\ st.offset \in Nat
      /\ s.offset \in Nat /\ s.prev \in OldPlace
  BY <1>1, FileTypes, PlaceTypes
<1>4. p.known = TRUE /\ p.offset = st.offset /\ p.ino = f.prev.ino /\ p.head = st.head
  OBVIOUS
<1> HIDE DEF s, p, old
<1>5. f.cur.ino # 0 /\ (src = "app" => f.cur.ino = 1)
  BY DEF LogOK
<1>6. src = "app" /\ rotated(st, f) => st.head # <<>>
  <2>1. SUFFICES ASSUME src = "app", st.head = <<>> PROVE ~rotated(st, f)
    OBVIOUS
  <2>2. st.offset = 0 /\ st.ino = 1 /\ matches(st.head, f.cur.lines)
    BY <2>1, <1>3, NothingMatches DEF PlaceOK
  <2>3. ~(Len(f.cur.lines) < 0)
    BY <1>3
  <2>4. QED
    BY <2>1, <2>2, <2>3, <1>5 DEF rotated
<1>7. PlaceOK(src, s, f, last)
  <2>1. \A n \in Numbers(s.head) : n <= last
    <3>1. Numbers(readHead(f.cur.lines)) \subseteq Numbers(f.cur.lines)
      BY <1>3, NumbersReadHead
    <3>2. \A n \in Numbers(f.cur.lines) \union Numbers(st.head) : n <= last
      BY DEF LogOK, PlaceOK
    <3>3. QED
      BY <3>1, <3>2, <1>1
  <2>2. \A n \in Numbers(s.prev.head) : n <= last
    <3>1. \A n \in Numbers(st.head) \union Numbers(st.prev.head) : n <= last
      BY DEF PlaceOK
    <3>2. CASE ~rotated(st, f)
      BY <3>1, <3>2, <1>1
    <3>3. CASE rotated(st, f) /\ old
      BY <3>1, <3>3, <1>1, <1>4
    <3>4. CASE rotated(st, f) /\ ~old
      BY <3>4, <1>1, NoPrevIs, NumbersEmpty
    <3>5. QED
      BY <3>2, <3>3, <3>4
  <2>3. s.head = <<>> => s.offset = 0
    <3>1. f.cur.lines = <<>> => Len(f.cur.lines) = 0
      OBVIOUS
    <3>2. QED
      BY <3>1, <1>2, <1>3
  <2>4. s.prev.known => s.offset = 0
    BY <1>1 DEF PlaceOK
  <2>5. src = "app" /\ s.prev.known => s.prev.head # <<>>
    BY <1>1, <1>4, <1>6, NoPrevIs DEF PlaceOK
  <2>6. QED
    BY <2>1, <2>2, <2>3, <2>4, <2>5, <1>1, <1>5 DEF PlaceOK
<1>8. Recognised(s, f)
  <2>1. s.prev.known /\ s.prev.head # <<>> => ~matches(s.prev.head, f.cur.lines)
    BY <1>1, <1>4, NoPrevIs DEF Recognised
  <2>2. QED
    BY <2>1, <1>2 DEF Recognised
<1>9. Fresh(s, f, G)
  <2>1. ASSUME NEW k \in DOMAIN f.cur.lines, f.cur.lines[k].n \in G PROVE k <= s.offset /\ ~rotated(s, f)
    BY <2>1, <1>1, <1>2 DEF Fresh
  <2>2. ASSUME NEW k \in DOMAIN f.prev.lines, f.prev.lines[k].n \in G, prevValid(s.prev, f) PROVE k <= s.prev.offset
    <3>1. s.prev.known /\ f.prev.exists
      BY <2>2 DEF prevValid
    <3>2. CASE ~rotated(st, f)
      BY <3>2, <2>2, <1>1 DEF Fresh
    <3>3. CASE rotated(st, f)
      <4>1. old
        BY <3>1, <3>3, <1>1, NoPrevIs
      <4>2. k <= st.offset
        BY <2>2, <3>3, <4>1 DEF Fresh, old
      <4>3. QED
        BY <3>3, <4>1, <4>2, <1>1, <1>4
    <3>4. QED
      BY <3>2, <3>3
  <2>3. QED
    BY <2>1, <2>2, <1>2 DEF Fresh
<1>10. ASSUME prevValid(s.prev, f) PROVE Numbers(f.cur.lines) \intersect Numbers(f.prev.lines) = {}
  <2>1. s.prev.known
    BY <1>10 DEF prevValid
  <2>2. src = "app" => s.prev.head # <<>>
    BY <2>1, <1>7 DEF PlaceOK
  <2>3. s.prev.head # <<>> => ~matches(s.prev.head, f.cur.lines)
    BY <2>1, <1>8 DEF Recognised
  <2>4. QED
    BY <2>2, <2>3, <1>3, <1>10, RestApart
<1>11. QED
  BY <1>7, <1>8, <1>9, <1>10 DEF s

\* The rest of the old file, and the new one after it.
Rest(s, f, acc) ==
    IF prevValid(s.prev, f) THEN readFrom(f.prev.lines, s.prev.offset, acc) ELSE [acc EXCEPT !.more = FALSE]

Newer(s, f, acc) == readFrom(f.cur.lines, s.offset, Rest(s, f, acc))

LEMMA RestRead ==
    ASSUME NEW s \in Place, NEW f \in Files, NEW acc \in Acc
    PROVE  /\ Rest(s, f, acc) \in Acc
           /\ prevValid(s.prev, f) =>
                /\ s.prev.offset \in 0 .. Len(f.prev.lines)
                /\ ReadOK(f.prev.lines, s.prev.offset, acc, Len(f.prev.lines), Rest(s, f, acc))
           /\ ~prevValid(s.prev, f) =>
                /\ Rest(s, f, acc).more = FALSE
                /\ Rest(s, f, acc).events = acc.events
                /\ Rest(s, f, acc).left = acc.left
                /\ Rest(s, f, acc).share = acc.share
                /\ Rest(s, f, acc).taken = acc.taken
<1>1. f.prev.lines \in Seq(Line) /\ s.prev.offset \in Nat
  BY FileTypes, PlaceTypes
<1>2. CASE prevValid(s.prev, f)
  <2>1. s.prev.offset \in 0 .. Len(f.prev.lines)
    BY <1>1, <1>2 DEF prevValid
  <2>2. Rest(s, f, acc) = readFrom(f.prev.lines, s.prev.offset, acc)
    BY <1>2 DEF Rest
  <2>3. ReadOK(f.prev.lines, s.prev.offset, acc, Len(f.prev.lines), readFrom(f.prev.lines, s.prev.offset, acc))
    BY <1>1, <2>1, ReadFrom
  <2>4. QED
    BY <1>2, <2>1, <2>2, <2>3 DEF ReadOK
<1>3. CASE ~prevValid(s.prev, f)
  <2> DEFINE a == [acc EXCEPT !.more = FALSE]
  <2>1. a \in Acc /\ a.more = FALSE /\ a.events = acc.events /\ a.left = acc.left /\ a.share = acc.share /\ a.taken = acc.taken
    BY DEF Acc
  <2>2. Rest(s, f, acc) = a
    BY <1>3 DEF Rest
  <2> HIDE DEF a
  <2>3. QED
    BY <1>3, <2>1, <2>2
<1>4. QED
  BY <1>2, <1>3

LEMMA NewerRead ==
    ASSUME NEW s \in Place, NEW f \in Files, NEW acc \in Acc, s.offset <= Len(f.cur.lines)
    PROVE  /\ Newer(s, f, acc) \in Acc
           /\ s.offset \in 0 .. Len(f.cur.lines)
           /\ ReadOK(f.cur.lines, s.offset, Rest(s, f, acc), Len(f.cur.lines), Newer(s, f, acc))
<1>1. f.cur.lines \in Seq(Line) /\ s.offset \in Nat /\ Rest(s, f, acc) \in Acc
  BY FileTypes, PlaceTypes, RestRead
<1>2. s.offset \in 0 .. Len(f.cur.lines)
  BY <1>1
<1>3. ReadOK(f.cur.lines, s.offset, Rest(s, f, acc), Len(f.cur.lines), Newer(s, f, acc))
  BY <1>1, <1>2, ReadFrom DEF Newer
<1>4. QED
  BY <1>2, <1>3 DEF ReadOK

\* The place after the reading has the same file and another offset in it.
Moved(st, s, offset, prev) ==
    /\ st \in Place
    /\ st.known = s.known /\ st.ino = s.ino /\ st.head = s.head
    /\ st.offset = offset /\ st.prev = prev

LEMMA ReadSourceIs ==
    ASSUME NEW st \in Place, NEW f \in Files, NEW acc \in Acc, st.known, f.cur.exists
    PROVE  LET s == Switched(st, f)
               a == Rest(s, f, acc)
               b == Newer(s, f, acc)
               r == readSource(st, f, acc)
               p == [s.prev EXCEPT !.offset = a.at]
           IN  /\ a.more => r.acc = a /\ Moved(r.st, s, s.offset, p) /\ p \in OldPlace
               /\ ~a.more => r.acc = b /\ Moved(r.st, s, b.at, NoPrev)
<1> DEFINE s == Switched(st, f)
           a == Rest(s, f, acc)
           b == Newer(s, f, acc)
           r == readSource(st, f, acc)
           p == [s.prev EXCEPT !.offset = a.at]
<1>1. r = IF a.more THEN [st |-> [s EXCEPT !.prev.offset = a.at], acc |-> a]
          ELSE [st |-> [s EXCEPT !.prev = NoPrev, !.offset = b.at], acc |-> b]
  BY DEF readSource, Rest, Newer
<1>2. s \in Place
  BY SwitchedIs
<1>3. a \in Acc /\ b \in Acc
  <2>1. s.offset <= Len(f.cur.lines)
    BY SwitchedFits
  <2> HIDE DEF s
  <2>2. QED
    BY <1>2, <2>1, RestRead, NewerRead
<1>4. a.at \in Nat /\ b.at \in Nat
  BY <1>3 DEF Acc
<1> HIDE DEF s, a, b, r
<1>5. s.prev \in OldPlace
  BY <1>2, PlaceTypes
<1>6. p \in OldPlace
  BY <1>4, <1>5 DEF OldPlace
<1>7. ASSUME a.more PROVE r.acc = a /\ Moved(r.st, s, s.offset, p)
  <2>1. r.acc = a /\ r.st = [s EXCEPT !.prev.offset = a.at]
    BY <1>1, <1>7
  <2>2. r.st = [s EXCEPT !.prev = p]
    BY <1>2, <2>1 DEF Place
  <2> HIDE DEF p
  <2>3. QED
    BY <1>2, <1>6, <2>1, <2>2 DEF Moved, Place
<1>8. ASSUME ~a.more PROVE r.acc = b /\ Moved(r.st, s, b.at, NoPrev)
  <2>1. r.acc = b /\ r.st = [s EXCEPT !.prev = NoPrev, !.offset = b.at]
    BY <1>1, <1>8
  <2>2. QED
    BY <1>2, <1>4, <2>1, NoPrevIs DEF Moved, Place
<1>9. QED
  BY <1>6, <1>7, <1>8 DEF s, a, b, r

LEMMA SomeIn ==
    ASSUME NEW lines \in Seq(Line), NEW i \in Nat, NEW j \in Nat, j <= Len(lines)
    PROVE  Some(lines, i, j) \subseteq Numbers(lines) \intersect Number
<1>1. Numbers(lines) = {lines[k].n : k \in 1 .. Len(lines)}
  BY NumbersIs
<1>2. ASSUME NEW m \in i + 1 .. j PROVE lines[m].n \in Number /\ m \in 1 .. Len(lines)
  <2>1. m \in 1 .. Len(lines) /\ lines[m] \in Line
    OBVIOUS
  <2>2. QED
    BY <2>1 DEF Line
<1>3. QED
  BY <1>1, <1>2 DEF Some

\* What a line's number says of its place.
LEMMA InSome ==
    ASSUME NEW lines \in Seq(Line), NEW i \in Nat, NEW j \in Nat, j <= Len(lines), Distinct(lines),
           NEW k \in DOMAIN lines
    PROVE  /\ lines[k].n \in Some(lines, i, j) => i < k /\ k <= j
           /\ i < k /\ k <= j => lines[k].n \in Some(lines, i, j) \/ lines[k].size > maxResult
<1>1. k \in 1 .. Len(lines) /\ lines[k] \in Line /\ lines[k].size \in Nat
  <2>1. k \in 1 .. Len(lines) /\ lines[k] \in Line
    OBVIOUS
  <2>2. QED
    BY <2>1 DEF Line
<1>2. ASSUME lines[k].n \in Some(lines, i, j) PROVE i < k /\ k <= j
  <2>1. PICK m \in i + 1 .. j : lines[m].n = lines[k].n
    BY <1>2 DEF Some
  <2>2. m \in DOMAIN lines
    OBVIOUS
  <2>3. m = k
    BY <2>1, <2>2 DEF Distinct
  <2>4. QED
    BY <2>3
<1>3. ASSUME i < k, k <= j, ~(lines[k].size > maxResult) PROVE lines[k].n \in Some(lines, i, j)
  <2>1. k \in i + 1 .. j /\ lines[k].size <= maxResult
    BY <1>1, <1>3, Constants
  <2>2. QED
    BY <2>1 DEF Some
<1>4. QED
  BY <1>2, <1>3

\* What a reading returns: each event once, none that is in G, and a place in the file
\* there is from which none of them is read again.
ReadWell(src, st, f, last, G, r) ==
    /\ r.st \in Place /\ r.acc \in Acc /\ r.st.known
    /\ IsInjective(r.acc.events)
    /\ ToSet(r.acc.events) \subseteq Numbers(f.cur.lines) \union Numbers(f.prev.lines)
    /\ ToSet(r.acc.events) \intersect G = {}
    /\ PlaceOK(src, r.st, f, last) /\ Recognised(r.st, f) /\ Fresh(r.st, f, G \union ToSet(r.acc.events))
    /\ ~rotated(r.st, f)
    /\ r.st.ino = 0 => st.ino = 0
    /\ r.st.head = <<>> => f.cur.lines = <<>>

\* One reading: the events are new, and none of them is behind the place before it or
\* before the place after it.
LEMMA ReadSourceSound ==
    ASSUME NEW src \in Source, NEW last \in Nat, NEW half \in BOOLEAN, NEW st \in Place, NEW f \in Files, NEW acc \in Acc,
           acc.events = <<>>, f.cur.exists, st.known,
           LogOK(src, f, last, half), PlaceOK(src, st, f, last), Recognised(st, f), NEW G, Fresh(st, f, G)
    PROVE  ReadWell(src, st, f, last, G, readSource(st, f, acc))
<1> DEFINE s == Switched(st, f)
           a == Rest(s, f, acc)
           b == Newer(s, f, acc)
           r == readSource(st, f, acc)
           p == [s.prev EXCEPT !.offset = a.at]
           c == f.cur.lines
           d == f.prev.lines
           valid == prevValid(s.prev, f)
<1>1. /\ s \in Place /\ s.known /\ s.ino = f.cur.ino
      /\ matches(s.head, c) /\ (s.head = <<>> => c = <<>>) /\ s.offset <= Len(c) /\ ~rotated(s, f)
  BY SwitchedIs, SwitchedFits
<1>2. PlaceOK(src, s, f, last) /\ Recognised(s, f) /\ Fresh(s, f, G) /\ (valid => Numbers(c) \intersect Numbers(d) = {})
  BY SwitchedSound
<1>3. /\ a.more => r.acc = a /\ Moved(r.st, s, s.offset, p) /\ p \in OldPlace
      /\ ~a.more => r.acc = b /\ Moved(r.st, s, b.at, NoPrev)
  BY ReadSourceIs
<1> HIDE DEF s, r
<1>20. s.ino # 0
  BY <1>1 DEF LogOK
<1>4. /\ a \in Acc
      /\ valid => s.prev.offset \in 0 .. Len(d) /\ ReadOK(d, s.prev.offset, acc, Len(d), a)
      /\ ~valid => a.more = FALSE /\ a.events = acc.events
  BY <1>1, RestRead
<1>5. b \in Acc /\ s.offset \in 0 .. Len(c) /\ ReadOK(c, s.offset, a, Len(c), b)
  BY <1>1, NewerRead
<1>6. c \in Seq(Line) /\ d \in Seq(Line) /\ Distinct(c) /\ Distinct(d) /\ s.prev \in OldPlace /\ s.prev.offset \in Nat
      /\ s.offset \in Nat /\ s.head \in Seq(Line)
  BY <1>1, FileTypes, PlaceTypes DEF LogOK
<1> HIDE DEF a, b, c, d, valid
<1>7. a.at \in Nat /\ b.at \in Nat /\ a.events \in Seq(Number) /\ b.events \in Seq(Number) /\ a.more \in BOOLEAN
  BY <1>4, <1>5 DEF Acc
<1>8. ToSet(acc.events) = {} /\ IsInjective(acc.events)
  BY DEF ToSet, IsInjective
<1> DEFINE A == ToSet(a.events)
           B == ToSet(b.events)
           SA == Some(d, s.prev.offset, a.at)
           SB == Some(c, s.offset, b.at)
<1>9. /\ valid => A = SA /\ SA \subseteq Numbers(d) /\ a.at <= Len(d) /\ s.prev.offset <= a.at
      /\ ~valid => A = {}
      /\ IsInjective(a.events)
  <2>1. CASE valid
    <3>1. A = SA /\ a.at <= Len(d) /\ s.prev.offset <= a.at /\ IsInjective(a.events)
      BY <2>1, <1>4, <1>6, <1>8 DEF ReadOK
    <3>2. SA \subseteq Numbers(d)
      BY <3>1, <1>6, <1>7, SomeIn
    <3>3. QED
      BY <2>1, <3>1, <3>2
  <2>2. CASE ~valid
    BY <2>2, <1>4, <1>8
  <2>3. QED
    BY <2>1, <2>2
<1>10. /\ B = A \union SB /\ SB \subseteq Numbers(c) /\ b.at <= Len(c) /\ s.offset <= b.at
       /\ IsInjective(b.events)
  <2>1. B = A \union SB /\ b.at <= Len(c) /\ s.offset <= b.at
    BY <1>5 DEF ReadOK
  <2>2. SB \subseteq Numbers(c)
    BY <2>1, <1>6, <1>7, SomeIn
  <2>3. A \intersect Numbers(c) = {}
    BY <1>2, <1>9
  <2>4. IsInjective(b.events)
    BY <2>3, <1>5, <1>6, <1>9 DEF ReadOK
  <2>5. QED
    BY <2>1, <2>2, <2>4
<1>11. valid => SA \intersect G = {}
  <2>1. SUFFICES ASSUME valid, NEW n \in SA, n \in G PROVE FALSE
    OBVIOUS
  <2>2. PICK k \in s.prev.offset + 1 .. a.at : d[k].n = n
    BY <2>1 DEF Some
  <2>3. k \in DOMAIN d
    BY <2>1, <1>6, <1>7, <1>9
  <2>4. k <= s.prev.offset
    BY <2>1, <2>2, <2>3, <1>1, <1>2 DEF Fresh, valid, d
  <2>5. QED
    BY <2>2, <2>4, <1>6
<1>12. SB \intersect G = {}
  <2>1. SUFFICES ASSUME NEW n \in SB, n \in G PROVE FALSE
    OBVIOUS
  <2>2. PICK k \in s.offset + 1 .. b.at : c[k].n = n
    BY <2>1 DEF Some
  <2>3. k \in DOMAIN c
    BY <2>1, <1>6, <1>7, <1>10
  <2>4. k <= s.offset
    BY <2>1, <2>2, <2>3, <1>1, <1>2 DEF Fresh, c
  <2>5. QED
    BY <2>2, <2>4, <1>6
<1>13. \A k \in DOMAIN c : c[k].n \in G => k <= s.offset
  BY <1>1, <1>2 DEF Fresh, c
<1>14. \A k \in DOMAIN d : valid /\ d[k].n \in G => k <= s.prev.offset
  BY <1>1, <1>2 DEF Fresh, d, valid
<1>15. \A k \in DOMAIN c : c[k].n \in Numbers(c) /\ k \in Nat
  BY <1>6, NumbersIs
<1>16. \A k \in DOMAIN d : d[k].n \in Numbers(d) /\ k \in Nat
  BY <1>6, NumbersIs
<1> HIDE DEF A, B, SA, SB
<1>17. CASE a.more
  <2>1. valid
    BY <1>17, <1>4
  <2>2. r.acc = a /\ Moved(r.st, s, s.offset, p)
    BY <1>17, <1>3
  <2>3. p.known = s.prev.known /\ p.ino = s.prev.ino /\ p.head = s.prev.head /\ p.offset = a.at
    BY <1>6 DEF OldPlace
  <2> HIDE DEF p
  <2>4. r.st \in Place /\ r.st.known /\ r.st.ino = s.ino /\ r.st.head = s.head /\ r.st.offset = s.offset /\ r.st.prev = p
    BY <2>2, <1>1 DEF Moved
  <2>5. ~rotated(r.st, f)
    BY <2>4, <1>1 DEF rotated
  <2>6. PlaceOK(src, r.st, f, last)
    <3>1. Numbers(r.st.head) = Numbers(s.head) /\ Numbers(r.st.prev.head) = Numbers(s.prev.head)
      BY <2>3, <2>4
    <3>2. \A n \in Numbers(r.st.head) \union Numbers(r.st.prev.head) : n <= last
      BY <3>1, <1>2 DEF PlaceOK
    <3>3. /\ s.head = <<>> => s.offset = 0
          /\ s.prev.known => s.offset = 0
          /\ s.ino = 0 => s.head = <<>> /\ ~s.prev.known
          /\ ~f.cur.exists => s.ino = 0
          /\ src = "app" /\ s.known => s.ino = 1
          /\ src = "app" /\ s.prev.known => s.prev.head # <<>>
      BY <1>2 DEF PlaceOK
    <3>4. QED
      BY <2>3, <2>4, <3>2, <3>3, <1>1 DEF PlaceOK
  <2>7. Recognised(r.st, f)
    BY <2>3, <2>4, <2>5, <1>2 DEF Recognised
  <2>8. ASSUME NEW k \in DOMAIN c, c[k].n \in G \union A PROVE k <= r.st.offset
    BY <2>1, <2>4, <2>8, <1>2, <1>9, <1>13, <1>15
  <2>9. ASSUME NEW k \in DOMAIN d, d[k].n \in G \union A PROVE k <= p.offset
    <3>1. CASE d[k].n \in G
      BY <2>1, <2>3, <3>1, <1>6, <1>7, <1>9, <1>14, <1>16
    <3>2. CASE d[k].n \in A
      BY <2>1, <2>3, <3>2, <1>6, <1>7, <1>9, InSome DEF SA
    <3>3. QED
      BY <2>9, <3>1, <3>2
  <2>10. Fresh(r.st, f, G \union A)
    BY <2>4, <2>5, <2>8, <2>9 DEF Fresh, c, d
  <2>11. A \intersect G = {} /\ A \subseteq Numbers(c) \union Numbers(d)
    BY <2>1, <1>9, <1>11
  <2>12. QED
    BY <2>2, <2>4, <2>5, <2>6, <2>7, <2>10, <2>11, <1>1, <1>4, <1>9, <1>20 DEF A, r, c, d, ReadWell
<1>18. CASE ~a.more
  <2>1. r.acc = b /\ Moved(r.st, s, b.at, NoPrev)
    BY <1>18, <1>3
  <2>2. r.st \in Place /\ r.st.known /\ r.st.ino = s.ino /\ r.st.head = s.head /\ r.st.offset = b.at /\ r.st.prev = NoPrev
    BY <2>1, <1>1 DEF Moved
  <2>3. ~rotated(r.st, f)
    <3>1. ~(Len(f.cur.lines) < b.at)
      BY <1>6, <1>7, <1>10 DEF c
    <3>2. QED
      BY <2>2, <3>1, <1>1 DEF rotated
  <2>4. PlaceOK(src, r.st, f, last)
    <3>1. s.head = <<>> => b.at = 0
      <4>1. c = <<>> => Len(c) = 0
        OBVIOUS
      <4>2. QED
        BY <4>1, <1>1, <1>7, <1>10
    <3>2. QED
      <4>1. Numbers(r.st.head) = Numbers(s.head) /\ Numbers(r.st.prev.head) = {} /\ ~r.st.prev.known
        BY <2>2, NoPrevIs, NumbersEmpty
      <4>2. \A n \in Numbers(r.st.head) \union Numbers(r.st.prev.head) : n <= last
        BY <4>1, <1>2 DEF PlaceOK
      <4>3. /\ s.ino = 0 => s.head = <<>> /\ ~s.prev.known
            /\ ~f.cur.exists => s.ino = 0
            /\ src = "app" /\ s.known => s.ino = 1
        BY <1>2 DEF PlaceOK
      <4>4. QED
        BY <2>2, <3>1, <4>1, <4>2, <4>3, <1>1 DEF PlaceOK
  <2>5. Recognised(r.st, f)
    BY <2>2, <2>3, NoPrevIs DEF Recognised
  <2>6. ASSUME NEW k \in DOMAIN c, c[k].n \in G \union B PROVE k <= r.st.offset
    <3>1. CASE c[k].n \in G
      BY <2>2, <3>1, <1>6, <1>7, <1>10, <1>13, <1>15
    <3>2. CASE c[k].n \in SB
      BY <2>2, <3>2, <1>6, <1>7, <1>10, InSome DEF SB
    <3>3. CASE c[k].n \in A
      BY <3>3, <1>2, <1>9, <1>15
    <3>4. QED
      BY <2>6, <3>1, <3>2, <3>3, <1>10
  <2>7. ~prevValid(NoPrev, f)
    BY NoPrevIs DEF prevValid
  <2>8. Fresh(r.st, f, G \union B)
    BY <2>2, <2>3, <2>6, <2>7 DEF Fresh, c, d
  <2>9. B \intersect G = {} /\ B \subseteq Numbers(c) \union Numbers(d)
    BY <1>9, <1>10, <1>11, <1>12
  <2>10. QED
    BY <2>1, <2>2, <2>3, <2>4, <2>5, <2>8, <2>9, <1>1, <1>5, <1>10, <1>20 DEF B, r, c, d, ReadWell
<1>19. QED
  BY <1>17, <1>18, <1>7

\* The first look: past events are left out.
LEMMA FirstTimeSound ==
    ASSUME NEW src \in Source, NEW last \in Nat, NEW half \in BOOLEAN, NEW f \in Files, LogOK(src, f, last, half), NEW G
    PROVE  /\ FirstTime(f) \in Place /\ FirstTime(f).known
           /\ PlaceOK(src, FirstTime(f), f, last) /\ Recognised(FirstTime(f), f) /\ Fresh(FirstTime(f), f, G)
           /\ ~rotated(FirstTime(f), f)
           /\ FirstTime(f).ino = 0 => ~f.cur.exists
           /\ FirstTime(f).head = <<>> => f.cur.lines = <<>>
<1> DEFINE st == FirstTime(f)
           c == f.cur.lines
           h == IF f.cur.exists THEN readHead(c) ELSE <<>>
           o == IF f.cur.exists THEN Len(c) ELSE 0
           i == IF f.cur.exists THEN f.cur.ino ELSE 0
<1>1. c \in Seq(Line) /\ f.cur.ino \in {0} \union Inode
  BY FileTypes
<1>2. f.cur.exists => f.cur.ino # 0
  BY DEF LogOK
<1>3. /\ src = "app" => f.cur.ino = 1
      /\ ~f.cur.exists => c = <<>>
      /\ ~f.cur.exists => f.cur.ino = 0
  BY FileTypes DEF LogOK
<1>4. h \in Seq(Line) /\ matches(h, c) /\ (h = <<>> => c = <<>>) /\ Numbers(h) \subseteq Numbers(c)
  <2>1. CASE f.cur.exists
    BY <2>1, <1>1, ReadHeadIs, NumbersReadHead
  <2>2. CASE ~f.cur.exists
    <3>1. h = <<>> /\ <<>> \in Seq(Line) /\ c = <<>>
      BY <2>2, <1>3
    <3>2. QED
      BY <3>1, <1>1, NothingMatches
  <2>3. QED
    BY <2>1, <2>2
<1>5. o \in Nat /\ o = Len(c) /\ (h = <<>> => o = 0)
  <2>1. c = <<>> => Len(c) = 0
    OBVIOUS
  <2>2. Len(c) \in Nat
    BY <1>1
  <2>3. QED
    BY <2>1, <2>2, <1>3, <1>4
<1>6. st = [known |-> TRUE, offset |-> o, ino |-> i, head |-> h, prev |-> NoPrev]
  BY DEF FirstTime, NoPlace
<1>7. i \in {0} \union Inode /\ i = f.cur.ino /\ (i = 0 => ~f.cur.exists)
  BY <1>1, <1>2, <1>3
<1> HIDE DEF st, c, h, o, i
<1>8. st \in Place /\ st.known /\ st.offset = o /\ st.ino = i /\ st.head = h /\ st.prev = NoPrev
  BY <1>4, <1>5, <1>6, <1>7, NoPrevIs DEF Place
<1>9. ~rotated(st, f)
  <2>1. ~(Len(f.cur.lines) < st.offset) /\ matches(st.head, f.cur.lines)
    BY <1>1, <1>4, <1>5, <1>8 DEF c
  <2>2. QED
    BY <2>1, <1>7, <1>8 DEF rotated
<1>10. PlaceOK(src, st, f, last)
  <2>1. Numbers(st.head) \subseteq Numbers(c) /\ Numbers(st.prev.head) = {} /\ ~st.prev.known
    BY <1>4, <1>8, NoPrevIs, NumbersEmpty
  <2>2. \A n \in Numbers(c) : n <= last
    BY DEF LogOK, c
  <2>3. \A n \in Numbers(st.head) \union Numbers(st.prev.head) : n <= last
    BY <2>1, <2>2
  <2>4. i = 0 => h = <<>>
    BY <1>7 DEF h
  <2>5. ~f.cur.exists => i = 0
    BY DEF i
  <2>6. QED
    BY <2>1, <2>3, <2>4, <2>5, <1>3, <1>5, <1>7, <1>8 DEF PlaceOK
<1>11. Recognised(st, f)
  BY <1>8, <1>9, NoPrevIs DEF Recognised
<1>12. Fresh(st, f, G)
  <2>1. \A k \in DOMAIN c : k <= st.offset
    BY <1>1, <1>5, <1>8
  <2>2. ~prevValid(st.prev, f)
    BY <1>8, NoPrevIs DEF prevValid
  <2>3. QED
    BY <2>1, <2>2, <1>9 DEF Fresh, c
<1>13. QED
  BY <1>4, <1>7, <1>8, <1>9, <1>10, <1>11, <1>12 DEF st, c

\* A log that is not there yet.
LEMMA NoFileSound ==
    ASSUME NEW src \in Source, NEW last \in Nat, NEW half \in BOOLEAN, NEW st \in Place, NEW f \in Files, NEW acc \in Acc,
           ~f.cur.exists, st.known, LogOK(src, f, last, half), PlaceOK(src, st, f, last), NEW G
    PROVE  LET r == readSource(st, f, acc)
           IN  /\ r.st \in Place /\ r.acc \in Acc /\ r.st.known
               /\ r.acc.events = acc.events /\ r.acc.left = acc.left
               /\ PlaceOK(src, r.st, f, last) /\ Recognised(r.st, f) /\ Fresh(r.st, f, G)
               /\ ~rotated(r.st, f)
               /\ st.ino = 0 /\ f.cur.lines = <<>> /\ f.prev.lines = <<>>
<1> DEFINE r == readSource(st, f, acc)
           a == [acc EXCEPT !.more = FALSE]
           u == [st EXCEPT !.prev = NoPrev]
<1>1. st.ino = 0 /\ st.head = <<>> /\ st.offset = 0 /\ ~st.prev.known
  BY DEF PlaceOK
<1>2. ~prevValid(st.prev, f)
  BY <1>1 DEF prevValid
<1>3. a \in Acc /\ a.more = FALSE /\ a.events = acc.events /\ a.left = acc.left
  BY DEF Acc
<1>4. r.st = u /\ r.acc = a
  BY <1>2, <1>3 DEF readSource
<1>5. u \in Place /\ u.known /\ u.ino = 0 /\ u.head = <<>> /\ u.offset = 0 /\ u.prev = NoPrev
  BY <1>1, NoPrevIs DEF Place
<1> HIDE DEF u, a, r
<1>6. f.cur.lines = <<>> /\ f.prev.lines = <<>> /\ src # "app"
  <2>1. f.cur.ino = 0
    BY DEF LogOK
  <2>2. QED
    BY <2>1 DEF LogOK
<1>7. ~rotated(u, f)
  <2>1. matches(u.head, f.cur.lines) /\ ~(Len(f.cur.lines) < u.offset)
    BY <1>5, FileTypes, PlaceTypes, NothingMatches
  <2>2. QED
    BY <2>1, <1>5 DEF rotated
<1>8. PlaceOK(src, u, f, last)
  BY <1>5, <1>6, NoPrevIs, NumbersEmpty DEF PlaceOK
<1>9. Recognised(u, f)
  BY <1>5, NoPrevIs DEF Recognised
<1>10. Fresh(u, f, G)
  <2>1. DOMAIN f.cur.lines = {} /\ DOMAIN f.prev.lines = {}
    BY <1>6
  <2>2. QED
    BY <2>1 DEF Fresh
<1>11. QED
  BY <1>1, <1>3, <1>4, <1>5, <1>6, <1>7, <1>8, <1>9, <1>10 DEF r

\* Whatever there is to read.
LEMMA ReadSource ==
    ASSUME NEW src \in Source, NEW last \in Nat, NEW half \in BOOLEAN, NEW st \in Place, NEW f \in Files, NEW acc \in Acc,
           acc.events = <<>>,
           LogOK(src, f, last, half), PlaceOK(src, st, f, last), Recognised(st, f), NEW G, Fresh(st, f, G)
    PROVE  ReadWell(src, st, f, last, G, readSource(st, f, acc))
<1> DEFINE r == readSource(st, f, acc)
           E == ToSet(r.acc.events)
<1>1. ToSet(<<>>) = {} /\ IsInjective(<<>>)
  BY DEF ToSet, IsInjective
<1>2. CASE ~st.known
  <2>1. r.st = FirstTime(f) /\ r.acc = acc
    BY <1>2 DEF readSource
  <2> HIDE DEF r
  <2>2. E = {} /\ IsInjective(r.acc.events) /\ G \union E = G
    BY <2>1, <1>1
  <2>3. FirstTime(f).ino = 0 => st.ino = 0
    BY FirstTimeSound DEF PlaceOK
  <2>4. QED
    BY <2>1, <2>2, <2>3, FirstTimeSound DEF r, ReadWell
<1>3. CASE st.known /\ ~f.cur.exists
  <2>1. /\ r.st \in Place /\ r.acc \in Acc /\ r.st.known
        /\ r.acc.events = acc.events
        /\ PlaceOK(src, r.st, f, last) /\ Recognised(r.st, f) /\ Fresh(r.st, f, G)
        /\ ~rotated(r.st, f)
        /\ st.ino = 0 /\ f.cur.lines = <<>>
    BY <1>3, NoFileSound
  <2> HIDE DEF r
  <2>2. E = {} /\ IsInjective(r.acc.events) /\ G \union E = G
    BY <2>1, <1>1
  <2>3. QED
    BY <2>1, <2>2 DEF r, ReadWell
<1>4. CASE st.known /\ f.cur.exists
  BY <1>4, ReadSourceSound
<1>5. QED
  BY <1>2, <1>3, <1>4

(***************************************************************************)
(* Nextcloud and logrotate                                                 *)
(***************************************************************************)

\* What was right of a place stays right when a line is written.
LEMMA Grown ==
    ASSUME NEW lines \in Seq(Line), NEW head \in Seq(Line), NEW line \in Line,
           line.n \notin Numbers(head)
    PROVE  matches(head, Append(lines, line)) <=> matches(head, lines)
<1> DEFINE m == Append(lines, line)
<1>1. m \in Seq(Line) /\ Len(m) = Len(lines) + 1 /\ m[Len(lines) + 1] = line /\ \A k \in 1 .. Len(lines) : m[k] = lines[k]
  OBVIOUS
<1> HIDE DEF m
<1>2. matches(head, lines) <=> Len(head) <= Len(lines) /\ \A i \in 1 .. Len(head) : head[i] = lines[i]
  BY MatchesIs
<1>3. matches(head, m) <=> Len(head) <= Len(m) /\ \A i \in 1 .. Len(head) : head[i] = m[i]
  BY <1>1, MatchesIs
<1>4. Numbers(head) = {head[k].n : k \in 1 .. Len(head)}
  BY NumbersIs
<1>5. Len(head) \in Nat /\ Len(lines) \in Nat
  OBVIOUS
<1>6. ASSUME matches(head, m) PROVE Len(head) <= Len(lines)
  <2>1. SUFFICES ASSUME Len(head) = Len(m) PROVE FALSE
    BY <1>1, <1>3, <1>5, <1>6
  <2>2. Len(m) \in 1 .. Len(head)
    BY <2>1, <1>1, <1>5
  <2>3. head[Len(m)] = line
    BY <2>2, <1>1, <1>3, <1>6
  <2>4. QED
    BY <2>2, <2>3, <1>4
<1>7. ASSUME Len(head) <= Len(lines) PROVE \A i \in 1 .. Len(head) : i \in 1 .. Len(lines)
  BY <1>5, <1>7
<1>8. QED
  BY <1>1, <1>2, <1>3, <1>5, <1>6, <1>7 DEF m

\* The log of one source before and after a line is written to it, it is copied, it
\* is rotated.
Written(f, g, line) ==
    /\ g.prev = f.prev
    /\ g.cur.exists
    /\ g.cur.ino = IF f.cur.exists THEN f.cur.ino ELSE 1
    /\ g.cur.lines = Append(f.cur.lines, line)

CopyMade(f, g) ==
    /\ g.cur = f.cur
    /\ g.prev.exists
    /\ g.prev.lines = f.cur.lines

\* Renamed or truncated: either way what is left of the lines is in prev.
Emptied(src, f, g) ==
    /\ f.cur.exists /\ g.cur.exists
    /\ g.cur.lines = <<>>
    /\ g.cur.ino # 0
    /\ src = "app" => g.cur.ino = 1 /\ matches(g.prev.lines, f.cur.lines)
    /\ src # "app" => g.cur.ino # f.cur.ino /\ g.prev = f.cur
    /\ ~g.prev.exists => g.prev.lines = <<>>

LEMMA WriteKeeps ==
    ASSUME NEW src \in Source, NEW last \in Nat, NEW half \in BOOLEAN, NEW st \in Place, NEW f \in Files, NEW g \in Files, NEW line \in Line, Written(f, g, line), LogOK(src, f, last, half),
           PlaceOK(src, st, f, last), Recognised(st, f), line.n > last
    PROVE  /\ Recognised(st, g)
           /\ f.cur.exists => (rotated(st, g) <=> rotated(st, f)) /\ (prevIsOldFile(st, g) <=> prevIsOldFile(st, f))
           /\ prevValid(st.prev, g) <=> prevValid(st.prev, f)
           /\ ~f.cur.exists => ~rotated(st, g)
           /\ st.ino = 0 \/ f.cur.exists
<1> DEFINE c == f.cur.lines
           d == g.cur.lines
<1>1. /\ c \in Seq(Line) /\ st.head \in Seq(Line) /\ st.prev.head \in Seq(Line) /\ st.offset \in Nat
      /\ line.n \in Number
  BY FileTypes, PlaceTypes DEF Line
<1>2. /\ g.prev = f.prev /\ d = Append(c, line) /\ d \in Seq(Line) /\ Len(d) = Len(c) + 1
      /\ f.cur.exists => g.cur.ino = f.cur.ino
      /\ ~f.cur.exists => g.cur.ino = 1
  <2>1. g.prev = f.prev /\ d = Append(c, line) /\ g.cur.ino = IF f.cur.exists THEN f.cur.ino ELSE 1
    BY DEF Written
  <2> HIDE DEF d, c
  <2>2. Append(c, line) \in Seq(Line) /\ Len(Append(c, line)) = Len(c) + 1
    BY <1>1
  <2>3. QED
    BY <2>1, <2>2
<1>3. line.n \notin Numbers(st.head) /\ line.n \notin Numbers(st.prev.head)
  <2>1. line.n \in Nat
    BY <1>1, Constants
  <2>2. ~(line.n <= last)
    BY <2>1
  <2>3. QED
    BY <2>2 DEF PlaceOK
<1>4. matches(st.head, d) <=> matches(st.head, c)
  BY <1>1, <1>2, <1>3, Grown
<1>5. matches(st.prev.head, d) <=> matches(st.prev.head, c)
  BY <1>1, <1>2, <1>3, Grown
<1> HIDE DEF c, d
<1>6. Len(c) \in Nat /\ Len(d) \in Nat
  BY <1>1, <1>2
<1>7. ASSUME f.cur.exists PROVE rotated(st, g) <=> rotated(st, f)
  <2>1. g.cur.ino = f.cur.ino
    BY <1>2, <1>7
  <2>2. CASE matches(st.head, c) /\ st.head # <<>>
    <3>1. ~rotated(st, f)
      BY <2>2 DEF Recognised, c
    <3>2. ~(Len(c) < st.offset) /\ st.ino \in {0, f.cur.ino}
      BY <3>1 DEF rotated, c
    <3>3. ~(Len(d) < st.offset)
      BY <3>2, <1>1, <1>2, <1>6
    <3>4. ~rotated(st, g)
      BY <2>1, <2>2, <3>2, <3>3, <1>4 DEF rotated, d
    <3>5. QED
      BY <3>1, <3>4
  <2>3. CASE ~matches(st.head, c)
    BY <2>3, <1>4 DEF rotated, c, d
  <2>4. CASE matches(st.head, c) /\ st.head = <<>>
    <3>1. st.offset = 0
      BY <2>4 DEF PlaceOK
    <3>2. ~(Len(c) < st.offset) /\ ~(Len(d) < st.offset)
      BY <3>1, <1>6
    <3>3. QED
      BY <2>1, <2>4, <3>2, <1>4 DEF rotated, c, d
  <2>5. QED
    BY <2>2, <2>3, <2>4
<1>8. ASSUME f.cur.exists PROVE prevIsOldFile(st, g) <=> prevIsOldFile(st, f)
  BY <1>2, <1>8 DEF prevIsOldFile
<1>9. prevValid(st.prev, g) <=> prevValid(st.prev, f)
  BY <1>2 DEF prevValid
<1>10. ASSUME ~f.cur.exists PROVE ~rotated(st, g) /\ st.ino = 0
  <2>1. st.ino = 0 /\ st.head = <<>> /\ st.offset = 0
    BY <1>10 DEF PlaceOK
  <2>2. ~(Len(d) < 0)
    BY <1>6
  <2>3. matches(st.head, d)
    BY <2>1, <1>1, <1>2, NothingMatches
  <2>4. QED
    BY <2>1, <2>2, <2>3 DEF rotated, d
<1>11. Recognised(st, g)
  <2>1. st.head # <<>> /\ matches(st.head, d) => ~rotated(st, g)
    <3>1. CASE f.cur.exists
      BY <3>1, <1>4, <1>7 DEF Recognised, c
    <3>2. CASE ~f.cur.exists
      BY <3>2, <1>10
    <3>3. QED
      BY <3>1, <3>2
  <2>2. st.prev.known /\ st.prev.head # <<>> => ~matches(st.prev.head, d)
    BY <1>5 DEF Recognised, c
  <2>3. QED
    BY <2>1, <2>2 DEF Recognised, d
<1>12. QED
  BY <1>7, <1>8, <1>9, <1>10, <1>11

\* The lines of the new file after one was written to it.
LEMMA WrittenLines ==
    ASSUME NEW f \in Files, NEW g \in Files, NEW line \in Line, Written(f, g, line)
    PROVE  /\ Len(g.cur.lines) = Len(f.cur.lines) + 1
           /\ DOMAIN g.cur.lines = DOMAIN f.cur.lines \union {Len(f.cur.lines) + 1}
           /\ \A k \in DOMAIN f.cur.lines : g.cur.lines[k] = f.cur.lines[k] /\ k \in Nat /\ k <= Len(f.cur.lines)
           /\ g.cur.lines[Len(f.cur.lines) + 1] = line
           /\ Numbers(g.cur.lines) = Numbers(f.cur.lines) \union {line.n}
           /\ Len(f.cur.lines) \in Nat
<1> DEFINE c == f.cur.lines
           d == g.cur.lines
           e == Append(c, line)
<1>1. c \in Seq(Line) /\ d = e
  BY FileTypes DEF Written
<1> HIDE DEF c, d
<1>2. /\ e \in Seq(Line) /\ Len(e) = Len(c) + 1
      /\ \A k \in 1 .. Len(c) : e[k] = c[k]
      /\ e[Len(c) + 1] = line
      /\ DOMAIN e = 1 .. Len(c) + 1 /\ DOMAIN c = 1 .. Len(c) /\ Len(c) \in Nat
  BY <1>1
<1> HIDE DEF e
<1>3. ToSet(e) = ToSet(c) \union {line}
  BY <1>1, ToSetAppend DEF e
<1>4. Numbers(e) = Numbers(c) \union {line.n}
  BY <1>3 DEF Numbers
<1>5. 1 .. Len(c) + 1 = (1 .. Len(c)) \union {Len(c) + 1}
  BY <1>2
<1>6. QED
  BY <1>1, <1>2, <1>4, <1>5 DEF c, d

LEMMA WriteLog ==
    ASSUME NEW src \in Source, NEW last \in Nat, NEW half \in BOOLEAN, NEW f \in Files, NEW g \in Files,
           NEW line \in Line, Written(f, g, line), LogOK(src, f, last, half), line.n = last + 1
    PROVE  LogOK(src, g, last + 1, half)
<1> DEFINE c == f.cur.lines
           d == g.cur.lines
<1>1. /\ Len(d) = Len(c) + 1
      /\ DOMAIN d = DOMAIN c \union {Len(c) + 1}
      /\ \A k \in DOMAIN c : d[k] = c[k] /\ k \in Nat /\ k <= Len(c)
      /\ d[Len(c) + 1] = line
      /\ Numbers(d) = Numbers(c) \union {line.n}
  BY WrittenLines
<1>2. g.prev = f.prev /\ g.cur.exists /\ g.cur.ino = IF f.cur.exists THEN f.cur.ino ELSE 1
  BY DEF Written
<1>3. /\ c \in Seq(Line) /\ d \in Seq(Line) /\ f.prev.lines \in Seq(Line)
      /\ \A n \in Numbers(c) \union Numbers(f.prev.lines) : n <= last /\ n \in Nat
  <2>1. c \in Seq(Line) /\ d \in Seq(Line) /\ f.prev.lines \in Seq(Line)
    BY FileTypes
  <2>2. \A l \in Line : l.n \in Nat
    BY Constants DEF Line
  <2>3. \A n \in Numbers(c) \union Numbers(f.prev.lines) : n \in Nat
    BY <2>1, <2>2, ToSetIs DEF Numbers
  <2>4. QED
    BY <2>1, <2>3 DEF LogOK
<1>4. DOMAIN d = 1 .. Len(d) /\ DOMAIN c = 1 .. Len(c)
  BY <1>3
<1> HIDE DEF c, d
<1>5. \A n \in Numbers(d) \union Numbers(g.prev.lines) : n <= last + 1
  BY <1>1, <1>2, <1>3
<1>6. line.n \notin Numbers(c) /\ line.n \notin Numbers(g.prev.lines)
  BY <1>2, <1>3
<1>7. Distinct(d)
  <2>1. \A k \in DOMAIN c : c[k].n \in Numbers(c)
    BY <1>3, <1>4, NumbersIs
  <2>2. SUFFICES ASSUME NEW i \in DOMAIN d, NEW j \in DOMAIN d, d[i].n = d[j].n PROVE i = j
    BY DEF Distinct
  <2>3. CASE i \in DOMAIN c /\ j \in DOMAIN c
    <3>1. c[i].n = c[j].n
      BY <2>2, <2>3, <1>1
    <3>2. QED
      BY <2>3, <3>1 DEF LogOK, Distinct, c
  <2>4. CASE i \in DOMAIN c /\ j \notin DOMAIN c
    BY <2>1, <2>2, <2>4, <1>1, <1>6
  <2>5. CASE i \notin DOMAIN c /\ j \in DOMAIN c
    BY <2>1, <2>2, <2>5, <1>1, <1>6
  <2>6. CASE i \notin DOMAIN c /\ j \notin DOMAIN c
    BY <2>6, <1>1
  <2>7. QED
    BY <2>3, <2>4, <2>5, <2>6
<1>8. Distinct(g.prev.lines) /\ (~g.prev.exists => g.prev.lines = <<>>)
  BY <1>2 DEF LogOK
<1>9. g.cur.ino # 0 /\ (src = "app" => g.cur.ino = 1)
  <2>1. f.cur.exists => f.cur.ino # 0
    BY DEF LogOK
  <2>2. src = "app" => f.cur.ino = 1
    BY DEF LogOK
  <2>3. QED
    BY <2>1, <2>2, <1>2
<1>10. CASE src = "app" /\ half
  <2>1. matches(f.prev.lines, c)
    BY <1>10 DEF LogOK, c
  <2>2. line.n \notin Numbers(f.prev.lines)
    BY <1>2, <1>6
  <2>3. d = Append(c, line)
    BY DEF Written, c, d
  <2>4. matches(f.prev.lines, d)
    BY <2>1, <2>2, <2>3, <1>3, Grown
  <2>5. QED
    BY <2>4, <1>2, <1>5, <1>7, <1>8, <1>9, <1>10 DEF LogOK, d
<1>11. CASE ~(src = "app" /\ half)
  <2>1. Numbers(c) \intersect Numbers(g.prev.lines) = {}
    BY <1>2, <1>11 DEF LogOK, c
  <2>2. Numbers(d) \intersect Numbers(g.prev.lines) = {}
    BY <2>1, <1>1, <1>6
  <2>3. QED
    BY <2>2, <1>2, <1>5, <1>7, <1>8, <1>9, <1>11 DEF LogOK, d
<1>12. QED
  BY <1>10, <1>11

LEMMA LaterPlace ==
    ASSUME NEW src \in Source, NEW last \in Nat, NEW st \in Place, NEW f \in Files, NEW g \in Files,
           PlaceOK(src, st, f, last), ~g.cur.exists => ~f.cur.exists
    PROVE  PlaceOK(src, st, g, last) /\ PlaceOK(src, st, g, last + 1)
<1>1. \A l \in Line : l.n \in Nat
  BY Constants DEF Line
<1>2. \A n \in Numbers(st.head) \union Numbers(st.prev.head) : n \in Nat
  BY <1>1, PlaceTypes, ToSetIs DEF Numbers
<1>3. \A n \in Numbers(st.head) \union Numbers(st.prev.head) : n <= last
  BY DEF PlaceOK
<1>4. \A n \in Numbers(st.head) \union Numbers(st.prev.head) : n <= last + 1
  BY <1>2, <1>3
<1>5. QED
  BY <1>3, <1>4 DEF PlaceOK

LEMMA WriteFresh ==
    ASSUME NEW src \in Source, NEW last \in Nat, NEW half \in BOOLEAN, NEW st \in Place, NEW f \in Files, NEW g \in Files,
           NEW line \in Line, Written(f, g, line), LogOK(src, f, last, half), line.n = last + 1,
           PlaceOK(src, st, f, last), Recognised(st, f), NEW G, Fresh(st, f, G), \A n \in G : n <= last
    PROVE  Recognised(st, g) /\ Fresh(st, g, G)
<1> DEFINE c == f.cur.lines
           d == g.cur.lines
<1>1. /\ DOMAIN d = DOMAIN c \union {Len(c) + 1}
      /\ \A k \in DOMAIN c : d[k] = c[k]
      /\ d[Len(c) + 1] = line
  BY WrittenLines
<1>2. line.n > last /\ ~(line.n <= last)
  OBVIOUS
<1>3. /\ Recognised(st, g)
      /\ f.cur.exists => (rotated(st, g) <=> rotated(st, f)) /\ (prevIsOldFile(st, g) <=> prevIsOldFile(st, f))
      /\ prevValid(st.prev, g) <=> prevValid(st.prev, f)
  BY <1>2, WriteKeeps
<1>4. DOMAIN c = {} \/ f.cur.exists
  BY DEF LogOK
<1>5. DOMAIN f.prev.lines = {} \/ f.cur.exists
  BY DEF LogOK
<1>6. g.prev = f.prev
  BY DEF Written
<1> HIDE DEF c, d
<1>7. ASSUME st.known, NEW k \in DOMAIN d, d[k].n \in G PROVE k <= st.offset /\ ~rotated(st, g)
  <2>1. k \in DOMAIN c /\ c[k].n \in G
    BY <1>1, <1>2, <1>7
  <2>2. QED
    BY <2>1, <1>3, <1>4, <1>7 DEF Fresh, c
<1>8. ASSUME st.known, NEW k \in DOMAIN g.prev.lines, g.prev.lines[k].n \in G
      PROVE  /\ rotated(st, g) /\ prevIsOldFile(st, g) => k <= st.offset
             /\ ~rotated(st, g) /\ prevValid(st.prev, g) => k <= st.prev.offset
  BY <1>3, <1>5, <1>6, <1>8 DEF Fresh
<1>9. QED
  BY <1>3, <1>7, <1>8 DEF Fresh, d

LEMMA WriteCovered ==
    ASSUME NEW src \in Source, NEW last \in Nat, NEW half \in BOOLEAN, NEW st \in Place, NEW f \in Files, NEW g \in Files,
           NEW line \in Line, Written(f, g, line), LogOK(src, f, last, half), line.n = last + 1,
           PlaceOK(src, st, f, last), Recognised(st, f), NEW D, NEW r, Covered(src, st, f, half, D, r)
    PROVE  Covered(src, st, g, half, D, r)
<1> DEFINE c == f.cur.lines
           d == g.cur.lines
           passed(l) == l.n \in D \/ l.size > maxResult
<1>1. /\ DOMAIN d = DOMAIN c \union {Len(c) + 1}
      /\ \A k \in DOMAIN c : d[k] = c[k]
      /\ Len(c) \in Nat /\ d = Append(c, line)
  BY WrittenLines, SMTT(30) DEF Written
<1>2. line.n > last
  OBVIOUS
<1>3. /\ f.cur.exists => (rotated(st, g) <=> rotated(st, f)) /\ (prevIsOldFile(st, g) <=> prevIsOldFile(st, f))
      /\ prevValid(st.prev, g) <=> prevValid(st.prev, f)
      /\ ~f.cur.exists => ~rotated(st, g)
  BY <1>2, WriteKeeps
<1>4. DOMAIN c = {} \/ f.cur.exists
  BY DEF LogOK
<1>5. DOMAIN f.prev.lines = {} \/ f.cur.exists
  BY DEF LogOK
<1>6. g.prev = f.prev
  BY DEF Written
<1>7. st.offset \in Nat /\ st.head \in Seq(Line) /\ c \in Seq(Line)
  BY FileTypes, PlaceTypes
<1> HIDE DEF c, d, passed
<1>8. SUFFICES ASSUME st.known PROVE Covered(src, st, g, half, D, r)
  BY DEF Covered
<1>9. r = 0 => ~rotated(st, g)
  BY <1>3, <1>8 DEF Covered
<1>10. ASSUME NEW k \in DOMAIN d, k <= st.offset, ~rotated(st, g) PROVE passed(d[k])
  <2>1. CASE k \in DOMAIN c
    <3>1. ~rotated(st, f)
      BY <2>1, <1>3, <1>4, <1>10
    <3>2. passed(c[k])
      BY <2>1, <3>1, <1>8, <1>10 DEF Covered, c, passed
    <3>3. QED
      BY <2>1, <3>2, <1>1
  <2>2. CASE k = Len(c) + 1
    <3>1. st.offset # 0 /\ st.head # <<>>
      BY <2>2, <1>1, <1>7, <1>10 DEF PlaceOK
    <3>2. f.cur.exists
      BY <3>1 DEF PlaceOK
    <3>3. ~rotated(st, f)
      BY <3>2, <1>3, <1>10
    <3>4. ~(Len(c) < st.offset)
      BY <3>3 DEF rotated, c
    <3>5. QED
      BY <2>2, <3>4, <1>1, <1>7, <1>10
  <2>3. QED
    BY <2>1, <2>2, <1>1
<1>11. ASSUME src # "app" \/ ~half, NEW k \in DOMAIN g.prev.lines
       PROVE  \/ passed(g.prev.lines[k])
              \/ Unmatched(src, st, g)
              \/ (rotated(st, g) /\ prevIsOldFile(st, g) /\ k > st.offset)
              \/ (~rotated(st, g) /\ prevValid(st.prev, g) /\ k > st.prev.offset)
  <2>1. \/ passed(f.prev.lines[k])
        \/ Unmatched(src, st, f)
        \/ (rotated(st, f) /\ prevIsOldFile(st, f) /\ k > st.offset)
        \/ (~rotated(st, f) /\ prevValid(st.prev, f) /\ k > st.prev.offset)
    BY <1>6, <1>8, <1>11 DEF Covered, passed
  <2>2. Unmatched(src, st, f) => Unmatched(src, st, g)
    BY <1>6 DEF Unmatched
  <2>3. f.cur.exists
    BY <1>5, <1>6, <1>11
  <2>4. QED
    BY <2>1, <2>2, <2>3, <1>3, <1>6
<1>12. QED
  BY <1>9, <1>10, <1>11 DEF Covered, d, passed

\* Nothing is as long as what it begins with but itself.
LEMMA PrefixIs ==
    ASSUME NEW lines \in Seq(Line), NEW head \in Seq(Line), matches(head, lines)
    PROVE  /\ DOMAIN head \subseteq DOMAIN lines /\ \A k \in DOMAIN head : head[k] = lines[k] /\ k \in Nat /\ k # 0
           /\ Len(head) \in Nat /\ Len(lines) \in Nat /\ Len(head) <= Len(lines)
           /\ DOMAIN head = 1 .. Len(head) /\ DOMAIN lines = 1 .. Len(lines)
           /\ Numbers(head) \subseteq Numbers(lines)
<1>1. Len(head) <= Len(lines) /\ \A i \in 1 .. Len(head) : head[i] = lines[i]
  BY MatchesIs
<1>2. DOMAIN head = 1 .. Len(head) /\ DOMAIN lines = 1 .. Len(lines) /\ Len(head) \in Nat /\ Len(lines) \in Nat
  OBVIOUS
<1>3. \A k \in 1 .. Len(head) : k \in 1 .. Len(lines) /\ k \in Nat /\ k # 0
  BY <1>1, <1>2
<1>4. Numbers(head) = {head[k].n : k \in 1 .. Len(head)} /\ Numbers(lines) = {lines[k].n : k \in 1 .. Len(lines)}
  BY NumbersIs
<1>5. Numbers(head) \subseteq Numbers(lines)
  BY <1>1, <1>3, <1>4
<1>6. QED
  BY <1>1, <1>2, <1>3, <1>5

LEMMA EmptiedIs ==
    ASSUME NEW src \in Source, NEW f \in Files, NEW g \in Files, Emptied(src, f, g)
    PROVE  matches(g.prev.lines, f.cur.lines)
<1>1. \A lines \in Seq(Line) : matches(lines, lines)
  <2>1. SUFFICES ASSUME NEW lines \in Seq(Line) PROVE matches(lines, lines)
    OBVIOUS
  <2>2. Len(lines) <= Len(lines)
    OBVIOUS
  <2>3. QED
    BY <2>2, MatchesIs
<1>2. CASE src = "app"
  BY <1>2 DEF Emptied
<1>3. CASE src # "app"
  BY <1>1, <1>3, FileTypes DEF Emptied
<1>4. QED
  BY <1>2, <1>3

LEMMA EmptiedLog ==
    ASSUME NEW src \in Source, NEW last \in Nat, NEW half \in BOOLEAN, NEW f \in Files, NEW g \in Files,
           Emptied(src, f, g), LogOK(src, f, last, half)
    PROVE  LogOK(src, g, last, FALSE)
<1> DEFINE c == f.cur.lines
           d == g.prev.lines
<1>1. c \in Seq(Line) /\ d \in Seq(Line) /\ matches(d, c)
  BY FileTypes, EmptiedIs
<1> HIDE DEF c, d
<1>2. /\ DOMAIN d \subseteq DOMAIN c /\ \A k \in DOMAIN d : d[k] = c[k]
      /\ Numbers(d) \subseteq Numbers(c)
  BY <1>1, PrefixIs
<1>3. Distinct(c) /\ \A n \in Numbers(c) : n <= last
  BY DEF LogOK, c
<1>4. Distinct(d)
  BY <1>2, <1>3 DEF Distinct
<1>5. Numbers(g.cur.lines) = {} /\ Distinct(g.cur.lines)
  BY NumbersEmpty DEF Emptied, Distinct
<1>6. \A n \in Numbers(g.cur.lines) \union Numbers(d) : n <= last
  BY <1>2, <1>3, <1>5
<1>7. /\ g.cur.exists /\ g.cur.ino # 0
      /\ ~g.prev.exists => d = <<>>
      /\ src = "app" => g.cur.ino = 1
  BY DEF Emptied, d
<1>8. QED
  BY <1>4, <1>5, <1>6, <1>7 DEF LogOK, d

\* What is known of a place when its log was rotated.
LEMMA EmptiedIsRotated ==
    ASSUME NEW src \in Source, NEW st \in Place, NEW f \in Files, NEW g \in Files, Emptied(src, f, g), NEW last \in Nat, PlaceOK(src, st, f, last)
    PROVE  /\ st.head # <<>> => ~matches(st.head, g.cur.lines) /\ rotated(st, g)
           /\ st.prev.head # <<>> => ~matches(st.prev.head, g.cur.lines)
           /\ ~rotated(st, g) => st.offset = 0
<1>1. g.cur.lines = <<>> /\ <<>> \in Seq(Line)
  BY DEF Emptied
<1>2. \A head \in Seq(Line) : head # <<>> => ~matches(head, <<>>)
  BY <1>1, NothingMatches
<1>3. st.head # <<>> => ~matches(st.head, g.cur.lines) /\ rotated(st, g)
  BY <1>1, <1>2, PlaceTypes DEF rotated
<1>4. st.head = <<>> => st.offset = 0
  BY DEF PlaceOK
<1>5. QED
  BY <1>1, <1>2, <1>3, <1>4, PlaceTypes

LEMMA EmptiedFresh ==
    ASSUME NEW src \in Source, NEW last \in Nat, NEW st \in Place, NEW f \in Files, NEW g \in Files, Emptied(src, f, g),
           PlaceOK(src, st, f, last), NEW G, Fresh(st, f, G)
    PROVE  PlaceOK(src, st, g, last) /\ Recognised(st, g) /\ Fresh(st, g, G)
<1> DEFINE c == f.cur.lines
           d == g.prev.lines
<1>1. c \in Seq(Line) /\ d \in Seq(Line) /\ matches(d, c)
  BY FileTypes, EmptiedIs
<1> HIDE DEF c, d
<1>2. DOMAIN d \subseteq DOMAIN c /\ \A k \in DOMAIN d : d[k] = c[k] /\ k \in Nat /\ k # 0
  BY <1>1, PrefixIs
<1>3. /\ st.head # <<>> => ~matches(st.head, g.cur.lines) /\ rotated(st, g)
      /\ st.prev.head # <<>> => ~matches(st.prev.head, g.cur.lines)
      /\ ~rotated(st, g) => st.offset = 0
  BY EmptiedIsRotated
<1>4. PlaceOK(src, st, g, last)
  <2>1. ~g.cur.exists => ~f.cur.exists
    BY DEF Emptied
  <2>2. QED
    BY <2>1, LaterPlace
<1>5. Recognised(st, g)
  BY <1>3 DEF Recognised
<1>6. DOMAIN g.cur.lines = {}
  BY DEF Emptied
<1>7. st.known => \A k \in DOMAIN d : d[k].n \in G => k <= st.offset
  BY <1>2 DEF Fresh, c
<1>8. ASSUME st.known, NEW k \in DOMAIN d, d[k].n \in G, ~rotated(st, g) PROVE FALSE
  <2>1. k <= 0 /\ k \in Nat /\ k # 0
    BY <1>2, <1>3, <1>7, <1>8
  <2>2. QED
    BY <2>1
<1>9. Fresh(st, g, G)
  BY <1>6, <1>7, <1>8 DEF Fresh, d
<1>10. QED
  BY <1>4, <1>5, <1>9

LEMMA EmptiedCovered ==
    ASSUME NEW src \in Source, NEW last \in Nat, NEW half \in BOOLEAN, NEW st \in Place, NEW f \in Files, NEW g \in Files,
           Emptied(src, f, g), PlaceOK(src, st, f, last),
           NEW D, NEW E, D \subseteq E, NEW r \in Nat, Covered(src, st, f, half, D, r),
           \/ Numbers(f.cur.lines) \subseteq E
           \/ (r = 0 /\ (st.head # <<>> \/ (src # "app" /\ st.ino # 0)))
    PROVE  Covered(src, st, g, FALSE, E, r + 1)
<1> DEFINE c == f.cur.lines
           d == g.prev.lines
           passed(l) == l.n \in E \/ l.size > maxResult
<1>1. c \in Seq(Line) /\ d \in Seq(Line) /\ matches(d, c) /\ st.head \in Seq(Line) /\ st.offset \in Nat
  BY FileTypes, PlaceTypes, EmptiedIs
<1> HIDE DEF c, d
<1>2. /\ DOMAIN d \subseteq DOMAIN c /\ \A k \in DOMAIN d : d[k] = c[k] /\ k \in Nat /\ k # 0
      /\ DOMAIN d = 1 .. Len(d) /\ Len(d) \in Nat /\ Len(d) <= Len(c)
  BY <1>1, PrefixIs
<1>3. /\ st.head # <<>> => rotated(st, g)
      /\ ~rotated(st, g) => st.offset = 0
  BY EmptiedIsRotated
<1>4. \A k \in DOMAIN c : c[k].n \in Numbers(c)
  BY <1>1, NumbersIs
<1>5. DOMAIN g.cur.lines = {} /\ r + 1 # 0
  BY DEF Emptied
<1>6. SUFFICES ASSUME st.known, NEW k \in DOMAIN d, ~passed(d[k])
               PROVE  \/ Unmatched(src, st, g)
                      \/ (rotated(st, g) /\ prevIsOldFile(st, g) /\ k > st.offset)
  BY <1>5 DEF Covered, d
<1>7. d[k] = c[k] /\ k \in DOMAIN c
  BY <1>2
<1>8. ~(Numbers(c) \subseteq E)
  BY <1>4, <1>6, <1>7
<1>9. r = 0 /\ (st.head # <<>> \/ (src # "app" /\ st.ino # 0))
  BY <1>8 DEF c
<1>10. ~rotated(st, f)
  BY <1>6, <1>9 DEF Covered
<1>11. k > st.offset
  <2>1. ~(k <= st.offset)
    <3>1. SUFFICES ASSUME k <= st.offset PROVE FALSE
      OBVIOUS
    <3>2. c[k].n \in D \/ c[k].size > maxResult
      BY <3>1, <1>6, <1>7, <1>10 DEF Covered, c
    <3>3. QED
      BY <3>2, <1>6, <1>7
  <2>2. QED
    BY <2>1, <1>1, <1>2, <1>6
<1>12. Len(d) >= st.offset
  BY <1>1, <1>2, <1>6, <1>11
<1>13. CASE st.head # <<>>
  <2>1. matches(st.head, c)
    BY <1>10 DEF rotated, c
  <2>2. Len(st.head) <= Len(c) /\ \A i \in 1 .. Len(st.head) : st.head[i] = c[i]
    BY <2>1, <1>1, MatchesIs
  <2>3. CASE Len(st.head) <= Len(d)
    <3>1. \A i \in 1 .. Len(st.head) : i \in DOMAIN d
      BY <2>3, <1>1, <1>2
    <3>2. \A i \in 1 .. Len(st.head) : st.head[i] = d[i]
      BY <3>1, <2>2, <1>2
    <3>3. matches(st.head, d)
      BY <2>3, <3>2, <1>1, MatchesIs
    <3>4. QED
      BY <3>3, <1>3, <1>11, <1>12, <1>13 DEF prevIsOldFile, d
  <2>4. CASE ~(Len(st.head) <= Len(d))
    <3>1. Len(st.head) \in Nat /\ Len(d) < Len(st.head)
      BY <2>4, <1>1, <1>2
    <3>2. \A i \in 1 .. Len(d) : i \in 1 .. Len(st.head) /\ d[i] = c[i]
      BY <3>1, <1>2
    <3>3. \A i \in 1 .. Len(d) : d[i] = st.head[i]
      BY <3>2, <2>2
    <3>4. matches(d, st.head)
      BY <3>1, <3>3, <1>1, <1>2, MatchesIs, SMTT(30)
    <3>5. src = "app"
      <4>1. SUFFICES ASSUME src # "app" PROVE FALSE
        OBVIOUS
      <4>2. d = c
        BY <4>1 DEF Emptied, c, d
      <4>3. QED
        BY <4>2, <2>2, <2>4
    <3>6. QED
      BY <3>1, <3>4, <3>5 DEF Unmatched, d
  <2>5. QED
    BY <2>3, <2>4
<1>14. CASE st.head = <<>>
  <2>1. src # "app" /\ st.ino # 0
    BY <1>9, <1>14
  <2>2. g.prev = f.cur /\ g.cur.ino # f.cur.ino
    BY <2>1 DEF Emptied
  <2>3. st.ino = f.cur.ino
    BY <2>1, <1>10 DEF rotated
  <2>4. rotated(st, g)
    BY <2>1, <2>2, <2>3 DEF rotated
  <2>5. prevIsOldFile(st, g)
    BY <2>2, <2>3, <1>12, <1>14 DEF prevIsOldFile, d
  <2>6. QED
    BY <2>4, <2>5, <1>11
<1>15. QED
  BY <1>13, <1>14

LEMMA CopyLog ==
    ASSUME NEW last \in Nat, NEW f \in Files, NEW g \in Files, CopyMade(f, g), LogOK("app", f, last, FALSE)
    PROVE  LogOK("app", g, last, TRUE)
<1>1. f.cur.lines \in Seq(Line) /\ Len(f.cur.lines) <= Len(f.cur.lines)
  <2>1. f.cur.lines \in Seq(Line)
    BY FileTypes
  <2>2. QED
    BY <2>1
<1>2. matches(f.cur.lines, f.cur.lines)
  BY <1>1, MatchesIs
<1>3. QED
  BY <1>2 DEF CopyMade, LogOK

LEMMA CopyFresh ==
    ASSUME NEW last \in Nat, NEW st \in Place, NEW f \in Files, NEW g \in Files, CopyMade(f, g),
           PlaceOK("app", st, f, last), Recognised(st, f), NEW G, Fresh(st, f, G)
    PROVE  PlaceOK("app", st, g, last) /\ Recognised(st, g) /\ Fresh(st, g, G)
<1>1. g.cur = f.cur /\ g.prev.lines = f.cur.lines
  BY DEF CopyMade
<1>2. rotated(st, g) <=> rotated(st, f)
  BY <1>1 DEF rotated
<1>3. PlaceOK("app", st, g, last) /\ Recognised(st, g)
  BY <1>1, <1>2 DEF PlaceOK, Recognised
<1>4. \A k \in DOMAIN f.cur.lines : k \in Nat /\ k # 0
  BY FileTypes
<1>5. ASSUME st.known, NEW k \in DOMAIN g.prev.lines, g.prev.lines[k].n \in G
      PROVE  ~rotated(st, g) /\ ~prevValid(st.prev, g)
  <2>1. k \in DOMAIN f.cur.lines /\ k <= st.offset /\ ~rotated(st, f)
    BY <1>1, <1>5 DEF Fresh
  <2>2. st.offset # 0
    BY <2>1, <1>4
  <2>3. ~st.prev.known
    BY <2>2 DEF PlaceOK
  <2>4. QED
    BY <2>1, <2>3, <1>2 DEF prevValid
<1>6. Fresh(st, g, G)
  BY <1>1, <1>2, <1>5 DEF Fresh
<1>7. QED
  BY <1>3, <1>6

LEMMA CopyCovered ==
    ASSUME NEW st \in Place, NEW f \in Files, NEW g \in Files, CopyMade(f, g),
           NEW half \in BOOLEAN, NEW D, NEW r, Covered("app", st, f, half, D, r)
    PROVE  Covered("app", st, g, TRUE, D, r)
<1>1. g.cur = f.cur /\ (rotated(st, g) <=> rotated(st, f))
  BY DEF CopyMade, rotated
<1>2. QED
  BY <1>1 DEF Covered

(***************************************************************************)
(* What depends on less                                                    *)
(***************************************************************************)

\* Nothing else changes when the other log does.
LEMMA OtherLog ==
    ASSUME NEW src \in Source, NEW last \in Nat, NEW half \in BOOLEAN, NEW also \in BOOLEAN, NEW f \in Files,
           LogOK(src, f, last, half), src # "app" \/ half = also
    PROVE  LogOK(src, f, last, also) /\ LogOK(src, f, last + 1, also)
<1>1. \A l \in Line : l.n \in Nat
  BY Constants DEF Line
<1>2. \A n \in Numbers(f.cur.lines) \union Numbers(f.prev.lines) : n \in Nat /\ n <= last
  <2>1. \A n \in Numbers(f.cur.lines) \union Numbers(f.prev.lines) : n \in Nat
    BY <1>1, FileTypes, ToSetIs DEF Numbers
  <2>2. QED
    BY <2>1 DEF LogOK
<1>3. \A n \in Numbers(f.cur.lines) \union Numbers(f.prev.lines) : n <= last + 1
  BY <1>2
<1>4. QED
  BY <1>2, <1>3 DEF LogOK

LEMMA OtherCovered ==
    ASSUME NEW src \in Source, NEW half \in BOOLEAN, NEW also \in BOOLEAN, NEW st \in Place, NEW f \in Files,
           src # "app" \/ half = also, NEW D, NEW E, D \subseteq E, NEW r, Covered(src, st, f, half, D, r)
    PROVE  Covered(src, st, f, also, E, r)
BY DEF Covered

\* Fresh and the events of no line of these files.
LEMMA FreshMore ==
    ASSUME NEW src \in Source, NEW st \in Place, NEW f \in Files, NEW G, NEW H, Fresh(st, f, G),
           H \intersect (Numbers(f.cur.lines) \union Numbers(f.prev.lines)) \subseteq G
    PROVE  Fresh(st, f, H)
<1>1. \A k \in DOMAIN f.cur.lines : f.cur.lines[k].n \in Numbers(f.cur.lines)
  BY FileTypes, NumbersIs
<1>2. \A k \in DOMAIN f.prev.lines : f.prev.lines[k].n \in Numbers(f.prev.lines)
  BY FileTypes, NumbersIs
<1>3. \A k \in DOMAIN f.cur.lines : f.cur.lines[k].n \in H => f.cur.lines[k].n \in G
  BY <1>1
<1>4. \A k \in DOMAIN f.prev.lines : f.prev.lines[k].n \in H => f.prev.lines[k].n \in G
  BY <1>2
<1>5. QED
  BY <1>3, <1>4 DEF Fresh

(***************************************************************************)
(* What a reading leaves behind                                            *)
(***************************************************************************)

\* What Covered promises of an old file is what the look at the log finds in it.
LEMMA SwitchedCovered ==
    ASSUME NEW src \in Source, NEW last \in Nat, NEW half \in BOOLEAN, NEW st \in Place, NEW f \in Files,
           f.cur.exists, LogOK(src, f, last, half), st.known, NEW D, NEW r, Covered(src, st, f, half, D, r)
    PROVE  /\ \A k \in DOMAIN f.cur.lines : k <= Switched(st, f).offset =>
                 f.cur.lines[k].n \in D \/ f.cur.lines[k].size > maxResult
           /\ src # "app" \/ ~half =>
                \A k \in DOMAIN f.prev.lines :
                   \/ f.prev.lines[k].n \in D \/ f.prev.lines[k].size > maxResult
                   \/ Unmatched(src, st, f)
                   \/ prevValid(Switched(st, f).prev, f) /\ k > Switched(st, f).prev.offset
<1> DEFINE s == Switched(st, f)
           c == f.cur.lines
           d == f.prev.lines
           p == [known |-> TRUE, offset |-> st.offset, ino |-> f.prev.ino, head |-> st.head]
<1>1. /\ ~rotated(st, f) => s.offset = st.offset /\ s.prev = st.prev
      /\ rotated(st, f) => s.offset = 0
      /\ rotated(st, f) /\ f.prev.exists /\ prevIsOldFile(st, f) => s.prev = p
  BY SwitchedIs
<1>2. c \in Seq(Line) /\ d \in Seq(Line) /\ st.head \in Seq(Line) /\ st.offset \in Nat
  BY FileTypes, PlaceTypes
<1>3. p.known = TRUE /\ p.offset = st.offset /\ p.ino = f.prev.ino /\ p.head = st.head
  OBVIOUS
<1> HIDE DEF s, c, d, p
<1>4. \A k \in DOMAIN c : ~(k <= 0)
  BY <1>2
<1>5. ASSUME NEW k \in DOMAIN c, k <= s.offset PROVE c[k].n \in D \/ c[k].size > maxResult
  BY <1>1, <1>4, <1>5 DEF Covered, c
<1>6. ASSUME src # "app" \/ ~half, NEW k \in DOMAIN d, ~Unmatched(src, st, f), ~(d[k].n \in D \/ d[k].size > maxResult)
      PROVE  prevValid(s.prev, f) /\ k > s.prev.offset
  <2>1. \/ (rotated(st, f) /\ prevIsOldFile(st, f) /\ k > st.offset)
        \/ (~rotated(st, f) /\ prevValid(st.prev, f) /\ k > st.prev.offset)
    BY <1>6 DEF Covered, d
  <2>2. CASE ~rotated(st, f)
    BY <2>1, <2>2, <1>1
  <2>3. CASE rotated(st, f)
    <3>1. prevIsOldFile(st, f) /\ k > st.offset
      BY <2>1, <2>3
    <3>2. f.prev.exists
      <4>1. ~f.prev.exists => DOMAIN d = {}
        BY DEF LogOK, d
      <4>2. QED
        BY <4>1, <1>6
    <3>3. s.prev = p
      BY <2>3, <3>1, <3>2, <1>1
    <3>4. Len(d) >= p.offset /\ matches(p.head, d)
      BY <3>1, <1>2, <1>3, NothingMatches DEF prevIsOldFile, d
    <3>5. prevValid(p, f)
      BY <3>2, <3>4, <1>3 DEF prevValid, d
    <3>6. QED
      BY <3>1, <3>3, <3>5, <1>3
  <2>4. QED
    BY <2>2, <2>3
<1>7. QED
  BY <1>5, <1>6 DEF s, c, d

\* A reading that begins behind the place it was given passes over nothing but what
\* it returns.
LEMMA ReadCovered ==
    ASSUME NEW src \in Source, NEW last \in Nat, NEW half \in BOOLEAN, NEW st \in Place, NEW f \in Files, NEW acc \in Acc,
           acc.events = <<>>,
           LogOK(src, f, last, half), PlaceOK(src, st, f, last), Recognised(st, f), NEW G, Fresh(st, f, G),
           NEW D, NEW E, NEW r, Covered(src, st, f, half, D, r),
           D \union ToSet(readSource(st, f, acc).acc.events) \subseteq E,
           ~st.known => Numbers(f.cur.lines) \union Numbers(f.prev.lines) \subseteq E,
           Unmatched(src, st, f) => Numbers(f.prev.lines) \subseteq E
    PROVE  Covered(src, readSource(st, f, acc).st, f, half, E, 0)
<1> DEFINE z == readSource(st, f, acc)
           c == f.cur.lines
           d == f.prev.lines
           passed(l) == l.n \in E \/ l.size > maxResult
<1>1. ReadWell(src, st, f, last, G, z)
  BY ReadSource
<1>2. ~rotated(z.st, f)
  BY <1>1 DEF ReadWell
<1>3. c \in Seq(Line) /\ d \in Seq(Line) /\ Distinct(c) /\ Distinct(d)
  BY FileTypes DEF LogOK
<1>4. (\A k \in DOMAIN c : c[k].n \in Numbers(c)) /\ (\A k \in DOMAIN d : d[k].n \in Numbers(d))
  BY <1>3, NumbersIs
<1>5. CASE ~st.known
  <2> HIDE DEF z
  <2>1. (\A k \in DOMAIN c : c[k].n \in E) /\ (\A k \in DOMAIN d : d[k].n \in E)
    BY <1>4, <1>5
  <2>2. QED
    BY <2>1, <1>2 DEF Covered, z
<1>6. CASE st.known /\ ~f.cur.exists
  <2> HIDE DEF z
  <2>1. DOMAIN f.cur.lines = {} /\ DOMAIN f.prev.lines = {}
    BY <1>6 DEF LogOK
  <2>2. QED
    BY <2>1, <1>2 DEF Covered, z
<1>7. CASE st.known /\ f.cur.exists
  <2> DEFINE s == Switched(st, f)
             a == Rest(s, f, acc)
             b == Newer(s, f, acc)
             p == [s.prev EXCEPT !.offset = a.at]
             valid == prevValid(s.prev, f)
  <2>1. /\ s \in Place /\ s.offset <= Len(c)
    BY SwitchedIs, SwitchedFits
  <2>2. /\ a.more => z.acc = a /\ Moved(z.st, s, s.offset, p) /\ p \in OldPlace
        /\ ~a.more => z.acc = b /\ Moved(z.st, s, b.at, NoPrev)
    BY <1>7, ReadSourceIs
  <2>3. /\ \A k \in DOMAIN c : k <= s.offset => c[k].n \in D \/ c[k].size > maxResult
        /\ src # "app" \/ ~half =>
                \A k \in DOMAIN d :
                   \/ d[k].n \in D \/ d[k].size > maxResult
                   \/ Unmatched(src, st, f)
                   \/ valid /\ k > s.prev.offset
    BY <1>7, SwitchedCovered
  <2>21. D \union ToSet(z.acc.events) \subseteq E
    OBVIOUS
  <2> HIDE DEF s, z
  <2>4. /\ a \in Acc
        /\ valid => s.prev.offset \in 0 .. Len(d) /\ ReadOK(d, s.prev.offset, acc, Len(d), a)
        /\ ~valid => a.more = FALSE
    BY <2>1, RestRead
  <2>5. b \in Acc /\ s.offset \in 0 .. Len(c) /\ ReadOK(c, s.offset, a, Len(c), b)
    BY <2>1, NewerRead
  <2>6. s.prev \in OldPlace /\ s.prev.offset \in Nat /\ s.offset \in Nat
    BY <2>1, PlaceTypes
  <2> HIDE DEF a, b, c, d, valid
  <2>7. a.at \in Nat /\ b.at \in Nat /\ a.more \in BOOLEAN
    BY <2>4, <2>5 DEF Acc
  <2>8. valid => Some(d, s.prev.offset, a.at) \subseteq ToSet(a.events) /\ a.at <= Len(d) /\ (~a.more => a.at = Len(d))
                 /\ s.prev.offset <= a.at
    BY <2>4 DEF ReadOK
  <2>9. /\ ToSet(a.events) \subseteq ToSet(b.events)
        /\ Some(c, s.offset, b.at) \subseteq ToSet(b.events) /\ b.at <= Len(c)
    BY <2>5 DEF ReadOK
  <2>10. \A k \in DOMAIN c : k \in Nat /\ k <= Len(c)
    BY <1>3
  <2>11. \A k \in DOMAIN d : k \in Nat /\ k <= Len(d)
    BY <1>3
  <2>12. ToSet(a.events) \subseteq E
    BY <2>2, <2>7, <2>9, <2>21
  <2>13. ASSUME src # "app" \/ ~half, NEW k \in DOMAIN d, ~passed(d[k]) PROVE a.more /\ valid /\ k > a.at
    <3>1. ~(d[k].n \in D \/ d[k].size > maxResult) /\ ~Unmatched(src, st, f)
      BY <2>13, <2>21, <1>4 DEF d
    <3>2. valid /\ k > s.prev.offset
      BY <2>3, <2>13, <3>1
    <3>3. ~(k <= a.at)
      <4>1. SUFFICES ASSUME k <= a.at PROVE FALSE
        OBVIOUS
      <4>2. s.prev.offset < k
        BY <3>2, <2>6, <2>11
      <4>3. d[k].n \in Some(d, s.prev.offset, a.at) \/ d[k].size > maxResult
        BY <3>2, <4>1, <4>2, <2>6, <2>7, <2>8, <1>3, InSome
      <4>4. QED
        BY <3>2, <4>3, <2>8, <2>12, <2>13
    <3>4. k > a.at
      BY <3>3, <2>7, <2>11
    <3>5. a.more
      BY <3>2, <3>3, <2>8, <2>11
    <3>6. QED
      BY <3>2, <3>4, <3>5
  <2>14. CASE a.more
    <3>1. Moved(z.st, s, s.offset, p)
      BY <2>2, <2>14
    <3>2. p.known = s.prev.known /\ p.ino = s.prev.ino /\ p.head = s.prev.head /\ p.offset = a.at
      BY <2>6 DEF OldPlace
    <3> HIDE DEF p
    <3>3. z.st.offset = s.offset /\ z.st.prev = p
      BY <3>1 DEF Moved
    <3>4. \A k \in DOMAIN c : k <= z.st.offset => passed(c[k])
      BY <3>3, <2>3, <2>21
    <3>5. valid => prevValid(p, f)
      BY <3>2, <2>7, <2>8 DEF prevValid, valid, d
    <3>6. ASSUME src # "app" \/ ~half, NEW k \in DOMAIN d, ~passed(d[k]) PROVE prevValid(z.st.prev, f) /\ k > z.st.prev.offset
      BY <2>13, <3>2, <3>3, <3>5, <3>6
    <3>7. QED
      BY <3>4, <3>6, <1>2 DEF Covered, c, d, z
  <2>15. CASE ~a.more
    <3>1. z.acc = b /\ Moved(z.st, s, b.at, NoPrev)
      BY <2>2, <2>15
    <3>2. z.st.offset = b.at
      BY <3>1 DEF Moved
    <3>3. ASSUME NEW k \in DOMAIN c, k <= z.st.offset PROVE passed(c[k])
      <4>1. CASE k <= s.offset
        BY <4>1, <2>3, <2>21
      <4>2. CASE s.offset < k
        <5>1. c[k].n \in Some(c, s.offset, b.at) \/ c[k].size > maxResult
          BY <3>2, <3>3, <4>2, <2>6, <2>7, <2>9, <1>3, InSome
        <5>2. QED
          BY <5>1, <2>9, <2>21, <3>1
      <4>3. QED
        BY <4>1, <4>2, <2>6, <2>10
    <3>4. ASSUME src # "app" \/ ~half, NEW k \in DOMAIN d PROVE passed(d[k])
      BY <2>13, <2>15, <3>4
    <3>5. QED
      BY <3>3, <3>4, <1>2 DEF Covered, c, d, z
  <2>16. QED
    BY <2>7, <2>14, <2>15
<1>8. QED
  BY <1>5, <1>6, <1>7

(***************************************************************************)
(* What a reading finds                                                    *)
(***************************************************************************)

\* The two readings of one look: what is said of the accumulator after each.
LEMMA TwoReadings ==
    ASSUME NEW st \in Place, NEW f \in Files, NEW acc \in Acc, st.known, f.cur.exists
    PROVE  LET s == Switched(st, f)
               a == Rest(s, f, acc)
               b == Newer(s, f, acc)
           IN  /\ readSource(st, f, acc).acc = IF a.more THEN a ELSE b
               /\ s \in Place /\ a \in Acc /\ b \in Acc
               /\ s.offset \in 0 .. Len(f.cur.lines)
               /\ ReadOK(f.cur.lines, s.offset, a, Len(f.cur.lines), b)
               /\ prevValid(s.prev, f) => /\ s.prev.offset \in 0 .. Len(f.prev.lines)
                                          /\ ReadOK(f.prev.lines, s.prev.offset, acc, Len(f.prev.lines), a)
               /\ ~prevValid(s.prev, f) => /\ a.more = FALSE /\ a.events = acc.events
                                           /\ a.left = acc.left /\ a.share = acc.share /\ a.taken = acc.taken
<1> DEFINE s == Switched(st, f)
           a == Rest(s, f, acc)
           b == Newer(s, f, acc)
<1>1. s \in Place /\ s.offset <= Len(f.cur.lines)
  BY SwitchedIs, SwitchedFits
<1>2. readSource(st, f, acc).acc = IF a.more THEN a ELSE b
  BY ReadSourceIs
<1> HIDE DEF s
<1>3. /\ a \in Acc
      /\ prevValid(s.prev, f) => /\ s.prev.offset \in 0 .. Len(f.prev.lines)
                                 /\ ReadOK(f.prev.lines, s.prev.offset, acc, Len(f.prev.lines), a)
      /\ ~prevValid(s.prev, f) => /\ a.more = FALSE /\ a.events = acc.events
                                  /\ a.left = acc.left /\ a.share = acc.share /\ a.taken = acc.taken
  BY <1>1, RestRead
<1>4. b \in Acc /\ s.offset \in 0 .. Len(f.cur.lines) /\ ReadOK(f.cur.lines, s.offset, a, Len(f.cur.lines), b)
  BY <1>1, NewerRead
<1> HIDE DEF a, b
<1>5. QED
  BY <1>1, <1>2, <1>3, <1>4 DEF s, a, b

LEMMA SomeGrows ==
    ASSUME NEW lines \in Seq(Line), NEW i \in Nat, NEW j \in Nat, j <= Len(lines)
    PROVE  Some(lines, i, j) \subseteq Some(lines, i, Len(lines))
<1>1. \A m \in i + 1 .. j : m \in i + 1 .. Len(lines)
  OBVIOUS
<1>2. QED
  BY <1>1 DEF Some

LEMMA NoEvents == \A e \in Seq(Number) : (ToSet(e) = {} <=> e = <<>>) /\ (e = <<>> => Len(e) = 0)
<1>1. SUFFICES ASSUME NEW e \in Seq(Number) PROVE ToSet(e) = {} <=> e = <<>>
  OBVIOUS
<1>2. ToSet(e) = {e[k] : k \in 1 .. Len(e)}
  BY ToSetIs
<1>3. e # <<>> => 1 \in 1 .. Len(e)
  BY EmptySeq
<1>4. e = <<>> => 1 .. Len(e) = {}
  OBVIOUS
<1>5. QED
  BY <1>2, <1>3, <1>4

\* A source whose turn it is with a whole report to fill, and that gives nothing, has
\* nothing to give to anybody.
LEMMA NothingThere ==
    ASSUME NEW st \in Place, NEW f \in Files, NEW acc \in Acc, NEW other \in Acc,
           acc.events = <<>>, acc.taken = 0, acc.left >= maxResult, other.events = <<>>,
           readSource(st, f, acc).acc.events = <<>>
    PROVE  ToSet(readSource(st, f, other).acc.events) = {}
<1>1. ToSet(<<>>) = {}
  BY DEF ToSet
<1>2. CASE ~st.known
  BY <1>1, <1>2 DEF readSource
<1>3. CASE st.known /\ f.cur.exists
  <2> DEFINE s == Switched(st, f)
             a == Rest(s, f, acc)
             b == Newer(s, f, acc)
             a2 == Rest(s, f, other)
             b2 == Newer(s, f, other)
             c == f.cur.lines
             d == f.prev.lines
             valid == prevValid(s.prev, f)
  <2>1. /\ readSource(st, f, acc).acc = IF a.more THEN a ELSE b
        /\ s \in Place /\ a \in Acc /\ b \in Acc
        /\ s.offset \in 0 .. Len(c)
        /\ ReadOK(c, s.offset, a, Len(c), b)
        /\ valid => s.prev.offset \in 0 .. Len(d) /\ ReadOK(d, s.prev.offset, acc, Len(d), a)
        /\ ~valid => a.more = FALSE /\ a.events = acc.events /\ a.left = acc.left /\ a.taken = acc.taken
    BY <1>3, TwoReadings
  <2>2. /\ readSource(st, f, other).acc = IF a2.more THEN a2 ELSE b2
        /\ a2 \in Acc /\ b2 \in Acc
        /\ ReadOK(c, s.offset, a2, Len(c), b2)
        /\ valid => ReadOK(d, s.prev.offset, other, Len(d), a2)
        /\ ~valid => a2.events = other.events
    BY <1>3, TwoReadings
  <2> HIDE DEF s, a, b, a2, b2, c, d, valid
  <2>3. /\ a.events \in Seq(Number) /\ b.events \in Seq(Number) /\ a.taken \in Nat /\ b.taken \in Nat
        /\ a2.at \in Nat /\ b2.at \in Nat /\ a.more \in BOOLEAN
    BY <2>1, <2>2 DEF Acc
  <2>4. ToSet(acc.events) = {} /\ ToSet(other.events) = {}
    BY <1>1
  <2>5. ToSet(a.events) \subseteq ToSet(b.events)
    BY <2>1 DEF ReadOK
  <2>6. a.events = <<>>
    <3>1. ToSet(a.events) = {}
      BY <2>1, <2>3, <2>5, <1>1
    <3>2. QED
      BY <3>1, <2>3, NoEvents
  <2>7. a.taken = 0
    <3>1. CASE valid
      <4>1. Counted(acc, a)
        BY <3>1, <2>1 DEF ReadOK
      <4>2. a.taken - 0 = Len(<<>>) - Len(<<>>)
        BY <4>1, <2>6 DEF Counted
      <4>3. QED
        BY <4>2, <2>3
    <3>2. CASE ~valid
      BY <3>2, <2>1
    <3>3. QED
      BY <3>1, <3>2
  <2>8. ~a.more /\ a.left = acc.left /\ (valid => Some(d, s.prev.offset, Len(d)) = {})
    <3>1. CASE valid
      BY <3>1, <2>1, <2>6, <2>7 DEF ReadOK
    <3>2. CASE ~valid
      BY <3>2, <2>1
    <3>3. QED
      BY <3>1, <3>2
  <2>9. b.events = <<>>
    BY <2>1, <2>8
  <2>10. b.taken = 0
    <3>1. Counted(a, b)
      BY <2>1 DEF ReadOK
    <3>2. b.taken - 0 = Len(<<>>) - Len(<<>>)
      BY <3>1, <2>6, <2>7, <2>9 DEF Counted
    <3>3. QED
      BY <3>2, <2>3
  <2>11. Some(c, s.offset, Len(c)) = {}
    BY <2>1, <2>6, <2>7, <2>8, <2>9, <2>10 DEF ReadOK
  <2>12. c \in Seq(Line) /\ d \in Seq(Line) /\ s.offset \in Nat /\ s.prev.offset \in Nat
    BY <2>1, FileTypes, PlaceTypes DEF c, d
  <2>13. ToSet(a2.events) = {}
    <3>1. CASE valid
      <4>1. ToSet(a2.events) = ToSet(other.events) \union Some(d, s.prev.offset, a2.at) /\ a2.at <= Len(d)
        BY <3>1, <2>2 DEF ReadOK
      <4>2. Some(d, s.prev.offset, a2.at) = {}
        BY <3>1, <4>1, <2>3, <2>8, <2>12, SomeGrows
      <4>3. QED
        BY <4>1, <4>2, <2>4
    <3>2. CASE ~valid
      BY <3>2, <2>2, <2>4
    <3>3. QED
      BY <3>1, <3>2
  <2>14. ToSet(b2.events) = {}
    <3>1. ToSet(b2.events) = ToSet(a2.events) \union Some(c, s.offset, b2.at) /\ b2.at <= Len(c)
      BY <2>2 DEF ReadOK
    <3>2. Some(c, s.offset, b2.at) = {}
      BY <3>1, <2>3, <2>11, <2>12, SomeGrows
    <3>3. QED
      BY <3>1, <3>2, <2>13
  <2>15. QED
    BY <2>2, <2>13, <2>14
<1>4. CASE st.known /\ ~f.cur.exists
  <2>1. \A q \in Acc : readSource(st, f, q).acc = Rest(st, f, q)
    BY <1>4 DEF readSource, Rest
  <2> DEFINE a == Rest(st, f, acc)
             a2 == Rest(st, f, other)
             d == f.prev.lines
             valid == prevValid(st.prev, f)
  <2>2. /\ a \in Acc /\ a2 \in Acc
        /\ valid => /\ st.prev.offset \in 0 .. Len(d)
                    /\ ReadOK(d, st.prev.offset, acc, Len(d), a)
                    /\ ReadOK(d, st.prev.offset, other, Len(d), a2)
        /\ ~valid => a2.events = other.events
    BY RestRead
  <2>3. a.events = <<>> /\ readSource(st, f, other).acc = a2
    BY <2>1
  <2> HIDE DEF a, a2, d, valid
  <2>4. CASE ~valid
    BY <2>2, <2>3, <2>4, <1>1
  <2>5. CASE valid
    <3>1. a.taken \in Nat /\ a2.at \in Nat /\ Counted(acc, a)
      BY <2>2, <2>5 DEF ReadOK, Acc
    <3>2. a.taken - 0 = Len(<<>>) - Len(<<>>)
      BY <3>1, <2>3 DEF Counted
    <3>3. a.taken = 0
      BY <3>1, <3>2
    <3>4. Some(d, st.prev.offset, Len(d)) = {}
      BY <3>3, <2>2, <2>3, <2>5 DEF ReadOK
    <3>5. ToSet(a2.events) = ToSet(other.events) \union Some(d, st.prev.offset, a2.at) /\ a2.at <= Len(d)
      BY <2>2, <2>5 DEF ReadOK
    <3>6. d \in Seq(Line) /\ st.prev.offset \in Nat
      BY FileTypes, PlaceTypes DEF d
    <3>7. Some(d, st.prev.offset, a2.at) = {}
      BY <3>1, <3>4, <3>5, <3>6, SomeGrows
    <3>8. QED
      BY <3>5, <3>7, <2>3, <1>1
  <2>6. QED
    BY <2>4, <2>5
<1>5. QED
  BY <1>2, <1>3, <1>4

\* The numbers of the lines of a log are different ones out of 1 .. MaxLines.
LEMMA FewLines ==
    ASSUME NEW lines \in Seq(Line), Distinct(lines)
    PROVE  Len(lines) <= MaxLines
<1> DEFINE n == Len(lines)
           f == [k \in 1 .. n |-> lines[k].n]
<1>1. n \in Nat /\ MaxLines \in Nat
  BY Constants
<1>2. IsFiniteSet(1 .. n) /\ Cardinality(1 .. n) = n
  <2>1. n >= 0
    BY <1>1
  <2>2. IsFiniteSet(1 .. n) /\ Cardinality(1 .. n) = IF 1 > n THEN 0 ELSE n - 1 + 1
    BY <1>1, FS_Interval, SMTT(30)
  <2> HIDE DEF n
  <2>3. QED
    BY <1>1, <2>1, <2>2
<1>3. IsFiniteSet(Number) /\ Cardinality(Number) = MaxLines
  <2>1. IsFiniteSet(1 .. MaxLines) /\ Cardinality(1 .. MaxLines) = IF 1 > MaxLines THEN 0 ELSE MaxLines - 1 + 1
    BY <1>1, FS_Interval
  <2>2. QED
    BY <1>1, <2>1 DEF Number
<1>4. f \in [1 .. n -> Number]
  <2>1. \A k \in 1 .. n : lines[k] \in Line
    OBVIOUS
  <2>2. QED
    BY <2>1 DEF Line
<1>5. \A i, j \in 1 .. n : f[i] = f[j] => i = j
  BY DEF Distinct
<1>6. SUFFICES ASSUME ~(n <= MaxLines) PROVE FALSE
  OBVIOUS
<1> HIDE DEF f, n
<1>7. Cardinality(Number) < Cardinality(1 .. n)
  BY <1>1, <1>2, <1>3, <1>6
<1>8. \E i, j \in 1 .. n : i # j /\ f[i] = f[j]
  BY <1>2, <1>3, <1>4, <1>7, FS_PigeonHole
<1>9. QED
  BY <1>5, <1>8

LEMMA MoreTimes == \A m, i, j \in Nat : i <= j => m * i <= m * j /\ m * i \in Nat /\ m * j \in Nat
<1>1. SUFFICES ASSUME NEW m \in Nat, NEW i \in Nat, NEW j \in Nat, i <= j
               PROVE  m * i <= m * j /\ m * i \in Nat /\ m * j \in Nat
  OBVIOUS
<1> DEFINE k == j - i
           p == m * i
           q == m * k
           r == m * j
<1>2. k \in Nat /\ j = i + k
  BY <1>1
<1> HIDE DEF k
<1>3. m * (i + k) = m * i + m * k /\ m * i \in Nat /\ m * k \in Nat
  BY <1>2
<1>4. r = p + q /\ p \in Nat /\ q \in Nat
  BY <1>2, <1>3
<1> HIDE DEF p, q, r
<1>5. p <= r /\ r \in Nat
  BY <1>4
<1>6. QED
  BY <1>4, <1>5 DEF p, r

LEMMA Enough == \A n, l, p, q, h \in Nat : n = 2 * h /\ p <= h /\ q <= h /\ l >= n - p => n >= p /\ n >= q /\ l >= q
OBVIOUS

LEMMA BudgetIs ==
    ASSUME NEW n \in Nat
    PROVE  /\ Budget(n) \in Acc /\ Budget(n).events = <<>> /\ Budget(n).taken = 0 /\ Budget(n).left = n
           /\ [Budget(n) EXCEPT !.share = n] = [left |-> n, share |-> n, taken |-> 0, events |-> <<>>, at |-> 0, more |-> FALSE]
           /\ [Budget(n) EXCEPT !.share = n] \in Acc
<1> DEFINE h == n \div 2
           b == Budget(n)
           w == [left |-> n, share |-> n, taken |-> 0, events |-> <<>>, at |-> 0, more |-> FALSE]
<1>1. b = [left |-> n, share |-> h, taken |-> 0, events |-> <<>>, at |-> 0, more |-> FALSE]
  BY DEF Budget
<1>2. h \in Int /\ n \in Int
  OBVIOUS
<1>3. <<>> \in Seq(Number)
  OBVIOUS
<1> HIDE DEF h, b
<1>4. b \in Acc /\ b.events = <<>> /\ b.taken = 0 /\ b.left = n
  BY <1>1, <1>2, <1>3 DEF Acc
<1>5. [b EXCEPT !.share = n] = w
  <2> DEFINE v == [b EXCEPT !.share = n]
  <2>1. v \in Acc /\ v.share = n /\ v.left = b.left /\ v.taken = b.taken /\ v.events = b.events /\ v.at = b.at /\ v.more = b.more
    BY <1>2, <1>4 DEF Acc
  <2>2. b.at = 0 /\ b.more = FALSE
    BY <1>1
  <2> HIDE DEF v
  <2>3. v = w
    BY <1>4, <2>1, <2>2 DEF Acc
  <2>4. QED
    BY <2>3 DEF v
<1>6. w \in Acc
  BY <1>2, <1>3 DEF Acc
<1>7. QED
  BY <1>4, <1>5, <1>6 DEF b

\* What a Collect without limits reads is everything.
LEMMA NoLimitIs ==
    /\ NoLimit \in Acc
    /\ NoLimit.events = <<>>
    /\ NoLimit.share = NoLimit.left
    /\ maxResult * MaxLines \in Nat
    /\ NoLimit.left = 2 * (maxResult * MaxLines)
<1> DEFINE n == 2 * MaxLines * maxResult
           h == maxResult * MaxLines
<1>1. h \in Nat /\ n = 2 * h
  BY Constants
<1>2. NoLimit = [Budget(n) EXCEPT !.share = n]
  BY DEF NoLimit
<1> HIDE DEF n, h
<1>3. n \in Nat /\ n \in Int
  BY <1>1
<1>7. NoLimit = [left |-> n, share |-> n, taken |-> 0, events |-> <<>>, at |-> 0, more |-> FALSE]
  BY <1>2, <1>3, BudgetIs
<1>4. <<>> \in Seq(Number)
  OBVIOUS
<1>5. NoLimit \in Acc
  BY <1>3, <1>4, <1>7 DEF Acc
<1>6. QED
  BY <1>1, <1>5, <1>7 DEF h

LEMMA Everything ==
    ASSUME NEW src \in Source, NEW last \in Nat, NEW half \in BOOLEAN, NEW st \in Place, NEW f \in Files,
           st.known, f.cur.exists, LogOK(src, f, last, half)
    PROVE  LET s == Switched(st, f)
               found == ToSet(readSource(st, f, NoLimit).acc.events)
           IN  /\ s.offset \in Nat /\ Some(f.cur.lines, s.offset, Len(f.cur.lines)) \subseteq found
               /\ prevValid(s.prev, f) => s.prev.offset \in Nat /\ Some(f.prev.lines, s.prev.offset, Len(f.prev.lines)) \subseteq found
<1> DEFINE s == Switched(st, f)
           a == Rest(s, f, NoLimit)
           b == Newer(s, f, NoLimit)
           c == f.cur.lines
           d == f.prev.lines
           valid == prevValid(s.prev, f)
           z == readSource(st, f, NoLimit).acc
<1>1. /\ z = IF a.more THEN a ELSE b
      /\ s \in Place /\ a \in Acc /\ b \in Acc
      /\ s.offset \in 0 .. Len(c)
      /\ ReadOK(c, s.offset, a, Len(c), b)
      /\ valid => s.prev.offset \in 0 .. Len(d) /\ ReadOK(d, s.prev.offset, NoLimit, Len(d), a)
      /\ ~valid => a.more = FALSE /\ a.left = NoLimit.left /\ a.share = NoLimit.share
  BY NoLimitIs, TwoReadings
<1>2. c \in Seq(Line) /\ d \in Seq(Line) /\ Len(c) <= MaxLines /\ Len(d) <= MaxLines /\ Len(c) \in Nat /\ Len(d) \in Nat
  BY FileTypes, FewLines DEF LogOK
<1>3. NoLimit.share = NoLimit.left /\ NoLimit.left = 2 * (maxResult * MaxLines) /\ maxResult * MaxLines \in Nat
  BY NoLimitIs
<1> HIDE DEF s, a, b, c, d, valid, z
<1>4. a.left \in Nat /\ b.at \in Nat /\ a.at \in Nat /\ s.offset \in Nat /\ s.prev.offset \in Nat
  BY <1>1, PlaceTypes DEF Acc
<1> DEFINE h == maxResult * MaxLines
           p == maxResult * (Len(d) - s.prev.offset)
           q == maxResult * (Len(c) - s.offset)
           n == NoLimit.left
<1>5. h \in Nat /\ n = 2 * h /\ n \in Nat
  BY <1>3
<1>6. q \in Nat /\ q <= h
  <2>1. Len(c) - s.offset \in Nat /\ Len(c) - s.offset <= MaxLines
    BY <1>1, <1>2, <1>4, Constants
  <2>2. QED
    BY <2>1, MoreTimes, Constants
<1>7. valid => p \in Nat /\ p <= h
  <2>1. valid => Len(d) - s.prev.offset \in Nat /\ Len(d) - s.prev.offset <= MaxLines
    BY <1>1, <1>2, <1>4, Constants
  <2>2. QED
    BY <2>1, MoreTimes, Constants
<1> HIDE DEF h, p, q
<1>8. ~a.more /\ a.share = a.left /\ a.left >= q
  <2>1. CASE valid
    <3>1. n >= p => ~a.more /\ a.share = a.left /\ a.left >= n - p
      BY <2>1, <1>1, <1>3 DEF ReadOK, p
    <3>2. n >= p
      BY <2>1, <1>5, <1>7
    <3>3. a.left >= n - p
      BY <3>1, <3>2
    <3>4. n = 2 * h /\ p <= h /\ q <= h
      BY <2>1, <1>5, <1>6, <1>7
    <3> HIDE DEF n
    <3>5. a.left >= q
      BY <2>1, <3>3, <3>4, <1>4, <1>5, <1>6, <1>7, Enough
    <3>6. QED
      BY <3>1, <3>2, <3>5
  <2>2. CASE ~valid
    <3>1. n >= q
      BY <1>5, <1>6
    <3>2. QED
      BY <2>2, <3>1, <1>1, <1>3
  <2>3. QED
    BY <2>1, <2>2
<1>9. ~b.more /\ b.at = Len(c)
  BY <1>1, <1>8 DEF ReadOK, q
<1>10. z = b
  BY <1>1, <1>8
<1>11. ToSet(a.events) \subseteq ToSet(b.events) /\ Some(c, s.offset, Len(c)) \subseteq ToSet(b.events)
  BY <1>1, <1>9 DEF ReadOK
<1>12. valid => Some(d, s.prev.offset, Len(d)) \subseteq ToSet(a.events)
  <2>1. valid => a.at = Len(d)
    BY <1>1, <1>8 DEF ReadOK
  <2>2. QED
    BY <2>1, <1>1 DEF ReadOK
<1>13. QED
  BY <1>4, <1>10, <1>11, <1>12 DEF s, c, d, valid, z

\* So it finds every line behind the place that no earlier one has taken.
LEMMA Found ==
    ASSUME NEW src \in Source, NEW last \in Nat, NEW half \in BOOLEAN, NEW st \in Place, NEW f \in Files,
           st.known, LogOK(src, f, last, half), NEW D, NEW r, Covered(src, st, f, half, D, r),
           NEW l \in Lines(f), l.n \notin D, l.size <= maxResult,
           Unmatched(src, st, f) => l.n \notin Numbers(f.prev.lines)
    PROVE  l.n \in ToSet(readSource(st, f, NoLimit).acc.events)
<1> DEFINE s == Switched(st, f)
           c == f.cur.lines
           d == f.prev.lines
           found == ToSet(readSource(st, f, NoLimit).acc.events)
<1>1. c \in Seq(Line) /\ d \in Seq(Line) /\ Distinct(c) /\ Distinct(d)
  BY FileTypes DEF LogOK
<1>2. f.cur.exists
  <2>1. SUFFICES ASSUME ~f.cur.exists PROVE FALSE
    OBVIOUS
  <2>2. c = <<>> /\ d = <<>>
    BY <2>1 DEF LogOK
  <2>3. QED
    BY <2>2 DEF Lines, ToSet
<1>3. /\ s.offset \in Nat /\ Some(c, s.offset, Len(c)) \subseteq found
      /\ prevValid(s.prev, f) => s.prev.offset \in Nat /\ Some(d, s.prev.offset, Len(d)) \subseteq found
  BY <1>2, Everything
<1>4. /\ \A k \in DOMAIN c : k <= s.offset => c[k].n \in D \/ c[k].size > maxResult
      /\ src # "app" \/ ~half =>
           \A k \in DOMAIN d :
              \/ d[k].n \in D \/ d[k].size > maxResult
              \/ Unmatched(src, st, f)
              \/ prevValid(s.prev, f) /\ k > s.prev.offset
  BY <1>2, SwitchedCovered
<1>5. Lines(f) = ToSet(c) \union ToSet(d)
  BY DEF Lines
<1> HIDE DEF s, c, d, found
<1>6. l \in Line /\ ~(l.size > maxResult)
  <2>1. l \in Line
    BY <1>1, <1>5, ToSetIs
  <2>2. l.size \in Nat
    BY <2>1 DEF Line
  <2>3. QED
    BY <2>1, <2>2, Constants
<1>7. ASSUME l \in ToSet(c) PROVE l.n \in found
  <2>1. PICK k \in 1 .. Len(c) : l = c[k]
    BY <1>1, <1>7, ToSetIs
  <2>2. k \in DOMAIN c /\ k \in Nat /\ k <= Len(c) /\ Len(c) \in Nat
    BY <1>1
  <2>3. ~(k <= s.offset)
    BY <2>1, <2>2, <1>4, <1>6
  <2>4. s.offset < k
    BY <2>2, <2>3, <1>3
  <2>5. c[k].n \in Some(c, s.offset, Len(c)) \/ c[k].size > maxResult
    BY <2>2, <2>4, <1>1, <1>3, InSome
  <2>6. QED
    BY <2>1, <2>5, <1>3, <1>6
<1>8. ASSUME l \in ToSet(d) PROVE l.n \in found
  <2>1. PICK k \in 1 .. Len(d) : l = d[k]
    BY <1>1, <1>8, ToSetIs
  <2>2. k \in DOMAIN d /\ k \in Nat /\ k <= Len(d) /\ Len(d) \in Nat
    BY <1>1
  <2>3. CASE src = "app" /\ half
    <3>1. matches(d, c)
      BY <2>3 DEF LogOK, c, d
    <3>2. DOMAIN d \subseteq DOMAIN c /\ d[k] = c[k] /\ DOMAIN c = 1 .. Len(c)
      BY <3>1, <2>2, <1>1, PrefixIs
    <3>3. l \in ToSet(c)
      BY <3>2, <2>1, <2>2, <1>1, ToSetIs
    <3>4. QED
      BY <3>3, <1>7
  <2>4. CASE ~(src = "app" /\ half)
    <3>1. d[k].n \in Numbers(d)
      BY <2>1, <1>1, NumbersIs
    <3>2. ~Unmatched(src, st, f)
      BY <3>1, <2>1 DEF d
    <3>3. prevValid(s.prev, f) /\ k > s.prev.offset
      BY <3>2, <2>1, <2>2, <2>4, <1>4, <1>6
    <3>4. s.prev.offset < k
      BY <3>3, <2>2, <1>3
    <3>5. d[k].n \in Some(d, s.prev.offset, Len(d)) \/ d[k].size > maxResult
      BY <2>2, <3>3, <3>4, <1>1, <1>3, InSome
    <3>6. QED
      BY <2>1, <3>3, <3>5, <1>3, <1>6
  <2>5. QED
    BY <2>3, <2>4
<1>9. QED
  BY <1>5, <1>7, <1>8 DEF found

(***************************************************************************)
(* nextcloud.jsonl                                                         *)
(***************************************************************************)

Mark == [known : BOOLEAN, size : Nat, head : Seq(Copy)]

\* recoverAppend, of any mark and any file.
Recovered(m, log) ==
    IF m.known /\ Len(log) > m.size /\ matches(m.head, log) THEN SubSeq(log, 1, m.size) ELSE log

LEMMA RecoverAppendIs == recoverAppend = Recovered(state.appending, jsonl)
BY DEF recoverAppend, Recovered

LEMMA RecoveredIs ==
    ASSUME NEW m \in Mark, NEW log \in Seq(Copy)
    PROVE  /\ Recovered(m, log) \in Seq(Copy)
           /\ Numbers(Recovered(m, log)) \subseteq Numbers(log)
           /\ IsInjective(log) => IsInjective(Recovered(m, log))
           /\ Recovered(m, Recovered(m, log)) = Recovered(m, log)
           /\ ~m.known \/ Len(log) <= m.size => Recovered(m, log) = log
<1> DEFINE r == Recovered(m, log)
<1>1. m.known \in BOOLEAN /\ m.size \in Nat /\ m.head \in Seq(Copy) /\ Len(log) \in Nat
  BY DEF Mark
<1>2. ~m.known \/ Len(log) <= m.size => r = log
  BY <1>1 DEF Recovered
<1>3. CASE m.known /\ Len(log) > m.size /\ matches(m.head, log)
  <2>1. r = SubSeq(log, 1, m.size)
    BY <1>3 DEF Recovered
  <2> HIDE DEF r
  <2>2. r \in Seq(Copy) /\ Len(r) = m.size /\ \A k \in 1 .. m.size : r[k] = log[k] /\ k \in 1 .. Len(log)
    BY <1>1, <1>3, <2>1
  <2>3. Numbers(r) \subseteq Numbers(log)
    BY <2>2, NumbersIs
  <2>4. IsInjective(log) => IsInjective(r)
    BY <2>2, Injective
  <2>5. Recovered(m, r) = r
    BY <1>1, <2>2 DEF Recovered
  <2>6. QED
    BY <1>2, <2>2, <2>3, <2>4, <2>5 DEF r
<1>4. CASE ~(m.known /\ Len(log) > m.size /\ matches(m.head, log))
  <2>1. r = log
    BY <1>4 DEF Recovered
  <2>2. QED
    BY <2>1
<1>5. QED
  BY <1>3, <1>4

\* Copies of the first k events, behind what the log holds; the mark that was set for
\* them cuts them off again.
LEMMA Appended ==
    ASSUME NEW log \in Seq(Copy), NEW e \in Seq(Number), NEW k \in 0 .. Len(e)
    PROVE  LET new == log \o [i \in 1 .. k |-> [n |-> e[i]]]
               m == [known |-> TRUE, size |-> Len(log), head |-> readHead(log)]
           IN  /\ new \in Seq(Copy)
               /\ Numbers(new) \subseteq Numbers(log) \union ToSet(e)
               /\ k = Len(e) => ToSet(e) \subseteq Numbers(new)
               /\ Numbers(log) \subseteq Numbers(new)
               /\ Recovered(m, new) = log
               /\ IsInjective(log) /\ IsInjective(e) /\ ToSet(e) \intersect Numbers(log) = {} => IsInjective(new)
<1> DEFINE t == [i \in 1 .. k |-> [n |-> e[i]]]
           new == log \o t
           m == [known |-> TRUE, size |-> Len(log), head |-> readHead(log)]
<1>1. k \in Nat /\ k <= Len(e) /\ Len(e) \in Nat /\ Len(log) \in Nat
  OBVIOUS
<1>2. \A i \in 1 .. k : i \in 1 .. Len(e) /\ e[i] \in Number
  OBVIOUS
<1>3. t \in Seq(Copy) /\ Len(t) = k /\ \A i \in 1 .. k : t[i].n = e[i]
  <2>1. t \in [1 .. k -> Copy]
    BY <1>2 DEF Copy
  <2>2. \A i \in 1 .. k : t[i].n = e[i]
    OBVIOUS
  <2> HIDE DEF t
  <2>3. QED
    BY <2>1, <2>2, <1>1
<1> HIDE DEF t
<1>4. /\ new \in Seq(Copy) /\ Len(new) = Len(log) + k
      /\ \A i \in 1 .. Len(log) : new[i] = log[i]
  <2>1. t \in Seq(Copy) /\ Len(t) = k
    BY <1>3
  <2>2. log \o t \in Seq(Copy) /\ Len(log \o t) = Len(log) + Len(t)
    BY <2>1
  <2>3. \A i \in 1 .. Len(log) : (log \o t)[i] = log[i]
    BY <2>1
  <2>4. QED
    BY <2>1, <2>2, <2>3
<1>5. ToSet(new) = ToSet(log) \union ToSet(t)
  BY <1>3, ToSetConcat
<1>6. Numbers(new) = Numbers(log) \union Numbers(t)
  BY <1>5 DEF Numbers
<1> HIDE DEF new
<1>7. Numbers(t) = {t[i].n : i \in 1 .. k} /\ ToSet(e) = {e[i] : i \in 1 .. Len(e)}
  <2>1. Numbers(t) = {t[i].n : i \in 1 .. Len(t)}
    BY <1>3, NumbersIs
  <2>2. ToSet(e) = {e[i] : i \in 1 .. Len(e)}
    BY ToSetIs
  <2>3. QED
    BY <2>1, <2>2, <1>3
<1>8. Numbers(t) \subseteq ToSet(e) /\ (k = Len(e) => ToSet(e) \subseteq Numbers(t))
  BY <1>2, <1>3, <1>7
<1>9. Recovered(m, new) = log
  <2>1. m.known = TRUE /\ m.size = Len(log) /\ m.head = readHead(log)
    OBVIOUS
  <2> HIDE DEF m
  <2>2. CASE k = 0
    <3>1. Recovered(m, new) = new
      BY <1>1, <1>4, <2>1, <2>2 DEF Recovered
    <3>2. Len(new) = Len(log)
      BY <1>1, <1>4, <2>2
    <3>3. new = log
      BY <1>4, <3>2, SeqEqual
    <3>4. QED
      BY <3>1, <3>3
  <2>3. CASE k # 0
    <3>1. Len(new) > m.size
      BY <1>1, <1>4, <2>1, <2>3
    <3>2. /\ readHead(log) \in Seq(Copy) /\ Len(readHead(log)) <= Len(log)
          /\ \A i \in 1 .. Len(readHead(log)) : readHead(log)[i] = log[i]
      BY ReadHeadIs
    <3>3. matches(m.head, new)
      <4> DEFINE h == readHead(log)
      <4>1. h \in Seq(Copy) /\ Len(h) <= Len(log) /\ (\A i \in 1 .. Len(h) : h[i] = log[i]) /\ m.head = h
        BY <2>1, <3>2
      <4> HIDE DEF h
      <4>2. Len(h) <= Len(new) /\ \A i \in 1 .. Len(h) : i \in 1 .. Len(log)
        BY <1>1, <1>4, <4>1
      <4>3. \A i \in 1 .. Len(h) : h[i] = new[i]
        BY <1>4, <4>1, <4>2
      <4>4. matches(h, new)
        BY <1>4, <4>1, <4>2, <4>3, MatchesIs
      <4>5. QED
        BY <4>1, <4>4
    <3>4. Recovered(m, new) = SubSeq(new, 1, Len(log))
      BY <2>1, <3>1, <3>3 DEF Recovered
    <3>5. /\ SubSeq(new, 1, Len(log)) \in Seq(Copy) /\ Len(SubSeq(new, 1, Len(log))) = Len(log)
          /\ \A i \in 1 .. Len(log) : SubSeq(new, 1, Len(log))[i] = log[i]
      BY <1>1, <1>4
    <3>6. SubSeq(new, 1, Len(log)) = log
      BY <3>5, SeqEqual
    <3>7. QED
      BY <3>4, <3>6
  <2>4. QED
    BY <2>2, <2>3
<1>10. ASSUME IsInjective(log), IsInjective(e), ToSet(e) \intersect Numbers(log) = {} PROVE IsInjective(new)
  <2>1. IsInjective(t)
    <3>1. \A i, j \in 1 .. Len(e) : e[i] = e[j] => i = j
      BY <1>10, Injective
    <3>2. \A i, j \in 1 .. k : t[i] = t[j] => e[i] = e[j]
      BY <1>3
    <3>3. \A i, j \in 1 .. k : t[i] = t[j] => i = j
      BY <1>2, <3>1, <3>2
    <3>4. QED
      BY <1>3, <3>3, Injective
  <2>2. ToSet(log) \intersect ToSet(t) = {}
    <3>1. SUFFICES ASSUME NEW x \in ToSet(log), x \in ToSet(t) PROVE FALSE
      OBVIOUS
    <3>2. x.n \in Numbers(log) /\ x.n \in Numbers(t)
      BY <3>1 DEF Numbers
    <3>3. QED
      BY <3>2, <1>8, <1>10
  <2>3. QED
    BY <1>3, <1>10, <2>1, <2>2, InjectiveConcat DEF new
<1>11. QED
  BY <1>4, <1>6, <1>8, <1>9, <1>10 DEF new, t, m

(***************************************************************************)
(* What Nextcloud and logrotate do to the logs                             *)
(***************************************************************************)

Safe == TypeOK /\ LogsOK /\ PlacesOK /\ FreshOK /\ CopyOK

\* The numbers of the lines in the two files of a log.
Held(f) == Numbers(f.cur.lines) \union Numbers(f.prev.lines)

\* A line, a rotation or the first half of one, or a step of the other log.
Stepped(s, f, g, last, next, half, then) ==
    \/ g = f /\ (s # "app" \/ then = half) /\ next \in {last, last + 1}
    \/ then = half /\ next = last + 1 /\ \E line \in Line : line.n = next /\ Written(f, g, line)
    \/ next = last /\ (s # "app" \/ ~then) /\ Emptied(s, f, g)
    \/ next = last /\ s = "app" /\ ~half /\ then /\ CopyMade(f, g)

LEMMA LineNumber == \A line \in Line : \A last \in Nat : line.n = last + 1 => line.n > last /\ ~(line.n <= last)
OBVIOUS

LEMMA SteppedLogAndLines ==
    ASSUME NEW s \in Source, NEW f \in Files, NEW g \in Files, NEW last \in Nat, NEW next, NEW half \in BOOLEAN, NEW then \in BOOLEAN,
           Stepped(s, f, g, last, next, half, then), LogOK(s, f, last, half)
    PROVE  LogOK(s, g, next, then) /\ Held(g) \subseteq Held(f) \union {last + 1}
<1>1. CASE g = f /\ (s # "app" \/ then = half) /\ next \in {last, last + 1}
  BY <1>1, OtherLog
<1>2. ASSUME then = half, next = last + 1, NEW line \in Line, line.n = next, Written(f, g, line)
      PROVE  /\ LogOK(s, g, next, then)
             /\ Held(g) \subseteq Held(f) \union {last + 1}
  <2>1. LogOK(s, g, next, then)
    BY <1>2, WriteLog
  <2>2. Numbers(g.cur.lines) = Numbers(f.cur.lines) \union {line.n} /\ g.prev = f.prev
    BY <1>2, WrittenLines DEF Written
  <2>3. QED
    BY <2>1, <2>2, <1>2 DEF Held
<1>3. CASE next = last /\ (s # "app" \/ ~then) /\ Emptied(s, f, g)
  <2>1. LogOK(s, g, last, FALSE)
    BY <1>3, EmptiedLog
  <2>2. LogOK(s, g, last, then)
    BY <2>1, <1>3, OtherLog
  <2>3. Numbers(g.cur.lines) = {}
    BY <1>3, NumbersEmpty DEF Emptied
  <2>4. matches(g.prev.lines, f.cur.lines)
    BY <1>3, EmptiedIs
  <2>5. Numbers(g.prev.lines) \subseteq Numbers(f.cur.lines)
    BY <2>4, FileTypes, PrefixIs
  <2>6. QED
    BY <2>2, <2>3, <2>5, <1>3 DEF Held
<1>4. CASE next = last /\ s = "app" /\ ~half /\ then /\ CopyMade(f, g)
  <2>1. half = FALSE /\ then = TRUE
    BY <1>4
  <2>2. LogOK(s, g, last, TRUE)
    BY <2>1, <1>4, CopyLog
  <2>3. QED
    BY <2>1, <2>2, <1>4 DEF CopyMade, Held
<1>5. QED
  BY <1>1, <1>2, <1>3, <1>4 DEF Stepped

LEMMA SteppedLog ==
    ASSUME NEW s \in Source, NEW f \in Files, NEW g \in Files, NEW last \in Nat, NEW next, NEW half \in BOOLEAN, NEW then \in BOOLEAN,
           Stepped(s, f, g, last, next, half, then), LogOK(s, f, last, half)
    PROVE  LogOK(s, g, next, then)
BY SteppedLogAndLines

LEMMA SteppedLines ==
    ASSUME NEW s \in Source, NEW f \in Files, NEW g \in Files, NEW last \in Nat, NEW next, NEW half \in BOOLEAN, NEW then \in BOOLEAN,
           Stepped(s, f, g, last, next, half, then), LogOK(s, f, last, half)
    PROVE  Held(g) \subseteq Held(f) \union {last + 1}
BY SteppedLogAndLines

LEMMA SteppedPlace ==
    ASSUME NEW s \in Source, NEW f \in Files, NEW g \in Files, NEW last \in Nat, NEW next, NEW half \in BOOLEAN, NEW then \in BOOLEAN,
           Stepped(s, f, g, last, next, half, then), LogOK(s, f, last, half),
           NEW st \in Place, PlaceOK(s, st, f, last), Recognised(st, f), NEW G, Fresh(st, f, G), \A n \in G : n <= last
    PROVE  PlaceOK(s, st, g, next) /\ Recognised(st, g) /\ Fresh(st, g, G)
<1>1. CASE g = f /\ (s # "app" \/ then = half) /\ next \in {last, last + 1}
  BY <1>1, LaterPlace
<1>2. ASSUME then = half, next = last + 1, NEW line \in Line, line.n = next, Written(f, g, line)
      PROVE  PlaceOK(s, st, g, next) /\ Recognised(st, g) /\ Fresh(st, g, G)
  <2>1. Recognised(st, g) /\ Fresh(st, g, G)
    BY <1>2, WriteFresh
  <2>2. g.cur.exists
    BY <1>2 DEF Written
  <2>3. PlaceOK(s, st, g, last + 1)
    BY <2>2, LaterPlace
  <2>4. QED
    BY <2>1, <2>3, <1>2
<1>3. CASE next = last /\ (s # "app" \/ ~then) /\ Emptied(s, f, g)
  BY <1>3, EmptiedFresh
<1>4. CASE next = last /\ s = "app" /\ ~half /\ then /\ CopyMade(f, g)
  BY <1>4, CopyFresh
<1>5. QED
  BY <1>1, <1>2, <1>3, <1>4 DEF Stepped

\* The types of the parts, as the lemmas above want them.
LEMMA Types ==
    ASSUME TypeOK
    PROVE  /\ \A s \in Source : file[s] \in Files /\ state.files[s] \in Place /\ run.next.files[s] \in Place
           /\ bounds.lines \in Nat /\ copied \in BOOLEAN
           /\ state.appending \in Mark /\ run.next.appending \in Mark
           /\ jsonl \in Seq(Copy) /\ run.events \in Seq(Number)
<1>1. file \in [Source -> Files]
  BY DEF TypeOK, Files
<1>2. state \in StateFile /\ run.next \in StateFile
  BY DEF TypeOK
<1>3. bounds.lines \in 0 .. MaxLines /\ copied \in BOOLEAN /\ jsonl \in Seq(Copy) /\ run.events \in Seq(Number)
  BY DEF TypeOK
<1>4. bounds.lines \in Nat
  BY <1>3, Constants
<1>5. /\ state.files \in [Source -> Place] /\ run.next.files \in [Source -> Place]
      /\ state.appending \in Mark /\ run.next.appending \in Mark
  BY <1>2 DEF StateFile, Mark
<1>6. QED
  BY <1>1, <1>3, <1>4, <1>5

\* Either log steps and the other one stays: all but TypeOK is as good as before.
LEMMA LogStep ==
    ASSUME Safe, NEW t \in Source, file' \in [Source -> Files], copied' \in BOOLEAN, bounds'.lines \in Nat,
           UNCHANGED <<state, run, jsonl, archived, given>>,
           \A s \in Source : s # t => file'[s] = file[s],
           \A s \in Source : Stepped(s, file[s], file'[s], bounds.lines, bounds'.lines, copied, copied')
    PROVE  LogsOK' /\ PlacesOK' /\ FreshOK' /\ CopyOK'
<1> DEFINE last == bounds.lines
           next == bounds'.lines
<1>1. /\ \A s \in Source : file[s] \in Files /\ state.files[s] \in Place /\ run.next.files[s] \in Place
      /\ last \in Nat /\ copied \in BOOLEAN
      /\ \A s \in Source : file'[s] \in Files
  BY Types DEF Safe
<1>2. \A s \in Source : LogOK(s, file[s], last, copied)
  BY DEF Safe, LogsOK
<1>3. \A s \in Source : LogOK(s, file'[s], next, copied') /\ Held(file'[s]) \subseteq Held(file[s]) \union {last + 1}
  <2> SUFFICES ASSUME NEW s \in Source
               PROVE  LogOK(s, file'[s], next, copied') /\ Held(file'[s]) \subseteq Held(file[s]) \union {last + 1}
    OBVIOUS
  <2>1. Stepped(s, file[s], file'[s], last, next, copied, copied')
    OBVIOUS
  <2>2. LogOK(s, file'[s], next, copied')
    BY <2>1, <1>1, <1>2, SteppedLog
  <2>3. Held(file'[s]) \subseteq Held(file[s]) \union {last + 1}
    BY <2>1, <1>1, <1>2, SteppedLines
  <2>4. QED
    BY <2>2, <2>3
<1>4. \A s \in Source : \A n \in Held(file[s]) : n <= last
  BY <1>2 DEF LogOK, Held
<1>5. \A f \in Files : \A l \in Lines(f) : l.n \in Held(f)
  BY DEF Lines, Numbers, Held
<1>6. LogsOK'
  <2>1. Held(file["app"]) \intersect Held(file["audit"]) = {}
    <3>1. \A m \in Lines(file["app"]), l \in Lines(file["audit"]) : m.n # l.n
      BY DEF Safe, LogsOK
    <3>2. QED
      BY <3>1 DEF Lines, Numbers, Held
  <2>2. last + 1 \notin Held(file["app"]) /\ last + 1 \notin Held(file["audit"])
    <3>1. ~(last + 1 <= last)
      BY <1>1
    <3>2. QED
      BY <3>1, <1>4 DEF Source
  <2>3. Held(file'["app"]) \intersect Held(file'["audit"]) = {}
    <3>1. CASE t = "app"
      BY <3>1, <2>1, <2>2, <1>3 DEF Source
    <3>2. CASE t = "audit"
      BY <3>2, <2>1, <2>2, <1>3 DEF Source
    <3>3. QED
      BY <3>1, <3>2 DEF Source
  <2>4. \A m \in Lines(file'["app"]), l \in Lines(file'["audit"]) : m.n # l.n
    BY <2>3, <1>1, <1>5 DEF Source
  <2>5. QED
    BY <2>4, <1>3 DEF LogsOK
<1>7. recoverAppend' = recoverAppend /\ Kept' = Kept
  BY DEF recoverAppend, Kept
<1>8. next \in {last, last + 1}
  BY DEF Stepped
<1>9. \A n \in Kept \union Numbers(jsonl) \union ToSet(run.events) : n <= last
  BY DEF Safe, CopyOK
<1>10. \A n \in Kept \union Numbers(jsonl) \union ToSet(run.events) : n \in Nat
  <2>1. /\ \A S : \A q \in Seq(S) : ToSet(q) \subseteq S
    BY ToSetIs
  <2>2. Numbers(jsonl) \subseteq Number
    <3>1. \A c \in Copy : c.n \in Number
      BY DEF Copy
    <3>2. ToSet(jsonl) \subseteq Copy
      BY <2>1, Types DEF Safe
    <3>3. QED
      BY <3>1, <3>2 DEF Numbers
  <2>3. ToSet(run.events) \subseteq Number
    BY <2>1, Types DEF Safe
  <2>4. Numbers(recoverAppend) \subseteq Numbers(jsonl)
    BY Types, RecoverAppendIs, RecoveredIs DEF Safe
  <2>5. given \subseteq Number
    BY DEF Safe, TypeOK
  <2>6. QED
    BY <2>2, <2>3, <2>4, <2>5, Constants DEF Kept
<1>11. CopyOK'
  <2>1. \A n \in Kept \union Numbers(jsonl) \union ToSet(run.events) : n <= next
    BY <1>1, <1>8, <1>9, <1>10
  <2>2. CopyOK
    BY DEF Safe
  <2>3. QED
    BY <2>1, <2>2, <1>7 DEF CopyOK
<1>12. ASSUME NEW s \in Source
       PROVE  PlaceOK(s, state.files[s], file'[s], next) /\ Recognised(state.files[s], file'[s]) /\ Fresh(state.files[s], file'[s], Kept)
  <2>1. PlaceOK(s, state.files[s], file[s], last) /\ Recognised(state.files[s], file[s]) /\ Fresh(state.files[s], file[s], Kept)
    BY DEF Safe, PlacesOK, FreshOK
  <2>2. \A n \in Kept : n <= last
    BY <1>9
  <2> HIDE DEF Kept
  <2>3. QED
    BY <2>1, <2>2, <1>1, <1>2, SteppedPlace
<1>13. ASSUME NEW s \in Source, run.pc # "idle"
       PROVE  /\ PlaceOK(s, run.next.files[s], file'[s], next) /\ Recognised(run.next.files[s], file'[s])
              /\ Fresh(run.next.files[s], file'[s], Kept \union ToSet(run.events))
  <2> DEFINE G == Kept \union ToSet(run.events)
  <2>1. PlaceOK(s, run.next.files[s], file[s], last) /\ Recognised(run.next.files[s], file[s]) /\ Fresh(run.next.files[s], file[s], G)
    BY <1>13 DEF Safe, PlacesOK, FreshOK
  <2>2. \A n \in G : n <= last
    BY <1>9
  <2> HIDE DEF G
  <2>3. PlaceOK(s, run.next.files[s], file'[s], next) /\ Recognised(run.next.files[s], file'[s]) /\ Fresh(run.next.files[s], file'[s], G)
    BY <2>1, <2>2, <1>1, <1>2, SteppedPlace
  <2>4. QED
    BY <2>3 DEF G
<1>14. PlacesOK' /\ FreshOK'
  BY <1>7, <1>12, <1>13 DEF PlacesOK, FreshOK
<1>15. QED
  BY <1>6, <1>11, <1>14

LEMMA WriteIs ==
    ASSUME Safe, NEW t \in Source, Write(t)
    PROVE  /\ file' \in [Source -> Files] /\ bounds'.lines \in 0 .. MaxLines /\ bounds'.lines = bounds.lines + 1
           /\ bounds' \in [lines : 0 .. MaxLines, rotations : Nat, faults : Nat]
           /\ \A s \in Source : s # t => file'[s] = file[s]
           /\ \E line \in Line : line.n = bounds.lines + 1 /\ Written(file[t], file'[t], line)
<1>1. PICK size \in Sizes[t] : file' = [file EXCEPT ![t].cur =
                     [exists |-> TRUE, ino |-> IF @.exists THEN @.ino ELSE 1,
                      lines |-> Append(@.lines, [n |-> bounds.lines + 1, size |-> size])]]
  BY DEF Write
<1> DEFINE f == file[t]
           line == [n |-> bounds.lines + 1, size |-> size]
           i == IF f.cur.exists THEN f.cur.ino ELSE 1
           l == Append(f.cur.lines, line)
           c == [exists |-> TRUE, ino |-> i, lines |-> l]
           g == [f EXCEPT !.cur = c]
<1>2. file \in [Source -> Files] /\ f \in Files
  BY DEF Safe, TypeOK, Files
<1>3. bounds \in [lines : 0 .. MaxLines, rotations : Nat, faults : Nat] /\ bounds.lines < MaxLines
      /\ bounds' = [bounds EXCEPT !.lines = @ + 1]
  BY DEF Safe, TypeOK, Write
<1>4. bounds.lines + 1 \in 0 .. MaxLines /\ bounds.lines + 1 \in Number
  BY <1>3, Constants DEF Number
<1>5. bounds' \in [lines : 0 .. MaxLines, rotations : Nat, faults : Nat] /\ bounds'.lines = bounds.lines + 1
  BY <1>3, <1>4
<1>6. line \in Line /\ line.n = bounds.lines + 1
  <2>1. size \in Nat
    BY NextcloudAssumption
  <2>2. QED
    BY <2>1, <1>4 DEF Line
<1>7. file' = [file EXCEPT ![t] = g]
  BY <1>1, <1>2 DEF Files
<1> HIDE DEF line
<1>8. i \in {0} \union Inode /\ l \in Seq(Line)
  BY <1>2, <1>6, FileTypes DEF Inode
<1> HIDE DEF i, l
<1>9. c \in Log /\ c.exists = TRUE /\ c.ino = i /\ c.lines = l
  BY <1>8 DEF Log
<1> HIDE DEF c
<1>10. g \in Files /\ g.cur = c /\ g.prev = f.prev
  BY <1>2, <1>9 DEF Files
<1> HIDE DEF g, f
<1>11. file' \in [Source -> Files] /\ file'[t] = g /\ \A s \in Source : s # t => file'[s] = file[s]
  BY <1>2, <1>7, <1>10
<1>12. Written(f, g, line)
  BY <1>9, <1>10 DEF Written, i, l
<1>13. QED
  BY <1>5, <1>6, <1>11, <1>12 DEF f

LEMMA WriteSafe ==
    ASSUME Safe, NEW t \in Source, Write(t)
    PROVE  Safe'
<1>1. /\ file' \in [Source -> Files] /\ bounds'.lines \in 0 .. MaxLines /\ bounds'.lines = bounds.lines + 1
      /\ bounds' \in [lines : 0 .. MaxLines, rotations : Nat, faults : Nat]
      /\ \A s \in Source : s # t => file'[s] = file[s]
      /\ \E line \in Line : line.n = bounds.lines + 1 /\ Written(file[t], file'[t], line)
  BY WriteIs
<1>2. UNCHANGED <<copied, state, run, jsonl, archived, given, excused, starved, rotations>>
  BY DEF Write, local, history
<1>3. TypeOK'
  BY <1>1, <1>2 DEF Safe, TypeOK, Files
<1>4. copied' \in BOOLEAN /\ copied' = copied /\ bounds.lines \in Nat /\ bounds'.lines \in Nat
  BY <1>1, <1>2, Types, Constants DEF Safe
<1>5. ASSUME NEW s \in Source PROVE Stepped(s, file[s], file'[s], bounds.lines, bounds'.lines, copied, copied')
  <2>1. CASE s = t
    BY <2>1, <1>1, <1>4 DEF Stepped
  <2>2. CASE s # t
    BY <2>2, <1>1, <1>4 DEF Stepped
  <2>3. QED
    BY <2>1, <2>2
<1>6. LogsOK' /\ PlacesOK' /\ FreshOK' /\ CopyOK'
  BY <1>1, <1>2, <1>4, <1>5, LogStep
<1>7. QED
  BY <1>3, <1>6 DEF Safe

LEMMA RotationIs ==
    ASSUME Safe, NEW t \in Source, Rotation(t)
    PROVE  /\ bounds' \in [lines : 0 .. MaxLines, rotations : Nat, faults : Nat] /\ bounds'.lines = bounds.lines
           /\ rotations' \in [Source -> Nat] /\ rotations'[t] = rotations[t] + 1
           /\ \A s \in Source : s # t => rotations'[s] = rotations[s]
           /\ \A s \in Source : rotations[s] \in Nat
           /\ excused \subseteq excused' /\ excused' \subseteq Number
           /\ Numbers(file[t].cur.lines) \subseteq excused' \/
                ~(rotations[t] > 0 \/ (state.files[t].head = <<>> /\ (t = "app" \/ state.files[t].ino = 0)))
           /\ UNCHANGED <<state, run, jsonl, archived, given, starved>>
<1>1. bounds \in [lines : 0 .. MaxLines, rotations : Nat, faults : Nat] /\ bounds' = [bounds EXCEPT !.rotations = @ + 1]
  BY DEF Safe, TypeOK, Rotation
<1>2. bounds' \in [lines : 0 .. MaxLines, rotations : Nat, faults : Nat] /\ bounds'.lines = bounds.lines
  BY <1>1
<1>3. rotations \in [Source -> Nat] /\ rotations' = [rotations EXCEPT ![t] = @ + 1]
  BY DEF Safe, TypeOK, Rotation
<1>4. /\ rotations' \in [Source -> Nat] /\ rotations'[t] = rotations[t] + 1
      /\ \A s \in Source : s # t => rotations'[s] = rotations[s]
  BY <1>3
<1>5. Numbers(file[t].cur.lines) \subseteq Number
  <2>1. file[t].cur.lines \in Seq(Line)
    BY Types, FileTypes DEF Safe
  <2>2. \A l \in Line : l.n \in Number
    BY DEF Line
  <2>3. ToSet(file[t].cur.lines) \subseteq Line
    BY <2>1, ToSetIs
  <2>4. QED
    BY <2>2, <2>3 DEF Numbers
<1>6. excused' = IF rotations[t] > 0 \/ (state.files[t].head = <<>> /\ (t = "app" \/ state.files[t].ino = 0))
                   THEN excused \union Numbers(file[t].cur.lines) ELSE excused
  BY DEF Rotation, Numbers
<1>7. excused \subseteq Number
  BY DEF Safe, TypeOK
<1>8. UNCHANGED <<state, run, jsonl, archived, given, starved>>
  BY DEF Rotation, local
<1>9. QED
  BY <1>2, <1>3, <1>4, <1>5, <1>6, <1>7, <1>8

\* What a rotation does to the types.
LEMMA RotationTypes ==
    ASSUME Safe, NEW t \in Source, Rotation(t), file' \in [Source -> Files], copied' \in BOOLEAN
    PROVE  TypeOK'
<1>1. /\ bounds' \in [lines : 0 .. MaxLines, rotations : Nat, faults : Nat]
      /\ rotations' \in [Source -> Nat] /\ rotations'[t] = rotations[t] + 1
      /\ \A s \in Source : s # t => rotations'[s] = rotations[s]
      /\ \A s \in Source : rotations[s] \in Nat
      /\ excused' \subseteq Number
      /\ UNCHANGED <<state, run, jsonl, archived, given, starved>>
  BY RotationIs
<1>2. run.pc # "idle" => \A s \in Source : run.rotations[s] <= rotations'[s]
  <2>1. SUFFICES ASSUME run.pc # "idle", NEW s \in Source PROVE run.rotations[s] <= rotations'[s]
    OBVIOUS
  <2>2. run.rotations[s] <= rotations[s] /\ run.rotations[s] \in Nat
    BY <2>1 DEF Safe, TypeOK
  <2>3. CASE s = t
    BY <2>2, <2>3, <1>1
  <2>4. CASE s # t
    BY <2>2, <2>4, <1>1
  <2>5. QED
    BY <2>3, <2>4
<1>3. file' \in [Source -> [cur : Log, prev : Log]]
  BY DEF Files
<1>4. TypeOK
  BY DEF Safe
<1>5. run'.pc # "idle" => \A s \in Source : run'.rotations[s] <= rotations'[s]
  BY <1>1, <1>2
<1>6. QED
  BY <1>1, <1>3, <1>4, <1>5 DEF TypeOK

LEMMA RenameIs ==
    ASSUME Safe, RenameAudit
    PROVE  /\ file' \in [Source -> Files] /\ copied' = copied /\ Rotation("audit")
           /\ \A s \in Source : s # "audit" => file'[s] = file[s]
           /\ Emptied("audit", file["audit"], file'["audit"])
<1> DEFINE t == "audit"
           f == file[t]
<1>1. PICK ino \in Inode \ {f.cur.ino} :
        file' = [file EXCEPT ![t] = [cur |-> [exists |-> TRUE, ino |-> ino, lines |-> <<>>], prev |-> f.cur]]
  BY DEF RenameAudit
<1> DEFINE c == [exists |-> TRUE, ino |-> ino, lines |-> <<>>]
           g == [cur |-> c, prev |-> f.cur]
<1>2. t \in Source /\ t # "app" /\ file \in [Source -> Files]
  BY DEF Safe, TypeOK, Files, Source
<1>3. f.cur.exists /\ copied' = copied /\ Rotation("audit")
  BY DEF RenameAudit
<1> HIDE DEF t
<1>4. c \in Log /\ c.exists /\ c.ino = ino /\ c.lines = <<>> /\ ino # 0 /\ ino # f.cur.ino
  <2>1. <<>> \in Seq(Line)
    OBVIOUS
  <2>2. ino \in {0} \union Inode /\ ino # 0 /\ ino # f.cur.ino
    BY DEF Inode
  <2>3. QED
    BY <2>1, <2>2 DEF Log
<1> HIDE DEF c
<1>5. g \in Files /\ g.cur = c /\ g.prev = f.cur
  BY <1>2, <1>4 DEF Files
<1>6. file' = [file EXCEPT ![t] = g]
  BY <1>1 DEF c
<1> HIDE DEF g, f
<1>7. file' \in [Source -> Files] /\ file'[t] = g /\ \A s \in Source : s # t => file'[s] = file[s]
  BY <1>2, <1>5, <1>6
<1>8. Emptied(t, f, g)
  BY <1>2, <1>3, <1>4, <1>5 DEF Emptied
<1>9. QED
  BY <1>3, <1>7, <1>8 DEF t, f

LEMMA CopyIs ==
    ASSUME Safe, CopyApp
    PROVE  /\ file' \in [Source -> Files] /\ copied = FALSE /\ copied' = TRUE
           /\ \A s \in Source : s # "app" => file'[s] = file[s]
           /\ CopyMade(file["app"], file'["app"])
           /\ UNCHANGED <<state, run, jsonl, archived, given, excused, starved, rotations, bounds>>
<1> DEFINE t == "app"
           f == file[t]
           i == IF f.prev.ino = 2 THEN 3 ELSE 2
           p == [f.cur EXCEPT !.ino = i]
           g == [f EXCEPT !.prev = p]
<1>1. file' = [file EXCEPT ![t].prev = [f.cur EXCEPT !.ino = IF f.prev.ino = 2 THEN 3 ELSE 2]]
      /\ copied = FALSE /\ copied' = TRUE
      /\ UNCHANGED <<state, run, jsonl, archived, given, excused, starved, rotations, bounds>>
  BY Types DEF Safe, CopyApp, local, history
<1>2. t \in Source /\ file \in [Source -> Files] /\ f \in Files
  BY DEF Safe, TypeOK, Files, Source
<1>3. f.cur.exists
  <2>1. LogOK("app", f, bounds.lines, copied)
    BY <1>2 DEF Safe, LogsOK
  <2>2. QED
    BY <2>1 DEF LogOK
<1>4. p \in Log /\ p.exists = f.cur.exists /\ p.lines = f.cur.lines
  <2>1. i \in {0} \union Inode /\ f.cur \in Log
    BY <1>2 DEF Files, Inode
  <2> HIDE DEF i
  <2>2. QED
    BY <2>1 DEF Log
<1>5. file' = [file EXCEPT ![t] = g]
  BY <1>1, <1>2 DEF Files
<1> HIDE DEF p
<1>6. g \in Files /\ g.cur = f.cur /\ g.prev = p
  BY <1>2, <1>4 DEF Files
<1> HIDE DEF g, f, t
<1>7. file' \in [Source -> Files] /\ file'[t] = g /\ \A s \in Source : s # t => file'[s] = file[s]
  BY <1>2, <1>5, <1>6
<1>8. CopyMade(f, g)
  BY <1>3, <1>4, <1>6 DEF CopyMade
<1>9. QED
  BY <1>1, <1>7, <1>8 DEF t, f

LEMMA TruncateIs ==
    ASSUME Safe, TruncateApp
    PROVE  /\ file' \in [Source -> Files] /\ copied = TRUE /\ copied' = FALSE /\ Rotation("app")
           /\ \A s \in Source : s # "app" => file'[s] = file[s]
           /\ Emptied("app", file["app"], file'["app"])
<1> DEFINE t == "app"
           f == file[t]
           c == [f.cur EXCEPT !.lines = <<>>]
           g == [f EXCEPT !.cur = c]
<1>1. file' = [file EXCEPT ![t].cur.lines = <<>>] /\ copied = TRUE /\ copied' = FALSE /\ Rotation("app")
  BY Types DEF Safe, TruncateApp
<1>2. t \in Source /\ file \in [Source -> Files] /\ f \in Files
  BY DEF Safe, TypeOK, Files, Source
<1>3. LogOK("app", f, bounds.lines, TRUE)
  BY <1>1, <1>2 DEF Safe, LogsOK
<1>4. /\ f.cur.exists /\ f.cur.ino = 1 /\ matches(f.prev.lines, f.cur.lines)
      /\ ~f.prev.exists => f.prev.lines = <<>>
  BY <1>3 DEF LogOK
<1>5. c \in Log /\ c.exists = f.cur.exists /\ c.ino = f.cur.ino /\ c.lines = <<>>
  <2>1. <<>> \in Seq(Line)
    OBVIOUS
  <2>2. QED
    BY <2>1, <1>2 DEF Files, Log
<1>6. file' = [file EXCEPT ![t] = g]
  BY <1>1, <1>2 DEF Files, Log
<1> HIDE DEF c
<1>7. g \in Files /\ g.cur = c /\ g.prev = f.prev
  BY <1>2, <1>5 DEF Files
<1> HIDE DEF g, f
<1>8. file' \in [Source -> Files] /\ file'[t] = g /\ \A s \in Source : s # t => file'[s] = file[s]
  BY <1>2, <1>6, <1>7
<1>9. Emptied("app", f, g)
  <2>1. f.cur.exists /\ g.cur.exists /\ g.cur.lines = <<>> /\ g.cur.ino = 1 /\ g.cur.ino # 0
    <3>1. g.cur = c
      BY <1>7
    <3>2. c.exists /\ c.ino = 1
      BY <1>4, <1>5
    <3>3. g.cur.exists /\ g.cur.ino = 1
      BY <3>1, <3>2
    <3>4. g.cur.lines = <<>>
      BY <3>1, <1>5
    <3>5. QED
      BY <3>3, <3>4, <1>4
  <2>2. g.prev.lines = f.prev.lines /\ g.prev.exists = f.prev.exists
    BY <1>7
  <2>3. matches(g.prev.lines, f.cur.lines) /\ (~g.prev.exists => g.prev.lines = <<>>)
    BY <2>2, <1>4
  <2>4. QED
    BY <2>1, <2>3 DEF Emptied
<1>10. QED
  BY <1>1, <1>8, <1>9 DEF f

LEMMA RenameSafe ==
    ASSUME Safe, RenameAudit
    PROVE  Safe'
<1>1. /\ file' \in [Source -> Files] /\ copied' = copied /\ Rotation("audit") /\ "audit" \in Source
      /\ \A s \in Source : s # "audit" => file'[s] = file[s]
      /\ Emptied("audit", file["audit"], file'["audit"])
  BY RenameIs DEF Source
<1>2. bounds'.lines = bounds.lines /\ UNCHANGED <<state, run, jsonl, archived, given>>
  BY <1>1, RotationIs
<1>3. copied' \in BOOLEAN /\ bounds.lines \in Nat
  BY <1>1, Types DEF Safe
<1>4. ASSUME NEW s \in Source PROVE Stepped(s, file[s], file'[s], bounds.lines, bounds'.lines, copied, copied')
  <2>1. CASE s = "audit"
    BY <2>1, <1>1, <1>2 DEF Stepped
  <2>2. CASE s # "audit"
    BY <2>2, <1>1, <1>2 DEF Stepped
  <2>3. QED
    BY <2>1, <2>2
<1>5. LogsOK' /\ PlacesOK' /\ FreshOK' /\ CopyOK'
  BY <1>1, <1>2, <1>3, <1>4, LogStep
<1>6. TypeOK'
  BY <1>1, <1>3, RotationTypes
<1>7. QED
  BY <1>5, <1>6 DEF Safe

LEMMA CopySafe ==
    ASSUME Safe, CopyApp
    PROVE  Safe'
<1>1. /\ file' \in [Source -> Files] /\ copied = FALSE /\ copied' = TRUE /\ "app" \in Source
      /\ \A s \in Source : s # "app" => file'[s] = file[s]
      /\ CopyMade(file["app"], file'["app"])
      /\ UNCHANGED <<state, run, jsonl, archived, given, excused, starved, rotations, bounds>>
  BY CopyIs DEF Source
<1>2. copied' \in BOOLEAN /\ bounds.lines \in Nat /\ bounds'.lines = bounds.lines
  BY <1>1, Types DEF Safe
<1>3. ASSUME NEW s \in Source PROVE Stepped(s, file[s], file'[s], bounds.lines, bounds'.lines, copied, copied')
  <2>1. CASE s = "app"
    BY <2>1, <1>1, <1>2 DEF Stepped
  <2>2. CASE s # "app"
    BY <2>2, <1>1, <1>2 DEF Stepped
  <2>3. QED
    BY <2>1, <2>2
<1>4. LogsOK' /\ PlacesOK' /\ FreshOK' /\ CopyOK'
  BY <1>1, <1>2, <1>3, LogStep
<1>5. TypeOK'
  BY <1>1, <1>2 DEF Safe, TypeOK, Files
<1>6. QED
  BY <1>4, <1>5 DEF Safe

LEMMA TruncateSafe ==
    ASSUME Safe, TruncateApp
    PROVE  Safe'
<1>1. /\ file' \in [Source -> Files] /\ copied = TRUE /\ copied' = FALSE /\ Rotation("app") /\ "app" \in Source
      /\ \A s \in Source : s # "app" => file'[s] = file[s]
      /\ Emptied("app", file["app"], file'["app"])
  BY TruncateIs DEF Source
<1>2. bounds'.lines = bounds.lines /\ UNCHANGED <<state, run, jsonl, archived, given>>
  BY <1>1, RotationIs
<1>3. copied' \in BOOLEAN /\ bounds.lines \in Nat
  BY <1>1, Types DEF Safe
<1>4. ASSUME NEW s \in Source PROVE Stepped(s, file[s], file'[s], bounds.lines, bounds'.lines, copied, copied')
  <2>1. CASE s = "app"
    BY <2>1, <1>1, <1>2 DEF Stepped
  <2>2. CASE s # "app"
    BY <2>2, <1>1, <1>2 DEF Stepped
  <2>3. QED
    BY <2>1, <2>2
<1>5. LogsOK' /\ PlacesOK' /\ FreshOK' /\ CopyOK'
  BY <1>1, <1>2, <1>3, <1>4, LogStep
<1>6. TypeOK'
  BY <1>1, <1>3, RotationTypes
<1>7. QED
  BY <1>5, <1>6 DEF Safe

(***************************************************************************)
(* Collect reads                                                           *)
(***************************************************************************)

\* The source that goes first and the other one with what is left; and by source.
First == readSource(state.files[Order[1]], file[Order[1]], Budget(maxResult))
Second == readSource(state.files[Order[2]], file[Order[2]], [Budget(First.acc.left) EXCEPT !.share = First.acc.left])
Part == [s \in Source |-> IF s = Order[1] THEN First ELSE Second]
Events == Part["app"].acc.events \o Part["audit"].acc.events
Skipped == (UNION {{l.n : l \in Lines(file[s])} : s \in {s \in Source : ~state.files[s].known}}) \union Unrecognised("app")

LEMMA OrderIs == Order[1] \in Source /\ Order[2] \in Source /\ \A s \in Source : s # Order[1] => s = Order[2]
BY DEF Order, Source

LEMMA ReadIs ==
    ASSUME Read
    PROVE  /\ run.pc = "idle"
           /\ run' = [pc |-> IF Events = <<>> THEN "save" ELSE "pending",
                      events |-> Events,
                      next |-> [files |-> [s \in Source |-> Part[s].st], round |-> (state.round + 1) % 2, appending |-> NoMark],
                      took |-> {s \in Source : Part[s].acc.events # <<>>},
                      waiting |-> {s \in Source : Unread(s) # {}},
                      skipped |-> Skipped,
                      rotations |-> rotations]
           /\ jsonl' = recoverAppend
           /\ UNCHANGED <<file, copied, state, archived, given, excused, starved, rotations, bounds>>
BY DEF Read, First, Second, Part, Events, Skipped, history

LEMMA PartIs ==
    ASSUME Safe, NEW s \in Source
    PROVE  /\ \E acc \in Acc : acc.events = <<>> /\ Part[s] = readSource(state.files[s], file[s], acc)
           /\ ReadWell(s, state.files[s], file[s], bounds.lines, Kept, Part[s])
<1> DEFINE st == state.files[s]
           f == file[s]
<1>1. /\ st \in Place /\ f \in Files /\ bounds.lines \in Nat /\ copied \in BOOLEAN
      /\ \A t \in Source : state.files[t] \in Place /\ file[t] \in Files
  BY Types DEF Safe
<1>2. LogOK(s, f, bounds.lines, copied) /\ PlaceOK(s, st, f, bounds.lines) /\ Recognised(st, f) /\ Fresh(st, f, Kept)
  BY DEF Safe, LogsOK, PlacesOK, FreshOK
<1>3. \A n \in Nat : /\ Budget(n) \in Acc /\ Budget(n).events = <<>>
                     /\ [Budget(n) EXCEPT !.share = n] \in Acc /\ [Budget(n) EXCEPT !.share = n].events = <<>>
  BY BudgetIs
<1>4. ASSUME NEW t \in Source, NEW acc \in Acc, acc.events = <<>>
      PROVE  ReadWell(t, state.files[t], file[t], bounds.lines, Kept, readSource(state.files[t], file[t], acc))
  <2>1. LogOK(t, file[t], bounds.lines, copied) /\ PlaceOK(t, state.files[t], file[t], bounds.lines)
        /\ Recognised(state.files[t], file[t]) /\ Fresh(state.files[t], file[t], Kept)
    BY DEF Safe, LogsOK, PlacesOK, FreshOK
  <2>2. QED
    BY <1>1, <1>4, <2>1, ReadSource
<1>5. maxResult \in Nat /\ Order[1] \in Source
  BY Constants, OrderIs
<1>6. First.acc \in Acc /\ First.acc.left \in Nat
  <2>1. ReadWell(Order[1], state.files[Order[1]], file[Order[1]], bounds.lines, Kept, First)
    BY <1>3, <1>4, <1>5 DEF First
  <2>2. QED
    BY <2>1 DEF ReadWell, Acc
<1>7. \E acc \in Acc : acc.events = <<>> /\ Part[s] = readSource(state.files[s], file[s], acc)
  <2>1. CASE s = Order[1]
    <3>1. Part[s] = readSource(state.files[s], file[s], Budget(maxResult))
      BY <2>1 DEF Part, First
    <3>2. QED
      BY <3>1, <1>3, <1>5
  <2>2. CASE s # Order[1]
    <3>1. s = Order[2]
      BY <2>2, OrderIs
    <3>2. Part[s] = readSource(state.files[s], file[s], [Budget(First.acc.left) EXCEPT !.share = First.acc.left])
      BY <2>2, <3>1 DEF Part, Second
    <3>3. QED
      BY <3>2, <1>3, <1>6
  <2>3. QED
    BY <2>1, <2>2
<1>8. QED
  BY <1>4, <1>7

\* The two logs have no event in common.
LEMMA LogsApart ==
    ASSUME Safe
    PROVE  /\ Held(file["app"]) \intersect Held(file["audit"]) = {}
           /\ \A s \in Source : Held(file[s]) \subseteq Number /\ \A n \in Held(file[s]) : n <= bounds.lines
<1>1. Held(file["app"]) \intersect Held(file["audit"]) = {}
  <2>1. \A m \in Lines(file["app"]), l \in Lines(file["audit"]) : m.n # l.n
    BY DEF Safe, LogsOK
  <2>2. QED
    BY <2>1 DEF Lines, Numbers, Held
<1>2. ASSUME NEW s \in Source PROVE Held(file[s]) \subseteq Number /\ \A n \in Held(file[s]) : n <= bounds.lines
  <2>1. file[s].cur.lines \in Seq(Line) /\ file[s].prev.lines \in Seq(Line)
    BY Types, FileTypes DEF Safe
  <2>2. \A l \in Line : l.n \in Number
    BY DEF Line
  <2>3. ToSet(file[s].cur.lines) \subseteq Line /\ ToSet(file[s].prev.lines) \subseteq Line
    BY <2>1, ToSetIs
  <2>4. Held(file[s]) \subseteq Number
    BY <2>2, <2>3 DEF Numbers, Held
  <2>5. LogOK(s, file[s], bounds.lines, copied)
    BY DEF Safe, LogsOK
  <2>6. QED
    BY <2>4, <2>5 DEF LogOK, Held
<1>3. QED
  BY <1>1, <1>2

LEMMA EventsAre ==
    ASSUME Safe
    PROVE  /\ Events \in Seq(Number) /\ IsInjective(Events) /\ ToSet(Events) \intersect Kept = {}
           /\ ToSet(Events) \subseteq Number
           /\ \A n \in ToSet(Events) : n <= bounds.lines
           /\ \A s \in Source : ToSet(Part[s].acc.events) \subseteq ToSet(Events)
           /\ \A s \in Source : ToSet(Events) \intersect Held(file[s]) \subseteq ToSet(Part[s].acc.events)
           /\ \A s \in Source : Part[s].acc.events \in Seq(Number)
<1> DEFINE e == Part["app"].acc.events
           g == Part["audit"].acc.events
<1>1. \A s \in Source : ReadWell(s, state.files[s], file[s], bounds.lines, Kept, Part[s])
  BY PartIs
<1>2. \A s \in Source : /\ Part[s].acc.events \in Seq(Number) /\ IsInjective(Part[s].acc.events)
                        /\ ToSet(Part[s].acc.events) \subseteq Held(file[s])
                        /\ ToSet(Part[s].acc.events) \intersect Kept = {}
  BY <1>1 DEF ReadWell, Acc, Held
<1>3. /\ e \in Seq(Number) /\ g \in Seq(Number) /\ IsInjective(e) /\ IsInjective(g)
      /\ ToSet(e) \subseteq Held(file["app"]) /\ ToSet(g) \subseteq Held(file["audit"])
      /\ ToSet(e) \intersect Kept = {} /\ ToSet(g) \intersect Kept = {}
  BY <1>2 DEF Source
<1>4. /\ Held(file["app"]) \intersect Held(file["audit"]) = {}
      /\ \A s \in Source : Held(file[s]) \subseteq Number /\ \A n \in Held(file[s]) : n <= bounds.lines
  BY LogsApart
<1> HIDE DEF e, g
<1>5. Events = e \o g /\ Events \in Seq(Number)
  <2>1. e \o g \in Seq(Number)
    BY <1>3
  <2>2. QED
    BY <2>1 DEF Events, e, g
<1>6. ToSet(Events) = ToSet(e) \union ToSet(g)
  BY <1>3, <1>5, ToSetConcat
<1>7. IsInjective(Events)
  BY <1>3, <1>4, <1>5, InjectiveConcat
<1>8. /\ ToSet(Part["app"].acc.events) = ToSet(e)
      /\ ToSet(Part["audit"].acc.events) = ToSet(g)
  BY DEF e, g
<1>9. \A s \in Source : ToSet(Part[s].acc.events) \subseteq ToSet(Events)
  BY <1>6, <1>8 DEF Source
<1>10. \A s \in Source : ToSet(Events) \intersect Held(file[s]) \subseteq ToSet(Part[s].acc.events)
  BY <1>3, <1>4, <1>6, <1>8 DEF Source
<1>11. ToSet(Events) \subseteq Number /\ \A n \in ToSet(Events) : n <= bounds.lines
  BY <1>3, <1>4, <1>6 DEF Source
<1>12. QED
  BY <1>2, <1>3, <1>5, <1>6, <1>7, <1>9, <1>10, <1>11

LEMMA RecoveredAfter == recoverAppend' = Recovered(state'.appending, jsonl')
BY DEF recoverAppend, Recovered

Runs == [pc : {"idle", "pending", "append", "rotate", "save"}, events : Seq(Number), next : StateFile,
         took : SUBSET Source, waiting : SUBSET Source, skipped : SUBSET Number, rotations : [Source -> Nat]]

LEMMA NoMarkIs == NoMark \in Mark /\ ~NoMark.known
<1>1. <<>> \in Seq(Copy) /\ FALSE \in BOOLEAN /\ 0 \in Nat
  OBVIOUS
<1>2. QED
  BY <1>1 DEF NoMark, Mark

LEMMA SkippedIs ==
    ASSUME Safe
    PROVE  Skipped \subseteq Number /\ \A n \in Skipped : n <= bounds.lines
<1>1. \A s \in Source : Held(file[s]) \subseteq Number /\ \A n \in Held(file[s]) : n <= bounds.lines
  BY LogsApart
<1>2. \A s \in Source : \A l \in Lines(file[s]) : l.n \in Held(file[s])
  BY DEF Lines, Numbers, Held
<1>3. Unrecognised("app") \subseteq Held(file["app"])
  BY DEF Unrecognised, Numbers, Held
<1> DEFINE H == Held(file["app"]) \union Held(file["audit"])
           S == {s \in Source : ~state.files[s].known}
           T == {{l.n : l \in Lines(file[s])} : s \in S}
<1>4. \A s \in S : {l.n : l \in Lines(file[s])} \subseteq H
  BY <1>2 DEF Source
<1> HIDE DEF S
<1>5. \A X \in T : X \subseteq H
  BY <1>4
<1>6. Skipped = (UNION T) \union Unrecognised("app")
  BY DEF Skipped, S
<1> HIDE DEF T
<1>7. Skipped \subseteq H
  BY <1>3, <1>5, <1>6
<1>8. QED
  BY <1>1, <1>7 DEF Source

LEMMA ReadTypes ==
    ASSUME Safe, Read
    PROVE  /\ run' \in Runs /\ TypeOK'
           /\ run'.pc \in {"save", "pending"} /\ run'.events = Events /\ run'.skipped = Skipped /\ run'.rotations = rotations
           /\ run'.pc = "save" => Events = <<>>
           /\ run'.next.appending = NoMark /\ run'.next.round = (state.round + 1) % 2
           /\ run'.took = {s \in Source : Part[s].acc.events # <<>>} /\ run'.waiting = {s \in Source : Unread(s) # {}}
           /\ \A s \in Source : run'.next.files[s] = Part[s].st
<1>1. \A s \in Source : Part[s].st \in Place
  BY PartIs DEF ReadWell
<1> DEFINE files == [s \in Source |-> Part[s].st]
           round == (state.round + 1) % 2
           next == [files |-> files, round |-> round, appending |-> NoMark]
           took == {s \in Source : Part[s].acc.events # <<>>}
           waiting == {s \in Source : Unread(s) # {}}
           pc == IF Events = <<>> THEN "save" ELSE "pending"
<1>2. files \in [Source -> Place] /\ \A s \in Source : files[s] = Part[s].st
  BY <1>1
<1>3. round \in 0 .. 1
  <2>1. state.round \in 0 .. 1
    BY DEF Safe, TypeOK, StateFile
  <2>2. QED
    BY <2>1
<1>4. took \in SUBSET Source /\ waiting \in SUBSET Source /\ pc \in {"save", "pending"} /\ (pc = "save" => Events = <<>>)
  OBVIOUS
<1>5. /\ run' = [pc |-> pc, events |-> Events, next |-> next, took |-> took, waiting |-> waiting,
                 skipped |-> Skipped, rotations |-> rotations]
      /\ jsonl' = recoverAppend
      /\ UNCHANGED <<file, copied, state, archived, given, excused, starved, rotations, bounds>>
  BY ReadIs
<1>6. Events \in Seq(Number) /\ Skipped \in SUBSET Number /\ rotations \in [Source -> Nat]
  <2>1. rotations \in [Source -> Nat]
    BY DEF Safe, TypeOK
  <2>2. QED
    BY <2>1, EventsAre, SkippedIs
<1> HIDE DEF files, round, took, waiting, pc
<1>7. next \in StateFile /\ next.files = files /\ next.round = round /\ next.appending = NoMark
  BY <1>2, <1>3, NoMarkIs DEF StateFile, Mark
<1> HIDE DEF next
<1>8. /\ run' \in Runs /\ run'.pc = pc /\ run'.events = Events /\ run'.next = next /\ run'.took = took /\ run'.waiting = waiting
      /\ run'.skipped = Skipped /\ run'.rotations = rotations
  BY <1>4, <1>5, <1>6, <1>7 DEF Runs
<1>9. jsonl' \in Seq(Copy)
  BY <1>5, RecoverAppendIs, RecoveredIs, Types DEF Safe
<1>10. \A s \in Source : run'.rotations[s] <= rotations'[s]
  BY <1>5, <1>6, <1>8
<1>11. TypeOK'
  BY <1>5, <1>8, <1>9, <1>10 DEF TypeOK, Runs, Safe
<1>12. QED
  BY <1>2, <1>4, <1>7, <1>8, <1>11 DEF took, waiting, round

LEMMA ReadSafe ==
    ASSUME Safe, Read
    PROVE  Safe'
<1>1. /\ TypeOK'
      /\ run'.pc \in {"save", "pending"} /\ run'.events = Events
      /\ run'.pc = "save" => Events = <<>>
      /\ run'.next.appending = NoMark
      /\ \A s \in Source : run'.next.files[s] = Part[s].st
  BY ReadTypes
<1>2. /\ run.pc = "idle" /\ jsonl' = recoverAppend
      /\ UNCHANGED <<file, copied, state, archived, given, excused, starved, rotations, bounds>>
  BY ReadIs
<1>3. /\ recoverAppend' = recoverAppend /\ recoverAppend' = jsonl' /\ Kept' = Kept
      /\ Numbers(recoverAppend) \subseteq Numbers(jsonl)
      /\ IsInjective(jsonl) => IsInjective(recoverAppend)
  <2>1. state.appending \in Mark /\ jsonl \in Seq(Copy)
    BY Types DEF Safe
  <2>2. recoverAppend = Recovered(state.appending, jsonl)
    BY RecoverAppendIs
  <2>3. recoverAppend' = Recovered(state.appending, recoverAppend)
    BY <1>2, RecoveredAfter
  <2>4. recoverAppend' = recoverAppend
    BY <2>1, <2>2, <2>3, RecoveredIs
  <2>5. Numbers(recoverAppend) \subseteq Numbers(jsonl) /\ (IsInjective(jsonl) => IsInjective(recoverAppend))
    BY <2>1, <2>2, RecoveredIs
  <2>6. QED
    BY <1>2, <2>4, <2>5 DEF Kept
<1>4. /\ Events \in Seq(Number) /\ IsInjective(Events) /\ ToSet(Events) \intersect Kept = {}
      /\ \A n \in ToSet(Events) : n <= bounds.lines
      /\ \A s \in Source : ToSet(Events) \intersect Held(file[s]) \subseteq ToSet(Part[s].acc.events)
      /\ \A s \in Source : ToSet(Part[s].acc.events) \subseteq ToSet(Events)
  BY EventsAre
<1>5. LogsOK'
  BY <1>2 DEF Safe, LogsOK
<1>6. ASSUME NEW s \in Source
      PROVE  /\ PlaceOK(s, Part[s].st, file[s], bounds.lines) /\ Recognised(Part[s].st, file[s])
             /\ Fresh(Part[s].st, file[s], Kept \union ToSet(Events))
  <2> DEFINE G == Kept \union ToSet(Part[s].acc.events)
             H == Kept \union ToSet(Events)
  <2>1. /\ PlaceOK(s, Part[s].st, file[s], bounds.lines) /\ Recognised(Part[s].st, file[s])
        /\ Fresh(Part[s].st, file[s], G) /\ Part[s].st \in Place
    BY PartIs DEF ReadWell
  <2>2. H \intersect Held(file[s]) \subseteq G
    BY <1>4
  <2>3. H \intersect (Numbers(file[s].cur.lines) \union Numbers(file[s].prev.lines)) \subseteq G
    BY <2>2 DEF Held
  <2>4. file[s] \in Files
    BY Types DEF Safe
  <2> HIDE DEF G, H
  <2>5. Fresh(Part[s].st, file[s], H)
    BY <2>1, <2>3, <2>4, FreshMore
  <2>6. QED
    BY <2>1, <2>5 DEF H
<1>7. PlacesOK' /\ FreshOK'
  <2>1. ASSUME NEW s \in Source
        PROVE  /\ PlaceOK(s, state'.files[s], file'[s], bounds'.lines) /\ Recognised(state'.files[s], file'[s])
               /\ Fresh(state'.files[s], file'[s], Kept')
    <3>1. /\ PlaceOK(s, state.files[s], file[s], bounds.lines) /\ Recognised(state.files[s], file[s])
          /\ Fresh(state.files[s], file[s], Kept)
      BY DEF Safe, PlacesOK, FreshOK
    <3>2. QED
      BY <3>1, <1>2, <1>3
  <2>2. ASSUME NEW s \in Source
        PROVE  /\ PlaceOK(s, run'.next.files[s], file'[s], bounds'.lines) /\ Recognised(run'.next.files[s], file'[s])
               /\ Fresh(run'.next.files[s], file'[s], Kept' \union ToSet(run'.events))
    BY <1>1, <1>2, <1>3, <1>6
  <2>3. QED
    BY <2>1, <2>2 DEF PlacesOK, FreshOK
<1>8. CopyOK'
  <2>1. /\ \A n \in Kept \union Numbers(jsonl) \union ToSet(run.events) : n <= bounds.lines
        /\ IsInjective(jsonl)
        /\ given \subseteq archived \union Numbers(recoverAppend)
    BY DEF Safe, CopyOK
  <2>2. \A n \in Kept' \union Numbers(jsonl') \union ToSet(run'.events) : n <= bounds'.lines
    BY <2>1, <1>1, <1>2, <1>3, <1>4
  <2>3. ToSet(run'.events) \subseteq archived' \union Numbers(jsonl') \/ run'.pc \in {"pending", "append"}
    BY <1>1, <1>4, NoEvents
  <2>4. Numbers(jsonl') \subseteq Kept'
    BY <1>2, <1>3 DEF Kept
  <2>5. run'.pc # "append" /\ run'.pc # "rotate"
    BY <1>1
  <2>6. QED
    BY <2>1, <2>2, <2>3, <2>4, <2>5, <1>1, <1>2, <1>3, <1>4 DEF CopyOK
<1>9. QED
  BY <1>1, <1>5, <1>7, <1>8 DEF Safe

(***************************************************************************)
(* Collect appends, rotates and returns                                    *)
(***************************************************************************)

LEMMA NoPlaceIs == NoPlace \in Place /\ NoPlace.known = FALSE /\ NoPlace.ino = 0 /\ NoPlace.head = <<>> /\ NoPlace.offset = 0 /\ NoPlace.prev = NoPrev
<1>1. NoPrev \in OldPlace /\ <<>> \in Seq(Line) /\ FALSE \in BOOLEAN /\ 0 \in Nat /\ 0 \in {0} \union Inode
  BY NoPrevIs
<1>2. QED
  BY <1>1 DEF NoPlace, Place

LEMMA NoStateIs == NoState \in StateFile /\ NoState.appending = NoMark /\ NoState.round = 0 /\ \A s \in Source : NoState.files[s] = NoPlace
<1> DEFINE files == [s \in Source |-> NoPlace]
<1>1. files \in [Source -> Place] /\ \A s \in Source : files[s] = NoPlace
  BY NoPlaceIs
<1>2. 0 \in 0 .. 1
  OBVIOUS
<1>3. NoState = [files |-> files, round |-> 0, appending |-> NoMark]
  BY DEF NoState
<1> HIDE DEF files
<1>4. QED
  BY <1>1, <1>2, <1>3, NoMarkIs DEF StateFile, Mark

LEMMA IdleIs == Idle \in Runs /\ Idle.pc = "idle" /\ Idle.events = <<>>
<1> DEFINE rot == [s \in Source |-> 0]
<1>1. rot \in [Source -> Nat]
  OBVIOUS
<1>2. Idle = [pc |-> "idle", events |-> <<>>, next |-> NoState, took |-> {}, waiting |-> {}, skipped |-> {}, rotations |-> rot]
  BY DEF Idle
<1>3. <<>> \in Seq(Number) /\ {} \in SUBSET Source /\ {} \in SUBSET Number
  OBVIOUS
<1> HIDE DEF rot
<1>4. QED
  BY <1>1, <1>2, <1>3, NoStateIs DEF Runs

\* What Collect leaves when it is over, whichever state is on disk then.
LEMMA Over ==
    ASSUME Safe, TypeOK', run' = Idle, file' = file, copied' = copied, bounds'.lines = bounds.lines,
           \A s \in Source : /\ PlaceOK(s, state'.files[s], file[s], bounds.lines) /\ Recognised(state'.files[s], file[s])
                             /\ Fresh(state'.files[s], file[s], Kept'),
           IsInjective(jsonl'), given' \subseteq archived' \union Numbers(recoverAppend'),
           \A n \in Kept' \union Numbers(jsonl') : n <= bounds.lines
    PROVE  Safe'
<1>1. run'.pc = "idle" /\ run'.events = <<>> /\ ToSet(run'.events) = {}
  BY IdleIs, NoEvents DEF Runs
<1>2. LogsOK'
  BY DEF Safe, LogsOK
<1>3. PlacesOK' /\ FreshOK'
  BY <1>1 DEF PlacesOK, FreshOK
<1>4. CopyOK'
  BY <1>1 DEF CopyOK
<1>5. QED
  BY <1>2, <1>3, <1>4 DEF Safe

\* As far as Collect is not over, it goes on from the same places.
LEMMA GoesOn ==
    ASSUME Safe, run.pc # "idle", TypeOK', CopyOK', run'.events = run.events, run'.next = run.next,
           file' = file, copied' = copied, bounds'.lines = bounds.lines, state'.files = state.files, Kept' \subseteq Kept
    PROVE  Safe'
<1>1. LogsOK'
  BY DEF Safe, LogsOK
<1>2. \A s \in Source : file[s] \in Files /\ state.files[s] \in Place /\ run.next.files[s] \in Place
  BY Types DEF Safe
<1>3. PlacesOK'
  BY DEF Safe, PlacesOK
<1>4. ASSUME NEW s \in Source
      PROVE  Fresh(state.files[s], file[s], Kept') /\ Fresh(run.next.files[s], file[s], Kept' \union ToSet(run.events))
  <2> DEFINE G == Kept \union ToSet(run.events)
             H == Kept' \union ToSet(run.events)
  <2>1. Fresh(state.files[s], file[s], Kept) /\ Fresh(run.next.files[s], file[s], G)
    BY DEF Safe, FreshOK
  <2>2. H \intersect (Numbers(file[s].cur.lines) \union Numbers(file[s].prev.lines)) \subseteq G
    OBVIOUS
  <2>3. Kept' \intersect (Numbers(file[s].cur.lines) \union Numbers(file[s].prev.lines)) \subseteq Kept
    OBVIOUS
  <2> HIDE DEF G, H
  <2>4. Fresh(run.next.files[s], file[s], H)
    BY <2>1, <2>2, <1>2, FreshMore
  <2>5. Fresh(state.files[s], file[s], Kept')
    BY <2>1, <2>3, <1>2, FreshMore
  <2>6. QED
    BY <2>4, <2>5 DEF H
<1>5. FreshOK'
  BY <1>4 DEF FreshOK
<1>6. QED
  BY <1>1, <1>3, <1>5 DEF Safe

\* What the invariant says of a Collect that is under way.
LEMMA UnderWay ==
    ASSUME Safe, run.pc # "idle"
    PROVE  /\ run \in Runs /\ state \in StateFile /\ run.next \in StateFile /\ run.next.appending = NoMark
           /\ archived \subseteq Number /\ given \subseteq Number /\ excused \subseteq Number /\ ToSet(run.events) \subseteq Number
           /\ starved \in [Source -> Nat] /\ rotations \in [Source -> Nat] /\ run.rotations \in [Source -> Nat]
           /\ \A s \in Source : run.rotations[s] <= rotations[s]
           /\ jsonl \in Seq(Copy) /\ run.events \in Seq(Number) /\ state.appending \in Mark
           /\ IsInjective(jsonl) /\ IsInjective(run.events) /\ ToSet(run.events) \intersect Kept = {}
           /\ given \subseteq archived \union Numbers(recoverAppend)
           /\ Numbers(recoverAppend) \subseteq Numbers(jsonl)
           /\ Numbers(jsonl) \subseteq Kept \union ToSet(run.events)
           /\ \A n \in Kept \union Numbers(jsonl) \union ToSet(run.events) : n <= bounds.lines
<1>1. /\ run \in Runs /\ state \in StateFile /\ run.next \in StateFile
      /\ archived \subseteq Number /\ given \subseteq Number /\ excused \subseteq Number
      /\ starved \in [Source -> Nat] /\ rotations \in [Source -> Nat] /\ run.rotations \in [Source -> Nat]
      /\ \A s \in Source : run.rotations[s] <= rotations[s]
  BY DEF Safe, TypeOK, Runs
<1>2. jsonl \in Seq(Copy) /\ run.events \in Seq(Number) /\ state.appending \in Mark
  BY Types DEF Safe
<1>3. ToSet(run.events) \subseteq Number
  BY <1>2, ToSetIs
<1>4. Numbers(recoverAppend) \subseteq Numbers(jsonl)
  BY <1>2, RecoverAppendIs, RecoveredIs
<1>5. /\ run.next.appending = NoMark
      /\ IsInjective(jsonl) /\ IsInjective(run.events) /\ ToSet(run.events) \intersect Kept = {}
      /\ given \subseteq archived \union Numbers(recoverAppend)
      /\ Numbers(jsonl) \subseteq Kept \union ToSet(run.events)
      /\ \A n \in Kept \union Numbers(jsonl) \union ToSet(run.events) : n <= bounds.lines
  BY DEF Safe, CopyOK
<1>6. QED
  BY <1>1, <1>2, <1>3, <1>4, <1>5

\* One field of the record of a Collect, or of the state on disk, changes.
LEMMA StepRun ==
    ASSUME NEW r \in Runs, NEW pc \in {"idle", "pending", "append", "rotate", "save"}
    PROVE  LET q == [r EXCEPT !.pc = pc]
           IN  /\ q \in Runs /\ q.pc = pc /\ q.events = r.events /\ q.next = r.next /\ q.skipped = r.skipped
               /\ q.rotations = r.rotations /\ q.took = r.took /\ q.waiting = r.waiting
BY DEF Runs

LEMMA StepState ==
    ASSUME NEW f \in StateFile, NEW m \in Mark
    PROVE  LET g == [f EXCEPT !.appending = m] IN g \in StateFile /\ g.files = f.files /\ g.round = f.round /\ g.appending = m
BY DEF StateFile, Mark

LEMMA SavePendingSafe ==
    ASSUME Safe, SavePending
    PROVE  Safe'
<1> DEFINE m == [known |-> TRUE, size |-> Len(jsonl), head |-> readHead(jsonl)]
<1>1. /\ run.pc = "pending" /\ state' = [state EXCEPT !.appending = m] /\ run' = [run EXCEPT !.pc = "append"]
      /\ UNCHANGED <<file, copied, jsonl, archived, given, excused, starved, rotations, bounds>>
  BY DEF SavePending, local, history
<1>2. /\ run \in Runs /\ state \in StateFile /\ run.next.appending = NoMark
      /\ jsonl \in Seq(Copy) /\ IsInjective(jsonl) /\ IsInjective(run.events) /\ ToSet(run.events) \intersect Kept = {}
      /\ given \subseteq archived \union Numbers(recoverAppend)
      /\ Numbers(jsonl) \subseteq Kept \union ToSet(run.events)
      /\ \A n \in Kept \union Numbers(jsonl) \union ToSet(run.events) : n <= bounds.lines
  BY <1>1, UnderWay
<1>3. m \in Mark /\ m.known /\ m.size = Len(jsonl)
  BY <1>2, ReadHeadIs DEF Mark
<1>4. /\ run' \in Runs /\ run'.pc = "append" /\ run'.events = run.events /\ run'.next = run.next /\ run'.rotations = run.rotations
  BY <1>1, <1>2, StepRun
<1>5. state' \in StateFile /\ state'.files = state.files /\ state'.appending = m
  <2> HIDE DEF m
  <2>1. QED
    BY <1>1, <1>2, <1>3, StepState
<1>6. recoverAppend = jsonl
  BY <1>1 DEF Safe, CopyOK
<1>7. recoverAppend' = jsonl
  <2>1. recoverAppend' = Recovered(m, jsonl)
    BY <1>1, <1>5, RecoveredAfter
  <2> HIDE DEF m
  <2>2. QED
    BY <2>1, <1>2, <1>3, RecoveredIs
<1>8. Kept' = Kept
  BY <1>1, <1>6, <1>7 DEF Kept
<1>9. TypeOK'
  BY <1>1, <1>4, <1>5 DEF Safe, TypeOK, Runs
<1>10. CopyOK'
  BY <1>1, <1>2, <1>4, <1>5, <1>6, <1>7, <1>8 DEF CopyOK
<1>11. QED
  BY <1>1, <1>4, <1>5, <1>8, <1>9, <1>10, GoesOn

LEMMA AppendSafe ==
    ASSUME Safe, AppendJSONL
    PROVE  Safe'
<1> DEFINE new == jsonl \o [k \in 1 .. Len(run.events) |-> [n |-> run.events[k]]]
<1>1. /\ run.pc = "append" /\ jsonl' = new /\ run' = [run EXCEPT !.pc = "rotate"]
      /\ UNCHANGED <<file, copied, state, archived, given, excused, starved, rotations, bounds>>
  BY DEF AppendJSONL, history
<1>2. /\ run \in Runs /\ run.next.appending = NoMark
      /\ jsonl \in Seq(Copy) /\ run.events \in Seq(Number)
      /\ IsInjective(jsonl) /\ IsInjective(run.events) /\ ToSet(run.events) \intersect Kept = {}
      /\ given \subseteq archived \union Numbers(recoverAppend)
      /\ Numbers(jsonl) \subseteq Kept \union ToSet(run.events)
      /\ \A n \in Kept \union Numbers(jsonl) \union ToSet(run.events) : n <= bounds.lines
  BY <1>1, UnderWay
<1>3. recoverAppend = jsonl /\ state.appending = [known |-> TRUE, size |-> Len(jsonl), head |-> readHead(jsonl)]
  BY <1>1 DEF Safe, CopyOK
<1>4. Numbers(jsonl) \subseteq Kept /\ ToSet(run.events) \intersect Numbers(jsonl) = {}
  <2>1. Numbers(jsonl) \subseteq Kept
    BY <1>3 DEF Kept
  <2>2. QED
    BY <2>1, <1>2
<1>5. /\ new \in Seq(Copy) /\ Numbers(new) \subseteq Numbers(jsonl) \union ToSet(run.events)
      /\ ToSet(run.events) \subseteq Numbers(new) /\ Recovered(state.appending, new) = jsonl /\ IsInjective(new)
  <2>1. Len(run.events) \in 0 .. Len(run.events)
    BY <1>2
  <2>2. QED
    BY <1>2, <1>3, <1>4, <2>1, Appended
<1> HIDE DEF new
<1>6. /\ run' \in Runs /\ run'.pc = "rotate" /\ run'.events = run.events /\ run'.next = run.next /\ run'.rotations = run.rotations
  BY <1>1, <1>2, StepRun
<1>7. recoverAppend' = recoverAppend /\ Kept' = Kept
  <2>1. recoverAppend' = recoverAppend
    BY <1>1, <1>3, <1>5, RecoveredAfter
  <2>2. QED
    BY <2>1, <1>1 DEF Kept
<1>8. TypeOK'
  BY <1>1, <1>5, <1>6 DEF Safe, TypeOK, Runs
<1>9. CopyOK'
  BY <1>1, <1>2, <1>4, <1>5, <1>6, <1>7 DEF CopyOK
<1>10. QED
  BY <1>1, <1>6, <1>7, <1>8, <1>9, GoesOn

LEMMA RotateSafe ==
    ASSUME Safe, Rotate
    PROVE  Safe'
<1>1. /\ run.pc = "rotate" /\ run' = [run EXCEPT !.pc = "save"]
      /\ \/ jsonl' = <<>> /\ archived' = archived \union Numbers(jsonl)
         \/ jsonl' = jsonl /\ archived' = archived
      /\ UNCHANGED <<file, copied, state, given, excused, starved, rotations, bounds>>
  BY DEF Rotate, local, history, Numbers
<1>2. /\ run \in Runs /\ run.next.appending = NoMark /\ archived \subseteq Number
      /\ jsonl \in Seq(Copy) /\ run.events \in Seq(Number) /\ state.appending \in Mark
      /\ IsInjective(jsonl) /\ IsInjective(run.events) /\ ToSet(run.events) \intersect Kept = {}
      /\ given \subseteq archived \union Numbers(recoverAppend)
      /\ Numbers(recoverAppend) \subseteq Numbers(jsonl)
      /\ Numbers(jsonl) \subseteq Kept \union ToSet(run.events)
      /\ \A n \in Kept \union Numbers(jsonl) \union ToSet(run.events) : n <= bounds.lines
  BY <1>1, UnderWay
<1>3. ToSet(run.events) \subseteq Numbers(jsonl)
  BY <1>1 DEF Safe, CopyOK
<1>4. /\ run' \in Runs /\ run'.pc = "save" /\ run'.events = run.events /\ run'.next = run.next /\ run'.rotations = run.rotations
  BY <1>1, <1>2, StepRun
<1>5. Numbers(jsonl) \subseteq Number
  <2>1. ToSet(jsonl) \subseteq Copy
    BY <1>2, ToSetIs
  <2>2. QED
    BY <2>1 DEF Copy, Numbers
<1>6. /\ jsonl' \in Seq(Copy) /\ archived' \subseteq Number /\ IsInjective(jsonl')
      /\ archived \subseteq archived' /\ Numbers(jsonl) \subseteq archived' \union Numbers(jsonl')
      /\ given \subseteq archived' \union Numbers(recoverAppend')
      /\ Kept' \subseteq Kept /\ Numbers(jsonl') \subseteq Kept' \union ToSet(run.events)
      /\ Numbers(jsonl') \subseteq Numbers(jsonl)
  <2>1. CASE jsonl' = <<>> /\ archived' = archived \union Numbers(jsonl)
    <3>1. <<>> \in Seq(Copy) /\ Len(<<>>) = 0 /\ IsInjective(<<>>)
      BY DEF IsInjective
    <3>2. recoverAppend' = Recovered(state.appending, <<>>)
      BY <1>1, <2>1, RecoveredAfter
    <3>3. Numbers(recoverAppend') = {}
      BY <3>1, <3>2, <1>2, RecoveredIs, NumbersEmpty
    <3>4. Kept' = given
      BY <3>3, <1>1 DEF Kept
    <3>5. given \subseteq Kept
      BY DEF Kept
    <3>6. Numbers(jsonl') = {} /\ jsonl' \in Seq(Copy) /\ IsInjective(jsonl')
      BY <2>1, <3>1, NumbersEmpty
    <3>7. QED
      BY <1>2, <1>5, <2>1, <3>3, <3>4, <3>5, <3>6
  <2>2. CASE jsonl' = jsonl /\ archived' = archived
    <3>1. recoverAppend' = recoverAppend
      BY <2>2, <1>1, RecoveredAfter, RecoverAppendIs
    <3>2. Kept' = Kept
      BY <3>1, <1>1 DEF Kept
    <3>3. QED
      BY <1>2, <2>2, <3>1, <3>2
  <2>3. QED
    BY <1>1, <2>1, <2>2
<1>7. TypeOK'
  <2>1. TypeOK /\ run.pc # "idle"
    BY <1>1 DEF Safe
  <2>2. \A t \in Source : run'.rotations[t] <= rotations'[t]
    BY <2>1, <1>1, <1>4 DEF TypeOK
  <2>3. run' \in Runs /\ jsonl' \in Seq(Copy) /\ archived' \subseteq Number
        /\ UNCHANGED <<file, copied, state, given, excused, starved, rotations, bounds>>
    BY <1>1, <1>4, <1>6
  <2>4. QED
    BY <2>1, <2>2, <2>3 DEF TypeOK, Runs
<1>8. CopyOK'
  BY <1>1, <1>2, <1>3, <1>4, <1>6 DEF CopyOK
<1>9. QED
  BY <1>1, <1>4, <1>6, <1>7, <1>8, GoesOn

LEMMA Minus == \A i, j \in Nat : i <= j => j - i \in Nat
OBVIOUS

\* The state with the new place is on disk, whether Collect returns or not.
LEMMA SettledTypes ==
    ASSUME Safe, run.pc = "save", Saved, starved' = [s \in Source |-> IF s \in run.waiting \ run.took THEN starved[s] + 1 ELSE 0],
           rotations' = [s \in Source |-> rotations[s] - run.rotations[s]], run' = Idle,
           UNCHANGED <<file, copied, jsonl, archived>>,
           excused' \subseteq excused \union run.skipped \union ToSet(run.events),
           given' \subseteq given \union ToSet(run.events),
           bounds' \in [lines : 0 .. MaxLines, rotations : Nat, faults : Nat]
    PROVE  TypeOK'
<1>1. /\ run \in Runs /\ run.next \in StateFile /\ archived \subseteq Number
      /\ given \subseteq Number /\ excused \subseteq Number /\ ToSet(run.events) \subseteq Number
      /\ starved \in [Source -> Nat] /\ rotations \in [Source -> Nat] /\ run.rotations \in [Source -> Nat]
      /\ \A s \in Source : run.rotations[s] <= rotations[s]
  BY UnderWay
<1>2. starved' \in [Source -> Nat]
  BY <1>1
<1>3. rotations' \in [Source -> Nat]
  BY <1>1, Minus
<1>4. given' \in SUBSET Number /\ excused' \in SUBSET Number
  <2>1. run.skipped \subseteq Number
    BY <1>1 DEF Runs
  <2>2. QED
    BY <1>1, <2>1
<1>5. run' \in Runs /\ run'.pc = "idle"
  BY IdleIs
<1>6. state' \in StateFile
  BY <1>1 DEF Saved
<1>7. file \in [Source -> [cur : Log, prev : Log]] /\ copied \in BOOLEAN /\ jsonl \in Seq(Copy) /\ archived \in SUBSET Number
  BY DEF Safe, TypeOK
<1>8. QED
  BY <1>2, <1>3, <1>4, <1>5, <1>6, <1>7 DEF TypeOK, Runs

LEMMA SettledSafe ==
    ASSUME Safe, run.pc = "save", Saved, TypeOK', run' = Idle, UNCHANGED <<file, copied, jsonl, archived>>,
           given' \in {given, given \union ToSet(run.events)}, bounds'.lines = bounds.lines
    PROVE  Safe'
<1>1. /\ run.next \in StateFile /\ run.next.appending = NoMark
      /\ jsonl \in Seq(Copy) /\ IsInjective(jsonl)
      /\ given \subseteq archived \union Numbers(recoverAppend)
      /\ Numbers(recoverAppend) \subseteq Numbers(jsonl)
      /\ Numbers(jsonl) \subseteq Kept \union ToSet(run.events)
      /\ \A n \in Kept \union Numbers(jsonl) \union ToSet(run.events) : n <= bounds.lines
  BY UnderWay
<1>2. recoverAppend' = jsonl
  <2>1. recoverAppend' = Recovered(NoMark, jsonl)
    BY <1>1, RecoveredAfter DEF Saved
  <2>2. QED
    BY <2>1, <1>1, NoMarkIs, RecoveredIs
<1>3. Kept' \subseteq Kept \union ToSet(run.events)
  <2>1. Kept' = given' \union Numbers(jsonl)
    BY <1>2 DEF Kept
  <2>2. given \subseteq Kept
    BY DEF Kept
  <2>3. QED
    BY <1>1, <2>1, <2>2
<1>4. ASSUME NEW s \in Source
      PROVE  /\ PlaceOK(s, state'.files[s], file[s], bounds.lines) /\ Recognised(state'.files[s], file[s])
             /\ Fresh(state'.files[s], file[s], Kept')
  <2> DEFINE G == Kept \union ToSet(run.events)
             st == run.next.files[s]
  <2>1. PlaceOK(s, st, file[s], bounds.lines) /\ Recognised(st, file[s]) /\ Fresh(st, file[s], G)
    BY DEF Safe, PlacesOK, FreshOK
  <2>2. st \in Place /\ file[s] \in Files
    BY Types DEF Safe
  <2>3. Kept' \intersect (Numbers(file[s].cur.lines) \union Numbers(file[s].prev.lines)) \subseteq G
    BY <1>3
  <2>4. state'.files[s] = st
    BY DEF Saved
  <2> HIDE DEF G, st
  <2>5. Fresh(st, file[s], Kept')
    BY <2>1, <2>2, <2>3, FreshMore
  <2>6. QED
    BY <2>1, <2>4, <2>5
<1>5. given' \subseteq archived \union Numbers(recoverAppend')
  <2>1. ToSet(run.events) \subseteq archived \union Numbers(jsonl)
    BY DEF Safe, CopyOK
  <2>2. QED
    BY <1>1, <1>2, <2>1
<1>6. \A n \in Kept' \union Numbers(jsonl') : n <= bounds.lines
  BY <1>1, <1>3
<1>7. QED
  BY <1>1, <1>4, <1>5, <1>6, Over

LEMMA ReturnSafe ==
    ASSUME Safe, Return
    PROVE  Safe'
<1>1. /\ run.pc = "save" /\ Saved /\ run' = Idle /\ UNCHANGED <<file, copied, jsonl, archived, bounds>>
      /\ excused' = excused \union run.skipped
      /\ starved' = [s \in Source |-> IF s \in run.waiting \ run.took THEN starved[s] + 1 ELSE 0]
      /\ rotations' = [s \in Source |-> rotations[s] - run.rotations[s]]
      /\ given' = given \union ToSet(run.events)
  BY DEF Return, Settled, local
<1>2. bounds' \in [lines : 0 .. MaxLines, rotations : Nat, faults : Nat] /\ bounds'.lines = bounds.lines
  BY <1>1 DEF Safe, TypeOK
<1>3. TypeOK'
  BY <1>1, <1>2, SettledTypes
<1>4. QED
  BY <1>1, <1>2, <1>3, SettledSafe

LEMMA FailsSafe ==
    ASSUME Safe, Fails
    PROVE  Safe'
<1>1. run.pc # "idle" /\ run' = Idle /\ bounds' = [bounds EXCEPT !.faults = @ + 1] /\ UNCHANGED <<file, copied, archived>>
  BY DEF Fails
<1>2. bounds' \in [lines : 0 .. MaxLines, rotations : Nat, faults : Nat] /\ bounds'.lines = bounds.lines
  <2>1. bounds \in [lines : 0 .. MaxLines, rotations : Nat, faults : Nat]
    BY DEF Safe, TypeOK
  <2>2. QED
    BY <2>1, <1>1
<1>3. run' \in Runs /\ run'.pc = "idle"
  BY <1>1, IdleIs
<1>4. /\ jsonl \in Seq(Copy) /\ run.events \in Seq(Number) /\ state.appending \in Mark
      /\ IsInjective(jsonl) /\ IsInjective(run.events) /\ ToSet(run.events) \intersect Kept = {}
      /\ given \subseteq archived \union Numbers(recoverAppend)
      /\ \A n \in Kept \union Numbers(jsonl) \union ToSet(run.events) : n <= bounds.lines
  BY <1>1, UnderWay
<1>5. \A s \in Source : /\ PlaceOK(s, state.files[s], file[s], bounds.lines) /\ Recognised(state.files[s], file[s])
                        /\ Fresh(state.files[s], file[s], Kept)
  BY DEF Safe, PlacesOK, FreshOK
<1>6. CASE UNCHANGED <<state, jsonl, history, rotations>>
  <2>1. UNCHANGED <<state, jsonl, given, excused, starved, rotations>>
    BY <1>6 DEF history
  <2>2. TypeOK'
    BY <1>1, <1>2, <1>3, <2>1 DEF Safe, TypeOK, Runs
  <2>3. recoverAppend' = recoverAppend
    BY <2>1, RecoveredAfter, RecoverAppendIs
  <2>4. Kept' = Kept
    BY <2>1, <2>3 DEF Kept
  <2>5. QED
    BY <1>1, <1>2, <1>4, <1>5, <2>1, <2>2, <2>3, <2>4, Over
<1>7. ASSUME run.pc = "append", NEW k \in 1 .. Len(run.events), jsonl' = jsonl \o [i \in 1 .. k |-> [n |-> run.events[i]]],
             UNCHANGED <<state, history, rotations>>
      PROVE  Safe'
  <2> DEFINE new == jsonl \o [i \in 1 .. k |-> [n |-> run.events[i]]]
  <2>1. UNCHANGED <<state, given, excused, starved, rotations>> /\ jsonl' = new
    BY <1>7 DEF history
  <2>2. recoverAppend = jsonl /\ state.appending = [known |-> TRUE, size |-> Len(jsonl), head |-> readHead(jsonl)]
    BY <1>7 DEF Safe, CopyOK
  <2>3. Numbers(jsonl) \subseteq Kept /\ ToSet(run.events) \intersect Numbers(jsonl) = {}
    <3>1. Numbers(jsonl) \subseteq Kept
      BY <2>2 DEF Kept
    <3>2. QED
      BY <3>1, <1>4
  <2>4. /\ new \in Seq(Copy) /\ Numbers(new) \subseteq Numbers(jsonl) \union ToSet(run.events)
        /\ Recovered(state.appending, new) = jsonl /\ IsInjective(new)
    <3>1. k \in 0 .. Len(run.events)
      BY <1>4
    <3>2. QED
      BY <1>4, <2>2, <2>3, <3>1, Appended
  <2> HIDE DEF new
  <2>5. recoverAppend' = recoverAppend
    BY <2>1, <2>2, <2>4, RecoveredAfter
  <2>6. Kept' = Kept
    BY <2>1, <2>5 DEF Kept
  <2>7. TypeOK'
    BY <1>1, <1>2, <1>3, <2>1, <2>4 DEF Safe, TypeOK, Runs
  <2>8. \A n \in Kept' \union Numbers(jsonl') : n <= bounds.lines
    BY <1>4, <2>1, <2>4, <2>6
  <2>9. QED
    BY <1>1, <1>2, <1>4, <1>5, <2>1, <2>4, <2>5, <2>6, <2>7, <2>8, Over
<1>8. CASE /\ run.pc = "save" /\ Saved /\ Settled(ToSet(run.events))
           /\ UNCHANGED <<jsonl, given>>
  <2>1. /\ run.pc = "save" /\ Saved /\ UNCHANGED <<jsonl, given>>
        /\ excused' = excused \union run.skipped \union ToSet(run.events)
        /\ starved' = [s \in Source |-> IF s \in run.waiting \ run.took THEN starved[s] + 1 ELSE 0]
        /\ rotations' = [s \in Source |-> rotations[s] - run.rotations[s]]
    BY <1>8 DEF Settled
  <2>2. TypeOK'
    BY <1>1, <1>2, <2>1, SettledTypes
  <2>3. QED
    BY <1>1, <1>2, <2>1, <2>2, SettledSafe
<1>9. QED
  BY <1>6, <1>7, <1>8 DEF Fails

\* What is left of the state file when loadState cannot use all of it.
LEMMA LoadStateIs ==
    ASSUME Safe, loadState
    PROVE  /\ run.pc = "idle" /\ UNCHANGED <<file, copied, run, jsonl, archived, given, excused>>
           /\ bounds' \in [lines : 0 .. MaxLines, rotations : Nat, faults : Nat] /\ bounds'.lines = bounds.lines
           /\ state' \in StateFile /\ starved' \in [Source -> Nat] /\ rotations' \in [Source -> Nat]
           /\ \A s \in Source : \/ state'.files[s] = NoPlace /\ starved'[s] = 0
                                \/ state'.files[s] = state.files[s] /\ starved'[s] = starved[s] /\ rotations'[s] = rotations[s]
           /\ \/ state'.appending = NoMark /\ \A s \in Source : state'.files[s] = NoPlace /\ starved'[s] = 0
              \/ state'.appending = state.appending /\ state'.round = state.round
<1> DEFINE kept(lost) == [state EXCEPT !.files = [s \in Source |-> IF s \in lost THEN NoPlace ELSE @[s]]]
           fewer(counts, lost) == [s \in Source |-> IF s \in lost THEN 0 ELSE counts[s]]
<1>1. /\ bounds \in [lines : 0 .. MaxLines, rotations : Nat, faults : Nat]
      /\ state \in StateFile /\ starved \in [Source -> Nat] /\ rotations \in [Source -> Nat]
  BY DEF Safe, TypeOK
<1>2. run.pc = "idle" /\ UNCHANGED <<file, copied, run, jsonl, archived, given, excused>>
  BY DEF loadState, local
<1>3. bounds' \in [lines : 0 .. MaxLines, rotations : Nat, faults : Nat] /\ bounds'.lines = bounds.lines
  <2>1. bounds' = [bounds EXCEPT !.faults = @ + 1]
    BY DEF loadState
  <2>2. QED
    BY <2>1, <1>1
<1>4. PICK lost \in SUBSET Source : /\ state' = IF lost = Source THEN NoState ELSE kept(lost)
                                    /\ starved' = fewer(starved, lost) /\ rotations' = fewer(rotations, lost)
  BY DEF loadState
<1>5. \A counts \in [Source -> Nat] : /\ fewer(counts, lost) \in [Source -> Nat]
                                      /\ \A s \in Source : fewer(counts, lost)[s] = IF s \in lost THEN 0 ELSE counts[s]
  OBVIOUS
<1>6. /\ starved' \in [Source -> Nat] /\ rotations' \in [Source -> Nat]
      /\ \A s \in Source : /\ starved'[s] = IF s \in lost THEN 0 ELSE starved[s]
                           /\ rotations'[s] = IF s \in lost THEN 0 ELSE rotations[s]
  <2> HIDE DEF fewer
  <2>1. QED
    BY <1>1, <1>4, <1>5
<1>7. /\ state' \in StateFile
      /\ \A s \in Source : state'.files[s] = IF s \in lost THEN NoPlace ELSE state.files[s]
      /\ lost = Source => state'.appending = NoMark
      /\ lost # Source => state'.appending = state.appending /\ state'.round = state.round
  <2>1. CASE lost = Source
    BY <1>4, <2>1, NoStateIs
  <2>2. CASE lost # Source
    <3> DEFINE files == [s \in Source |-> IF s \in lost THEN NoPlace ELSE state.files[s]]
    <3>1. files \in [Source -> Place] /\ \A s \in Source : files[s] = IF s \in lost THEN NoPlace ELSE state.files[s]
      <4>1. state.files \in [Source -> Place]
        BY <1>1 DEF StateFile
      <4>2. QED
        BY <4>1, NoPlaceIs
    <3>2. state' = [state EXCEPT !.files = files]
      BY <1>4, <2>2
    <3> HIDE DEF files
    <3>3. state' \in StateFile /\ state'.files = files /\ state'.appending = state.appending /\ state'.round = state.round
      BY <1>1, <3>1, <3>2 DEF StateFile
    <3>4. QED
      BY <2>2, <3>1, <3>3
  <2>3. QED
    BY <2>1, <2>2
<1> HIDE DEF kept, fewer
<1>8. \A s \in Source : \/ state'.files[s] = NoPlace /\ starved'[s] = 0
                        \/ state'.files[s] = state.files[s] /\ starved'[s] = starved[s] /\ rotations'[s] = rotations[s]
  <2>1. SUFFICES ASSUME NEW s \in Source
                 PROVE  \/ state'.files[s] = NoPlace /\ starved'[s] = 0
                        \/ state'.files[s] = state.files[s] /\ starved'[s] = starved[s] /\ rotations'[s] = rotations[s]
    OBVIOUS
  <2>2. CASE s \in lost
    BY <1>6, <1>7, <2>2
  <2>3. CASE s \notin lost
    BY <1>6, <1>7, <2>3
  <2>4. QED
    BY <2>2, <2>3
<1>9. lost = Source => \A s \in Source : state'.files[s] = NoPlace /\ starved'[s] = 0
  BY <1>6, <1>7
<1>10. QED
  BY <1>2, <1>3, <1>6, <1>7, <1>8, <1>9

\* A source without a place reads nothing that is there.
LEMMA NoPlaceSafe ==
    ASSUME NEW s \in Source, NEW f, NEW last, NEW G
    PROVE  PlaceOK(s, NoPlace, f, last) /\ Recognised(NoPlace, f) /\ Fresh(NoPlace, f, G)
<1>1. Numbers(<<>>) = {}
  BY NumbersEmpty
<1>2. PlaceOK(s, NoPlace, f, last)
  BY <1>1, NoPlaceIs, NoPrevIs DEF PlaceOK
<1>3. Recognised(NoPlace, f)
  BY NoPlaceIs, NoPrevIs DEF Recognised
<1>4. Fresh(NoPlace, f, G)
  BY NoPlaceIs DEF Fresh
<1>5. QED
  BY <1>2, <1>3, <1>4

LEMMA LoadStateSafe ==
    ASSUME Safe, loadState
    PROVE  Safe'
<1>1. /\ run.pc = "idle" /\ UNCHANGED <<file, copied, run, jsonl, archived, given, excused>>
      /\ bounds' \in [lines : 0 .. MaxLines, rotations : Nat, faults : Nat] /\ bounds'.lines = bounds.lines
      /\ state' \in StateFile /\ starved' \in [Source -> Nat] /\ rotations' \in [Source -> Nat]
      /\ \A s \in Source : state'.files[s] = NoPlace \/ state'.files[s] = state.files[s]
      /\ \/ state'.appending = NoMark /\ \A s \in Source : state'.files[s] = NoPlace
         \/ state'.appending = state.appending
  BY LoadStateIs
<1>2. /\ jsonl \in Seq(Copy) /\ state.appending \in Mark /\ IsInjective(jsonl)
      /\ given \subseteq archived \union Numbers(recoverAppend)
      /\ \A n \in Kept \union Numbers(jsonl) \union ToSet(run.events) : n <= bounds.lines
  BY Types DEF Safe, CopyOK
<1>3. TypeOK'
  BY <1>1 DEF Safe, TypeOK
<1>4. LogsOK'
  BY <1>1 DEF Safe, LogsOK
<1>5. recoverAppend' = Recovered(state'.appending, jsonl)
  BY <1>1, RecoveredAfter
<1>6. /\ Numbers(recoverAppend') \subseteq Numbers(jsonl)
      /\ Numbers(recoverAppend) \subseteq Numbers(recoverAppend')
      /\ Numbers(recoverAppend') = Numbers(recoverAppend) \/ \A s \in Source : state'.files[s] = NoPlace
  <2>1. CASE state'.appending = state.appending
    BY <1>2, <1>5, <2>1, RecoverAppendIs, RecoveredIs
  <2>2. CASE state'.appending = NoMark /\ \A s \in Source : state'.files[s] = NoPlace
    <3>1. recoverAppend' = jsonl
      BY <1>2, <1>5, <2>2, NoMarkIs, RecoveredIs
    <3>2. Numbers(recoverAppend) \subseteq Numbers(jsonl)
      BY <1>2, RecoverAppendIs, RecoveredIs
    <3>3. QED
      BY <2>2, <3>1, <3>2
  <2>3. QED
    BY <1>1, <2>1, <2>2
<1>7. ASSUME NEW s \in Source
      PROVE  /\ PlaceOK(s, state'.files[s], file[s], bounds.lines) /\ Recognised(state'.files[s], file[s])
             /\ Fresh(state'.files[s], file[s], Kept')
  <2>1. CASE state'.files[s] = NoPlace
    BY <2>1, NoPlaceSafe
  <2>2. CASE state'.files[s] # NoPlace
    <3>1. state'.files[s] = state.files[s] /\ Kept' = Kept
      BY <1>1, <1>6, <2>2 DEF Kept
    <3>2. QED
      BY <3>1 DEF Safe, PlacesOK, FreshOK
  <2>3. QED
    BY <2>1, <2>2
<1>8. PlacesOK' /\ FreshOK'
  BY <1>1, <1>7 DEF PlacesOK, FreshOK
<1>9. CopyOK'
  <2>1. given' \subseteq archived' \union Numbers(recoverAppend')
    BY <1>1, <1>2, <1>6
  <2>2. \A n \in Kept' \union Numbers(jsonl') \union ToSet(run'.events) : n <= bounds'.lines
    BY <1>1, <1>2, <1>6 DEF Kept
  <2>3. QED
    BY <1>1, <1>2, <2>1, <2>2 DEF CopyOK
<1>10. QED
  BY <1>3, <1>4, <1>8, <1>9 DEF Safe

LEMMA InitTypes ==
    ASSUME Init
    PROVE  /\ TypeOK /\ \A s \in Source : file[s].cur.lines = <<>> /\ file[s].prev = Absent
           /\ \A s \in Source : file[s].cur.exists <=> file[s].cur.ino # 0
           /\ file["app"].cur.ino = 1 /\ file["app"].cur.exists
<1> DEFINE one == [Absent EXCEPT !.exists = TRUE, !.ino = 1]
           f(s) == [cur |-> IF s = "app" THEN one ELSE Absent, prev |-> Absent]
<1>1. Absent \in Log /\ Absent.lines = <<>> /\ Absent.exists = FALSE /\ Absent.ino = 0
  <2>1. <<>> \in Seq(Line) /\ FALSE \in BOOLEAN /\ 0 \in {0} \union Inode
    OBVIOUS
  <2>2. QED
    BY <2>1 DEF Absent, Log
<1>2. one \in Log /\ one.lines = <<>> /\ one.exists = TRUE /\ one.ino = 1
  <2>1. <<>> \in Seq(Line) /\ 1 \in {0} \union Inode
    BY DEF Inode
  <2>2. QED
    BY <2>1, <1>1 DEF Absent, Log
<1>3. file = [s \in Source |-> f(s)]
  BY DEF Init
<1> HIDE DEF one
<1>4. ASSUME NEW s \in Source
      PROVE  /\ f(s) \in [cur : Log, prev : Log] /\ f(s).cur.lines = <<>> /\ f(s).prev = Absent
             /\ f(s).cur.exists <=> f(s).cur.ino # 0
             /\ s = "app" => f(s).cur.ino = 1 /\ f(s).cur.exists
  BY <1>1, <1>2
<1> HIDE DEF f
<1>5. file \in [Source -> [cur : Log, prev : Log]] /\ \A s \in Source : file[s] = f(s)
  BY <1>3, <1>4
<1>6. /\ copied = FALSE /\ state = NoState /\ run = Idle /\ jsonl = <<>> /\ archived = {} /\ given = {} /\ excused = {}
      /\ starved = [s \in Source |-> 0] /\ rotations = [s \in Source |-> 0]
      /\ bounds = [lines |-> 0, rotations |-> 0, faults |-> 0]
  BY DEF Init
<1>7. starved \in [Source -> Nat] /\ rotations \in [Source -> Nat]
  BY <1>6
<1>8. bounds \in [lines : 0 .. MaxLines, rotations : Nat, faults : Nat] /\ jsonl \in Seq(Copy)
  BY <1>6, Constants
<1>9. state \in StateFile /\ run \in Runs /\ run.pc = "idle"
  BY <1>6, NoStateIs, IdleIs
<1>10. {archived, given, excused} \subseteq SUBSET Number /\ copied \in BOOLEAN
  BY <1>6
<1>11. TypeOK
  BY <1>5, <1>7, <1>8, <1>9, <1>10 DEF TypeOK, Runs
<1>12. QED
  BY <1>4, <1>5, <1>11 DEF Source

LEMMA InitSafe == Init => Safe
<1> SUFFICES ASSUME Init PROVE Safe
  OBVIOUS
<1>1. /\ TypeOK /\ \A s \in Source : file[s].cur.lines = <<>> /\ file[s].prev = Absent
      /\ \A s \in Source : file[s].cur.exists <=> file[s].cur.ino # 0
      /\ file["app"].cur.ino = 1 /\ file["app"].cur.exists
  BY InitTypes
<1>2. copied = FALSE /\ state = NoState /\ run = Idle /\ jsonl = <<>> /\ archived = {} /\ given = {}
  BY DEF Init
<1>3. Absent.exists = FALSE /\ Absent.lines = <<>> /\ Numbers(<<>>) = {}
  BY NumbersEmpty DEF Absent
<1>4. recoverAppend = <<>> /\ Kept = {}
  <2>1. recoverAppend = Recovered(NoMark, <<>>)
    BY <1>2, RecoverAppendIs, NoStateIs
  <2>2. <<>> \in Seq(Copy)
    OBVIOUS
  <2>3. recoverAppend = <<>>
    BY <2>1, <2>2, NoMarkIs, RecoveredIs
  <2>4. QED
    BY <2>3, <1>2, <1>3 DEF Kept
<1>5. run.pc = "idle" /\ run.events = <<>> /\ ToSet(run.events) = {}
  BY <1>2, IdleIs, NoEvents DEF Runs
<1>6. \A s \in Source : state.files[s] = NoPlace
  BY <1>2, NoStateIs
<1>7. ASSUME NEW s \in Source PROVE LogOK(s, file[s], bounds.lines, copied)
  <2> DEFINE g == file[s]
  <2>1. /\ g.cur.lines = <<>> /\ g.prev.lines = <<>> /\ ~g.prev.exists
        /\ g.cur.exists <=> g.cur.ino # 0
        /\ s = "app" => g.cur.ino = 1
    BY <1>1, <1>3
  <2> HIDE DEF g
  <2>2. Numbers(g.cur.lines) = {} /\ Numbers(g.prev.lines) = {} /\ Distinct(g.cur.lines) /\ Distinct(g.prev.lines)
    <3>1. Distinct(<<>>)
      BY DEF Distinct
    <3>2. QED
      BY <2>1, <1>3, <3>1
  <2>3. LogOK(s, g, bounds.lines, copied)
    BY <2>1, <2>2, <1>2 DEF LogOK
  <2>4. QED
    BY <2>3 DEF g
<1>8. \A s \in Source : Lines(file[s]) = {}
  <2>1. ToSet(<<>>) = {}
    BY DEF ToSet
  <2>2. QED
    BY <2>1, <1>1, <1>3 DEF Lines
<1>9. LogsOK
  BY <1>7, <1>8 DEF LogsOK, Source
<1>10. ASSUME NEW s \in Source
       PROVE  PlaceOK(s, NoPlace, file[s], bounds.lines) /\ Recognised(NoPlace, file[s]) /\ Fresh(NoPlace, file[s], {})
  <2>1. PlaceOK(s, NoPlace, file[s], bounds.lines)
    BY <1>3, NoPlaceIs, NoPrevIs DEF PlaceOK
  <2>2. Recognised(NoPlace, file[s])
    BY NoPlaceIs, NoPrevIs DEF Recognised
  <2>3. Fresh(NoPlace, file[s], {})
    BY DEF Fresh
  <2>4. QED
    BY <2>1, <2>2, <2>3
<1>11. PlacesOK /\ FreshOK
  BY <1>4, <1>5, <1>6, <1>10 DEF PlacesOK, FreshOK
<1>12. CopyOK
  <2>1. IsInjective(jsonl) /\ Numbers(jsonl) = {}
    BY <1>2, <1>3 DEF IsInjective
  <2>2. QED
    BY <2>1, <1>2, <1>4, <1>5 DEF CopyOK
<1>13. QED
  BY <1>1, <1>9, <1>11, <1>12 DEF Safe

LEMMA NextSafe ==
    ASSUME Safe, [Next]_vars
    PROVE  Safe'
<1>1. CASE UNCHANGED vars
  <2>1. UNCHANGED <<file, copied, state, run, jsonl, archived, given, excused, starved, rotations, bounds>>
    BY <1>1 DEF vars, local, history
  <2>2. recoverAppend' = recoverAppend /\ Kept' = Kept
    BY <2>1 DEF recoverAppend, Kept
  <2>3. TypeOK'
    BY <2>1 DEF Safe, TypeOK
  <2>4. LogsOK' /\ PlacesOK' /\ FreshOK' /\ CopyOK'
    BY <2>1, <2>2 DEF Safe, LogsOK, PlacesOK, FreshOK, CopyOK
  <2>5. QED
    BY <2>3, <2>4 DEF Safe
<1>2. CASE Next
  BY <1>2, LoadStateSafe, ReadSafe, SavePendingSafe, AppendSafe, RotateSafe, ReturnSafe, FailsSafe, WriteSafe, RenameSafe, CopySafe, TruncateSafe DEF Next
<1>3. QED
  BY <1>1, <1>2

LEMMA SafeIsEnough ==
    ASSUME Safe
    PROVE  NothingTwice /\ LocalCopyExact
<1>1. NothingTwice
  <2>1. given \subseteq Kept
    BY DEF Kept
  <2>2. run.pc = "save" => IsInjective(run.events) /\ ToSet(run.events) \intersect Kept = {}
    BY DEF Safe, CopyOK
  <2>3. QED
    BY <2>1, <2>2 DEF NothingTwice
<1>2. LocalCopyExact
  <2>1. Numbers(recoverAppend) \subseteq Numbers(jsonl)
    BY Types, RecoverAppendIs, RecoveredIs DEF Safe
  <2>2. IsInjective(jsonl) /\ given \subseteq archived \union Numbers(recoverAppend)
    BY DEF Safe, CopyOK
  <2>3. QED
    BY <2>1, <2>2 DEF LocalCopyExact, Numbers
<1>3. QED
  BY <1>1, <1>2

(***************************************************************************)
(* Whose turn it is                                                        *)
(***************************************************************************)

LEMMA OrderAfter == /\ Order[1] = IF state.round % 2 = 0 THEN "app" ELSE "audit"
                    /\ Order'[1] = IF state'.round % 2 = 0 THEN "app" ELSE "audit"
BY DEF Order

\* The state on disk and the record of the Collect, if there is one, stay.
LEMMA TurnsStay ==
    ASSUME TurnsOK, state'.round = state.round, starved' = starved,
           \/ run'.pc = "idle"
           \/ run.pc # "idle" /\ run'.next = run.next /\ run'.took = run.took /\ run'.waiting = run.waiting
    PROVE  TurnsOK'
<1>1. Order'[1] = Order[1]
  BY OrderAfter
<1>2. QED
  BY <1>1 DEF TurnsOK

\* The next Collect reads the other log first.
LEMMA TurnsChange ==
    ASSUME Safe, TurnsOK, run.pc # "idle", state' = run.next, run'.pc = "idle",
           starved' = [s \in Source |-> IF s \in run.waiting \ run.took THEN starved[s] + 1 ELSE 0]
    PROVE  TurnsOK'
<1>1. state.round \in 0 .. 1 /\ state'.round = (state.round + 1) % 2
  BY DEF Safe, TypeOK, StateFile, TurnsOK
<1>2. state'.round = 1 - state.round
  BY <1>1
<1>3. /\ \A s \in Source : s # Order[1] => Order'[1] = s
      /\ Order[1] \in run.waiting => Order[1] \in run.took
      /\ \A s \in Source : starved[s] = 0 \/ (starved[s] = 1 /\ Order[1] = s)
  BY <1>1, <1>2, OrderAfter DEF TurnsOK, Source
<1>4. ASSUME NEW s \in Source PROVE starved'[s] = 0 \/ (starved'[s] = 1 /\ Order'[1] = s)
  <2>1. starved'[s] = IF s \in run.waiting \ run.took THEN starved[s] + 1 ELSE 0
    OBVIOUS
  <2>2. CASE s = Order[1]
    BY <2>1, <2>2, <1>3
  <2>3. CASE s # Order[1]
    BY <2>1, <2>3, <1>3
  <2>4. QED
    BY <2>2, <2>3
<1>5. QED
  BY <1>4 DEF TurnsOK

\* The source that is read first gives an event if it has one.
LEMMA FirstTakes ==
    ASSUME Safe, Unread(Order[1]) # {}
    PROVE  Part[Order[1]].acc.events # <<>>
<1> DEFINE s == Order[1]
<1>1. s \in Source /\ state.files[s] \in Place /\ file[s] \in Files
  BY OrderIs, Types DEF Safe
<1>2. Part[s] = readSource(state.files[s], file[s], Budget(maxResult))
  BY <1>1 DEF Part, First
<1>3. Unread(s) = ToSet(readSource(state.files[s], file[s], NoLimit).acc.events)
  BY DEF Unread
<1>4. /\ Budget(maxResult) \in Acc /\ Budget(maxResult).events = <<>> /\ Budget(maxResult).taken = 0
      /\ Budget(maxResult).left >= maxResult
  <2>1. maxResult \in Nat /\ maxResult >= maxResult
    BY Constants
  <2>2. /\ Budget(maxResult) \in Acc /\ Budget(maxResult).events = <<>> /\ Budget(maxResult).taken = 0
        /\ Budget(maxResult).left = maxResult
    BY <2>1, BudgetIs
  <2>3. QED
    BY <2>1, <2>2
<1> HIDE DEF s
<1>5. QED
  BY <1>1, <1>2, <1>3, <1>4, NoLimitIs, NothingThere DEF s

LEMMA NextTurns ==
    ASSUME Safe, TurnsOK, [Next]_vars
    PROVE  TurnsOK'
<1>1. CASE Read
  <2>1. /\ run'.next.round = (state.round + 1) % 2
        /\ run'.took = {s \in Source : Part[s].acc.events # <<>>} /\ run'.waiting = {s \in Source : Unread(s) # {}}
    BY <1>1, ReadTypes
  <2>2. state' = state /\ starved' = starved
    BY <1>1, ReadIs
  <2>3. Order' = Order /\ Order[1] \in Source
    BY <2>2, OrderIs DEF Order
  <2>4. Order[1] \in run'.waiting => Order[1] \in run'.took
    BY <2>1, <2>3, FirstTakes
  <2>5. QED
    BY <2>1, <2>2, <2>3, <2>4 DEF TurnsOK
<1>2. CASE SavePending
  <2>1. /\ run.pc # "idle" /\ run' = [run EXCEPT !.pc = "append"] /\ starved' = starved
        /\ \E m : state' = [state EXCEPT !.appending = m]
    BY <1>2 DEF SavePending, history
  <2>2. run \in Runs /\ state \in StateFile
    BY DEF Safe, TypeOK, Runs
  <2>3. run'.next = run.next /\ run'.took = run.took /\ run'.waiting = run.waiting
    BY <2>1, <2>2, StepRun
  <2>4. state'.round = state.round
    BY <2>1, <2>2 DEF StateFile
  <2>5. QED
    BY <2>1, <2>3, <2>4, TurnsStay
<1>3. CASE AppendJSONL \/ Rotate
  <2>1. run.pc # "idle" /\ (run' = [run EXCEPT !.pc = "rotate"] \/ run' = [run EXCEPT !.pc = "save"]) /\ starved' = starved /\ state' = state
    BY <1>3 DEF AppendJSONL, Rotate, history
  <2>2. run \in Runs
    BY DEF Safe, TypeOK, Runs
  <2>3. run'.next = run.next /\ run'.took = run.took /\ run'.waiting = run.waiting
    BY <2>1, <2>2 DEF Runs
  <2>4. QED
    BY <2>1, <2>3, TurnsStay
<1>4. CASE Return
  <2>1. /\ run.pc # "idle" /\ state' = run.next /\ run' = Idle
        /\ starved' = [s \in Source |-> IF s \in run.waiting \ run.took THEN starved[s] + 1 ELSE 0]
    BY <1>4 DEF Return, Saved, Settled
  <2>2. QED
    BY <2>1, IdleIs, TurnsChange
<1>5. CASE Fails
  <2>1. run.pc # "idle" /\ run' = Idle
    BY <1>5 DEF Fails
  <2>2. CASE state' = state /\ starved' = starved
    BY <2>1, <2>2, IdleIs, TurnsStay
  <2>3. CASE state' = run.next /\ starved' = [s \in Source |-> IF s \in run.waiting \ run.took THEN starved[s] + 1 ELSE 0]
    BY <2>1, <2>3, IdleIs, TurnsChange
  <2>4. QED
    BY <1>5, <2>2, <2>3 DEF Fails, Saved, Settled, history
<1>6. CASE (\E s \in Source : Write(s)) \/ RenameAudit \/ CopyApp \/ TruncateApp \/ UNCHANGED vars
  <2>1. state' = state /\ run' = run /\ starved' = starved
    BY <1>6 DEF Write, RenameAudit, CopyApp, TruncateApp, Rotation, vars, history
  <2>2. Order' = Order
    BY <2>1 DEF Order
  <2>3. QED
    BY <2>1, <2>2 DEF TurnsOK
<1>7. CASE loadState
  <2>1. /\ run'.pc = "idle"
        /\ \A s \in Source : starved'[s] = 0 \/ starved'[s] = starved[s]
        /\ state'.round = state.round \/ \A s \in Source : starved'[s] = 0
    BY <1>7, LoadStateIs
  <2>2. state'.round = state.round => Order'[1] = Order[1]
    BY OrderAfter
  <2>3. QED
    BY <2>1, <2>2 DEF TurnsOK
<1>8. QED
  BY <1>1, <1>2, <1>3, <1>4, <1>5, <1>6, <1>7 DEF Next

(***************************************************************************)
(* Nothing is left behind                                                  *)
(***************************************************************************)

\* The events that need not be found from the place of a Collect under way.
Settling == given \union excused \union run.skipped \union ToSet(run.events)

\* CoveredOK, with a name for each of its parts.
LEMMA CoveredParts ==
    ASSUME CoveredOK, NEW s \in Source
    PROVE  /\ Covered(s, state.files[s], file[s], copied, given \union excused, rotations[s])
           /\ ~state.files[s].known => state.files[s].ino = 0
           /\ run.pc # "idle" => /\ run.next.files[s].known
                                 /\ Covered(s, run.next.files[s], file[s], copied, Settling, rotations[s] - run.rotations[s])
                                 /\ run.next.files[s].ino = 0 => state.files[s].ino = 0
                                 /\ run.next.files[s].head = <<>> /\ state.files[s].head # <<>> => run.rotations[s] > 0
BY DEF CoveredOK, Settling

\* The places and what is right of them.
LEMMA PlacesAre ==
    ASSUME Safe, NEW s \in Source
    PROVE  /\ file[s] \in Files /\ bounds.lines \in Nat /\ copied \in BOOLEAN /\ LogOK(s, file[s], bounds.lines, copied)
           /\ state.files[s] \in Place /\ PlaceOK(s, state.files[s], file[s], bounds.lines) /\ Recognised(state.files[s], file[s])
           /\ Fresh(state.files[s], file[s], Kept)
           /\ run.pc # "idle" => /\ run.next.files[s] \in Place
                                 /\ PlaceOK(s, run.next.files[s], file[s], bounds.lines) /\ Recognised(run.next.files[s], file[s])
BY Types DEF Safe, LogsOK, PlacesOK, FreshOK

\* One log steps and the places are as well covered as before, or better.
LEMMA CoveredStep ==
    ASSUME CoveredOK, UNCHANGED <<state, run>>,
           \A s \in Source : Covered(s, state.files[s], file'[s], copied', given' \union excused', rotations'[s]),
           \A s \in Source : run.pc # "idle" => Covered(s, run.next.files[s], file'[s], copied', Settling', rotations'[s] - run.rotations[s])
    PROVE  CoveredOK'
<1>1. \A s \in Source :
        /\ ~state.files[s].known => state.files[s].ino = 0
        /\ run.pc # "idle" => /\ run.next.files[s].known
                              /\ run.next.files[s].ino = 0 => state.files[s].ino = 0
                              /\ run.next.files[s].head = <<>> /\ state.files[s].head # <<>> => run.rotations[s] > 0
  BY CoveredParts
<1>2. QED
  BY <1>1 DEF CoveredOK, Settling

LEMMA WriteCoveredOK ==
    ASSUME Safe, CoveredOK, NEW t \in Source, Write(t)
    PROVE  CoveredOK'
<1>1. /\ file' \in [Source -> Files] /\ \A s \in Source : s # t => file'[s] = file[s]
      /\ \E line \in Line : line.n = bounds.lines + 1 /\ Written(file[t], file'[t], line)
  BY WriteIs
<1>2. UNCHANGED <<copied, state, run, given, excused, rotations>> /\ Settling' = Settling
  BY DEF Write, history, Settling
<1>3. PICK line \in Line : line.n = bounds.lines + 1 /\ Written(file[t], file'[t], line)
  BY <1>1
<1>4. ASSUME NEW s \in Source
      PROVE  Covered(s, state.files[s], file'[s], copied, given \union excused, rotations[s])
  <2> DEFINE D == given \union excused
  <2>1. Covered(s, state.files[s], file[s], copied, D, rotations[s])
    BY CoveredParts
  <2>2. /\ file[s] \in Files /\ bounds.lines \in Nat /\ copied \in BOOLEAN /\ LogOK(s, file[s], bounds.lines, copied)
        /\ state.files[s] \in Place /\ PlaceOK(s, state.files[s], file[s], bounds.lines) /\ Recognised(state.files[s], file[s])
    BY PlacesAre
  <2> HIDE DEF D
  <2>3. CASE s = t
    <3>1. file'[s] \in Files /\ Written(file[s], file'[s], line)
      BY <2>3, <1>1, <1>3
    <3>2. Covered(s, state.files[s], file'[s], copied, D, rotations[s])
      BY <2>1, <2>2, <3>1, <1>3, WriteCovered
    <3>3. QED
      BY <3>2 DEF D
  <2>4. CASE s # t
    BY <2>1, <2>4, <1>1 DEF D
  <2>5. QED
    BY <2>3, <2>4
<1>5. ASSUME NEW s \in Source, run.pc # "idle"
      PROVE  Covered(s, run.next.files[s], file'[s], copied, Settling, rotations[s] - run.rotations[s])
  <2>1. Covered(s, run.next.files[s], file[s], copied, Settling, rotations[s] - run.rotations[s])
    BY <1>5, CoveredParts
  <2>2. /\ file[s] \in Files /\ bounds.lines \in Nat /\ copied \in BOOLEAN /\ LogOK(s, file[s], bounds.lines, copied)
        /\ run.next.files[s] \in Place /\ PlaceOK(s, run.next.files[s], file[s], bounds.lines) /\ Recognised(run.next.files[s], file[s])
    BY <1>5, PlacesAre
  <2>3. CASE s = t
    <3>1. file'[s] \in Files /\ Written(file[s], file'[s], line)
      BY <2>3, <1>1, <1>3
    <3>2. QED
      BY <2>1, <2>2, <3>1, <1>3, WriteCovered
  <2>4. CASE s # t
    BY <2>1, <2>4, <1>1
  <2>5. QED
    BY <2>3, <2>4
<1>6. QED
  BY <1>2, <1>4, <1>5, CoveredStep

LEMMA CopyCoveredOK ==
    ASSUME Safe, CoveredOK, CopyApp
    PROVE  CoveredOK'
<1>1. /\ file' \in [Source -> Files] /\ copied = FALSE /\ copied' = TRUE
      /\ \A s \in Source : s # "app" => file'[s] = file[s]
      /\ CopyMade(file["app"], file'["app"])
      /\ UNCHANGED <<state, run, given, excused, rotations>>
  BY CopyIs
<1>2. Settling' = Settling
  BY <1>1 DEF Settling
<1>3. ASSUME NEW s \in Source, NEW st \in Place, NEW D, NEW r, Covered(s, st, file[s], copied, D, r)
      PROVE  Covered(s, st, file'[s], TRUE, D, r)
  <2>1. file[s] \in Files /\ file'[s] \in Files /\ copied \in BOOLEAN
    BY <1>1, PlacesAre
  <2>2. CASE s = "app"
    BY <2>1, <2>2, <1>1, <1>3, CopyCovered
  <2>3. CASE s # "app"
    <3>1. file'[s] = file[s]
      BY <2>3, <1>1
    <3>2. Covered(s, st, file[s], TRUE, D, r)
      BY <2>1, <2>3, <1>3, OtherCovered
    <3>3. QED
      BY <3>1, <3>2
  <2>4. QED
    BY <2>2, <2>3
<1>4. ASSUME NEW s \in Source
      PROVE  Covered(s, state.files[s], file'[s], TRUE, given \union excused, rotations[s])
  <2> DEFINE D == given \union excused
  <2>1. Covered(s, state.files[s], file[s], copied, D, rotations[s]) /\ state.files[s] \in Place
    BY CoveredParts, PlacesAre
  <2> HIDE DEF D
  <2>2. Covered(s, state.files[s], file'[s], TRUE, D, rotations[s])
    BY <2>1, <1>3
  <2>3. QED
    BY <2>2 DEF D
<1>5. ASSUME NEW s \in Source, run.pc # "idle"
      PROVE  Covered(s, run.next.files[s], file'[s], TRUE, Settling, rotations[s] - run.rotations[s])
  <2>1. Covered(s, run.next.files[s], file[s], copied, Settling, rotations[s] - run.rotations[s]) /\ run.next.files[s] \in Place
    BY <1>5, CoveredParts, PlacesAre
  <2>2. QED
    BY <2>1, <1>3
<1>6. QED
  BY <1>1, <1>2, <1>4, <1>5, CoveredStep

LEMMA Ages == \A i, j \in Nat : i <= j => j - i \in Nat /\ (j + 1) - i = (j - i) + 1 /\ (j = 0 => i = 0 /\ j - i = 0)
OBVIOUS

\* A rotation: as long as the fingerprint on disk tells the old file, the next Collects
\* find what was in it; otherwise its events are left out.
LEMMA RotationCoveredOK ==
    ASSUME Safe, CoveredOK, NEW t \in Source, Rotation(t), file' \in [Source -> Files],
           \A s \in Source : s # t => file'[s] = file[s], Emptied(t, file[t], file'[t]),
           IF t = "app" THEN copied' = FALSE ELSE copied' = copied
    PROVE  CoveredOK'
<1>1. /\ rotations'[t] = rotations[t] + 1
      /\ \A s \in Source : s # t => rotations'[s] = rotations[s]
      /\ \A s \in Source : rotations[s] \in Nat
      /\ excused \subseteq excused'
      /\ Numbers(file[t].cur.lines) \subseteq excused' \/
           ~(rotations[t] > 0 \/ (state.files[t].head = <<>> /\ (t = "app" \/ state.files[t].ino = 0)))
      /\ UNCHANGED <<state, run, given>>
  BY RotationIs
<1>2. copied \in BOOLEAN /\ copied' \in BOOLEAN
  BY PlacesAre
<1> DEFINE D == given \union excused
           E == given \union excused'
<1>3. D \subseteq E /\ Settling \subseteq Settling' /\ E \subseteq Settling' /\ given' \union excused' = E
  BY <1>1 DEF Settling
<1>4. Numbers(file[t].cur.lines) \subseteq E \/ (rotations[t] = 0 /\ (state.files[t].head # <<>> \/ (t # "app" /\ state.files[t].ino # 0)))
  <2>1. CASE Numbers(file[t].cur.lines) \subseteq excused'
    BY <2>1
  <2>2. CASE ~(rotations[t] > 0 \/ (state.files[t].head = <<>> /\ (t = "app" \/ state.files[t].ino = 0)))
    <3>1. rotations[t] = 0
      BY <2>2, <1>1
    <3>2. QED
      BY <2>2, <3>1
  <2>3. QED
    BY <1>1, <2>1, <2>2
<1> HIDE DEF D, E
\* The log that is rotated.
<1>5. ASSUME NEW st \in Place, PlaceOK(t, st, file[t], bounds.lines), NEW F, NEW G, F \subseteq G, NEW r \in Nat,
             Covered(t, st, file[t], copied, F, r),
             Numbers(file[t].cur.lines) \subseteq G \/ (r = 0 /\ (st.head # <<>> \/ (t # "app" /\ st.ino # 0)))
      PROVE  Covered(t, st, file'[t], copied', G, r + 1)
  <2>1. file[t] \in Files /\ file'[t] \in Files /\ bounds.lines \in Nat
    BY PlacesAre
  <2>2. Covered(t, st, file'[t], FALSE, G, r + 1)
    BY <2>1, <1>2, <1>5, EmptiedCovered
  <2>3. t # "app" \/ FALSE = copied'
    OBVIOUS
  <2>4. QED
    BY <2>1, <2>2, <2>3, <1>2, OtherCovered
\* The other one.
<1>6. ASSUME NEW s \in Source, s # t, NEW st \in Place, NEW F, NEW G, F \subseteq G, NEW r, Covered(s, st, file[s], copied, F, r)
      PROVE  Covered(s, st, file'[s], copied', G, r)
  <2>1. file'[s] = file[s] /\ file[s] \in Files
    BY <1>6, PlacesAre
  <2>2. s # "app" \/ copied = copied'
    BY <1>6
  <2>3. Covered(s, st, file[s], copied', G, r)
    BY <2>1, <2>2, <1>2, <1>6, OtherCovered
  <2>4. QED
    BY <2>1, <2>3
<1>7. ASSUME NEW s \in Source
      PROVE  Covered(s, state.files[s], file'[s], copied', E, rotations'[s])
  <2>1. Covered(s, state.files[s], file[s], copied, D, rotations[s])
    BY CoveredParts DEF D
  <2>2. state.files[s] \in Place /\ PlaceOK(s, state.files[s], file[s], bounds.lines)
    BY PlacesAre
  <2>3. CASE s = t
    <3>1. rotations[t] \in Nat /\ rotations'[t] = rotations[t] + 1
      BY <1>1
    <3>2. Covered(t, state.files[t], file'[t], copied', E, rotations[t] + 1)
      BY <2>1, <2>2, <2>3, <3>1, <1>3, <1>4, <1>5
    <3>3. QED
      BY <2>3, <3>1, <3>2
  <2>4. CASE s # t
    <3>1. rotations'[s] = rotations[s]
      BY <2>4, <1>1
    <3>2. Covered(s, state.files[s], file'[s], copied', E, rotations[s])
      BY <2>1, <2>2, <2>4, <1>3, <1>6
    <3>3. QED
      BY <3>1, <3>2
  <2>5. QED
    BY <2>3, <2>4
<1>8. ASSUME NEW s \in Source, run.pc # "idle"
      PROVE  Covered(s, run.next.files[s], file'[s], copied', Settling', rotations'[s] - run.rotations[s])
  <2> DEFINE st == run.next.files[s]
             r == rotations[s] - run.rotations[s]
  <2>1. /\ Covered(s, st, file[s], copied, Settling, r)
        /\ st.ino = 0 => state.files[s].ino = 0
        /\ st.head = <<>> /\ state.files[s].head # <<>> => run.rotations[s] > 0
    BY <1>8, CoveredParts
  <2>2. st \in Place /\ PlaceOK(s, st, file[s], bounds.lines) /\ PlaceOK(s, state.files[s], file[s], bounds.lines)
    BY <1>8, PlacesAre
  <2>3. rotations[s] \in Nat /\ run.rotations[s] \in Nat /\ run.rotations[s] <= rotations[s]
    BY <1>8, UnderWay
  <2>4. r \in Nat /\ (rotations[s] + 1) - run.rotations[s] = r + 1 /\ (rotations[s] = 0 => run.rotations[s] = 0 /\ r = 0)
    BY <2>3, Ages
  <2> HIDE DEF st
  <2>5. CASE s = t
    <3>1. Numbers(file[t].cur.lines) \subseteq Settling' \/ (r = 0 /\ (st.head # <<>> \/ (t # "app" /\ st.ino # 0)))
      <4>1. CASE Numbers(file[t].cur.lines) \subseteq E
        <5>1. Numbers(file[t].cur.lines) \subseteq Settling'
          BY <4>1, <1>3
        <5>2. QED
          BY <5>1
      <4>2. CASE rotations[t] = 0 /\ state.files[t].head # <<>>
        <5>1. r = 0 /\ ~(run.rotations[t] > 0)
          BY <4>2, <2>4, <2>5
        <5>2. QED
          BY <5>1, <4>2, <2>1, <2>5
      <4>3. CASE rotations[t] = 0 /\ t # "app" /\ state.files[t].ino # 0
        BY <4>3, <2>1, <2>4, <2>5
      <4>4. QED
        BY <4>1, <4>2, <4>3, <1>4
    <3> HIDE DEF r
    <3>2. Covered(t, st, file'[t], copied', Settling', r + 1)
      BY <2>1, <2>2, <2>4, <2>5, <3>1, <1>3, <1>5
    <3>3. rotations'[s] - run.rotations[s] = r + 1
      BY <2>4, <2>5, <1>1
    <3>4. QED
      BY <2>5, <3>2, <3>3 DEF st
  <2>6. CASE s # t
    <3> HIDE DEF r
    <3>1. Covered(s, st, file'[s], copied', Settling', r)
      BY <2>1, <2>2, <2>6, <1>3, <1>6
    <3>2. rotations'[s] = rotations[s]
      BY <2>6, <1>1
    <3>3. QED
      BY <3>1, <3>2 DEF st, r
  <2>7. QED
    BY <2>5, <2>6
<1>9. QED
  BY <1>1, <1>3, <1>7, <1>8, CoveredStep

LEMMA RenameCoveredOK ==
    ASSUME Safe, CoveredOK, RenameAudit
    PROVE  CoveredOK'
<1>1. "audit" \in Source /\ "audit" # "app"
  BY DEF Source
<1>2. /\ file' \in [Source -> Files] /\ copied' = copied /\ Rotation("audit")
      /\ \A s \in Source : s # "audit" => file'[s] = file[s]
      /\ Emptied("audit", file["audit"], file'["audit"])
  BY RenameIs
<1>3. QED
  BY <1>1, <1>2, RotationCoveredOK

LEMMA TruncateCoveredOK ==
    ASSUME Safe, CoveredOK, TruncateApp
    PROVE  CoveredOK'
<1>1. "app" \in Source
  BY DEF Source
<1>2. /\ file' \in [Source -> Files] /\ copied' = FALSE /\ Rotation("app")
      /\ \A s \in Source : s # "app" => file'[s] = file[s]
      /\ Emptied("app", file["app"], file'["app"])
  BY TruncateIs
<1>3. QED
  BY <1>1, <1>2, RotationCoveredOK

\* What is left out at the first look, and of a copy that nobody recognises.
LEMMA SkippedHas ==
    ASSUME Safe, NEW s \in Source
    PROVE  /\ ~state.files[s].known => Held(file[s]) \subseteq Skipped
           /\ Unmatched(s, state.files[s], file[s]) => Numbers(file[s].prev.lines) \subseteq Skipped
           /\ Unmatched(s, state.files[s], file[s]) => Unrecognised(s) = Numbers(file[s].prev.lines)
<1> DEFINE S == {t \in Source : ~state.files[t].known}
           T == {{l.n : l \in Lines(file[t])} : t \in S}
<1>1. Skipped = (UNION T) \union Unrecognised("app")
  BY DEF Skipped, S
<1>2. ~state.files[s].known => Held(file[s]) \subseteq Skipped
  <2>1. SUFFICES ASSUME ~state.files[s].known PROVE Held(file[s]) \subseteq Skipped
    OBVIOUS
  <2>2. s \in S
    BY <2>1
  <2> HIDE DEF S
  <2>3. {l.n : l \in Lines(file[s])} \in T
    BY <2>2
  <2>4. Held(file[s]) = {l.n : l \in Lines(file[s])}
    BY DEF Held, Numbers, Lines
  <2> HIDE DEF T
  <2>5. QED
    BY <2>3, <2>4, <1>1
<1>3. Unmatched(s, state.files[s], file[s]) => Unrecognised(s) = Numbers(file[s].prev.lines) /\ s = "app"
  BY DEF Unmatched, Unrecognised, Numbers
<1> HIDE DEF T
<1>4. QED
  BY <1>1, <1>2, <1>3

LEMMA ReadCoveredOK ==
    ASSUME Safe, CoveredOK, Read
    PROVE  CoveredOK'
<1>1. /\ run'.pc # "idle" /\ run'.events = Events /\ run'.skipped = Skipped /\ run'.rotations = rotations
      /\ \A s \in Source : run'.next.files[s] = Part[s].st
  BY ReadTypes
<1>2. UNCHANGED <<file, copied, state, given, excused, rotations>>
  BY ReadIs
<1> DEFINE D == given \union excused
           E == given \union excused \union Skipped \union ToSet(Events)
<1>3. ASSUME NEW s \in Source
      PROVE  /\ Part[s].st.known /\ Covered(s, Part[s].st, file[s], copied, E, 0)
             /\ Part[s].st.ino = 0 => state.files[s].ino = 0
             /\ Part[s].st.head = <<>> /\ state.files[s].head # <<>> => rotations[s] > 0
  <2> DEFINE st == state.files[s]
             f == file[s]
  <2>1. PICK acc \in Acc : acc.events = <<>> /\ Part[s] = readSource(st, f, acc)
    BY PartIs
  <2>2. ReadWell(s, st, f, bounds.lines, Kept, Part[s])
    BY PartIs
  <2>3. /\ Covered(s, st, f, copied, D, rotations[s])
        /\ ~st.known => st.ino = 0
    BY CoveredParts
  <2>4. /\ f \in Files /\ bounds.lines \in Nat /\ copied \in BOOLEAN /\ LogOK(s, f, bounds.lines, copied)
        /\ st \in Place /\ PlaceOK(s, st, f, bounds.lines) /\ Recognised(st, f) /\ Fresh(st, f, Kept)
    BY PlacesAre
  <2>5. ToSet(Part[s].acc.events) \subseteq ToSet(Events)
    BY EventsAre
  <2>6. /\ ~st.known => Held(f) \subseteq E
        /\ Unmatched(s, st, f) => Numbers(f.prev.lines) \subseteq E
    <3>1. Skipped \subseteq E
      OBVIOUS
    <3> HIDE DEF E
    <3>2. QED
      BY <3>1, SkippedHas
  <2>7. D \union ToSet(Part[s].acc.events) \subseteq E
    BY <2>5
  <2> HIDE DEF D, E, st, f
  <2>8. ~st.known => Numbers(f.cur.lines) \union Numbers(f.prev.lines) \subseteq E
    BY <2>6 DEF Held
  <2>9. Covered(s, readSource(st, f, acc).st, f, copied, E, 0)
    <3>1. D \union ToSet(readSource(st, f, acc).acc.events) \subseteq E
      BY <2>1, <2>7
    <3>2. acc.events = <<>>
      BY <2>1
    <3>3. QED
      BY <2>3, <2>4, <2>6, <2>8, <3>1, <3>2, ReadCovered
  <2>10. Part[s].st.known /\ (Part[s].st.ino = 0 => st.ino = 0) /\ (Part[s].st.head = <<>> => f.cur.lines = <<>>)
    BY <2>2 DEF ReadWell
  <2>11. ASSUME Part[s].st.head = <<>>, st.head # <<>> PROVE rotations[s] > 0
    <3>1. f.cur.lines = <<>> /\ st.head \in Seq(Line)
      BY <2>4, <2>10, <2>11, PlaceTypes
    <3>2. st.known
      BY <2>3, <2>4, <2>11 DEF PlaceOK
    <3>3. ~matches(st.head, f.cur.lines)
      <4>1. Len(st.head) > 0 /\ Len(<<>>) = 0
        BY <3>1, <2>11, EmptySeq
      <4>2. QED
        BY <3>1, <4>1 DEF matches
    <3>4. rotated(st, f)
      BY <3>3 DEF rotated
    <3>5. rotations[s] # 0
      BY <2>3, <3>2, <3>4 DEF Covered
    <3>6. rotations[s] \in Nat
      BY DEF Safe, TypeOK
    <3>7. QED
      BY <3>5, <3>6
  <2>12. QED
    BY <2>1, <2>9, <2>10, <2>11 DEF st, f
<1>4. ASSUME NEW s \in Source PROVE rotations'[s] - run'.rotations[s] = 0
  <2>1. rotations[s] \in Nat
    BY DEF Safe, TypeOK
  <2>2. rotations'[s] = rotations[s] /\ run'.rotations[s] = rotations[s]
    BY <1>1, <1>2
  <2>3. QED
    BY <2>1, <2>2
<1>5. given' \union excused' \union run'.skipped \union ToSet(run'.events) = E /\ given' \union excused' = D
  BY <1>1, <1>2
<1> HIDE DEF D, E
<1>6. ASSUME NEW s \in Source
      PROVE  /\ Covered(s, state'.files[s], file'[s], copied', D, rotations'[s])
             /\ ~state'.files[s].known => state'.files[s].ino = 0
  <2>1. /\ Covered(s, state.files[s], file[s], copied, D, rotations[s])
        /\ ~state.files[s].known => state.files[s].ino = 0
    BY CoveredParts DEF D
  <2>2. QED
    BY <2>1, <1>2
<1>7. ASSUME NEW s \in Source
      PROVE  /\ run'.next.files[s].known
             /\ Covered(s, run'.next.files[s], file'[s], copied', E, rotations'[s] - run'.rotations[s])
             /\ run'.next.files[s].ino = 0 => state'.files[s].ino = 0
             /\ run'.next.files[s].head = <<>> /\ state'.files[s].head # <<>> => run'.rotations[s] > 0
  <2>1. run'.next.files[s] = Part[s].st /\ file'[s] = file[s] /\ copied' = copied /\ state' = state
    BY <1>1, <1>2
  <2>2. Covered(s, run'.next.files[s], file'[s], copied', E, rotations'[s] - run'.rotations[s])
    BY <2>1, <1>3, <1>4
  <2>3. QED
    BY <2>1, <2>2, <1>1, <1>3
<1>8. QED
  BY <1>5, <1>6, <1>7 DEF CoveredOK

\* Between the reading and the saving nothing moves but the local copy.
LEMMA StayCoveredOK ==
    ASSUME CoveredOK, UNCHANGED <<file, copied, given, excused, rotations>>, state'.files = state.files,
           \/ run'.pc = "idle"
           \/ run.pc # "idle" /\ run'.next = run.next /\ run'.skipped = run.skipped /\ run'.events = run.events /\ run'.rotations = run.rotations
    PROVE  CoveredOK'
BY DEF CoveredOK

\* The place of a Collect that is over is the one on disk.
LEMMA SettledCoveredOK ==
    ASSUME CoveredOK, run.pc # "idle", state' = run.next, run'.pc = "idle", UNCHANGED <<file, copied>>,
           rotations' = [s \in Source |-> rotations[s] - run.rotations[s]], Settling \subseteq given' \union excused',
           copied \in BOOLEAN, \A s \in Source : file[s] \in Files /\ run.next.files[s] \in Place
    PROVE  CoveredOK'
<1> DEFINE E == given' \union excused'
<1>1. Settling \subseteq E
  OBVIOUS
<1> HIDE DEF E
<1>2. ASSUME NEW s \in Source
      PROVE  /\ Covered(s, state'.files[s], file'[s], copied', E, rotations'[s])
             /\ ~state'.files[s].known => state'.files[s].ino = 0
  <2>1. /\ run.next.files[s].known
        /\ Covered(s, run.next.files[s], file[s], copied, Settling, rotations[s] - run.rotations[s])
    BY CoveredParts
  <2>2. Covered(s, run.next.files[s], file[s], copied, E, rotations[s] - run.rotations[s])
    BY <2>1, <1>1, OtherCovered
  <2>3. rotations'[s] = rotations[s] - run.rotations[s]
    OBVIOUS
  <2>4. QED
    BY <2>1, <2>2, <2>3
<1>3. QED
  BY <1>2 DEF CoveredOK, E

LEMMA NextCovered ==
    ASSUME Safe, CoveredOK, [Next]_vars
    PROVE  CoveredOK'
<1>1. CASE Read
  BY <1>1, ReadCoveredOK
<1>2. CASE SavePending
  <2>1. /\ run.pc # "idle" /\ run' = [run EXCEPT !.pc = "append"] /\ UNCHANGED <<file, copied, given, excused, rotations>>
        /\ \E m : state' = [state EXCEPT !.appending = m]
    BY <1>2 DEF SavePending, history
  <2>2. run \in Runs /\ state \in StateFile
    BY DEF Safe, TypeOK, Runs
  <2>3. run'.next = run.next /\ run'.skipped = run.skipped /\ run'.events = run.events /\ run'.rotations = run.rotations
    BY <2>1, <2>2 DEF Runs
  <2>4. state'.files = state.files
    BY <2>1, <2>2 DEF StateFile
  <2>5. QED
    BY <2>1, <2>3, <2>4, StayCoveredOK
<1>3. CASE AppendJSONL \/ Rotate
  <2>1. /\ run.pc # "idle" /\ (run' = [run EXCEPT !.pc = "rotate"] \/ run' = [run EXCEPT !.pc = "save"])
        /\ UNCHANGED <<file, copied, state, given, excused, rotations>>
    BY <1>3 DEF AppendJSONL, Rotate, history
  <2>2. run \in Runs
    BY DEF Safe, TypeOK, Runs
  <2>3. run'.next = run.next /\ run'.skipped = run.skipped /\ run'.events = run.events /\ run'.rotations = run.rotations
    BY <2>1, <2>2 DEF Runs
  <2>4. QED
    BY <2>1, <2>3, StayCoveredOK
<1>4. copied \in BOOLEAN /\ \A s \in Source : file[s] \in Files /\ run.next.files[s] \in Place
  BY Types DEF Safe
<1>5. CASE Return
  <2>1. /\ run.pc # "idle" /\ state' = run.next /\ run' = Idle /\ UNCHANGED <<file, copied>>
        /\ rotations' = [s \in Source |-> rotations[s] - run.rotations[s]]
        /\ given' = given \union ToSet(run.events) /\ excused' = excused \union run.skipped \union {}
    BY <1>5 DEF Return, Saved, Settled
  <2>2. Settling \subseteq given' \union excused'
    BY <2>1 DEF Settling
  <2>3. QED
    BY <2>1, <2>2, <1>4, IdleIs, SettledCoveredOK
<1>6. CASE Fails
  <2>1. run.pc # "idle" /\ run' = Idle /\ UNCHANGED <<file, copied>>
    BY <1>6 DEF Fails
  <2>2. CASE UNCHANGED <<state, given, excused, rotations>>
    BY <2>1, <2>2, IdleIs, StayCoveredOK
  <2>3. CASE Saved /\ Settled(ToSet(run.events)) /\ given' = given
    <3>1. /\ state' = run.next /\ rotations' = [s \in Source |-> rotations[s] - run.rotations[s]]
          /\ excused' = excused \union run.skipped \union ToSet(run.events) /\ given' = given
      BY <2>3 DEF Saved, Settled
    <3>2. Settling \subseteq given' \union excused'
      BY <3>1 DEF Settling
    <3>3. QED
      BY <2>1, <3>1, <3>2, <1>4, IdleIs, SettledCoveredOK
  <2>4. QED
    BY <1>6, <2>2, <2>3 DEF Fails, history
<1>7. CASE UNCHANGED vars
  <2>1. UNCHANGED <<file, copied, state, run, given, excused, rotations>>
    BY <1>7 DEF vars, history
  <2>2. QED
    BY <2>1 DEF CoveredOK
<1>8. CASE loadState
  <2>1. /\ run'.pc = "idle" /\ UNCHANGED <<file, copied, given, excused>>
        /\ \A s \in Source : \/ state'.files[s] = NoPlace
                             \/ state'.files[s] = state.files[s] /\ rotations'[s] = rotations[s]
    BY <1>8, LoadStateIs
  <2>2. ~NoPlace.known /\ NoPlace.ino = 0
    BY NoPlaceIs
  <2>3. ASSUME NEW s \in Source
        PROVE  /\ Covered(s, state'.files[s], file[s], copied, given \union excused, rotations'[s])
               /\ ~state'.files[s].known => state'.files[s].ino = 0
    <3>1. CASE state'.files[s] = NoPlace
      BY <2>2, <3>1 DEF Covered
    <3>2. CASE state'.files[s] = state.files[s] /\ rotations'[s] = rotations[s]
      BY <3>2, CoveredParts
    <3>3. QED
      BY <2>1, <3>1, <3>2
  <2>4. QED
    BY <2>1, <2>3 DEF CoveredOK
<1>9. QED
  BY <1>1, <1>2, <1>3, <1>5, <1>6, <1>7, <1>8, WriteCoveredOK, RenameCoveredOK, CopyCoveredOK, TruncateCoveredOK DEF Next

\* Unread is what the next Collects find; the exceptions are the ones NothingSkipped names.
LEMMA CoveredIsEnough ==
    ASSUME Safe, CoveredOK
    PROVE  NothingSkipped
<1>1. SUFFICES ASSUME NEW s \in Source, NEW l \in Lines(file[s]), l.n \notin given \union excused \union Unrecognised(s),
                      l.size <= maxResult, state.files[s].known
               PROVE  l.n \in Unread(s)
  BY DEF NothingSkipped
<1> DEFINE D == given \union excused
           st == state.files[s]
           f == file[s]
<1>2. Covered(s, st, f, copied, D, rotations[s])
  BY CoveredParts
<1>3. f \in Files /\ bounds.lines \in Nat /\ copied \in BOOLEAN /\ LogOK(s, f, bounds.lines, copied) /\ st \in Place
  BY PlacesAre
<1>4. l.n \notin D
  BY <1>1
<1>5. Unmatched(s, st, f) => l.n \notin Numbers(f.prev.lines)
  BY <1>1, SkippedHas
<1>6. Unread(s) = ToSet(readSource(st, f, NoLimit).acc.events)
  BY DEF Unread
<1>7. l \in Lines(f) /\ st.known
  BY <1>1
<1> HIDE DEF D, st, f
<1>8. l.n \in ToSet(readSource(st, f, NoLimit).acc.events)
  BY <1>1, <1>2, <1>3, <1>4, <1>5, <1>7, Found
<1>9. QED
  BY <1>6, <1>8

LEMMA InitTurnsAndCovered ==
    ASSUME Init
    PROVE  TurnsOK /\ CoveredOK
<1>1. /\ state = NoState /\ run.pc = "idle" /\ starved = [s \in Source |-> 0]
      /\ \A s \in Source : state.files[s] = NoPlace
  BY IdleIs, NoStateIs DEF Init
<1>2. TurnsOK
  BY <1>1 DEF TurnsOK
<1>3. ~NoPlace.known /\ NoPlace.ino = 0
  BY NoPlaceIs
<1>4. CoveredOK
  BY <1>1, <1>3 DEF CoveredOK, Covered
<1>5. QED
  BY <1>2, <1>4

(***************************************************************************)
(* The theorems                                                            *)
(***************************************************************************)

\* The inductive invariant of the collector: Next keeps every part of it.
THEOREM Invariance == Spec => []IInv
<1>1. Init => IInv
  BY InitSafe, InitTurnsAndCovered DEF IInv, Safe
<1>2. IInv /\ [Next]_vars => IInv'
  BY NextSafe, NextTurns, NextCovered DEF IInv, Safe
<1>3. QED
  BY <1>1, <1>2, PTL DEF Spec

\* Whatever is rotated, fails or is interrupted, and whatever the limits are: no Collect
\* returns an event that one before it returned, or one event twice (nextcloud.go:15-21).
THEOREM ReturnedOnce == Spec => []NothingTwice
<1>1. IInv => NothingTwice
  BY SafeIsEnough DEF IInv, Safe
<1>2. QED
  BY <1>1, Invariance, PTL

\* The local copy holds no event twice, and what an interrupted Collect has appended is
\* cut off without what was returned (nextcloud.go:345-367).
THEOREM CopyIsExact == Spec => []LocalCopyExact
<1>1. IInv => LocalCopyExact
  BY SafeIsEnough DEF IInv, Safe
<1>2. QED
  BY <1>1, Invariance, PTL

\* Of two Collects in a row that succeed one takes the first event that waits in a log,
\* however much the other log holds (nextcloud.go:274-276).
THEOREM TurnsAreTaken == Spec => []PutOffOnce
<1>1. IInv => PutOffOnce
  BY DEF IInv, TurnsOK, PutOffOnce
<1>2. QED
  BY <1>1, Invariance, PTL

\* An event that a report can hold is in reach of the next Collects until it is returned,
\* but for the exceptions that NothingSkipped names (nextcloud.go:372-495).
THEOREM NothingIsLost == Spec => []NothingSkipped
<1>1. IInv => NothingSkipped
  BY CoveredIsEnough DEF IInv, Safe
<1>2. QED
  BY <1>1, Invariance, PTL

=============================================================================
