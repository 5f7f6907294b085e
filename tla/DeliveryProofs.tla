--------------------------- MODULE DeliveryProofs ---------------------------
(***************************************************************************)
(* Proofs about ReportDelivery for any senders, clients, keys, allow lists, *)
(* retries and clocks: the inductive invariant IInv, what follows from it   *)
(* for a reader of the files, and that a report's way keeps the promise of  *)
(* ReportChannel.                                                          *)
(***************************************************************************)
EXTENDS ReportDelivery, TLAPS

Stage == {"none", "sent", "admitted", "answered", "gone"}

(***************************************************************************)
(* Numbers                                                                 *)
(***************************************************************************)

\* What fits an int64 does not wrap.
LEMMA NoWrap ==
    ASSUME NEW x \in -Half .. Half - 1, Half \in Nat \ {0}
    PROVE  Wrap(x) = x
<1> DEFINE y == x + Half
           m == 2 * Half
<1>1. y \in 0 .. m - 1 /\ m \in Nat /\ m > 0
  OBVIOUS
<1> HIDE DEF y, m
<1>2. y % m = y
  BY <1>1, SMTT(30)
<1>3. QED
  BY <1>2 DEF y, m, Wrap

LEMMA Skew == skew \in Nat
<1>1. TimestampSkew \in Int /\ DefaultTimestampSkew \in Nat
  BY DeliveryAssumption
<1>2. QED
  BY <1>1 DEF skew

\* What is beyond it comes back from below.
LEMMA WrapsOver ==
    ASSUME NEW x \in Half .. 2 * Half - 1, Half \in Nat \ {0}
    PROVE  Wrap(x) = x - 2 * Half
<1> DEFINE y == x - Half
           m == 2 * Half
<1>1. y \in 0 .. m - 1 /\ m \in Nat /\ m > 0 /\ x + Half = y + m
  OBVIOUS
<1> HIDE DEF y, m
<1>2. (y + m) % m = y
  BY <1>1, SMTT(30)
<1>3. Wrap(x) = y - Half
  BY <1>1, <1>2 DEF m, Wrap
<1>4. QED
  BY <1>3 DEF y

\* For any int64 in the header the check in int64 admits the ages in Ages and no other.
LEMMA InRangeIsWithinSkew ==
    ASSUME NEW t \in 0 .. MaxTime, NEW ts \in -Half .. Half - 1
    PROVE  InRange(t, ts) <=> t - ts \in Ages
<1>1. Half \in Nat \ {0} /\ MaxTime \in Nat /\ skew \in Nat /\ MaxTime + skew < Half
  BY DeliveryAssumption, ClockAssumption, Skew
<1>2. PICK d \in Int : d = t - ts
  BY <1>1
<1>3. d >= -Half + 1 /\ d <= Half + MaxTime
  BY <1>1, <1>2
<1>4. t - ts \in Ages <=> d \in -skew .. skew \/ d = Half
  BY <1>1, <1>2 DEF Ages
<1>5. CASE d < Half
  <2>1. d \in -Half .. Half - 1 /\ -d \in -Half .. Half - 1
    BY <1>1, <1>3, <1>5
  <2>2. Wrap(d) = d /\ Wrap(-d) = -d
    BY <1>1, <2>1, NoWrap
  <2>3. InRange(t, ts) <=> (IF d < 0 THEN -d ELSE d) <= skew
    BY <1>2, <2>2, Zenon DEF InRange
  <2>4. QED
    BY <1>1, <1>4, <1>5, <2>3
<1>6. CASE d >= Half
  <2>1. d \in Half .. 2 * Half - 1
    BY <1>1, <1>3, <1>6
  <2>2. PICK e \in Int : e = d - 2 * Half
    BY <1>1
  <2>3. Wrap(d) = e
    BY <1>1, <2>1, <2>2, WrapsOver, Zenon
  <2>4. InRange(t, ts) <=> (IF e < 0 THEN Wrap(-e) ELSE e) <= skew
    BY <1>2, <2>3, Zenon DEF InRange
  <2>5. e < 0
    BY <1>1, <2>1, <2>2
  <2>6. CASE d = Half
    <3>1. -e = Half /\ Half \in Half .. 2 * Half - 1
      BY <1>1, <2>2, <2>6
    <3>2. Wrap(Half) = Half - 2 * Half
      BY <1>1, <3>1, WrapsOver, Zenon
    <3>3. Wrap(-e) <= skew
      BY <1>1, <3>1, <3>2
    <3>4. QED
      BY <1>4, <2>4, <2>5, <2>6, <3>3
  <2>7. CASE d # Half
    <3>1. -e \in -Half .. Half - 1
      BY <1>1, <1>3, <1>6, <2>2, <2>7
    <3>2. Wrap(-e) = -e
      BY <1>1, <3>1, NoWrap
    <3>3. -e > skew /\ d \notin -skew .. skew
      BY <1>1, <1>3, <1>6, <2>2
    <3>4. QED
      BY <1>1, <1>4, <2>2, <2>4, <2>5, <2>7, <3>2, <3>3
  <2>8. QED
    BY <2>6, <2>7
<1>7. QED
  BY <1>1, <1>5, <1>6

\* At t, a time read at a by a clock that is d off is within k if w has passed at most,
\* and an int64 if k is far enough from the end of those.
LEMMA InStepInRange ==
    ASSUME NEW t \in Nat, NEW a \in Nat, NEW d \in Int, NEW k \in Nat, NEW w \in Nat, NEW m \in Nat,
           NEW h \in Nat, a <= t, t - a <= w, t <= m, d >= w - k, d <= k - w, m + k < h
    PROVE  t - (a + d) \in -k .. k /\ a + d \in -h .. h - 1
OBVIOUS

\* A set of positions of checks that is not empty has a first one.
LEMMA FirstExists ==
    ASSUME NEW F \in SUBSET (1 .. 9), F # {}
    PROVE  \E i \in F : \A j \in F : i <= j
<1>1. CASE 1 \in F  BY <1>1
<1>2. CASE 1 \notin F /\ 2 \in F  BY <1>2
<1>3. CASE 1 \notin F /\ 2 \notin F /\ 3 \in F  BY <1>3
<1>4. CASE 1 \notin F /\ 2 \notin F /\ 3 \notin F /\ 4 \in F  BY <1>4
<1>5. CASE F \subseteq 5 .. 9
  <2>1. CASE 5 \in F  BY <1>5, <2>1
  <2>2. CASE 5 \notin F /\ 6 \in F  BY <1>5, <2>2
  <2>3. CASE 5 \notin F /\ 6 \notin F /\ 7 \in F
    <3>1. \A j \in F : 7 <= j
      BY <1>5, <2>3
    <3>2. QED
      BY <2>3, <3>1
  <2>4. CASE F \subseteq {8, 9}
    <3>1. CASE 8 \in F  BY <2>4, <3>1
    <3>2. CASE 8 \notin F
      <4>1. F = {9}
        BY <2>4, <3>2
      <4>2. QED
        BY <4>1
    <3>3. QED
      BY <3>1, <3>2
  <2>5. 5 \in F \/ 6 \in F \/ 7 \in F \/ F \subseteq {8, 9}
    BY <1>5
  <2>6. QED
    BY <2>1, <2>2, <2>3, <2>4, <2>5, Zenon
<1>6. 1 \in F \/ 2 \in F \/ 3 \in F \/ 4 \in F \/ F \subseteq 5 .. 9
  OBVIOUS
<1>7. QED
  BY <1>1, <1>2, <1>3, <1>4, <1>5, <1>6, Zenon

(***************************************************************************)
(* The handler's verdict                                                   *)
(***************************************************************************)

\* The signature is the one of an agent with a key.
Signed(s, c) ==
    /\ client[s].id \in DOMAIN Keys
    /\ Verify(Keys[client[s].id], c.ts, s, Compute(client[s].key, c.signed, s))

Refusals == {400, 401, 403, 405, 413}

Failing(s, c) == {i \in 1 .. 9 : ~Checks(s, c)[i][1]}

\* Nothing fails, or the request gets the answer of a check that fails.
LEMMA VerdictIsACheck ==
    ASSUME NEW s \in Senders, NEW c \in Request
    PROVE  \/ Failing(s, c) = {} /\ Verdict(s, c) = 200
           \/ \E i \in Failing(s, c) : Verdict(s, c) = Checks(s, c)[i][2]
<1> DEFINE failing == Failing(s, c)
           first == CHOOSE i \in failing : \A j \in failing : i <= j
<1>1. Verdict(s, c) = IF failing = {} THEN 200 ELSE Checks(s, c)[first][2]
  BY Zenon DEF Verdict, Failing
<1>2. CASE failing = {}
  BY <1>1, <1>2, Zenon
<1>3. CASE failing # {}
  <2>1. first \in failing
    <3>1. failing \in SUBSET (1 .. 9)
      BY Zenon DEF Failing
    <3>2. \E i \in failing : \A j \in failing : i <= j
      BY <1>3, <3>1, FirstExists, Zenon
    <3>3. QED
      BY <3>2, Zenon
  <2>2. QED
    BY <1>1, <1>3, <2>1, Zenon
<1>4. QED
  BY <1>2, <1>3, Zenon

\* The answers of the nine checks, and what the ones on identity and time say.
LEMMA ChecksAnswer ==
    ASSUME NEW s \in Senders, NEW c \in Request, NEW i \in 1 .. 9
    PROVE  /\ Checks(s, c)[i][2] \in Refusals
           /\ Checks(s, c)[i][2] = 401 => i \in {6, 7, 8}
<1>1. /\ Checks(s, c)[1][2] = 405 /\ Checks(s, c)[2][2] = 400 /\ Checks(s, c)[3][2] = 400
      /\ Checks(s, c)[4][2] = 403 /\ Checks(s, c)[5][2] = 413 /\ Checks(s, c)[6][2] = 401
      /\ Checks(s, c)[7][2] = 401 /\ Checks(s, c)[8][2] = 401 /\ Checks(s, c)[9][2] = 400
  BY DEF Checks
<1>2. i \in {1, 2, 3, 4, 5, 6, 7, 8, 9}
  OBVIOUS
<1>3. QED
  BY <1>1, <1>2 DEF Refusals

LEMMA ChecksFail ==
    ASSUME NEW s \in Senders, NEW c \in Request
    PROVE  /\ 6 \in Failing(s, c) => ~client[s].signs
           /\ 7 \in Failing(s, c) <=> ~InRange(clock, c.ts)
           /\ 8 \in Failing(s, c) <=> ~Signed(s, c)
<1>1. 6 \in Failing(s, c) => ~client[s].signs
  BY DEF Checks, Failing
<1>2. 7 \in Failing(s, c) <=> ~InRange(clock, c.ts)
  <2>1. Checks(s, c)[7] = <<InRange(clock, c.ts), 401>>
    BY DEF Checks
  <2>2. Checks(s, c)[7][1] = InRange(clock, c.ts)
    BY <2>1
  <2>3. QED
    BY <2>2 DEF Failing
<1>3. 8 \in Failing(s, c) <=> ~Signed(s, c)
  <2>1. Checks(s, c)[8] = <<Signed(s, c), 401>>
    BY DEF Checks, Signed
  <2>2. Checks(s, c)[8][1] = Signed(s, c)
    BY <2>1
  <2>3. QED
    BY <2>2 DEF Failing
<1>4. QED
  BY <1>1, <1>2, <1>3, Zenon

LEMMA VerdictType ==
    ASSUME NEW s \in Senders, NEW c \in Request
    PROVE  Verdict(s, c) \in Status \ {0}
<1>1. CASE Verdict(s, c) = 200
  BY <1>1 DEF Status
<1>2. CASE \E i \in Failing(s, c) : Verdict(s, c) = Checks(s, c)[i][2]
  <2>1. PICK i \in 1 .. 9 : Verdict(s, c) = Checks(s, c)[i][2]
    BY <1>2, Zenon DEF Failing
  <2>2. Verdict(s, c) \in Refusals
    BY <2>1, ChecksAnswer
  <2>3. QED
    BY <2>2 DEF Status, Refusals
<1>3. QED
  BY <1>1, <1>2, VerdictIsACheck, ZenonT(60)

\* What is admitted passed the check of the time and is from an agent with a key.
LEMMA AdmittedPassed ==
    ASSUME NEW s \in Senders, NEW c \in Request, Verdict(s, c) = 200
    PROVE  InRange(clock, c.ts) /\ client[s].id \in DOMAIN Keys
<1>1. Failing(s, c) = {}
  <2> SUFFICES ASSUME NEW i \in Failing(s, c), Verdict(s, c) = Checks(s, c)[i][2] PROVE FALSE
    BY VerdictIsACheck, Zenon
  <2>1. i \in 1 .. 9
    BY Zenon DEF Failing
  <2>2. Checks(s, c)[i][2] \in Refusals
    BY <2>1, ChecksAnswer
  <2>3. QED
    BY <2>2 DEF Refusals
<1>2. InRange(clock, c.ts) /\ Signed(s, c)
  <2>1. 7 \notin Failing(s, c) /\ 8 \notin Failing(s, c)
    BY <1>1, Zenon
  <2>2. QED
    BY <2>1, ChecksFail
<1>3. QED
  BY <1>2, Zenon DEF Signed

\* A 401 is the answer of one of three checks.
LEMMA UnauthorizedFailed ==
    ASSUME NEW s \in Senders, NEW c \in Request, Verdict(s, c) = 401
    PROVE  ~client[s].signs \/ ~InRange(clock, c.ts) \/ ~Signed(s, c)
<1>1. Verdict(s, c) # 200
  OBVIOUS
<1>2. PICK i \in Failing(s, c) : Verdict(s, c) = Checks(s, c)[i][2]
  BY <1>1, VerdictIsACheck
<1>3. i \in {6, 7, 8}
  <2>1. i \in 1 .. 9
    BY <1>2, Zenon DEF Failing
  <2>2. QED
    BY <1>2, <2>1, ChecksAnswer
<1>4. 6 \in Failing(s, c) \/ 7 \in Failing(s, c) \/ 8 \in Failing(s, c)
  BY <1>2, <1>3
<1>5. QED
  BY <1>4, ChecksFail

(***************************************************************************)
(* Types                                                                   *)
(***************************************************************************)

LEMMA Constants ==
    /\ RetryCount \in Nat /\ MaxTime \in Nat /\ Timeout \in Nat /\ Half \in Nat \ {0}
    /\ skew \in Nat /\ Attempt = 1 .. RetryCount + 1
BY DeliveryAssumption, Skew DEF Attempt

\* What the types say of one sender.
LEMMA SenderParts ==
    ASSUME TypeOK, NEW s \in Senders
    PROVE  /\ pc[s] \in {"ready", "waiting", "returned"}
           /\ attempt[s] \in Attempt /\ attempt[s] \in Nat /\ attempt[s] <= RetryCount + 1
           /\ since[s] \in Nat /\ since[s] <= MaxTime
           /\ clock \in Nat /\ clock <= MaxTime
           /\ last[s] \in Error
           /\ client[s].drift \in Int
           /\ client[s].drift >= -Half /\ client[s].drift <= Half - 1 - MaxTime
<1>1. /\ pc[s] \in {"ready", "waiting", "returned"} /\ attempt[s] \in Attempt
      /\ since[s] \in 0 .. MaxTime /\ last[s] \in Error
  BY Zenon DEF TypeOK
<1>2. clock \in 0 .. MaxTime /\ client \in Clients
  BY Zenon DEF TypeOK
<1>3. client[s].drift \in Int
  <2>1. client \in [Senders -> Setup]
    BY <1>2, DeliveryAssumption, Zenon
  <2>2. client[s] \in Setup
    BY <2>1, Zenon
  <2>3. QED
    BY <2>2, Zenon DEF Setup
<1>4. client[s].drift \in -Half .. (Half - 1) - MaxTime
  BY <1>2, ClockAssumption, Zenon
<1>5. QED
  <2>1. attempt[s] \in Nat /\ attempt[s] <= RetryCount + 1
    BY <1>1, Constants
  <2>2. since[s] \in Nat /\ since[s] <= MaxTime /\ clock \in Nat /\ clock <= MaxTime
    BY <1>1, <1>2, Constants
  <2>3. client[s].drift >= -Half /\ client[s].drift <= Half - 1 - MaxTime
    BY <1>3, <1>4, Constants
  <2>4. QED
    BY <1>1, <1>3, <2>1, <2>2, <2>3, Zenon

\* What the types say of one request.
LEMMA RequestParts ==
    ASSUME TypeOK, NEW s \in Senders, NEW n \in Attempt
    PROVE  /\ call[s][n] \in Request /\ lines[s][n] \in Nat
           /\ call[s][n].stage \in Stage /\ call[s][n].status \in Status
           /\ call[s][n].ts \in Int /\ call[s][n].signed \in Int /\ call[s][n].now \in 0 .. MaxTime
<1>1. call[s][n] \in Request /\ lines[s][n] \in Nat
  <2>1. call[s] \in [Attempt -> Request] /\ lines[s] \in [Attempt -> Nat]
    BY Zenon DEF TypeOK
  <2>2. QED
    BY <2>1, Zenon
<1>2. QED
  BY <1>1, Zenon DEF Request, Stage

\* Any fields of the types make a request.
LEMMA MakesRequest ==
    ASSUME NEW c \in Request, NEW stage \in Stage, NEW status \in Status, NEW t \in 0 .. MaxTime
    PROVE  /\ [c EXCEPT !.stage = stage] \in Request
           /\ [c EXCEPT !.stage = stage, !.status = status] \in Request
           /\ [c EXCEPT !.stage = stage, !.now = t] \in Request
BY Zenon DEF Request, Stage

\* The two things the checks make of a request.
Admit(c) == [c EXCEPT !.stage = "admitted", !.now = clock]
Refuse(c, status) == [c EXCEPT !.stage = "answered", !.status = status]

LEMMA CheckedIs ==
    ASSUME TypeOK, NEW c \in Request, NEW status \in Status
    PROVE  /\ Admit(c) \in Request /\ Admit(c).status = c.status
           /\ Refuse(c, status) \in Request /\ Refuse(c, status).status = status
<1>1. clock \in 0 .. MaxTime
  BY Zenon DEF TypeOK
<1>2. Admit(c) \in Request /\ Refuse(c, status) \in Request
  BY <1>1, MakesRequest, Zenon DEF Stage, Admit, Refuse
<1>3. QED
  BY <1>2, Zenon DEF Request, Admit, Refuse

\* One request of one sender changes.
Puts(s, n, c) == call' = [call EXCEPT ![s][n] = c]

LEMMA CallMoves ==
    ASSUME TypeOK, NEW s \in Senders, NEW n \in Attempt, NEW c \in Request, Puts(s, n, c)
    PROVE  /\ call' \in [Senders -> [Attempt -> Request]]
           /\ call'[s][n] = c
           /\ \A t \in Senders, m \in Attempt : t # s \/ m # n => call'[t][m] = call[t][m]
<1>1. call \in [Senders -> [Attempt -> Request]]
  BY Zenon DEF TypeOK
<1>2. call' \in [Senders -> [Attempt -> Request]]
  BY <1>1, Zenon DEF Puts
<1>3. call'[s] = [call[s] EXCEPT ![n] = c] /\ \A t \in Senders : t # s => call'[t] = call[t]
  BY <1>1, Zenon DEF Puts
<1>4. call[s] \in [Attempt -> Request]
  BY <1>1, Zenon
<1>5. call'[s][n] = c /\ \A m \in Attempt : m # n => call'[s][m] = call[s][m]
  BY <1>3, <1>4, Zenon
<1>6. QED
  BY <1>2, <1>3, <1>5, Zenon

\* A line is added for one request.
Adds(s, n) == lines' = [lines EXCEPT ![s][n] = @ + 1]

LEMMA LinesMove ==
    ASSUME TypeOK, NEW s \in Senders, NEW n \in Attempt, Adds(s, n)
    PROVE  /\ lines' \in [Senders -> [Attempt -> Nat]]
           /\ lines'[s][n] = lines[s][n] + 1
           /\ \A t \in Senders, m \in Attempt : t # s \/ m # n => lines'[t][m] = lines[t][m]
<1>1. lines \in [Senders -> [Attempt -> Nat]]
  BY Zenon DEF TypeOK
<1>2. lines[s] \in [Attempt -> Nat]
  BY <1>1, Zenon
<1>3. PICK l \in Nat : l = lines[s][n] + 1
  <2>1. lines[s][n] \in Nat
    BY <1>2, Zenon
  <2>2. QED
    BY <2>1
<1>4. lines' = [lines EXCEPT ![s] = [lines[s] EXCEPT ![n] = l]]
  BY <1>3, Zenon DEF Adds
<1>5. [lines[s] EXCEPT ![n] = l] \in [Attempt -> Nat]
  BY <1>2, Zenon
<1>6. lines' \in [Senders -> [Attempt -> Nat]]
  BY <1>1, <1>4, <1>5, Zenon
<1>7. lines'[s] = [lines[s] EXCEPT ![n] = l] /\ \A t \in Senders : t # s => lines'[t] = lines[t]
  BY <1>1, <1>4, Zenon
<1>8. lines'[s][n] = l /\ \A m \in Attempt : m # n => lines'[s][m] = lines[s][m]
  BY <1>2, <1>7, Zenon
<1>9. QED
  BY <1>3, <1>6, <1>7, <1>8, Zenon

(***************************************************************************)
(* What a step leaves alone is kept                                        *)
(***************************************************************************)

\* A request is as it was, or its answer is taken.
SameRequest(s, n) ==
    /\ call'[s][n].status = call[s][n].status
    /\ call'[s][n].ts = call[s][n].ts
    /\ call'[s][n].signed = call[s][n].signed
    /\ call'[s][n].now = call[s][n].now
    /\ \/ call'[s][n].stage = call[s][n].stage
       \/ call[s][n].stage = "answered" /\ call'[s][n].stage = "gone"

LEMMA RequestStays ==
    ASSUME NEW s \in Senders, NEW n \in Attempt, RequestKept(s, n), client' = client,
           lines'[s][n] = lines[s][n], SameRequest(s, n), Untried(s, n)' => Untried(s, n)
    PROVE  RequestKept(s, n)'
<1> DEFINE U == Untried(s, n)
<1>1. U' => U
  OBVIOUS
<1> HIDE DEF U
<1>2. (U => call[s][n].stage = "none") => (U' => call'[s][n].stage = "none")
  BY <1>1 DEF SameRequest
<1>3. RequestKept(s, n)' <=>
        /\ U' => call'[s][n].stage = "none"
        /\ call'[s][n].stage \in {"none", "sent", "admitted"} => call'[s][n].status = 0 /\ lines'[s][n] = 0
        /\ call'[s][n].stage # "none" =>
              call'[s][n].signed = call'[s][n].ts /\ call'[s][n].ts - client'[s].drift \in 0 .. MaxTime
        /\ call'[s][n].stage = "admitted" \/ lines'[s][n] > 0 =>
              client'[s].id \in DOMAIN Keys /\ call'[s][n].now - call'[s][n].ts \in Ages
        /\ lines'[s][n] <= 1
        /\ lines'[s][n] = 1 => call'[s][n].status \in {200, 500}
        /\ call'[s][n].status = 200 => lines'[s][n] = 1
  BY Zenon DEF RequestKept, U
<1>4. (U => call[s][n].stage = "none")
  BY Zenon DEF RequestKept, U
<1>5. QED
  BY <1>2, <1>3, <1>4 DEF RequestKept, SameRequest

LEMMA SenderStays ==
    ASSUME TypeOK, NEW s \in Senders, SenderKept(s), client' = client, clock' \in Nat, clock <= clock',
           pc'[s] = pc[s], attempt'[s] = attempt[s], since'[s] = since[s], last'[s] = last[s],
           \A n \in Attempt :
              /\ call[s][n].status = 200 => call'[s][n].status = 200
              /\ call[s][n].stage # "none" => call'[s][n].stage # "none" /\ call'[s][n].ts = call[s][n].ts
    PROVE  SenderKept(s)'
<1>1. since'[s] <= clock'
  BY SenderParts DEF SenderKept
<1>2. pc'[s] = "waiting" => /\ call'[s][attempt'[s]].stage # "none"
                            /\ call'[s][attempt'[s]].ts = since'[s] + client'[s].drift
  BY SenderParts, ZenonT(60) DEF SenderKept
<1>3. last'[s] = "nil" => pc'[s] = "returned" /\ \E n \in Attempt : call'[s][n].status = 200
  BY Zenon DEF SenderKept
<1>4. QED
  BY <1>1, <1>2, <1>3, Zenon DEF SenderKept

FilesKept ==
    /\ \A id \in torn : HasFragment(id)
    /\ \A s \in Senders, n \in Attempt : <<s, n>> \in spoilt => HasFragment(client[s].id)

\* A fragment stays the fragment of its request.
LEMMA FragmentsStay ==
    ASSUME client' = client, \A t \in Senders, m \in Attempt : Fragment(t, m) => Fragment(t, m)'
    PROVE  \A id : HasFragment(id) => HasFragment(id)'
BY Zenon DEF HasFragment

LEMMA FilesStay ==
    ASSUME FilesKept, client' = client, torn' = torn, spoilt' = spoilt,
           \A t \in Senders, m \in Attempt : Fragment(t, m) => Fragment(t, m)'
    PROVE  FilesKept'
<1>1. \A id : HasFragment(id) => HasFragment(id)'
  BY FragmentsStay, Zenon
<1>2. \A id \in torn' : HasFragment(id)'
  BY <1>1, Zenon DEF FilesKept
<1>3. ASSUME NEW s \in Senders, NEW n \in Attempt, <<s, n>> \in spoilt' PROVE HasFragment(client[s].id)'
  <2>1. PICK t \in Senders, m \in Attempt : client[t].id = client[s].id /\ Fragment(t, m)
    BY <1>3, Zenon DEF FilesKept, HasFragment
  <2>2. Fragment(t, m)' /\ client'[t].id = client'[s].id
    BY <2>1, Zenon
  <2>3. QED
    BY <2>2, Zenon DEF HasFragment
<1>4. QED
  BY <1>2, <1>3, Zenon DEF FilesKept

(***************************************************************************)
(* SendOne                                                                 *)
(***************************************************************************)

\* The next attempt, or out of the loop.
Concludes(s, err) == Return(s, err) \/ (Failed(s, err) /\ err # "nil")

LEMMA ConcludesTyped ==
    ASSUME TypeOK, NEW s \in Senders, NEW err \in Error, Concludes(s, err)
    PROVE  /\ pc' \in [Senders -> {"ready", "waiting", "returned"}]
           /\ attempt' \in [Senders -> Attempt] /\ since' = since /\ cancelled' = cancelled
           /\ last' \in [Senders -> Error] /\ last'[s] = err
           /\ \A t \in Senders : t # s => pc'[t] = pc[t] /\ attempt'[t] = attempt[t] /\ last'[t] = last[t]
           /\ \/ pc'[s] = "returned" /\ attempt'[s] = attempt[s]
              \/ pc'[s] = "ready" /\ attempt'[s] = attempt[s] + 1 /\ err # "nil"
<1>1. /\ pc \in [Senders -> {"ready", "waiting", "returned"}] /\ attempt \in [Senders -> Attempt]
      /\ last \in [Senders -> Error]
  BY Zenon DEF TypeOK
<1>2. CASE Return(s, err)
  BY <1>1, <1>2, Zenon DEF Return
<1>3. CASE ~Return(s, err) /\ Failed(s, err) /\ err # "nil"
  <2>1. /\ attempt[s] # RetryCount + 1
        /\ pc' = [pc EXCEPT ![s] = "ready"]
        /\ attempt' = [attempt EXCEPT ![s] = attempt[s] + 1]
        /\ last' = [last EXCEPT ![s] = err]
        /\ UNCHANGED <<since, cancelled>>
    BY <1>3, Zenon DEF Failed
  <2>2. attempt[s] + 1 \in Attempt
    BY <2>1, SenderParts, Constants
  <2>3. QED
    BY <1>1, <1>3, <2>1, <2>2, Zenon
<1>4. QED
  BY <1>2, <1>3, Zenon DEF Concludes

\* The attempts still to come after it were still to come before it.
LEMMA ConcludesAhead ==
    ASSUME TypeOK, NEW s \in Senders, NEW err \in Error, Concludes(s, err), pc[s] # "returned",
           NEW t \in Senders, NEW n \in Attempt, Untried(t, n)'
    PROVE  Untried(t, n)
<1>1. n \in Nat /\ attempt[t] \in Nat
  BY SenderParts, Constants
<1>2. CASE t # s
  <2>1. pc'[t] = pc[t] /\ attempt'[t] = attempt[t]
    BY <1>2, ConcludesTyped, Zenon
  <2>2. QED
    BY <2>1, Zenon DEF Untried
<1>3. CASE t = s
  <2>1. \/ pc'[t] = "returned" /\ attempt'[t] = attempt[t]
        \/ pc'[t] = "ready" /\ attempt'[t] = attempt[t] + 1
    BY <1>3, ConcludesTyped, Zenon
  <2>2. QED
    BY <1>1, <2>1 DEF Untried
<1>4. QED
  BY <1>2, <1>3

\* At most answers are taken.
CallSettles ==
    /\ call' \in [Senders -> [Attempt -> Request]]
    /\ \A t \in Senders, n \in Attempt : SameRequest(t, n)

Elsewhere == UNCHANGED <<clock, diskVars, client, allowList>>

Informed(s, err) == err = "nil" => \E n \in Attempt : call[s][n].status = 200

\* What SendOne concludes from an answer, or from none, and the rest of the step.
Concluded(s, err) ==
    Concludes(s, err) /\ pc[s] # "returned" /\ Elsewhere /\ CallSettles /\ Informed(s, err)

LEMMA ConcludedKeeps ==
    ASSUME IInv, NEW s \in Senders, NEW err \in Error, Concluded(s, err)
    PROVE  IInv'
<1> Concludes(s, err) /\ pc[s] # "returned" /\ Elsewhere /\ CallSettles /\ Informed(s, err)
  BY Zenon DEF Concluded
<1>1. TypeOK /\ UNCHANGED <<clock, lines, torn, spoilt, client, allowList>>
  BY Zenon DEF IInv, Elsewhere, diskVars
<1>2. TypeOK'
  <2>1. /\ pc' \in [Senders -> {"ready", "waiting", "returned"}]
        /\ attempt' \in [Senders -> Attempt] /\ since' = since /\ cancelled' = cancelled
        /\ last' \in [Senders -> Error]
    BY <1>1, ConcludesTyped, Zenon
  <2>2. call' \in [Senders -> [Attempt -> Request]]
    BY Zenon DEF CallSettles
  <2>3. QED
    BY <1>1, <2>1, <2>2, Zenon DEF TypeOK
<1>3. ASSUME NEW t \in Senders, NEW n \in Attempt PROVE RequestKept(t, n)'
  <2>1. RequestKept(t, n) /\ SameRequest(t, n) /\ client' = client /\ lines'[t][n] = lines[t][n]
    BY <1>1, Zenon DEF IInv, CallSettles
  <2>2. Untried(t, n)' => Untried(t, n)
    BY <1>1, ConcludesAhead, Zenon
  <2>3. QED
    BY <2>1, <2>2, RequestStays, Zenon
<1>4. ASSUME NEW t \in Senders, NEW n \in Attempt
      PROVE  /\ call[t][n].status = 200 => call'[t][n].status = 200
             /\ call[t][n].stage # "none" => call'[t][n].stage # "none" /\ call'[t][n].ts = call[t][n].ts
             /\ Fragment(t, n) => Fragment(t, n)'
  <2>1. SameRequest(t, n) /\ lines'[t][n] = lines[t][n]
    BY <1>1, Zenon DEF CallSettles
  <2>2. QED
    BY <2>1 DEF SameRequest, Fragment
<1>5. ASSUME NEW t \in Senders PROVE SenderKept(t)'
  <2>1. SenderKept(t) /\ clock \in Nat /\ clock' \in Nat /\ clock <= clock'
    <3>1. SenderKept(t)
      BY Zenon DEF IInv
    <3>2. clock \in Nat
      BY <1>1, SenderParts, Zenon
    <3>3. QED
      BY <1>1, <3>1, <3>2
  <2>2. since'[t] = since[t]
    BY <1>1, ConcludesTyped, Zenon
  <2>3. CASE t # s
    <3>1. pc'[t] = pc[t] /\ attempt'[t] = attempt[t] /\ last'[t] = last[t]
      BY <1>1, <2>3, ConcludesTyped, Zenon
    <3>2. QED
      BY <1>1, <1>4, <2>1, <2>2, <3>1, SenderStays, Zenon
  <2>4. CASE t = s
    <3>1. pc'[t] # "waiting" /\ last'[t] = err /\ (err = "nil" => pc'[t] = "returned")
      BY <1>1, <2>4, ConcludesTyped
    <3>2. since'[t] <= clock'
      BY <1>1, <2>1, <2>2 DEF SenderKept
    <3>3. err = "nil" => \E n \in Attempt : call'[t][n].status = 200
      <4> SUFFICES ASSUME err = "nil" PROVE \E n \in Attempt : call'[s][n].status = 200
        BY <2>4
      <4>1. PICK n \in Attempt : call[s][n].status = 200
        BY Zenon DEF Informed
      <4>2. QED
        BY <1>4, <4>1
    <3>4. QED
      BY <3>1, <3>2, <3>3, Zenon DEF SenderKept
  <2>5. QED
    BY <2>3, <2>4
<1>6. FilesKept'
  <2>1. FilesKept /\ client' = client /\ torn' = torn /\ spoilt' = spoilt
    BY <1>1, Zenon DEF IInv, FilesKept
  <2>2. \A t \in Senders, n \in Attempt : Fragment(t, n) => Fragment(t, n)'
    BY <1>4
  <2>3. QED
    BY <2>1, <2>2, FilesStay, Zenon
<1>7. QED
  BY <1>2, <1>3, <1>5, <1>6, Zenon DEF IInv, FilesKept

LEMMA SettlesByItself ==
    ASSUME TypeOK, call' = call
    PROVE  CallSettles
<1>1. call \in [Senders -> [Attempt -> Request]]
  BY Zenon DEF TypeOK
<1>2. QED
  BY <1>1, Zenon DEF CallSettles, SameRequest

LEMMA StopAtOnceConcludes ==
    ASSUME IInv, NEW s \in Senders, StopAtOnce(s)
    PROVE  \E err \in Error : Concluded(s, err)
<1> DEFINE err == IF last[s] = "none" THEN "canceled" ELSE last[s]
<1>1. TypeOK /\ SenderKept(s)
  BY Zenon DEF IInv
<1>2. pc[s] = "ready" /\ Return(s, err) /\ call' = call /\ Elsewhere
  BY Zenon DEF StopAtOnce, Elsewhere
<1>3. err \in Error /\ err # "nil"
  <2>1. last[s] # "nil" /\ last[s] \in Error
    BY <1>1, <1>2, SenderParts DEF SenderKept
  <2>2. "canceled" \in Error
    BY DEF Error
  <2>3. QED
    BY <2>1, <2>2
<1>4. Concludes(s, err) /\ Informed(s, err)
  BY <1>2, <1>3, Zenon DEF Concludes, Informed
<1> HIDE DEF err
<1>5. QED
  <2>1. pc[s] # "returned"
    BY <1>2
  <2>2. CallSettles
    BY <1>1, <1>2, SettlesByItself, Zenon
  <2>3. QED
    BY <1>2, <1>3, <1>4, <2>1, <2>2, Zenon DEF Concluded

\* An attempt without an answer.
LEMMA LostConcludes ==
    ASSUME IInv, NEW s \in Senders, PostCancelled(s) \/ TimedOut(s) \/ Broken(s)
    PROVE  \E err \in Error : Concluded(s, err)
<1>1. TypeOK
  BY Zenon DEF IInv
<1>2. (pc[s] = "ready" \/ pc[s] = "waiting") /\ Failed(s, "lost") /\ call' = call /\ Elsewhere
  BY Zenon DEF PostCancelled, TimedOut, Broken, Elsewhere
<1>3. "lost" \in Error /\ "lost" # "nil" /\ pc[s] # "returned"
  BY <1>2 DEF Error
<1>4. Concludes(s, "lost") /\ Informed(s, "lost")
  BY <1>2, <1>3, Zenon DEF Concludes, Informed
<1>5. CallSettles
  BY <1>1, <1>2, SettlesByItself, Zenon
<1>6. QED
  BY <1>2, <1>3, <1>4, <1>5, Zenon DEF Concluded

\* The answer is taken.
LEMMA TakesAnswer ==
    ASSUME TypeOK, NEW s \in Senders, NEW n \in Attempt, call[s][n].stage = "answered",
           call' = [call EXCEPT ![s][n].stage = "gone"]
    PROVE  CallSettles
<1> DEFINE r == [call[s][n] EXCEPT !.stage = "gone"]
<1>1. call[s][n] \in Request
  BY RequestParts, Zenon
<1>2. r \in Request
  BY <1>1, RequestParts, Constants, MakesRequest, Zenon DEF Stage
<1>3. Puts(s, n, r)
  BY Zenon DEF Puts
<1>4. r.stage = "gone" /\ r.status = call[s][n].status /\ r.ts = call[s][n].ts
      /\ r.signed = call[s][n].signed /\ r.now = call[s][n].now
  BY <1>1, Zenon DEF Request
<1> HIDE DEF r
<1>5. /\ call' \in [Senders -> [Attempt -> Request]]
      /\ call'[s][n] = r
      /\ \A t \in Senders, m \in Attempt : t # s \/ m # n => call'[t][m] = call[t][m]
  BY <1>2, <1>3, CallMoves, ZenonT(60)
<1>6. SameRequest(s, n)
  <2>1. call'[s][n] = r
    BY <1>5
  <2>2. QED
    BY <1>4, <2>1, Zenon DEF SameRequest
<1>7. ASSUME NEW t \in Senders, NEW m \in Attempt, t # s \/ m # n PROVE SameRequest(t, m)
  <2>1. call'[t][m] = call[t][m]
    BY <1>5, <1>7, Zenon
  <2>2. QED
    BY <2>1, Zenon DEF SameRequest
<1>8. QED
  BY <1>5, <1>6, <1>7, Zenon DEF CallSettles

LEMMA AnsweredConcludes ==
    ASSUME IInv, NEW s \in Senders, Answered(s)
    PROVE  \E err \in Error : Concluded(s, err)
<1> DEFINE n == attempt[s]
           err == IF call[s][n].status = 200 THEN "nil" ELSE "status"
<1>1. TypeOK /\ n \in Attempt
  BY SenderParts, Zenon DEF IInv
<1>2. /\ pc[s] = "waiting" /\ call[s][n].stage = "answered" /\ Elsewhere
      /\ call' = [call EXCEPT ![s][n].stage = "gone"]
      /\ IF call[s][n].status = 200 THEN Return(s, "nil") ELSE Failed(s, "status")
  BY Zenon DEF Answered, Elsewhere
<1> HIDE DEF n
<1>3. err \in Error /\ Concludes(s, err) /\ Informed(s, err)
  <2>1. {"nil", "status"} \subseteq Error /\ "status" # "nil"
    BY DEF Error
  <2>2. CASE call[s][n].status = 200
    BY <1>1, <1>2, <2>1, <2>2, Zenon DEF Concludes, Informed
  <2>3. CASE call[s][n].status # 200
    BY <1>2, <2>1, <2>3, Zenon DEF Concludes, Informed
  <2>4. QED
    BY <2>2, <2>3
<1>4. CallSettles
  BY <1>1, <1>2, TakesAnswer, Zenon
<1> HIDE DEF err
<1>5. pc[s] # "returned"
  BY <1>2
<1>6. QED
  BY <1>2, <1>3, <1>4, <1>5, Zenon DEF Concluded

(***************************************************************************)
(* A request that changes                                                  *)
(***************************************************************************)

\* What RequestKept asks of request c with l lines.
Sound(s, c, l) ==
    /\ c.stage \in {"none", "sent", "admitted"} => c.status = 0 /\ l = 0
    /\ c.signed = c.ts /\ c.ts - client[s].drift \in 0 .. MaxTime
    /\ c.stage = "admitted" \/ l > 0 => client[s].id \in DOMAIN Keys /\ c.now - c.ts \in Ages
    /\ l <= 1
    /\ l = 1 => c.status \in {200, 500}
    /\ c.status = 200 => l = 1

LEMMA Rekept ==
    ASSUME NEW s \in Senders, NEW n \in Attempt, NEW c \in Request, NEW l \in Nat,
           ~Untried(s, n)', call'[s][n] = c, lines'[s][n] = l, client' = client, Sound(s, c, l)
    PROVE  RequestKept(s, n)'
<1> DEFINE U == Untried(s, n)
<1>1. ~U'
  OBVIOUS
<1> HIDE DEF U
<1>2. RequestKept(s, n)' <=>
        /\ U' => call'[s][n].stage = "none"
        /\ call'[s][n].stage \in {"none", "sent", "admitted"} => call'[s][n].status = 0 /\ lines'[s][n] = 0
        /\ call'[s][n].stage # "none" =>
              call'[s][n].signed = call'[s][n].ts /\ call'[s][n].ts - client'[s].drift \in 0 .. MaxTime
        /\ call'[s][n].stage = "admitted" \/ lines'[s][n] > 0 =>
              client'[s].id \in DOMAIN Keys /\ call'[s][n].now - call'[s][n].ts \in Ages
        /\ lines'[s][n] <= 1
        /\ lines'[s][n] = 1 => call'[s][n].status \in {200, 500}
        /\ call'[s][n].status = 200 => lines'[s][n] = 1
  BY Zenon DEF RequestKept, U
<1>3. QED
  BY <1>1, <1>2 DEF Sound

\* Only this request may have other lines than before.
OnlyItsLines(s, n) ==
    /\ lines' \in [Senders -> [Attempt -> Nat]]
    /\ \A t \in Senders, m \in Attempt : t # s \/ m # n => lines'[t][m] = lines[t][m]

\* The senders and the clock stand still.
Still == UNCHANGED <<clock, sendVars, client, allowList>>

\* A request that the handler has not answered becomes c.
Moves(s, n, c) ==
    /\ Puts(s, n, c)
    /\ call[s][n].stage \in {"sent", "admitted"}
    /\ c.stage \in {"admitted", "answered"} /\ c.ts = call[s][n].ts
    /\ Still
    /\ OnlyItsLines(s, n)

\* It was tried and had no answer and no line.
LEMMA MovesFrom ==
    ASSUME IInv, NEW s \in Senders, NEW n \in Attempt, NEW c \in Request, Moves(s, n, c)
    PROVE  /\ ~Untried(s, n)' /\ ~Untried(s, n) /\ call'[s][n] = c
           /\ call[s][n].status = 0 /\ lines[s][n] = 0
           /\ call[s][n].signed = call[s][n].ts /\ call[s][n].ts - client[s].drift \in 0 .. MaxTime
           /\ call' \in [Senders -> [Attempt -> Request]]
<1>1. TypeOK /\ RequestKept(s, n) /\ Puts(s, n, c)
  BY Zenon DEF IInv, Moves
<1>2. call[s][n].stage \in {"sent", "admitted"}
  BY Zenon DEF Moves
<1>3. call[s][n].stage # "none" /\ call[s][n].stage \in {"none", "sent", "admitted"}
  BY <1>2
<1>4. ~Untried(s, n) /\ call[s][n].status = 0 /\ lines[s][n] = 0
      /\ call[s][n].signed = call[s][n].ts /\ call[s][n].ts - client[s].drift \in 0 .. MaxTime
  BY <1>1, <1>3, Zenon DEF RequestKept
<1>5. ~Untried(s, n)'
  <2>1. pc' = pc /\ attempt' = attempt
    BY Zenon DEF Moves, Still, sendVars
  <2>2. QED
    BY <1>4, <2>1, Zenon DEF Untried
<1>6. QED
  BY <1>1, <1>4, <1>5, CallMoves, ZenonT(60)

LEMMA MovesElsewhere ==
    ASSUME IInv, NEW s \in Senders, NEW n \in Attempt, NEW c \in Request, Moves(s, n, c),
           NEW t \in Senders, NEW m \in Attempt, t # s \/ m # n
    PROVE  call'[t][m] = call[t][m] /\ lines'[t][m] = lines[t][m]
<1>1. TypeOK /\ Puts(s, n, c)
  BY Zenon DEF IInv, Moves
<1>2. \A u \in Senders, k \in Attempt : u # s \/ k # n => call'[u][k] = call[u][k]
  BY <1>1, CallMoves, Zenon
<1>3. lines'[t][m] = lines[t][m]
  BY Zenon DEF Moves, OnlyItsLines
<1>4. QED
  BY <1>2, <1>3

LEMMA MovesFragments ==
    ASSUME IInv, NEW s \in Senders, NEW n \in Attempt, NEW c \in Request, Moves(s, n, c)
    PROVE  \A id : HasFragment(id) => HasFragment(id)'
<1>1. ASSUME NEW t \in Senders, NEW m \in Attempt, Fragment(t, m) PROVE Fragment(t, m)'
  <2>1. t # s \/ m # n
    <3>1. call[s][n].status = 0
      BY MovesFrom, Zenon
    <3>2. QED
      BY <1>1, <3>1 DEF Fragment
  <2>2. call'[t][m] = call[t][m] /\ lines'[t][m] = lines[t][m]
    BY <2>1, MovesElsewhere, Zenon
  <2>3. QED
    BY <1>1, <2>2, Zenon DEF Fragment
<1>2. client' = client
  BY Zenon DEF Moves, Still
<1>3. QED
  BY <1>1, <1>2, FragmentsStay, Zenon

LEMMA MovesKeeps ==
    ASSUME IInv, NEW s \in Senders, NEW n \in Attempt, NEW c \in Request, Moves(s, n, c),
           torn' \subseteq DOMAIN Keys, spoilt' \subseteq Senders \X Attempt,
           Sound(s, c, lines'[s][n]), FilesKept'
    PROVE  IInv'
<1>1. TypeOK /\ UNCHANGED <<clock, sendVars, client, allowList>>
  BY Zenon DEF IInv, Moves, Still
<1>2. UNCHANGED <<pc, attempt, since, cancelled, last>>
  BY <1>1, Zenon DEF sendVars
<1>3. /\ call' \in [Senders -> [Attempt -> Request]] /\ call'[s][n] = c
      /\ lines' \in [Senders -> [Attempt -> Nat]]
  BY MovesFrom, Zenon DEF Moves, OnlyItsLines
<1>4. TypeOK'
  BY <1>1, <1>2, <1>3, Zenon DEF TypeOK
<1>5. ASSUME NEW t \in Senders, NEW m \in Attempt, t # s \/ m # n
      PROVE  call'[t][m] = call[t][m] /\ lines'[t][m] = lines[t][m]
  BY <1>5, MovesElsewhere, Zenon
<1>6. ASSUME NEW t \in Senders, NEW m \in Attempt PROVE RequestKept(t, m)'
  <2>1. CASE t = s /\ m = n
    <3>1. lines'[s][n] \in Nat /\ ~Untried(s, n)' /\ client' = client
      BY <1>1, <1>3, MovesFrom, Zenon
    <3>2. RequestKept(s, n)'
      BY <1>3, <3>1, Rekept, Zenon
    <3>3. QED
      BY <2>1, <3>2
  <2>2. CASE t # s \/ m # n
    <3>1. SameRequest(t, m) /\ lines'[t][m] = lines[t][m] /\ RequestKept(t, m) /\ client' = client
      BY <1>1, <1>5, <2>2, Zenon DEF SameRequest, IInv
    <3>2. Untried(t, m)' => Untried(t, m)
      BY <1>2, Zenon DEF Untried
    <3>3. QED
      BY <3>1, <3>2, RequestStays, Zenon
  <2>3. QED
    BY <2>1, <2>2, Zenon
<1>7. ASSUME NEW t \in Senders PROVE SenderKept(t)'
  <2>1. SenderKept(t) /\ clock \in Nat
    BY <1>1, SenderParts, Zenon DEF IInv
  <2>2. clock' \in Nat /\ clock <= clock'
    BY <1>1, <2>1
  <2>3. ASSUME NEW m \in Attempt
        PROVE  /\ call[t][m].status = 200 => call'[t][m].status = 200
               /\ call[t][m].stage # "none" => call'[t][m].stage # "none" /\ call'[t][m].ts = call[t][m].ts
    <3>1. CASE t = s /\ m = n
      <4>1. call[s][n].status # 200 /\ c.stage # "none" /\ c.ts = call[s][n].ts
        <5>1. call[s][n].status = 0 /\ c.stage \in {"admitted", "answered"} /\ c.ts = call[s][n].ts
          BY MovesFrom, Zenon DEF Moves
        <5>2. QED
          BY <5>1
      <4>2. QED
        BY <1>3, <3>1, <4>1, Zenon
    <3>2. CASE t # s \/ m # n
      BY <1>5, <3>2, Zenon
    <3>3. QED
      BY <3>1, <3>2, Zenon
  <2>4. QED
    BY <1>1, <1>2, <2>1, <2>2, <2>3, SenderStays, Zenon
<1>8. QED
  BY <1>4, <1>6, <1>7, Zenon DEF IInv, FilesKept

(***************************************************************************)
(* The handler                                                             *)
(***************************************************************************)

\* A step that leaves the files alone.
LEMMA QuietKeeps ==
    ASSUME IInv, NEW s \in Senders, NEW n \in Attempt, NEW c \in Request, Moves(s, n, c),
           UNCHANGED diskVars, Sound(s, c, 0)
    PROVE  IInv'
<1>1. TypeOK /\ FilesKept /\ client' = client /\ lines' = lines /\ torn' = torn /\ spoilt' = spoilt
  BY Zenon DEF IInv, FilesKept, diskVars, Moves, Still
<1>2. torn' \subseteq DOMAIN Keys /\ spoilt' \subseteq Senders \X Attempt
  BY <1>1, Zenon DEF TypeOK
<1>3. lines'[s][n] = 0
  BY <1>1, MovesFrom, Zenon
<1>4. Sound(s, c, lines'[s][n])
  BY <1>3
<1>5. FilesKept'
  <2>1. \A id : HasFragment(id) => HasFragment(id)'
    BY MovesFragments, Zenon
  <2>2. ASSUME NEW t \in Senders, NEW m \in Attempt, <<t, m>> \in spoilt PROVE HasFragment(client[t].id)'
    <3>1. HasFragment(client[t].id)
      BY <1>1, <2>2, Zenon DEF FilesKept
    <3>2. QED
      BY <1>1, <2>1, <3>1, Zenon
  <2>3. QED
    BY <1>1, <2>1, <2>2, Zenon DEF FilesKept
<1>6. QED
  BY <1>2, <1>4, <1>5, MovesKeeps, Zenon

LEMMA ArriveKeeps ==
    ASSUME IInv, NEW s \in Senders, NEW n \in Attempt, Arrive(s, n)
    PROVE  IInv'
<1> DEFINE r == call[s][n]
           status == Verdict(s, r)
           a == [r EXCEPT !.stage = "admitted", !.now = clock]
           b == [r EXCEPT !.stage = "answered", !.status = status]
<1>1. TypeOK /\ r \in Request /\ clock \in 0 .. MaxTime /\ RequestKept(s, n)
  <2>1. TypeOK /\ RequestKept(s, n)
    BY Zenon DEF IInv
  <2>2. QED
    BY <2>1, RequestParts, Zenon DEF TypeOK
<1>2. r.stage = "sent" /\ UNCHANGED <<clock, sendVars, client, allowList>> /\ UNCHANGED diskVars
      /\ call' = [call EXCEPT ![s][n] = IF status = 200 THEN a ELSE b]
  BY Zenon DEF Arrive
<1>3. r.status = 0 /\ lines[s][n] = 0 /\ r.signed = r.ts /\ r.ts - client[s].drift \in 0 .. MaxTime
  BY <1>1, <1>2 DEF RequestKept
<1>4. OnlyItsLines(s, n)
  <2>1. lines' = lines /\ lines \in [Senders -> [Attempt -> Nat]]
    BY <1>1, <1>2, Zenon DEF TypeOK, diskVars
  <2>2. QED
    BY <2>1, Zenon DEF OnlyItsLines
<1>5. r.stage \in {"sent", "admitted"}
  BY <1>2
<1>6. CASE status = 200
  <2>1. a \in Request
    BY <1>1, MakesRequest, VerdictType, Zenon DEF Stage
  <2>2. a.stage = "admitted" /\ a.ts = r.ts /\ a.signed = r.signed /\ a.now = clock /\ a.status = r.status
    BY <1>1, Zenon DEF Request
  <2>3. Puts(s, n, a)
    BY <1>2, <1>6, Zenon DEF Puts
  <2> HIDE DEF a
  <2>4. Moves(s, n, a)
    BY <1>2, <1>4, <1>5, <2>2, <2>3, Zenon DEF Moves, Still
  <2>5. client[s].id \in DOMAIN Keys /\ InRange(clock, r.ts)
    <3>1. r \in Request /\ Verdict(s, r) = 200
      BY <1>1, <1>6, Zenon
    <3> HIDE DEF r
    <3>2. QED
      BY <3>1, AdmittedPassed
  <2>6. clock - r.ts \in Ages
    <3>1. r.ts \in Int /\ clock \in 0 .. MaxTime
      BY <1>1, RequestParts
    <3>2. r.ts \in -Half .. Half - 1
      <4> DEFINE t == r.ts
                 d == client[s].drift
      <4>1. d \in Int /\ d >= -Half /\ d <= Half - 1 - MaxTime
        BY <1>1, SenderParts, Zenon
      <4>2. t \in Int /\ t - d \in 0 .. MaxTime
        BY <1>3, <3>1, Zenon
      <4>3. Half \in Nat /\ MaxTime \in Nat
        BY Constants
      <4> HIDE DEF t, d
      <4>4. t \in -Half .. Half - 1
        BY <4>1, <4>2, <4>3
      <4>5. QED
        BY <4>4 DEF t
    <3>3. QED
      BY <2>5, <3>1, <3>2, InRangeIsWithinSkew, Zenon
  <2>7. Sound(s, a, 0)
    BY <1>3, <2>2, <2>5, <2>6 DEF Sound
  <2>8. QED
    BY <1>2, <2>1, <2>4, <2>7, QuietKeeps, Zenon
<1>7. CASE status # 200
  <2>1. status \in Status /\ status # 0
    BY <1>1, VerdictType, Zenon
  <2>2. b \in Request
    BY <1>1, <2>1, MakesRequest, Zenon DEF Stage
  <2>3. b.stage = "answered" /\ b.ts = r.ts /\ b.signed = r.signed /\ b.status = status
    BY <1>1, Zenon DEF Request
  <2>4. Puts(s, n, b)
    BY <1>2, <1>7, Zenon DEF Puts
  <2> HIDE DEF b, status
  <2>5. Moves(s, n, b)
    BY <1>2, <1>4, <1>5, <2>3, <2>4, Zenon DEF Moves, Still
  <2>6. Sound(s, b, 0)
    BY <1>3, <1>7, <2>3 DEF Sound
  <2>7. QED
    BY <1>2, <2>2, <2>5, <2>6, QuietKeeps, Zenon
<1>8. QED
  BY <1>6, <1>7, Zenon

\* What a request that got through the checks is answered with.
LEMMA AnswerMoves ==
    ASSUME IInv, NEW s \in Senders, NEW n \in Attempt, NEW status \in {200, 500},
           call[s][n].stage = "admitted", Answer(s, n, status),
           Still, OnlyItsLines(s, n)
    PROVE  \E c \in Request :
              /\ Moves(s, n, c)
              /\ c.stage = "answered" /\ c.status = status /\ c.ts = call[s][n].ts
              /\ c.signed = call[s][n].signed /\ c.now = call[s][n].now
<1> DEFINE c == [call[s][n] EXCEPT !.stage = "answered", !.status = status]
<1>1. TypeOK /\ call[s][n] \in Request /\ clock \in 0 .. MaxTime
  <2>1. TypeOK
    BY Zenon DEF IInv
  <2>2. clock \in 0 .. MaxTime
    BY <2>1, Zenon DEF TypeOK
  <2>3. call[s][n] \in Request
    BY <2>1, RequestParts
  <2>4. QED
    BY <2>1, <2>2, <2>3
<1>2. status \in Status
  BY DEF Status
<1>3. c \in Request
  <2>1. "answered" \in Stage
    BY DEF Stage
  <2>2. QED
    <3>1. PICK r \in Request : r = call[s][n]
      BY <1>1
    <3>2. [r EXCEPT !.stage = "answered", !.status = status] \in Request
      BY <1>2, <2>1, Zenon DEF Request, Stage
    <3>3. QED
      BY <3>1, <3>2, Zenon
<1>4. /\ c.stage = "answered" /\ c.status = status /\ c.ts = call[s][n].ts
      /\ c.signed = call[s][n].signed /\ c.now = call[s][n].now
  BY <1>1, Zenon DEF Request
<1>5. Puts(s, n, c)
  BY Zenon DEF Puts, Answer
<1>6. call[s][n].stage \in {"sent", "admitted"}
  OBVIOUS
<1> HIDE DEF c
<1>7. Moves(s, n, c)
  BY <1>4, <1>5, <1>6, Zenon DEF Moves
<1>8. QED
  BY <1>3, <1>4, <1>7, Zenon

LEMMA StoreOpenFailsKeeps ==
    ASSUME IInv, NEW s \in Senders, NEW n \in Attempt, StoreOpenFails(s, n)
    PROVE  IInv'
<1>1. /\ TypeOK /\ call[s][n].stage = "admitted" /\ Answer(s, n, 500)
      /\ Still /\ UNCHANGED diskVars
  BY Zenon DEF IInv, Still, StoreOpenFails
<1>2. OnlyItsLines(s, n)
  <2>1. lines' = lines /\ lines \in [Senders -> [Attempt -> Nat]]
    BY <1>1, Zenon DEF TypeOK, diskVars
  <2>2. QED
    BY <2>1, Zenon DEF OnlyItsLines
<1>3. PICK c \in Request :
        /\ Moves(s, n, c)
        /\ c.stage = "answered" /\ c.status = 500 /\ c.ts = call[s][n].ts
        /\ c.signed = call[s][n].signed /\ c.now = call[s][n].now
  BY <1>1, <1>2, AnswerMoves
<1>4. Sound(s, c, 0)
  <2>1. call[s][n].signed = call[s][n].ts /\ call[s][n].ts - client[s].drift \in 0 .. MaxTime
    <3>1. Moves(s, n, c)
      BY <1>3
    <3>2. QED
      BY <3>1, MovesFrom, Zenon
  <2>2. QED
    BY <1>3, <2>1 DEF Sound
<1>5. QED
  BY <1>1, <1>3, <1>4, QuietKeeps, ZenonT(60)

\* The fragment is the request's own.
LEMMA StoreTornKeeps ==
    ASSUME IInv, NEW s \in Senders, NEW n \in Attempt, StoreTorn(s, n)
    PROVE  IInv'
<1>1. /\ TypeOK /\ FilesKept /\ RequestKept(s, n)
      /\ call[s][n].stage = "admitted" /\ Answer(s, n, 500)
      /\ torn' = torn \union {client[s].id}
      /\ Still /\ client' = client /\ lines' = lines /\ spoilt' = spoilt
  BY Zenon DEF IInv, FilesKept, Still, StoreTorn
<1>2. OnlyItsLines(s, n)
  <2>1. lines \in [Senders -> [Attempt -> Nat]]
    BY <1>1, Zenon DEF TypeOK
  <2>2. QED
    BY <1>1, <2>1, Zenon DEF OnlyItsLines
<1>3. PICK c \in Request :
        /\ Moves(s, n, c)
        /\ c.stage = "answered" /\ c.status = 500 /\ c.ts = call[s][n].ts
        /\ c.signed = call[s][n].signed /\ c.now = call[s][n].now
  BY <1>1, <1>2, AnswerMoves
<1>4. lines'[s][n] = 0 /\ call'[s][n] = c
  <2>1. Moves(s, n, c)
    BY <1>3
  <2>2. lines[s][n] = 0 /\ call'[s][n] = c
    BY <2>1, MovesFrom, Zenon
  <2>3. QED
    BY <1>1, <2>2
<1>5. Sound(s, c, lines'[s][n])
  <2>1. call[s][n].signed = call[s][n].ts /\ call[s][n].ts - client[s].drift \in 0 .. MaxTime
    <3>1. Moves(s, n, c)
      BY <1>3
    <3>2. QED
      BY <3>1, MovesFrom, Zenon
  <2>2. QED
    BY <1>3, <1>4, <2>1 DEF Sound
<1>6. torn' \subseteq DOMAIN Keys /\ spoilt' \subseteq Senders \X Attempt
  <2>1. client[s].id \in DOMAIN Keys
    BY <1>1, Zenon DEF RequestKept
  <2>2. QED
    BY <1>1, <2>1, Zenon DEF TypeOK
<1>7. FilesKept'
  <2>1. \A id : HasFragment(id) => HasFragment(id)'
    BY <1>3, MovesFragments, Zenon
  <2>2. HasFragment(client[s].id)'
    <3>1. Fragment(s, n)' /\ client'[s].id = client[s].id
      BY <1>1, <1>3, <1>4, Zenon DEF Fragment
    <3>2. QED
      BY <1>1, <3>1, Zenon DEF HasFragment
  <2>3. ASSUME NEW id \in torn' PROVE HasFragment(id)'
    <3>1. CASE id \in torn
      BY <1>1, <2>1, <3>1, Zenon DEF FilesKept
    <3>2. CASE id = client[s].id
      <4>1. PICK k : k = client[s].id
        OBVIOUS
      <4>2. HasFragment(k)'
        BY <1>1, <2>2, <4>1, Zenon DEF HasFragment
      <4>3. QED
        BY <3>2, <4>1, <4>2, Zenon
    <3>3. QED
      BY <1>1, <3>1, <3>2, Zenon
  <2>4. ASSUME NEW t \in Senders, NEW m \in Attempt, <<t, m>> \in spoilt PROVE HasFragment(client[t].id)'
    <3>1. HasFragment(client[t].id)
      BY <1>1, <2>4, Zenon DEF FilesKept
    <3>2. QED
      BY <1>1, <2>1, <3>1, Zenon
  <2>5. QED
    BY <1>1, <2>3, <2>4, Zenon DEF FilesKept
<1>8. QED
  BY <1>3, <1>5, <1>6, <1>7, MovesKeeps, Zenon

LEMMA StoredKeeps ==
    ASSUME IInv, NEW s \in Senders, NEW n \in Attempt, Stored(s, n)
    PROVE  IInv'
<1>1. /\ TypeOK /\ FilesKept /\ RequestKept(s, n)
      /\ call[s][n].stage = "admitted" /\ client' = client
      /\ lines' = [lines EXCEPT ![s][n] = @ + 1]
      /\ torn' = torn \ {client[s].id}
      /\ spoilt' = IF client[s].id \in torn THEN spoilt \union {<<s, n>>} ELSE spoilt
      /\ Still
      /\ Answer(s, n, 200) \/ Answer(s, n, 500)
  BY Zenon DEF IInv, FilesKept, Still, Stored
<1>2. PICK status \in {200, 500} : Answer(s, n, status)
  BY <1>1
<1>3. OnlyItsLines(s, n) /\ lines'[s][n] = lines[s][n] + 1
  <2>1. Adds(s, n)
    BY <1>1, Zenon DEF Adds
  <2>2. TypeOK
    BY <1>1
  <2>3. QED
    <3>1. /\ lines' \in [Senders -> [Attempt -> Nat]] /\ lines'[s][n] = lines[s][n] + 1
          /\ \A t \in Senders, m \in Attempt : t # s \/ m # n => lines'[t][m] = lines[t][m]
      BY <2>1, <2>2, LinesMove
    <3>2. QED
      BY <3>1, Zenon DEF OnlyItsLines
<1>4. PICK c \in Request :
        /\ Moves(s, n, c)
        /\ c.stage = "answered" /\ c.status = status /\ c.ts = call[s][n].ts
        /\ c.signed = call[s][n].signed /\ c.now = call[s][n].now
  BY <1>1, <1>2, <1>3, AnswerMoves
<1>5. Sound(s, c, lines'[s][n])
  <2>1. /\ call[s][n].signed = call[s][n].ts /\ call[s][n].ts - client[s].drift \in 0 .. MaxTime
        /\ lines[s][n] = 0
    <3>1. Moves(s, n, c)
      BY <1>4
    <3>2. QED
      BY <3>1, MovesFrom
  <2>2. client[s].id \in DOMAIN Keys /\ call[s][n].now - call[s][n].ts \in Ages
    BY <1>1, Zenon DEF RequestKept
  <2>3. QED
    BY <1>3, <1>4, <2>1, <2>2 DEF Sound
<1>6. torn' \subseteq DOMAIN Keys /\ spoilt' \subseteq Senders \X Attempt
  <2>1. torn \subseteq DOMAIN Keys /\ spoilt \subseteq Senders \X Attempt
    BY <1>1, Zenon DEF TypeOK
  <2>2. <<s, n>> \in Senders \X Attempt
    BY Zenon
  <2>3. torn' = torn \ {client[s].id} /\ (spoilt' = spoilt \union {<<s, n>>} \/ spoilt' = spoilt)
    BY <1>1, Zenon
  <2>4. QED
    BY <2>1, <2>2, <2>3
<1>7. FilesKept'
  <2>1. \A id : HasFragment(id) => HasFragment(id)'
    BY <1>4, MovesFragments, Zenon
  <2>2. FilesKept /\ client' = client /\ torn' = torn \ {client[s].id}
        /\ (spoilt' = spoilt \/ (client[s].id \in torn /\ spoilt' = spoilt \union {<<s, n>>}))
    BY <1>1, Zenon
  <2>3. ASSUME NEW id \in torn' PROVE HasFragment(id)'
    <3>1. id \in torn
      BY <2>2, Zenon
    <3>2. HasFragment(id)
      BY <2>2, <3>1 DEF FilesKept
    <3>3. QED
      BY <2>1, <3>2, Zenon
  <2>4. ASSUME NEW t \in Senders, NEW m \in Attempt, <<t, m>> \in spoilt' PROVE HasFragment(client[t].id)'
    <3>1. HasFragment(client[t].id)
      <4>1. CASE <<t, m>> \in spoilt
        BY <2>2, <4>1 DEF FilesKept
      <4>2. CASE <<t, m>> = <<s, n>> /\ client[s].id \in torn
        <5>1. t = s
          BY <4>2
        <5>2. QED
          BY <2>2, <4>2, <5>1 DEF FilesKept
      <4>3. QED
        BY <2>2, <2>4, <4>1, <4>2
    <3>2. QED
      BY <2>1, <2>2, <3>1
  <2>5. QED
    BY <2>3, <2>4, Zenon DEF FilesKept
<1>8. QED
  BY <1>4, <1>5, <1>6, <1>7, MovesKeeps, Zenon

(***************************************************************************)
(* The other steps                                                         *)
(***************************************************************************)

\* Nothing but the clock and the contexts changes.
Idle ==
    /\ UNCHANGED <<pc, attempt, since, last, call, lines, torn, spoilt, client, allowList>>
    /\ clock' \in 0 .. MaxTime /\ clock <= clock'
    /\ cancelled' \in [Senders -> BOOLEAN]

LEMMA IdleKeeps ==
    ASSUME IInv, Idle
    PROVE  IInv'
<1>1. TypeOK /\ UNCHANGED <<pc, attempt, since, last, call, lines, torn, spoilt, client, allowList>>
  BY Zenon DEF IInv, Idle
<1>2. clock' \in 0 .. MaxTime /\ clock <= clock' /\ cancelled' \in [Senders -> BOOLEAN]
  BY Zenon DEF Idle
<1>3. TypeOK'
  BY <1>1, <1>2, Zenon DEF TypeOK
<1>4. ASSUME NEW t \in Senders, NEW m \in Attempt PROVE RequestKept(t, m)'
  <2>1. RequestKept(t, m) /\ SameRequest(t, m) /\ lines'[t][m] = lines[t][m] /\ client' = client
    BY <1>1, Zenon DEF IInv, SameRequest
  <2>2. Untried(t, m)' => Untried(t, m)
    BY <1>1, Zenon DEF Untried
  <2>3. QED
    BY <2>1, <2>2, RequestStays, Zenon
<1>5. ASSUME NEW t \in Senders PROVE SenderKept(t)'
  <2>1. SenderKept(t)
    BY Zenon DEF IInv
  <2>2. clock' \in Nat
    BY <1>2, Constants
  <2>3. pc'[t] = pc[t] /\ attempt'[t] = attempt[t] /\ since'[t] = since[t] /\ last'[t] = last[t]
    BY <1>1, Zenon
  <2>4. \A n \in Attempt :
           /\ call[t][n].status = 200 => call'[t][n].status = 200
           /\ call[t][n].stage # "none" => call'[t][n].stage # "none" /\ call'[t][n].ts = call[t][n].ts
    BY <1>1, Zenon
  <2>5. TypeOK /\ client' = client /\ clock <= clock'
    BY <1>1, <1>2, Zenon
  <2>6. QED
    BY <2>1, <2>2, <2>3, <2>4, <2>5, SenderStays, Zenon
<1>6. FilesKept'
  <2>1. FilesKept /\ client' = client /\ torn' = torn /\ spoilt' = spoilt
    BY <1>1, Zenon DEF IInv, FilesKept
  <2>2. \A t \in Senders, m \in Attempt : Fragment(t, m) => Fragment(t, m)'
    BY <1>1, Zenon DEF Fragment
  <2>3. QED
    BY <2>1, <2>2, FilesStay, Zenon
<1>7. QED
  BY <1>3, <1>4, <1>5, <1>6, Zenon DEF IInv, FilesKept

LEMMA CancelKeeps ==
    ASSUME IInv, NEW s \in Senders, Cancel(s)
    PROVE  IInv'
<1>1. TypeOK /\ clock' = clock /\ cancelled' = [cancelled EXCEPT ![s] = TRUE]
      /\ UNCHANGED <<pc, attempt, since, last, call, lines, torn, spoilt, client, allowList>>
  BY Zenon DEF IInv, Cancel, diskVars
<1>2. cancelled' \in [Senders -> BOOLEAN]
  BY <1>1, Zenon DEF TypeOK
<1>3. clock' \in 0 .. MaxTime
  BY <1>1, Zenon DEF TypeOK
<1>4. clock <= clock'
  BY <1>1, <1>3
<1>5. QED
  BY <1>1, <1>2, <1>3, <1>4, IdleKeeps, Zenon DEF Idle

LEMMA AdvanceClockKeeps ==
    ASSUME IInv, AdvanceClock
    PROVE  IInv'
<1>1. TypeOK /\ clock < MaxTime /\ clock' = clock + 1 /\ cancelled' = cancelled
      /\ UNCHANGED <<pc, attempt, since, last, call, lines, torn, spoilt, client, allowList>>
  BY Zenon DEF IInv, AdvanceClock, sendVars, diskVars
<1>2. cancelled' \in [Senders -> BOOLEAN] /\ clock \in 0 .. MaxTime
  BY <1>1, Zenon DEF TypeOK
<1>3. clock' \in 0 .. MaxTime /\ clock <= clock'
  <2>1. clock < MaxTime /\ clock' = clock + 1 /\ clock \in 0 .. MaxTime
    BY <1>1, <1>2, Zenon
  <2>2. QED
    BY <2>1, Constants
<1>4. QED
  BY <1>1, <1>2, <1>3, IdleKeeps, Zenon DEF Idle

LEMMA StutterKeeps ==
    ASSUME IInv, UNCHANGED vars
    PROVE  IInv'
<1>1. TypeOK /\ clock' = clock /\ cancelled' = cancelled
      /\ UNCHANGED <<pc, attempt, since, last, call, lines, torn, spoilt, client, allowList>>
  BY Zenon DEF IInv, vars, sendVars, diskVars
<1>2. cancelled' \in [Senders -> BOOLEAN] /\ clock' \in 0 .. MaxTime
  BY <1>1, Zenon DEF TypeOK
<1>3. clock <= clock'
  BY <1>1, <1>2
<1>4. QED
  BY <1>1, <1>2, <1>3, IdleKeeps, Zenon DEF Idle

\* The request of the attempt that begins.
Begun(s) == [stage |-> "sent", ts |-> SignedTime(s), signed |-> SignedTime(s), now |-> 0, status |-> 0]

LEMMA BegunIs ==
    ASSUME TypeOK, NEW s \in Senders
    PROVE  /\ Begun(s) \in Request
           /\ Begun(s).stage = "sent" /\ Begun(s).status = 0 /\ Begun(s).signed = Begun(s).ts
           /\ Begun(s).ts = clock + client[s].drift
<1>1. SignedTime(s) = clock + client[s].drift
  BY Zenon DEF SignedTime
<1>2. SignedTime(s) \in Int /\ 0 \in 0 .. MaxTime
  BY <1>1, SenderParts, Constants
<1>3. 0 \in Status /\ "sent" \in {"none", "sent", "admitted", "answered", "gone"}
  BY DEF Status
<1>4. Begun(s) \in Request
  BY <1>2, <1>3, Zenon DEF Begun, Request
<1>5. QED
  BY <1>1, <1>4 DEF Begun

LEMMA PostKeeps ==
    ASSUME IInv, NEW s \in Senders, Post(s)
    PROVE  IInv'
<1> DEFINE c == Begun(s)
<1>1. TypeOK
  BY Zenon DEF IInv
<1>2. PICK n \in Attempt : n = attempt[s] /\ n \in Nat
  BY <1>1, SenderParts
<1>3. /\ pc[s] = "ready" /\ pc' = [pc EXCEPT ![s] = "waiting"]
      /\ since' = [since EXCEPT ![s] = clock] /\ Puts(s, n, c)
      /\ UNCHANGED <<clock, attempt, cancelled, last, lines, torn, spoilt, client, allowList>>
  BY <1>2, Zenon DEF Post, Puts, Begun, diskVars
<1>4. RequestKept(s, n) /\ SenderKept(s) /\ FilesKept
  BY <1>2, Zenon DEF IInv, FilesKept
<1>5. Untried(s, n)
  BY <1>2, <1>3, Zenon DEF Untried
<1>6. call[s][n].status = 0 /\ lines[s][n] = 0
  BY <1>4, <1>5 DEF RequestKept
<1>7. /\ c \in Request /\ c.stage = "sent" /\ c.status = 0 /\ c.signed = c.ts
      /\ c.ts = clock + client[s].drift
  BY <1>1, BegunIs, Zenon
<1> HIDE DEF c
<1>8. /\ call' \in [Senders -> [Attempt -> Request]] /\ call'[s][n] = c
      /\ \A t \in Senders, m \in Attempt : t # s \/ m # n => call'[t][m] = call[t][m]
  BY <1>1, <1>2, <1>3, <1>7, CallMoves
<1>9. /\ pc' \in [Senders -> {"ready", "waiting", "returned"}] /\ pc'[s] = "waiting"
      /\ since' \in [Senders -> 0 .. MaxTime] /\ since'[s] = clock
      /\ \A t \in Senders : t # s => pc'[t] = pc[t] /\ since'[t] = since[t]
  <2>1. /\ pc \in [Senders -> {"ready", "waiting", "returned"}] /\ since \in [Senders -> 0 .. MaxTime]
        /\ clock \in 0 .. MaxTime
    BY <1>1, Zenon DEF TypeOK
  <2>2. pc' = [pc EXCEPT ![s] = "waiting"] /\ since' = [since EXCEPT ![s] = clock]
    BY <1>3, Zenon
  <2>3. QED
    BY <2>1, <2>2, Zenon
<1>10. UNCHANGED <<clock, attempt, cancelled, last, lines, torn, spoilt, client, allowList>>
  BY <1>3, Zenon
<1>11. TypeOK'
  BY <1>1, <1>8, <1>9, <1>10, Zenon DEF TypeOK
<1>12. ASSUME NEW t \in Senders, NEW m \in Attempt, t # s \/ m # n PROVE call'[t][m] = call[t][m]
  BY <1>8, <1>12, Zenon
<1>13. ASSUME NEW t \in Senders, NEW m \in Attempt PROVE RequestKept(t, m)'
  <2>1. CASE t = s /\ m = n
    <3>1. ~Untried(s, n)'
      <4>1. attempt'[s] = n /\ pc'[s] # "ready"
        BY <1>2, <1>9, <1>10
      <4>2. QED
        BY <1>2, <4>1 DEF Untried
    <3>2. Sound(s, c, 0)
      <4>1. clock \in 0 .. MaxTime /\ clock \in Int /\ client[s].drift \in Int
        BY <1>1, SenderParts, Constants
      <4>2. c.ts - client[s].drift \in 0 .. MaxTime
        BY <1>7, <4>1
      <4>3. QED
        BY <1>7, <4>2 DEF Sound
    <3>3. call'[s][n] = c /\ lines'[s][n] = 0 /\ client' = client /\ 0 \in Nat
      BY <1>6, <1>8, <1>10
    <3>4. RequestKept(s, n)'
      BY <1>2, <1>7, <3>1, <3>2, <3>3, Rekept
    <3>5. QED
      BY <2>1, <3>4
  <2>2. CASE t # s \/ m # n
    <3>1. SameRequest(t, m) /\ lines'[t][m] = lines[t][m] /\ RequestKept(t, m) /\ client' = client
      BY <1>10, <1>12, <2>2, Zenon DEF SameRequest, IInv
    <3>2. Untried(t, m)' => Untried(t, m)
      <4>1. attempt' = attempt /\ (pc'[t] = "ready" => pc[t] = "ready")
        BY <1>9, <1>10
      <4>2. QED
        BY <4>1, Zenon DEF Untried
    <3>3. QED
      BY <3>1, <3>2, RequestStays, Zenon
  <2>3. QED
    BY <2>1, <2>2, Zenon
<1>14. ASSUME NEW t \in Senders PROVE SenderKept(t)'
  <2>1. SenderKept(t) /\ clock \in Nat
    BY <1>1, SenderParts, Zenon DEF IInv
  <2>2. clock' \in Nat /\ clock <= clock' /\ client' = client /\ attempt'[t] = attempt[t] /\ last'[t] = last[t]
    BY <1>10, <2>1
  <2>3. CASE t # s
    <3>1. pc'[t] = pc[t] /\ since'[t] = since[t]
      BY <1>9, <2>3, Zenon
    <3>2. \A m \in Attempt : call'[t][m] = call[t][m]
      BY <1>12, <2>3, Zenon
    <3>3. QED
      BY <1>1, <2>1, <2>2, <3>1, <3>2, SenderStays, Zenon
  <2>4. CASE t = s
    <3>1. since'[s] <= clock'
      BY <1>9, <2>1, <2>2
    <3>2. attempt'[s] = n /\ call'[s][n].stage # "none" /\ call'[s][n].ts = since'[s] + client'[s].drift
      BY <1>2, <1>7, <1>8, <1>9, <2>2, <2>4
    <3>3. last'[s] # "nil"
      BY <1>3, <1>4, <2>2, <2>4 DEF SenderKept
    <3>4. SenderKept(s)'
      BY <3>1, <3>2, <3>3, Zenon DEF SenderKept
    <3>5. QED
      BY <2>4, <3>4
  <2>5. QED
    BY <2>3, <2>4
<1>15. FilesKept'
  <2>1. FilesKept /\ client' = client /\ torn' = torn /\ spoilt' = spoilt
    BY <1>4, <1>10, Zenon
  <2>2. ASSUME NEW t \in Senders, NEW m \in Attempt, Fragment(t, m) PROVE Fragment(t, m)'
    <3>1. t # s \/ m # n
      BY <1>6, <2>2 DEF Fragment
    <3>2. call'[t][m] = call[t][m] /\ lines' = lines
      BY <1>10, <1>12, <3>1, Zenon
    <3>3. QED
      BY <2>2, <3>2, Zenon DEF Fragment
  <2>3. QED
    BY <2>1, <2>2, FilesStay, Zenon
<1>16. QED
  BY <1>11, <1>13, <1>14, <1>15, Zenon DEF IInv, FilesKept

(***************************************************************************)
(* The theorems                                                            *)
(***************************************************************************)

LEMMA InitIInv ==
    ASSUME Init
    PROVE  IInv
<1>1. /\ clock = 0 /\ client \in Clients /\ allowList \in AllowLists
      /\ pc = [s \in Senders |-> "ready"] /\ attempt = [s \in Senders |-> 1]
      /\ since = [s \in Senders |-> 0] /\ cancelled = [s \in Senders |-> FALSE]
      /\ last = [s \in Senders |-> "none"]
      /\ call = [s \in Senders |-> [n \in Attempt |-> NoCall]]
      /\ lines = [s \in Senders |-> [n \in Attempt |-> 0]]
      /\ torn = {} /\ spoilt = {}
  BY Zenon DEF Init
<1>2. 0 \in 0 .. MaxTime /\ 1 \in Attempt /\ 0 \in Nat
  BY Constants
<1>3. NoCall \in Request /\ NoCall.stage = "none" /\ NoCall.status = 0
  <2>1. 0 \in Int /\ 0 \in Status /\ "none" \in {"none", "sent", "admitted", "answered", "gone"}
    BY DEF Status
  <2>2. NoCall \in Request
    BY <1>2, <2>1, Zenon DEF NoCall, Request
  <2>3. QED
    BY <2>2 DEF NoCall
<1>4. TypeOK
  <2>1. /\ clock \in 0 .. MaxTime /\ client \in Clients /\ allowList \in AllowLists
        /\ torn \subseteq DOMAIN Keys /\ spoilt \subseteq Senders \X Attempt
    BY <1>1, <1>2, Zenon
  <2>2. /\ pc \in [Senders -> {"ready", "waiting", "returned"}] /\ attempt \in [Senders -> Attempt]
        /\ since \in [Senders -> 0 .. MaxTime] /\ cancelled \in [Senders -> BOOLEAN]
    BY <1>1, <1>2, Zenon
  <2>3. last \in [Senders -> Error]
    <3>1. "none" \in Error
      BY DEF Error
    <3>2. QED
      BY <1>1, <3>1, Zenon
  <2>4. call \in [Senders -> [Attempt -> Request]] /\ lines \in [Senders -> [Attempt -> Nat]]
    BY <1>1, <1>2, <1>3, Zenon
  <2>5. QED
    BY <2>1, <2>2, <2>3, <2>4, Zenon DEF TypeOK
<1>5. ASSUME NEW s \in Senders, NEW n \in Attempt PROVE RequestKept(s, n)
  <2>1. call[s][n] = NoCall /\ lines[s][n] = 0
    BY <1>1, Zenon
  <2>2. QED
    BY <1>3, <2>1 DEF RequestKept
<1>6. ASSUME NEW s \in Senders PROVE SenderKept(s)
  BY <1>1 DEF SenderKept
<1>7. FilesKept
  BY <1>1, Zenon DEF FilesKept
<1>8. QED
  BY <1>4, <1>5, <1>6, <1>7, Zenon DEF IInv, FilesKept

\* The inductive invariant holds in every reachable state, for any clients, keys,
\* allow lists, retries, clocks and faults (reporter.go:25-84, handler.go:146-242,
\* store.go:174-212).
THEOREM Invariance == Spec => []IInv
<1>1. Init => IInv
  BY InitIInv
<1>2. IInv /\ [Next]_vars => IInv'
  <2> SUFFICES ASSUME IInv, [Next]_vars PROVE IInv'
    OBVIOUS
  <2>1. ASSUME NEW s \in Senders, Sending(s) \/ Broken(s) \/ Cancel(s) PROVE IInv'
    <3>1. CASE StopAtOnce(s)  BY <3>1, StopAtOnceConcludes, ConcludedKeeps
    <3>2. CASE PostCancelled(s) \/ TimedOut(s) \/ Broken(s)  BY <3>2, LostConcludes, ConcludedKeeps
    <3>3. CASE Post(s)  BY <3>3, PostKeeps
    <3>4. CASE Answered(s)  BY <3>4, AnsweredConcludes, ConcludedKeeps
    <3>5. CASE Cancel(s)  BY <3>5, CancelKeeps
    <3>6. QED
      BY <2>1, <3>1, <3>2, <3>3, <3>4, <3>5, Zenon DEF Sending
  <2>2. ASSUME NEW s \in Senders, NEW n \in Attempt, Handling(s, n) PROVE IInv'
    BY <2>2, ArriveKeeps, StoreOpenFailsKeeps, StoreTornKeeps, StoredKeeps, Zenon DEF Handling
  <2>3. CASE AdvanceClock
    BY <2>3, AdvanceClockKeeps
  <2>4. CASE UNCHANGED vars
    BY <2>4, StutterKeeps
  <2>5. QED
    BY <2>1, <2>2, <2>3, <2>4, Zenon DEF Next
<1>3. QED
  BY <1>1, <1>2, PTL DEF Spec

\* What SendOne returned nil for is in the file, on a line of its own unless another
\* write to that file was cut short (store.go:174-212, reporter.go:76-81).
THEOREM AcknowledgedIsStored == Spec => []AcknowledgedStored
<1>1. IInv => AcknowledgedStored
  <2> SUFFICES ASSUME IInv, NEW s \in Senders, pc[s] = "returned", last[s] = "nil"
               PROVE  \E n \in Attempt :
                        lines[s][n] > 0 /\ (<<s, n>> \in spoilt => HasFragment(client[s].id))
    BY DEF AcknowledgedStored, HasFragment
  <2>1. PICK n \in Attempt : call[s][n].status = 200
    BY Zenon DEF IInv, SenderKept
  <2>2. RequestKept(s, n)
    BY Zenon DEF IInv
  <2>3. lines[s][n] > 0
    BY <2>1, <2>2 DEF RequestKept
  <2>4. <<s, n>> \in spoilt => HasFragment(client[s].id)
    BY Zenon DEF IInv
  <2>5. QED
    BY <2>3, <2>4, Zenon
<1>2. QED
  BY <1>1, Invariance, PTL

\* An attempt never leaves two lines, and a refused one leaves none (handler.go:147-239).
THEOREM NoSecondLine == Spec => []OneLinePerAttempt
<1>1. IInv => OneLinePerAttempt
  BY ZenonT(60) DEF IInv, RequestKept, OneLinePerAttempt
<1>2. QED
  BY <1>1, Invariance, PTL

\* Whatever int64 the header holds, the check with its two differences that may wrap
\* admits only what is within timestamp_skew in whole numbers, and the one age of
\* 2^63 seconds (handler.go:195-203).
THEOREM NothingOldIsStored == Spec => []StoredWithinSkew
<1>1. IInv => StoredWithinSkew
  BY ZenonT(60) DEF IInv, RequestKept, StoredWithinSkew, Ages
<1>2. QED
  BY <1>1, Invariance, PTL

\* The one request of which a check decides is the one that arrives.
LEMMA OnlyArriveRefuses ==
    ASSUME IInv, [Next]_vars, NEW s \in Senders, NEW n \in Attempt, call[s][n].stage = "sent", pc[s] = "waiting"
    PROVE  Arrive(s, n) \/ call'[s][n].status \in {0, 200, 500}
<1>1. TypeOK /\ call[s][n].status = 0
  BY DEF IInv, RequestKept
<1>2. ASSUME call' = call PROVE call'[s][n].status \in {0, 200, 500}
  BY <1>1, <1>2
<1>3. ASSUME NEW t \in Senders, Sending(t) \/ Broken(t) \/ Cancel(t) PROVE call'[s][n].status \in {0, 200, 500}
  <2>1. CASE StopAtOnce(t) \/ PostCancelled(t) \/ TimedOut(t) \/ Broken(t) \/ Cancel(t)
    BY <1>2, <2>1, Zenon DEF StopAtOnce, PostCancelled, TimedOut, Broken, Cancel
  <2>2. CASE Post(t)
    <3>1. t # s
      BY <2>2 DEF Post
    <3>2. attempt[t] \in Attempt /\ Begun(t) \in Request /\ Puts(t, attempt[t], Begun(t))
      BY <1>1, <2>2, SenderParts, BegunIs, Zenon DEF Post, Puts, Begun
    <3>3. PICK m \in Attempt, c \in Request : Puts(t, m, c)
      BY <3>2
    <3>4. call'[s][n] = call[s][n]
      BY <1>1, <3>1, <3>3, CallMoves
    <3>5. QED
      BY <1>1, <3>4
  <2>3. CASE Answered(t)
    <3>1. PICK m \in Attempt : m = attempt[t]
      BY <1>1, SenderParts
    <3>2. call[t][m].stage = "answered" /\ call' = [call EXCEPT ![t][m].stage = "gone"]
      BY <2>3, <3>1, Zenon DEF Answered
    <3>3. SameRequest(s, n)
      BY <1>1, <3>2, TakesAnswer, Zenon DEF CallSettles
    <3>4. QED
      BY <1>1, <3>3 DEF SameRequest
  <2>4. QED
    BY <1>3, <2>1, <2>2, <2>3, Zenon DEF Sending
<1>4. ASSUME NEW t \in Senders, NEW m \in Attempt, Handling(t, m), ~Arrive(s, n)
      PROVE  call'[s][n].status \in {0, 200, 500}
  <2>1. \/ Arrive(t, m)
        \/ call[t][m].stage = "admitted" /\ \E status \in {200, 500} : Answer(t, m, status)
    BY <1>4 DEF Handling, StoreOpenFails, StoreTorn, Stored
  <2>2. t # s \/ m # n
    BY <1>4, <2>1 DEF Arrive
  <2>3. \E c : Puts(t, m, c) /\ c \in Request
    <3>1. call[t][m] \in Request /\ clock \in 0 .. MaxTime
      BY <1>1, RequestParts, Zenon DEF TypeOK
    <3>2. CASE Arrive(t, m)
      <4> DEFINE status == Verdict(t, call[t][m])
      <4>1. status \in Status
        BY <3>1, VerdictType
      <4>2. Admit(call[t][m]) \in Request /\ Refuse(call[t][m], status) \in Request
        BY <1>1, <3>1, <4>1, CheckedIs
      <4>3. Puts(t, m, Admit(call[t][m])) \/ Puts(t, m, Refuse(call[t][m], status))
        BY <3>2, Zenon DEF Arrive, Puts, Admit, Refuse
      <4>4. QED
        BY <4>2, <4>3, Zenon
    <3>3. ASSUME NEW status \in {200, 500}, Answer(t, m, status) PROVE \E c : Puts(t, m, c) /\ c \in Request
      <4>1. status \in Status
        BY DEF Status
      <4>2. Refuse(call[t][m], status) \in Request
        BY <1>1, <3>1, <4>1, CheckedIs, ZenonT(60)
      <4>3. Puts(t, m, Refuse(call[t][m], status))
        BY <3>3, Zenon DEF Answer, Puts, Refuse
      <4>4. QED
        BY <4>2, <4>3, Zenon
    <3>4. QED
      BY <2>1, <3>2, <3>3, Zenon
  <2>4. call'[s][n] = call[s][n]
    BY <1>1, <2>2, <2>3, CallMoves
  <2>5. QED
    BY <1>1, <2>4
<1>5. CASE AdvanceClock \/ UNCHANGED vars
  BY <1>2, <1>5, Zenon DEF AdvanceClock, vars
<1>6. QED
  BY <1>3, <1>4, <1>5, ZenonT(60) DEF Next

\* While SendOne waits for it, a request of a client in step is not refused for its age
\* or signature, for any drift, skew and timeout that InStep allows (reporter.go:58-66).
THEOREM InStepIsHeard == Spec => InStepNeverUnauthorized
<1>1. IInv /\ [Next]_vars =>
        [\A s \in Senders :
           LET n == attempt[s]
           IN  /\ pc[s] = "waiting" /\ clock - since[s] <= Timeout
               /\ call[s][n].stage = "sent"
               /\ InStep(s)
               => call'[s][n].status # 401]_vars
  <2> SUFFICES ASSUME IInv, [Next]_vars, NEW s \in Senders, NEW n \in Attempt, n = attempt[s],
                      pc[s] = "waiting", clock - since[s] <= Timeout, call[s][n].stage = "sent",
                      InStep(s), call'[s][n].status = 401
               PROVE  FALSE
    <3>1. IInv => \A s \in Senders : \E n \in Attempt : n = attempt[s]
      BY SenderParts, Zenon DEF IInv
    <3>2. QED
      BY <3>1
  <2>1. TypeOK /\ RequestKept(s, n) /\ SenderKept(s) /\ call[s][n] \in Request
    <3>1. TypeOK /\ RequestKept(s, n) /\ SenderKept(s)
      BY ZenonT(60) DEF IInv
    <3>2. QED
      BY <3>1, RequestParts, Zenon
  <2>2. Arrive(s, n)
    BY OnlyArriveRefuses
  <2>3. Verdict(s, call[s][n]) = 401
    <3> DEFINE r == call[s][n]
               v == Verdict(s, r)
    <3>1. Puts(s, n, IF v = 200 THEN Admit(r) ELSE Refuse(r, v))
      BY <2>2, Zenon DEF Arrive, Puts, Admit, Refuse
    <3>2. v \in Status
      BY <2>1, VerdictType
    <3>3. /\ Admit(r) \in Request /\ Admit(r).status = r.status
          /\ Refuse(r, v) \in Request /\ Refuse(r, v).status = v
      BY <2>1, <3>2, CheckedIs
    <3>4. CASE v = 200
      <4>1. call'[s][n] = Admit(r)
        BY <2>1, <3>1, <3>3, <3>4, CallMoves
      <4>2. r.status = 0
        BY <2>1 DEF RequestKept
      <4>3. QED
        BY <3>3, <4>1, <4>2
    <3>5. CASE v # 200
      <4>1. call'[s][n] = Refuse(r, v)
        BY <2>1, <3>1, <3>3, <3>5, CallMoves
      <4>2. QED
        BY <3>3, <4>1
    <3>6. QED
      BY <3>4, <3>5
  <2>4. call[s][n].ts = since[s] + client[s].drift /\ call[s][n].signed = call[s][n].ts
    BY <2>1 DEF SenderKept, RequestKept
  <2>5. Signed(s, call[s][n]) /\ client[s].signs
    BY <2>4 DEF InStep, Signed, Verify, Compute
  <2>6. InRange(clock, call[s][n].ts)
    <3>1. /\ clock \in Nat /\ since[s] \in Nat /\ client[s].drift \in Int /\ since[s] <= clock
          /\ client[s].drift >= Timeout - skew /\ client[s].drift <= skew - Timeout
          /\ clock <= MaxTime
      <4>1. client[s].drift \in Timeout - skew .. skew - Timeout /\ since[s] <= clock
        BY <2>1, Zenon DEF InStep, SenderKept
      <4>2. client[s].drift \in Int
        BY <2>1, SenderParts, Zenon
      <4>3. client[s].drift >= Timeout - skew /\ client[s].drift <= skew - Timeout
        BY <4>1, <4>2, Constants
      <4>4. QED
        BY <2>1, <4>1, <4>3, SenderParts, ZenonT(60)
    <3>2. PICK d \in Int, a \in Nat : d = client[s].drift /\ a = since[s]
      BY <3>1
    <3>3. call[s][n].ts = a + d
      BY <2>4, <3>2
    <3>4. /\ clock \in Nat /\ a <= clock /\ clock - a <= Timeout /\ clock <= MaxTime
          /\ d >= Timeout - skew /\ d <= skew - Timeout /\ MaxTime + skew < Half
          /\ skew \in Nat /\ Timeout \in Nat /\ MaxTime \in Nat /\ Half \in Nat
      BY <3>1, <3>2, Constants, ClockAssumption
    <3>5. clock - (a + d) \in -skew .. skew /\ a + d \in -Half .. Half - 1
      BY <3>4, InStepInRange
    <3>6. clock - (a + d) \in Ages /\ clock \in 0 .. MaxTime
      BY <3>4, <3>5 DEF Ages
    <3>7. InRange(clock, a + d)
      BY <3>5, <3>6, InRangeIsWithinSkew
    <3>8. QED
      BY <3>3, <3>7
  <2>7. QED
    BY <2>1, <2>3, <2>5, <2>6, UnauthorizedFailed
<1>2. QED
  BY <1>1, Invariance, PTL DEF Spec, InStepNeverUnauthorized

(***************************************************************************)
(* The promise of ReportChannel                                            *)
(***************************************************************************)

\* What the caller of s is told.
Told(s) == IF pc[s] # "returned" THEN "pending" ELSE IF last[s] = "nil" THEN "delivered" ELSE "failed"

told == [s \in Senders |-> Told(s)]

LEMMA ToldStays ==
    ASSUME \A s \in Senders : Told(s)' = Told(s)
    PROVE  told' = told
BY Zenon DEF told

LEMMA ToldMoves ==
    ASSUME NEW s \in Senders, NEW v, Told(s)' = v, \A t \in Senders : t # s => Told(t)' = Told(t)
    PROVE  told' = [told EXCEPT ![s] = v]
<1>1. told' = [t \in Senders |-> Told(t)'] /\ told = [t \in Senders |-> Told(t)]
  BY Zenon DEF told
<1>2. \A t \in Senders : told'[t] = [told EXCEPT ![s] = v][t]
  BY <1>1
<1>3. QED
  BY <1>1, <1>2

\* A sender that goes on or gives up.
LEMMA ConcludedImplements ==
    ASSUME IInv, NEW s \in Senders, NEW err \in Error, Concluded(s, err)
    PROVE  \/ lines' = lines /\ told' = told
           \/ Channel!Confirm(s) \/ Channel!GiveUp(s)
<1>0. Concludes(s, err) /\ pc[s] # "returned" /\ Informed(s, err) /\ lines' = lines
  BY Zenon DEF Concluded, Elsewhere, diskVars
<1>1. TypeOK
  BY Zenon DEF IInv
<1>2. /\ last'[s] = err
      /\ \A t \in Senders : t # s => pc'[t] = pc[t] /\ last'[t] = last[t]
      /\ pc'[s] = "returned" \/ pc'[s] = "ready"
  BY <1>0, <1>1, ConcludesTyped, Zenon
<1>3. \A t \in Senders : t # s => Told(t)' = Told(t)
  BY <1>2, Zenon DEF Told
<1>4. Told(s) = "pending" /\ told[s] = "pending"
  BY <1>0 DEF Told, told
<1>5. CASE pc'[s] = "ready"
  <2>1. Told(s)' = Told(s)
    BY <1>4, <1>5 DEF Told
  <2>2. QED
    BY <1>0, <1>3, <2>1, ToldStays, Zenon
<1>6. CASE pc'[s] = "returned" /\ err = "nil"
  <2>1. told' = [told EXCEPT ![s] = "delivered"]
    <3>1. Told(s)' = "delivered"
      BY <1>2, <1>6 DEF Told
    <3>2. QED
      BY <1>3, <3>1, ToldMoves, Zenon
  <2>2. \E n \in Attempt : lines[s][n] > 0
    <3>1. PICK n \in Attempt : call[s][n].status = 200
      BY <1>0, <1>6, Zenon DEF Informed
    <3>2. RequestKept(s, n)
      BY Zenon DEF IInv
    <3>3. QED
      BY <3>1, <3>2 DEF RequestKept
  <2>3. QED
    BY <1>0, <1>4, <2>1, <2>2, Zenon DEF Channel!Confirm, told, Told
<1>7. CASE pc'[s] = "returned" /\ err # "nil"
  <2>1. told' = [told EXCEPT ![s] = "failed"]
    <3>1. Told(s)' = "failed"
      BY <1>2, <1>7 DEF Told
    <3>2. QED
      BY <1>3, <3>1, ToldMoves, Zenon
  <2>2. QED
    BY <1>0, <1>4, <2>1, Zenon DEF Channel!GiveUp, told, Told
<1>8. QED
  BY <1>2, <1>5, <1>6, <1>7

LEMMA StoredImplements ==
    ASSUME IInv, NEW s \in Senders, NEW n \in Attempt, Stored(s, n)
    PROVE  Channel!Keep(s, n)
<1>1. TypeOK /\ RequestKept(s, n) /\ call[s][n].stage = "admitted"
  BY Zenon DEF IInv, Stored
<1>2. lines[s][n] = 0
  BY <1>1 DEF RequestKept
<1>3. lines' = [lines EXCEPT ![s][n] = 1]
  <2>1. lines' = [lines EXCEPT ![s][n] = lines[s][n] + 1]
    BY Zenon DEF Stored
  <2>2. lines[s][n] + 1 = 1
    BY <1>2
  <2>3. QED
    BY <2>1, <2>2, Zenon
<1>4. told' = told
  <2>1. pc' = pc /\ last' = last
    BY Zenon DEF Stored, sendVars
  <2>2. QED
    BY <2>1, ToldStays, Zenon DEF Told
<1>5. QED
  BY <1>2, <1>3, <1>4, Zenon DEF Channel!Keep, told, Told

\* The rest of the steps: nobody is told anything and no line is added.
LEMMA OthersStutter ==
    ASSUME IInv,
           \/ \E s \in Senders : Post(s) \/ Cancel(s)
           \/ \E s \in Senders, n \in Attempt : Arrive(s, n) \/ StoreOpenFails(s, n) \/ StoreTorn(s, n)
           \/ AdvanceClock
           \/ UNCHANGED vars
    PROVE  lines' = lines /\ told' = told
<1>1. ASSUME UNCHANGED <<pc, last, lines>> PROVE lines' = lines /\ told' = told
  BY <1>1, ToldStays, Zenon DEF Told
<1>2. ASSUME NEW s \in Senders, Post(s) PROVE lines' = lines /\ told' = told
  <2>1. /\ pc[s] = "ready" /\ pc' = [pc EXCEPT ![s] = "waiting"] /\ last' = last /\ lines' = lines
        /\ pc \in [Senders -> {"ready", "waiting", "returned"}]
    BY <1>2, Zenon DEF Post, diskVars, IInv, TypeOK
  <2>2. \A t \in Senders : pc'[t] = "returned" <=> pc[t] = "returned"
    BY <2>1
  <2>3. QED
    BY <2>1, <2>2, ToldStays, Zenon DEF Told
<1>3. ASSUME NEW s \in Senders, Cancel(s) PROVE lines' = lines /\ told' = told
  BY <1>1, <1>3, Zenon DEF Cancel, diskVars
<1>4. ASSUME NEW s \in Senders, NEW n \in Attempt, Arrive(s, n) \/ StoreOpenFails(s, n) \/ StoreTorn(s, n)
      PROVE  lines' = lines /\ told' = told
  BY <1>1, <1>4, Zenon DEF Arrive, StoreOpenFails, StoreTorn, diskVars, sendVars
<1>5. CASE AdvanceClock \/ UNCHANGED vars
  BY <1>1, <1>5, Zenon DEF AdvanceClock, vars, diskVars, sendVars
<1>6. QED
  BY <1>2, <1>3, <1>4, <1>5, Zenon

LEMMA StepImplements ==
    ASSUME IInv, [Next]_vars
    PROVE  [Channel!Next]_<<lines, told>>
<1>1. ASSUME NEW s \in Senders, NEW err \in Error, Concluded(s, err)
      PROVE  [Channel!Next]_<<lines, told>>
  BY <1>1, ConcludedImplements, Zenon DEF Channel!Next, told, Told
<1>2. ASSUME NEW s \in Senders, Sending(s) \/ Broken(s) \/ Cancel(s)
      PROVE  [Channel!Next]_<<lines, told>>
  <2>1. CASE StopAtOnce(s)
    BY <1>1, <2>1, StopAtOnceConcludes
  <2>2. CASE PostCancelled(s) \/ TimedOut(s) \/ Broken(s)
    BY <1>1, <2>2, LostConcludes
  <2>3. CASE Answered(s)
    BY <1>1, <2>3, AnsweredConcludes
  <2>4. CASE Post(s) \/ Cancel(s)
    BY <2>4, OthersStutter
  <2>5. QED
    BY <1>2, <2>1, <2>2, <2>3, <2>4, Zenon DEF Sending
<1>3. ASSUME NEW s \in Senders, NEW n \in Attempt, Handling(s, n)
      PROVE  [Channel!Next]_<<lines, told>>
  <2>1. CASE Stored(s, n)
    <3>1. Channel!Keep(s, n)
      BY <2>1, StoredImplements
    <3>2. QED
      BY <3>1, Zenon DEF Channel!Next, told, Told
  <2>2. CASE Arrive(s, n) \/ StoreOpenFails(s, n) \/ StoreTorn(s, n)
    BY <2>2, OthersStutter
  <2>3. QED
    BY <1>3, <2>1, <2>2, Zenon DEF Handling
<1>4. CASE AdvanceClock \/ UNCHANGED vars
  BY <1>4, OthersStutter
<1>5. QED
  BY <1>2, <1>3, <1>4, Zenon DEF Next

\* However requests and answers are lost and delayed, a caller who is told "delivered"
\* has a copy on the monitor's disk, an attempt leaves one at most, and nobody is told
\* twice (reporter.go:25-84, handler.go:233-242).
THEOREM Refinement == Spec => ImplementsReportChannel
<1>1. Init => Channel!Init
  <2> SUFFICES ASSUME Init PROVE Channel!Init
    OBVIOUS
  <2>1. lines = [s \in Senders |-> [n \in Attempt |-> 0]] /\ pc = [s \in Senders |-> "ready"]
    BY Zenon DEF Init
  <2>2. \A s \in Senders : Told(s) = "pending"
    BY <2>1 DEF Told
  <2>3. told = [s \in Senders |-> "pending"]
    BY <2>2, Zenon DEF told
  <2>4. QED
    BY <2>1, <2>3, Zenon DEF Channel!Init, told, Told
<1>2. IInv /\ [Next]_vars => [Channel!Next]_<<lines, told>>
  BY StepImplements
<1>3. QED
  BY Invariance, <1>1, <1>2, PTL DEF Spec, ImplementsReportChannel, Channel!Spec, told, Told

=============================================================================
