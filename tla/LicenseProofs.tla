---------------------------- MODULE LicenseProofs ----------------------------
(***************************************************************************)
(* Proofs about License for any configurations, files, keys, lifetimes and  *)
(* clocks: the inductive invariant IInv and what follows from it.           *)
(***************************************************************************)
EXTENDS License, TLAPS

Place == {"down", "cache", "ask", "answer", "save", "rename", "fallback", "running"}
Hand == [held : {TRUE}, token : Token] \union {Nothing}
Run == [pc : Place, force : BOOLEAN, token : Hand, asked : 0 .. MaxTime]
Server == [ahead : Ahead, lifetime : Lifetimes, kid : Kids, revokedAt : 0 .. Never, jwt : BOOLEAN]
Start == [ground : {"none", "cache", "server", "offline", "relaxed"}, at : 0 .. MaxTime]

(***************************************************************************)
(* Types                                                                   *)
(***************************************************************************)

\* What the types say of the parts the actions compute with.
LEMMA Parts ==
    ASSUME TypeOK
    PROVE  /\ MaxTime \in Nat /\ RenewBefore \in Nat
           /\ now \in Nat /\ now <= MaxTime
           /\ server.ahead \in Nat /\ server.lifetime \in Nat
           /\ server.revokedAt \in Nat /\ server.revokedAt <= MaxTime + 1
           /\ run \in Run /\ server \in Server /\ start \in Start
           /\ run.asked \in 0 .. MaxTime /\ run.token \in Hand
           /\ run.token.held \in BOOLEAN
           /\ run.token.held => run.token.token \in Token
           /\ start.at \in Nat
<1>1. /\ MaxTime \in Nat /\ RenewBefore \in Nat
      /\ Lifetimes \subseteq Nat /\ Ahead \subseteq Nat
  BY LicenseAssumption
<1>2. now \in Nat /\ now <= MaxTime
  BY <1>1 DEF TypeOK
<1>3. run \in Run /\ server \in Server /\ start \in Start
  BY Zenon DEF TypeOK, Run, Server, Start, Hand, Place
<1>4. server.ahead \in Nat /\ server.lifetime \in Nat /\ server.revokedAt \in Nat /\ server.revokedAt <= MaxTime + 1
  <2>1. server.ahead \in Ahead /\ server.lifetime \in Lifetimes /\ server.revokedAt \in 0 .. Never
    BY <1>3, Zenon DEF Server
  <2>2. QED
    <3>1. server.ahead \in Nat /\ server.lifetime \in Nat
      BY <1>1, <2>1, Zenon
    <3>2. server.revokedAt \in 0 .. MaxTime + 1
      BY <2>1, Zenon DEF Never
    <3>3. QED
      BY <1>1, <3>1, <3>2
<1>5. run.asked \in 0 .. MaxTime /\ run.token \in Hand
  BY <1>3 DEF Run
<1>6. run.token.held \in BOOLEAN /\ (run.token.held => run.token.token \in Token)
  <2>1. CASE run.token \in [held : {TRUE}, token : Token]
    BY <2>1, Zenon
  <2>2. CASE run.token = Nothing
    BY <2>2 DEF Nothing
  <2>3. QED
    BY <1>5, <2>1, <2>2, Zenon DEF Hand
<1>7. start.at \in Nat
  BY <1>1, <1>3 DEF Start
<1>8. QED
  BY <1>1, <1>2, <1>3, <1>4, <1>5, <1>6, <1>7

\* A token that does not end runs from the start or from the server's time on.
LEMMA Issued ==
    ASSUME TypeOK, NEW t \in ServerTokens
    PROVE  /\ t \in Token
           /\ t.exp <= now + server.ahead + server.lifetime
<1>1. /\ now \in Nat /\ server.ahead \in Nat /\ server.lifetime \in Nat /\ server \in Server
  BY Parts
<1>2. server.kid \in Kids /\ server.jwt \in BOOLEAN
  BY <1>1 DEF Server
<1>3. PICK n \in {0, now + server.ahead} :
        t = [form |-> server.jwt, kid |-> server.kid, sub |-> Me, nbf |-> n,
             exp |-> IF server.lifetime = 0 THEN 0 ELSE now + server.ahead + server.lifetime, signed |-> TRUE]
  BY Zenon DEF ServerTokens
<1>4. n \in Nat
  BY <1>1, <1>3
<1>5. t.exp \in Nat /\ t.exp <= now + server.ahead + server.lifetime
  BY <1>1, <1>3
<1>6. t \in Token
  <2>1. PICK kid \in Kids, form \in BOOLEAN, e \in Nat :
          t = [form |-> form, kid |-> kid, sub |-> Me, nbf |-> n, exp |-> e, signed |-> TRUE]
    <3>1. t = [form |-> server.jwt, kid |-> server.kid, sub |-> Me, nbf |-> n, exp |-> t.exp, signed |-> TRUE]
      BY <1>3, Zenon
    <3>2. QED
      BY <1>2, <1>5, <3>1, Zenon
  <2>2. Me \in Ids
    BY Zenon DEF Ids
  <2>3. QED
    BY <1>4, <2>1, <2>2, Zenon DEF Token
<1>7. QED
  BY <1>5, <1>6

(***************************************************************************)
(* What an action leaves alone stays as it is                              *)
(***************************************************************************)

LEMMA OutsideStays ==
    ASSUME UNCHANGED outside
    PROVE  /\ now' = now /\ server' = server /\ opts' = opts /\ file' = file /\ left' = left
           /\ Vouched' = Vouched /\ LastEnd' = LastEnd /\ Resolver' = Resolver
           /\ Verify' <=> Verify
<1>1. now' = now /\ server' = server /\ opts' = opts /\ file' = file /\ left' = left
  BY Zenon DEF outside
<1>2. Vouched' = Vouched /\ LastEnd' = LastEnd /\ Resolver' = Resolver
  BY <1>1, Zenon DEF Vouched, LastEnd, Resolver
<1>3. Verify' <=> Verify
  BY <1>1, Zenon DEF Verify
<1>4. QED
  BY <1>1, <1>2, <1>3, Zenon

LEMMA CacheStays ==
    ASSUME CacheKept, UNCHANGED <<outside, cache, saved>>
    PROVE  CacheKept'
<1>1. cache' = cache /\ saved' = saved /\ UNCHANGED outside
  BY Zenon
<1>2. now' = now /\ Resolver' = Resolver /\ LastEnd' = LastEnd /\ left' = left
  BY <1>1, OutsideStays, Zenon
<1>3. QED
  BY <1>1, <1>2 DEF CacheKept, Usable

LEMMA CacheCleared ==
    ASSUME ~saved', cache' = Absent
    PROVE  CacheKept'
<1>1. cache' \in {left', Absent}
  OBVIOUS
<1>2. QED
  BY <1>1 DEF CacheKept

\* What the first entry of CachePath grants is settled once and for all.
LEMMA GrantStays ==
    ASSUME left' = left, NEW t
    PROVE  LeftGrants(t)' <=> LeftGrants(t)
BY Zenon DEF LeftGrants, expiresAt

LEMMA StartStays ==
    ASSUME StartKept, Grounded, UNCHANGED <<outside, start>>, run'.pc # "down" => Verify
    PROVE  StartKept' /\ Grounded'
<1>1. start' = start /\ UNCHANGED outside
  BY Zenon
<1>2. StartKept'
  BY <1>1, OutsideStays, GrantStays, Zenon DEF StartKept
<1>3. Grounded'
  BY <1>1, OutsideStays, GrantStays, Zenon DEF Grounded
<1>4. QED
  BY <1>2, <1>3

\* A start on some ground, established at a time at which it held.
LEMMA StartMade ==
    ASSUME TypeOK, UNCHANGED outside, Verify,
           NEW ground \in {"cache", "server", "offline", "relaxed"}, NEW at \in 0 .. MaxTime,
           start' = [ground |-> ground, at |-> at],
           ground = "cache" => at + RenewBefore <= LastEnd \/ LeftGrants(at),
           ground = "server" => at <= Vouched,
           ground = "offline" => (file.claims.exp > 0 => at <= file.claims.exp),
           ground = "relaxed" => opts.relaxed \/ ~opts.endpoint
    PROVE  start' \in Start /\ StartKept' /\ Grounded'
<1>1. start'.ground = ground /\ start'.at = at
  OBVIOUS
<1>2. start' \in Start
  BY DEF Start
<1>3. StartKept'
  BY <1>1, OutsideStays, GrantStays, Zenon DEF StartKept
<1>4. Vouched <= server.revokedAt /\ LastEnd <= server.revokedAt + server.ahead + server.lifetime
  BY Parts DEF Vouched, LastEnd
<1>5. at \in Nat /\ RenewBefore \in Nat /\ Vouched \in Nat /\ LastEnd \in Nat
  BY Parts DEF Vouched, LastEnd
<1>6. /\ ground = "cache" => at + RenewBefore <= server.revokedAt + server.ahead + server.lifetime \/ LeftGrants(at)
      /\ ground = "server" => at <= server.revokedAt
  BY <1>4, <1>5, Parts
<1>7. Grounded'
  BY <1>1, <1>6, OutsideStays, GrantStays, Zenon DEF Grounded
<1>8. QED
  BY <1>2, <1>3, <1>7

\* The new token and place of a step within resolveToken.
LEMMA Went ==
    ASSUME TypeOK, NEW pc \in Place, run' = [run EXCEPT !.pc = pc]
    PROVE  /\ run' \in Run
           /\ run'.pc = pc /\ run'.force = run.force /\ run'.token = run.token /\ run'.asked = run.asked
<1>1. run \in Run
  BY Parts
<1>2. QED
  BY <1>1 DEF Run

LEMMA Dropped ==
    ASSUME TypeOK, NEW pc \in Place, run' = [run EXCEPT !.pc = pc, !.token = Nothing, !.asked = 0]
    PROVE  /\ run' \in Run
           /\ run'.pc = pc /\ run'.token = Nothing /\ run'.asked = 0 /\ ~run'.token.held
<1>1. run \in Run /\ MaxTime \in Nat
  BY Parts
<1>2. Nothing \in Hand /\ 0 \in 0 .. MaxTime
  BY <1>1 DEF Hand
<1>3. run'.pc = pc /\ run'.token = Nothing /\ run'.asked = 0
  BY <1>1, Zenon DEF Run
<1>4. run' \in Run
  BY <1>1, <1>2, Zenon DEF Run
<1>5. ~run'.token.held
  BY <1>3 DEF Nothing
<1>6. QED
  BY <1>3, <1>4, <1>5

LEMMA Fresh ==
    ASSUME TypeOK, NEW pc \in Place, NEW force \in BOOLEAN,
           run' = [pc |-> pc, force |-> force, token |-> Nothing, asked |-> 0]
    PROVE  /\ run' \in Run
           /\ run'.pc = pc /\ run'.token = Nothing /\ run'.asked = 0 /\ ~run'.token.held
<1>1. MaxTime \in Nat
  BY Parts
<1>2. Nothing \in Hand /\ 0 \in 0 .. MaxTime
  BY <1>1 DEF Hand
<1>3. run'.pc = pc /\ run'.token = Nothing /\ run'.asked = 0
  BY Zenon
<1>4. run' \in Run
  BY <1>2, Zenon DEF Run
<1>5. ~run'.token.held
  BY <1>3 DEF Nothing
<1>6. QED
  BY <1>3, <1>4, <1>5

\* Without a token in hand the token's part of the invariant asks for little.
LEMMA EmptyHand ==
    ASSUME ~run'.token.held, run'.pc \in {"down", "cache", "ask", "fallback", "running"}
    PROVE  TokenInHand'
BY DEF TokenInHand

LEMMA Typed ==
    ASSUME TypeOK, UNCHANGED outside, run' \in Run, start' \in Start,
           cache' \in Entry \union {Absent}, saved' \in BOOLEAN
    PROVE  TypeOK'
<1>1. opts' = opts /\ file' = file /\ now' = now /\ server' = server /\ left' = left
  BY OutsideStays
<1>2. QED
  BY <1>1, Zenon DEF TypeOK, Run, Start, Hand, Place

(***************************************************************************)
(* The two ends of resolveToken                                            *)
(***************************************************************************)

LEMMA ResolvedKeeps ==
    ASSUME IInv, run.pc # "down", UNCHANGED outside,
           NEW ground \in {"cache", "server", "offline", "relaxed"}, NEW at \in 0 .. MaxTime,
           Resolved(ground, at),
           ground = "cache" => at + RenewBefore <= LastEnd \/ LeftGrants(at),
           ground = "server" => at <= Vouched,
           ground = "offline" => (file.claims.exp > 0 => at <= file.claims.exp),
           ground = "relaxed" => opts.relaxed \/ ~opts.endpoint,
           CacheKept', cache' \in Entry \union {Absent}, saved' \in BOOLEAN
    PROVE  IInv'
<1>1. TypeOK /\ StartKept /\ Grounded /\ Verify
  BY Zenon DEF IInv, StartKept
<1>2. /\ run' = [run EXCEPT !.pc = "running", !.token = Nothing, !.asked = 0]
      /\ start' = IF run.force THEN start ELSE [ground |-> ground, at |-> at]
  BY Zenon DEF Resolved
<1>3. run' \in Run /\ run'.pc = "running" /\ ~run'.token.held
  BY <1>1, <1>2, Dropped, Zenon DEF Place
<1>4. TokenInHand'
  BY <1>3, EmptyHand
<1>5. start' \in Start /\ StartKept' /\ Grounded'
  <2>1. CASE run.force
    <3>1. start' = start /\ start \in Start
      BY <1>1, <1>2, <2>1, Parts, Zenon
    <3>2. QED
      BY <1>1, <3>1, StartStays, Zenon
  <2>2. CASE ~run.force
    <3>1. start' = [ground |-> ground, at |-> at]
      BY <1>2, <2>2, Zenon
    <3>2. QED
      BY <1>1, <3>1, StartMade, Zenon
  <2>3. QED
    BY <2>1, <2>2
<1>6. TypeOK'
  BY <1>1, <1>3, <1>5, Typed, Zenon
<1>7. QED
  BY <1>4, <1>5, <1>6 DEF IInv

LEMMA FailedKeeps ==
    ASSUME IInv, run.pc # "down", UNCHANGED <<outside, start>>, Failed,
           CacheKept', cache' \in Entry \union {Absent}, saved' \in BOOLEAN
    PROVE  IInv'
<1>1. TypeOK /\ StartKept /\ Grounded /\ Verify /\ UNCHANGED outside /\ start' = start /\ start \in Start
  BY Parts, Zenon DEF IInv, StartKept
<1>2. PICK pc \in {"running", "down"} : run' = [run EXCEPT !.pc = pc, !.token = Nothing, !.asked = 0]
  BY Zenon DEF Failed
<1>3. run' \in Run /\ run'.pc = pc /\ ~run'.token.held
  BY <1>1, <1>2, Dropped, Zenon DEF Place
<1>4. TokenInHand'
  BY <1>3, EmptyHand
<1>5. StartKept' /\ Grounded'
  BY <1>1, StartStays, Zenon
<1>6. TypeOK'
  BY <1>1, <1>3, Typed, Zenon
<1>7. QED
  BY <1>4, <1>5, <1>6 DEF IInv

(***************************************************************************)
(* The actions                                                             *)
(***************************************************************************)

\* A step that only moves run, to a place where there is no token in hand.
LEMMA MovedKeeps ==
    ASSUME IInv, UNCHANGED <<outside, cache, start, saved>>, run' \in Run, TokenInHand',
           run'.pc # "down" => Verify
    PROVE  IInv'
<1>1. /\ TypeOK /\ CacheKept /\ StartKept /\ Grounded /\ start \in Start
      /\ UNCHANGED <<outside, cache, saved>> /\ UNCHANGED <<outside, start>>
  BY Parts, Zenon DEF IInv
<1>2. CacheKept' /\ StartKept' /\ Grounded'
  BY <1>1, CacheStays, StartStays, Zenon
<1>3. cache' \in Entry \union {Absent} /\ saved' \in BOOLEAN /\ start' \in Start /\ UNCHANGED outside
  BY <1>1, Zenon DEF TypeOK
<1>4. TypeOK'
  BY <1>1, <1>3, Typed, Zenon
<1>5. QED
  BY <1>2, <1>4 DEF IInv

LEMMA BootKeeps == IInv /\ Boot => IInv'
<1> SUFFICES ASSUME IInv, Boot PROVE IInv'
  OBVIOUS
<1>1. /\ TypeOK /\ Verify /\ UNCHANGED <<outside, cache, start, saved>>
      /\ run' = [pc |-> "cache", force |-> FALSE, token |-> Nothing, asked |-> 0]
  BY Zenon DEF Boot, IInv
<1>2. run' \in Run /\ run'.pc = "cache" /\ ~run'.token.held
  BY <1>1, Fresh, Zenon DEF Place
<1>3. TokenInHand'
  BY <1>2, EmptyHand
<1>4. QED
  BY <1>1, <1>2, <1>3, MovedKeeps, Zenon

LEMMA ReadCacheKeeps == IInv /\ ReadCache => IInv'
<1> SUFFICES ASSUME IInv, ReadCache PROVE IInv'
  OBVIOUS
<1>1. /\ TypeOK /\ TokenInHand /\ CacheKept /\ StartKept /\ run.pc = "cache"
      /\ UNCHANGED <<outside, cache, saved>> /\ UNCHANGED outside
  BY Zenon DEF ReadCache, IInv
<1>2. /\ ~run.token.held /\ Verify
      /\ CacheKept' /\ cache' \in Entry \union {Absent} /\ saved' \in BOOLEAN
  BY <1>1, CacheStays, Zenon DEF TokenInHand, StartKept, TypeOK
<1>3. CASE Valid(cache) /\ Resolved("cache", now)
  <2>1. now + RenewBefore <= LastEnd \/ LeftGrants(now)
    <3>1. /\ cache.exists /\ now + RenewBefore <= expiresAt(cache)
          /\ cache.token.signed /\ cache.token.sub = Me /\ (cache.token.exp > 0 => now <= cache.token.exp)
      BY <1>3, Zenon DEF Valid, VerifyToken, VerifyJWT, InTime
    <3>2. cache # Absent
      BY <3>1 DEF Absent
    <3>3. CASE saved
      <4>1. cache.expires <= LastEnd /\ cache \in Entry /\ cache.expires = cache.token.exp
        BY <1>1, <3>2, <3>3, Zenon DEF CacheKept, TypeOK
      <4>2. cache.token.exp \in Nat /\ expiresAt(cache) = cache.token.exp
        BY <4>1, Zenon DEF Entry, Token, expiresAt
      <4>3. LastEnd \in Nat /\ now \in Nat /\ RenewBefore \in Nat
        BY <1>1, Parts DEF LastEnd, Vouched
      <4>4. QED
        BY <3>1, <4>1, <4>2, <4>3
    <3>4. CASE ~saved
      <4>1. cache = left
        BY <1>1, <3>2, <3>4, Zenon DEF CacheKept
      <4>2. QED
        BY <3>1, <4>1, Zenon DEF LeftGrants
    <3>5. QED
      BY <3>3, <3>4
  <2>2. now \in 0 .. MaxTime
    BY <1>1, Zenon DEF TypeOK
  <2>3. QED
    BY <1>1, <1>2, <1>3, <2>1, <2>2, ResolvedKeeps, Zenon
<1>4. CASE Go("ask") /\ UNCHANGED start
  <2>1. run' = [run EXCEPT !.pc = "ask"] /\ UNCHANGED <<outside, cache, start, saved>>
    BY <1>1, <1>4, Zenon DEF Go
  <2>2. run' \in Run /\ run'.pc = "ask" /\ ~run'.token.held
    BY <1>1, <1>2, <2>1, Went, Zenon DEF Place
  <2>3. TokenInHand'
    BY <2>2, EmptyHand
  <2>4. QED
    BY <1>2, <2>1, <2>2, <2>3, MovedKeeps, Zenon
<1>5. QED
  BY <1>3, <1>4, Zenon DEF ReadCache

LEMMA AskKeeps == IInv /\ Ask => IInv'
<1> SUFFICES ASSUME IInv, Ask PROVE IInv'
  OBVIOUS
<1>1. /\ TypeOK /\ TokenInHand /\ StartKept /\ run.pc = "ask"
      /\ UNCHANGED <<outside, cache, start, saved>> /\ UNCHANGED outside
  BY Zenon DEF Ask, IInv
<1>2. ~run.token.held /\ Verify
  BY <1>1, Zenon DEF TokenInHand, StartKept
<1>3. CASE ~opts.endpoint /\ Go("save")
  <2>1. run' \in Run /\ run'.pc = "save" /\ ~run'.token.held /\ ~opts'.endpoint
    BY <1>1, <1>2, <1>3, Went, OutsideStays, Zenon DEF Go, Place
  <2>2. TokenInHand'
    BY <2>1 DEF TokenInHand
  <2>3. QED
    BY <1>1, <1>2, <2>1, <2>2, MovedKeeps, Zenon
<1>4. ASSUME opts.endpoint, server.revokedAt = Never, NEW t \in ServerTokens,
             run' = [run EXCEPT !.pc = "answer", !.token = Holds(t), !.asked = now]
      PROVE  IInv'
  <2>1. t \in Token /\ t.exp <= now + server.ahead + server.lifetime
    BY <1>1, <1>4, Issued
  <2>2. Holds(t) \in Hand /\ now \in 0 .. MaxTime /\ run \in Run
    BY <1>1, <2>1, Parts, Zenon DEF Holds, Hand, TypeOK
  <2>3. run'.pc = "answer" /\ run'.token = Holds(t) /\ run'.asked = now
    BY <1>4, <2>2, Zenon DEF Run
  <2>4. run' \in Run
    BY <1>4, <2>2, Zenon DEF Run, Place
  <2>5. run'.token.held /\ run'.token.token = t
    BY <2>3 DEF Holds
  <2>6. Vouched = now /\ LastEnd = now + server.ahead + server.lifetime
    BY <1>1, <1>4, Parts DEF Vouched, LastEnd, Never
  <2>7. run'.asked <= Vouched' /\ run'.token.token.exp <= LastEnd' /\ opts'.endpoint
    <3>1. Vouched' = now /\ LastEnd' = now + server.ahead + server.lifetime /\ opts' = opts
      BY <1>1, <2>6, OutsideStays, Zenon
    <3>2. now <= now
      BY <1>1, Parts
    <3>3. QED
      BY <1>4, <2>1, <2>3, <2>5, <3>1, <3>2, Zenon
  <2>8. TokenInHand'
    BY <2>3, <2>5, <2>7 DEF TokenInHand
  <2>9. QED
    BY <1>1, <1>2, <2>4, <2>8, MovedKeeps, Zenon
<1>5. CASE Go("fallback")
  <2>1. run' \in Run /\ run'.pc = "fallback" /\ ~run'.token.held
    BY <1>1, <1>2, <1>5, Went, Zenon DEF Go, Place
  <2>2. TokenInHand'
    BY <2>1, EmptyHand
  <2>3. QED
    BY <1>1, <1>2, <2>1, <2>2, MovedKeeps, Zenon
<1>6. QED
  BY <1>3, <1>4, <1>5, Zenon DEF Ask

LEMMA AnswerKeeps == IInv /\ Answer => IInv'
<1> SUFFICES ASSUME IInv, Answer PROVE IInv'
  OBVIOUS
<1>1. /\ TypeOK /\ TokenInHand /\ StartKept /\ run.pc = "answer"
      /\ UNCHANGED <<outside, cache, start, saved>> /\ UNCHANGED outside
  BY Zenon DEF Answer, IInv
<1>2. /\ Verify /\ run.token.held /\ opts.endpoint
      /\ run.asked <= Vouched /\ run.token.token.exp <= LastEnd
  BY <1>1, Zenon DEF TokenInHand, StartKept
<1>3. CASE Go("save")
  <2>1. run' \in Run /\ run'.pc = "save" /\ run'.token = run.token /\ run'.asked = run.asked
    BY <1>1, <1>3, Went, Zenon DEF Go, Place
  <2>2. run'.token.held /\ opts'.endpoint /\ run'.asked <= Vouched' /\ run'.token.token.exp <= LastEnd'
    BY <1>1, <1>2, <2>1, OutsideStays, Zenon
  <2>3. TokenInHand'
    BY <2>1, <2>2 DEF TokenInHand
  <2>4. QED
    BY <1>1, <1>2, <2>1, <2>3, MovedKeeps, Zenon
<1>4. CASE run' = [run EXCEPT !.pc = "fallback", !.token = Nothing, !.asked = 0]
  <2>1. run' \in Run /\ run'.pc = "fallback" /\ ~run'.token.held
    BY <1>1, <1>4, Dropped, Zenon DEF Place
  <2>2. TokenInHand'
    BY <2>1, EmptyHand
  <2>3. QED
    BY <1>1, <1>2, <2>1, <2>2, MovedKeeps, Zenon
<1>5. QED
  BY <1>3, <1>4, Zenon DEF Answer

\* Clearing the cache keeps its part of the invariant, also when it fails.
LEMMA ClearedKeeps ==
    ASSUME IInv, UNCHANGED outside,
           (opts.cache /\ cache' = Absent /\ saved' = FALSE) \/ UNCHANGED <<cache, saved>>
    PROVE  CacheKept' /\ cache' \in Entry \union {Absent} /\ saved' \in BOOLEAN
<1>1. TypeOK /\ CacheKept
  BY Zenon DEF IInv
<1>2. CASE cache' = Absent /\ saved' = FALSE
  <2>1. ~saved' /\ cache' \in Entry \union {Absent} /\ saved' \in BOOLEAN
    BY <1>2
  <2>2. QED
    BY <1>2, <2>1, CacheCleared
<1>3. CASE UNCHANGED <<cache, saved>>
  <2>1. UNCHANGED <<outside, cache, saved>> /\ cache' = cache /\ saved' = saved
    BY <1>3, Zenon
  <2>2. QED
    BY <1>1, <2>1, CacheStays, Zenon DEF TypeOK
<1>4. QED
  BY <1>2, <1>3, Zenon

LEMMA FallbackKeeps == IInv /\ Fallback => IInv'
<1> SUFFICES ASSUME IInv, Fallback PROVE IInv'
  OBVIOUS
<1>1. TypeOK /\ run.pc = "fallback" /\ UNCHANGED outside /\ run.pc # "down"
  BY Zenon DEF Fallback, IInv
<1>2. /\ CacheKept' /\ cache' \in Entry \union {Absent} /\ saved' \in BOOLEAN
  BY <1>1, ClearedKeeps, Zenon DEF Fallback
<1>3. now \in 0 .. MaxTime
  BY <1>1, Zenon DEF TypeOK
<1>4. CASE opts.offline /\ VerifyOfflineLicense /\ Resolved("offline", now)
  <2>1. file.claims.exp > 0 => now <= file.claims.exp
    BY <1>4, Zenon DEF VerifyOfflineLicense, VerifyOfflineFile, InTime
  <2>2. QED
    BY <1>1, <1>2, <1>3, <1>4, <2>1, ResolvedKeeps, Zenon
<1>5. CASE ~opts.offline /\ opts.relaxed /\ Resolved("relaxed", now)
  BY <1>1, <1>2, <1>3, <1>5, ResolvedKeeps, Zenon
<1>6. CASE Failed /\ UNCHANGED <<cache, saved, start>>
  <2>1. UNCHANGED <<outside, start>>
    BY <1>1, <1>6, Zenon
  <2>2. QED
    BY <1>1, <1>2, <1>6, <2>1, FailedKeeps, Zenon
<1>7. QED
  BY <1>4, <1>5, <1>6, Zenon DEF Fallback

LEMMA SaveKeeps == IInv /\ Save => IInv'
<1> SUFFICES ASSUME IInv, Save PROVE IInv'
  OBVIOUS
<1>1. /\ TypeOK /\ TokenInHand /\ CacheKept /\ StartKept /\ run.pc = "save" /\ run.pc # "down"
      /\ UNCHANGED <<outside, cache, saved>> /\ UNCHANGED outside
  BY Zenon DEF Save, IInv
<1>2. /\ Verify /\ (run.token.held <=> opts.endpoint)
      /\ (run.token.held => run.asked <= Vouched /\ run.token.token.exp <= LastEnd)
      /\ run.asked \in 0 .. MaxTime
      /\ CacheKept' /\ cache' \in Entry \union {Absent} /\ saved' \in BOOLEAN
  BY <1>1, Parts, CacheStays, Zenon DEF TokenInHand, StartKept, TypeOK
<1>3. CASE Resolved(IF opts.endpoint THEN "server" ELSE "relaxed", run.asked)
  <2>1. CASE opts.endpoint
    BY <1>1, <1>2, <1>3, <2>1, ResolvedKeeps, Zenon
  <2>2. CASE ~opts.endpoint
    BY <1>1, <1>2, <1>3, <2>2, ResolvedKeeps, Zenon
  <2>3. QED
    BY <2>1, <2>2
<1>4. CASE run.token.held /\ VerifyToken(run.token.token) /\ Go("rename") /\ UNCHANGED start
  <2>1. run' \in Run /\ run'.pc = "rename" /\ run'.token = run.token /\ run'.asked = run.asked
    BY <1>1, <1>4, Went, Zenon DEF Go, Place
  <2>2. run.token.token \in Token
    BY <1>1, <1>4, Parts
  <2>3. Usable(run.token.token)
    <3>1. now \in Nat /\ run.token.token.nbf \in Nat
      BY <1>1, <2>2, Parts, Zenon DEF Token
    <3>2. run.token.token.nbf <= now
      BY <1>4, <3>1 DEF VerifyToken, VerifyJWT, InTime
    <3>3. QED
      BY <1>4, <3>2, Zenon DEF VerifyToken, VerifyJWT, Usable
  <2>4. /\ run'.token.held /\ run'.asked <= Vouched' /\ run'.token.token.exp <= LastEnd'
        /\ now' = now /\ Resolver' = Resolver
    BY <1>1, <1>2, <1>4, <2>1, OutsideStays, Zenon
  <2>5. TokenInHand'
    BY <2>1, <2>3, <2>4 DEF TokenInHand, Usable
  <2>6. UNCHANGED <<outside, cache, start, saved>>
    BY <1>1, <1>4, Zenon
  <2>7. QED
    BY <1>2, <2>1, <2>5, <2>6, MovedKeeps, Zenon
<1>5. CASE Failed /\ UNCHANGED start
  <2>1. UNCHANGED <<outside, start>>
    BY <1>1, <1>5, Zenon
  <2>2. QED
    BY <1>1, <1>2, <1>5, <2>1, FailedKeeps, Zenon
<1>6. QED
  BY <1>3, <1>4, <1>5, Zenon DEF Save

LEMMA RenameKeeps == IInv /\ Rename => IInv'
<1> SUFFICES ASSUME IInv, Rename PROVE IInv'
  OBVIOUS
<1>1. TypeOK /\ TokenInHand /\ CacheKept /\ StartKept /\ run.pc = "rename" /\ run.pc # "down" /\ UNCHANGED outside
  BY Zenon DEF Rename, IInv
<1>2. /\ run.token.held /\ Usable(run.token.token)
      /\ run.asked <= Vouched /\ run.token.token.exp <= LastEnd
      /\ run.asked \in 0 .. MaxTime /\ run.token.token \in Token
  BY <1>1, Parts, Zenon DEF TokenInHand
<1>3. CASE cache' = CacheEntry(run.token.token) /\ saved' = TRUE /\ Resolved("server", run.asked)
  <2> DEFINE t == run.token.token
  <2>1. t.kid \in Kids /\ t.exp \in Nat /\ Me \in Ids
    BY <1>2, Zenon DEF Token, Ids
  <2>2. /\ cache'.exists /\ cache'.decodes /\ cache'.agent = Me /\ cache'.kid = t.kid
        /\ cache'.expires = t.exp /\ cache'.token = t
    BY <1>3 DEF CacheEntry
  <2>3. cache' \in Entry
    <3>1. cache' = [exists |-> TRUE, decodes |-> TRUE, agent |-> Me, kid |-> t.kid, expires |-> t.exp, token |-> t]
      BY <1>3, Zenon DEF CacheEntry
    <3>2. t \in Token
      BY <1>2
    <3>3. QED
      BY <2>1, <3>1, <3>2, Zenon DEF Entry
  <2>4. now' = now /\ Resolver' = Resolver /\ LastEnd' = LastEnd /\ saved'
    BY <1>1, <1>3, OutsideStays
  <2>5. CacheKept'
    BY <1>2, <2>2, <2>4 DEF CacheKept, Usable
  <2>6. cache' \in Entry \union {Absent} /\ saved' \in BOOLEAN
    BY <1>3, <2>3, Zenon
  <2>7. QED
    BY <1>1, <1>2, <1>3, <2>5, <2>6, ResolvedKeeps, Zenon
<1>4. CASE Failed /\ UNCHANGED <<cache, saved, start>>
  <2>1. UNCHANGED <<outside, cache, saved>> /\ UNCHANGED <<outside, start>> /\ cache' = cache /\ saved' = saved
    BY <1>1, <1>4, Zenon
  <2>2. CacheKept' /\ cache' \in Entry \union {Absent} /\ saved' \in BOOLEAN
    BY <1>1, <2>1, CacheStays, Zenon DEF TypeOK
  <2>3. QED
    BY <1>1, <1>4, <2>1, <2>2, FailedKeeps, Zenon
<1>5. QED
  BY <1>3, <1>4, Zenon DEF Rename

LEMMA RefreshKeeps == IInv /\ Refresh => IInv'
<1> SUFFICES ASSUME IInv, Refresh PROVE IInv'
  OBVIOUS
<1>1. /\ TypeOK /\ StartKept /\ Grounded /\ run.pc = "running" /\ UNCHANGED outside
      /\ UNCHANGED <<outside, start>> /\ start' = start /\ start \in Start
      /\ run' = [pc |-> "ask", force |-> TRUE, token |-> Nothing, asked |-> 0]
  BY Parts, Zenon DEF Refresh, IInv
<1>2. Verify
  BY <1>1, Zenon DEF StartKept
<1>3. CacheKept' /\ cache' \in Entry \union {Absent} /\ saved' \in BOOLEAN
  BY <1>1, ClearedKeeps, Zenon DEF Refresh
<1>4. run' \in Run /\ run'.pc = "ask" /\ ~run'.token.held
  BY <1>1, Fresh, Zenon DEF Place
<1>5. TokenInHand'
  BY <1>4, EmptyHand
<1>6. StartKept' /\ Grounded'
  BY <1>1, <1>2, StartStays, Zenon
<1>7. TypeOK'
  BY <1>1, <1>3, <1>4, Typed, Zenon
<1>8. QED
  BY <1>3, <1>5, <1>6, <1>7 DEF IInv

LEMMA EndsKeeps == IInv /\ Ends => IInv'
<1> SUFFICES ASSUME IInv, Ends PROVE IInv'
  OBVIOUS
<1>1. /\ TypeOK /\ CacheKept /\ UNCHANGED outside /\ UNCHANGED <<outside, cache, saved>>
      /\ cache' = cache /\ saved' = saved /\ start' = NotStarted
      /\ run' = [pc |-> "down", force |-> FALSE, token |-> Nothing, asked |-> 0]
  BY Zenon DEF Ends, IInv
<1>2. CacheKept' /\ cache' \in Entry \union {Absent} /\ saved' \in BOOLEAN
  BY <1>1, CacheStays, Zenon DEF TypeOK
<1>3. run' \in Run /\ run'.pc = "down" /\ ~run'.token.held
  BY <1>1, Fresh, Zenon DEF Place
<1>4. TokenInHand'
  BY <1>3, EmptyHand
<1>5. start'.ground = "none" /\ start' \in Start
  <2>1. MaxTime \in Nat
    BY <1>1, Parts
  <2>2. QED
    BY <1>1, <2>1 DEF NotStarted, Start
<1>6. StartKept' /\ Grounded'
  BY <1>3, <1>5 DEF StartKept, Grounded
<1>7. TypeOK'
  BY <1>1, <1>2, <1>3, <1>5, Typed, Zenon
<1>8. QED
  BY <1>2, <1>4, <1>6, <1>7 DEF IInv

\* Around the agent: time passes, the licence is revoked, the key changes.
LEMMA WorldKeeps ==
    ASSUME IInv, UNCHANGED <<opts, file, left, cache, run, start, saved>>,
           now' \in 0 .. MaxTime, now <= now', server' \in Server, Vouched <= Vouched',
           server'.ahead = server.ahead, server'.lifetime = server.lifetime,
           \/ server'.revokedAt = server.revokedAt
           \/ server'.revokedAt = Vouched
    PROVE  IInv'
<1>1. /\ TypeOK /\ TokenInHand /\ CacheKept /\ StartKept /\ Grounded
      /\ opts' = opts /\ file' = file /\ left' = left /\ cache' = cache /\ run' = run /\ start' = start /\ saved' = saved
  BY Zenon DEF IInv
<1>2. TypeOK'
  BY <1>1, Zenon DEF TypeOK, Server
<1>3. /\ Vouched \in Nat /\ LastEnd \in Nat /\ LastEnd <= LastEnd' /\ now \in Nat /\ now' \in Nat
      /\ Vouched' \in Nat /\ LastEnd' \in Nat
  <2>1. MaxTime \in Nat /\ now \in Nat /\ Vouched \in Nat /\ LastEnd \in Nat
    BY <1>1, Parts DEF Vouched, LastEnd
  <2>2. now' \in Nat
    BY <2>1
  <2>3. Vouched' \in Nat
    <3>1. server'.revokedAt \in Nat
      BY <1>1, <2>1, Parts
    <3>2. QED
      BY <2>2, <3>1 DEF Vouched
  <2>4. LastEnd <= LastEnd' /\ LastEnd' \in Nat
    BY <1>1, <2>1, <2>3, Parts DEF LastEnd
  <2>5. QED
    BY <2>1, <2>2, <2>3, <2>4
<1>4. Resolver' = Resolver /\ (Verify' <=> Verify)
  BY <1>1, Zenon DEF Resolver, Verify
<1>5. TokenInHand'
  <2>1. ASSUME run.token.held
        PROVE  run.asked <= Vouched' /\ run.token.token.exp <= LastEnd'
    <3>1. run.asked \in Nat /\ run.token.token \in Token
      BY <1>1, <2>1, Parts
    <3>2. run.token.token.exp \in Nat
      BY <3>1, Zenon DEF Token
    <3>3. run.asked <= Vouched /\ run.token.token.exp <= LastEnd
      BY <1>1, <2>1, Zenon DEF TokenInHand
    <3>4. QED
      BY <1>3, <3>1, <3>2, <3>3
  <2>2. ASSUME run.pc = "rename"
        PROVE  run.token.held /\ Usable(run.token.token) /\ run.token.token.nbf <= now'
    <3>1. run.token.held /\ Usable(run.token.token)
      BY <1>1, <2>2, Zenon DEF TokenInHand
    <3>2. run.token.token.nbf \in Nat
      BY <1>1, <3>1, Parts, Zenon DEF Token
    <3>3. QED
      BY <1>3, <3>1, <3>2 DEF Usable
  <2>3. QED
    BY <1>1, <1>4, <2>1, <2>2 DEF TokenInHand, Usable
<1>6. CacheKept'
  <2>1. ASSUME saved
        PROVE  cache.expires <= LastEnd' /\ cache.token.nbf <= now'
    <3>1. cache.exists /\ cache.expires <= LastEnd /\ cache.token.nbf <= now
      BY <1>1, <2>1, Zenon DEF CacheKept, Usable
    <3>2. cache \in Entry
      <4>1. cache # Absent
        BY <3>1 DEF Absent
      <4>2. QED
        BY <1>1, <4>1, Zenon DEF TypeOK
    <3>3. cache.expires \in Nat /\ cache.token.nbf \in Nat
      BY <1>1, <2>1, <3>2, Zenon DEF CacheKept, Entry, Token
    <3>4. QED
      BY <1>3, <3>1, <3>3
  <2>2. QED
    BY <1>1, <1>4, <2>1 DEF CacheKept, Usable
<1>7. StartKept'
  <2>1. start.at \in Nat /\ RenewBefore \in Nat
    BY <1>1, Parts
  <2>2. start.ground = "cache" => start.at + RenewBefore <= LastEnd' \/ LeftGrants(start.at)
    BY <1>1, <1>3, <2>1 DEF StartKept
  <2>3. start.ground = "server" => start.at <= Vouched'
    BY <1>1, <1>3, <2>1 DEF StartKept
  <2>4. QED
    BY <1>1, <1>4, <2>1, <2>2, <2>3, GrantStays, Zenon DEF StartKept
<1>8. Grounded'
  <2>1. CASE server'.revokedAt = server.revokedAt
    BY <1>1, <2>1, GrantStays, Zenon DEF Grounded
  <2>2. CASE server'.revokedAt = Vouched
    <3>1. /\ start.ground = "cache" => \/ start.at + RenewBefore <= server'.revokedAt + server'.ahead + server'.lifetime
                                       \/ LeftGrants(start.at)
          /\ start.ground = "server" => start.at <= server'.revokedAt
      BY <1>1, <2>2 DEF StartKept, LastEnd
    <3>2. QED
      BY <1>1, <3>1, GrantStays, Zenon DEF Grounded
  <2>3. QED
    BY <2>1, <2>2
<1>9. QED
  BY <1>2, <1>5, <1>6, <1>7, <1>8 DEF IInv

LEMMA TickKeeps == IInv /\ Tick => IInv'
<1> SUFFICES ASSUME IInv, Tick PROVE IInv'
  OBVIOUS
<1>1. /\ TypeOK /\ now < MaxTime /\ now' = now + 1 /\ server' = server
      /\ UNCHANGED <<opts, file, left, cache, run, start, saved>>
  BY Zenon DEF Tick, IInv
<1>2. now' \in 0 .. MaxTime /\ now <= now' /\ Vouched <= Vouched'
  BY <1>1, Parts DEF Vouched
<1>3. server' \in Server
  BY <1>1, Parts
<1>4. QED
  BY <1>1, <1>2, <1>3, WorldKeeps, Zenon

LEMMA RevokeKeeps == IInv /\ Revoke => IInv'
<1> SUFFICES ASSUME IInv, Revoke PROVE IInv'
  OBVIOUS
<1>1. /\ TypeOK /\ server.revokedAt = Never /\ server' = [server EXCEPT !.revokedAt = now] /\ now' = now
      /\ UNCHANGED <<opts, file, left, cache, run, start, saved>>
  BY Zenon DEF Revoke, IInv
<1>2. server \in Server /\ now \in 0 .. MaxTime /\ MaxTime \in Nat /\ now \in Nat
  BY <1>1, Parts, Zenon DEF TypeOK
<1>3. now \in 0 .. Never
  BY <1>2 DEF Never
<1>4. /\ server' \in Server /\ server'.ahead = server.ahead /\ server'.lifetime = server.lifetime
      /\ server'.revokedAt = now
  BY <1>1, <1>2, <1>3, Zenon DEF Server
<1>5. Vouched = now /\ Vouched' = now /\ now <= now
  BY <1>1, <1>2, <1>4 DEF Vouched, Never
<1>6. QED
  BY <1>1, <1>2, <1>4, <1>5, WorldKeeps, Zenon

LEMMA ChangeKeyKeeps == IInv /\ ChangeKey => IInv'
<1> SUFFICES ASSUME IInv, ChangeKey PROVE IInv'
  OBVIOUS
<1>1. PICK k \in Kids : server' = [server EXCEPT !.kid = k]
  BY Zenon DEF ChangeKey
<1>2. TypeOK /\ now' = now /\ UNCHANGED <<opts, file, left, cache, run, start, saved>>
  BY Zenon DEF ChangeKey, IInv
<1>3. server \in Server /\ now \in 0 .. MaxTime /\ now <= now
  <2>1. server \in Server /\ now \in 0 .. MaxTime
    BY <1>2, Parts, Zenon DEF TypeOK
  <2>2. now <= now
    BY <2>1
  <2>3. QED
    BY <2>1, <2>2
<1>4. /\ server' \in Server /\ server'.ahead = server.ahead /\ server'.lifetime = server.lifetime
      /\ server'.revokedAt = server.revokedAt
  BY <1>1, <1>3, Zenon DEF Server
<1>5. Vouched' = Vouched /\ Vouched <= Vouched
  BY <1>2, <1>4, Parts DEF Vouched
<1>6. QED
  BY <1>2, <1>3, <1>4, <1>5, WorldKeeps, Zenon

(***************************************************************************)
(* The theorems                                                            *)
(***************************************************************************)

LEMMA InitIInv == Init => IInv
<1> SUFFICES ASSUME Init PROVE IInv
  OBVIOUS
<1>1. MaxTime \in Nat /\ Options \subseteq Config /\ Offline \subseteq File /\ Leftovers \subseteq Entry
  BY LicenseAssumption, Zenon
<1>2. /\ opts \in Options /\ file \in Offline /\ now = 0
      /\ server \in [ahead : Ahead, lifetime : Lifetimes, kid : Kids, revokedAt : {Never}, jwt : BOOLEAN]
      /\ left \in Leftovers \union {Absent} /\ cache = left
      /\ run = [pc |-> "down", force |-> FALSE, token |-> Nothing, asked |-> 0]
      /\ start = NotStarted /\ saved = FALSE
  BY Zenon DEF Init
<1>3. run \in Run /\ run.pc = "down" /\ ~run.token.held
  <2>1. Nothing \in Hand /\ 0 \in 0 .. MaxTime
    BY <1>1 DEF Hand
  <2>2. run \in Run /\ run.pc = "down" /\ run.token = Nothing
    BY <1>2, <2>1, Zenon DEF Run, Place
  <2>3. QED
    BY <2>2 DEF Nothing
<1>4. server \in Server
  <2>1. Never \in 0 .. Never
    BY <1>1 DEF Never
  <2>2. QED
    BY <1>2, <2>1, Zenon DEF Server
<1>5. start \in Start /\ start.ground = "none"
  BY <1>1, <1>2 DEF NotStarted, Start
<1>6. TypeOK
  <2>1. now \in 0 .. MaxTime /\ saved \in BOOLEAN
    <3>1. MaxTime \in Nat /\ now = 0
      BY <1>1, <1>2, Zenon
    <3>2. now \in 0 .. MaxTime
      BY <3>1
    <3>3. saved \in BOOLEAN
      BY <1>2, Zenon
    <3>4. QED
      BY <3>2, <3>3
  <2>2. opts \in Config /\ file \in File /\ left \in Entry \union {Absent} /\ cache \in Entry \union {Absent}
    BY <1>1, <1>2, Zenon
  <2>3. QED
    BY <1>3, <1>4, <1>5, <2>1, <2>2, Zenon DEF TypeOK, Run, Server, Start, Hand, Place
<1>7. TokenInHand
  BY <1>3 DEF TokenInHand
<1>8. CacheKept
  BY <1>2 DEF CacheKept
<1>9. StartKept /\ Grounded
  BY <1>3, <1>5 DEF StartKept, Grounded
<1>10. QED
  BY <1>6, <1>7, <1>8, <1>9 DEF IInv

LEMMA StutterIInv == IInv /\ UNCHANGED vars => IInv'
<1> SUFFICES ASSUME IInv, UNCHANGED vars PROVE IInv'
  OBVIOUS
<1>1. UNCHANGED <<outside, cache, start, saved>> /\ run' = run /\ opts' = opts
  BY Zenon DEF vars, outside
<1>2. TypeOK /\ TokenInHand /\ StartKept /\ run \in Run /\ UNCHANGED outside
  BY <1>1, Parts, Zenon DEF IInv
<1>3. Vouched' = Vouched /\ LastEnd' = LastEnd /\ Resolver' = Resolver /\ now' = now
  BY <1>2, OutsideStays, Zenon
<1>4. TokenInHand'
  BY <1>1, <1>2, <1>3 DEF TokenInHand, Usable
<1>5. run' \in Run /\ (run'.pc # "down" => Verify)
  BY <1>1, <1>2, Zenon DEF StartKept
<1>6. QED
  BY <1>1, <1>4, <1>5, MovedKeeps, Zenon

\* The inductive invariant holds in every reachable state, for any configurations,
\* licence files, cache files, keys, lifetimes and clock offsets (agent/license.go,
\* agent/token_cache.go, agentlicense).
THEOREM Invariance == Spec => []IInv
<1>1. Init => IInv
  BY InitIInv
<1>2. IInv /\ [Next]_vars => IInv'
  <2> SUFFICES ASSUME IInv, [Next]_vars PROVE IInv'
    OBVIOUS
  <2>1. CASE Next
    BY <2>1, BootKeeps, ReadCacheKeeps, AskKeeps, AnswerKeeps, FallbackKeeps, SaveKeeps, RenameKeeps, RefreshKeeps,
       EndsKeeps, TickKeeps, RevokeKeeps, ChangeKeyKeeps, Zenon DEF Next
  <2>2. CASE UNCHANGED vars
    BY <2>2, StutterIInv
  <2>3. QED
    BY <2>1, <2>2
<1>3. QED
  BY <1>1, <1>2, PTL DEF Spec

\* An agent that runs has a licence key that fits it, and was started by a token the
\* server issued before the revocation and within that token's life, by a licence file
\* valid at that moment, by a configuration that asks no server, or by a token of its
\* own, signed and not run out, in the cache file the data directory came with
\* (license.go:13-44, token_cache.go:37-68, offline.go:112-122).
THEOREM RevocationEndsStarts == Spec => []RevokedEndsStarts
<1>1. IInv => RevokedEndsStarts
  BY Zenon DEF IInv, StartKept, RevokedEndsStarts
<1>2. QED
  BY <1>1, Invariance, PTL

\* What SaveTokenCache accepted is read as valid until RenewBefore before its end,
\* for every token and whatever the server does later (token_cache.go:37-112).
THEOREM SavedStaysReusable == Spec => []SavedIsReusable
<1>1. IInv => SavedIsReusable
  <2> SUFFICES ASSUME IInv, saved, now + RenewBefore <= cache.token.exp PROVE Valid(cache)
    BY DEF SavedIsReusable
  <2>1. TypeOK /\ CacheKept
    BY Zenon DEF IInv
  <2>2. /\ cache.exists /\ cache.decodes /\ cache.agent = Me /\ cache.kid = cache.token.kid
        /\ cache.expires = cache.token.exp /\ Usable(cache.token)
    BY <2>1, Zenon DEF CacheKept
  <2>3. cache # Absent
    BY <2>2 DEF Absent
  <2>4. cache.token.exp \in Nat /\ cache.token.nbf \in Nat
    BY <2>1, <2>3, Zenon DEF TypeOK, Entry, Token
  <2>5. InTime(cache.token)
    BY <2>1, <2>2, <2>4, Parts DEF Usable, InTime
  <2>6. QED
    <3>1. cache.expires # Garbled /\ expiresAt(cache) = cache.token.exp
      BY <2>2, <2>4 DEF expiresAt, Garbled
    <3>2. QED
      BY <2>2, <2>5, <3>1, Zenon DEF Valid, VerifyToken, VerifyJWT, Usable
<1>2. QED
  BY <1>1, Invariance, PTL

=============================================================================
