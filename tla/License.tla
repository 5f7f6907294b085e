------------------------------- MODULE License -------------------------------
(***************************************************************************)
(* How an agent comes to run under a licence: the licence key checked on    *)
(* the spot, the cached token, the licence server (heartpost's monitor      *)
(* side), the offline file (agentlicense, agent/license.go and              *)
(* agent/token_cache.go).  The server may revoke the licence and change its *)
(* signing key; its clock is ahead of the agent's.  What several goroutines *)
(* do to the token at once is in Cycle.                                     *)
(***************************************************************************)
EXTENDS Integers

CONSTANTS
    Me, Other,     \* agent ids; Me is Identity.ID
    Tenant,        \* the tenant Me belongs to
    Kids,          \* names of signing keys
    Secret, NoSecret, \* VendorSecret: as the issuer has it, or unset
    Options,       \* the configurations of the agent
    Offline,       \* what OfflineFile may hold
    Leftovers,     \* what CachePath may hold at first
    Lifetimes,     \* how long the server's tokens live; 0: for ever
    Ahead,         \* how far the server's clock may be ahead
    RenewBefore,   \* tokenRenewBefore
    maxFutureSkew, \* VerifyOfflineLicense
    MaxTime        \* bound: the agent's clock

Ids == {Me, Other}
Never == MaxTime + 1

\* A kid or expires_at the cached entry leaves empty, and one that is no time.
NoKid == ""
Unset == -1
Garbled == -2

Token == [form : BOOLEAN, kid : Kids, sub : Ids, nbf : Nat, exp : Nat, signed : BOOLEAN]
Key == [parts : Nat, tenant : {Tenant, Other}, agent : Ids, sig : {Secret, NoSecret} \X {Tenant, Other} \X Ids]
File == [exists : BOOLEAN, version : Nat, iat : Nat, claims : Token]
\* CachePath. decodes: LoadTokenCache could read it and its token is not empty.
Entry == [exists : BOOLEAN, decodes : BOOLEAN, agent : Ids, kid : Kids \union {NoKid},
          expires : Nat \union {Unset, Garbled}, token : Token]
Config == [secret : {Secret, NoSecret}, key : Key, trusted : SUBSET Kids, parses : BOOLEAN,
           endpoint : BOOLEAN, offline : BOOLEAN, relaxed : BOOLEAN, cache : BOOLEAN, refresh : BOOLEAN]

ASSUME LicenseAssumption ==
    /\ Me # Other /\ Secret # NoSecret /\ Tenant # Other
    /\ {RenewBefore, maxFutureSkew, MaxTime} \subseteq Nat
    /\ Lifetimes \subseteq Nat /\ Ahead \subseteq Nat
    /\ Options \subseteq Config /\ Offline \subseteq File /\ Leftovers \subseteq Entry

VARIABLES
    opts,    \* LicenseOptions and Config of the verifier
    file,    \* OfflineFile
    now,     \* the agent's clock
    server,  \* the licence server: ahead, lifetime, kid in use, revokedAt
    left,    \* what CachePath held before the agent's first start
    cache,   \* CachePath
    run,     \* resolveToken: its place, whether forced, the token in hand and when it was asked for
    start,   \* how the running process was started: on which ground, established when
    saved    \* SaveTokenCache wrote what CachePath holds

vars == <<opts, file, now, server, left, cache, run, start, saved>>
outside == <<opts, file, now, server, left>>

Holds(t) == [held |-> TRUE, token |-> t]
\* The empty token string.
Nothing == [held |-> FALSE]
Absent == [exists |-> FALSE]
NotStarted == [ground |-> "none", at |-> 0]

Init ==
    /\ opts \in Options
    /\ file \in Offline
    /\ now = 0
    /\ server \in [ahead : Ahead, lifetime : Lifetimes, kid : Kids, revokedAt : {Never}, jwt : BOOLEAN]
    /\ left \in Leftovers \union {Absent}
    /\ cache = left
    /\ run = [pc |-> "down", force |-> FALSE, token |-> Nothing, asked |-> 0]
    /\ start = NotStarted
    /\ saved = FALSE

(***************************************************************************)
(* Keys, tokens and files                                                  *)
(***************************************************************************)

ComputeLicenseSig(secret, tenant, agent) == <<secret, tenant, agent>>

\* The licence key, on the spot. Only the ids of a tenant begin with its name.
Verify ==
    LET k == opts.key
    IN  /\ opts.secret # NoSecret
        /\ k.parts = 3
        /\ k.tenant = Tenant
        /\ k.agent = Me
        /\ k.sig = ComputeLicenseSig(opts.secret, k.tenant, Me)

\* No entry of the list of public keys counts when one cannot be parsed.
Resolver == IF opts.parses THEN opts.trusted ELSE {}

MutInTime(t) == t.nbf > 0 => now >= t.nbf

InTime(t) == /\ t.nbf > 0 => now >= t.nbf
             /\ t.exp > 0 => now <= t.exp

VerifyJWT(t) == t.form /\ t.kid \in Resolver /\ t.signed /\ InTime(t)

VerifyToken(t) == VerifyJWT(t) /\ t.sub = Me

VerifyOfflineFile == file.version = 1 /\ file.claims.kid \in Resolver /\ file.claims.signed /\ InTime(file.claims)

VerifyOfflineLicense ==
    /\ file.exists
    /\ VerifyOfflineFile
    /\ file.claims.sub = Me
    /\ file.iat <= now + maxFutureSkew

\* An entry that names no end has its token's; exp 0 is 1970.
expiresAt(c) == IF c.expires = Unset THEN c.token.exp ELSE c.expires

MutValid(c) ==
    /\ c.exists /\ c.decodes
    /\ c.agent = Me
    /\ VerifyToken(c.token) /\ c.kid \in {NoKid, c.token.kid}
    /\ c.expires # Garbled
    /\ expiresAt(c) > 0 => now + RenewBefore <= expiresAt(c)

Valid(c) ==
    /\ c.exists /\ c.decodes
    /\ c.agent = Me
    /\ VerifyToken(c.token) /\ c.kid \in {NoKid, c.token.kid}
    /\ c.expires # Garbled
    /\ now + RenewBefore <= expiresAt(c)

(***************************************************************************)
(* verify and resolveToken                                                 *)
(***************************************************************************)

Go(pc) == run' = [run EXCEPT !.pc = pc]

\* An error ends the process at its start, and only the cycle after a 401.
Failed == run' = [run EXCEPT !.pc = IF run.force THEN "running" ELSE "down", !.token = Nothing, !.asked = 0]

\* resolveToken returns a token, or none, without an error.
Resolved(ground, at) ==
    /\ run' = [run EXCEPT !.pc = "running", !.token = Nothing, !.asked = 0]
    /\ start' = IF run.force THEN start ELSE [ground |-> ground, at |-> at]

Boot ==
    /\ run.pc = "down"
    /\ Verify
    /\ run' = [pc |-> "cache", force |-> FALSE, token |-> Nothing, asked |-> 0]
    /\ UNCHANGED <<outside, cache, start, saved>>

ReadCache ==
    /\ run.pc = "cache"
    /\ IF opts.cache /\ Valid(cache)
         THEN Resolved("cache", now)
         ELSE Go("ask") /\ UNCHANGED start
    /\ UNCHANGED <<outside, cache, saved>>

ServerTokens ==
    LET t == now + server.ahead
    IN  {[form |-> server.jwt, kid |-> server.kid, sub |-> Me, nbf |-> n,
          exp |-> IF server.lifetime = 0 THEN 0 ELSE t + server.lifetime, signed |-> TRUE] : n \in {0, t}}

\* VerifyWithMonitor: without an endpoint there is no token and no error.
Ask ==
    /\ run.pc = "ask"
    /\ IF ~opts.endpoint THEN Go("save")
       ELSE \/ /\ server.revokedAt = Never
               /\ \E t \in ServerTokens : run' = [run EXCEPT !.pc = "answer", !.token = Holds(t), !.asked = now]
            \/ Go("fallback")
    /\ UNCHANGED <<outside, cache, start, saved>>

\* The answer arrives, or VerifyTimeout strikes first.
Answer ==
    /\ run.pc = "answer"
    /\ \/ Go("save")
       \/ run' = [run EXCEPT !.pc = "fallback", !.token = Nothing, !.asked = 0]
    /\ UNCHANGED <<outside, cache, start, saved>>

\* Refused or not reached. ClearTokenCache may fail.
Fallback ==
    /\ run.pc = "fallback"
    /\ IF IF opts.offline THEN VerifyOfflineLicense ELSE opts.relaxed
         THEN /\ Resolved(IF opts.offline THEN "offline" ELSE "relaxed", now)
              /\ \/ opts.cache /\ cache' = Absent /\ saved' = FALSE
                 \/ UNCHANGED <<cache, saved>>
         ELSE Failed /\ UNCHANGED <<cache, saved, start>>
    /\ UNCHANGED outside

MutEntry(t) == [exists |-> TRUE, decodes |-> TRUE, agent |-> Me, kid |-> server.kid, expires |-> t.exp, token |-> t]

CacheEntry(t) == [exists |-> TRUE, decodes |-> TRUE, agent |-> Me, kid |-> t.kid, expires |-> t.exp, token |-> t]

\* SaveTokenCache up to the rename; a token that does not verify here is an error.
Save ==
    /\ run.pc = "save"
    /\ IF ~run.token.held \/ ~opts.cache
         THEN Resolved(IF opts.endpoint THEN "server" ELSE "relaxed", run.asked)
         ELSE /\ \/ VerifyToken(run.token.token) /\ Go("rename")
                 \/ Failed
              /\ UNCHANGED start
    /\ UNCHANGED <<outside, cache, saved>>

Rename ==
    /\ run.pc = "rename"
    /\ \/ cache' = CacheEntry(run.token.token) /\ saved' = TRUE /\ Resolved("server", run.asked)
       \/ Failed /\ UNCHANGED <<cache, saved, start>>
    /\ UNCHANGED outside

\* The primary target answered 401: the cache is cleared and the server asked again.
Refresh ==
    /\ run.pc = "running"
    /\ opts.refresh
    /\ run' = [pc |-> "ask", force |-> TRUE, token |-> Nothing, asked |-> 0]
    /\ \/ opts.cache /\ cache' = Absent /\ saved' = FALSE
       \/ UNCHANGED <<cache, saved>>
    /\ UNCHANGED <<outside, start>>

(***************************************************************************)
(* Around the agent                                                        *)
(***************************************************************************)

Ends ==
    /\ run.pc # "down"
    /\ run' = [pc |-> "down", force |-> FALSE, token |-> Nothing, asked |-> 0]
    /\ start' = NotStarted
    /\ UNCHANGED <<outside, cache, saved>>

Tick ==
    /\ now < MaxTime
    /\ now' = now + 1
    /\ UNCHANGED <<opts, file, server, left, cache, run, start, saved>>

Revoke ==
    /\ server.revokedAt = Never
    /\ server' = [server EXCEPT !.revokedAt = now]
    /\ UNCHANGED <<opts, file, now, left, cache, run, start, saved>>

ChangeKey ==
    /\ \E k \in Kids \ {server.kid} : server' = [server EXCEPT !.kid = k]
    /\ UNCHANGED <<opts, file, now, left, cache, run, start, saved>>

Next ==
    \/ Boot \/ ReadCache \/ Ask \/ Answer \/ Fallback \/ Save \/ Rename \/ Refresh \/ Ends
    \/ Tick \/ Revoke \/ ChangeKey

Spec == Init /\ [][Next]_vars

(***************************************************************************)
(* Properties                                                              *)
(***************************************************************************)

TypeOK ==
    /\ opts \in Config
    /\ file \in File
    /\ now \in 0 .. MaxTime
    /\ server \in [ahead : Ahead, lifetime : Lifetimes, kid : Kids, revokedAt : 0 .. Never, jwt : BOOLEAN]
    /\ left \in Entry \union {Absent}
    /\ cache \in Entry \union {Absent}
    /\ run \in [pc : {"down", "cache", "ask", "answer", "save", "rename", "fallback", "running"}, force : BOOLEAN,
                token : [held : {TRUE}, token : Token] \union {Nothing}, asked : 0 .. MaxTime]
    /\ start \in [ground : {"none", "cache", "server", "offline", "relaxed"}, at : 0 .. MaxTime]
    /\ saved \in BOOLEAN

\* The entry CachePath first held is this agent's: a vendor's token for it that had
\* not run out at time t, by its own exp and by the entry's end.
LeftGrants(t) ==
    /\ left.exists /\ left.token.signed /\ left.token.sub = Me
    /\ left.token.exp > 0 => t <= left.token.exp
    /\ t + RenewBefore <= expiresAt(left)

\* What establishes the ground of a start.
Grounded ==
    /\ start.ground = "cache" => \/ start.at + RenewBefore <= server.revokedAt + server.ahead + server.lifetime
                                 \/ LeftGrants(start.at)
    /\ start.ground = "server" => start.at <= server.revokedAt
    /\ start.ground = "offline" => (file.claims.exp > 0 => start.at <= file.claims.exp)
    /\ start.ground = "relaxed" => opts.relaxed \/ ~opts.endpoint

\* A revoked licence starts no agent any more once its last token has run out, even
\* when that token is in the cache and the server cannot be reached; what starts
\* later has a licence file that is still valid, was configured to start without a
\* server, or found an unexpired token of its own in the cache file the data directory
\* came with (license.go:13-44, token_cache.go:37-68, offline.go:112-122).
RevokedEndsStarts == run.pc = "running" => Verify /\ Grounded

\* What SaveTokenCache has accepted needs no server at the next start: it is read as
\* valid, whatever the server does with its keys, until RenewBefore before its end
\* (token_cache.go:37-112).
SavedIsReusable == saved /\ now + RenewBefore <= cache.token.exp => Valid(cache)

(***************************************************************************)
(* The inductive invariant                                                 *)
(***************************************************************************)

\* The last time at which the server may have vouched for the licence.
Vouched == IF now < server.revokedAt THEN now ELSE server.revokedAt

LastEnd == Vouched + server.ahead + server.lifetime

Usable(t) == t.form /\ t.signed /\ t.kid \in Resolver /\ t.sub = Me /\ t.nbf <= now

\* A token in hand is the server's, and one on its way to the cache verified.
TokenInHand ==
    /\ run.token.held => run.asked <= Vouched /\ run.token.token.exp <= LastEnd
    /\ run.pc = "rename" => run.token.held /\ Usable(run.token.token)
    /\ run.pc = "save" => (run.token.held <=> opts.endpoint)
    /\ run.pc = "answer" => run.token.held /\ opts.endpoint
    /\ run.pc \in {"cache", "running"} => ~run.token.held
    /\ run.pc \in {"ask", "fallback"} => ~run.token.held

CacheKept ==
    /\ saved => /\ cache.exists /\ cache.decodes /\ cache.agent = Me
                /\ cache.kid = cache.token.kid /\ cache.expires = cache.token.exp
                /\ cache.expires <= LastEnd /\ Usable(cache.token)
    /\ ~saved => cache \in {left, Absent}

StartKept ==
    /\ start.ground = "cache" => start.at + RenewBefore <= LastEnd \/ LeftGrants(start.at)
    /\ start.ground = "server" => start.at <= Vouched
    /\ run.pc # "down" => Verify

\* The inductive invariant of the proofs.
IInv == TypeOK /\ TokenInHand /\ CacheKept /\ StartKept /\ Grounded

=============================================================================
