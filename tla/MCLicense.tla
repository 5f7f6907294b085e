------------------------------ MODULE MCLicense ------------------------------
(* Values for the constants of License. *)
EXTENDS License

Sound(id, kid, exp) == [form |-> TRUE, kid |-> kid, sub |-> id, nbf |-> 0, exp |-> exp, signed |-> TRUE]

SoundKey == [parts |-> 3, tenant |-> Tenant, agent |-> Me, sig |-> ComputeLicenseSig(Secret, Tenant, Me)]

Default == [secret |-> Secret, key |-> SoundKey, trusted |-> Kids, parses |-> TRUE, endpoint |-> TRUE,
            offline |-> FALSE, relaxed |-> FALSE, cache |-> TRUE, refresh |-> TRUE]

\* With and without a cache and a fallback; keys that are not trusted or not parsed;
\* no endpoint; the key of another agent.
MCOptions ==
    {[Default EXCEPT !.cache = c, !.offline = o, !.relaxed = r] : <<c, o, r>> \in {x \in BOOLEAN \X BOOLEAN \X BOOLEAN : ~(x[2] /\ x[3])}}
    \union {[Default EXCEPT !.trusted = {"k1"}, !.relaxed = TRUE], [Default EXCEPT !.parses = FALSE, !.offline = TRUE],
            [Default EXCEPT !.endpoint = FALSE], [Default EXCEPT !.key.agent = Other, !.key.sig = ComputeLicenseSig(Secret, Tenant, Other)]}

\* A file that ends, one that does not, one of another agent, one from the future.
MCOffline ==
    {[exists |-> TRUE, version |-> 1, iat |-> i, claims |-> Sound(id, "k1", e)] :
        <<id, e, i>> \in {<<Me, 1, 0>>, <<Me, 0, 2>>, <<Other, 0, 0>>}}

\* The entry of another agent, as a copied data directory has it; one of this agent's
\* own from before that names neither kid nor end; a token that does not end in an
\* entry that does, or that names no end either; an end that is no time.
MCLeftovers ==
    {[exists |-> TRUE, decodes |-> d, agent |-> a, kid |-> "k1", expires |-> 2, token |-> Sound(Other, "k1", 2)] :
        <<d, a>> \in {<<TRUE, Other>>, <<TRUE, Me>>, <<FALSE, Me>>}}
    \union {[exists |-> TRUE, decodes |-> TRUE, agent |-> Me, kid |-> k, expires |-> x, token |-> Sound(Me, "k1", e)] :
        <<k, x, e>> \in {<<NoKid, Unset, 3>>, <<"k1", 3, 0>>, <<NoKid, Unset, 0>>, <<"k1", Garbled, 3>>}}

=============================================================================
