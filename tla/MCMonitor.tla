----------------------------- MODULE MCMonitor -----------------------------
(***************************************************************************)
(* Instances of Monitor for TLC.  The thresholds, the retention and the     *)
(* keys are what Load makes of MCFile.                                      *)
(***************************************************************************)
EXTENDS Dashboard, MonitorConfig, TLC

\* Agent 1 has a threshold of its own, agent 2 the default.
MCFile ==
    [known |-> TRUE, timezone |-> Unset, skew |-> Unset, check |-> 1, timeout |-> Unset,
     interval |-> Unset, threshold |-> 2, keys |-> [a \in Agents |-> 7],
     agents |-> [a \in {1} |-> 1], user |-> Unset, password |-> Unset, webhook |-> 8,
     disabled |-> FALSE, retention |-> 1]

MCConfig == Load(MCFile)

MCPerAgent == MCConfig.perAgent
MCDefaultThreshold == MCConfig.default
MCRetentionDays == MCConfig.retention

\* The configuration always lists every agent.
MCAllConfigured == {MCConfig.keys}

\* A restart may find a file with an agent in the place of agent 1 that is not one of
\* the model's.
MCOther == [MCFile EXCEPT !.keys = [a \in (Agents \ {1}) \union {99} |-> 7], !.agents = <<>>]

MCConfigChanges == {MCConfig.keys, Load(MCOther).keys \cap Agents}

\* Files with every kind of value in every field, in two parts: durations and ids.
MCRaw == {Unset, Spaces, Garbled, -1, 0, 1, 2, 7, 8}

MCFiles ==
    {[MCFile EXCEPT !.skew = s, !.check = c, !.interval = i, !.threshold = t, !.agents = (1 :> d)] :
        s \in {Spaces, 0, 1}, c \in {Unset, -1, 2}, i \in MCRaw, t \in MCRaw, d \in MCRaw}
    \union
    {[MCFile EXCEPT !.keys = k, !.agents = a, !.user = u, !.password = p, !.webhook = w, !.disabled = b] :
        k \in {<<>>, 1 :> Spaces, 1 :> 7, (1 :> 7) @@ (0 :> 7), (1 :> 7) @@ (2 :> 7)},
        a \in {<<>>, 1 :> Unset, 1 :> Spaces, 2 :> 1}, u \in {Unset, 1}, p \in {Unset, 1},
        w \in {Unset, Spaces, 8}, b \in BOOLEAN}

\* Both accepted files and rejected ones are among them, and none is unsound.
ASSUME MCLoad ==
    /\ \A f \in MCFiles : LoadIsSound(f)
    /\ {Load(f).accepted : f \in MCFiles} = BOOLEAN

\* Handlers are interchangeable.
MCHandlerSymmetry == Permutations(Handlers)

=============================================================================
