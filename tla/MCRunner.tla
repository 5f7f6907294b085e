------------------------------ MODULE MCRunner ------------------------------
(***************************************************************************)
(* Instances of Runner for TLC.                                             *)
(***************************************************************************)
EXTENDS Runner, AgentSetup, TLC

\* Options that a program which embeds the package may pass to New.
MCAsked(modes, policies, locks) ==
    {[id |-> "a", mode |-> m, cancelPolicy |-> 0, failurePolicy |-> f, encoding |-> 0,
      tasks |-> <<[name |-> "t", collect |-> TRUE]>>, targets |-> <<[name |-> "monitor", retry |-> 0, timeout |-> 0]>>,
      services |-> [s \in 1 .. NServices |-> "s"], license |-> "heartbeat", verifyTimeout |-> 0,
      unknownInterval |-> 0, timeout |-> 0, lock |-> l, dryRun |-> FALSE] :
        m \in modes, f \in policies, l \in locks}

\* What Run sees of the runners New makes of them.
MCMade(asked) ==
    {[once |-> n.once, lockFile |-> n.lockFile, heartbeat |-> n.heartbeat, returnFailure |-> n.returnFailure] :
        n \in {n \in {New(o) : o \in asked} : n.ok}}

\* Both modes and both failure policies (and two that New refuses), all with every
\* guard and the heartbeat.
MCAllPolicies == MCMade(MCAsked(0 .. 2, 0 .. 2, {"config"}))

\* Interval runs that return the first failure, with and without a lock file.
MCIntervals == MCMade(MCAsked({1}, {0}, {"", "log"}))

\* What may stand in agent.toml, by field.
MCAgentConfigs ==
    [id: {"", "web"}, type: {"", "rental", "vps", "cloud"}, endpoint: {"", "https"}, key: {"", "k"},
     path: {""}, httpTimeout: {-1, 0, 1, 500}, retry: {-1, 0, 3}, timeout: {-1, 0, 1, 500}, logMax: {0},
     log: {"", "file"}, home: {"", "dir"}, secrets: BOOLEAN, mode: {384, 420}, windows: {FALSE}]

\* The command makes a runner of every plausible configuration it accepts, and of some
\* with a number that wraps it does not.
ASSUME MCCommand ==
    /\ \A c \in MCAgentConfigs : CommandIsRunnable(c)
    /\ {New(OptionsFromConfig(LoadConfig(c))).ok : c \in {c \in MCAgentConfigs : LoadConfig(c).ok}} = BOOLEAN

MCPairSymmetry == Permutations(Runners) \union Permutations(Closers)

=============================================================================
