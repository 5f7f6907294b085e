------------------------------ MODULE MCCycle -------------------------------
(***************************************************************************)
(* Instances of Cycle for TLC.                                              *)
(***************************************************************************)
EXTENDS Cycle

\* The defaults of the heartpost-agent command, which has no licence.
Plain == [cancelPolicy |-> "ReportCanceled", returnFailure |-> TRUE, dryRun |-> FALSE,
          emptyOnFailure |-> FALSE, refresh |-> FALSE, relaxed |-> FALSE,
          cached |-> FALSE, heartbeat |-> FALSE, timeout |-> TRUE]

\* A licensed agent that refreshes its token and outlives failed cycles.
Licensed == [Plain EXCEPT !.returnFailure = FALSE, !.refresh = TRUE, !.cached = TRUE, !.heartbeat = TRUE,
                          !.timeout = FALSE]

\* Both failure policies under every cancel policy, without and with a refresh (with a
\* fallback when failures are returned); a dry run; an encoder whose failure yields an empty object.
MCPolicies ==
    {[Plain EXCEPT !.cancelPolicy = c, !.returnFailure = f,
                   !.refresh = u, !.relaxed = u /\ f, !.heartbeat = u] :
        c \in {"ReportCanceled", "FailCanceled", "DropCanceled"},
        f \in BOOLEAN, u \in BOOLEAN}
    \union {[Plain EXCEPT !.dryRun = TRUE], [Plain EXCEPT !.emptyOnFailure = TRUE]}

\* With a cache file and a fallback.
MCLicensed == {[Licensed EXCEPT !.relaxed = TRUE]}

=============================================================================
