---------------------------- MODULE AlertChannel ----------------------------
(***************************************************************************)
(* What the monitor promises the operator, per agent: the alerts confirmed  *)
(* by the webhook alternate between "down" and "up", beginning with "down". *)
(* A restart may leave the monitor in doubt about the last alert; only then *)
(* may the next one repeat it.                                             *)
(***************************************************************************)
CONSTANT Agents

VARIABLES
    told,      \* per agent: the last confirmed alert, "none" before the first
    bell,      \* per agent: flips with every alert, so that a repeat is a step
    doubtful   \* per agent: the monitor may have forgotten that alert

Init ==
    /\ told = [a \in Agents |-> "none"]
    /\ bell = [a \in Agents |-> FALSE]
    /\ doubtful = [a \in Agents |-> FALSE]

AnnounceDown(a) ==
    /\ told[a] # "down" \/ doubtful[a]
    /\ told' = [told EXCEPT ![a] = "down"]
    /\ bell' = [bell EXCEPT ![a] = ~@]
    /\ doubtful' = [doubtful EXCEPT ![a] = FALSE]

AnnounceUp(a) ==
    /\ told[a] = "down" \/ (told[a] = "up" /\ doubtful[a])
    /\ told' = [told EXCEPT ![a] = "up"]
    /\ bell' = [bell EXCEPT ![a] = ~@]
    /\ doubtful' = [doubtful EXCEPT ![a] = FALSE]

\* A restart changes no alert; nobody is in doubt about an alert never given.
Restart ==
    /\ doubtful' \in [Agents -> BOOLEAN]
    /\ \A a \in Agents : doubtful'[a] => told[a] # "none"
    /\ UNCHANGED <<told, bell>>

Next ==
    \/ \E a \in Agents : AnnounceDown(a) \/ AnnounceUp(a)
    \/ Restart

Spec == Init /\ [][Next]_<<told, bell, doubtful>>

=============================================================================
