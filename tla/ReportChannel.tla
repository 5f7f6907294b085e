--------------------------- MODULE ReportChannel ---------------------------
(***************************************************************************)
(* What reporting promises its caller, per report: a copy is on the         *)
(* monitor's disk when the caller is told "delivered".  Every attempt       *)
(* leaves at most one copy; copies may still arrive after the caller was    *)
(* told either way.                                                        *)
(***************************************************************************)
EXTENDS Naturals

CONSTANTS Reports, Attempt

VARIABLES
    copies,  \* per report and attempt: the lines on the monitor's disk
    told     \* per report: what its caller knows

Init ==
    /\ copies = [r \in Reports |-> [n \in Attempt |-> 0]]
    /\ told = [r \in Reports |-> "pending"]

Keep(r, n) ==
    /\ copies[r][n] = 0
    /\ copies' = [copies EXCEPT ![r][n] = 1]
    /\ UNCHANGED told

Confirm(r) ==
    /\ told[r] = "pending"
    /\ \E n \in Attempt : copies[r][n] > 0
    /\ told' = [told EXCEPT ![r] = "delivered"]
    /\ UNCHANGED copies

GiveUp(r) ==
    /\ told[r] = "pending"
    /\ told' = [told EXCEPT ![r] = "failed"]
    /\ UNCHANGED copies

Next == \E r \in Reports : Confirm(r) \/ GiveUp(r) \/ \E n \in Attempt : Keep(r, n)

Spec == Init /\ [][Next]_<<copies, told>>

=============================================================================
