--------------------------- MODULE MCNextcloudTail ---------------------------
(* Values for the constants of NextcloudTail. *)
EXTENDS NextcloudTail

\* Two small events fill a report, as does one large one; one is too large.
MCSizes == [app |-> {1}, audit |-> {2, 3}]

=============================================================================
