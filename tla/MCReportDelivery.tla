-------------------------- MODULE MCReportDelivery --------------------------
(***************************************************************************)
(* Instances of ReportDelivery for TLC.                                     *)
(***************************************************************************)
EXTENDS ReportDelivery, TLC

MCIds == {"web", "db"}
MCKeys == ("web" :> "k1")
MCAddr == 1 .. 3      \* 1 is the loopback, 2 and 3 are other hosts

\* An agent as it should be, on host 2.
Sound == [method |-> "POST", id |-> "web", claims |-> "web", key |-> "k1", signs |-> TRUE,
          drift |-> 0, size |-> 1, peer |-> 2, hops |-> <<>>, stop |-> TRUE]

\* What may be wrong with a client, one thing at a time. Half is 32: from -32 the
\* difference of the times wraps, and at a distance of 32 its negation too.
Odd ==
    {[Sound EXCEPT !.drift = d] : d \in {-32, -30, -3, -1, 1, 3, 28}} \union
    {[Sound EXCEPT !.method = "GET"], [Sound EXCEPT !.id = ""], [Sound EXCEPT !.id = "a/b"],
     [Sound EXCEPT !.id = "db", !.claims = "db"], [Sound EXCEPT !.key = "k2"],
     [Sound EXCEPT !.claims = " web "], [Sound EXCEPT !.claims = "garbled"],
     [Sound EXCEPT !.signs = FALSE], [Sound EXCEPT !.size = 2],
     [Sound EXCEPT !.stop = FALSE], [Sound EXCEPT !.peer = 3], [Sound EXCEPT !.peer = 3, !.hops = <<2>>],
     [Sound EXCEPT !.peer = 1, !.hops = <<3, 2>>], [Sound EXCEPT !.peer = 1, !.hops = <<2, 3>>],
     [Sound EXCEPT !.peer = 1, !.hops = <<NoAddr>>]}

MCClients == [Senders -> Odd \union {Sound}]

\* No list, a blank one, one that admits host 2, one with an entry nobody can read.
MCAllowLists == {{}, {Blank}, {{2}, Blank}, {{2}, Unparsable}, {Unparsable}}

=============================================================================
