----------------------------- MODULE MCReceipts -----------------------------
(* Values for the constants of Receipts. *)
EXTENDS Receipts

MCShapes == {[operation |-> "fetch_file", method |-> "GET", status |-> 404],
             [operation |-> "preview_file", method |-> Long, status |-> 200],
             [operation |-> "", method |-> "GET", status |-> 200]}

Plain(type, uid) == [type |-> type, uid |-> uid, writable |-> FALSE, sticky |-> FALSE]
Sticky(uid) == [Plain("dir", uid) EXCEPT !.writable = TRUE, !.sticky = TRUE]
Open(e) == [e EXCEPT !.writable = TRUE]

PathOf(above, parent, file) == [clean |-> TRUE, above |-> {Plain("dir", 0), above}, parent |-> parent, file |-> file]

\* A user's own directory, one another user shares, one that anybody may write.
MCLayouts == {PathOf(Sticky(0), Plain("dir", 1), Plain("file", 1)),
              PathOf(Plain("dir", 1), Plain("dir", 7), Plain("file", 1)),
              PathOf(Plain("dir", 0), Open(Plain("dir", 1)), Plain("file", 1))}

MCOwners == {{}, {"shared"}, {"shared", "no such user"}}

MCUsers == [shared |-> 7]

=============================================================================
