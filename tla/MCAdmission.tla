---------------------------- MODULE MCAdmission ----------------------------
(* Three peers of which the table has room for two; one can exceed its     *)
(* share, and any two the ceiling and the relay budget.                    *)
EXTENDS Admission

CONSTANTS p1, p2, p3

MCPeers == {p1, p2, p3}

MCTickets ==
    [peer : MCPeers, kind : WorkKind, id : {1}]
        \cup [peer : {p1}, kind : WorkKind, id : {2}]
=============================================================================
