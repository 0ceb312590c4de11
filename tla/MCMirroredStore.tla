--------------------------- MODULE MCMirroredStore ---------------------------
(* One client handler and a mirror that receives the same events. *)
EXTENDS MirroredStore

MCEvent ==
    [p1 |-> [pubkey |-> "alice", kind |-> 34578, created_at |-> 1, dtag |-> "x", targets |-> {}],
     p2 |-> [pubkey |-> "alice", kind |-> 34578, created_at |-> 2, dtag |-> "x", targets |-> {}],
     r1 |-> [pubkey |-> "alice", kind |-> 0, created_at |-> 1, dtag |-> "none", targets |-> {}],
     n1 |-> [pubkey |-> "alice", kind |-> 1, created_at |-> 1, dtag |-> "none", targets |-> {}],
     e1 |-> [pubkey |-> "alice", kind |-> 20000, created_at |-> 1, dtag |-> "none", targets |-> {}],
     d1 |-> [pubkey |-> "alice", kind |-> 5, created_at |-> 2, dtag |-> "none", targets |-> {"p1", "n1"}]]

MCIds == DOMAIN MCEvent
MCPubkeys == {"alice"}
MCDTags == {"x", "none"}
=============================================================================
