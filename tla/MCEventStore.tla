----------------------------- MODULE MCEventStore -----------------------------
(* A small world for EventStore: two authors, an address with two versions, *)
(* a note of each author, and a deletion naming one of each.                *)
EXTENDS EventStore, TLC

MCEvent ==
    [p1 |-> [pubkey |-> "alice", kind |-> 34578, created_at |-> 1, dtag |-> "x", targets |-> {}],
     p2 |-> [pubkey |-> "alice", kind |-> 34578, created_at |-> 2, dtag |-> "x", targets |-> {}],
     n1 |-> [pubkey |-> "alice", kind |-> 1, created_at |-> 1, dtag |-> "none", targets |-> {}],
     b1 |-> [pubkey |-> "bob", kind |-> 1, created_at |-> 1, dtag |-> "none", targets |-> {}],
     d1 |-> [pubkey |-> "alice", kind |-> 5, created_at |-> 2, dtag |-> "none", targets |-> {"p1", "n1", "b1"}]]

MCIds == DOMAIN MCEvent
MCPubkeys == {"alice", "bob"}
MCDTags == {"x", "none"}
MCSymmetry == Permutations(Handlers)
=============================================================================
