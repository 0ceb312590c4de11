------------------------------- MODULE MCPubSub -------------------------------
(* Two workers; a publisher on one, a subscriber on the other.  Two notes, *)
(* of which a query returns one: the newer with the filter "all", which    *)
(* has a limit, and the older with "tagged", since it has two of the tags. *)
EXTENDS PubSub, TLC

CONSTANTS w1, w2, alice, bob, note, reply, flash

MCHome == [c \in Clients |-> IF c = alice THEN w1 ELSE w2]
MCMatch == [all |-> Events, tagged |-> Events \ Ephemeral]
MCFilters == DOMAIN MCMatch
MCCopies == [f \in Filters |-> [e \in Events |-> IF f = "tagged" /\ e = note THEN 2 ELSE 1]]
MCCreatedAt == [e \in Events |-> IF e = note THEN 1 ELSE 2]
MCLimits == [all |-> 1]
=============================================================================
