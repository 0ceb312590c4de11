------------------------- MODULE ReplaceableRegister -------------------------
(***************************************************************************)
(* What the relay promises for replaceable events: each address (author,   *)
(* kind and d tag) is a register holding at most one version.  A version   *)
(* can only be replaced by a newer one, and can only be retracted, never   *)
(* brought back.                                                           *)
(***************************************************************************)
EXTENDS Naturals

CONSTANTS
    Ids,         \* versions
    Addresses,   \* registers
    AddressOf(_),   \* the register a version belongs to
    CreatedAt(_)    \* the time a version claims

VARIABLE reg \* reg[a]: the set, empty or a singleton, of a's versions

Version == [id: Ids, live: BOOLEAN]

Init == reg = [a \in Addresses |-> {}]

(* Publishing a version writes it if every version there is older. *)
Publish(id) ==
    /\ AddressOf(id) \in Addresses
    /\ \A v \in reg[AddressOf(id)] : CreatedAt(v.id) < CreatedAt(id)
    /\ reg' = [reg EXCEPT ![AddressOf(id)] = {[id |-> id, live |-> TRUE]}]

(* Retracting keeps the version as a tombstone, which still fends off      *)
(* older ones; one request may retract several registers.                  *)
Tombstones(versions) == {[v EXCEPT !.live = FALSE] : v \in versions}

Retract ==
    /\ reg' = [a \in Addresses |-> reg'[a]]
    /\ \A a \in Addresses : reg'[a] \in {reg[a], Tombstones(reg[a])}

Next ==
    \/ \E id \in Ids : Publish(id)
    \/ Retract

Spec == Init /\ [][Next]_reg
=============================================================================
