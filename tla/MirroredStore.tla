---------------------------- MODULE MirroredStore ----------------------------
(***************************************************************************)
(* The events table when static mirroring is configured: a worker of its   *)
(* own holds a subscription at another relay and writes what it receives   *)
(* to the same table as the client handlers.  Every event goes through     *)
(* create, whatever its kind.                                              *)
(***************************************************************************)
EXTENDS EventStore

CONSTANT
    Upstream \* the events of the mirrored relay that match the filters

ASSUME MirroredStoreAssumption == Upstream \subseteq Ids

(* Mutants: a mirror that overwrites what it already has, and one that     *)
(* merges into the row that holds the address without comparing versions.  *)
OverwritingTable(id) == CreatedTable(id)

MergingTable(id) == UpsertedTable(id)

(* create(): ON CONFLICT DO NOTHING, and a null deduplication key.         *)
MirroredTable(id) == IF Present(id) THEN table ELSE CreatedTable(id)

(* One EVENT message of the mirror's subscription.  Validation and         *)
(* admission are awaited before the only statement, and nothing is kept    *)
(* between them, so the handler is one step; it answers nobody.            *)
MirrorMessage(id) ==
    /\ id \in Upstream
    /\ table' = MirroredTable(id)
    /\ UNCHANGED <<ops, acked, retired, doomed>>

MirroredNext ==
    \/ Next
    \/ \E id \in Upstream : MirrorMessage(id)

MirroredSpec == Init /\ [][MirroredNext]_vars

-----------------------------------------------------------------------------
(* An event that no version can replace stays deleted, whoever sends it    *)
(* again: the row keeps deleted_at, and create leaves the row alone.       *)
PlainStaysDeleted == \A id \in retired : ~Upserted(id) => ~Live(id)
=============================================================================
