------------------------------ MODULE EventStore ------------------------------
(***************************************************************************)
(* The relay's events table and the handlers that write to it.             *)
(*                                                                         *)
(* Several WebSocket message handlers (one per EVENT message in flight,    *)
(* over all workers of the cluster) run the event strategies against one   *)
(* PostgreSQL table.  One SQL statement is one step; between the           *)
(* statements of a handler, and between its last statement and the OK it   *)
(* sends, the steps of every other handler may happen, and its worker may  *)
(* die.  An event's id is the hash of its content, so the table is a       *)
(* function of the id and the content is a constant.                       *)
(***************************************************************************)
EXTENDS Naturals, FiniteSets

CONSTANTS
    Ids,         \* the ids of the events clients may publish
    Pubkeys,     \* authors
    DTags,       \* values of the "d" tag (everything after the tag's name)
    NoTag,       \* what a missing "d" tag stands for: ['']
    Event,       \* the content of every event, by id
    Handlers,    \* EVENT messages in flight
    Partitioned, \* TRUE once migration 20240120 has partitioned the table
    DbFaults     \* TRUE if a statement may fail

Content == [pubkey: Pubkeys, kind: Nat, created_at: Nat, dtag: DTags,
            targets: SUBSET Ids]

ASSUME EventStoreAssumption ==
    /\ Ids # {}
    /\ Event \in [Ids -> Content]
    /\ NoTag \in DTags
    /\ Partitioned \in BOOLEAN
    /\ DbFaults \in BOOLEAN

VARIABLES
    table,     \* table[id]: the row that holds the event, if there is one
    ops,       \* ops[h]: what handler h is doing
    acked,     \* history: the events answered with OK true and no "duplicate:",
               \* which are also the events broadcast to the subscribers
    retired,   \* history: the events some statement has soft-deleted
    doomed     \* history: the events an acknowledged deletion must have removed

vars == <<table, ops, acked, retired, doomed>>

-----------------------------------------------------------------------------
(* Kinds: which strategy handles an event, and which rows the partial      *)
(* unique index replaceable_events_idx covers.                             *)

IsReplaceable(k) == k \in {0, 3, 41} \/ k \in 10000..19999

IsEphemeral(k) == k \in 20000..29999

IsDelete(k) == k = 5

IsParameterized(k) == k \in 30000..39999

Indexed(k) ==
    \/ k = 0 \/ k = 3 \/ k = 41
    \/ k >= 10000 /\ k < 20000
    \/ k >= 30000 /\ k < 40000

Strategy(id) ==
    LET k == Event[id].kind IN
    IF IsReplaceable(k) THEN "replaceable"
    ELSE IF IsEphemeral(k) THEN "ephemeral"
    ELSE IF IsDelete(k) THEN "delete"
    ELSE IF IsParameterized(k) THEN "parameterized"
    ELSE "default"

Upserted(id) == Strategy(id) \in {"replaceable", "parameterized"}

(* The columns (event_pubkey, event_kind, event_deduplication) of the row  *)
(* upsert writes: the d tag for a parameterized replaceable event, a       *)
(* constant of pubkey and kind for the others.                             *)
Address(id) ==
    <<Event[id].pubkey, Event[id].kind,
      IF Strategy(id) = "parameterized" THEN Event[id].dtag ELSE NoTag>>

-----------------------------------------------------------------------------
(* The table.  A row is keyed when event_deduplication is not null: only   *)
(* such rows can conflict on the partial index, nulls being distinct.      *)

Row == [state: {"absent", "live", "deleted"}, keyed: BOOLEAN]

NoRow == [state |-> "absent", keyed |-> FALSE]

LiveRow(k) == [state |-> "live", keyed |-> k]

Present(id) == table[id].state # "absent"

Live(id) == table[id].state = "live"

(* Mutant: an upsert whose ON CONFLICT clause matches no row. *)
NoConflict(id) == {}

(* The rows that conflict with id on replaceable_events_idx. *)
Conflicting(id) ==
    {o \in Ids : /\ Present(o) /\ table[o].keyed
                 /\ Indexed(Event[o].kind)
                 /\ Address(o) = Address(id)}

(* Mutants: the upsert's WHERE clause dropped, and with <= for <. *)
AnyVersion(id, o) == TRUE

NotOlder(id, o) == Event[o].created_at <= Event[id].created_at

Newer(id, o) == Event[o].created_at < Event[id].created_at

(* ON CONFLICT (...) DO UPDATE needs a unique index on the table it names. *)
(* The partitioned parent has none: only its partition events_hot does.    *)
NoArbiter == Partitioned

(* A row other than the one in conflict already holds this event_id.       *)
IdTaken(id) == Present(id) /\ id \notin Conflicting(id)

(* What the upsert of id does to a table it may write to: nothing when the *)
(* row that holds the address is not older, a unique violation when the    *)
(* event is already there under another row, else it writes.               *)
UpsertOutcome(id) ==
    IF NoArbiter THEN "raises"
    ELSE IF \E o \in Conflicting(id) : ~Newer(id, o) THEN "skipped"
    ELSE IF IdTaken(id) THEN "violates"
    ELSE "written"

(* Mutant: deleted_at left out of the merged columns. *)
TombstonedTable(id) ==
    [o \in Ids |-> IF o = id
                   THEN [state |-> IF \E c \in Conflicting(id) : ~Live(c)
                                   THEN "deleted" ELSE "live",
                         keyed |-> TRUE]
                   ELSE IF o \in Conflicting(id) THEN NoRow
                   ELSE table[o]]

(* The statement merges every column of the new row, deleted_at included,  *)
(* into the row in conflict: that row is then the new event's.             *)
UpsertedTable(id) ==
    [o \in Ids |-> IF o = id THEN LiveRow(TRUE)
                   ELSE IF o \in Conflicting(id) THEN NoRow
                   ELSE table[o]]

CreatedTable(id) == [table EXCEPT ![id] = LiveRow(FALSE)]

(* Mutants: a deletion without the condition on the pubkey, and one that   *)
(* only reaches rows with a deduplication key.                             *)
AnyoneDeletes(id) == {t \in Event[id].targets : Live(t)}

KeyedDeletes(id) ==
    {t \in Event[id].targets : /\ Event[t].pubkey = Event[id].pubkey
                               /\ Live(t) /\ table[t].keyed}

(* The rows a deletion may touch: those it names by a valid e tag, of its  *)
(* own author, not deleted yet.                                            *)
Deletable(id) ==
    {t \in Event[id].targets : /\ Event[t].pubkey = Event[id].pubkey
                               /\ Live(t)}

(* Mutant: deletion marks the row with a value no reader knows.            *)
PurgedTable(id) ==
    [o \in Ids |-> IF o \in Deletable(id)
                   THEN [table[o] EXCEPT !.state = "purged"]
                   ELSE table[o]]

DeletedTable(id) ==
    [o \in Ids |-> IF o \in Deletable(id)
                   THEN [table[o] EXCEPT !.state = "deleted"]
                   ELSE table[o]]

-----------------------------------------------------------------------------
(* The handlers. *)

Results == {"none", "ok", "duplicate", "rejected", "error"}

Op == [pc: {"idle", "delete", "store", "reply"}, id: Ids, result: Results,
       known: SUBSET Ids]

IdleOp == [pc |-> "idle", id |-> CHOOSE i \in Ids : TRUE, result |-> "none",
           known |-> {}]

At(h, pc) == ops[h].pc = pc

Idle(h) == At(h, "idle")

Goto(h, pc, result) ==
    ops' = [ops EXCEPT ![h].pc = pc, ![h].result = result]

Init ==
    /\ table = [id \in Ids |-> NoRow]
    /\ ops = [h \in Handlers |-> IdleOp]
    /\ acked = {}
    /\ retired = {}
    /\ doomed = {}

(* The event has passed validation, the rate limits and admission, and the *)
(* factory has picked a strategy.  Clients may publish any event at any    *)
(* time, and again.  For a deletion, "known" records which of the author's *)
(* events it names were acknowledged before it was received.               *)
KnownTargets(id) ==
    {t \in Event[id].targets \cap acked :
        Event[t].pubkey = Event[id].pubkey /\ Strategy(t) # "ephemeral"}

Accept(h, id) ==
    /\ Idle(h)
    /\ ops' = [ops EXCEPT ![h] =
                 [pc |-> IF Strategy(id) = "delete" /\ Event[id].targets # {}
                         THEN "delete"
                         ELSE IF Strategy(id) = "ephemeral" THEN "reply"
                         ELSE "store",
                  id |-> id,
                  result |-> IF Strategy(id) = "ephemeral" THEN "ok" ELSE "none",
                  known |-> IF Strategy(id) = "delete" THEN KnownTargets(id) ELSE {}]]
    /\ UNCHANGED <<table, acked, retired, doomed>>

(* DeleteEventStrategy: the first of its two statements. *)
SoftDelete(h) ==
    /\ At(h, "delete")
    /\ table' = DeletedTable(ops[h].id)
    /\ retired' = retired \cup Deletable(ops[h].id)
    /\ Goto(h, "store", "none")
    /\ UNCHANGED <<acked, doomed>>

(* create(): INSERT ... ON CONFLICT DO NOTHING. *)
Create(h) ==
    LET id == ops[h].id IN
    /\ At(h, "store")
    /\ ~Upserted(id)
    /\ IF Present(id)
       THEN /\ Goto(h, "reply", "duplicate")
            /\ UNCHANGED table
       ELSE /\ Goto(h, "reply", "ok")
            /\ table' = CreatedTable(id)
    /\ UNCHANGED <<acked, retired, doomed>>

(* upsert(), and what the two strategies make of the errors it raises: the *)
(* replaceable one tells a unique violation apart, the parameterized one   *)
(* leaves every error to the message handler.                              *)
Upsert(h) ==
    LET id == ops[h].id
        outcome == UpsertOutcome(id)
    IN
    /\ At(h, "store")
    /\ Upserted(id)
    /\ table' = IF outcome = "written" THEN UpsertedTable(id) ELSE table
    /\ Goto(h, "reply",
            CASE outcome = "written" -> "ok"
              [] outcome = "skipped" -> "duplicate"
              [] outcome = "violates" /\ Strategy(id) = "replaceable" -> "rejected"
              [] OTHER -> "error")
    /\ UNCHANGED <<acked, retired, doomed>>

(* A statement fails (lost connection, timeout, read-only server).  create *)
(* turns the rejection into a row count of 0; the others raise.            *)
StatementFails(h) ==
    /\ DbFaults
    /\ \/ /\ At(h, "store") /\ ~Upserted(ops[h].id)
          /\ Goto(h, "reply", "duplicate")
       \/ /\ At(h, "delete") \/ (At(h, "store") /\ Upserted(ops[h].id))
          /\ Goto(h, "reply", "error")
    /\ UNCHANGED <<table, acked, retired, doomed>>

(* The continuation of the last statement: the OK message and, when a row  *)
(* was written, the broadcast.                                             *)
Reply(h) ==
    LET id == ops[h].id IN
    /\ At(h, "reply")
    /\ acked' = IF ops[h].result = "ok" THEN acked \cup {id} ELSE acked
    /\ doomed' = IF /\ Strategy(id) = "delete"
                    /\ ops[h].result \in {"ok", "duplicate"}
                 THEN doomed \cup ops[h].known
                 ELSE doomed
    /\ ops' = [ops EXCEPT ![h] = IdleOp]
    /\ UNCHANGED <<table, retired>>

(* The worker that runs the handler exits; app.ts forks another. *)
Crash(h) ==
    /\ ~Idle(h)
    /\ ops' = [ops EXCEPT ![h] = IdleOp]
    /\ UNCHANGED <<table, acked, retired, doomed>>

Next ==
    \E h \in Handlers :
        \/ \E id \in Ids : Accept(h, id)
        \/ SoftDelete(h)
        \/ Create(h)
        \/ Upsert(h)
        \/ StatementFails(h)
        \/ Reply(h)
        \/ Crash(h)

Spec == Init /\ [][Next]_vars

-----------------------------------------------------------------------------
(* Properties. *)

TypeOK ==
    /\ table \in [Ids -> Row]
    /\ ops \in [Handlers -> Op]
    /\ acked \subseteq Ids
    /\ retired \subseteq Ids
    /\ doomed \subseteq Ids

(* An event newer than id, or as new, holds id's address. *)
Superseded(id) ==
    \E o \in Ids \ {id} : /\ Present(o) /\ table[o].keyed
                          /\ Upserted(o) /\ Upserted(id)
                          /\ Address(o) = Address(id)
                          /\ Event[id].created_at <= Event[o].created_at

Kept(id) == Present(id) \/ Superseded(id)

(* Whatever handlers publish, delete and replay at the same time, a        *)
(* replaceable address never has two versions: subscribers asking for it   *)
(* see one event (event-repository.ts upsert, NIP-16 and NIP-33).          *)
OneVersionPerAddress ==
    \A a, b \in Ids :
        /\ Present(a) /\ Present(b)
        /\ Upserted(a) /\ Upserted(b)
        /\ Address(a) = Address(b)
        => a = b

(* An event that was acknowledged as stored is never lost: its row is      *)
(* there, perhaps soft-deleted, or a version at least as new has replaced  *)
(* it (the OK the strategies send after the write, with worker deaths and  *)
(* statement failures in between).                                         *)
AckedIsKept ==
    \A id \in acked : Strategy(id) # "ephemeral" => Kept(id)

(* A soft-deleted event never comes back, however often it is published    *)
(* again and whatever replaced it since: the ON CONFLICT clauses of create *)
(* and upsert leave the deleted row, or its newer replacement, in place.   *)
NoResurrection == \A id \in retired : ~Live(id)

(* Once a deletion is acknowledged, every event of its author that it      *)
(* names, and that was acknowledged before the deletion was received, is   *)
(* gone for good (delete-event-strategy.ts deletes before it stores).      *)
DeletionTakesEffect == \A id \in doomed : ~Live(id)

(* The version an address holds only moves forward in created_at, and an   *)
(* address that was once written is never empty again: an upsert with an   *)
(* older or equal timestamp changes nothing.                               *)
VersionsMoveForward ==
    [][\A o \in Ids :
          Present(o) /\ Upserted(o) =>
              \E n \in Ids : /\ Present(n)'
                             /\ Upserted(n)
                             /\ Address(n) = Address(o)
                             /\ n = o \/ Event[o].created_at < Event[n].created_at]_vars

(* A row is soft-deleted only while a deletion by its own author that      *)
(* names it is being handled (deleteByPubkeyAndIds filters on the pubkey). *)
OnlyAuthorDeletes ==
    [][\A o \in Ids :
          Live(o) /\ (table[o].state = "deleted")' =>
              \E h \in Handlers : /\ At(h, "delete")
                                  /\ o \in Event[ops[h].id].targets
                                  /\ Event[ops[h].id].pubkey = Event[o].pubkey]_vars

(* With a working database no event is answered with an error: the         *)
(* partitioning migration claims that "The ON CONFLICT upsert continues to *)
(* work without any application changes".                                  *)
UpsertContinuesToWork ==
    ~DbFaults => \A h \in Handlers : ops[h].result # "error"

Replaceables == {id \in Ids : Upserted(id)}

(* What a query for an address observes: the versions stored for it.       *)
Versions(a) ==
    {[id |-> o, live |-> Live(o)] : o \in {i \in Replaceables : Present(i) /\ Address(i) = a}}

Addresses == {Address(id) : id \in Replaceables}

CreatedAt(id) == Event[id].created_at

Register == INSTANCE ReplaceableRegister
                WITH Ids <- Replaceables,
                     AddressOf <- Address,
                     reg <- [a \in Addresses |-> Versions(a)]

(* The table implements a register per address that only moves forward.    *)
ImplementsRegister == Register!Spec

=============================================================================
