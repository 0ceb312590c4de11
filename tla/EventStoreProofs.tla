--------------------------- MODULE EventStoreProofs ---------------------------
(***************************************************************************)
(* What EventStore guarantees for every set of events, handlers and        *)
(* authors, before and after the table is partitioned, whatever statement  *)
(* fails and whichever worker dies.                                        *)
(***************************************************************************)
EXTENDS EventStore, TLAPS

(* The row of an event has a deduplication key iff its strategy upserts.   *)
KeyedIffUpserted == \A id \in Ids : Present(id) => table[id].keyed = Upserted(id)

(* Gone for good: the row is soft-deleted, or a version at least as new    *)
(* has taken its address, so that no statement can make it live again.     *)
Gone(id) == ~Live(id) /\ Kept(id)

(* What a handler may rely on at each of its steps. *)
OpOK(h) ==
    LET op == ops[h] IN
    /\ At(h, "delete") => /\ op.known \subseteq KnownTargets(op.id)
                          /\ \A t \in op.known : Kept(t)
    /\ At(h, "store") => \A t \in op.known : Gone(t)
    /\ At(h, "reply") /\ op.result \in {"ok", "duplicate"} =>
           \A t \in op.known : Gone(t)
    /\ At(h, "reply") /\ op.result = "ok" /\ Strategy(op.id) # "ephemeral" =>
           Kept(op.id)

(* The inductive invariant: what keeps a deleted or replaced event away is *)
(* the row that stands at its address, hence Gone rather than ~Live.       *)
IInv ==
    /\ TypeOK
    /\ KeyedIffUpserted
    /\ OneVersionPerAddress
    /\ AckedIsKept
    /\ \A id \in retired : Gone(id)
    /\ \A id \in doomed : Gone(id)
    /\ \A h \in Handlers : OpOK(h)

-----------------------------------------------------------------------------
(* Facts about kinds and rows. *)

LEMMA UpsertedKinds ==
    ASSUME NEW k \in Nat
    PROVE  Indexed(k) <=> \/ IsReplaceable(k)
                          \/ ~IsEphemeral(k) /\ ~IsDelete(k) /\ IsParameterized(k)
BY DEF Indexed, IsReplaceable, IsEphemeral, IsDelete, IsParameterized

(* Every kind a strategy upserts is covered by the partial unique index,   *)
(* and only those: the ranges of event.ts and of the migration agree.      *)
THEOREM UpsertedIffIndexed ==
    ASSUME NEW id \in Ids
    PROVE  Upserted(id) <=> Indexed(Event[id].kind)
<1>1. Event[id].kind \in Nat
  BY EventStoreAssumption DEF Content
<1>2. Upserted(id) <=>
          \/ IsReplaceable(Event[id].kind)
          \/ /\ ~IsEphemeral(Event[id].kind)
             /\ ~IsDelete(Event[id].kind)
             /\ IsParameterized(Event[id].kind)
  BY DEF Upserted, Strategy
<1>3. QED
  BY <1>1, <1>2, UpsertedKinds

LEMMA KeptFromVersion ==
    ASSUME NEW id \in Ids, NEW o \in Ids, Upserted(id), Upserted(o),
           Present(o), table[o].keyed, Address(o) = Address(id),
           Event[id].created_at <= Event[o].created_at
    PROVE  Kept(id)
BY DEF Kept, Superseded

(* The three ways a statement changes the table. *)
LEMMA DeletedTablePresence ==
    ASSUME TypeOK, NEW d \in Ids, NEW o \in Ids, table' = DeletedTable(d)
    PROVE  /\ Present(o)' <=> Present(o)
           /\ table'[o].keyed = table[o].keyed
           /\ Live(o)' <=> Live(o) /\ o \notin Deletable(d)
BY EventStoreAssumption
   DEF TypeOK, Row, DeletedTable, Deletable, Present, Live, Content

LEMMA CreatedTablePresence ==
    ASSUME TypeOK, NEW c \in Ids, NEW o \in Ids, ~Present(c),
           table' = CreatedTable(c)
    PROVE  /\ Present(o)' <=> Present(o) \/ o = c
           /\ o # c => table'[o] = table[o]
           /\ table'[c] = LiveRow(FALSE)
BY DEF TypeOK, Row, CreatedTable, LiveRow, Present

LEMMA UpsertedTablePresence ==
    ASSUME TypeOK, NEW u \in Ids, NEW o \in Ids, table' = UpsertedTable(u)
    PROVE  /\ Present(o)' <=> o = u \/ (Present(o) /\ o \notin Conflicting(u))
           /\ o # u /\ o \notin Conflicting(u) => table'[o] = table[o]
           /\ table'[u] = LiveRow(TRUE)
BY DEF TypeOK, Row, UpsertedTable, LiveRow, NoRow, Present

(* While the invariant holds, the rows in conflict with an upsert are the  *)
(* versions at its address. *)
LEMMA ConflictingVersions ==
    ASSUME KeyedIffUpserted, NEW u \in Ids, NEW o \in Ids
    PROVE  o \in Conflicting(u) <=>
               Present(o) /\ Upserted(o) /\ Address(o) = Address(u)
BY UpsertedIffIndexed DEF KeyedIffUpserted, Conflicting

(* An upsert that writes replaces strictly older versions only. *)
LEMMA WrittenIsNewest ==
    ASSUME KeyedIffUpserted, NEW u \in Ids, UpsertOutcome(u) = "written"
    PROVE  /\ ~Partitioned
           /\ u \notin Conflicting(u)
           /\ ~Present(u)
           /\ \A o \in Conflicting(u) :
                  Event[o].created_at < Event[u].created_at
<1>1. /\ ~Partitioned
      /\ \A o \in Conflicting(u) : Newer(u, o)
      /\ ~IdTaken(u)
  BY DEF UpsertOutcome, NoArbiter
<1>2. u \notin Conflicting(u)
  BY <1>1, EventStoreAssumption DEF Newer, Content
<1>3. QED
  BY <1>1, <1>2 DEF Newer, IdTaken

-----------------------------------------------------------------------------
(* What was kept stays kept, what is gone stays gone. *)

Stays(id) == (Kept(id) => Kept(id)') /\ (Gone(id) => Gone(id)')

LEMMA UnchangedStays ==
    ASSUME UNCHANGED table, NEW id \in Ids
    PROVE  Stays(id)
BY DEF Stays, Kept, Gone, Superseded, Present, Live

LEMMA DeleteStays ==
    ASSUME TypeOK, NEW d \in Ids, table' = DeletedTable(d), NEW id \in Ids
    PROVE  Stays(id)
<1>1. Kept(id)' <=> Kept(id)
  BY DeletedTablePresence DEF Kept, Superseded
<1>2. ~Live(id) => ~Live(id)'
  BY DeletedTablePresence
<1>3. QED
  BY <1>1, <1>2 DEF Stays, Gone

LEMMA CreateStays ==
    ASSUME TypeOK, NEW c \in Ids, ~Upserted(c), ~Present(c),
           table' = CreatedTable(c), NEW id \in Ids
    PROVE  Stays(id)
<1>1. Kept(id) => Kept(id)'
  <2>1. CASE Present(id)
    BY <2>1, CreatedTablePresence DEF Kept
  <2>2. CASE Superseded(id)
    <3>1. PICK o \in Ids \ {id} : /\ Present(o) /\ table[o].keyed
                                  /\ Upserted(o) /\ Upserted(id)
                                  /\ Address(o) = Address(id)
                                  /\ Event[id].created_at <= Event[o].created_at
      BY <2>2 DEF Superseded
    <3>2. o # c
      BY <3>1
    <3>3. Present(o)' /\ table'[o].keyed
      BY <3>1, <3>2, CreatedTablePresence
    <3>4. QED
      BY <3>1, <3>3 DEF Kept, Superseded
  <2>3. QED
    BY <2>1, <2>2 DEF Kept
<1>2. ASSUME Gone(id) PROVE ~Live(id)'
  <2>1. CASE id = c
    BY <1>2, <2>1 DEF Gone, Kept, Superseded
  <2>2. CASE id # c
    BY <1>2, <2>2, CreatedTablePresence DEF Gone, Live
  <2>3. QED
    BY <2>1, <2>2
<1>3. QED
  BY <1>1, <1>2 DEF Stays, Gone

LEMMA UpsertStays ==
    ASSUME TypeOK, KeyedIffUpserted, NEW u \in Ids, Upserted(u),
           UpsertOutcome(u) = "written", table' = UpsertedTable(u),
           NEW id \in Ids
    PROVE  Stays(id)
<1>1. Present(u)' /\ table'[u].keyed
  BY UpsertedTablePresence DEF LiveRow
<1>2. Kept(id) => Kept(id)'
  <2>1. CASE id = u
    BY <1>1, <2>1 DEF Kept
  <2>2. CASE id # u /\ id \in Conflicting(u)
    <3>1. /\ Upserted(id) /\ Address(id) = Address(u)
          /\ Event[id].created_at < Event[u].created_at
      BY <2>2, ConflictingVersions, WrittenIsNewest
    <3>2. Event[id].created_at <= Event[u].created_at
      BY <3>1, EventStoreAssumption DEF Content
    <3>3. QED
      BY <1>1, <2>2, <3>1, <3>2 DEF Kept, Superseded
  <2>3. CASE id # u /\ id \notin Conflicting(u) /\ Present(id)
    BY <2>3, UpsertedTablePresence DEF Kept
  <2>4. CASE id # u /\ Superseded(id)
    <3>1. PICK o \in Ids \ {id} : /\ Present(o) /\ table[o].keyed
                                  /\ Upserted(o) /\ Upserted(id)
                                  /\ Address(o) = Address(id)
                                  /\ Event[id].created_at <= Event[o].created_at
      BY <2>4 DEF Superseded
    <3>2. CASE o \in Conflicting(u)
      <4>1. /\ Address(o) = Address(u)
            /\ Event[o].created_at < Event[u].created_at
        BY <3>2, ConflictingVersions, WrittenIsNewest
      <4>2. Event[id].created_at <= Event[u].created_at
        BY <3>1, <4>1, EventStoreAssumption DEF Content
      <4>3. QED
        BY <1>1, <2>4, <3>1, <4>1, <4>2 DEF Kept, Superseded
    <3>3. CASE o = u
      BY <1>1, <3>1, <3>3 DEF Kept, Superseded
    <3>4. CASE o # u /\ o \notin Conflicting(u)
      <4>1. Present(o)' /\ table'[o].keyed
        BY <3>1, <3>4, UpsertedTablePresence
      <4>2. QED
        BY <3>1, <4>1 DEF Kept, Superseded
    <3>5. QED
      BY <3>2, <3>3, <3>4
  <2>5. QED
    BY <2>1, <2>2, <2>3, <2>4 DEF Kept
<1>3. ASSUME Gone(id) PROVE id # u /\ ~Live(id)'
  <2>1. id # u
    <3>1. SUFFICES ASSUME id = u PROVE FALSE
      OBVIOUS
    <3>2. Superseded(u)
      BY <1>3, <3>1, WrittenIsNewest DEF Gone, Kept
    <3>3. PICK o \in Ids \ {u} : /\ Present(o)
                                 /\ Upserted(o)
                                 /\ Address(o) = Address(u)
                                 /\ Event[u].created_at <= Event[o].created_at
      BY <3>2 DEF Superseded
    <3>4. Event[o].created_at < Event[u].created_at
      BY <3>3, ConflictingVersions, WrittenIsNewest
    <3>5. QED
      BY <3>3, <3>4, EventStoreAssumption DEF Content
  <2>2. ~Live(id)'
    <3>1. CASE id \in Conflicting(u)
      BY <2>1, <3>1, UpsertedTablePresence DEF Present, Live
    <3>2. CASE id \notin Conflicting(u)
      BY <1>3, <2>1, <3>2, UpsertedTablePresence DEF Gone, Live
    <3>3. QED
      BY <3>1, <3>2
  <2>3. QED
    BY <2>1, <2>2
<1>4. QED
  BY <1>2, <1>3 DEF Stays, Gone

LEMMA StepStays ==
    ASSUME TypeOK, KeyedIffUpserted, [Next]_vars, NEW id \in Ids
    PROVE  Stays(id)
<1>1. ASSUME NEW h \in Handlers, NEW i \in Ids, Accept(h, i) PROVE Stays(id)
  BY <1>1, UnchangedStays DEF Accept
<1>2. ASSUME NEW h \in Handlers, SoftDelete(h) PROVE Stays(id)
  BY <1>2, DeleteStays DEF SoftDelete, TypeOK, Op
<1>3. ASSUME NEW h \in Handlers, Create(h) PROVE Stays(id)
  <2>1. ops[h].id \in Ids
    BY DEF TypeOK, Op
  <2>2. CASE Present(ops[h].id)
    BY <1>3, <2>2, UnchangedStays DEF Create
  <2>3. CASE ~Present(ops[h].id)
    BY <1>3, <2>1, <2>3, CreateStays DEF Create
  <2>4. QED
    BY <2>2, <2>3
<1>4. ASSUME NEW h \in Handlers, Upsert(h) PROVE Stays(id)
  <2>1. ops[h].id \in Ids
    BY DEF TypeOK, Op
  <2>2. CASE UpsertOutcome(ops[h].id) = "written"
    BY <1>4, <2>1, <2>2, UpsertStays DEF Upsert
  <2>3. CASE UpsertOutcome(ops[h].id) # "written"
    BY <1>4, <2>3, UnchangedStays DEF Upsert
  <2>4. QED
    BY <2>2, <2>3
<1>5. ASSUME NEW h \in Handlers, StatementFails(h) \/ Reply(h) \/ Crash(h)
      PROVE  Stays(id)
  BY <1>5, UnchangedStays DEF StatementFails, Reply, Crash
<1>6. CASE UNCHANGED vars
  BY <1>6, UnchangedStays DEF vars
<1>7. QED
  BY <1>1, <1>2, <1>3, <1>4, <1>5, <1>6 DEF Next

-----------------------------------------------------------------------------
(* Type correctness. *)

LEMMA TypeOKInit ==
    ASSUME Init
    PROVE  TypeOK
BY EventStoreAssumption
   DEF Init, TypeOK, Row, NoRow, Op, IdleOp, Results

LEMMA TablesTyped ==
    ASSUME TypeOK, NEW id \in Ids
    PROVE  /\ DeletedTable(id) \in [Ids -> Row]
           /\ CreatedTable(id) \in [Ids -> Row]
           /\ UpsertedTable(id) \in [Ids -> Row]
BY DEF TypeOK, Row, DeletedTable, CreatedTable, UpsertedTable, NoRow, LiveRow

LEMMA IdleOpTyped ==
    ASSUME NEW i \in Ids
    PROVE  IdleOp \in Op
BY DEF IdleOp, Op, Results

LEMMA GotoTyped ==
    ASSUME TypeOK, NEW h \in Handlers, NEW r \in Results,
           NEW pc \in {"idle", "delete", "store", "reply"}, Goto(h, pc, r)
    PROVE  ops' \in [Handlers -> Op]
BY DEF TypeOK, Goto, Op

LEMMA TypeOKNext ==
    ASSUME TypeOK, [Next]_vars
    PROVE  TypeOK'
<1>1. ASSUME NEW h \in Handlers, NEW i \in Ids, Accept(h, i) PROVE TypeOK'
  <2>1. ops' \in [Handlers -> Op]
    BY <1>1, EventStoreAssumption
       DEF Accept, TypeOK, Op, Results, KnownTargets, Content
  <2>2. QED
    BY <1>1, <2>1 DEF Accept, TypeOK
<1>2. ASSUME NEW h \in Handlers, SoftDelete(h) PROVE TypeOK'
  <2>1. ops[h].id \in Ids
    BY DEF TypeOK, Op
  <2>2. Deletable(ops[h].id) \subseteq Ids
    BY <2>1, EventStoreAssumption DEF Deletable, Content
  <2>3. ops' \in [Handlers -> Op]
    BY <1>2, GotoTyped DEF SoftDelete, Results
  <2>4. QED
    BY <1>2, <2>1, <2>2, <2>3, TablesTyped DEF SoftDelete, TypeOK
<1>3. ASSUME NEW h \in Handlers, Create(h) PROVE TypeOK'
  <2>1. ops[h].id \in Ids
    BY DEF TypeOK, Op
  <2>2. table' \in [Ids -> Row]
    BY <1>3, <2>1, TablesTyped DEF Create, TypeOK
  <2>3. ops' \in [Handlers -> Op]
    BY <1>3, GotoTyped DEF Create, Results
  <2>4. QED
    BY <1>3, <2>2, <2>3 DEF Create, TypeOK
<1>4. ASSUME NEW h \in Handlers, Upsert(h) PROVE TypeOK'
  <2>1. ops[h].id \in Ids
    BY DEF TypeOK, Op
  <2>2. table' \in [Ids -> Row]
    BY <1>4, <2>1, TablesTyped DEF Upsert, TypeOK
  <2>3. PICK r \in Results : Goto(h, "reply", r)
    BY <1>4 DEF Upsert, Results
  <2>4. ops' \in [Handlers -> Op]
    BY <2>3, GotoTyped
  <2>5. QED
    BY <1>4, <2>2, <2>4 DEF Upsert, TypeOK
<1>5. ASSUME NEW h \in Handlers, StatementFails(h) PROVE TypeOK'
  <2>1. ops' \in [Handlers -> Op]
    BY <1>5, GotoTyped DEF StatementFails, Results
  <2>2. QED
    BY <1>5, <2>1 DEF StatementFails, TypeOK
<1>6. ASSUME NEW h \in Handlers, Reply(h) PROVE TypeOK'
  <2>1. ops[h] \in Op
    BY DEF TypeOK
  <2>2. ops[h].id \in Ids /\ ops[h].known \subseteq Ids
    BY <2>1 DEF Op
  <2>3. ops' \in [Handlers -> Op]
    BY <1>6, <2>2, IdleOpTyped DEF Reply, TypeOK
  <2>4. acked' \subseteq Ids /\ doomed' \subseteq Ids
    BY <1>6, <2>2 DEF Reply, TypeOK
  <2>5. QED
    BY <1>6, <2>3, <2>4 DEF Reply, TypeOK
<1>7. ASSUME NEW h \in Handlers, Crash(h) PROVE TypeOK'
  <2>1. ops[h].id \in Ids
    BY DEF TypeOK, Op
  <2>2. ops' \in [Handlers -> Op]
    BY <1>7, <2>1, IdleOpTyped DEF Crash, TypeOK
  <2>3. QED
    BY <1>7, <2>2 DEF Crash, TypeOK
<1>8. CASE UNCHANGED vars
  BY <1>8 DEF vars, TypeOK
<1>9. QED
  BY <1>1, <1>2, <1>3, <1>4, <1>5, <1>6, <1>7, <1>8 DEF Next

-----------------------------------------------------------------------------
(* The rows and their keys. *)

LEMMA KeysNext ==
    ASSUME TypeOK, KeyedIffUpserted, [Next]_vars
    PROVE  KeyedIffUpserted'
<1> SUFFICES ASSUME NEW o \in Ids, Present(o)'
             PROVE  table'[o].keyed = Upserted(o)
  BY DEF KeyedIffUpserted
<1>1. CASE UNCHANGED table
  BY <1>1 DEF KeyedIffUpserted, Present
<1>2. ASSUME NEW h \in Handlers, SoftDelete(h)
      PROVE  table'[o].keyed = Upserted(o)
  BY <1>2, DeletedTablePresence DEF SoftDelete, KeyedIffUpserted, TypeOK, Op
<1>3. ASSUME NEW h \in Handlers, Create(h), ~Present(ops[h].id)
      PROVE  table'[o].keyed = Upserted(o)
  <2>1. /\ ops[h].id \in Ids
        /\ ~Upserted(ops[h].id)
        /\ table' = CreatedTable(ops[h].id)
    BY <1>3 DEF Create, TypeOK, Op
  <2>2. CASE o = ops[h].id
    <3>1. table'[o].keyed = FALSE
      BY <1>3, <2>1, <2>2, CreatedTablePresence DEF LiveRow
    <3>2. Upserted(o) = FALSE
      BY <2>1, <2>2 DEF Upserted
    <3>3. QED
      BY <3>1, <3>2
  <2>3. CASE o # ops[h].id
    BY <1>3, <2>1, <2>3, CreatedTablePresence DEF KeyedIffUpserted
  <2>4. QED
    BY <2>2, <2>3
<1>4. ASSUME NEW h \in Handlers, Upsert(h), UpsertOutcome(ops[h].id) = "written"
      PROVE  table'[o].keyed = Upserted(o)
  <2>1. /\ ops[h].id \in Ids
        /\ Upserted(ops[h].id)
        /\ table' = UpsertedTable(ops[h].id)
    BY <1>4 DEF Upsert, TypeOK, Op
  <2>2. CASE o = ops[h].id
    <3>1. table'[o].keyed = TRUE
      BY <2>1, <2>2, UpsertedTablePresence DEF LiveRow
    <3>2. Upserted(o) = TRUE
      BY <2>1, <2>2 DEF Upserted
    <3>3. QED
      BY <3>1, <3>2
  <2>3. CASE o # ops[h].id
    BY <2>1, <2>3, UpsertedTablePresence DEF KeyedIffUpserted
  <2>4. QED
    BY <2>2, <2>3
<1>5. QED
  BY <1>1, <1>2, <1>3, <1>4
     DEF Next, vars, Accept, Create, Upsert, StatementFails, Reply, Crash

LEMMA OneVersionNext ==
    ASSUME TypeOK, KeyedIffUpserted, OneVersionPerAddress, [Next]_vars
    PROVE  OneVersionPerAddress'
<1> SUFFICES ASSUME NEW a \in Ids, NEW b \in Ids, Present(a)', Present(b)',
                    Upserted(a), Upserted(b), Address(a) = Address(b)
             PROVE  a = b
  BY DEF OneVersionPerAddress
<1>1. CASE Present(a) /\ Present(b)
  BY <1>1 DEF OneVersionPerAddress
<1>2. ASSUME NEW h \in Handlers, Upsert(h), UpsertOutcome(ops[h].id) = "written"
      PROVE  a = b
  <2> DEFINE u == ops[h].id
  <2>1. u \in Ids /\ table' = UpsertedTable(u)
    BY <1>2 DEF Upsert, TypeOK, Op
  <2>2. \A o \in {a, b} : o = u \/ (Present(o) /\ o \notin Conflicting(u))
    BY <2>1, UpsertedTablePresence
  <2>3. a = u => (b # u => b \notin Conflicting(u) /\ Present(b))
    BY <2>2
  <2>4. CASE a = u
    BY <2>1, <2>2, <2>4, ConflictingVersions
  <2>5. CASE b = u
    BY <2>1, <2>2, <2>5, ConflictingVersions
  <2>6. CASE a # u /\ b # u
    BY <1>1, <2>2, <2>6
  <2>7. QED
    BY <2>4, <2>5, <2>6
<1>3. ASSUME NEW h \in Handlers, Create(h), ~Present(ops[h].id)
      PROVE  a = b
  <2>1. /\ ops[h].id \in Ids
        /\ ~Upserted(ops[h].id)
        /\ table' = CreatedTable(ops[h].id)
    BY <1>3 DEF Create, TypeOK, Op
  <2>2. Present(a) /\ Present(b)
    BY <1>3, <2>1, CreatedTablePresence
  <2>3. QED
    BY <1>1, <2>2
<1>4. ASSUME NEW h \in Handlers, SoftDelete(h)
      PROVE  a = b
  BY <1>1, <1>4, DeletedTablePresence DEF SoftDelete, TypeOK, Op
<1>5. CASE UNCHANGED table
  BY <1>1, <1>5 DEF Present
<1>6. QED
  BY <1>2, <1>3, <1>4, <1>5
     DEF Next, vars, Accept, Create, Upsert, StatementFails, Reply, Crash

-----------------------------------------------------------------------------
(* The histories. *)

LEMMA AckedNext ==
    ASSUME IInv, [Next]_vars
    PROVE  AckedIsKept'
<1> SUFFICES ASSUME NEW id \in acked', Strategy(id) # "ephemeral"
             PROVE  Kept(id)'
  BY DEF AckedIsKept
<1>1. TypeOK /\ KeyedIffUpserted
  BY DEF IInv
<1>2. id \in acked \/ \E h \in Handlers : /\ Reply(h)
                                          /\ ops[h].result = "ok"
                                          /\ id = ops[h].id
  BY DEF Next, vars, Accept, SoftDelete, Create, Upsert, StatementFails, Reply,
         Crash
<1>3. CASE id \in acked
  <2>1. id \in Ids /\ Kept(id)
    BY <1>1, <1>3 DEF IInv, TypeOK, AckedIsKept
  <2>2. QED
    BY <1>1, <2>1, StepStays DEF Stays
<1>4. ASSUME NEW h \in Handlers, Reply(h), ops[h].result = "ok", id = ops[h].id
      PROVE  Kept(id)'
  <2>1. id \in Ids
    BY <1>1, <1>4 DEF TypeOK, Op
  <2>2. Kept(id)
    BY <1>4 DEF IInv, OpOK, Reply
  <2>3. QED
    BY <1>1, <2>1, <2>2, StepStays DEF Stays
<1>5. QED
  BY <1>2, <1>3, <1>4

LEMMA RetiredNext ==
    ASSUME IInv, [Next]_vars
    PROVE  \A id \in retired' : Gone(id)'
<1> SUFFICES ASSUME NEW id \in retired'
             PROVE  Gone(id)'
  OBVIOUS
<1>1. TypeOK /\ KeyedIffUpserted
  BY DEF IInv
<1>2. id \in retired \/ \E h \in Handlers : /\ SoftDelete(h)
                                            /\ id \in Deletable(ops[h].id)
  BY DEF Next, vars, Accept, SoftDelete, Create, Upsert, StatementFails, Reply,
         Crash
<1>3. CASE id \in retired
  <2>1. id \in Ids /\ Gone(id)
    BY <1>1, <1>3 DEF IInv, TypeOK
  <2>2. QED
    BY <1>1, <2>1, StepStays DEF Stays
<1>4. ASSUME NEW h \in Handlers, SoftDelete(h), id \in Deletable(ops[h].id)
      PROVE  Gone(id)'
  <2>1. ops[h].id \in Ids /\ table' = DeletedTable(ops[h].id)
    BY <1>1, <1>4 DEF TypeOK, Op, SoftDelete
  <2>2. id \in Ids /\ Live(id)
    BY <1>4, <2>1, EventStoreAssumption DEF Deletable, Content
  <2>3. Present(id)
    BY <2>2 DEF Present, Live
  <2>4. Present(id)' /\ ~Live(id)'
    BY <1>1, <1>4, <2>1, <2>2, <2>3, DeletedTablePresence
  <2>5. QED
    BY <2>4 DEF Gone, Kept
<1>5. QED
  BY <1>2, <1>3, <1>4

LEMMA DoomedNext ==
    ASSUME IInv, [Next]_vars
    PROVE  \A id \in doomed' : Gone(id)'
<1> SUFFICES ASSUME NEW id \in doomed'
             PROVE  Gone(id)'
  OBVIOUS
<1>1. TypeOK /\ KeyedIffUpserted
  BY DEF IInv
<1>2. id \in doomed \/ \E h \in Handlers : /\ Reply(h)
                                           /\ ops[h].result \in {"ok", "duplicate"}
                                           /\ id \in ops[h].known
  BY DEF Next, vars, Accept, SoftDelete, Create, Upsert, StatementFails, Reply,
         Crash
<1>3. CASE id \in doomed
  <2>1. id \in Ids /\ Gone(id)
    BY <1>1, <1>3 DEF IInv, TypeOK
  <2>2. QED
    BY <1>1, <2>1, StepStays DEF Stays
<1>4. ASSUME NEW h \in Handlers, Reply(h), ops[h].result \in {"ok", "duplicate"},
             id \in ops[h].known
      PROVE  Gone(id)'
  <2>1. id \in Ids
    BY <1>1, <1>4 DEF TypeOK, Op
  <2>2. Gone(id)
    BY <1>4 DEF IInv, OpOK, Reply
  <2>3. QED
    BY <1>1, <2>1, <2>2, StepStays DEF Stays
<1>5. QED
  BY <1>2, <1>3, <1>4

(* What the handlers rely on. *)
LEMMA OpNext ==
    ASSUME IInv, [Next]_vars, NEW h \in Handlers
    PROVE  OpOK(h)'
<1>1. TypeOK /\ KeyedIffUpserted /\ OpOK(h)
  BY DEF IInv
<1>2. ops[h] \in Op
  BY <1>1 DEF TypeOK
<1>3. \A t \in ops[h].known : t \in Ids /\ Stays(t)
  BY <1>1, <1>2, StepStays DEF Op
<1>4. ops[h].id \in Ids /\ Stays(ops[h].id)
  BY <1>1, <1>2, StepStays DEF Op
<1>5. ASSUME ops'[h] = IdleOp PROVE OpOK(h)'
  BY <1>5 DEF OpOK, At, IdleOp
<1>6. ASSUME ops'[h] = ops[h], acked \subseteq acked' PROVE OpOK(h)'
  BY <1>1, <1>3, <1>4, <1>6 DEF OpOK, At, Stays, KnownTargets
<1>7. ASSUME NEW g \in Handlers, g # h,
             \/ \E i \in Ids : Accept(g, i)
             \/ SoftDelete(g) \/ Create(g) \/ Upsert(g)
             \/ StatementFails(g) \/ Reply(g) \/ Crash(g)
      PROVE  OpOK(h)'
  <2>1. ops'[h] = ops[h]
    BY <1>1, <1>7
       DEF TypeOK, Accept, SoftDelete, Create, Upsert, StatementFails, Reply,
           Crash, Goto
  <2>2. acked \subseteq acked'
    BY <1>7
       DEF Accept, SoftDelete, Create, Upsert, StatementFails, Reply, Crash
  <2>3. QED
    BY <1>6, <2>1, <2>2
<1>8. ASSUME NEW i \in Ids, Accept(h, i) PROVE OpOK(h)'
  <2>1. \A t \in KnownTargets(i) : Kept(t)
    BY DEF IInv, AckedIsKept, KnownTargets
  <2>2. KnownTargets(i) \subseteq Ids
    BY <1>1 DEF KnownTargets, TypeOK
  <2>3. \A t \in KnownTargets(i) : Kept(t)'
    BY <1>1, <2>1, <2>2, StepStays DEF Stays
  <2>4. acked' = acked
    BY <1>8 DEF Accept
  <2>5. ops'[h].id = i
    BY <1>1, <1>8 DEF Accept, TypeOK
  <2>6. CASE Strategy(i) = "delete" /\ Event[i].targets # {}
    <3>1. ops'[h].pc = "delete" /\ ops'[h].known = KnownTargets(i)
      BY <1>1, <1>8, <2>6 DEF Accept, TypeOK
    <3>2. QED
      BY <2>3, <2>4, <2>5, <3>1 DEF OpOK, At, KnownTargets
  <2>7. CASE Strategy(i) # "delete" \/ Event[i].targets = {}
    <3>1. ops'[h].known = {}
      BY <1>1, <1>8, <2>7 DEF Accept, TypeOK, KnownTargets
    <3>2. /\ ops'[h].pc # "delete"
          /\ ops'[h].pc = "reply" => Strategy(i) = "ephemeral"
      BY <1>1, <1>8, <2>7 DEF Accept, TypeOK
    <3>3. QED
      BY <2>5, <3>1, <3>2 DEF OpOK, At
  <2>8. QED
    BY <2>6, <2>7
<1>9. ASSUME SoftDelete(h) PROVE OpOK(h)'
  <2>1. /\ At(h, "delete")
        /\ table' = DeletedTable(ops[h].id)
        /\ ops'[h].pc = "store"
        /\ ops'[h].known = ops[h].known
    BY <1>1, <1>9 DEF SoftDelete, Goto, TypeOK, Op
  <2>2. ASSUME NEW t \in ops[h].known PROVE Gone(t)'
    <3>1. /\ t \in Ids
          /\ t \in Event[ops[h].id].targets
          /\ Event[t].pubkey = Event[ops[h].id].pubkey
          /\ Kept(t)
      BY <1>1, <1>3, <2>1, <2>2 DEF OpOK, KnownTargets
    <3>2. Kept(t)'
      BY <1>3, <2>2, <3>1 DEF Stays
    <3>3. ~Live(t)'
      BY <1>1, <1>4, <2>1, <3>1, DeletedTablePresence DEF Deletable
    <3>4. QED
      BY <3>2, <3>3 DEF Gone
  <2>3. QED
    BY <2>1, <2>2 DEF OpOK, At
<1>10. ASSUME Create(h) PROVE OpOK(h)'
  <2>1. /\ At(h, "store")
        /\ ops'[h].pc = "reply"
        /\ ops'[h].id = ops[h].id
        /\ ops'[h].known = ops[h].known
    BY <1>1, <1>10 DEF Create, Goto, TypeOK, Op
  <2>2. \A t \in ops[h].known : Gone(t)'
    BY <1>1, <1>3, <2>1 DEF OpOK, Stays
  <2>3. ops'[h].result = "ok" => Present(ops[h].id)'
    <3>1. PICK i \in Ids : i = ops[h].id
      BY <1>4
    <3>2. CASE Present(i)
      BY <1>1, <1>10, <3>1, <3>2 DEF Create, Goto, TypeOK, Op
    <3>3. CASE ~Present(i)
      <4>1. Present(i)'
        BY <1>1, <1>10, <3>1, <3>3, CreatedTablePresence DEF Create
      <4>2. QED
        BY <2>1, <3>1, <4>1 DEF Present
    <3>4. QED
      BY <3>2, <3>3
  <2>4. QED
    BY <2>1, <2>2, <2>3 DEF OpOK, At, Kept
<1>11. ASSUME Upsert(h) PROVE OpOK(h)'
  <2>1. /\ At(h, "store")
        /\ ops'[h].pc = "reply"
        /\ ops'[h].id = ops[h].id
        /\ ops'[h].known = ops[h].known
    BY <1>1, <1>11 DEF Upsert, Goto, TypeOK, Op
  <2>2. \A t \in ops[h].known : Gone(t)'
    BY <1>1, <1>3, <2>1 DEF OpOK, Stays
  <2>3. ops'[h].result = "ok" => UpsertOutcome(ops[h].id) = "written"
    BY <1>1, <1>11 DEF Upsert, Goto, TypeOK, Op
  <2>4. UpsertOutcome(ops[h].id) = "written" => Present(ops[h].id)'
    <3>1. PICK i \in Ids : i = ops[h].id
      BY <1>4
    <3>2. UpsertOutcome(i) = "written" => Present(i)'
      BY <1>1, <1>11, <3>1, UpsertedTablePresence DEF Upsert
    <3>3. QED
      BY <2>1, <3>1, <3>2 DEF Present
  <2>5. QED
    BY <2>1, <2>2, <2>3, <2>4 DEF OpOK, At, Kept
<1>12. ASSUME StatementFails(h) PROVE OpOK(h)'
  <2>1. /\ ops'[h].pc = "reply"
        /\ ops'[h].known = ops[h].known
        /\ ops'[h].result \in {"duplicate", "error"}
        /\ ops'[h].result = "duplicate" => At(h, "store")
    BY <1>1, <1>12 DEF StatementFails, Goto, TypeOK, Op
  <2>2. At(h, "store") => \A t \in ops[h].known : Gone(t)'
    BY <1>1, <1>3 DEF OpOK, Stays
  <2>3. QED
    BY <2>1, <2>2 DEF OpOK, At
<1>13. ASSUME Reply(h) \/ Crash(h) PROVE OpOK(h)'
  <2>1. ops'[h] = IdleOp
    BY <1>1, <1>13 DEF Reply, Crash, TypeOK
  <2>2. QED
    BY <1>5, <2>1
<1>14. CASE UNCHANGED vars
  BY <1>6, <1>14 DEF vars
<1>15. QED
  BY <1>7, <1>8, <1>9, <1>10, <1>11, <1>12, <1>13, <1>14 DEF Next

-----------------------------------------------------------------------------
(* The invariant, and the theorems that follow from it. *)

LEMMA IInvInit ==
    ASSUME Init
    PROVE  IInv
<1>1. TypeOK
  BY TypeOKInit
<1>2. \A id \in Ids : ~Present(id)
  BY DEF Init, Present, NoRow
<1>3. \A h \in Handlers : OpOK(h)
  BY DEF Init, OpOK, At, IdleOp
<1>4. QED
  BY <1>1, <1>2, <1>3
     DEF IInv, Init, KeyedIffUpserted, OneVersionPerAddress, AckedIsKept

LEMMA IInvNext ==
    ASSUME IInv, [Next]_vars
    PROVE  IInv'
<1>1. TypeOK' /\ KeyedIffUpserted' /\ OneVersionPerAddress'
  BY TypeOKNext, KeysNext, OneVersionNext DEF IInv
<1>2. QED
  BY <1>1, AckedNext, RetiredNext, DoomedNext, OpNext DEF IInv

THEOREM Invariance == Spec => []IInv
<1>1. Init => IInv
  BY IInvInit
<1>2. IInv /\ [Next]_vars => IInv'
  BY IInvNext
<1>3. QED
  BY <1>1, <1>2, PTL DEF Spec

(* The type invariant of the table and its handlers holds in every state.  *)
THEOREM TypeCorrect == Spec => []TypeOK
<1>1. IInv => TypeOK
  BY DEF IInv
<1>2. QED
  BY <1>1, Invariance, PTL

(* No interleaving of publications, deletions, failures and worker deaths  *)
(* gives an address two versions.                                          *)
THEOREM AddressesAreUnique == Spec => []OneVersionPerAddress
<1>1. IInv => OneVersionPerAddress
  BY DEF IInv
<1>2. QED
  BY <1>1, Invariance, PTL

(* An event acknowledged as stored is never lost. *)
THEOREM AckedEventsAreKept == Spec => []AckedIsKept
<1>1. IInv => AckedIsKept
  BY DEF IInv
<1>2. QED
  BY <1>1, Invariance, PTL

(* A soft-deleted event never becomes visible again. *)
THEOREM DeletedStaysDeleted == Spec => []NoResurrection
<1>1. IInv => NoResurrection
  BY DEF IInv, NoResurrection, Gone
<1>2. QED
  BY <1>1, Invariance, PTL

(* An acknowledged deletion has taken effect, for good, on every event of  *)
(* its author that was acknowledged before it.                             *)
THEOREM DeletionsAreEffective == Spec => []DeletionTakesEffect
<1>1. IInv => DeletionTakesEffect
  BY DEF IInv, DeletionTakesEffect, Gone
<1>2. QED
  BY <1>1, Invariance, PTL

-----------------------------------------------------------------------------
(* What a step may do to a version. *)

LEMMA ForwardNext ==
    ASSUME IInv, [Next]_vars, NEW o \in Ids, Present(o), Upserted(o)
    PROVE  \E n \in Ids : /\ Present(n)'
                          /\ Upserted(n)
                          /\ Address(n) = Address(o)
                          /\ n = o \/ Event[o].created_at < Event[n].created_at
<1>1. TypeOK /\ KeyedIffUpserted
  BY DEF IInv
<1>2. CASE Present(o)'
  BY <1>2
<1>3. ASSUME NEW h \in Handlers, SoftDelete(h) PROVE Present(o)'
  BY <1>1, <1>3, DeletedTablePresence DEF SoftDelete, TypeOK, Op
<1>4. ASSUME NEW h \in Handlers, Create(h), ~Present(ops[h].id)
      PROVE  Present(o)'
  BY <1>1, <1>4, CreatedTablePresence DEF Create, TypeOK, Op
<1>5. ASSUME NEW h \in Handlers, Upsert(h), ~Present(o)',
             UpsertOutcome(ops[h].id) = "written"
      PROVE  \E n \in Ids : /\ Present(n)'
                            /\ Upserted(n)
                            /\ Address(n) = Address(o)
                            /\ Event[o].created_at < Event[n].created_at
  <2>1. PICK u \in Ids : u = ops[h].id
    BY <1>1 DEF TypeOK, Op
  <2>2. Upserted(u) /\ table' = UpsertedTable(u)
    BY <1>5, <2>1 DEF Upsert
  <2>3. Present(u)' /\ o \in Conflicting(u)
    BY <1>1, <1>5, <2>2, UpsertedTablePresence
  <2>4. /\ Address(u) = Address(o)
        /\ Event[o].created_at < Event[u].created_at
    BY <1>1, <1>5, <2>1, <2>3, ConflictingVersions, WrittenIsNewest
  <2>5. QED
    BY <2>2, <2>3, <2>4
<1>6. CASE UNCHANGED table
  BY <1>6 DEF Present
<1>7. QED
  BY <1>2, <1>3, <1>4, <1>5, <1>6
     DEF Next, vars, Accept, Create, Upsert, StatementFails, Reply, Crash

(* The version at an address only moves forward, and never vanishes. *)
THEOREM OnlyForward == Spec => VersionsMoveForward
<1>1. IInv /\ [Next]_vars =>
          [\A o \in Ids :
              Present(o) /\ Upserted(o) =>
                  \E n \in Ids :
                     /\ Present(n)'
                     /\ Upserted(n)
                     /\ Address(n) = Address(o)
                     /\ n = o \/ Event[o].created_at < Event[n].created_at]_vars
  BY ForwardNext
<1>2. QED
  BY <1>1, Invariance, PTL DEF Spec, VersionsMoveForward

(* Only a deletion by the author soft-deletes an event. *)
THEOREM DeletionNeedsAuthor == Spec => OnlyAuthorDeletes
<1>1. ASSUME IInv, Next, NEW o \in Ids, Live(o), (table[o].state = "deleted")'
      PROVE  \E h \in Handlers : /\ At(h, "delete")
                                 /\ o \in Event[ops[h].id].targets
                                 /\ Event[ops[h].id].pubkey = Event[o].pubkey
  <2>1. TypeOK
    BY <1>1 DEF IInv
  <2>2. CASE UNCHANGED table
    BY <1>1, <2>2 DEF Live
  <2>3. ASSUME NEW h \in Handlers, Create(h), ~Present(ops[h].id)
        PROVE  FALSE
    BY <1>1, <2>1, <2>3, CreatedTablePresence
       DEF Create, TypeOK, Op, Live, LiveRow
  <2>4. ASSUME NEW h \in Handlers, Upsert(h),
               UpsertOutcome(ops[h].id) = "written"
        PROVE  FALSE
    BY <1>1, <2>1, <2>4, UpsertedTablePresence
       DEF Upsert, TypeOK, Op, Live, LiveRow, Present
  <2>5. ASSUME NEW h \in Handlers, SoftDelete(h)
        PROVE  /\ At(h, "delete")
               /\ o \in Deletable(ops[h].id)
    BY <1>1, <2>1, <2>5, DeletedTablePresence
       DEF SoftDelete, TypeOK, Op, Live
  <2>6. QED
    BY <1>1, <2>2, <2>3, <2>4, <2>5
       DEF Next, Accept, Create, Upsert, StatementFails, Reply, Crash, Deletable
<1>2. IInv /\ [Next]_vars =>
          [\A o \in Ids :
              Live(o) /\ (table[o].state = "deleted")' =>
                  \E h \in Handlers :
                     /\ At(h, "delete")
                     /\ o \in Event[ops[h].id].targets
                     /\ Event[ops[h].id].pubkey = Event[o].pubkey]_vars
  BY <1>1
<1>3. QED
  BY <1>2, Invariance, PTL DEF Spec, OnlyAuthorDeletes

-----------------------------------------------------------------------------
(* The refinement: what a step does to the registers. *)

LEMMA VersionsKept ==
    ASSUME NEW a \in Addresses,
           \A o \in Replaceables : Address(o) = a => table'[o] = table[o]
    PROVE  Versions(a)' = Versions(a)
BY DEF Versions, Replaceables, Present, Live

(* An address holds no version, or the only one. *)
LEMMA OneVersionHeld ==
    ASSUME OneVersionPerAddress, NEW o \in Replaceables, Present(o)
    PROVE  Versions(Address(o)) = {[id |-> o, live |-> Live(o)]}
BY DEF OneVersionPerAddress, Versions, Replaceables

LEMMA UpsertPublishes ==
    ASSUME IInv, NEW u \in Ids, Upserted(u), UpsertOutcome(u) = "written",
           table' = UpsertedTable(u)
    PROVE  u \in Replaceables /\ Register!Publish(u)
<1>1. TypeOK /\ KeyedIffUpserted
  BY DEF IInv
<1>2. u \in Replaceables /\ Address(u) \in Addresses
  BY DEF Replaceables, Addresses
<1>3. ASSUME NEW v \in Versions(Address(u))
      PROVE  CreatedAt(v.id) < CreatedAt(u)
  <2>1. v.id \in Ids /\ v.id \in Conflicting(u)
    BY <1>1, <1>3, ConflictingVersions DEF Versions, Replaceables
  <2>2. QED
    BY <1>1, <2>1, WrittenIsNewest DEF CreatedAt
<1>4. ASSUME NEW a \in Addresses, a # Address(u)
      PROVE  Versions(a)' = Versions(a)
  <2>1. ASSUME NEW o \in Replaceables, Address(o) = a
        PROVE  table'[o] = table[o]
    BY <1>1, <1>4, <2>1, ConflictingVersions, UpsertedTablePresence
       DEF Replaceables
  <2>2. QED
    BY <2>1, VersionsKept
<1>5. Versions(Address(u))' = {[id |-> u, live |-> TRUE]}
  <2>1. Present(u)' /\ Live(u)'
    BY <1>1, UpsertedTablePresence DEF Present, Live, LiveRow
  <2>2. ASSUME NEW o \in Replaceables, Present(o)', Address(o) = Address(u)
        PROVE  o = u
    BY <1>1, <2>2, ConflictingVersions, UpsertedTablePresence
       DEF Replaceables
  <2>3. QED
    BY <1>2, <2>1, <2>2 DEF Versions, Replaceables
<1>6. [a \in Addresses |-> Versions(a)]' =
          [[a \in Addresses |-> Versions(a)] EXCEPT
              ![Address(u)] = {[id |-> u, live |-> TRUE]}]
  BY <1>2, <1>4, <1>5
<1>7. QED
  BY <1>2, <1>3, <1>6 DEF Register!Publish

LEMMA SoftDeleteRetracts ==
    ASSUME IInv, NEW d \in Ids, table' = DeletedTable(d)
    PROVE  Register!Retract
<1>1. TypeOK /\ OneVersionPerAddress
  BY DEF IInv
<1>2. ASSUME NEW a \in Addresses
      PROVE  Versions(a)' \in {Versions(a), Register!Tombstones(Versions(a))}
  <2>1. CASE \E o \in Replaceables : Present(o) /\ Address(o) = a
    <3>1. PICK o \in Replaceables : Present(o) /\ Address(o) = a
      BY <2>1
    <3>2. o \in Ids
      BY DEF Replaceables
    <3>3. Versions(a) = {[id |-> o, live |-> Live(o)]}
      BY <1>1, <3>1, OneVersionHeld
    <3>4. Versions(a)' = {[id |-> o, live |-> Live(o)']}
      <4>1. \A i \in Ids : Present(i)' <=> Present(i)
        BY <1>1, DeletedTablePresence
      <4>2. \A i \in Replaceables : Present(i)' /\ Address(i) = a => i = o
        BY <1>1, <3>1, <4>1 DEF OneVersionPerAddress, Replaceables
      <4>3. Present(o)'
        BY <3>1, <3>2, <4>1
      <4>4. QED
        BY <3>1, <4>2, <4>3 DEF Versions
    <3>5. Live(o)' = Live(o) \/ Live(o)' = FALSE
      <4>1. Live(o)' => Live(o)
        BY <1>1, <3>2, DeletedTablePresence
      <4>2. Live(o) \in BOOLEAN /\ Live(o)' \in BOOLEAN
        BY DEF Live
      <4>3. QED
        BY <4>1, <4>2
    <3>6. Register!Tombstones(Versions(a)) = {[id |-> o, live |-> FALSE]}
      BY <3>3 DEF Register!Tombstones
    <3>7. QED
      BY <3>3, <3>4, <3>5, <3>6
  <2>2. CASE ~ \E o \in Replaceables : Present(o) /\ Address(o) = a
    <3>1. \A o \in Replaceables : Address(o) = a => ~Present(o)'
      BY <1>1, <2>2, DeletedTablePresence DEF Replaceables
    <3>2. QED
      BY <2>2, <3>1 DEF Versions
  <2>3. QED
    BY <2>1, <2>2
<1>3. QED
  BY <1>2 DEF Register!Retract

LEMMA RegisterInit ==
    ASSUME Init
    PROVE  Register!Init
BY DEF Init, Register!Init, Versions, Replaceables, Present, NoRow

LEMMA RegisterNext ==
    ASSUME IInv, [Next]_vars
    PROVE  [Register!Next]_[a \in Addresses |-> Versions(a)]
<1>1. TypeOK
  BY DEF IInv
<1>2. ASSUME \A o \in Replaceables : table'[o] = table[o]
      PROVE  UNCHANGED [a \in Addresses |-> Versions(a)]
  BY <1>2, VersionsKept
<1>3. CASE UNCHANGED table
  BY <1>2, <1>3
<1>4. ASSUME NEW h \in Handlers, SoftDelete(h) PROVE Register!Next
  <2>1. ops[h].id \in Ids /\ table' = DeletedTable(ops[h].id)
    BY <1>1, <1>4 DEF SoftDelete, TypeOK, Op
  <2>2. Register!Retract
    BY <2>1, SoftDeleteRetracts
  <2>3. QED
    BY <2>2 DEF Register!Next
<1>5. ASSUME NEW h \in Handlers, Create(h), ~Present(ops[h].id)
      PROVE  \A o \in Replaceables : table'[o] = table[o]
  <2>1. /\ ops[h].id \in Ids
        /\ ~Upserted(ops[h].id)
        /\ table' = CreatedTable(ops[h].id)
    BY <1>1, <1>5 DEF Create, TypeOK, Op
  <2>2. QED
    BY <1>1, <1>5, <2>1, CreatedTablePresence DEF Replaceables
<1>6. ASSUME NEW h \in Handlers, Upsert(h),
             UpsertOutcome(ops[h].id) = "written"
      PROVE  Register!Next
  <2>1. PICK u \in Ids : u = ops[h].id
    BY <1>1 DEF TypeOK, Op
  <2>2. Upserted(u) /\ UpsertOutcome(u) = "written" /\ table' = UpsertedTable(u)
    BY <1>6, <2>1 DEF Upsert
  <2>3. u \in Replaceables /\ Register!Publish(u)
    BY <2>2, UpsertPublishes
  <2>4. QED
    BY <2>3 DEF Register!Next
<1>7. QED
  BY <1>2, <1>3, <1>4, <1>5, <1>6
     DEF Next, vars, Accept, Create, Upsert, StatementFails, Reply, Crash

(* The table, whatever its handlers do to it, is one register per address: *)
(* a version is written only over older ones, a deletion leaves a          *)
(* tombstone, and nothing else changes what an address holds.              *)
THEOREM TableImplementsRegister == Spec => ImplementsRegister
<1>1. Init => Register!Init
  BY RegisterInit
<1>2. IInv /\ [Next]_vars =>
          [Register!Next]_[a \in Addresses |-> Versions(a)]
  BY RegisterNext
<1>3. QED
  BY <1>1, <1>2, Invariance, PTL DEF Spec, ImplementsRegister, Register!Spec
=============================================================================
