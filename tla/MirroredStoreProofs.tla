-------------------------- MODULE MirroredStoreProofs --------------------------
(***************************************************************************)
(* What the table still guarantees when a static mirror writes to it too,  *)
(* whatever the upstream relay sends and whenever.                         *)
(***************************************************************************)
EXTENDS MirroredStore, EventStoreProofs

(* A mirrored row has no deduplication key, so of KeyedIffUpserted this    *)
(* half is left: what has a key is a version at its address.               *)
KeyedAreUpserted ==
    \A id \in Ids : Present(id) /\ table[id].keyed => Upserted(id)

(* The event of a handler that is about to answer OK is kept. *)
AnsweredIsKept ==
    \A h \in Handlers, id \in Ids :
        /\ ops[h].id = id /\ Strategy(id) # "ephemeral"
        /\ ops[h].pc = "reply" /\ ops[h].result = "ok"
        => Kept(id)

(* A retired event that no version can replace still has its row. *)
RetiredPlain ==
    \A id \in retired : ~Upserted(id) => Present(id) /\ ~Live(id)

MirrorInv ==
    /\ TypeOK
    /\ KeyedAreUpserted
    /\ AckedIsKept
    /\ AnsweredIsKept
    /\ RetiredPlain

-----------------------------------------------------------------------------
(* What the statements do to the table. *)

LEMMA MirroredTablePresence ==
    ASSUME TypeOK, NEW m \in Ids, NEW o \in Ids, table' = MirroredTable(m)
    PROVE  /\ Present(o)' <=> Present(o) \/ o = m
           /\ Present(o) => table'[o] = table[o]
           /\ ~Present(o) => table'[o].keyed = FALSE \/ table'[o] = table[o]
<1>1. CASE Present(m)
  BY <1>1 DEF MirroredTable, Present
<1>2. CASE ~Present(m)
  <2>1. table' = CreatedTable(m)
    BY <1>2 DEF MirroredTable
  <2>2. QED
    BY <1>2, <2>1, CreatedTablePresence DEF LiveRow
<1>3. QED
  BY <1>1, <1>2

(* The rows an upsert that writes takes over are older versions at its     *)
(* address, and plain events are never among them.                         *)
LEMMA TakenOver ==
    ASSUME KeyedAreUpserted, NEW u \in Ids, UpsertOutcome(u) = "written",
           NEW o \in Ids, o \in Conflicting(u)
    PROVE  /\ Upserted(o) /\ Address(o) = Address(u)
           /\ Event[o].created_at < Event[u].created_at
<1>1. /\ Present(o) /\ table[o].keyed /\ Address(o) = Address(u)
  BY DEF Conflicting
<1>2. Newer(u, o)
  BY DEF UpsertOutcome, NoArbiter
<1>3. QED
  BY <1>1, <1>2 DEF KeyedAreUpserted, Newer

(* What is kept stays kept: a row goes only when a newer version takes its *)
(* address.                                                                *)
LEMMA UpsertKeeps ==
    ASSUME TypeOK, KeyedAreUpserted, NEW u \in Ids, Upserted(u),
           UpsertOutcome(u) = "written", table' = UpsertedTable(u),
           NEW id \in Ids, Kept(id)
    PROVE  Kept(id)'
<1>1. Present(u)' /\ table'[u].keyed
  BY UpsertedTablePresence DEF LiveRow
<1>2. \A o \in Ids : Event[o].created_at \in Nat
  BY EventStoreAssumption DEF Content
<1>3. CASE id = u
  BY <1>1, <1>3 DEF Kept
<1>4. CASE id # u /\ Present(id)
  <2>1. CASE id \notin Conflicting(u)
    BY <1>4, <2>1, UpsertedTablePresence DEF Kept
  <2>2. CASE id \in Conflicting(u)
    <3>1. /\ Upserted(id) /\ Address(id) = Address(u)
          /\ Event[id].created_at < Event[u].created_at
      BY <2>2, TakenOver
    <3>2. QED
      BY <1>1, <1>2, <1>4, <3>1 DEF Kept, Superseded
  <2>3. QED
    BY <2>1, <2>2
<1>5. CASE id # u /\ Superseded(id)
  <2>1. PICK o \in Ids \ {id} :
            /\ Present(o) /\ table[o].keyed /\ Upserted(o) /\ Upserted(id)
            /\ Address(o) = Address(id)
            /\ Event[id].created_at <= Event[o].created_at
    BY <1>5 DEF Superseded
  <2>2. CASE o = u
    BY <1>1, <2>1, <2>2 DEF Kept, Superseded
  <2>3. CASE o # u /\ o \notin Conflicting(u)
    <3>1. Present(o)' /\ table'[o] = table[o]
      BY <2>1, <2>3, UpsertedTablePresence
    <3>2. QED
      BY <2>1, <3>1 DEF Kept, Superseded
  <2>4. CASE o \in Conflicting(u)
    <3>1. /\ Address(o) = Address(u)
          /\ Event[o].created_at < Event[u].created_at
      BY <2>1, <2>4, TakenOver
    <3>2. Event[id].created_at <= Event[u].created_at
      BY <1>2, <2>1, <3>1
    <3>3. QED
      BY <1>1, <1>5, <2>1, <3>1, <3>2 DEF Kept, Superseded
  <2>5. QED
    BY <2>2, <2>3, <2>4
<1>6. QED
  BY <1>3, <1>4, <1>5 DEF Kept

LEMMA OthersKeep ==
    ASSUME TypeOK, NEW id \in Ids, Kept(id),
           \A o \in Ids : Present(o) => Present(o)' /\ table'[o].keyed = table[o].keyed
    PROVE  Kept(id)'
BY DEF Kept, Superseded

-----------------------------------------------------------------------------
(* One step, seen from the table. *)

(* The table is left alone, or one statement was executed. *)
LEMMA TableStep ==
    ASSUME TypeOK, [MirroredNext]_vars
    PROVE  \/ UNCHANGED table
           \/ \E d \in Ids : table' = DeletedTable(d)
           \/ \E c \in Ids : ~Present(c) /\ ~Upserted(c) /\ table' = CreatedTable(c)
           \/ \E u \in Ids : /\ Upserted(u) /\ UpsertOutcome(u) = "written"
                             /\ table' = UpsertedTable(u)
           \/ \E m \in Ids : table' = MirroredTable(m) /\ UNCHANGED <<ops, acked, retired, doomed>>
<1>1. \A h \in Handlers : ops[h].id \in Ids
  BY DEF TypeOK, Op
<1>2. ASSUME NEW m \in Upstream, MirrorMessage(m)
      PROVE  m \in Ids /\ table' = MirroredTable(m) /\ UNCHANGED <<ops, acked, retired, doomed>>
  BY <1>2, MirroredStoreAssumption DEF MirrorMessage
<1>3. ASSUME NEW h \in Handlers, SoftDelete(h) PROVE table' = DeletedTable(ops[h].id)
  BY <1>3 DEF SoftDelete
<1>4. ASSUME NEW h \in Handlers, Create(h)
      PROVE  \/ UNCHANGED table
             \/ /\ ~Present(ops[h].id) /\ ~Upserted(ops[h].id)
                /\ table' = CreatedTable(ops[h].id)
  BY <1>4 DEF Create
<1>5. ASSUME NEW h \in Handlers, Upsert(h)
      PROVE  \/ UNCHANGED table
             \/ /\ Upserted(ops[h].id) /\ UpsertOutcome(ops[h].id) = "written"
                /\ table' = UpsertedTable(ops[h].id)
  BY <1>5 DEF Upsert
<1>6. ASSUME NEW h \in Handlers,
             (\E i \in Ids : Accept(h, i)) \/ StatementFails(h) \/ Reply(h) \/ Crash(h)
      PROVE  UNCHANGED table
  BY <1>6 DEF Accept, StatementFails, Reply, Crash
<1>7. CASE UNCHANGED vars
  BY <1>7 DEF vars
<1>8. QED
  BY <1>1, <1>2, <1>3, <1>4, <1>5, <1>6, <1>7 DEF MirroredNext, Next

LEMMA MirrorTypeOK == TypeOK /\ [MirroredNext]_vars => TypeOK'
<1>. SUFFICES ASSUME TypeOK, [MirroredNext]_vars PROVE TypeOK'
  OBVIOUS
<1>1. CASE [Next]_vars
  BY <1>1, TypeOKNext
<1>2. ASSUME NEW m \in Upstream, MirrorMessage(m) PROVE TypeOK'
  <2>1. m \in Ids
    BY MirroredStoreAssumption
  <2>2. table' \in [Ids -> Row]
    BY <1>2, <2>1, TablesTyped DEF MirrorMessage, MirroredTable, TypeOK
  <2>3. QED
    BY <1>2, <2>2 DEF MirrorMessage, TypeOK
<1>3. QED
  BY <1>1, <1>2 DEF MirroredNext

LEMMA MirrorKeeps ==
    ASSUME TypeOK, KeyedAreUpserted, [MirroredNext]_vars, NEW id \in Ids, Kept(id)
    PROVE  Kept(id)'
<1>1. CASE UNCHANGED table
  BY <1>1, OthersKeep DEF Present
<1>2. ASSUME NEW d \in Ids, table' = DeletedTable(d) PROVE Kept(id)'
  BY <1>2, DeletedTablePresence, OthersKeep
<1>3. ASSUME NEW c \in Ids, ~Present(c), table' = CreatedTable(c) PROVE Kept(id)'
  <2>1. \A o \in Ids : Present(o) => Present(o)' /\ table'[o] = table[o]
    BY <1>3, CreatedTablePresence
  <2>2. QED
    BY <2>1, OthersKeep
<1>4. ASSUME NEW u \in Ids, Upserted(u), UpsertOutcome(u) = "written",
             table' = UpsertedTable(u)
      PROVE  Kept(id)'
  BY <1>4, UpsertKeeps
<1>5. ASSUME NEW m \in Ids, table' = MirroredTable(m) PROVE Kept(id)'
  <2>1. \A o \in Ids : Present(o) => Present(o)' /\ table'[o] = table[o]
    BY <1>5, MirroredTablePresence
  <2>2. QED
    BY <2>1, OthersKeep
<1>6. QED
  BY <1>1, <1>2, <1>3, <1>4, <1>5, TableStep

LEMMA MirrorKeys ==
    ASSUME TypeOK, KeyedAreUpserted, [MirroredNext]_vars
    PROVE  KeyedAreUpserted'
<1>1. SUFFICES ASSUME NEW id \in Ids, Present(id)', table'[id].keyed PROVE Upserted(id)
  BY DEF KeyedAreUpserted
<1>2. CASE UNCHANGED table
  BY <1>1, <1>2 DEF KeyedAreUpserted, Present
<1>3. ASSUME NEW d \in Ids, table' = DeletedTable(d) PROVE Upserted(id)
  BY <1>1, <1>3, DeletedTablePresence DEF KeyedAreUpserted
<1>4. ASSUME NEW c \in Ids, ~Present(c), table' = CreatedTable(c) PROVE Upserted(id)
  BY <1>1, <1>4, CreatedTablePresence DEF KeyedAreUpserted, LiveRow
<1>5. ASSUME NEW u \in Ids, Upserted(u), table' = UpsertedTable(u) PROVE Upserted(id)
  BY <1>1, <1>5, UpsertedTablePresence DEF KeyedAreUpserted
<1>6. ASSUME NEW m \in Ids, table' = MirroredTable(m) PROVE Upserted(id)
  <2>1. CASE Present(id)
    BY <1>1, <1>6, <2>1, MirroredTablePresence DEF KeyedAreUpserted
  <2>2. CASE ~Present(id)
    <3>1. table'[id] # table[id]
      BY <1>1, <2>2 DEF Present
    <3>2. table'[id].keyed = FALSE
      BY <1>6, <2>2, <3>1, MirroredTablePresence
    <3>3. QED
      BY <1>1, <3>2
  <2>3. QED
    BY <2>1, <2>2
<1>7. QED
  BY <1>2, <1>3, <1>4, <1>5, <1>6, TableStep

-----------------------------------------------------------------------------
(* What is acknowledged, and what is retired. *)

(* A handler that comes to answer OK has written the row. *)
LEMMA MirrorAnswers ==
    ASSUME TypeOK, KeyedAreUpserted, AnsweredIsKept, [MirroredNext]_vars
    PROVE  AnsweredIsKept'
<1>. SUFFICES ASSUME NEW g \in Handlers, NEW id \in Ids,
                     ops'[g].id = id, Strategy(id) # "ephemeral",
                     ops'[g].pc = "reply", ops'[g].result = "ok"
              PROVE  Kept(id)'
  BY DEF AnsweredIsKept
<1>1. CASE ops'[g] = ops[g]
  <2>1. Kept(id)
    BY <1>1 DEF AnsweredIsKept
  <2>2. QED
    BY <2>1, MirrorKeeps
<1>2. ASSUME NEW h \in Handlers, NEW i \in Ids, Accept(h, i), ops'[g] # ops[g] PROVE FALSE
  <2>1. /\ g = h /\ ops'[g].id = i
        /\ ops'[g].pc = "reply" => Strategy(i) = "ephemeral"
    BY <1>2 DEF Accept, TypeOK
  <2>2. QED
    BY <2>1
<1>3. ASSUME NEW h \in Handlers, SoftDelete(h), ops'[g] # ops[g] PROVE FALSE
  BY <1>3 DEF SoftDelete, Goto, TypeOK, Op
<1>4. ASSUME NEW h \in Handlers, Create(h), ops'[g] # ops[g] PROVE Kept(id)'
  <2>1. g = h /\ ops[h].id = id
    BY <1>4 DEF Create, Goto, TypeOK, Op
  <2>2. ~Present(id) /\ table' = CreatedTable(id)
    BY <1>4, <2>1 DEF Create, Goto, TypeOK, Op
  <2>3. Present(id)'
    BY <2>2, CreatedTablePresence
  <2>4. QED
    BY <2>3 DEF Kept
<1>5. ASSUME NEW h \in Handlers, Upsert(h), ops'[g] # ops[g] PROVE Kept(id)'
  <2>1. g = h /\ ops[h].id = id
    BY <1>5 DEF Upsert, Goto, TypeOK, Op
  <2>2. UpsertOutcome(id) = "written"
    BY <1>5, <2>1 DEF Upsert, Goto, TypeOK, Op
  <2>3. table' = UpsertedTable(id)
    BY <1>5, <2>1, <2>2 DEF Upsert
  <2>4. table'[id].state = "live"
    BY <2>3 DEF UpsertedTable, LiveRow
  <2>5. QED
    BY <2>4 DEF Kept, Present
<1>6. ASSUME NEW h \in Handlers, StatementFails(h), ops'[g] # ops[g] PROVE FALSE
  BY <1>6 DEF StatementFails, Goto, TypeOK, Op
<1>7. ASSUME NEW h \in Handlers, Reply(h) \/ Crash(h), ops'[g] # ops[g] PROVE FALSE
  BY <1>7 DEF Reply, Crash, IdleOp, TypeOK
<1>8. ASSUME NEW m \in Upstream, MirrorMessage(m) PROVE ops'[g] = ops[g]
  BY <1>8 DEF MirrorMessage
<1>9. QED
  BY <1>1, <1>2, <1>3, <1>4, <1>5, <1>6, <1>7, <1>8 DEF MirroredNext, Next, vars

LEMMA MirrorAcks ==
    ASSUME TypeOK, KeyedAreUpserted, AckedIsKept, AnsweredIsKept, [MirroredNext]_vars
    PROVE  AckedIsKept'
<1>1. ASSUME NEW id \in acked', id \notin acked, Strategy(id) # "ephemeral"
      PROVE  id \in Ids /\ Kept(id)
  <2>1. ASSUME NEW h \in Handlers, Reply(h)
        PROVE  id = ops[h].id /\ At(h, "reply") /\ ops[h].result = "ok"
    BY <1>1, <2>1 DEF Reply
  <2>2. \E h \in Handlers : Reply(h)
    BY <1>1 DEF MirroredNext, Next, vars, MirrorMessage, Accept, SoftDelete, Create, Upsert,
                StatementFails, Crash
  <2>3. QED
    BY <1>1, <2>1, <2>2 DEF AnsweredIsKept, At, TypeOK, Op
<1>2. ASSUME NEW id \in acked, Strategy(id) # "ephemeral" PROVE id \in Ids /\ Kept(id)
  BY <1>2 DEF AckedIsKept, TypeOK
<1>3. QED
  BY <1>1, <1>2, MirrorKeeps DEF AckedIsKept

LEMMA MirrorRetires ==
    ASSUME TypeOK, KeyedAreUpserted, RetiredPlain, [MirroredNext]_vars
    PROVE  RetiredPlain'
<1>1. SUFFICES ASSUME NEW id \in retired', ~Upserted(id) PROVE Present(id)' /\ ~Live(id)'
  BY DEF RetiredPlain
<1>2. CASE id \in retired
  <2>1. id \in Ids /\ Present(id) /\ ~Live(id)
    BY <1>1, <1>2 DEF RetiredPlain, TypeOK
  <2>2. CASE UNCHANGED table
    BY <2>1, <2>2 DEF Present, Live
  <2>3. ASSUME NEW d \in Ids, table' = DeletedTable(d) PROVE Present(id)' /\ ~Live(id)'
    BY <2>1, <2>3, DeletedTablePresence
  <2>4. ASSUME NEW c \in Ids, ~Present(c), table' = CreatedTable(c)
        PROVE  table'[id] = table[id]
    BY <2>1, <2>4, CreatedTablePresence
  <2>5. ASSUME NEW u \in Ids, Upserted(u), UpsertOutcome(u) = "written",
               table' = UpsertedTable(u)
        PROVE  table'[id] = table[id]
    BY <1>1, <2>1, <2>5, UpsertedTablePresence, TakenOver
  <2>6. ASSUME NEW m \in Ids, table' = MirroredTable(m) PROVE table'[id] = table[id]
    BY <2>1, <2>6, MirroredTablePresence
  <2>7. table'[id] = table[id] => Present(id)' /\ ~Live(id)'
    BY <2>1 DEF Present, Live
  <2>8. QED
    BY <2>2, <2>3, <2>4, <2>5, <2>6, <2>7, TableStep
<1>3. CASE id \notin retired
  <2>1. PICK h \in Handlers : SoftDelete(h) /\ id \in Deletable(ops[h].id)
    BY <1>1, <1>3 DEF MirroredNext, Next, vars, MirrorMessage, Accept, SoftDelete, Create,
                      Upsert, StatementFails, Reply, Crash
  <2>2. ops[h].id \in Ids /\ id \in Ids /\ Live(id)
    BY <2>1, EventStoreAssumption DEF Deletable, Content, TypeOK, Op
  <2>3. Present(id)
    BY <2>2 DEF Live, Present
  <2>4. QED
    BY <2>1, <2>2, <2>3, DeletedTablePresence DEF SoftDelete
<1>4. QED
  BY <1>2, <1>3

-----------------------------------------------------------------------------
LEMMA MirrorInit == Init => MirrorInv
<1>1. SUFFICES ASSUME Init PROVE MirrorInv
  OBVIOUS
<1>2. TypeOK
  BY <1>1, TypeOKInit
<1>3. KeyedAreUpserted /\ AckedIsKept /\ RetiredPlain
  BY <1>1 DEF Init, KeyedAreUpserted, AckedIsKept, RetiredPlain, Present, NoRow
<1>4. AnsweredIsKept
  BY <1>1 DEF Init, AnsweredIsKept, At, IdleOp
<1>5. QED
  BY <1>2, <1>3, <1>4 DEF MirrorInv

LEMMA MirrorStep == MirrorInv /\ [MirroredNext]_vars => MirrorInv'
BY MirrorTypeOK, MirrorKeys, MirrorAnswers, MirrorAcks, MirrorRetires DEF MirrorInv

LEMMA MirrorInvariance == MirroredSpec => []MirrorInv
BY MirrorInit, MirrorStep, PTL DEF MirroredSpec

(* The mirror takes nothing from those who were answered OK: for any       *)
(* events, handlers and upstream, an acknowledged event stays in the table *)
(* or a version at least as new has its address, though mirrored rows have *)
(* no address of their own.                                                *)
THEOREM MirrorKeepsAcked == MirroredSpec => []AckedIsKept
<1>1. MirrorInv => AckedIsKept
  BY DEF MirrorInv
<1>2. QED
  BY <1>1, MirrorInvariance, PTL

(* A plain event that was deleted stays deleted, whoever sends it again,   *)
(* the mirror included.                                                    *)
THEOREM MirrorRevivesNoPlain == MirroredSpec => []PlainStaysDeleted
<1>1. MirrorInv => PlainStaysDeleted
  BY DEF MirrorInv, RetiredPlain, PlainStaysDeleted
<1>2. QED
  BY <1>1, MirrorInvariance, PTL
=============================================================================
