-------------------------------- MODULE PubSub --------------------------------
(***************************************************************************)
(* Subscriptions and live events in the relay's cluster.                   *)
(*                                                                         *)
(* Each client's connection belongs to one worker process.  A REQ first    *)
(* registers the subscription in the connection's adapter, then streams    *)
(* the stored events; meanwhile events published by others are broadcast   *)
(* inside the worker and, through the primary process, to the other        *)
(* workers.  A published event is inserted before it is broadcast; the     *)
(* broadcast is emitted on the publisher's adapter, whose listeners are    *)
(* removed when its connection closes.                                     *)
(***************************************************************************)
EXTENDS Naturals, Sequences, FiniteSets, FiniteSetsExt

CONSTANTS
    Workers,
    Clients,      \* connections, each used once
    HomeOf,       \* the worker that accepts each connection
    Publishers,   \* the clients that send EVENT messages
    Subscribers,  \* the clients that send REQ and CLOSE messages
    Events,
    Ephemeral,    \* the events that are broadcast and not stored
    Deletable,    \* the events their authors may delete
    SubIds,
    Filters,      \* a REQ has one
    NoFilter,     \* no subscription under an id
    Match,        \* the events each filter matches
    Copies,       \* the rows of each event in a filter's query: as many as tags
                  \* that match in the join with event_tags, one without a join
    CreatedAt,    \* created_at of each event
    Limits,       \* the limit of each filter that has one
    DefaultLimit, \* of a query whose filter has none, 500 in the code
    MaxReqs,      \* bound: REQ messages per connection
    MaxEvents,    \* bound: EVENT messages per connection
    MaxSubscriptions, \* limits.client.subscription.maxSubscriptions, 0 for none
    Faults        \* TRUE if workers may die and statements may fail

ASSUME PubSubAssumption ==
    /\ HomeOf \in [Clients -> Workers]
    /\ Publishers \subseteq Clients
    /\ Subscribers \subseteq Clients
    /\ Events # {}
    /\ Ephemeral \subseteq Events
    /\ NoFilter \notin Filters
    /\ Match \in [Filters -> SUBSET Events]
    /\ Deletable \subseteq Events
    /\ Copies \in [Filters -> [Events -> Nat \ {0}]]
    /\ CreatedAt \in [Events -> Nat]
    /\ DOMAIN Limits \subseteq Filters /\ \A f \in DOMAIN Limits : Limits[f] \in Nat
    /\ DefaultLimit \in Nat
    /\ MaxReqs \in Nat /\ MaxEvents \in Nat
    /\ MaxSubscriptions \in Nat
    /\ Faults \in BOOLEAN

VARIABLES
    up,         \* the workers that run
    conn,       \* conn[c]: the state of c's connection
    subs,       \* subs[c][s]: the filter of c's subscription s, or NoFilter
    fetches,    \* fetches[c]: the REQ messages of c whose handlers ran
    pub,        \* pub[c]: the EVENT message of c that is being handled
    stored,     \* the rows of the events table
    deleted,    \* those with deleted_at
    toPrimary,  \* toPrimary[w]: messages from worker w to the primary
    toWorker,   \* toWorker[w]: messages from the primary to worker w
    seen,       \* history: seen[c][s]: what was sent to c for s since its REQ
    announced   \* history: announced[w][e]: times w broadcast e to its clients

vars == <<up, conn, subs, fetches, pub, stored, deleted, toPrimary, toWorker, seen, announced>>

(* left are the rows still to be sent; past, which is history, the events  *)
(* that the client's worker had broadcast when the REQ came.               *)
Fetch == [sub: SubIds, filter: Filters, left: SUBSET Events, past: SUBSET Events,
          phase: {"query", "stream", "eose", "failed"}]

Publication == [pc: {"idle", "fresh", "duplicate"}, event: Events, sent: Nat]

(* After n EVENT messages. *)
IdlePublication(n) ==
    [pc |-> "idle", event |-> CHOOSE e \in Events : TRUE, sent |-> n]

NoSubscriptions == [s \in SubIds |-> NoFilter]

Open(c) == conn[c] = "open"

Active(c) == {s \in SubIds : subs[c][s] # NoFilter}

ClientsOf(w) == {c \in Clients : HomeOf[c] = w}

Init ==
    /\ up = Workers
    /\ conn = [c \in Clients |-> "new"]
    /\ subs = [c \in Clients |-> NoSubscriptions]
    /\ fetches = [c \in Clients |-> <<>>]
    /\ pub = [c \in Clients |-> IdlePublication(0)]
    /\ stored = {}
    /\ deleted = {}
    /\ toPrimary = [w \in Workers |-> <<>>]
    /\ toWorker = [w \in Workers |-> <<>>]
    /\ seen = [c \in Clients |-> [s \in SubIds |-> {}]]
    /\ announced = [w \in Workers |-> [e \in Events |-> 0]]

-----------------------------------------------------------------------------
(* Connections. *)

Connect(c) ==
    /\ conn[c] = "new"
    /\ HomeOf[c] \in up
    /\ conn' = [conn EXCEPT ![c] = "open"]
    /\ UNCHANGED <<up, subs, fetches, pub, stored, deleted, toPrimary, toWorker, seen, announced>>

(* onClientClose clears the subscriptions and removes the listeners of the *)
(* adapter.  abort() does nothing, so handlers in progress go on: what a   *)
(* fetch still emits is heard by nobody, but an insert takes effect.       *)
Close(c) ==
    /\ Open(c)
    /\ conn' = [conn EXCEPT ![c] = "closed"]
    /\ subs' = [subs EXCEPT ![c] = NoSubscriptions]
    /\ fetches' = [fetches EXCEPT ![c] = <<>>]
    /\ UNCHANGED <<up, pub, stored, deleted, toPrimary, toWorker, seen, announced>>

-----------------------------------------------------------------------------
(* Subscriptions. *)

(* Mutant: the subscription being added is not counted. *)
RoomUncounted(c, s, f) ==
    /\ subs[c][s] # f
    /\ MaxSubscriptions > 0 /\ subs[c][s] = NoFilter =>
          Cardinality(Active(c)) <= MaxSubscriptions

(* canSubscribe refuses a repeated REQ, and a new id beyond the limit. *)
CanSubscribe(c, s, f) ==
    /\ subs[c][s] # f
    /\ MaxSubscriptions > 0 /\ subs[c][s] = NoFilter =>
          Cardinality(Active(c)) + 1 <= MaxSubscriptions

AnnouncedTo(c) == {e \in Events : announced[HomeOf[c]][e] > 0}

NewFetch(c, s, f) ==
    [sub |-> s, filter |-> f, left |-> {}, past |-> AnnouncedTo(c), phase |-> "query"]

(* A REQ: the subscription is registered before its handler queries.  A    *)
(* REQ under an id in use replaces the filter, and the earlier fetch goes  *)
(* on.  A refused one is answered with a NOTICE and changes nothing.       *)
Subscribe(c, s, f) ==
    /\ c \in Subscribers /\ Open(c)
    /\ Len(fetches[c]) < MaxReqs
    /\ CanSubscribe(c, s, f)
    /\ subs' = [subs EXCEPT ![c][s] = f]
    /\ fetches' = [fetches EXCEPT ![c] = Append(@, NewFetch(c, s, f))]
    /\ seen' = [seen EXCEPT ![c][s] = {}]
    /\ UNCHANGED <<up, conn, pub, stored, deleted, toPrimary, toWorker, announced>>

Unsubscribe(c, s) ==
    /\ c \in Subscribers /\ Open(c)
    /\ subs[c][s] # NoFilter
    /\ subs' = [subs EXCEPT ![c][s] = NoFilter]
    /\ UNCHANGED <<up, conn, fetches, pub, stored, deleted, toPrimary, toWorker, seen, announced>>

NotFetching == <<up, conn, subs, pub, stored, deleted, toPrimary, toWorker, announced>>

RowLimit(f) == IF f \in DOMAIN Limits THEN Limits[f] ELSE DefaultLimit

(* ORDER BY: a filter with a limit gets the newest rows first, one without *)
(* the oldest.                                                             *)
Precedes(f, d, e) ==
    IF f \in DOMAIN Limits THEN CreatedAt[d] > CreatedAt[e] ELSE CreatedAt[d] < CreatedAt[e]

(* These events' rows, in the query's order, fit in the limit, the last    *)
(* events perhaps with one row each.                                       *)
Fit(f, found) ==
    MapThenSumSet(LAMBDA d : IF \E e \in found : Precedes(f, d, e) THEN Copies[f][d] ELSE 1,
                  found) <= RowLimit(f)

(* They have as many rows as the limit. *)
Fill(f, found) == RowLimit(f) <= MapThenSumSet(LAMBDA e : Copies[f][e], found)

(* Mutant: the query has a LIMIT and no ORDER BY. *)
AnswersUnordered(f, found) ==
    LET all == stored \cap Match[f] IN
    /\ found \subseteq all
    /\ Cardinality(found) <= RowLimit(f)
    /\ found = all \/ Fill(f, found)

(* What the query may return: all that is there, or what fills the limit,  *)
(* none of the events left out preceding one of them.                      *)
Answers(f, found) ==
    LET all == stored \cap Match[f] IN
    /\ found \subseteq all
    /\ Fit(f, found)
    /\ \/ found = all
       \/ Fill(f, found) /\ \A d \in found, e \in all \ found : ~Precedes(f, e, d)

(* The query's snapshot of the table, ordered and cut.  Deleted rows are   *)
(* among it, and are dropped from the stream.                              *)
Query(c, i) ==
    /\ fetches[c][i].phase = "query"
    /\ \E found \in SUBSET Events :
          /\ Answers(fetches[c][i].filter, found)
          /\ fetches' = [fetches EXCEPT ![c][i].phase = "stream",
                                        ![c][i].left = found \ deleted]
    /\ UNCHANGED seen
    /\ UNCHANGED NotFetching

(* The last REQ under its id, still in force. *)
InForce(c, i) ==
    /\ subs[c][fetches[c][i].sub] = fetches[c][i].filter
    /\ \A j \in DOMAIN fetches[c] : fetches[c][j].sub = fetches[c][i].sub => j <= i

(* Mutant: a fetch whose subscription was replaced or closed stops. *)
StreamsInForce(c, i) == fetches[c][i].phase = "stream" /\ InForce(c, i)

Streams(c, i) == fetches[c][i].phase = "stream"

(* One row goes through the pipeline, whatever became of the subscription. *)
SendStored(c, i, e) ==
    /\ Streams(c, i)
    /\ e \in fetches[c][i].left
    /\ fetches' = [fetches EXCEPT ![c][i].left = @ \ {e}]
    /\ seen' = [seen EXCEPT ![c][fetches[c][i].sub] = @ \cup {e}]
    /\ UNCHANGED NotFetching

SendEOSE(c, i) ==
    /\ Streams(c, i)
    /\ fetches[c][i].left = {}
    /\ fetches' = [fetches EXCEPT ![c][i].phase = "eose"]
    /\ UNCHANGED seen
    /\ UNCHANGED NotFetching

(* The query fails: the error is logged, and the client gets no EOSE. *)
FetchFails(c, i) ==
    /\ Faults
    /\ fetches[c][i].phase \in {"query", "stream"}
    /\ fetches' = [fetches EXCEPT ![c][i].phase = "failed", ![c][i].left = {}]
    /\ UNCHANGED seen
    /\ UNCHANGED NotFetching

-----------------------------------------------------------------------------
(* Publishing. *)

Publishing(c, result, e) ==
    [pc |-> result, event |-> e, sent |-> pub[c].sent + 1]

(* Mutant: ephemeral events are stored as well. *)
InsertedAlways(e) == stored \cup {e}

Inserted(e) == IF e \in Ephemeral THEN stored ELSE stored \cup {e}

(* The statement of an EVENT message's handler, in which create inserts    *)
(* the event, finds it there, or fails and tells its caller the same.  An  *)
(* ephemeral event has no statement.                                       *)
Publish(c, e) ==
    /\ c \in Publishers /\ Open(c)
    /\ pub[c].pc = "idle" /\ pub[c].sent < MaxEvents
    /\ \/ /\ e \notin stored
          /\ stored' = Inserted(e)
          /\ pub' = [pub EXCEPT ![c] = Publishing(c, "fresh", e)]
       \/ /\ e \notin Ephemeral
          /\ e \in stored \/ Faults
          /\ pub' = [pub EXCEPT ![c] = Publishing(c, "duplicate", e)]
          /\ UNCHANGED stored
    /\ UNCHANGED <<up, conn, subs, fetches, deleted, toPrimary, toWorker, seen, announced>>

(* The statement of a deletion's handler, deleteByPubkeyAndIds. *)
Delete(e) ==
    /\ e \in (stored \cap Deletable) \ deleted
    /\ deleted' = deleted \cup {e}
    /\ UNCHANGED <<up, conn, subs, fetches, pub, stored, toPrimary, toWorker, seen, announced>>

(* Mutant: a client still waiting for EOSE gets no live events. *)
SettledSubs(c, e) ==
    {s \in Active(c) : /\ e \in Match[subs[c][s]]
                       /\ \A i \in DOMAIN fetches[c] :
                              fetches[c][i].phase \in {"eose", "failed"}}

MatchingSubs(c, e) == {s \in Active(c) : e \in Match[subs[c][s]]}

(* Worker w hands e to the clients it serves whose sockets are open. *)
Announce(w, e) ==
    /\ seen' = [c \in Clients |->
                  IF HomeOf[c] = w /\ Open(c)
                  THEN [s \in SubIds |-> IF s \in MatchingSubs(c, e)
                                         THEN seen[c][s] \cup {e} ELSE seen[c][s]]
                  ELSE seen[c]]
    /\ announced' = [announced EXCEPT ![w][e] = @ + 1]

(* Mutant: the broadcast follows a duplicate as well. *)
AnyResult(c) == Open(c)

Announces(c) == Open(c) /\ pub[c].pc = "fresh"

(* The continuation of the handler: the OK, and for a new event the        *)
(* broadcast, locally and then to the primary.  On a closed connection     *)
(* nobody listens to either.                                               *)
Respond(c) ==
    /\ pub[c].pc # "idle"
    /\ pub' = [pub EXCEPT ![c] = IdlePublication(@.sent)]
    /\ IF Announces(c)
       THEN /\ Announce(HomeOf[c], pub[c].event)
            /\ toPrimary' = [toPrimary EXCEPT ![HomeOf[c]] = Append(@, pub[c].event)]
       ELSE UNCHANGED <<seen, announced, toPrimary>>
    /\ UNCHANGED <<up, conn, subs, fetches, stored, deleted, toWorker>>

(* Mutants: the source is not skipped; and only the source is served. *)
Everyone(w) == up

OnlySource(w) == up \cap {w}

ForwardTargets(w) == up \ {w}

(* onClusterMessage: the primary passes a worker's message to the others. *)
Forward(w) ==
    /\ toPrimary[w] # <<>>
    /\ toWorker' = [v \in Workers |-> IF v \in ForwardTargets(w)
                                      THEN Append(toWorker[v], Head(toPrimary[w]))
                                      ELSE toWorker[v]]
    /\ toPrimary' = [toPrimary EXCEPT ![w] = Tail(@)]
    /\ UNCHANGED <<up, conn, subs, fetches, pub, stored, deleted, seen, announced>>

(* The worker's message handler: a broadcast to its clients only. *)
Receive(w) ==
    /\ w \in up
    /\ toWorker[w] # <<>>
    /\ toWorker' = [toWorker EXCEPT ![w] = Tail(@)]
    /\ Announce(w, Head(toWorker[w]))
    /\ UNCHANGED <<up, conn, subs, fetches, pub, stored, deleted, toPrimary>>

-----------------------------------------------------------------------------
(* Worker deaths. *)

(* The connections are lost and so is all the process had in memory; of    *)
(* the messages it had sent the primary may still read some.               *)
Crash(w) ==
    /\ Faults
    /\ w \in up
    /\ up' = up \ {w}
    /\ conn' = [c \in Clients |-> IF HomeOf[c] = w /\ Open(c) THEN "closed" ELSE conn[c]]
    /\ subs' = [c \in Clients |-> IF HomeOf[c] = w THEN NoSubscriptions ELSE subs[c]]
    /\ fetches' = [c \in Clients |-> IF HomeOf[c] = w THEN <<>> ELSE fetches[c]]
    /\ pub' = [c \in Clients |-> IF HomeOf[c] = w THEN IdlePublication(0) ELSE pub[c]]
    /\ toWorker' = [toWorker EXCEPT ![w] = <<>>]
    /\ \E n \in 0..Len(toPrimary[w]) :
           toPrimary' = [toPrimary EXCEPT ![w] = SubSeq(@, 1, n)]
    /\ UNCHANGED <<stored, deleted, seen, announced>>

(* onClusterExit: another worker is forked ten seconds later. *)
Refork(w) ==
    /\ w \notin up
    /\ up' = up \cup {w}
    /\ UNCHANGED <<conn, subs, fetches, pub, stored, deleted, toPrimary, toWorker, seen, announced>>

FetchStep(c) ==
    \E i \in DOMAIN fetches[c] :
        Query(c, i) \/ SendEOSE(c, i) \/ \E e \in Events : SendStored(c, i, e)

Next ==
    \/ \E c \in Clients :
          \/ Connect(c)
          \/ Close(c)
          \/ \E s \in SubIds, f \in Filters : Subscribe(c, s, f)
          \/ \E s \in SubIds : Unsubscribe(c, s)
          \/ FetchStep(c)
          \/ \E i \in DOMAIN fetches[c] : FetchFails(c, i)
          \/ \E e \in Events : Publish(c, e)
          \/ Respond(c)
    \/ \E e \in Events : Delete(e)
    \/ \E w \in Workers : Forward(w) \/ Receive(w) \/ Crash(w) \/ Refork(w)

(* The event loops of the processes run on, and IPC channels deliver. *)
Fairness ==
    /\ \A c \in Clients : WF_vars(FetchStep(c)) /\ WF_vars(Respond(c))
    /\ \A w \in Workers : WF_vars(Forward(w)) /\ WF_vars(Receive(w))

Spec == Init /\ [][Next]_vars

FairSpec == Spec /\ Fairness

-----------------------------------------------------------------------------
(* Properties. *)

TypeOK ==
    /\ up \subseteq Workers
    /\ conn \in [Clients -> {"new", "open", "closed"}]
    /\ subs \in [Clients -> [SubIds -> Filters \cup {NoFilter}]]
    /\ fetches \in [Clients -> Seq(Fetch)]
    /\ pub \in [Clients -> Publication]
    /\ stored \subseteq Events \ Ephemeral
    /\ deleted \subseteq stored
    /\ toPrimary \in [Workers -> Seq(Events)]
    /\ toWorker \in [Workers -> Seq(Events)]
    /\ seen \in [Clients -> [SubIds -> SUBSET Events]]
    /\ announced \in [Workers -> [Events -> Nat]]

(* Regular events of S fill the filter's limit, and none of them comes     *)
(* after e in the query's order.                                           *)
FullPage(S, f, e) ==
    \E page \in SUBSET ((S \cap Match[f]) \ Ephemeral) :
        Fill(f, page) /\ \A d \in page : ~Precedes(f, e, d)

(* No gap between stored and live events.  A subscription in force has     *)
(* been sent every stored event that matches and that its worker has       *)
(* broadcast since the REQ, whatever its query does; and once its EOSE is  *)
(* out, every one broadcast before the REQ too that is not deleted, unless *)
(* the LIMIT of findByFilters was spent on events that do not come after   *)
(* it, sent or deleted.  Nothing else keeps an event from a subscriber,    *)
(* however queries, inserts, deletions, broadcasts, worker deaths and      *)
(* replaced subscriptions interleave.                                      *)
NoGap ==
    \A c \in Clients : \A i \in DOMAIN fetches[c] :
        (Open(c) /\ InForce(c, i)) =>
            LET fetch == fetches[c][i]
                sent  == seen[c][fetch.sub]
                read  == sent \cup deleted
            IN  \A e \in stored \cap Match[fetch.filter] \cap AnnouncedTo(c) :
                    /\ e \notin fetch.past => e \in sent
                    /\ fetch.phase = "eose" => e \in read \/ FullPage(read, fetch.filter, e)

(* A stored event is broadcast at most once to the clients of each worker, *)
(* whichever connections publish it and however often: one insert wins,    *)
(* and the primary does not send a message back to its source.             *)
AnnouncedOnce ==
    \A w \in Workers, e \in Events \ Ephemeral : announced[w][e] <= 1

(* What a subscriber has seen, others can fetch: a regular event is sent   *)
(* only after its insert, also when the insert fails.                      *)
SeenIsStored ==
    \A c \in Clients, s \in SubIds : seen[c][s] \subseteq stored \cup Ephemeral

(* Subscriptions stay within maxSubscriptions: canSubscribe's test and the *)
(* registration are one synchronous step, whatever fetches are going on.   *)
WithinLimit ==
    MaxSubscriptions > 0 =>
        \A c \in Clients : Cardinality(Active(c)) <= MaxSubscriptions

Wants(c, s, e) ==
    Open(c) /\ subs[c][s] # NoFilter /\ e \in Match[subs[c][s]]

(* Broadcast by its publisher's worker, and still on its way to c's. *)
Due(c, s, e) ==
    /\ Wants(c, s, e)
    /\ \E w \in Workers : announced[w][e] > 0
    /\ announced[HomeOf[c]][e] = 0

(* Sent, or no longer wanted, or the REQ came after the broadcast, so that *)
(* NoGap and FetchesFinish say what becomes of it.                         *)
Served(c, s, e) ==
    \/ e \in seen[c][s] \/ ~Wants(c, s, e)
    \/ \E i \in DOMAIN fetches[c] :
          InForce(c, i) /\ fetches[c][i].sub = s /\ e \in fetches[c][i].past

(* An event that its publisher's worker has broadcast reaches every open   *)
(* subscription it matches on every other worker, ephemeral ones included, *)
(* through the primary process.                                            *)
BroadcastReachesAll ==
    \A c \in Clients, s \in SubIds, e \in Events : Due(c, s, e) ~> Served(c, s, e)

(* A client that subscribes gets its stored events and EOSE unless the     *)
(* query fails or it leaves; replacing or closing the subscription does    *)
(* not stop the stream.                                                    *)
FetchesFinish ==
    \A c \in Clients, i \in 1..MaxReqs :
        i \in DOMAIN fetches[c] ~>
            (i \in DOMAIN fetches[c] => fetches[c][i].phase \in {"eose", "failed"})
=============================================================================
