# NostrMesh, modelled and checked

NostrMesh stores encrypted files. An HTTP **API** puts ciphertexts into a
**Blossom** server and their metadata, as Nostr events, on **relays**; the relay
in the tree, nostream, is a cluster of Node.js processes over one PostgreSQL
database, with pay-to-relay and mirroring. Hardly any state lives in one place
or is written by one actor: handlers await the database between their steps,
several workers share the tables, a payment is learnt from two sides, and a
relay may get messages late, twice or never. The modules here state what must
hold nevertheless, TLC checks it on small instances, and TLAPS proves every
safety property of a passing run, and both refinements, for every instance.

All source paths are relative to `src/`; the relay's are below
`nostream-share/src/`. `PROJECT.json` maps every definition to its lines and
lists the hazards the properties are about.

## 1. Inventory

| component | state | operations | hard behaviours | correct when |
|---|---|---|---|---|
| event store: `event-repository.ts`, `handlers/event-strategies/*` | `events` table | create, upsert, soft delete, one statement each | handlers of all workers interleave between statements; statements fail; workers die; clients retry | one version per address, moving forward; acknowledged events kept; deletions final |
| partitioning: `migrations/20240120…` | the table's indexes | one migration | the index an upsert names moves to a partition | upserts go on working |
| mirroring: `static-mirroring-worker.ts` | a cursor, an upstream socket | write what another relay sends; relay broadcasts out | a second writer with its own rules | shares the table without harm |
| connections and subscriptions: `web-socket-adapter.ts`, `web-socket-server-adapter.ts`, `subscribe-message-handler.ts`, `app.ts`, `worker.ts` | subscriptions per socket, in memory; IPC channels | REQ, CLOSE, EVENT, broadcast, forward, fork | a stored stream, cut at a limit, and a live stream meet; replaced and closed subscriptions; dying workers | no gap but for the limit, no double broadcast, everybody served |
| pay-to-relay: `payments-service.ts`, callback controllers, `maintenance-worker.ts` | `invoices`, `users` | create, update status, confirm | callback against poll, duplicates, deaths between update and confirmation; serializable transactions that abort each other; a fee that changes, amounts cut to whole sats | each paid invoice credited once, its payer admitted if the amount covers the fee |
| blob API: `api/src/routes/blobs.ts`, `nostr/client.ts`; Blossom: `blossom/src/server.ts` | files; metadata on relays | upload, get, download, delete | three systems, no transaction; first relay to answer wins; one-second clock | metadata never dangles; deletions are final |
| event admission: `event-message-handler.ts` | none of its own | checks against limits, fees and balance | settings and rows read between awaits, stale when used | nothing passes that no version of the settings lets pass; nobody is left without an answer but for a failing await or a torn settings file |
| rate limiter: `sliding-window-rate-limiter.ts` | Redis sorted sets | `hit`, per limit | four commands per hit, several workers, a clock in milliseconds, a TTL | a window lets no more through than its rate, and old hits do not count |
| authentication: `auth-event-message-handler.ts` | challenge and flag per socket | challenge, AUTH | messages overtake each other; answers are sent again | an answer is good once, for the connection asked |
| heartbeat: `web-socket-server-adapter.ts` | `alive` flag per socket | probe, ping, pong, close | probes race messages; peers vanish | talkers stay, dead peers go |
| settings: `utils/settings.ts` | a file, a copy per worker | edit, watch, load | a file read while it is written; a watch that follows the file and not its name | the copy ends up as the file, while it is watched |
| archiving: `scripts/archive-events.sh` | hot and remote partitions | copy, delete | a copy that fails, inserts between the two | — (not modelled) |
| pages, events route, message schemas, runes, Tor, scripts | | | | not planned: pure parsing, read-only pages or start-up I/O |

They interact as follows. A connection, and each message on it, hits the rate
limiter first; the EVENT handler admits an event under the settings and with
the balance pay-to-relay keeps, the event strategy writes it, and its broadcast goes
through the connection's adapter and the primary process to the subscriptions
of all workers. The mirror writes to the same table. The API is a client of the
relays (its soft deletions are newer versions of a parameterized replaceable
event, kind 34578) and of Blossom.

## 2. Modules

```
ReplaceableRegister <--implements-- EventStore <--EXTENDS-- MirroredStore
Ledger <--implements-- Payments        PubSub        BlobApi
   ^ (Credit)
Settings <--EXTENDS-- Admission        RateLimiter
*Proofs : one per component, EXTENDS it with its lemmas and theorems (TLAPS);
          MirroredStoreProofs rests on EventStoreProofs
MC*     : one per component, EXTENDS it with the values a .cfg cannot express
```

**EventStore.** `table[id]` is the row of event `id` (an id is a hash of the
content, so the content is the constant `Event`); `ops[h]` is a handler between
two of its statements. `Accept` is `handleMessage` once the event is admitted,
`SoftDelete`, `Create` and `Upsert` are one SQL statement each, `Reply` the
continuation that sends OK and broadcasts. `StatementFails` follows the error
paths (create swallows errors, upsert does not), `Crash` is a worker's death.
`keyed` says whether `event_deduplication` is not null, which decides whether a
row can conflict on the partial unique index; `Partitioned` says whether that
index still is on the table the ON CONFLICT clause names. `acked`, `retired`
and `doomed` are history.

**ReplaceableRegister** promises, per address (author, kind, d tag), at most one
version, replaced by newer ones only, retracted but never brought back.

**MirroredStore** adds the mirror's `create` of every event it receives,
whatever its kind.

**PubSub.** `subs` is each adapter's map of subscriptions and `fetches` the REQ
handlers in progress, which outlive the subscription they serve since `abort()`
is empty. `Subscribe` registers before `Query` takes the snapshot. The query is
ordered and cut (`Answers`): at most `RowLimit` rows, the filter's limit or the
default of 500, the newest first with a limit of its own, the oldest first
without (`Precedes`). The limit counts rows of the query's join with the tags, in
which an event may have several (`Copies`, `Fit`, `Fill`), and it counts the rows of
deleted events (`deleted`, `Delete`), which the query selects and the stream
drops. `SendStored` and `SendEOSE` are the stream; `Publish` is the insert and
`Respond` the continuation that broadcasts locally and to `toPrimary`; `Forward` is
the primary's `onClusterMessage`, `Receive` the worker's. `Close` removes the
listeners, so a broadcast emitted afterwards is heard by nobody. `seen`,
`announced`, and the `past` of a fetch, which is what the worker had broadcast
when the REQ came, are history.

**Payments.** `proc` is the processor's side of an invoice, `status` and
`confirmed` its row, `cb` and `poll` the callbacks and polls in progress, `tx[q]`
the confirming transaction of one of them, `creating` the invoices whose
transaction is open over the call to the processor, with the user's row held.
`fee` is the setting, which operators change at any time, `amount` what the
processor was told to ask for, in msats, cut to whole sats for those that are
asked in sats (`Charged`, `Sat`).
Every controller is one of the paths through `ReceiveCallback`, `FindInvoice`
(LNbits only), `UpdateByCallback`, `ConfirmByCallback`; `Processor` picks what
each does differently (whose date it uses, whether it passes the unit, 409 for
a completed invoice). `StartPoll` … `ConfirmByPoll` are `onSchedule`, which
`setInterval` starts again even while the last run goes on. A confirmation is
`Begin` (the snapshot), `Credit` (the statement that waits for the rows it
writes), `Commit` (with the comparison of amount and fee, `CoversFee`) or
`Abort`: under serializable isolation a row that another transaction changed
since the snapshot may not be written (`stale`, `MayWrite`), and the code does
not try again. Nobody has to die for that. `asked` and `aborted` are history.
**Ledger** is the promise: pay, then credit once, admitting the payer or not,
and perhaps admit later (an invoice confirmed again meets a lower fee).

**BlobApi.** `blob` is Blossom's directory, `rel` the version each relay holds,
`msgs` the EVENT messages in flight and `req` the requests. A publication is
acknowledged by the first relay (`Accepted`), refused when all refuse
(`Rejected`), or given up while its messages still travel
(`PublishTimesOut`). `Resolve` hears any subset of the relays. The relay's rule
(`Replaces`) is the one EventStore proves its upsert to have, for an index that
is in place.

**RateLimiter.** `zset[l]` is the sorted set of limit `l` (its members are
`timestamp:1`, so a set of timestamps), `expires[l]` its TTL, `call[c]` a call
between two commands. `Evict`, `Add`, `Read` and `Expire` are the four commands
`hit` sends together, which Redis runs in this order but with those of others
in between; `NextHit` and `Finish` are the loop over the limits. `FailCall` is
a rejected command: what ran stays. `Tick` is the clock, and Redis dropping
keys. `passed` records the calls let through, `late` the hits that reached
Redis a period after their timestamp, `settled` and `blurred` the hits an
expiry may forget because it came between their ZADD and their EXPIRE.

**Settings** is a worker's copy (`cached`) of a file that operators overwrite in
place (`BeginEdit`, `EndEdit`; `torn` in between) or replace by renaming a
finished file over it (`ReplaceFile`, as `sed -i` and many editors do), and the
watcher (`changed`, `Reload`). `fs.watch` is on the file and not on its name:
a rename is noticed, and nothing after it (`watched`, as inotify has it).
`missed` is history: the last edit began unwatched. `Loads` is what `createSettings` returns and keeps when there is no
copy: from a torn file the defaults, which are not kept if parsing failed, or
the defaults with its first lines merged in.

**Admission** composes it with everything that happens to a message between the
socket and the strategy. `conn[c]` is a socket with its adapter: the `alive`
flag, whether it has subscriptions, its challenge and when that was set.
`msg[m]` is a message between two awaits: `limiting` (the message limiter),
`validating` (id and signature), `rating` (the event limiter), `lookup` (the
author's row), `execute` (the strategy, EventStore's subject, takes over). A
message ends `told` what became of it, `unheard` if the socket is no longer
open, `failed` if the limiter or the database failed an await (`Fail`), or
`thrown` (`Throw`): a file cut short after `info:` or `authentication:` yields
settings in which that section is null, and looking into it is a TypeError,
which is logged and not answered. `sections` says which of the two a version
has (`Has`).
`Judge` is `canAcceptEvent` and the start of `isUserAdmitted`, each with a
reading of the settings of its own (`SettingsPairs`); `Lookup` goes on with the
second reading, as the code does. `CanAccept`, `NeedsAdmission` and `HasPaid`
spell out what a version of the settings says of an event. The limiter's
verdicts are free here, and `Credit` is `Ledger`'s credit of an invoice that
covers the fee (another changes nothing that is looked at).
`sentOn`, `uses`, `heard` and `seen` are history; `Notes` keeps in `seen[m]`
the settings in force since `m` arrived.

## 3. Runs

| run | what it shows | bounds, and why they are enough |
|---|---|---|
| `store` | register per address, acknowledged events kept, deletions effective and final, only by the author; refinement of `ReplaceableRegister` | two handlers (every pair of statements interleaves); two versions of one address, a note of the same author and one of another, a deletion naming one of each; events may be sent any number of times |
| `store_partitioned` (violated) | upserts do not go on working after the partitioning | the same |
| `mirror` | a mirror beside a handler loses no acknowledged event and revives none that is not replaceable | one handler and the mirror, six events with each strategy |
| `pubsub` | no gap between stored and live events but for the query's limit, one broadcast per worker, nothing seen that is not stored | two workers; two publishers of two notes, of which a query returns one, the newer with a filter that has a limit of one row, and the older with one of tags, of which it has two, so that its rows fill the limit of two; the older may be deleted; a subscriber with one id and two REQs; any worker may die and be forked again |
| `pubsub_live` | types; subscription limit; broadcasts reach every subscription, every REQ ends | the same with two subscription ids of which one may be in use, one publisher, an ephemeral event too, no deletions and no failures |
| `payments` | each paid invoice credited once, nothing for free, and nobody charged and left out whose invoice covers the fees there were; refinement of `Ledger` | two invoices of one payer, two callbacks and a poll of one row, so three confirmations that meet; a fee that changes between 2 and 3 with a sat of 2 (3 is cut to 2, and does not cover 3); Nodeless, the only processor that reports overpayment; any step may die, any transaction abort |
| `payments_live` | a paid invoice admits its payer by callback or poll, unless a transaction that would have confirmed it was aborted | LNbits, which has the most steps; one callback, one poll, a constant fee in whole sats; no deaths |
| `payments_opennode` (violated) | a completed invoice may stay unconfirmed for ever, though nothing was aborted | OpenNode, one callback, one poll |
| `blobapi` | no dangling metadata, acknowledged uploads and deletions recorded, deletions seen and never undone | four requests on one file, two relays, two seconds; a request is used once, its messages arrive in any order |
| `limiter` | the calls let through in a window hit it in no more than `Rate` different milliseconds; nobody is turned away for hits older than the window | two calls, two limits with windows of two and one ms and one hit each, four ms: evictions, late hits and expiries all occur; the shortest TTL there can be (one period), for a longer one only expires later; any command may fail |
| `admission` | an accepted event was acceptable, and paid for, under one version of the settings; only authenticated clients are accepted; an answer is used once; talkers are not closed; a client with an open socket is left without an answer only if an await failed or a file torn when read was in force | two versions of the settings (pay, blocked), the defaults and two files cut short, one without `info` and one without `authentication`; at most three of edits, connections and messages in flight together (`MaxLoad`), so two messages on one connection, one message and an edit, or one message and two connections; two challenges, a life of one tick, one payment |
| `admission_live` | dead peers are closed; the worker goes over to the settings of the file it watches | the same with one connection and one message, and three edits, in place or by rename |

Deadlock is checked except where a bounded system may run out of requests,
connections, challenges or time (`pubsub_live`, `blobapi`, `limiter`,
`admission`, `admission_live`). Symmetry is used in safety
runs over handlers, callbacks, polls, relays, requests, calls, connections and
messages, none of which the
specifications tell apart. Two safety runs use a VIEW. That of `payments`
leaves out `aborted`, which nothing reads but the type invariant and the
liveness properties; that of `admission` forgets how messages ended, which
`SilenceIsExplained` reads in the step that ends them, and no action or
invariant afterwards. TLC checks an action property on every step it
generates, a step to a state already seen in the view included. Bounds named in the modules: `MaxReqs` and
`MaxEvents` per connection, `MaxTime`, `PollLimit` (ten in the code),
`MaxEdits`, `MaxChallenges`, `MaxBalance` and `MaxLoad`.

**Three more configurations** show, in seconds, what the properties above leave
out; TLC finds their properties violated.

* `MCPayments_aborted.cfg` (MCPayments): `CompletedIsAdmitted` without deaths.
  A callback sets an invoice to completed and begins to confirm it; its owner's
  next invoice, being created, writes the user's row; the confirmation is
  aborted (40001), and neither a poll, which reads pending rows, nor a callback,
  which gets 409, confirms it any more.
* `MCPayments_floor.cfg` (MCPayments): `ChargedIsAdmitted`, with one fee that is
  no whole number of sats. The invoice asks for less than the fee, is credited,
  and admits nobody.
* `MCSettings_replaced.cfg` (MCSettings): `SettingsSettle`. The file is replaced
  by rename twice; the worker keeps the first replacement for ever.

**Fairness.** `PubSub!Fairness` and `Payments!Fairness` ask only that a process
that runs takes its next step: event loops, IPC channels, a query's stream, the
processor's answer to a creation, and the timer of the maintenance worker.
Nobody is obliged to publish, pay or call back. `Admission!Fairness` asks it of
the heartbeat's timer, of the completion of a close the server began (ws
destroys the socket of a peer that does not answer) and of the delivery of file
events to `reload`. It asks nothing of a message's handler, for the limiter's
Redis calls wait without a timeout (`redis-adapter.ts` 19-41), so that a
message may wait for ever; `SilenceIsExplained` is about how messages end.
Nobody has to send, or to finish an edit.

The liveness of PubSub and Payments is checked with `Faults = FALSE`, for with a
death at the wrong moment it does not hold: a broadcast dies with its worker,
and an invoice whose status was set to completed by a process that died is not
polled again. For payments that is not enough: transactions abort by ordinary
concurrency, with `Faults = FALSE` too, so `PaidIsAdmitted` excuses the invoices
of which a confirmation was aborted, and the first configuration above shows
that it must. All of this is among the hazards.

## 4. Proofs

`EventStoreProofs` proves, for any finite or infinite sets of events, authors
and handlers, partitioned or not, with failing statements and deaths, that
`Spec` implies `[]TypeOK`, `[]OneVersionPerAddress`, `[]AckedIsKept`,
`[]NoResurrection`, `[]DeletionTakesEffect`, and the action properties
`VersionsMoveForward` and `OnlyAuthorDeletes`, and that it implements
`ReplaceableRegister` (`TableImplementsRegister`). The only assumption is
`EventStoreAssumption`: events have a content of the right type and there is
one at least.
Why the properties are not inductive alone: what keeps a deleted event away is
not that its row says deleted but that the row, or a version at least as new,
*stands at its address*, so that neither ON CONFLICT clause lets it in again.
The invariant `IInv` therefore says of retired and doomed events that they are
`Gone` (not live, and kept or superseded); that a row is keyed exactly when its
strategy upserts, so that conflict on the index and equality of addresses are
the same thing; and, per handler, what its earlier statement established for
its later one (`OpOK`). "Kept" and "gone" are shown stable under each kind of
statement (`DeleteStays`, `CreateStays`, `UpsertStays`, hence `StepStays`),
and each conjunct follows with a lemma of its own. `UpsertedIffIndexed` shows
that the ranges of kinds in `event.ts` and in the migration's index agree for
every kind, which TLC's five events cannot.

The refinement maps an address to the set of versions a query for it sees. An
upsert that writes is a `Publish` (its conflicting rows are exactly the older
versions, by the invariant); a soft deletion is a `Retract` (an address holds
one version, so it is retracted whole or not at all); every other step leaves
the rows of replaceable events alone and is a stutter.

`RateLimiterProofs` proves, for any number of calls and limits, any periods,
rates and TTLs that are whole periods or longer, and with commands that fail,
that `Spec` of RateLimiter implies `[]TypeOK`, `[]CountsOnlyRecent` and
`[]WithinRate`, from `RateLimiterAssumption` (periods of at least a
millisecond, rates that are numbers). `WithinRate` speaks of calls that are
over; what makes it inductive is about those in flight. `HitsCounted`: a hit of
the present window, of a call let through or still in flight, is in the sorted
set from its ZADD on, unless an expiry took it before its EXPIRE (evictions
take only what is out of the window, and after an EXPIRE a set outlives the
hit's window: `SetsKept`, `Past`, `CountedStays`). `FewGranted`: the hits of
the window that were let through, or belong to calls that have read a small
enough set, are at most the rate. Time and evictions only make them fewer; a call that joins them
has just read a set that holds all of them (`GrantedBefore`, `GrantedStep`).
`CountsRecent` says that nothing out of a call's window, short of what was
added late, can come back between its ZREMRANGEBYSCORE and its ZRANGE.

`MirroredStoreProofs` proves, with any upstream set of events, that the mirror
beside the strategies preserves `[]AckedIsKept` and `[]PlainStaysDeleted`
(assumptions: `EventStoreAssumption`, and that upstream events are events). The
invariant of `EventStoreProofs` does not carry over: "keyed exactly when its
strategy upserts" fails, because the mirror uses `create` for every kind and
leaves rows of replaceable events without a key. What survives, and suffices,
is one half: a *keyed* row is of a kind that upserts, so an upsert's conflicts
are versions at its own address (`KeyedAreUpserted`). `AnsweredIsKept` says of
a handler about to answer OK what `AckedIsKept` says of one that has, and
`RetiredPlain` that the row of a deleted plain event is there, so that the
mirror's ON CONFLICT DO NOTHING leaves it alone.

`PaymentsProofs` proves, for any invoices, users, callbacks and polls, any
limit of the poll, any fees and any size of a sat, each of the processors
(Zebedee, Nodeless, OpenNode, LNbits, LNURL), transactions that abort and
processes that die between any two steps, `[]TypeOK`, `[]CreditedOnce`,
`[]ConfirmedIsPaid`, `[]ConfirmedIsAdmitted` and the refinement of `Ledger`,
from `PaymentsAssumption`.
`CreditedOnce` is now a matter of transactions. `TxIsConfirmers` ties one to the
callback or poll it belongs to. `SnapshotHolds` says that a snapshot without a
confirmation date is still right, unless it is stale, and certainly right once
the row was written; `OneWriter`, that a row has one writer at a time. So of
two transactions that both saw no date the second to write finds itself stale,
and only one of them commits a credit.
`ConfirmedIsAdmitted` is about the comparison of amount and fee: the fee in
force when a transaction commits is one of those set since the request
(`FeeIsAsked`), and is covered if all of them are, in the unit the controller
passes; with OpenNode, whose callback does not pass the unit, no callback
credits anything (`RowDateIsConfirmed`).
What makes "confirmed is paid" inductive is about the knowledge of processes in
flight: a callback or a poll that holds `completed` holds the truth, for the
processor never takes a payment back (`ToldIsTrue`), and a poll confirms only
what it was told is paid (`PollMayConfirm`). Every step is then a payment, one
credit of an invoice not yet credited, a late admission, or leaves the ledger
alone.

`BlobApiProofs` proves, for any requests, relays, files and times, with messages
lost, late and out of order, `[]TypeOK`, `[]MetadataHasBlob`,
`[]AckedIsRecorded`, `[]DeletionSeen` and the action property
`TombstonesStay`, from `BlobApiAssumption`. The core of the invariant is
`OneUpload`: a file's name is the hash of a ciphertext under a random key, so one upload
has it, and every live version of it is that upload's, at its second
(`LiveIsUpload`). Its file is whole from then on, before the upload publishes
(`UploadFirst`); anything on a relay, or on its way to one, comes after that
(`SpokenIsPublished`, `MessagesTold`). A deletion resolves a version first, so no
tombstone is older than the upload (`TombstonesNewer`) and none is replaced by
it. `Recorded` and `AfterAcked` say of requests what their relays
answered and what had been acknowledged before they began; `OfferedIsNewer`
says of what a relay has offered a request since then that it is no older than
those deletions.

`PubSubProofs` proves, for any workers, clients, subscription ids and filters,
any limits of queries and subscriptions, any times of events, and with workers
dying, `[]TypeOK`, `[]AnnouncedOnce`,
`[]SeenIsStored`, `[]WithinLimit` and `[]NoGap`, from `PubSubAssumption`. For
`AnnouncedOnce` the invariant follows an event on its way: per worker it is in
at most one place, with the handler whose insert won (`FreshIsFirst`), in the channel to
the primary (`ToPrimaryOnce`), in the channel to the worker (`ToWorkerOnce`),
or announced, and what is in the channels is stored or ephemeral
(`SpokenIsStored`). For `NoGap` it says of a fetch in force, from its registration on
and not only at EOSE (`NothingSkipped`, `Covers`): every stored event that
matches and that its worker has broadcast since the REQ is seen; one broadcast
before is, from the query on, seen, deleted or among the rows still to be sent, or
a full page of events that do not come after it is (`FullPage`). A deleted row
stays deleted, so it may count from then on as read. That holds in both orders: what is
broadcast after the registration is delivered live, and what was broadcast
before it was inserted before that, so the query finds it or its limit is
spent on others. Registering after the query would break it, and so would broadcasting
before the insert. `OpenFetches` ties the fetches, which outlive the
subscriptions they serve, to those in force.

`AdmissionProofs` proves, for any versions of the settings, connections,
messages, challenges and bounds, with edits, reloads and failures at any
moment, `[]TypeOK`, `[]AcceptedUnderOneVersion`, `[]AcceptedIsAuthenticated`,
`[]ChallengeUsedOnce` and the action properties `TalkersStay` and
`SilenceIsExplained`, from `AdmissionAssumption` (fees and balances are numbers; complete versions
have the sections that are looked into, and so have the defaults, which, as in
`resources/default-settings.yaml`, ask for no payment). The handler reads the settings anew at
each check, so at every await the invariant says what has been established, and
under what: the settings in force are among those seen (`Tracked`); the client
was authenticated, or some settings seen ask for no authentication (`Known`);
an event waiting for its author's row was acceptable under the terms it waits
with, or under the defaults, which ask for nothing (`Judged`); at the strategy,
one version accepts it and is paid (`Accepted`). What has been found of a
message stays found while others take steps, for the clock, the challenges
sent, the authentications, the balances and `seen` only grow (`Growing`,
`UntouchedSound`). `JudgeDecides` is where the two readings inside
`Judge` meet. `SentOnce`, `CurrentIsUnused` and `UsedIsSent` are
what makes a second answer useless; `HeardIsAlive` is what the heartbeat relies on.
For `SilenceIsExplained`, every step that ends a message either answers it, and
the socket is open, or is `Fail` or `Throw` (`EndedHow`); and one that throws
reads settings without a section, which only a torn file yields, and which are
among those seen (`ThrowsOnPartial`).

Before each of these was proved, TLC checked the inductive invariant on the
component's run (up to 1.4 million states).

Only model-checked: the five liveness properties (`BroadcastReachesAll`,
`FetchesFinish`, `PaidIsAdmitted`, `DeadPeersClosed`,
`SettingsSettleIfWatched`), since the provers deal neither with fairness, which is
ENABLED, nor with the well-founded arguments it takes, and the two violations.

## 5. What was found

Shown by a run:

* After migration 20240120 the upsert has no index to conflict on, and every
  replaceable event, the API's metadata included, is answered with an error
  (`store_partitioned`).
* With OpenNode a callback completes invoices it cannot confirm
  (`payments_opennode`).
* With every processor, a confirmation that meets the creation of its payer's
  next invoice is aborted after the status was set to completed, for the
  transactions are serializable (`transaction.ts` 14) and `createInvoice` holds
  the user's row over an HTTP call (`payments-service.ts` 59-63). Nothing
  confirms that invoice later, though the page says that payment was received,
  and `nostream-share/README.md` 192-194 goes on to "Send a couple notes to
  test" (`MCPayments_aborted.cfg`).
* The fee, "in msats" (`nostream-share/CONFIGURATION.md` 79,
  `resources/default-settings.yaml` 13), is cut to whole sats when the invoice is
  requested and what comes back is compared with the fee as it is
  (`payments-service.ts` 182-185): a fee that is no multiple of 1000 is charged
  and admits nobody, except with Zebedee and LNURL (`MCPayments_floor.cfg`). A fee
  raised between request and confirmation does the same to whoever paid the
  lower one.
* Editors that replace the settings file by rename are heard once and never
  again (`settings.ts` 133-136, `MCSettings_replaced.cfg`). The documents
  disagree about what to expect: `CONFIGURATION.md` 65 has the relay pick up
  changes without a restart, `nostream-share/README.md` 521 says that changes
  "will be read on the next start". The code does the former for files
  overwritten in place, which is what `SettingsSettleIfWatched` states, and the
  latter once the watch is lost.

Behaviours the models have, which a reader of the properties should know:

* `create` reports a failed insert as a duplicate, with OK true (EventStore).
  `AckedIsKept` is about events whose insert ran.
* The mirror stores versions of one address side by side, since it uses
  `create` for every kind (MirroredStore), so `OneVersionPerAddress` is not
  among the properties of `mirror`.
* A soft deletion in the second of the upload is acknowledged and ignored by
  the relay (BlobApi), which is why `DeletionSeen` speaks of later seconds.
* Hits of one millisecond count once, so `WithinRate` bounds the milliseconds
  with hits, while CONFIGURATION.md speaks of a number of events. The periods
  are handed to EXPIRE, which takes seconds: the sets live a thousand times
  longer than they need.
* While the settings file is being written, a worker may run on the defaults
  (no payments, no lists) or on the file's first lines. Events accepted
  meanwhile are accepted under these; `SettingsSettleIfWatched` says it passes. If what
  there is of the file has a null `info` or `authentication`, handlers throw and
  their messages get no answer.
* An EVENT that overtakes an AUTH in flight replaces the challenge the AUTH
  answers, and both are refused.
* A connection whose rate-limit check fails stays open, unserved, for ever, and
  a client with a subscription is never closed by the heartbeat.
* A query without a limit of its own returns the 500 *oldest* rows
  (`event-repository.ts` 124-128), so that EOSE may come with the newest stored
  events unsent. Deleted rows count for the limit, and so does each row of an event
  that has several of the filter's tags, so that EOSE may even come with nothing sent.
  `NoGap` says that nothing but the limit does that.

Promised by documents and tests, and absent from the code, so that no property
speaks of it: the top-level `README.md` (108-109, 200, 207, 233-235, 250-257) and
`tests/integration` (`e2e-flow.test.ts` 40, 109, 113,
`relay-failure-contract.test.ts` 27) have retries, an `Idempotency-Key`, an
`alreadyDeleted` answer, 410 on the download of a deleted file and 502 when the
relays fail. `blobs.ts` has none of these: its only 410 is that of the metadata
lookup (line 87), and an upload that is sent again is another upload.

## 6. Not modelled, and the plan

In the modules other than Admission, settings are constants, but for the fee in
Payments. Reads go to the table that is written (no replica lag). A REQ has one
filter (with several, the order and limit of the first apply to the union), and rows
of replaceable events are not overwritten in PubSub as they are in EventStore. A transaction
aborts when a row it writes was changed; aborts by PostgreSQL's predicate locks
are among the failures (`Faults`). The check of the invoices page and the start of
`createInvoice` are one step. Notifications of invoices are not modelled, nor are
the watch on the defaults file, editors that first rename the old file away, and
edits that change nothing. Encryption
and signatures hold by assumption. Prefixes of public keys and ranges of kinds
are sets of authors and kinds. Sockets that fail with an error are closed as by
their client. Orderly shutdown is not modelled.

Archiving (`archive-events.sh`) copies windows of the hot partition to a foreign
one, throws the copy's errors away and deletes the window regardless. Whether
the copy works is decided by PostgreSQL (partition bounds, ON CONFLICT on
foreign tables), of which the repository holds no code, so a model would be
about assumptions. The mirror's cursor and reconnection, and events that two
relays mirror to each other, are left out: no promise of the repository depends
on them.

Left, in this order:

1. The poll of abandoned invoices beyond its limit.
2. Links between modules that are now stated in words: that BlobApi's
   `Replaces` is EventStore's upsert on one address, and that Admission's
   `Credit` is `Ledger`'s.
3. Aborts by predicate locks apart from other failures, for liveness.

## 7. Running

`tlc -config MCEventStore.cfg MCEventStore.tla`, and likewise for the other
configurations; the longest takes about a minute and a half on two cores.
`tlapm EventStoreProofs.tla`, and likewise for `MirroredStoreProofs`,
`PaymentsProofs`, `BlobApiProofs`, `PubSubProofs`, `AdmissionProofs` and
`RateLimiterProofs`, proves all obligations; the longest takes about two
minutes.
