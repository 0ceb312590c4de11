----------------------------- MODULE PubSubProofs -----------------------------
(***************************************************************************)
(* Theorems about subscriptions and live events, for any workers, clients, *)
(* events, filters and bounds, with worker deaths or without.              *)
(***************************************************************************)
EXTENDS PubSub, FiniteSetTheorems, SequenceTheorems, TLAPS

Regular == Events \ Ephemeral

Fresh(c, e) == pub[c].pc = "fresh" /\ pub[c].event = e

Has(q, e) == \E i \in DOMAIN q : q[i] = e

Once(q, e) == \A i, j \in DOMAIN q : q[i] = e /\ q[j] = e => i = j

(* A regular event is stored before anything is said of it. *)
SpokenIsStored ==
    \A e \in Regular :
        \/ \E c \in Clients : Fresh(c, e)
        \/ \E w \in Workers : \/ Has(toPrimary[w], e) \/ Has(toWorker[w], e)
                              \/ announced[w][e] > 0
        => e \in stored

(* Its publisher is about to broadcast it: nobody else is or has. *)
FreshIsFirst ==
    \A e \in Regular, c \in Clients :
        Fresh(c, e) =>
            /\ \A d \in Clients : Fresh(d, e) => d = c
            /\ \A w \in Workers : /\ ~Has(toPrimary[w], e) /\ ~Has(toWorker[w], e)
                                  /\ announced[w][e] = 0

(* It is on its way to the primary: only its publisher's worker has        *)
(* broadcast it.                                                           *)
ToPrimaryOnce ==
    \A e \in Regular, v \in Workers :
        Has(toPrimary[v], e) =>
            /\ Once(toPrimary[v], e)
            /\ \A w \in Workers : /\ ~Has(toWorker[w], e)
                                  /\ w # v => ~Has(toPrimary[w], e) /\ announced[w][e] = 0

(* It is on its way to a worker that has not broadcast it. *)
ToWorkerOnce ==
    \A e \in Regular, w \in Workers :
        Has(toWorker[w], e) => Once(toWorker[w], e) /\ announced[w][e] = 0

LeftIsStored ==
    \A c \in Clients : \A i \in DOMAIN fetches[c] : fetches[c][i].left \subseteq stored

(* A connection that is not open fetches nothing. *)
OpenFetches == \A c \in Clients : ~Open(c) => fetches[c] = <<>>

(* A fetch in force whose client should have e, or get it from the fetch,  *)
(* or a full page instead; deleted rows count as read.                     *)
Concerns(c, i, e) ==
    /\ Open(c) /\ InForce(c, i)
    /\ e \in stored \cap Match[fetches[c][i].filter]
    /\ announced[HomeOf[c]][e] > 0

Covers(c, i, e) ==
    LET fetch == fetches[c][i]
        sent  == seen[c][fetch.sub]
        read  == sent \cup deleted
        held  == fetch.left \cup read
    IN  /\ e \notin fetch.past => e \in sent
        /\ fetch.phase = "stream" => e \in held \/ FullPage(held, fetch.filter, e)
        /\ fetch.phase = "eose" => e \in read \/ FullPage(read, fetch.filter, e)

(* What a fetch in force still owes its subscription is in its hands. *)
NothingSkipped ==
    \A c \in Clients : \A i \in DOMAIN fetches[c] : \A e \in Events :
        Concerns(c, i, e) => Covers(c, i, e)

FinitelyActive == \A c \in Clients : IsFiniteSet(Active(c))

PubSubInv ==
    /\ TypeOK
    /\ SpokenIsStored
    /\ FreshIsFirst
    /\ ToPrimaryOnce
    /\ ToWorkerOnce
    /\ AnnouncedOnce
    /\ LeftIsStored
    /\ SeenIsStored
    /\ OpenFetches
    /\ NothingSkipped
    /\ FinitelyActive
    /\ WithinLimit

-----------------------------------------------------------------------------
(* Sequences. *)

LEMMA AppendHas ==
    ASSUME NEW S, NEW q \in Seq(S), NEW x \in S, NEW e
    PROVE  /\ Append(q, x) \in Seq(S)
           /\ Has(Append(q, x), e) <=> Has(q, e) \/ x = e
           /\ Once(q, e) /\ (x = e => ~Has(q, e)) => Once(Append(q, x), e)
<1> DEFINE r == Append(q, x)
<1>1. /\ r \in Seq(S) /\ Len(r) = Len(q) + 1 /\ r[Len(q) + 1] = x
      /\ \A i \in 1..Len(q) : r[i] = q[i]
  BY AppendProperties
<1>2. /\ Len(q) \in Nat /\ DOMAIN q = 1..Len(q) /\ DOMAIN r = 1..(Len(q) + 1)
  BY <1>1, LenProperties
<1> HIDE DEF r
<1>3. \A i \in DOMAIN r : i \in DOMAIN q \/ i = Len(q) + 1
  BY <1>2
<1>4. Has(r, e) <=> Has(q, e) \/ x = e
  <2>1. Has(r, e) => Has(q, e) \/ x = e
    BY <1>1, <1>2, <1>3 DEF Has
  <2>2. Has(q, e) => Has(r, e)
    BY <1>1, <1>2 DEF Has
  <2>3. x = e => Has(r, e)
    BY <1>1, <1>2 DEF Has
  <2>4. QED
    BY <2>1, <2>2, <2>3
<1>5. ASSUME Once(q, e), x = e => ~Has(q, e) PROVE Once(r, e)
  BY <1>1, <1>2, <1>3, <1>5 DEF Once, Has
<1>6. QED
  BY <1>1, <1>4, <1>5 DEF r

LEMMA TailHas ==
    ASSUME NEW S, NEW q \in Seq(S), q # <<>>, NEW e
    PROVE  /\ Head(q) \in S /\ Tail(q) \in Seq(S) /\ Has(q, Head(q))
           /\ Has(Tail(q), e) => Has(q, e)
           /\ Once(q, e) => Once(Tail(q), e)
           /\ Once(q, Head(q)) => ~Has(Tail(q), Head(q))
<1> DEFINE r == Tail(q)
<1>1. /\ r \in Seq(S) /\ Len(r) = Len(q) - 1 /\ Head(q) = q[1] /\ Head(q) \in S
      /\ \A i \in 1..Len(r) : r[i] = q[i + 1]
  BY HeadTailProperties
<1>2. /\ Len(q) \in Nat \ {0} /\ DOMAIN q = 1..Len(q) /\ DOMAIN r = 1..(Len(q) - 1)
  BY <1>1, LenProperties, EmptySeq
<1> HIDE DEF r
<1>3. \A i \in DOMAIN r : i + 1 \in DOMAIN q /\ i + 1 # 1 /\ r[i] = q[i + 1]
  BY <1>1, <1>2
<1>4. Has(q, Head(q)) /\ 1 \in DOMAIN q
  BY <1>1, <1>2 DEF Has
<1>5. Has(r, e) => Has(q, e)
  BY <1>3 DEF Has
<1>6. Once(q, e) => Once(r, e)
  BY <1>2, <1>3 DEF Once
<1>7. Once(q, Head(q)) => ~Has(r, Head(q))
  BY <1>1, <1>3, <1>4 DEF Once, Has
<1>8. QED
  BY <1>1, <1>4, <1>5, <1>6, <1>7 DEF r

LEMMA PrefixHas ==
    ASSUME NEW S, NEW q \in Seq(S), NEW n \in 0..Len(q), NEW e
    PROVE  /\ SubSeq(q, 1, n) \in Seq(S)
           /\ Has(SubSeq(q, 1, n), e) => Has(q, e)
           /\ Once(q, e) => Once(SubSeq(q, 1, n), e)
<1> DEFINE r == SubSeq(q, 1, n)
<1>1. Len(q) \in Nat /\ DOMAIN q = 1..Len(q) /\ n \in Nat /\ n <= Len(q)
  BY LenProperties
<1>2. r \in Seq(S) /\ Len(r) = n /\ \A i \in 1..n : r[i] = q[i]
  BY <1>1, SubSeqProperties
<1>3. DOMAIN r = 1..n
  BY <1>2, LenProperties
<1> HIDE DEF r
<1>4. \A i \in DOMAIN r : i \in DOMAIN q /\ r[i] = q[i]
  BY <1>1, <1>2, <1>3
<1>5. QED
  BY <1>2, <1>4 DEF Has, Once, r

LEMMA EmptyHas ==
    ASSUME NEW S, NEW e
    PROVE  <<>> \in Seq(S) /\ ~Has(<<>>, e) /\ Once(<<>>, e) /\ DOMAIN <<>> = {}
<1>1. <<>> \in Seq(S) /\ Len(<<>>) = 0
  BY EmptySeq
<1>2. DOMAIN <<>> = {}
  BY <1>1, LenProperties
<1>3. QED
  BY <1>1, <1>2 DEF Has, Once

-----------------------------------------------------------------------------
(* What the steps write. *)

LEMMA TypeFacts ==
    ASSUME TypeOK, NEW c \in Clients
    PROVE  /\ HomeOf[c] \in Workers
           /\ fetches[c] \in Seq(Fetch) /\ DOMAIN fetches[c] = 1..Len(fetches[c])
           /\ Len(fetches[c]) \in Nat
           /\ \A i \in DOMAIN fetches[c] : fetches[c][i] \in Fetch
           /\ pub[c] \in Publication
<1>1. fetches[c] \in Seq(Fetch) /\ pub[c] \in Publication /\ HomeOf[c] \in Workers
  BY PubSubAssumption DEF TypeOK
<1>2. QED
  BY <1>1, LenProperties

LEMMA IdleTyped ==
    ASSUME NEW n \in Nat
    PROVE  IdlePublication(n) \in Publication /\ IdlePublication(n).pc = "idle"
BY PubSubAssumption DEF IdlePublication, Publication

(* Two stages of the fetch of one REQ. *)
SameReq(x, y) == x.sub = y.sub /\ x.filter = y.filter /\ x.past = y.past

(* The stream of an answer to the fetch's query. *)
Reads(x) ==
    \E found \in SUBSET Events : Answers(x.filter, found) /\ x.left = found \ deleted

(* One fetch of one client goes on. *)
Edits(c, i, x) == fetches' = [fetches EXCEPT ![c] = [@ EXCEPT ![i] = x]]

LEMMA EditWrites ==
    ASSUME TypeOK, NEW c \in Clients, NEW i \in DOMAIN fetches[c], NEW x \in Fetch, Edits(c, i, x)
    PROVE  /\ fetches' \in [Clients -> Seq(Fetch)]
           /\ \A d \in Clients : d # c => fetches'[d] = fetches[d]
           /\ DOMAIN fetches'[c] = DOMAIN fetches[c]
           /\ fetches'[c][i] = x
           /\ \A j \in DOMAIN fetches[c] : j # i => fetches'[c][j] = fetches[c][j]
<1> DEFINE new == [fetches[c] EXCEPT ![i] = x]
<1>1. /\ fetches \in [Clients -> Seq(Fetch)] /\ fetches[c] \in Seq(Fetch)
      /\ DOMAIN fetches[c] = 1..Len(fetches[c])
  BY TypeFacts DEF TypeOK
<1>2. /\ new \in Seq(Fetch) /\ Len(new) = Len(fetches[c])
      /\ \A j \in 1..Len(fetches[c]) : new[j] = IF j = i THEN x ELSE fetches[c][j]
  BY <1>1, ExceptSeq
<1>3. DOMAIN new = 1..Len(fetches[c])
  BY <1>2, LenProperties
<1>4. fetches' = [fetches EXCEPT ![c] = new]
  BY DEF Edits
<1> HIDE DEF new
<1>5. fetches'[c] = new /\ \A d \in Clients : d # c => fetches'[d] = fetches[d]
  BY <1>1, <1>4
<1>6. fetches' \in [Clients -> Seq(Fetch)]
  BY <1>1, <1>2, <1>4
<1>7. QED
  BY <1>1, <1>2, <1>3, <1>5, <1>6

LEMMA QueryWrites ==
    ASSUME TypeOK, NEW c \in Clients, NEW i \in DOMAIN fetches[c], Query(c, i)
    PROVE  \E x \in Fetch : /\ Edits(c, i, x)
                            /\ SameReq(x, fetches[c][i])
                            /\ Reads(x) /\ x.phase = "stream"
<1>0. PICK found \in SUBSET Events :
          /\ Answers(fetches[c][i].filter, found)
          /\ fetches' = [fetches EXCEPT ![c][i].phase = "stream", ![c][i].left = found \ deleted]
  BY DEF Query
<1> DEFINE old == fetches[c][i]
           x == [old EXCEPT !.phase = "stream", !.left = found \ deleted]
<1>1. old \in Fetch
  BY TypeFacts
<1>2. /\ x \in Fetch /\ SameReq(x, old)
      /\ Reads(x) /\ x.phase = "stream"
  <2>1. x \in Fetch /\ SameReq(x, old) /\ x.left = found \ deleted /\ x.phase = "stream"
    BY <1>1 DEF Fetch, SameReq
  <2>2. Answers(x.filter, found)
    BY <1>0, <2>1 DEF SameReq
  <2>3. QED
    BY <2>1, <2>2 DEF Reads
<1>3. Edits(c, i, x)
  BY <1>0, TypeFacts DEF Edits, TypeOK
<1>4. QED
  BY <1>2, <1>3

LEMMA SendStoredWrites ==
    ASSUME TypeOK, NEW c \in Clients, NEW i \in DOMAIN fetches[c], NEW e \in Events,
           SendStored(c, i, e)
    PROVE  \E x \in Fetch : /\ Edits(c, i, x)
                            /\ SameReq(x, fetches[c][i])
                            /\ x.left = fetches[c][i].left \ {e} /\ x.phase = "stream"
<1> DEFINE old == fetches[c][i]
           x == [old EXCEPT !.left = @ \ {e}]
<1>1. old \in Fetch /\ old.phase = "stream"
  BY TypeFacts DEF SendStored, Streams
<1>2. /\ x \in Fetch /\ SameReq(x, old)
      /\ x.left = old.left \ {e} /\ x.phase = "stream"
  BY <1>1 DEF Fetch, SameReq
<1>3. Edits(c, i, x)
  BY TypeFacts DEF SendStored, Edits, TypeOK
<1>4. QED
  BY <1>2, <1>3

LEMMA SendEOSEWrites ==
    ASSUME TypeOK, NEW c \in Clients, NEW i \in DOMAIN fetches[c], SendEOSE(c, i)
    PROVE  \E x \in Fetch : /\ Edits(c, i, x)
                            /\ SameReq(x, fetches[c][i])
                            /\ x.left = {} /\ x.phase = "eose"
                            /\ fetches[c][i].phase = "stream" /\ fetches[c][i].left = {}
<1> DEFINE old == fetches[c][i]
           x == [old EXCEPT !.phase = "eose"]
<1>1. old \in Fetch /\ old.phase = "stream" /\ old.left = {}
  BY TypeFacts DEF SendEOSE, Streams
<1>2. /\ x \in Fetch /\ SameReq(x, old)
      /\ x.left = {} /\ x.phase = "eose"
  BY <1>1 DEF Fetch, SameReq
<1>3. Edits(c, i, x)
  BY TypeFacts DEF SendEOSE, Edits, TypeOK
<1>4. QED
  BY <1>1, <1>2, <1>3

LEMMA FetchFailsWrites ==
    ASSUME TypeOK, NEW c \in Clients, NEW i \in DOMAIN fetches[c], FetchFails(c, i)
    PROVE  \E x \in Fetch : /\ Edits(c, i, x)
                            /\ SameReq(x, fetches[c][i])
                            /\ x.left = {} /\ x.phase = "failed"
<1> DEFINE old == fetches[c][i]
           x == [old EXCEPT !.phase = "failed", !.left = {}]
<1>1. old \in Fetch
  BY TypeFacts
<1>2. /\ x \in Fetch /\ SameReq(x, old)
      /\ x.left = {} /\ x.phase = "failed"
  BY <1>1 DEF Fetch, SameReq
<1>3. Edits(c, i, x)
  BY TypeFacts DEF FetchFails, Edits, TypeOK
<1>4. QED
  BY <1>2, <1>3

(* A new REQ is the client's last fetch, and starts its subscription anew. *)
LEMMA SubscribeWrites ==
    ASSUME TypeOK, NEW c \in Clients, NEW s \in SubIds, NEW f \in Filters, Subscribe(c, s, f)
    PROVE  /\ fetches' \in [Clients -> Seq(Fetch)]
           /\ subs' \in [Clients -> [SubIds -> Filters \cup {NoFilter}]]
           /\ seen' \in [Clients -> [SubIds -> SUBSET Events]]
           /\ \A d \in Clients : d # c => /\ fetches'[d] = fetches[d] /\ subs'[d] = subs[d]
                                          /\ seen'[d] = seen[d]
           /\ \A t \in SubIds : t # s => subs'[c][t] = subs[c][t] /\ seen'[c][t] = seen[c][t]
           /\ subs'[c][s] = f /\ seen'[c][s] = {}
           /\ DOMAIN fetches'[c] = 1..(Len(fetches[c]) + 1)
           /\ \A i \in DOMAIN fetches[c] : fetches'[c][i] = fetches[c][i]
           /\ fetches'[c][Len(fetches[c]) + 1] =
                  NewFetch(c, s, f)
<1> DEFINE x == NewFetch(c, s, f)
           new == Append(fetches[c], x)
<1>1. x \in Fetch
  BY DEF Fetch, NewFetch, AnnouncedTo
<1>2. /\ fetches \in [Clients -> Seq(Fetch)] /\ fetches[c] \in Seq(Fetch)
      /\ DOMAIN fetches[c] = 1..Len(fetches[c])
  BY TypeFacts DEF TypeOK
<1> HIDE DEF x
<1>3. /\ new \in Seq(Fetch) /\ Len(new) = Len(fetches[c]) + 1
      /\ \A i \in 1..Len(fetches[c]) : new[i] = fetches[c][i]
      /\ new[Len(fetches[c]) + 1] = x
  BY <1>1, <1>2, AppendProperties
<1>4. DOMAIN new = 1..(Len(fetches[c]) + 1)
  BY <1>3, LenProperties
<1>5. fetches' = [fetches EXCEPT ![c] = new]
  BY DEF Subscribe, x
<1> HIDE DEF new
<1>6. /\ fetches' \in [Clients -> Seq(Fetch)] /\ fetches'[c] = new
      /\ \A d \in Clients : d # c => fetches'[d] = fetches[d]
  BY <1>2, <1>3, <1>5
<1>7. /\ subs' \in [Clients -> [SubIds -> Filters \cup {NoFilter}]]
      /\ \A d \in Clients : d # c => subs'[d] = subs[d]
      /\ \A t \in SubIds : t # s => subs'[c][t] = subs[c][t]
      /\ subs'[c][s] = f
  BY DEF Subscribe, TypeOK
<1>8. /\ seen' \in [Clients -> [SubIds -> SUBSET Events]]
      /\ \A d \in Clients : d # c => seen'[d] = seen[d]
      /\ \A t \in SubIds : t # s => seen'[c][t] = seen[c][t]
      /\ seen'[c][s] = {}
  BY DEF Subscribe, TypeOK
<1>9. QED
  BY <1>2, <1>3, <1>4, <1>6, <1>7, <1>8 DEF x

(* A broadcast adds one event to what some subscriptions have seen, and    *)
(* to those of every open client it matches.                               *)
LEMMA AnnounceWrites ==
    ASSUME TypeOK, NEW w \in Workers, NEW e \in Events, Announce(w, e)
    PROVE  /\ seen' \in [Clients -> [SubIds -> SUBSET Events]]
           /\ announced' \in [Workers -> [Events -> Nat]]
           /\ \A c \in Clients, s \in SubIds : /\ seen[c][s] \subseteq seen'[c][s]
                                               /\ seen'[c][s] \subseteq seen[c][s] \cup {e}
           /\ \A c \in Clients, s \in SubIds :
                 HomeOf[c] = w /\ Open(c) /\ subs[c][s] # NoFilter /\ e \in Match[subs[c][s]]
                     => e \in seen'[c][s]
           /\ announced'[w][e] = announced[w][e] + 1
           /\ \A v \in Workers, d \in Events :
                 v # w \/ d # e => announced'[v][d] = announced[v][d]
<1>1. \A c \in Clients, s \in SubIds :
          seen'[c][s] = IF HomeOf[c] = w /\ Open(c) /\ s \in MatchingSubs(c, e)
                        THEN seen[c][s] \cup {e} ELSE seen[c][s]
  BY DEF Announce, TypeOK
<1>2. seen' \in [Clients -> [SubIds -> SUBSET Events]]
  BY DEF Announce, TypeOK
<1>3. \A c \in Clients, s \in SubIds :
          s \in MatchingSubs(c, e) <=> subs[c][s] # NoFilter /\ e \in Match[subs[c][s]]
  BY DEF MatchingSubs, Active
<1>4. /\ announced' \in [Workers -> [Events -> Nat]]
      /\ announced'[w][e] = announced[w][e] + 1
      /\ \A v \in Workers, d \in Events : v # w \/ d # e => announced'[v][d] = announced[v][d]
  BY DEF Announce, TypeOK
<1>5. \A c \in Clients, s \in SubIds : /\ seen[c][s] \subseteq seen'[c][s]
                                       /\ seen'[c][s] \subseteq seen[c][s] \cup {e}
  BY <1>1
<1>6. ASSUME NEW c \in Clients, NEW s \in SubIds,
             HomeOf[c] = w, Open(c), subs[c][s] # NoFilter, e \in Match[subs[c][s]]
      PROVE  e \in seen'[c][s]
  <2>1. s \in MatchingSubs(c, e)
    BY <1>3, <1>6
  <2>2. seen'[c][s] = seen[c][s] \cup {e}
    BY <1>1, <1>6, <2>1
  <2>3. QED
    BY <2>2
<1>7. QED
  BY <1>2, <1>4, <1>5, <1>6

(* A handler's answer: the broadcast of its event, or nothing.             *)
LEMMA RespondWrites ==
    ASSUME TypeOK, NEW c \in Clients, Respond(c)
    PROVE  /\ pub' \in [Clients -> Publication]
           /\ pub'[c].pc = "idle" /\ \A d \in Clients : d # c => pub'[d] = pub[d]
           /\ UNCHANGED <<up, conn, subs, fetches, stored, deleted, toWorker>>
           /\ \/ UNCHANGED <<seen, announced, toPrimary>>
              \/ /\ Fresh(c, pub[c].event)
                 /\ Announce(HomeOf[c], pub[c].event)
                 /\ toPrimary' = [toPrimary EXCEPT ![HomeOf[c]] = Append(@, pub[c].event)]
<1>1. IdlePublication(pub[c].sent) \in Publication /\ IdlePublication(pub[c].sent).pc = "idle"
  BY IdleTyped, TypeFacts DEF Publication
<1>2. pub' = [pub EXCEPT ![c] = IdlePublication(pub[c].sent)]
  BY DEF Respond, TypeOK
<1>3. /\ pub' \in [Clients -> Publication]
      /\ pub'[c].pc = "idle" /\ \A d \in Clients : d # c => pub'[d] = pub[d]
  BY <1>1, <1>2 DEF TypeOK
<1>4. QED
  BY <1>3 DEF Respond, Announces, Fresh

-----------------------------------------------------------------------------
(* Type correctness. *)

LEMMA PubSubTypeInit == Init => TypeOK
<1>. SUFFICES ASSUME Init PROVE TypeOK
  OBVIOUS
<1>1. 0 \in Nat /\ IdlePublication(0) \in Publication
  BY IdleTyped
<1>2. <<>> \in Seq(Fetch) /\ <<>> \in Seq(Events)
  BY EmptyHas
<1>3. QED
  BY <1>1, <1>2 DEF Init, TypeOK, NoSubscriptions

(* Every action of a fetch edits it. *)
LEMMA FetchStepWrites ==
    ASSUME TypeOK, NEW c \in Clients,
           FetchStep(c) \/ \E i \in DOMAIN fetches[c] : FetchFails(c, i)
    PROVE  /\ UNCHANGED NotFetching
           /\ \E i \in DOMAIN fetches[c], x \in Fetch :
                 /\ Edits(c, i, x)
                 /\ SameReq(x, fetches[c][i])
                 /\ \/ /\ Query(c, i) /\ UNCHANGED seen
                       /\ Reads(x) /\ x.phase = "stream"
                    \/ \E e \in Events :
                          /\ SendStored(c, i, e)
                          /\ x.left = fetches[c][i].left \ {e} /\ x.phase = "stream"
                    \/ /\ UNCHANGED seen
                       /\ x.left = {} /\ x.phase = "eose"
                       /\ fetches[c][i].phase = "stream" /\ fetches[c][i].left = {}
                    \/ UNCHANGED seen /\ x.left = {} /\ x.phase = "failed"
<1>1. ASSUME NEW i \in DOMAIN fetches[c], Query(c, i) PROVE UNCHANGED NotFetching /\ UNCHANGED seen
  BY <1>1 DEF Query
<1>2. ASSUME NEW i \in DOMAIN fetches[c], SendEOSE(c, i)
      PROVE  UNCHANGED NotFetching /\ UNCHANGED seen
  BY <1>2 DEF SendEOSE
<1>3. ASSUME NEW i \in DOMAIN fetches[c], FetchFails(c, i)
      PROVE  UNCHANGED NotFetching /\ UNCHANGED seen
  BY <1>3 DEF FetchFails
<1>4. ASSUME NEW i \in DOMAIN fetches[c], NEW e \in Events, SendStored(c, i, e)
      PROVE  UNCHANGED NotFetching
  BY <1>4 DEF SendStored
<1>5. ASSUME NEW i \in DOMAIN fetches[c], Query(c, i)
      PROVE  \E x \in Fetch : /\ Edits(c, i, x)
                              /\ SameReq(x, fetches[c][i])
                              /\ Reads(x) /\ x.phase = "stream"
  BY <1>5, QueryWrites
<1>6. ASSUME NEW i \in DOMAIN fetches[c], NEW e \in Events, SendStored(c, i, e)
      PROVE  \E x \in Fetch : /\ Edits(c, i, x)
                              /\ SameReq(x, fetches[c][i])
                              /\ x.left = fetches[c][i].left \ {e} /\ x.phase = "stream"
  BY <1>6, SendStoredWrites
<1>7. ASSUME NEW i \in DOMAIN fetches[c], SendEOSE(c, i)
      PROVE  \E x \in Fetch : /\ Edits(c, i, x)
                              /\ SameReq(x, fetches[c][i])
                              /\ x.left = {} /\ x.phase = "eose"
                              /\ fetches[c][i].phase = "stream" /\ fetches[c][i].left = {}
  BY <1>7, SendEOSEWrites
<1>8. ASSUME NEW i \in DOMAIN fetches[c], FetchFails(c, i)
      PROVE  \E x \in Fetch : /\ Edits(c, i, x)
                              /\ SameReq(x, fetches[c][i])
                              /\ x.left = {} /\ x.phase = "failed"
  BY <1>8, FetchFailsWrites
<1>9. UNCHANGED NotFetching
  BY <1>1, <1>2, <1>3, <1>4 DEF FetchStep
<1>10. PICK i \in DOMAIN fetches[c] :
           \/ Query(c, i) \/ SendEOSE(c, i) \/ FetchFails(c, i)
           \/ \E e \in Events : SendStored(c, i, e)
  BY DEF FetchStep
<1>11. CASE Query(c, i)
  BY <1>1, <1>5, <1>9, <1>11
<1>12. CASE SendEOSE(c, i)
  BY <1>2, <1>7, <1>9, <1>12
<1>13. CASE FetchFails(c, i)
  BY <1>3, <1>8, <1>9, <1>13
<1>14. ASSUME NEW e \in Events, SendStored(c, i, e)
       PROVE  \E j \in DOMAIN fetches[c], x \in Fetch :
                 /\ Edits(c, j, x)
                 /\ SameReq(x, fetches[c][j])
                 /\ SendStored(c, j, e)
                 /\ x.left = fetches[c][j].left \ {e} /\ x.phase = "stream"
  BY <1>6, <1>14
<1>15. QED
  BY <1>9, <1>10, <1>11, <1>12, <1>13, <1>14

LEMMA CrashWrites ==
    ASSUME TypeOK, NEW w \in Workers, Crash(w)
    PROVE  /\ up' \subseteq up /\ UNCHANGED <<stored, deleted, seen, announced>>
           /\ \A c \in Clients :
                 IF HomeOf[c] = w
                 THEN /\ conn'[c] = (IF Open(c) THEN "closed" ELSE conn[c])
                      /\ subs'[c] = NoSubscriptions /\ fetches'[c] = <<>>
                      /\ pub'[c] = IdlePublication(0)
                 ELSE /\ conn'[c] = conn[c] /\ subs'[c] = subs[c]
                      /\ fetches'[c] = fetches[c] /\ pub'[c] = pub[c]
           /\ toWorker'[w] = <<>>
           /\ \E n \in 0..Len(toPrimary[w]) : toPrimary'[w] = SubSeq(toPrimary[w], 1, n)
           /\ \A v \in Workers : v # w => toWorker'[v] = toWorker[v] /\ toPrimary'[v] = toPrimary[v]
           /\ toPrimary' \in [Workers -> Seq(Events)] /\ toWorker' \in [Workers -> Seq(Events)]
<1>1. /\ up' \subseteq up /\ UNCHANGED <<stored, deleted, seen, announced>>
      /\ \A c \in Clients :
            IF HomeOf[c] = w
            THEN /\ conn'[c] = (IF Open(c) THEN "closed" ELSE conn[c])
                 /\ subs'[c] = NoSubscriptions /\ fetches'[c] = <<>>
                 /\ pub'[c] = IdlePublication(0)
            ELSE /\ conn'[c] = conn[c] /\ subs'[c] = subs[c]
                 /\ fetches'[c] = fetches[c] /\ pub'[c] = pub[c]
  BY DEF Crash
<1>2. /\ toWorker' \in [Workers -> Seq(Events)] /\ toWorker'[w] = <<>>
      /\ \A v \in Workers : v # w => toWorker'[v] = toWorker[v]
  BY EmptyHas DEF Crash, TypeOK
<1>3. PICK n \in 0..Len(toPrimary[w]) : toPrimary' = [toPrimary EXCEPT ![w] = SubSeq(@, 1, n)]
  BY DEF Crash
<1>4. toPrimary[w] \in Seq(Events) /\ SubSeq(toPrimary[w], 1, n) \in Seq(Events)
  BY PrefixHas DEF TypeOK
<1>5. /\ toPrimary' \in [Workers -> Seq(Events)]
      /\ toPrimary'[w] = SubSeq(toPrimary[w], 1, n)
      /\ \A v \in Workers : v # w => toPrimary'[v] = toPrimary[v]
  BY <1>3, <1>4 DEF TypeOK
<1>6. QED
  BY <1>1, <1>2, <1>5

(* The primary takes the first message of a worker, and hands it to some   *)
(* of the others.                                                          *)
LEMMA ForwardWrites ==
    ASSUME TypeOK, NEW w \in Workers, Forward(w)
    PROVE  /\ toPrimary[w] # <<>> /\ toPrimary[w] \in Seq(Events) /\ Head(toPrimary[w]) \in Events
           /\ UNCHANGED <<up, conn, subs, fetches, pub, stored, deleted, seen, announced>>
           /\ toPrimary' \in [Workers -> Seq(Events)] /\ toWorker' \in [Workers -> Seq(Events)]
           /\ toPrimary'[w] = Tail(toPrimary[w])
           /\ \A v \in Workers : v # w => toPrimary'[v] = toPrimary[v]
           /\ \A v \in Workers : \/ toWorker'[v] = toWorker[v]
                                 \/ /\ v # w
                                    /\ toWorker'[v] = Append(toWorker[v], Head(toPrimary[w]))
<1>1. /\ toPrimary[w] # <<>> /\ toPrimary[w] \in Seq(Events)
      /\ UNCHANGED <<up, conn, subs, fetches, pub, stored, deleted, seen, announced>>
  BY DEF Forward, TypeOK
<1>2. Head(toPrimary[w]) \in Events /\ Tail(toPrimary[w]) \in Seq(Events)
  BY <1>1, TailHas
<1>3. /\ toPrimary' \in [Workers -> Seq(Events)] /\ toPrimary'[w] = Tail(toPrimary[w])
      /\ \A v \in Workers : v # w => toPrimary'[v] = toPrimary[v]
  BY <1>2 DEF Forward, TypeOK
<1>4. ASSUME NEW v \in Workers PROVE Append(toWorker[v], Head(toPrimary[w])) \in Seq(Events)
  BY <1>2, AppendHas DEF TypeOK
<1>5. toWorker' \in [Workers -> Seq(Events)]
  BY <1>4 DEF Forward, TypeOK
<1>6. \A v \in Workers : \/ toWorker'[v] = toWorker[v]
                         \/ /\ v # w
                            /\ toWorker'[v] = Append(toWorker[v], Head(toPrimary[w]))
  BY DEF Forward, ForwardTargets
<1>7. QED
  BY <1>1, <1>2, <1>3, <1>5, <1>6

LEMMA ReceiveWrites ==
    ASSUME TypeOK, NEW w \in Workers, Receive(w)
    PROVE  /\ toWorker[w] # <<>> /\ toWorker[w] \in Seq(Events) /\ Head(toWorker[w]) \in Events
           /\ UNCHANGED <<up, conn, subs, fetches, pub, stored, deleted, toPrimary>>
           /\ Announce(w, Head(toWorker[w]))
           /\ toWorker' \in [Workers -> Seq(Events)]
           /\ toWorker'[w] = Tail(toWorker[w])
           /\ \A v \in Workers : v # w => toWorker'[v] = toWorker[v]
<1>1. /\ toWorker[w] # <<>> /\ toWorker[w] \in Seq(Events)
      /\ UNCHANGED <<up, conn, subs, fetches, pub, stored, deleted, toPrimary>>
      /\ Announce(w, Head(toWorker[w]))
      /\ toWorker' = [toWorker EXCEPT ![w] = Tail(@)]
  BY DEF Receive, TypeOK
<1>2. Head(toWorker[w]) \in Events /\ Tail(toWorker[w]) \in Seq(Events)
  BY <1>1, TailHas
<1>3. QED
  BY <1>1, <1>2 DEF TypeOK

LEMMA PublishWrites ==
    ASSUME TypeOK, NEW c \in Clients, NEW e \in Events, Publish(c, e)
    PROVE  /\ pub' \in [Clients -> Publication]
           /\ stored \subseteq stored' /\ stored' \subseteq Events \ Ephemeral
           /\ pub'[c].event = e /\ \A d \in Clients : d # c => pub'[d] = pub[d]
           /\ \/ pub'[c].pc = "fresh" /\ e \notin stored /\ stored' = Inserted(e)
              \/ pub'[c].pc = "duplicate" /\ UNCHANGED stored
           /\ UNCHANGED <<up, conn, subs, fetches, deleted, toPrimary, toWorker, seen, announced>>
<1>1. \A result \in {"fresh", "duplicate"} :
          /\ Publishing(c, result, e) \in Publication
          /\ Publishing(c, result, e).pc = result /\ Publishing(c, result, e).event = e
  BY TypeFacts DEF Publishing, Publication
<1>2. PICK result \in {"fresh", "duplicate"} :
          /\ pub' = [pub EXCEPT ![c] = Publishing(c, result, e)]
          /\ \/ result = "fresh" /\ e \notin stored /\ stored' = Inserted(e)
             \/ result = "duplicate" /\ UNCHANGED stored
  BY DEF Publish
<1>3. /\ pub' \in [Clients -> Publication] /\ pub'[c] = Publishing(c, result, e)
      /\ \A d \in Clients : d # c => pub'[d] = pub[d]
  BY <1>1, <1>2 DEF TypeOK
<1>4. stored \subseteq stored' /\ stored' \subseteq Events \ Ephemeral
  BY <1>2 DEF Inserted, TypeOK
<1>5. UNCHANGED <<up, conn, subs, fetches, deleted, toPrimary, toWorker, seen, announced>>
  BY DEF Publish
<1>6. QED
  BY <1>1, <1>2, <1>3, <1>4, <1>5

LEMMA PubSubTypeStep == TypeOK /\ [Next]_vars => TypeOK'
<1>. SUFFICES ASSUME TypeOK, [Next]_vars PROVE TypeOK'
  OBVIOUS
<1>1. ASSUME NEW c \in Clients, Connect(c) PROVE TypeOK'
  BY <1>1 DEF Connect, TypeOK
<1>2. ASSUME NEW c \in Clients, Close(c) PROVE TypeOK'
  <2>1. <<>> \in Seq(Fetch)
    BY EmptyHas
  <2>2. QED
    BY <1>2, <2>1 DEF Close, TypeOK, NoSubscriptions
<1>3. ASSUME NEW c \in Clients, NEW s \in SubIds, NEW f \in Filters, Subscribe(c, s, f)
      PROVE  TypeOK'
  <2>1. UNCHANGED <<up, conn, pub, stored, deleted, toPrimary, toWorker, announced>>
    BY <1>3 DEF Subscribe
  <2>2. QED
    BY <1>3, <2>1, SubscribeWrites DEF TypeOK
<1>4. ASSUME NEW c \in Clients, NEW s \in SubIds, Unsubscribe(c, s) PROVE TypeOK'
  BY <1>4 DEF Unsubscribe, TypeOK
<1>5. ASSUME NEW c \in Clients, FetchStep(c) \/ \E i \in DOMAIN fetches[c] : FetchFails(c, i)
      PROVE  TypeOK'
  <2>1. UNCHANGED <<up, conn, subs, pub, stored, deleted, toPrimary, toWorker, announced>>
    BY <1>5, FetchStepWrites DEF NotFetching
  <2>2. fetches' \in [Clients -> Seq(Fetch)]
    BY <1>5, FetchStepWrites, EditWrites
  <2>3. seen' \in [Clients -> [SubIds -> SUBSET Events]]
    <3>1. ASSUME NEW i \in DOMAIN fetches[c], NEW e \in Events, SendStored(c, i, e)
          PROVE  seen' \in [Clients -> [SubIds -> SUBSET Events]]
      <4>1. seen' = [seen EXCEPT ![c][fetches[c][i].sub] = @ \cup {e}]
        BY <3>1 DEF SendStored
      <4>2. fetches[c][i].sub \in SubIds
        BY TypeFacts DEF Fetch
      <4>3. QED
        BY <4>1, <4>2 DEF TypeOK
    <3>2. UNCHANGED seen => seen' \in [Clients -> [SubIds -> SUBSET Events]]
      BY DEF TypeOK
    <3>3. QED
      BY <1>5, <3>1, <3>2, FetchStepWrites
  <2>4. QED
    BY <2>1, <2>2, <2>3 DEF TypeOK
<1>6. ASSUME NEW c \in Clients, NEW e \in Events, Publish(c, e) PROVE TypeOK'
  BY <1>6, PublishWrites DEF TypeOK
<1>7. ASSUME NEW c \in Clients, Respond(c) PROVE TypeOK'
  <2>1. /\ HomeOf[c] \in Workers /\ pub[c].event \in Events
        /\ toPrimary[HomeOf[c]] \in Seq(Events)
    BY TypeFacts DEF Publication, TypeOK
  <2>2. Append(toPrimary[HomeOf[c]], pub[c].event) \in Seq(Events)
    BY <2>1, AppendHas
  <2>3. /\ seen' \in [Clients -> [SubIds -> SUBSET Events]]
        /\ announced' \in [Workers -> [Events -> Nat]]
        /\ toPrimary' \in [Workers -> Seq(Events)]
    <3>1. CASE UNCHANGED <<seen, announced, toPrimary>>
      BY <3>1 DEF TypeOK
    <3>2. CASE /\ Announce(HomeOf[c], pub[c].event)
               /\ toPrimary' = [toPrimary EXCEPT ![HomeOf[c]] = Append(@, pub[c].event)]
      <4>1. toPrimary' \in [Workers -> Seq(Events)]
        BY <2>2, <3>2 DEF TypeOK
      <4>2. QED
        BY <2>1, <3>2, <4>1, AnnounceWrites
    <3>3. QED
      BY <1>7, <3>1, <3>2, RespondWrites
  <2>4. /\ pub' \in [Clients -> Publication]
        /\ UNCHANGED <<up, conn, subs, fetches, stored, deleted, toWorker>>
    BY <1>7, RespondWrites
  <2>5. QED
    BY <2>3, <2>4 DEF TypeOK
<1>8. ASSUME NEW w \in Workers, Forward(w) PROVE TypeOK'
  BY <1>8, ForwardWrites DEF TypeOK
<1>9. ASSUME NEW w \in Workers, Receive(w) PROVE TypeOK'
  <2>1. /\ seen' \in [Clients -> [SubIds -> SUBSET Events]]
        /\ announced' \in [Workers -> [Events -> Nat]]
    BY <1>9, ReceiveWrites, AnnounceWrites
  <2>2. QED
    BY <1>9, <2>1, ReceiveWrites DEF TypeOK
<1>10. ASSUME NEW w \in Workers, Crash(w) PROVE TypeOK'
  <2>1. <<>> \in Seq(Fetch) /\ IdlePublication(0) \in Publication
    BY EmptyHas, IdleTyped
  <2>2. /\ conn' \in [Clients -> {"new", "open", "closed"}]
        /\ subs' \in [Clients -> [SubIds -> Filters \cup {NoFilter}]]
        /\ fetches' \in [Clients -> Seq(Fetch)]
        /\ pub' \in [Clients -> Publication]
    BY <1>10, <2>1 DEF Crash, TypeOK, NoSubscriptions
  <2>3. QED
    BY <1>10, <2>2, CrashWrites DEF TypeOK
<1>11. ASSUME NEW w \in Workers, Refork(w) PROVE TypeOK'
  BY <1>11 DEF Refork, TypeOK
<1>12. ASSUME NEW e \in Events, Delete(e) PROVE TypeOK'
  BY <1>12 DEF Delete, TypeOK
<1>13. CASE UNCHANGED vars
  BY <1>13 DEF vars, TypeOK
<1>14. QED
  BY <1>1, <1>2, <1>3, <1>4, <1>5, <1>6, <1>7, <1>8, <1>9, <1>10, <1>11, <1>12, <1>13 DEF Next

-----------------------------------------------------------------------------
(* Every event is broadcast once. *)

OnceInv == SpokenIsStored /\ FreshIsFirst /\ ToPrimaryOnce /\ ToWorkerOnce /\ AnnouncedOnce

LEMMA PublishOnce ==
    ASSUME TypeOK, OnceInv, NEW c \in Clients, NEW d \in Events, Publish(c, d)
    PROVE  OnceInv'
<1>1. /\ pub'[c].event = d /\ \A b \in Clients : b # c => pub'[b] = pub[b]
      /\ \/ pub'[c].pc = "fresh" /\ d \notin stored /\ stored' = Inserted(d)
         \/ pub'[c].pc = "duplicate" /\ UNCHANGED stored
      /\ UNCHANGED <<toPrimary, toWorker, announced>>
  BY PublishWrites
<1>2. stored \subseteq stored'
  BY <1>1 DEF Inserted
<1>3. ASSUME NEW e \in Regular, NEW b \in Clients, Fresh(b, e)'
      PROVE  Fresh(b, e) \/ (b = c /\ e = d /\ e \notin stored /\ e \in stored')
  BY <1>1, <1>3 DEF Fresh, Inserted, Regular
<1>4. SpokenIsStored'
  BY <1>1, <1>2, <1>3 DEF OnceInv, SpokenIsStored
<1>5. FreshIsFirst'
  <2>1. SUFFICES ASSUME NEW e \in Regular, NEW b \in Clients, Fresh(b, e)'
                 PROVE  /\ \A a \in Clients : Fresh(a, e)' => a = b
                        /\ \A w \in Workers : /\ ~Has(toPrimary[w], e) /\ ~Has(toWorker[w], e)
                                              /\ announced[w][e] = 0
    BY <1>1 DEF FreshIsFirst
  <2>2. CASE e \in stored
    BY <1>3, <2>1, <2>2 DEF OnceInv, FreshIsFirst
  <2>3. CASE e \notin stored
    <3>1. /\ \A a \in Clients : ~Fresh(a, e)
          /\ \A w \in Workers : /\ ~Has(toPrimary[w], e) /\ ~Has(toWorker[w], e)
                                /\ ~(announced[w][e] > 0)
      BY <2>3 DEF OnceInv, SpokenIsStored
    <3>2. \A w \in Workers : announced[w][e] \in Nat
      BY DEF TypeOK, Regular
    <3>3. QED
      BY <1>3, <2>1, <3>1, <3>2
  <2>4. QED
    BY <2>2, <2>3
<1>6. ToPrimaryOnce' /\ ToWorkerOnce' /\ AnnouncedOnce'
  BY <1>1 DEF OnceInv, ToPrimaryOnce, ToWorkerOnce, AnnouncedOnce
<1>7. QED
  BY <1>4, <1>5, <1>6 DEF OnceInv

LEMMA RespondOnce ==
    ASSUME TypeOK, OnceInv, NEW c \in Clients, Respond(c)
    PROVE  OnceInv'
<1> DEFINE d == pub[c].event
           h == HomeOf[c]
<1>1. /\ pub'[c].pc = "idle" /\ \A b \in Clients : b # c => pub'[b] = pub[b]
      /\ UNCHANGED <<stored, toWorker>>
      /\ d \in Events /\ h \in Workers /\ toPrimary[h] \in Seq(Events)
  BY RespondWrites, TypeFacts DEF Publication, TypeOK
<1>2. \A e \in Regular, b \in Clients : Fresh(b, e)' => Fresh(b, e) /\ b # c
  BY <1>1 DEF Fresh
<1>3. CASE UNCHANGED <<announced, toPrimary>>
  <2>1. SpokenIsStored' /\ FreshIsFirst'
    BY <1>1, <1>2, <1>3 DEF OnceInv, SpokenIsStored, FreshIsFirst
  <2>2. ToPrimaryOnce' /\ ToWorkerOnce' /\ AnnouncedOnce'
    BY <1>1, <1>3 DEF OnceInv, ToPrimaryOnce, ToWorkerOnce, AnnouncedOnce
  <2>3. QED
    BY <2>1, <2>2 DEF OnceInv
<1>4. CASE /\ Fresh(c, d) /\ Announce(h, d)
           /\ toPrimary' = [toPrimary EXCEPT ![h] = Append(@, d)]
  <2>1. /\ announced'[h][d] = announced[h][d] + 1
        /\ \A v \in Workers, e \in Events : v # h \/ e # d => announced'[v][e] = announced[v][e]
    BY <1>1, <1>4, AnnounceWrites
  <2>2. /\ toPrimary'[h] = Append(toPrimary[h], d)
        /\ \A v \in Workers : v # h => toPrimary'[v] = toPrimary[v]
    BY <1>1, <1>4 DEF TypeOK
  <2>3. \A e : /\ Has(toPrimary'[h], e) <=> Has(toPrimary[h], e) \/ d = e
               /\ Once(toPrimary[h], e) /\ (d = e => ~Has(toPrimary[h], e))
                      => Once(toPrimary'[h], e)
    BY <1>1, <2>2, AppendHas
  (* Nothing is in flight of the event itself. *)
  <2>4. d \in Regular =>
            /\ d \in stored /\ \A b \in Clients : Fresh(b, d) => b = c
            /\ \A w \in Workers : /\ ~Has(toPrimary[w], d) /\ ~Has(toWorker[w], d)
                                  /\ announced[w][d] = 0
    BY <1>4 DEF OnceInv, SpokenIsStored, FreshIsFirst
  <2>5. Regular \subseteq Events
    BY DEF Regular
  <2>6. SpokenIsStored'
    <3>1. SUFFICES ASSUME NEW e \in Regular, e # d,
                          \/ \E b \in Clients : Fresh(b, e)'
                          \/ \E w \in Workers : \/ Has(toPrimary'[w], e) \/ Has(toWorker[w], e)
                                                \/ announced'[w][e] > 0
                   PROVE  e \in stored
      BY <1>1, <2>4 DEF SpokenIsStored
    <3>2. \A w \in Workers : /\ Has(toPrimary'[w], e) => Has(toPrimary[w], e)
                             /\ announced'[w][e] = announced[w][e]
      BY <2>1, <2>2, <2>3, <2>5, <3>1
    <3>3. QED
      BY <1>2, <3>1, <3>2 DEF OnceInv, SpokenIsStored
  <2>7. FreshIsFirst'
    <3>1. SUFFICES ASSUME NEW e \in Regular, NEW b \in Clients, Fresh(b, e)'
                   PROVE  /\ \A a \in Clients : Fresh(a, e)' => a = b
                          /\ \A w \in Workers :
                                /\ ~Has(toPrimary'[w], e) /\ ~Has(toWorker[w], e)
                                /\ announced'[w][e] = 0
      BY <1>1 DEF FreshIsFirst
    <3>2. Fresh(b, e) /\ e # d
      BY <1>2, <2>4, <3>1
    <3>3. \A w \in Workers : /\ Has(toPrimary'[w], e) => Has(toPrimary[w], e)
                             /\ announced'[w][e] = announced[w][e]
      BY <2>1, <2>2, <2>3, <2>5, <3>2
    <3>4. QED
      BY <1>2, <3>2, <3>3 DEF OnceInv, FreshIsFirst
  <2>8. ToPrimaryOnce'
    <3>1. SUFFICES ASSUME NEW e \in Regular, NEW v \in Workers, Has(toPrimary'[v], e)
                   PROVE  /\ Once(toPrimary'[v], e)
                          /\ \A w \in Workers :
                                /\ ~Has(toWorker[w], e)
                                /\ w # v => ~Has(toPrimary'[w], e) /\ announced'[w][e] = 0
      BY <1>1 DEF ToPrimaryOnce
    <3>2. CASE e = d
      <4>1. v = h
        BY <2>2, <2>4, <3>1, <3>2
      <4>2. Once(toPrimary[h], e)
        BY <1>1, <2>4, <3>2 DEF Has, Once
      <4>3. QED
        BY <2>1, <2>2, <2>3, <2>4, <2>5, <3>2, <4>1, <4>2
    <3>3. CASE e # d
      <4>1. \A w \in Workers : /\ Has(toPrimary'[w], e) <=> Has(toPrimary[w], e)
                               /\ Once(toPrimary[w], e) => Once(toPrimary'[w], e)
                               /\ announced'[w][e] = announced[w][e]
        BY <2>1, <2>2, <2>3, <2>5, <3>3
      <4>2. QED
        BY <3>1, <4>1 DEF OnceInv, ToPrimaryOnce
    <3>4. QED
      BY <3>2, <3>3
  <2>9. ToWorkerOnce'
    BY <1>1, <2>1, <2>4, <2>5 DEF OnceInv, ToWorkerOnce
  <2>10. AnnouncedOnce'
    BY <2>1, <2>4, <2>5 DEF OnceInv, AnnouncedOnce, Regular
  <2>11. QED
    BY <2>6, <2>7, <2>8, <2>9, <2>10 DEF OnceInv
<1>5. QED
  BY <1>3, <1>4, RespondWrites

LEMMA ForwardOnce ==
    ASSUME TypeOK, OnceInv, NEW w \in Workers, Forward(w)
    PROVE  OnceInv'
<1> DEFINE d == Head(toPrimary[w])
<1>1. /\ UNCHANGED <<pub, stored, announced>>
      /\ toPrimary[w] \in Seq(Events) /\ toPrimary[w] # <<>> /\ d \in Events
      /\ toPrimary'[w] = Tail(toPrimary[w])
      /\ \A v \in Workers : v # w => toPrimary'[v] = toPrimary[v]
      /\ \A v \in Workers : \/ toWorker'[v] = toWorker[v]
                            \/ v # w /\ toWorker'[v] = Append(toWorker[v], d)
      /\ \A v \in Workers : toWorker[v] \in Seq(Events)
  BY ForwardWrites DEF TypeOK
<1> HIDE DEF d
<1>2. /\ Has(toPrimary[w], d)
      /\ Once(toPrimary[w], d) => ~Has(toPrimary'[w], d)
      /\ \A e : /\ Has(toPrimary'[w], e) => Has(toPrimary[w], e)
                /\ Once(toPrimary[w], e) => Once(toPrimary'[w], e)
  BY <1>1, TailHas DEF d
<1>3. \A v \in Workers, e \in Regular :
          /\ Has(toPrimary'[v], e) => Has(toPrimary[v], e)
          /\ Once(toPrimary[v], e) => Once(toPrimary'[v], e)
  BY <1>1, <1>2
<1>4. ASSUME NEW v \in Workers, NEW e
      PROVE  /\ Has(toWorker'[v], e) => Has(toWorker[v], e) \/ (e = d /\ v # w)
             /\ Once(toWorker[v], e) /\ (e = d => ~Has(toWorker[v], e)) => Once(toWorker'[v], e)
  <2>1. CASE toWorker'[v] = toWorker[v]
    BY <2>1
  <2>2. CASE v # w /\ toWorker'[v] = Append(toWorker[v], d)
    BY <1>1, <2>2, AppendHas
  <2>3. QED
    BY <1>1, <2>1, <2>2
(* The event forwarded was on no other way. *)
<1>5. d \in Regular =>
          /\ d \in stored /\ \A b \in Clients : ~Fresh(b, d)
          /\ Once(toPrimary[w], d)
          /\ \A v \in Workers : /\ ~Has(toWorker[v], d)
                                /\ v # w => ~Has(toPrimary[v], d) /\ announced[v][d] = 0
  BY <1>2 DEF OnceInv, SpokenIsStored, FreshIsFirst, ToPrimaryOnce
<1>6. d \in Regular => \A v \in Workers : ~Has(toPrimary'[v], d)
  BY <1>1, <1>2, <1>5
<1>7. \A b, e : Fresh(b, e)' <=> Fresh(b, e)
  BY <1>1 DEF Fresh
<1>8. SpokenIsStored'
  <2>1. SUFFICES ASSUME NEW e \in Regular, e # d,
                        \/ \E b \in Clients : Fresh(b, e)'
                        \/ \E v \in Workers : \/ Has(toPrimary'[v], e) \/ Has(toWorker'[v], e)
                                              \/ announced[v][e] > 0
                 PROVE  e \in stored
    BY <1>1, <1>5 DEF SpokenIsStored
  <2>2. QED
    BY <1>3, <1>4, <1>7, <2>1 DEF OnceInv, SpokenIsStored
<1>9. FreshIsFirst'
  <2>1. SUFFICES ASSUME NEW e \in Regular, NEW b \in Clients, Fresh(b, e)
                 PROVE  /\ \A a \in Clients : Fresh(a, e) => a = b
                        /\ \A v \in Workers : /\ ~Has(toPrimary'[v], e) /\ ~Has(toWorker'[v], e)
                                              /\ announced[v][e] = 0
    BY <1>1, <1>7 DEF FreshIsFirst
  <2>2. e # d
    BY <1>5, <2>1
  <2>3. QED
    BY <1>3, <1>4, <2>1, <2>2 DEF OnceInv, FreshIsFirst
<1>10. ToPrimaryOnce'
  <2>1. SUFFICES ASSUME NEW e \in Regular, NEW u \in Workers, Has(toPrimary'[u], e)
                 PROVE  /\ Once(toPrimary'[u], e)
                        /\ \A v \in Workers :
                              /\ ~Has(toWorker'[v], e)
                              /\ v # u => ~Has(toPrimary'[v], e) /\ announced[v][e] = 0
    BY <1>1 DEF ToPrimaryOnce
  <2>2. e # d
    BY <1>6, <2>1
  <2>3. Has(toPrimary[u], e)
    BY <1>3, <2>1
  <2>4. QED
    BY <1>3, <1>4, <2>2, <2>3 DEF OnceInv, ToPrimaryOnce
<1>11. ToWorkerOnce'
  <2>1. SUFFICES ASSUME NEW e \in Regular, NEW v \in Workers, Has(toWorker'[v], e)
                 PROVE  Once(toWorker'[v], e) /\ announced[v][e] = 0
    BY <1>1 DEF ToWorkerOnce
  <2>2. CASE e = d
    <3>1. ~Has(toWorker[v], d) /\ v # w /\ announced[v][d] = 0
      BY <1>4, <1>5, <2>1, <2>2
    <3>2. Once(toWorker[v], d)
      BY <3>1 DEF Has, Once
    <3>3. QED
      BY <1>4, <2>2, <3>1, <3>2
  <2>3. CASE e # d
    BY <1>4, <2>1, <2>3 DEF OnceInv, ToWorkerOnce
  <2>4. QED
    BY <2>2, <2>3
<1>12. AnnouncedOnce'
  BY <1>1 DEF OnceInv, AnnouncedOnce
<1>13. QED
  BY <1>8, <1>9, <1>10, <1>11, <1>12 DEF OnceInv

LEMMA ReceiveOnce ==
    ASSUME TypeOK, OnceInv, NEW w \in Workers, Receive(w)
    PROVE  OnceInv'
<1> DEFINE d == Head(toWorker[w])
<1>1. /\ UNCHANGED <<pub, stored, toPrimary>> /\ Announce(w, d)
      /\ toWorker[w] \in Seq(Events) /\ toWorker[w] # <<>> /\ d \in Events
      /\ toWorker'[w] = Tail(toWorker[w])
      /\ \A v \in Workers : v # w => toWorker'[v] = toWorker[v]
  BY ReceiveWrites
<1> HIDE DEF d
<1>2. /\ announced'[w][d] = announced[w][d] + 1
      /\ \A v \in Workers, e \in Events : v # w \/ e # d => announced'[v][e] = announced[v][e]
  BY <1>1, AnnounceWrites
<1>3. /\ Has(toWorker[w], d)
      /\ Once(toWorker[w], d) => ~Has(toWorker'[w], d)
      /\ \A e : /\ Has(toWorker'[w], e) => Has(toWorker[w], e)
                /\ Once(toWorker[w], e) => Once(toWorker'[w], e)
  BY <1>1, TailHas DEF d
<1>4. \A v \in Workers, e \in Regular :
          /\ Has(toWorker'[v], e) => Has(toWorker[v], e)
          /\ Once(toWorker[v], e) => Once(toWorker'[v], e)
  BY <1>1, <1>3
<1>5. d \in Regular =>
          /\ d \in stored /\ \A b \in Clients : ~Fresh(b, d)
          /\ \A v \in Workers : ~Has(toPrimary[v], d)
          /\ announced[w][d] = 0 /\ ~Has(toWorker'[w], d)
  BY <1>3 DEF OnceInv, SpokenIsStored, FreshIsFirst, ToPrimaryOnce, ToWorkerOnce
<1>6. \A b, e : Fresh(b, e)' <=> Fresh(b, e)
  BY <1>1 DEF Fresh
<1>7. \A e \in Regular, v \in Workers : e # d \/ v # w => announced'[v][e] = announced[v][e]
  BY <1>2 DEF Regular
<1>8. SpokenIsStored'
  <2>1. SUFFICES ASSUME NEW e \in Regular, e # d,
                        \/ \E b \in Clients : Fresh(b, e)'
                        \/ \E v \in Workers : \/ Has(toPrimary[v], e) \/ Has(toWorker'[v], e)
                                              \/ announced'[v][e] > 0
                 PROVE  e \in stored
    BY <1>1, <1>5 DEF SpokenIsStored
  <2>2. QED
    BY <1>4, <1>6, <1>7, <2>1 DEF OnceInv, SpokenIsStored
<1>9. FreshIsFirst'
  <2>1. SUFFICES ASSUME NEW e \in Regular, NEW b \in Clients, Fresh(b, e)
                 PROVE  /\ \A a \in Clients : Fresh(a, e) => a = b
                        /\ \A v \in Workers : /\ ~Has(toPrimary[v], e) /\ ~Has(toWorker'[v], e)
                                              /\ announced'[v][e] = 0
    BY <1>1, <1>6 DEF FreshIsFirst
  <2>2. e # d
    BY <1>5, <2>1
  <2>3. QED
    BY <1>4, <1>7, <2>1, <2>2 DEF OnceInv, FreshIsFirst
<1>10. ToPrimaryOnce'
  <2>1. SUFFICES ASSUME NEW e \in Regular, NEW u \in Workers, Has(toPrimary[u], e)
                 PROVE  /\ Once(toPrimary[u], e)
                        /\ \A v \in Workers :
                              /\ ~Has(toWorker'[v], e)
                              /\ v # u => ~Has(toPrimary[v], e) /\ announced'[v][e] = 0
    BY <1>1 DEF ToPrimaryOnce
  <2>2. e # d
    BY <1>5, <2>1
  <2>3. QED
    BY <1>4, <1>7, <2>1, <2>2 DEF OnceInv, ToPrimaryOnce
<1>11. ToWorkerOnce'
  <2>1. SUFFICES ASSUME NEW e \in Regular, NEW v \in Workers, Has(toWorker'[v], e)
                 PROVE  Once(toWorker'[v], e) /\ announced'[v][e] = 0
    BY DEF ToWorkerOnce
  <2>2. e # d \/ v # w
    BY <1>5, <2>1
  <2>3. QED
    BY <1>4, <1>7, <2>1, <2>2 DEF OnceInv, ToWorkerOnce
<1>12. AnnouncedOnce'
  <2>1. SUFFICES ASSUME NEW v \in Workers, NEW e \in Regular PROVE announced'[v][e] <= 1
    BY DEF AnnouncedOnce, Regular
  <2>2. CASE e = d /\ v = w
    BY <1>2, <1>5, <2>2
  <2>3. CASE e # d \/ v # w
    BY <1>7, <2>3 DEF OnceInv, AnnouncedOnce, Regular
  <2>4. QED
    BY <2>2, <2>3
<1>13. QED
  BY <1>8, <1>9, <1>10, <1>11, <1>12 DEF OnceInv

(* Messages and publications get lost. *)
LEMMA CrashOnce ==
    ASSUME TypeOK, OnceInv, NEW w \in Workers, Crash(w)
    PROVE  OnceInv'
<1>1. PICK n \in 0..Len(toPrimary[w]) : toPrimary'[w] = SubSeq(toPrimary[w], 1, n)
  BY CrashWrites
<1>2. \A v \in Workers, e \in Regular :
          /\ Has(toPrimary'[v], e) => Has(toPrimary[v], e)
          /\ Once(toPrimary[v], e) => Once(toPrimary'[v], e)
  <2>1. toPrimary[w] \in Seq(Events)
    BY DEF TypeOK
  <2>2. \A e \in Regular : /\ Has(toPrimary'[w], e) => Has(toPrimary[w], e)
                           /\ Once(toPrimary[w], e) => Once(toPrimary'[w], e)
    BY <1>1, <2>1, PrefixHas
  <2>3. \A v \in Workers : v # w => toPrimary'[v] = toPrimary[v]
    BY CrashWrites
  <2>4. QED
    BY <2>2, <2>3
<1>3. \A v \in Workers, e \in Regular : /\ Has(toWorker'[v], e) => Has(toWorker[v], e)
                                        /\ Once(toWorker[v], e) => Once(toWorker'[v], e)
  <2>1. toWorker'[w] = <<>> /\ \A v \in Workers : v # w => toWorker'[v] = toWorker[v]
    BY CrashWrites
  <2>2. \A e \in Regular : ~Has(<<>>, e) /\ Once(<<>>, e)
    BY EmptyHas
  <2>3. QED
    BY <2>1, <2>2
<1>4. \A b \in Clients, e \in Regular : Fresh(b, e)' => Fresh(b, e)
  <2>1. IdlePublication(0).pc = "idle"
    BY IdleTyped
  <2>2. QED
    BY <2>1, CrashWrites DEF Fresh
<1>5. UNCHANGED <<stored, announced>>
  BY CrashWrites
<1>6. SpokenIsStored' /\ FreshIsFirst'
  BY <1>2, <1>3, <1>4, <1>5 DEF OnceInv, SpokenIsStored, FreshIsFirst
<1>7. ToPrimaryOnce' /\ ToWorkerOnce' /\ AnnouncedOnce'
  BY <1>2, <1>3, <1>5 DEF OnceInv, ToPrimaryOnce, ToWorkerOnce, AnnouncedOnce
<1>8. QED
  BY <1>6, <1>7 DEF OnceInv

LEMMA OnceStep == TypeOK /\ OnceInv /\ [Next]_vars => OnceInv'
<1>. SUFFICES ASSUME TypeOK, OnceInv, [Next]_vars PROVE OnceInv'
  OBVIOUS
<1>1. ASSUME UNCHANGED <<pub, stored, toPrimary, toWorker, announced>> PROVE OnceInv'
  <2>1. UNCHANGED SpokenIsStored /\ UNCHANGED FreshIsFirst
    BY <1>1 DEF SpokenIsStored, FreshIsFirst, Fresh
  <2>2. UNCHANGED ToPrimaryOnce /\ UNCHANGED ToWorkerOnce /\ UNCHANGED AnnouncedOnce
    BY <1>1 DEF ToPrimaryOnce, ToWorkerOnce, AnnouncedOnce
  <2>3. QED
    BY <2>1, <2>2 DEF OnceInv
<1>2. ASSUME NEW c \in Clients, Connect(c) \/ Close(c) PROVE OnceInv'
  BY <1>1, <1>2 DEF Connect, Close
<1>3. ASSUME NEW c \in Clients, NEW s \in SubIds,
             Unsubscribe(c, s) \/ \E f \in Filters : Subscribe(c, s, f)
      PROVE  OnceInv'
  BY <1>1, <1>3 DEF Subscribe, Unsubscribe
<1>4. ASSUME NEW c \in Clients, FetchStep(c) \/ \E i \in DOMAIN fetches[c] : FetchFails(c, i)
      PROVE  OnceInv'
  BY <1>1, <1>4, FetchStepWrites DEF NotFetching
<1>5. ASSUME NEW w \in Workers, Refork(w) PROVE OnceInv'
  BY <1>1, <1>5 DEF Refork
<1>6. ASSUME NEW e \in Events, Delete(e) PROVE OnceInv'
  BY <1>1, <1>6 DEF Delete
<1>7. CASE UNCHANGED vars
  BY <1>1, <1>7 DEF vars
<1>8. QED
  BY <1>2, <1>3, <1>4, <1>5, <1>6, <1>7,
     PublishOnce, RespondOnce, ForwardOnce, ReceiveOnce, CrashOnce
     DEF Next

-----------------------------------------------------------------------------
(* What clients see is stored. *)

(* Rows stay in the table, and deleted ones deleted. *)
Grows == stored \subseteq stored' /\ deleted \subseteq deleted'

LEMMA StoredGrows == TypeOK /\ [Next]_vars => Grows
<1>. SUFFICES ASSUME TypeOK, [Next]_vars PROVE Grows
  OBVIOUS
<1>1. ASSUME NEW c \in Clients, NEW e \in Events, Publish(c, e) PROVE Grows
  BY <1>1, PublishWrites DEF Grows
<1>2. ASSUME NEW c \in Clients, FetchStep(c) \/ \E i \in DOMAIN fetches[c] : FetchFails(c, i)
      PROVE  Grows
  BY <1>2, FetchStepWrites DEF NotFetching, Grows
<1>3. ASSUME NEW c \in Clients, Connect(c) \/ Close(c) \/ Respond(c) PROVE Grows
  BY <1>3 DEF Connect, Close, Respond, Grows
<1>4. ASSUME NEW c \in Clients, NEW s \in SubIds,
             Unsubscribe(c, s) \/ \E f \in Filters : Subscribe(c, s, f)
      PROVE  Grows
  BY <1>4 DEF Subscribe, Unsubscribe, Grows
<1>5. ASSUME NEW e \in Events, Delete(e) PROVE Grows
  BY <1>5 DEF Delete, Grows
<1>6. ASSUME NEW w \in Workers, Forward(w) \/ Receive(w) \/ Crash(w) \/ Refork(w)
      PROVE  Grows
  BY <1>6 DEF Forward, Receive, Crash, Refork, Grows
<1>7. CASE UNCHANGED vars
  BY <1>7 DEF vars, Grows
<1>8. QED
  BY <1>1, <1>2, <1>3, <1>4, <1>5, <1>6, <1>7 DEF Next

LEMMA SendStoredSees ==
    ASSUME TypeOK, NEW c \in Clients, NEW i \in DOMAIN fetches[c], NEW e \in Events,
           SendStored(c, i, e)
    PROVE  /\ e \in fetches[c][i].left /\ fetches[c][i].phase = "stream"
           /\ fetches[c][i].sub \in SubIds
           /\ e \in seen'[c][fetches[c][i].sub]
           /\ \A d \in Clients, s \in SubIds :
                 /\ seen[d][s] \subseteq seen'[d][s]
                 /\ seen'[d][s] \subseteq seen[d][s] \cup {e}
<1> DEFINE t == fetches[c][i].sub
<1>1. t \in SubIds
  BY TypeFacts DEF Fetch
<1>2. seen' = [seen EXCEPT ![c][t] = @ \cup {e}]
  BY DEF SendStored
<1> HIDE DEF t
<1>3. \A d \in Clients, s \in SubIds :
          seen'[d][s] = IF d = c /\ s = t THEN seen[d][s] \cup {e} ELSE seen[d][s]
  BY <1>1, <1>2 DEF TypeOK
<1>4. \A d \in Clients, s \in SubIds : /\ seen[d][s] \subseteq seen'[d][s]
                                       /\ seen'[d][s] \subseteq seen[d][s] \cup {e}
  BY <1>3
<1>5. e \in seen'[c][t]
  BY <1>1, <1>3
<1>6. QED
  BY <1>1, <1>4, <1>5 DEF SendStored, Streams, t

(* An event that a worker broadcasts is stored, or ephemeral. *)
LEMMA SpokenEvents ==
    ASSUME TypeOK, OnceInv
    PROVE  /\ \A c \in Clients : Fresh(c, pub[c].event) => pub[c].event \in stored \cup Ephemeral
           /\ \A w \in Workers : toWorker[w] # <<>> => Head(toWorker[w]) \in stored \cup Ephemeral
<1>1. ASSUME NEW c \in Clients, Fresh(c, pub[c].event)
      PROVE  pub[c].event \in stored \cup Ephemeral
  BY <1>1, TypeFacts DEF OnceInv, SpokenIsStored, Regular, Publication
<1>2. ASSUME NEW w \in Workers, toWorker[w] # <<>>
      PROVE  Head(toWorker[w]) \in stored \cup Ephemeral
  <2>1. Head(toWorker[w]) \in Events /\ Has(toWorker[w], Head(toWorker[w]))
    BY <1>2, TailHas DEF TypeOK
  <2>2. QED
    BY <2>1 DEF OnceInv, SpokenIsStored, Regular
<1>3. QED
  BY <1>1, <1>2

(* The broadcast of a stored or ephemeral event is what a worker ever does. *)
LEMMA BroadcastWrites ==
    ASSUME TypeOK, OnceInv,
           \/ \E c \in Clients : Respond(c)
           \/ \E w \in Workers : Receive(w)
    PROVE  /\ UNCHANGED <<conn, subs, fetches, stored, deleted>>
           /\ \/ UNCHANGED <<seen, announced>>
              \/ \E w \in Workers, e \in Events : e \in stored \cup Ephemeral /\ Announce(w, e)
<1>1. ASSUME NEW c \in Clients, Respond(c)
      PROVE  /\ UNCHANGED <<conn, subs, fetches, stored, deleted>>
             /\ \/ UNCHANGED <<seen, announced>>
                \/ \E w \in Workers, e \in Events : e \in stored \cup Ephemeral /\ Announce(w, e)
  BY <1>1, RespondWrites, SpokenEvents, TypeFacts DEF Publication
<1>2. ASSUME NEW w \in Workers, Receive(w)
      PROVE  /\ UNCHANGED <<conn, subs, fetches, stored, deleted>>
             /\ \E v \in Workers, e \in Events : e \in stored \cup Ephemeral /\ Announce(v, e)
  BY <1>2, ReceiveWrites, SpokenEvents
<1>3. QED
  BY <1>1, <1>2

LEMMA StoredStep ==
    TypeOK /\ OnceInv /\ SeenIsStored /\ LeftIsStored /\ [Next]_vars
        => SeenIsStored' /\ LeftIsStored'
<1>. SUFFICES ASSUME TypeOK, OnceInv, SeenIsStored, LeftIsStored, [Next]_vars
              PROVE  SeenIsStored' /\ LeftIsStored'
  OBVIOUS
<1>1. stored \subseteq stored'
  BY StoredGrows DEF Grows
<1>2. ASSUME \A c \in Clients, s \in SubIds : seen'[c][s] \subseteq seen[c][s] \cup stored \cup Ephemeral
      PROVE  SeenIsStored'
  BY <1>1, <1>2 DEF SeenIsStored
<1>3. ASSUME \A c \in Clients : \A i \in DOMAIN fetches'[c] :
                 \/ i \in DOMAIN fetches[c] /\ fetches'[c][i] = fetches[c][i]
                 \/ fetches'[c][i].left \subseteq stored
      PROVE  LeftIsStored'
  <2>1. ASSUME NEW c \in Clients, NEW i \in DOMAIN fetches'[c]
        PROVE  fetches'[c][i].left \subseteq stored
    BY <1>3 DEF LeftIsStored
  <2>2. QED
    BY <1>1, <2>1 DEF LeftIsStored
<1>4. UNCHANGED seen => SeenIsStored'
  BY <1>2
<1>5. UNCHANGED fetches => LeftIsStored'
  BY <1>3
<1>6. ASSUME NEW c \in Clients, Connect(c) PROVE SeenIsStored' /\ LeftIsStored'
  BY <1>4, <1>5, <1>6 DEF Connect
<1>7. ASSUME NEW c \in Clients, Close(c) PROVE SeenIsStored' /\ LeftIsStored'
  <2>1. \A d \in Clients : fetches'[d] = fetches[d] \/ DOMAIN fetches'[d] = {}
    BY <1>7, EmptyHas DEF Close, TypeOK
  <2>2. QED
    BY <1>3, <1>4, <1>7, <2>1 DEF Close
<1>8. ASSUME NEW c \in Clients, NEW s \in SubIds, NEW f \in Filters, Subscribe(c, s, f)
      PROVE  SeenIsStored' /\ LeftIsStored'
  <2>1. \A d \in Clients, t \in SubIds : seen'[d][t] = seen[d][t] \/ seen'[d][t] = {}
    BY <1>8, SubscribeWrites
  <2>2. ASSUME NEW d \in Clients, NEW i \in DOMAIN fetches'[d]
        PROVE  \/ i \in DOMAIN fetches[d] /\ fetches'[d][i] = fetches[d][i]
               \/ fetches'[d][i].left = {}
    <3> DEFINE n == Len(fetches[c]) + 1
    <3>a. /\ d # c => fetches'[d] = fetches[d]
          /\ DOMAIN fetches'[c] = 1..n /\ DOMAIN fetches[c] = 1..(n - 1) /\ n \in Nat
          /\ \A k \in DOMAIN fetches[c] : fetches'[c][k] = fetches[c][k]
          /\ fetches'[c][n].left = {}
      <4>1. DOMAIN fetches[c] = 1..Len(fetches[c]) /\ Len(fetches[c]) \in Nat
        BY TypeFacts
      <4>2. fetches'[c][n] = NewFetch(c, s, f)
        BY <1>8, SubscribeWrites
      <4>3. \A b \in Clients : b # c => /\ fetches'[b] = fetches[b] /\ subs'[b] = subs[b]
                                         /\ seen'[b] = seen[b]
        BY <1>8, SubscribeWrites, Zenon
      <4>4. DOMAIN fetches'[c] = 1..n
        BY <1>8, SubscribeWrites
      <4>5. \A k \in DOMAIN fetches[c] : fetches'[c][k] = fetches[c][k]
        BY <1>8, SubscribeWrites
      <4>6. QED
        BY <4>1, <4>2, <4>3, <4>4, <4>5 DEF NewFetch
    <3> HIDE DEF n
    <3>1. CASE d # c
      BY <2>2, <3>a, <3>1
    <3>2. CASE d = c
      <4>1. i \in DOMAIN fetches[c] \/ i = n
        BY <2>2, <3>a, <3>2
      <4>2. QED
        BY <3>a, <3>2, <4>1
    <3>3. QED
      BY <3>1, <3>2
  <2>3. QED
    BY <1>2, <1>3, <2>1, <2>2
<1>9. ASSUME NEW c \in Clients, NEW s \in SubIds, Unsubscribe(c, s)
      PROVE  SeenIsStored' /\ LeftIsStored'
  BY <1>4, <1>5, <1>9 DEF Unsubscribe
<1>10. ASSUME NEW c \in Clients, FetchStep(c) \/ \E i \in DOMAIN fetches[c] : FetchFails(c, i)
       PROVE  SeenIsStored' /\ LeftIsStored'
  <2>1. PICK i \in DOMAIN fetches[c], x \in Fetch :
            /\ Edits(c, i, x)
            /\ \/ UNCHANGED seen /\ x.left \subseteq stored
               \/ \E e \in Events : SendStored(c, i, e) /\ x.left = fetches[c][i].left \ {e}
    BY <1>10, FetchStepWrites DEF Reads, Answers
  <2>2. fetches[c][i].left \subseteq stored
    BY DEF LeftIsStored
  <2>3. x.left \subseteq stored
    BY <2>1, <2>2
  <2>4. LeftIsStored'
    BY <1>3, <2>1, <2>3, EditWrites
  <2>5. ASSUME NEW e \in Events, SendStored(c, i, e) PROVE SeenIsStored'
    <3>1. /\ e \in stored
          /\ \A d \in Clients, s \in SubIds : seen'[d][s] \subseteq seen[d][s] \cup {e}
      BY <2>2, <2>5, SendStoredSees
    <3>2. QED
      BY <1>2, <3>1
  <2>6. QED
    BY <1>4, <2>1, <2>4, <2>5
<1>11. ASSUME NEW c \in Clients, NEW e \in Events, Publish(c, e)
       PROVE  SeenIsStored' /\ LeftIsStored'
  BY <1>4, <1>5, <1>11 DEF Publish
<1>12. ASSUME \/ \E c \in Clients : Respond(c)
              \/ \E w \in Workers : Receive(w)
       PROVE  SeenIsStored' /\ LeftIsStored'
  <2>1. ASSUME NEW w \in Workers, NEW e \in Events, e \in stored \cup Ephemeral, Announce(w, e)
        PROVE  SeenIsStored'
    <3>1. \A c \in Clients, s \in SubIds : seen'[c][s] \subseteq seen[c][s] \cup {e}
      BY <2>1, AnnounceWrites
    <3>2. QED
      BY <1>2, <2>1, <3>1
  <2>2. QED
    BY <1>4, <1>5, <1>12, <2>1, BroadcastWrites
<1>13. ASSUME NEW w \in Workers, Forward(w) \/ Refork(w) PROVE SeenIsStored' /\ LeftIsStored'
  BY <1>4, <1>5, <1>13 DEF Forward, Refork
<1>14. ASSUME NEW w \in Workers, Crash(w) PROVE SeenIsStored' /\ LeftIsStored'
  <2>1. \A d \in Clients : fetches'[d] = fetches[d] \/ DOMAIN fetches'[d] = {}
    BY <1>14, CrashWrites, EmptyHas
  <2>2. QED
    BY <1>3, <1>4, <1>14, <2>1, CrashWrites
<1>15. ASSUME NEW e \in Events, Delete(e) PROVE SeenIsStored' /\ LeftIsStored'
  BY <1>4, <1>5, <1>15 DEF Delete
<1>16. CASE UNCHANGED vars
  BY <1>4, <1>5, <1>16 DEF vars
<1>17. QED
  BY <1>6, <1>7, <1>8, <1>9, <1>10, <1>11, <1>12, <1>13, <1>14, <1>15, <1>16 DEF Next

-----------------------------------------------------------------------------
(* No gap. *)

LEMMA OpenStep == TypeOK /\ OpenFetches /\ [Next]_vars => OpenFetches'
<1>. SUFFICES ASSUME TypeOK, OpenFetches, [Next]_vars PROVE OpenFetches'
  OBVIOUS
<1>1. ASSUME UNCHANGED <<conn, fetches>> PROVE OpenFetches'
  BY <1>1 DEF OpenFetches, Open
<1>2. ASSUME NEW c \in Clients, Connect(c) PROVE OpenFetches'
  BY <1>2 DEF Connect, OpenFetches, Open, TypeOK
<1>3. ASSUME NEW c \in Clients, Close(c) PROVE OpenFetches'
  BY <1>3 DEF Close, OpenFetches, Open, TypeOK
<1>4. ASSUME NEW c \in Clients, NEW s \in SubIds, NEW f \in Filters, Subscribe(c, s, f)
      PROVE  OpenFetches'
  <2>1. Open(c) /\ UNCHANGED conn
    BY <1>4 DEF Subscribe
  <2>2. \A d \in Clients : d # c => /\ fetches'[d] = fetches[d] /\ subs'[d] = subs[d]
                                    /\ seen'[d] = seen[d]
    BY <1>4, SubscribeWrites, Zenon
  <2>3. QED
    BY <2>1, <2>2 DEF OpenFetches, Open
<1>5. ASSUME NEW c \in Clients, FetchStep(c) \/ \E i \in DOMAIN fetches[c] : FetchFails(c, i)
      PROVE  OpenFetches'
  <2>1. PICK i \in DOMAIN fetches[c], x \in Fetch : Edits(c, i, x)
    BY <1>5, FetchStepWrites
  <2>2. UNCHANGED conn
    BY <1>5, FetchStepWrites DEF NotFetching
  <2>3. \A d \in Clients : d # c => fetches'[d] = fetches[d]
    BY <2>1, EditWrites
  <2>4. Open(c)
    BY EmptyHas DEF OpenFetches
  <2>5. QED
    BY <2>2, <2>3, <2>4 DEF OpenFetches, Open
<1>6. ASSUME NEW c \in Clients, NEW s \in SubIds, Unsubscribe(c, s) PROVE OpenFetches'
  BY <1>1, <1>6 DEF Unsubscribe
<1>7. ASSUME NEW c \in Clients, Respond(c) \/ \E e \in Events : Publish(c, e) PROVE OpenFetches'
  BY <1>1, <1>7 DEF Respond, Publish
<1>8. ASSUME NEW w \in Workers, Forward(w) \/ Receive(w) \/ Refork(w) PROVE OpenFetches'
  BY <1>1, <1>8 DEF Forward, Receive, Refork
<1>9. ASSUME NEW w \in Workers, Crash(w) PROVE OpenFetches'
  BY <1>9, CrashWrites DEF OpenFetches, Open
<1>10. ASSUME NEW e \in Events, Delete(e) PROVE OpenFetches'
  BY <1>1, <1>10 DEF Delete
<1>11. CASE UNCHANGED vars
  BY <1>1, <1>11 DEF vars
<1>12. QED
  BY <1>2, <1>3, <1>4, <1>5, <1>6, <1>7, <1>8, <1>9, <1>10, <1>11 DEF Next

(* A full page stays one when more is sent or deleted. *)
LEMMA PageGrows ==
    ASSUME NEW S, NEW T, S \subseteq T, NEW f, NEW e, FullPage(S, f, e)
    PROVE  FullPage(T, f, e)
BY DEF FullPage

(* What a query leaves out comes after all it finds, whose rows are as     *)
(* many as it may return.                                                  *)
LEMMA AnswersFill ==
    ASSUME TypeOK, NEW f \in Filters, NEW found, Answers(f, found),
           NEW e \in stored \cap Match[f]
    PROVE  e \in found \/ FullPage(found, f, e)
<1>1. found \subseteq (found \cap Match[f]) \ Ephemeral
  BY DEF Answers, TypeOK
<1>2. ASSUME e \notin found PROVE FullPage(found, f, e)
  <2>1. Fill(f, found) /\ \A d \in found : ~Precedes(f, e, d)
    BY <1>2 DEF Answers
  <2>2. QED
    BY <1>1, <2>1 DEF FullPage
<1>3. QED
  BY <1>2

(* What more is sent or deleted covers no less of what a fetch owes.       *)
LEMMA CoversStays ==
    ASSUME NEW c, NEW i, NEW e, Covers(c, i, e),
           fetches'[c][i] = fetches[c][i], deleted \subseteq deleted',
           seen[c][fetches[c][i].sub] \subseteq seen'[c][fetches[c][i].sub]
    PROVE  Covers(c, i, e)'
<1> DEFINE fetch == fetches[c][i]
           s == seen[c][fetch.sub]
           t == seen'[c][fetch.sub]
           r == s \cup deleted
           q == t \cup deleted'
<1>1. s \subseteq t /\ r \subseteq q /\ fetch.left \cup r \subseteq fetch.left \cup q
  OBVIOUS
<1>2. FullPage(r, fetch.filter, e) => FullPage(q, fetch.filter, e)
  BY <1>1, PageGrows
<1>3. FullPage(fetch.left \cup r, fetch.filter, e) => FullPage(fetch.left \cup q, fetch.filter, e)
  BY <1>1, PageGrows
<1>4. /\ e \notin fetch.past => e \in s
      /\ fetch.phase = "stream" =>
            e \in fetch.left \cup r \/ FullPage(fetch.left \cup r, fetch.filter, e)
      /\ fetch.phase = "eose" => e \in r \/ FullPage(r, fetch.filter, e)
  BY DEF Covers
<1>5. /\ e \notin fetch.past => e \in t
      /\ fetch.phase = "stream" =>
            e \in fetch.left \cup q \/ FullPage(fetch.left \cup q, fetch.filter, e)
      /\ fetch.phase = "eose" => e \in q \/ FullPage(q, fetch.filter, e)
  BY <1>1, <1>2, <1>3, <1>4
<1>6. QED
  BY <1>5 DEF Covers

(* A step that leaves a client's fetch alone, and that stores or           *)
(* broadcasts nothing to it, takes nothing from what it covers.            *)
LEMMA Undisturbed ==
    ASSUME TypeOK, NothingSkipped, NEW c \in Clients, NEW i \in DOMAIN fetches[c], NEW e \in Events,
           conn'[c] = conn[c], subs'[c] = subs[c], fetches'[c] = fetches[c],
           \A s \in SubIds : seen[c][s] \subseteq seen'[c][s], deleted \subseteq deleted',
           e \in stored, announced[HomeOf[c]][e] > 0,
           Concerns(c, i, e)'
    PROVE  Covers(c, i, e)'
<1>1. Concerns(c, i, e)
  BY DEF Concerns, InForce, Open
<1>2. Covers(c, i, e)
  BY <1>1 DEF NothingSkipped
<1>3. fetches[c][i].sub \in SubIds
  BY TypeFacts DEF Fetch
<1>4. seen[c][fetches[c][i].sub] \subseteq seen'[c][fetches[c][i].sub]
  BY <1>3
<1>5. QED
  BY <1>2, <1>4, CoversStays

(* A broadcast reaches the subscriptions that are registered, whatever     *)
(* their fetches have done so far.                                         *)
LEMMA BroadcastSkipsNone ==
    ASSUME TypeOK, NothingSkipped, UNCHANGED <<conn, subs, fetches, stored, deleted>>,
           NEW w \in Workers, NEW d \in Events, Announce(w, d)
    PROVE  NothingSkipped'
<1>1. SUFFICES ASSUME NEW c \in Clients, NEW i \in DOMAIN fetches[c], NEW e \in Events,
                      Concerns(c, i, e)'
               PROVE  Covers(c, i, e)'
  BY DEF NothingSkipped
<1>2. \A s \in SubIds : seen[c][s] \subseteq seen'[c][s]
  BY AnnounceWrites
<1>3. e \in stored /\ HomeOf[c] \in Workers /\ fetches[c][i] \in Fetch
  BY <1>1, TypeFacts DEF Concerns
<1>4. CASE e = d /\ w = HomeOf[c]
  <2> DEFINE s == fetches[c][i].sub
  <2>1. /\ Open(c) /\ subs[c][s] = fetches[c][i].filter
        /\ e \in Match[fetches[c][i].filter]
    BY <1>1 DEF Concerns, InForce, Open
  <2>2. s \in SubIds /\ fetches[c][i].filter \in Filters /\ subs[c][s] # NoFilter
    BY <1>3, <2>1, PubSubAssumption DEF Fetch
  <2>3. e \in seen'[c][s]
    BY <1>4, <2>1, <2>2, AnnounceWrites
  <2>4. QED
    BY <2>3 DEF Covers
<1>5. CASE e # d \/ w # HomeOf[c]
  <2>1. announced[HomeOf[c]][e] > 0
    BY <1>1, <1>3, <1>5, AnnounceWrites DEF Concerns
  <2>2. QED
    BY <1>1, <1>2, <1>3, <2>1, Undisturbed
<1>6. QED
  BY <1>4, <1>5

(* A REQ starts a fetch that has covered nothing yet, and those before it  *)
(* under its id are no longer in force.                                    *)
LEMMA SubscribeSkipsNone ==
    ASSUME TypeOK, NothingSkipped, NEW a \in Clients, NEW s \in SubIds, NEW f \in Filters,
           Subscribe(a, s, f)
    PROVE  NothingSkipped'
<1> DEFINE n == Len(fetches[a]) + 1
<1>1. /\ UNCHANGED <<conn, stored, deleted, announced>>
      /\ DOMAIN fetches[a] = 1..Len(fetches[a]) /\ Len(fetches[a]) \in Nat
  BY TypeFacts DEF Subscribe
<1>2. \A d \in Clients : d # a => /\ fetches'[d] = fetches[d] /\ subs'[d] = subs[d]
                                  /\ seen'[d] = seen[d]
  BY SubscribeWrites, Zenon
<1>3. /\ DOMAIN fetches'[a] = 1..n
      /\ \A i \in DOMAIN fetches[a] : fetches'[a][i] = fetches[a][i]
      /\ fetches'[a][n] = NewFetch(a, s, f)
  <2>1. DOMAIN fetches'[a] = 1..n
    BY SubscribeWrites
  <2>2. \A i \in DOMAIN fetches[a] : fetches'[a][i] = fetches[a][i]
    BY SubscribeWrites
  <2>3. fetches'[a][n] = NewFetch(a, s, f)
    BY SubscribeWrites
  <2>4. QED
    BY <2>1, <2>2, <2>3
<1>4. \A t \in SubIds : t # s => subs'[a][t] = subs[a][t] /\ seen'[a][t] = seen[a][t]
  BY DEF Subscribe, TypeOK
<1>5. /\ fetches'[a][n].sub = s /\ fetches'[a][n].phase = "query"
      /\ fetches'[a][n].past = AnnouncedTo(a)
  BY <1>3 DEF NewFetch
<1> HIDE DEF n
<1>6. \A i \in DOMAIN fetches'[a] : i \in DOMAIN fetches[a] \/ i = n
  BY <1>1, <1>3 DEF n
<1>7. SUFFICES ASSUME NEW c \in Clients, NEW i \in DOMAIN fetches'[c], NEW e \in Events,
                      Concerns(c, i, e)'
               PROVE  Covers(c, i, e)'
  BY DEF NothingSkipped
<1>8. CASE c # a
  <2>1. e \in stored /\ announced[HomeOf[c]][e] > 0
    BY <1>1, <1>7 DEF Concerns
  <2>2. /\ conn'[c] = conn[c] /\ subs'[c] = subs[c] /\ fetches'[c] = fetches[c]
        /\ \A t \in SubIds : seen[c][t] \subseteq seen'[c][t]
    BY <1>1, <1>2, <1>8
  <2>3. QED
    BY <1>1, <1>7, <2>1, <2>2, Undisturbed
<1>9. CASE c = a /\ i = n
  <2>1. e \in AnnouncedTo(a)
    BY <1>1, <1>7, <1>9 DEF Concerns, AnnouncedTo, TypeOK
  <2>2. QED
    BY <1>5, <1>9, <2>1 DEF Covers
<1>10. CASE c = a /\ i # n
  <2>1. i \in DOMAIN fetches[a] /\ fetches'[a][i] = fetches[a][i]
    BY <1>3, <1>6, <1>7, <1>10
  <2>2. fetches[a][i].sub \in SubIds
    BY <2>1, TypeFacts DEF Fetch
  <2>3. n \in DOMAIN fetches'[a] /\ ~(n <= i)
    BY <1>1, <1>3, <2>1 DEF n
  <2>4. InForce(a, i)'
    BY <1>7, <1>10 DEF Concerns
  <2>5. fetches[a][i].sub # s
    BY <1>5, <2>1, <2>3, <2>4 DEF InForce
  <2>6. /\ subs'[a][fetches[a][i].sub] = subs[a][fetches[a][i].sub]
        /\ seen'[a][fetches[a][i].sub] = seen[a][fetches[a][i].sub]
    BY <1>4, <2>2, <2>5
  <2>7. InForce(a, i)
    <3>1. subs[a][fetches[a][i].sub] = fetches[a][i].filter
      BY <2>1, <2>4, <2>6 DEF InForce
    <3>2. ASSUME NEW j \in DOMAIN fetches[a], fetches[a][j].sub = fetches[a][i].sub PROVE j <= i
      <4>1. j \in DOMAIN fetches'[a] /\ fetches'[a][j] = fetches[a][j]
        BY <1>1, <1>3 DEF n
      <4>2. QED
        BY <2>1, <2>4, <3>2, <4>1 DEF InForce
    <3>3. QED
      BY <3>1, <3>2 DEF InForce
  <2>8. Concerns(a, i, e)
    BY <1>1, <1>7, <1>10, <2>1, <2>7 DEF Concerns, Open
  <2>9. Covers(a, i, e)
    BY <2>1, <2>8 DEF NothingSkipped
  <2>10. QED
    BY <1>1, <1>10, <2>1, <2>6, <2>9, CoversStays
<1>11. QED
  BY <1>8, <1>9, <1>10

(* A fetch hands over what its query found, one row after the other.       *)
LEMMA FetchSkipsNone ==
    ASSUME TypeOK, NothingSkipped, NEW a \in Clients,
           FetchStep(a) \/ \E i \in DOMAIN fetches[a] : FetchFails(a, i)
    PROVE  NothingSkipped'
<1>1. UNCHANGED <<conn, subs, stored, deleted, announced>>
  BY FetchStepWrites DEF NotFetching
<1>2. PICK k \in DOMAIN fetches[a], x \in Fetch :
          /\ Edits(a, k, x)
          /\ SameReq(x, fetches[a][k])
          /\ \/ /\ Query(a, k) /\ UNCHANGED seen
                /\ Reads(x) /\ x.phase = "stream"
             \/ \E e \in Events : /\ SendStored(a, k, e)
                                  /\ x.left = fetches[a][k].left \ {e} /\ x.phase = "stream"
             \/ /\ UNCHANGED seen
                /\ x.left = {} /\ x.phase = "eose"
                /\ fetches[a][k].phase = "stream" /\ fetches[a][k].left = {}
             \/ UNCHANGED seen /\ x.left = {} /\ x.phase = "failed"
  BY FetchStepWrites
<1>3. /\ \A d \in Clients : d # a => fetches'[d] = fetches[d]
      /\ DOMAIN fetches'[a] = DOMAIN fetches[a] /\ fetches'[a][k] = x
      /\ \A j \in DOMAIN fetches[a] : j # k => fetches'[a][j] = fetches[a][j]
  BY <1>2, EditWrites
<1>4. \A d \in Clients, s \in SubIds : seen[d][s] \subseteq seen'[d][s]
  BY <1>2, SendStoredSees
<1>5. \A j \in DOMAIN fetches[a] : /\ fetches'[a][j].sub = fetches[a][j].sub
                                   /\ fetches'[a][j].filter = fetches[a][j].filter
                                   /\ fetches'[a][j].past = fetches[a][j].past
  BY <1>2, <1>3 DEF SameReq
<1>6. SUFFICES ASSUME NEW c \in Clients, NEW i \in DOMAIN fetches'[c], NEW e \in Events,
                      Concerns(c, i, e)'
               PROVE  Covers(c, i, e)'
  BY DEF NothingSkipped
<1>7. e \in stored /\ announced[HomeOf[c]][e] > 0
  BY <1>1, <1>6 DEF Concerns
<1>8. CASE c # a
  <2>1. conn'[c] = conn[c] /\ subs'[c] = subs[c] /\ fetches'[c] = fetches[c]
    BY <1>1, <1>3, <1>8
  <2>2. QED
    BY <1>1, <1>4, <1>6, <1>7, <2>1, Undisturbed
<1>9. CASE c = a
  <2> DEFINE s == fetches[a][i].sub
  <2>1. i \in DOMAIN fetches[a] /\ s \in SubIds
    BY <1>3, <1>6, <1>9, TypeFacts DEF Fetch
  <2>2. Concerns(a, i, e)
    <3>1. InForce(a, i)
      BY <1>1, <1>3, <1>5, <1>6, <1>9, <2>1 DEF Concerns, InForce
    <3>2. QED
      BY <1>1, <1>5, <1>6, <1>9, <2>1, <3>1 DEF Concerns, Open
  <2>3. Covers(a, i, e)
    BY <2>1, <2>2 DEF NothingSkipped
  <2>4. seen[a][s] \subseteq seen'[a][s] /\ fetches'[a][i].sub = s
    BY <1>4, <1>5, <2>1
  <2>5. CASE i # k
    BY <1>1, <1>3, <1>9, <2>1, <2>3, <2>4, <2>5, CoversStays
  <2>6. CASE i = k
    <3> DEFINE old == fetches[a][k]
               f == old.filter
               r == seen[a][s] \cup deleted
               t == seen'[a][s]
               q == t \cup deleted
    <3>1. /\ x.sub = s /\ x.filter = f /\ x.past = old.past /\ fetches'[a][i] = x
          /\ f \in Filters /\ seen[a][s] \subseteq t /\ deleted' = deleted
          /\ e \notin x.past => e \in t
          /\ old.phase = "stream" => e \in old.left \cup r \/ FullPage(old.left \cup r, f, e)
      <4>1. x.sub = s /\ x.filter = f /\ x.past = old.past /\ fetches'[a][i] = x
        BY <1>2, <1>3, <2>6 DEF SameReq
      <4>2. f \in Filters
        BY TypeFacts DEF Fetch
      <4>3. /\ e \notin old.past => e \in seen[a][s]
            /\ old.phase = "stream" => e \in old.left \cup r \/ FullPage(old.left \cup r, f, e)
        BY <2>3, <2>6 DEF Covers
      <4>4. QED
        BY <1>1, <2>4, <4>1, <4>2, <4>3
    <3>2. SUFFICES /\ x.phase = "stream" => e \in x.left \cup q \/ FullPage(x.left \cup q, f, e)
                   /\ x.phase = "eose" => e \in q \/ FullPage(q, f, e)
      BY <1>9, <3>1 DEF Covers
    <3>3. CASE Reads(x) /\ x.phase = "stream"
      <4>1. PICK found \in SUBSET Events : Answers(f, found) /\ x.left = found \ deleted
        BY <3>1, <3>3 DEF Reads
      <4>2. e \in stored \cap Match[f]
        BY <2>2, <2>6 DEF Concerns
      <4>3. e \in found \/ FullPage(found, f, e)
        BY <3>1, <4>1, <4>2, AnswersFill
      <4>4. found \subseteq x.left \cup q
        BY <4>1
      <4>5. QED
        BY <3>3, <4>3, <4>4, PageGrows
    <3>4. ASSUME NEW d \in Events, SendStored(a, k, d),
                 x.left = old.left \ {d}, x.phase = "stream"
          PROVE  e \in x.left \cup q \/ FullPage(x.left \cup q, f, e)
      <4>1. d \in t /\ old.phase = "stream"
        BY <2>6, <3>4, SendStoredSees
      <4>2. old.left \cup r \subseteq x.left \cup q
        BY <3>1, <3>4, <4>1
      <4>3. QED
        BY <3>1, <4>1, <4>2, PageGrows
    <3>5. CASE x.left = {} /\ x.phase = "eose" /\ old.phase = "stream" /\ old.left = {}
      <4>1. old.left \cup r \subseteq q
        BY <3>1, <3>5
      <4>2. QED
        BY <3>1, <3>5, <4>1, PageGrows
    <3>6. CASE x.phase = "failed"
      BY <3>6
    <3>7. QED
      BY <1>2, <3>3, <3>4, <3>5, <3>6
  <2>7. QED
    BY <2>5, <2>6
<1>10. QED
  BY <1>8, <1>9

LEMMA SkippedStep ==
    TypeOK /\ OnceInv /\ OpenFetches /\ NothingSkipped /\ [Next]_vars => NothingSkipped'
<1>. SUFFICES ASSUME TypeOK, OnceInv, OpenFetches, NothingSkipped, [Next]_vars
              PROVE  NothingSkipped'
  OBVIOUS
<1>0. deleted \subseteq deleted'
  BY StoredGrows DEF Grows
<1>1. ASSUME UNCHANGED <<conn, subs, fetches, stored, seen, announced>> PROVE NothingSkipped'
  <2>1. SUFFICES ASSUME NEW c \in Clients, NEW i \in DOMAIN fetches[c], NEW e \in Events,
                        Concerns(c, i, e)'
                 PROVE  Covers(c, i, e)'
    BY <1>1 DEF NothingSkipped
  <2>2. Concerns(c, i, e)
    BY <1>1, <2>1 DEF Concerns, InForce, Open
  <2>3. QED
    BY <1>0, <1>1, <2>2, CoversStays DEF NothingSkipped
(* A client to which a step does nothing, or which fetches nothing. *)
<1>2. ASSUME UNCHANGED <<stored, announced, seen>>,
             \A c \in Clients :
                 \/ conn'[c] = conn[c] /\ subs'[c] = subs[c] /\ fetches'[c] = fetches[c]
                 \/ DOMAIN fetches'[c] = {}
      PROVE  NothingSkipped'
  <2>1. SUFFICES ASSUME NEW c \in Clients, NEW i \in DOMAIN fetches'[c], NEW e \in Events,
                        Concerns(c, i, e)'
                 PROVE  Covers(c, i, e)'
    BY DEF NothingSkipped
  <2>2. conn'[c] = conn[c] /\ subs'[c] = subs[c] /\ fetches'[c] = fetches[c]
    BY <1>2
  <2>3. e \in stored /\ announced[HomeOf[c]][e] > 0
    BY <1>2, <2>1 DEF Concerns
  <2>4. QED
    BY <1>0, <1>2, <2>1, <2>2, <2>3, Undisturbed
<1>3. ASSUME NEW c \in Clients, Connect(c) PROVE NothingSkipped'
  <2>1. DOMAIN fetches[c] = {} /\ UNCHANGED fetches
    BY <1>3, EmptyHas DEF Connect, OpenFetches, Open
  <2>2. /\ UNCHANGED <<stored, announced, seen>>
        /\ \A d \in Clients : d # c => conn'[d] = conn[d] /\ subs'[d] = subs[d]
    BY <1>3 DEF Connect, TypeOK
  <2>3. QED
    BY <1>2, <2>1, <2>2
<1>4. ASSUME NEW c \in Clients, Close(c) PROVE NothingSkipped'
  <2>1. /\ UNCHANGED <<stored, announced, seen>>
        /\ \A d \in Clients : d # c => /\ conn'[d] = conn[d] /\ subs'[d] = subs[d]
                                       /\ fetches'[d] = fetches[d]
    BY <1>4 DEF Close, TypeOK
  <2>2. DOMAIN fetches'[c] = {}
    BY <1>4, EmptyHas DEF Close, TypeOK
  <2>3. QED
    BY <1>2, <2>1, <2>2
<1>5. ASSUME NEW a \in Clients, NEW s \in SubIds, Unsubscribe(a, s) PROVE NothingSkipped'
  <2>1. /\ UNCHANGED <<conn, fetches, stored, seen, announced>>
        /\ subs'[a][s] = NoFilter
        /\ \A c \in Clients, t \in SubIds : c # a \/ t # s => subs'[c][t] = subs[c][t]
    BY <1>5 DEF Unsubscribe, TypeOK
  <2>2. SUFFICES ASSUME NEW c \in Clients, NEW i \in DOMAIN fetches[c], NEW e \in Events,
                        Concerns(c, i, e)'
                 PROVE  Covers(c, i, e)
    BY <1>0, <2>1, CoversStays DEF NothingSkipped
  <2>3. fetches[c][i].sub \in SubIds /\ fetches[c][i].filter \in Filters
    BY TypeFacts DEF Fetch
  <2>4. subs'[c][fetches[c][i].sub] = fetches[c][i].filter
    BY <2>1, <2>2 DEF Concerns, InForce
  <2>5. c # a \/ fetches[c][i].sub # s
    BY <2>1, <2>3, <2>4, PubSubAssumption
  <2>6. InForce(c, i)
    BY <2>1, <2>2, <2>3, <2>4, <2>5 DEF Concerns, InForce
  <2>7. Concerns(c, i, e)
    BY <2>1, <2>2, <2>6 DEF Concerns, Open
  <2>8. QED
    BY <2>7 DEF NothingSkipped
<1>6. ASSUME NEW a \in Clients, NEW d \in Events, Publish(a, d) PROVE NothingSkipped'
  <2>1. /\ UNCHANGED <<conn, subs, fetches, seen, announced>>
        /\ stored' \subseteq stored \cup {d}
        /\ d \in stored' => d \in Regular
    BY <1>6, PublishWrites DEF Inserted, Regular
  <2>2. SUFFICES ASSUME NEW c \in Clients, NEW i \in DOMAIN fetches[c], NEW e \in Events,
                        Concerns(c, i, e)'
                 PROVE  Covers(c, i, e)
    BY <1>0, <2>1, CoversStays DEF NothingSkipped
  (* What the insert adds no worker has broadcast. *)
  <2>3. e \in stored
    <3>1. announced[HomeOf[c]][e] > 0 /\ e \in stored' /\ HomeOf[c] \in Workers
      BY <2>1, <2>2, TypeFacts DEF Concerns
    <3>2. CASE e = d
      BY <2>1, <3>1, <3>2 DEF OnceInv, SpokenIsStored
    <3>3. CASE e # d
      BY <2>1, <3>1, <3>3
    <3>4. QED
      BY <3>2, <3>3
  <2>4. Concerns(c, i, e)
    BY <2>1, <2>2, <2>3 DEF Concerns, InForce, Open
  <2>5. QED
    BY <2>4 DEF NothingSkipped
<1>7. ASSUME \/ \E c \in Clients : Respond(c)
             \/ \E w \in Workers : Receive(w)
      PROVE  NothingSkipped'
  <2>1. UNCHANGED <<conn, subs, fetches, stored, deleted>>
    BY <1>7, BroadcastWrites
  <2>2. ASSUME NEW w \in Workers, NEW e \in Events, Announce(w, e) PROVE NothingSkipped'
    BY <2>1, <2>2, BroadcastSkipsNone
  <2>3. QED
    BY <1>1, <1>7, <2>1, <2>2, BroadcastWrites
<1>8. ASSUME NEW w \in Workers, Forward(w) \/ Refork(w) PROVE NothingSkipped'
  BY <1>1, <1>8 DEF Forward, Refork
<1>9. ASSUME NEW w \in Workers, Crash(w) PROVE NothingSkipped'
  <2>1. \A c \in Clients :
            \/ conn'[c] = conn[c] /\ subs'[c] = subs[c] /\ fetches'[c] = fetches[c]
            \/ DOMAIN fetches'[c] = {}
    BY <1>9, CrashWrites, EmptyHas
  <2>2. QED
    BY <1>2, <1>9, <2>1, CrashWrites
<1>10. ASSUME NEW e \in Events, Delete(e) PROVE NothingSkipped'
  BY <1>1, <1>10 DEF Delete
<1>11. CASE UNCHANGED vars
  BY <1>1, <1>11 DEF vars
<1>12. QED
  BY <1>3, <1>4, <1>5, <1>6, <1>7, <1>8, <1>9, <1>10, <1>11, SubscribeSkipsNone, FetchSkipsNone
     DEF Next

-----------------------------------------------------------------------------
(* The limit on subscriptions. *)

LimitInv == FinitelyActive /\ WithinLimit

LEMMA SubscribeLimited ==
    ASSUME TypeOK, LimitInv, NEW c \in Clients, NEW s \in SubIds, NEW f \in Filters,
           Subscribe(c, s, f), NEW d \in Clients
    PROVE  /\ IsFiniteSet(Active(d)')
           /\ MaxSubscriptions > 0 => Cardinality(Active(d)') <= MaxSubscriptions
<1> DEFINE A == Active(c)
           B == Active(d)
<1>1. /\ subs' = [subs EXCEPT ![c][s] = f] /\ f # NoFilter /\ CanSubscribe(c, s, f)
      /\ IsFiniteSet(A) /\ IsFiniteSet(B)
      /\ MaxSubscriptions > 0 => Cardinality(B) <= MaxSubscriptions
  BY PubSubAssumption DEF Subscribe, LimitInv, FinitelyActive, WithinLimit
<1>2. CASE d # c
  <2>1. Active(d)' = B
    BY <1>1, <1>2 DEF Active, TypeOK
  <2>2. QED
    BY <1>1, <2>1
<1>3. CASE d = c
  <2>1. Active(d)' = A \cup {s}
    BY <1>1, <1>3 DEF Active, TypeOK
  <2>2. /\ IsFiniteSet(A \cup {s}) /\ Cardinality(A) \in Nat
        /\ Cardinality(A \cup {s}) = IF s \in A THEN Cardinality(A) ELSE Cardinality(A) + 1
    BY <1>1, FS_AddElement, FS_CardinalityType
  <2>3. s \notin A => subs[c][s] = NoFilter
    BY DEF Active
  <2>4. MaxSubscriptions > 0 => Cardinality(A \cup {s}) <= MaxSubscriptions
    BY <1>1, <1>3, <2>2, <2>3 DEF CanSubscribe
  <2>5. QED
    BY <2>1, <2>2, <2>4
<1>4. QED
  BY <1>2, <1>3

LEMMA LimitStep == TypeOK /\ LimitInv /\ [Next]_vars => LimitInv'
<1>. SUFFICES ASSUME TypeOK, LimitInv, [Next]_vars PROVE LimitInv'
  OBVIOUS
(* Closing subscriptions is always within the limit. *)
<1>1. ASSUME \A d \in Clients : Active(d)' \subseteq Active(d) PROVE LimitInv'
  <2>1. ASSUME NEW d \in Clients
        PROVE  /\ IsFiniteSet(Active(d)')
               /\ MaxSubscriptions > 0 => Cardinality(Active(d)') <= MaxSubscriptions
    <3>1. /\ IsFiniteSet(Active(d)) /\ Active(d)' \subseteq Active(d)
          /\ MaxSubscriptions > 0 => Cardinality(Active(d)) <= MaxSubscriptions
      BY <1>1 DEF LimitInv, FinitelyActive, WithinLimit
    <3>2. /\ IsFiniteSet(Active(d)') /\ Cardinality(Active(d)') <= Cardinality(Active(d))
          /\ Cardinality(Active(d)') \in Nat /\ Cardinality(Active(d)) \in Nat
      BY <3>1, FS_Subset, FS_CardinalityType
    <3>3. QED
      BY <3>1, <3>2, PubSubAssumption
  <2>2. QED
    BY <2>1 DEF LimitInv, FinitelyActive, WithinLimit
<1>2. ASSUME UNCHANGED subs PROVE LimitInv'
  BY <1>1, <1>2 DEF Active
<1>3. ASSUME NEW c \in Clients, NEW s \in SubIds, NEW f \in Filters, Subscribe(c, s, f)
      PROVE  LimitInv'
  BY <1>3, SubscribeLimited DEF LimitInv, FinitelyActive, WithinLimit
<1>4. ASSUME NEW c \in Clients, NEW s \in SubIds, Unsubscribe(c, s) PROVE LimitInv'
  <2>1. subs' = [subs EXCEPT ![c][s] = NoFilter]
    BY <1>4 DEF Unsubscribe
  <2>2. \A d \in Clients : Active(d)' \subseteq Active(d)
    BY <2>1 DEF Active, TypeOK
  <2>3. QED
    BY <1>1, <2>2
<1>5. ASSUME NEW c \in Clients, Close(c) PROVE LimitInv'
  <2>1. subs' = [subs EXCEPT ![c] = NoSubscriptions]
    BY <1>5 DEF Close
  <2>2. \A d \in Clients : Active(d)' \subseteq Active(d)
    BY <2>1 DEF Active, TypeOK, NoSubscriptions
  <2>3. QED
    BY <1>1, <2>2
<1>6. ASSUME NEW w \in Workers, Crash(w) PROVE LimitInv'
  <2>1. \A d \in Clients : subs'[d] = subs[d] \/ subs'[d] = NoSubscriptions
    BY <1>6, CrashWrites
  <2>2. \A d \in Clients : Active(d)' \subseteq Active(d)
    BY <2>1 DEF Active, NoSubscriptions
  <2>3. QED
    BY <1>1, <2>2
<1>7. ASSUME NEW c \in Clients, FetchStep(c) \/ \E i \in DOMAIN fetches[c] : FetchFails(c, i)
      PROVE  LimitInv'
  BY <1>2, <1>7, FetchStepWrites DEF NotFetching
<1>8. ASSUME NEW c \in Clients, Connect(c) \/ Respond(c) \/ \E e \in Events : Publish(c, e)
      PROVE  LimitInv'
  BY <1>2, <1>8 DEF Connect, Respond, Publish
<1>9. ASSUME NEW w \in Workers, Forward(w) \/ Receive(w) \/ Refork(w) PROVE LimitInv'
  BY <1>2, <1>9 DEF Forward, Receive, Refork
<1>10. ASSUME NEW e \in Events, Delete(e) PROVE LimitInv'
  BY <1>2, <1>10 DEF Delete
<1>11. CASE UNCHANGED vars
  BY <1>2, <1>11 DEF vars
<1>12. QED
  BY <1>3, <1>4, <1>5, <1>6, <1>7, <1>8, <1>9, <1>10, <1>11 DEF Next

-----------------------------------------------------------------------------
(* The inductive invariant. *)

LEMMA PubSubInit == Init => PubSubInv
<1>. SUFFICES ASSUME Init PROVE PubSubInv
  OBVIOUS
<1>1. TypeOK
  BY PubSubTypeInit
<1>2. /\ \A c \in Clients : /\ pub[c].pc = "idle" /\ fetches[c] = <<>> /\ DOMAIN fetches[c] = {}
                            /\ Active(c) = {}
      /\ \A w \in Workers : /\ toPrimary[w] = <<>> /\ toWorker[w] = <<>>
                            /\ \A e \in Events : announced[w][e] = 0
      /\ \A c \in Clients, s \in SubIds : seen[c][s] = {}
  BY IdleTyped, EmptyHas DEF Init, Active, NoSubscriptions
<1>3. Regular \subseteq Events
  BY DEF Regular
<1>4. \A w \in Workers, e \in Regular : /\ ~Has(toPrimary[w], e) /\ ~Has(toWorker[w], e)
                                        /\ announced[w][e] = 0
  BY <1>2, <1>3, EmptyHas
<1>5. \A c \in Clients, e \in Regular : ~Fresh(c, e)
  BY <1>2 DEF Fresh
<1>6. SpokenIsStored /\ FreshIsFirst /\ ToPrimaryOnce /\ ToWorkerOnce
  BY <1>4, <1>5 DEF SpokenIsStored, FreshIsFirst, ToPrimaryOnce, ToWorkerOnce
<1>7. AnnouncedOnce
  BY <1>4 DEF AnnouncedOnce, Regular
<1>8. LeftIsStored /\ SeenIsStored /\ OpenFetches /\ NothingSkipped
  BY <1>2 DEF LeftIsStored, SeenIsStored, OpenFetches, NothingSkipped
<1>9. FinitelyActive /\ WithinLimit
  <2>1. IsFiniteSet({}) /\ Cardinality({}) = 0
    BY FS_EmptySet
  <2>2. \A c \in Clients : IsFiniteSet(Active(c)) /\ Cardinality(Active(c)) = 0
    BY <1>2, <2>1
  <2>3. QED
    BY <2>2, PubSubAssumption DEF FinitelyActive, WithinLimit
<1>10. QED
  BY <1>1, <1>6, <1>7, <1>8, <1>9 DEF PubSubInv

LEMMA PubSubStep == PubSubInv /\ [Next]_vars => PubSubInv'
<1>. SUFFICES ASSUME PubSubInv, [Next]_vars PROVE PubSubInv'
  OBVIOUS
<1>1. TypeOK /\ OnceInv /\ LimitInv /\ LeftIsStored /\ SeenIsStored /\ OpenFetches /\ NothingSkipped
  BY DEF PubSubInv, OnceInv, LimitInv
<1>2. TypeOK' /\ OnceInv' /\ LimitInv'
  BY <1>1, PubSubTypeStep, OnceStep, LimitStep
<1>3. LeftIsStored' /\ SeenIsStored' /\ OpenFetches' /\ NothingSkipped'
  BY <1>1, StoredStep, OpenStep, SkippedStep
<1>4. QED
  BY <1>2, <1>3 DEF PubSubInv, OnceInv, LimitInv

LEMMA PubSubInvariant == Spec => []PubSubInv
<1>1. QED
  BY PubSubInit, PubSubStep, PTL DEF Spec

(* Every state of the cluster is a well-formed one. *)
THEOREM PubSubTypeOK == Spec => []TypeOK
<1>1. PubSubInv => TypeOK
  BY DEF PubSubInv
<1>2. QED
  BY <1>1, PubSubInvariant, PTL

(* A stored event is broadcast at most once to the clients of each worker, *)
(* whoever publishes it, on however many connections and workers, and      *)
(* whatever workers die: the insert that wins is the only one answered     *)
(* with a broadcast, and the primary skips the message's source.           *)
THEOREM PubSubAnnouncedOnce == Spec => []AnnouncedOnce
<1>1. PubSubInv => AnnouncedOnce
  BY DEF PubSubInv
<1>2. QED
  BY <1>1, PubSubInvariant, PTL

(* What a subscriber has seen is in the events table, or ephemeral: no     *)
(* fetch and no broadcast gets ahead of the insert.                        *)
THEOREM PubSubSeenIsStored == Spec => []SeenIsStored
<1>1. PubSubInv => SeenIsStored
  BY DEF PubSubInv
<1>2. QED
  BY <1>1, PubSubInvariant, PTL

(* No connection ever holds more than maxSubscriptions subscriptions.      *)
THEOREM PubSubWithinLimit == Spec => []WithinLimit
<1>1. PubSubInv => WithinLimit
  BY DEF PubSubInv
<1>2. QED
  BY <1>1, PubSubInvariant, PTL

(* No gap between stored and live events: a subscription in force has      *)
(* every matching event stored and broadcast since its REQ, and at its     *)
(* EOSE the earlier ones too unless they are deleted, or a full page of    *)
(* events, sent or deleted, that do not come after the missing one.  It    *)
(* was registered before its query, every event is inserted before it is   *)
(* broadcast, and the query leaves out nothing but what is beyond its      *)
(* limit.                                                                  *)
THEOREM PubSubNoGap == Spec => []NoGap
<1>1. PubSubInv => NoGap
  <2>1. SUFFICES ASSUME PubSubInv, NEW c \in Clients, NEW i \in DOMAIN fetches[c],
                        Open(c), InForce(c, i),
                        NEW e \in stored \cap Match[fetches[c][i].filter] \cap AnnouncedTo(c)
                 PROVE  /\ e \notin fetches[c][i].past => e \in seen[c][fetches[c][i].sub]
                        /\ fetches[c][i].phase = "eose" =>
                              \/ e \in seen[c][fetches[c][i].sub] \cup deleted
                              \/ FullPage(seen[c][fetches[c][i].sub] \cup deleted,
                                          fetches[c][i].filter, e)
    BY DEF NoGap
  <2>2. e \in Events /\ NothingSkipped
    BY <2>1 DEF PubSubInv, TypeOK
  <2>3. Concerns(c, i, e)
    BY <2>1 DEF Concerns, AnnouncedTo
  <2>4. QED
    BY <2>2, <2>3 DEF NothingSkipped, Covers
<1>2. QED
  BY <1>1, PubSubInvariant, PTL
=============================================================================
