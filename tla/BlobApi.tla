-------------------------------- MODULE BlobApi --------------------------------
(***************************************************************************)
(* The HTTP API over the Blossom server and the relays.                    *)
(*                                                                         *)
(* An upload encrypts the file under a fresh key, stores the ciphertext in *)
(* Blossom under its hash, and publishes the metadata as a parameterized   *)
(* replaceable event with the hash as its d tag.  A deletion publishes the *)
(* next version of that event, marked deleted.  A publication goes to      *)
(* every relay and is answered by the first that accepts it; a query asks  *)
(* every relay and keeps the newest version it gets.  The API keeps no     *)
(* state of its own, and created_at counts seconds.                        *)
(***************************************************************************)
EXTENDS Naturals, FiniteSets

CONSTANTS
    Requests,  \* requests in progress, each used once
    Hashes,    \* ciphertexts, by their hash
    Relays,    \* the relays in RELAY_URLS
    MaxTime,   \* bound: seconds
    Faults     \* TRUE if Blossom or the API may die

ASSUME BlobApiAssumption ==
    /\ Hashes # {}
    /\ MaxTime \in Nat
    /\ Faults \in BOOLEAN

VARIABLES
    now,    \* the clock, in seconds
    blob,   \* blob[h]: the file in Blossom's storage
    rel,    \* rel[r][h]: the version relay r holds for the d tag h
    msgs,   \* EVENT messages on their way to the relays
    req     \* req[k]: what request k is doing

vars == <<now, blob, rel, msgs, req>>

Times == 0..MaxTime

Version == [at: Times, deleted: BOOLEAN]

NoVersion == [at |-> 0, deleted |-> TRUE, none |-> TRUE]

Ops == {"post", "get", "download", "delete"}

Codes == {0, 200, 201, 404, 410, 500}

Msg == [req: Requests, relay: Relays, hash: Hashes, at: Times, deleted: BOOLEAN]

Fresh == [op |-> "get", pc |-> "new", hash |-> CHOOSE h \in Hashes : TRUE,
          at |-> 0, code |-> 0, heard |-> {}, after |-> {}]

Init ==
    /\ now = 0
    /\ blob = [h \in Hashes |-> "none"]
    /\ rel = [r \in Relays |-> [h \in Hashes |-> NoVersion]]
    /\ msgs = {}
    /\ req = [k \in Requests |-> Fresh]

(* Mutant: the upload's route falls through to a code of its own. *)
AnswerUnknown(k, code) ==
    req' = [req EXCEPT ![k].pc = "done", ![k].code = IF code = 201 THEN 202 ELSE code]

Answer(k, code) == req' = [req EXCEPT ![k].pc = "done", ![k].code = code]

AnswerFrom(k, reached, code) ==
    req' = [req EXCEPT ![k].pc = "done", ![k].code = code, ![k].heard = reached]

Tick ==
    /\ now < MaxTime
    /\ now' = now + 1
    /\ UNCHANGED <<blob, rel, msgs, req>>

-----------------------------------------------------------------------------
(* Requests arrive. *)

Uploaded(h) == \E k \in Requests : req[k].op = "post" /\ req[k].hash = h

(* The deletions of h that have been answered with 200. *)
Deletions(h) ==
    {k \in Requests : req[k].op = "delete" /\ req[k].hash = h /\ req[k].code = 200}

(* A request's fields heard (the relays whose answers it used) and after   *)
(* (the deletions acknowledged before it arrived) are history.             *)

(* The key and the nonce are random: no two uploads share a hash. *)
BeginPost(k, h) ==
    /\ req[k].pc = "new"
    /\ ~Uploaded(h)
    /\ req' = [req EXCEPT ![k].op = "post", ![k].pc = "upload", ![k].hash = h]
    /\ UNCHANGED <<now, blob, rel, msgs>>

BeginLookup(k, op, h) ==
    /\ req[k].pc = "new"
    /\ op \in {"get", "download", "delete"}
    /\ req' = [req EXCEPT ![k].op = op, ![k].pc = "resolve", ![k].hash = h,
                          ![k].after = Deletions(h)]
    /\ UNCHANGED <<now, blob, rel, msgs>>

-----------------------------------------------------------------------------
(* Blossom. *)

(* PUT /upload writes the file unless it is there, then answers. *)
Upload(k) ==
    /\ req[k].pc = "upload"
    /\ blob' = [blob EXCEPT ![req[k].hash] = IF @ = "none" THEN "whole" ELSE @]
    /\ req' = [req EXCEPT ![k].pc = "publish"]
    /\ UNCHANGED <<now, rel, msgs>>

(* Mutant: the status of Blossom's answer is not looked at. *)
PublishAnyway(k) == req' = [req EXCEPT ![k].pc = "publish"]

AfterUploadFailed(k) == Answer(k, 500)

(* Blossom refuses, dies before or while it writes, or its answer is lost. *)
UploadFails(k) ==
    /\ Faults
    /\ req[k].pc = "upload"
    /\ \E file \in {"none", "partial", "whole"} :
           blob' = [blob EXCEPT ![req[k].hash] = file]
    /\ AfterUploadFailed(k)
    /\ UNCHANGED <<now, rel, msgs>>

-----------------------------------------------------------------------------
(* Publishing. *)

(* The event is signed with the current second and sent to every relay. *)
Publish(k) ==
    /\ req[k].pc = "publish"
    /\ req' = [req EXCEPT ![k].pc = "await", ![k].at = now]
    /\ msgs' = msgs \cup [req: {k}, relay: Relays, hash: {req[k].hash}, at: {now},
                          deleted: {req[k].op = "delete"}]
    /\ UNCHANGED <<now, blob, rel>>

(* Mutant: an equal timestamp replaces as well. *)
ReplacesEqual(v, m) == v = NoVersion \/ v.at <= m.at

(* The relay's upsert: a version is replaced by a newer one only. *)
Replaces(v, m) == v = NoVersion \/ v.at < m.at

Success(k) == IF req[k].op = "post" THEN 201 ELSE 200

(* A relay answers OK true, whether it wrote the event or not; the first   *)
(* such answer settles the request.                                        *)
Accepted(m) ==
    /\ m \in msgs
    /\ msgs' = msgs \ {m}
    /\ rel' = [rel EXCEPT ![m.relay][m.hash] =
                 IF Replaces(@, m) THEN [at |-> m.at, deleted |-> m.deleted] ELSE @]
    /\ IF req[m.req].pc = "await" THEN Answer(m.req, Success(m.req)) ELSE UNCHANGED req
    /\ UNCHANGED <<now, blob>>

(* Mutant: the publication is settled once every relay has answered, well  *)
(* or not.                                                                 *)
CodeAllSettled(k) == Success(k)

(* Promise.any rejects when no relay accepts. *)
CodeAllRejected(k) == 500

(* A relay refuses, or cannot be reached. *)
Rejected(m) ==
    /\ m \in msgs
    /\ msgs' = msgs \ {m}
    /\ IF /\ req[m.req].pc = "await"
          /\ \A n \in msgs \ {m} : n.req # m.req
       THEN Answer(m.req, CodeAllRejected(m.req))
       ELSE UNCHANGED req
    /\ UNCHANGED <<now, blob, rel>>

(* The connections drop, or the library stops waiting, before any relay    *)
(* has answered: the events sent may still be written.                     *)
PublishTimesOut(k) ==
    /\ Faults
    /\ req[k].pc = "await"
    /\ Answer(k, CodeAllRejected(k))
    /\ UNCHANGED <<now, blob, rel, msgs>>

-----------------------------------------------------------------------------
(* Queries. *)

(* Mutant: the versions are sorted the other way. *)
Oldest(found) == {v \in found : \A w \in found : v.at <= w.at}

(* What dedupeEvents may leave first: the newest version, or any of those  *)
(* that share the newest second, in the order they arrived.                *)
Newest(found) == {v \in found : \A w \in found : w.at <= v.at}

Found(h, reached) == {rel[r][h] : r \in reached} \ {NoVersion}

(* What the two lookups may answer when they find version v; a download   *)
(* then needs Blossom, and the whole file, or it cannot decrypt.           *)
CodesFor(op, v, file) ==
    IF v.deleted THEN {IF op = "get" THEN 410 ELSE 404}
    ELSE IF op = "get" THEN {200}
    ELSE (IF file = "whole" THEN {200} ELSE {500}) \cup (IF Faults THEN {500} ELSE {})

(* The relays that answer in time tell their versions; the rest follows    *)
(* the route.                                                              *)
Resolve(k) ==
    LET h == req[k].hash IN
    /\ req[k].pc = "resolve"
    /\ \E reached \in SUBSET Relays :
         \/ /\ Found(h, reached) = {}
            /\ AnswerFrom(k, reached, 404)
         \/ \E v \in Newest(Found(h, reached)) :
              IF req[k].op = "delete"
              THEN req' = [req EXCEPT ![k].pc = "publish"]
              ELSE \E code \in CodesFor(req[k].op, v, blob[h]) : AnswerFrom(k, reached, code)
    /\ UNCHANGED <<now, blob, rel, msgs>>

(* The API process dies: the request is never answered. *)
RequestDies(k) ==
    /\ Faults
    /\ req[k].pc \notin {"new", "done"}
    /\ Answer(k, 0)
    /\ UNCHANGED <<now, blob, rel, msgs>>

Next ==
    \/ Tick
    \/ \E k \in Requests :
          \/ \E h \in Hashes : BeginPost(k, h)
          \/ \E op \in Ops, h \in Hashes : BeginLookup(k, op, h)
          \/ Upload(k) \/ UploadFails(k)
          \/ Publish(k) \/ PublishTimesOut(k)
          \/ Resolve(k)
          \/ RequestDies(k)
    \/ \E m \in msgs : Accepted(m) \/ Rejected(m)

Spec == Init /\ [][Next]_vars

-----------------------------------------------------------------------------
(* Properties. *)

TypeOK ==
    /\ now \in Times
    /\ blob \in [Hashes -> {"none", "partial", "whole"}]
    /\ rel \in [Relays -> [Hashes -> Version \cup {NoVersion}]]
    /\ msgs \subseteq Msg
    /\ req \in [Requests -> [op: Ops, hash: Hashes, at: Times, code: Codes,
                             heard: SUBSET Relays, after: SUBSET Requests,
                             pc: {"new", "upload", "publish", "await", "resolve", "done"}]]

(* Metadata never dangles: a version on any relay, or on its way to one,   *)
(* describes a file that is whole in Blossom (the route uploads, checks    *)
(* the answer, then publishes).                                            *)
MetadataHasBlob ==
    \A h \in Hashes :
        (\E r \in Relays : rel[r][h] # NoVersion) \/ (\E m \in msgs : m.hash = h)
            => blob[h] = "whole"

(* On no relay does a live version ever take the place of a deleted one,   *)
(* in whatever order the messages of an upload and its deletion arrive.    *)
TombstonesStay ==
    [][\A r \in Relays, h \in Hashes :
          rel[r][h] # NoVersion /\ rel[r][h].deleted => rel'[r][h].deleted]_vars

At(op, h) == {req[k].at : k \in {j \in Requests : req[j].op = op /\ req[j].hash = h}}

(* A deletion that was answered 200, in a later second than the upload, is *)
(* recorded by some relay; and so is an upload that was answered 201.      *)
AckedIsRecorded ==
    \A k \in Requests :
        /\ req[k].code = 201 => \E r \in Relays : rel[r][req[k].hash] # NoVersion
        /\ /\ req[k].op = "delete" /\ req[k].code = 200
           /\ \A t \in At("post", req[k].hash) : t < req[k].at
           => \E r \in Relays : rel[r][req[k].hash] # NoVersion /\ rel[r][req[k].hash].deleted

(* Once a deletion is acknowledged, in a later second than the upload, a   *)
(* request that arrives afterwards and hears every relay is not offered    *)
(* the file: not by a relay the deletion has not reached, nor by one that  *)
(* took the upload's event later than the deletion's.                      *)
DeletionSeen ==
    \A k \in Requests : \A d \in req[k].after :
        /\ req[k].op \in {"get", "download"} /\ req[k].heard = Relays
        /\ \A t \in At("post", req[k].hash) : t < req[d].at
        => req[k].code # 200
=============================================================================
