----------------------------- MODULE BlobApiProofs -----------------------------
(***************************************************************************)
(* Theorems about the blob API, for any requests, hashes, relays and       *)
(* clock, with faults or without.                                          *)
(***************************************************************************)
EXTENDS BlobApi, TLAPS

Request == [op: Ops, hash: Hashes, at: Times, code: Codes,
            heard: SUBSET Relays, after: SUBSET Requests,
            pc: {"new", "upload", "publish", "await", "resolve", "done"}]

(* Where in its route each request may be, and which codes it may have. *)
Phases ==
    \A k \in Requests :
        /\ req[k].pc = "new" => req[k].op = "get" /\ req[k].after = {}
        /\ req[k].pc = "upload" => req[k].op = "post"
        /\ req[k].pc = "resolve" => req[k].op # "post"
        /\ req[k].pc \in {"publish", "await"} => req[k].op \in {"post", "delete"}
        /\ req[k].pc # "done" => req[k].code = 0
        /\ req[k].code = 201 => req[k].op = "post"
        /\ req[k].at <= now

IsPost(p, h) == req[p].op = "post" /\ req[p].hash = h

(* Keys and nonces are random: a ciphertext has one upload. *)
OneUpload ==
    \A h \in Hashes : \A p, q \in Requests : IsPost(p, h) /\ IsPost(q, h) => p = q

(* A message tells what its request published. *)
MessagesTold ==
    \A m \in msgs :
        /\ m.hash = req[m.req].hash /\ m.at = req[m.req].at
        /\ m.deleted <=> req[m.req].op = "delete"
        /\ req[m.req].op \in {"post", "delete"}
        /\ req[m.req].pc \in {"await", "done"}

(* The file of an upload that has not reached Blossom is not there, and of *)
(* one that Blossom took it is whole.                                      *)
UploadFirst ==
    /\ \A k \in Requests :
          /\ req[k].op = "post" /\ req[k].pc = "upload" => blob[req[k].hash] = "none"
          /\ req[k].op = "post" /\ req[k].pc = "publish" => blob[req[k].hash] = "whole"
    /\ \A h \in Hashes : blob[h] # "none" => Uploaded(h)

(* h's metadata is on a relay or on its way to one, or a deletion has      *)
(* found it.                                                               *)
Spoken(h) ==
    \/ \E r \in Relays : rel[r][h] # NoVersion
    \/ \E m \in msgs : m.hash = h
    \/ \E k \in Requests : /\ req[k].op = "delete" /\ req[k].hash = h
                           /\ req[k].pc \in {"publish", "await"}

SpokenIsPublished ==
    \A h \in Hashes :
        Spoken(h) => /\ blob[h] = "whole"
                     /\ \A p \in Requests : IsPost(p, h) => req[p].pc \in {"await", "done"}

(* A live version is what the upload published. *)
LiveIsUpload ==
    \A r \in Relays, h \in Hashes :
        rel[r][h] # NoVersion /\ ~rel[r][h].deleted
            => \E p \in Requests : IsPost(p, h) /\ rel[r][h].at = req[p].at

(* A tombstone, on a relay or on its way, is as new as the upload. *)
TombstonesNewer ==
    \A h \in Hashes : \A p \in Requests :
        IsPost(p, h) =>
            /\ \A r \in Relays :
                  rel[r][h] # NoVersion /\ rel[r][h].deleted => req[p].at <= rel[r][h].at
            /\ \A m \in msgs : m.hash = h /\ m.deleted => req[p].at <= m.at

(* What was acknowledged is on a relay, at the time of the request or later. *)
Recorded ==
    \A k \in Requests :
        req[k].code = 201 \/ (req[k].op = "delete" /\ req[k].code = 200)
            => \E r \in Relays : /\ rel[r][req[k].hash] # NoVersion
                                 /\ req[k].at <= rel[r][req[k].hash].at

AfterAcked ==
    \A k \in Requests : \A d \in req[k].after :
        req[d].op = "delete" /\ req[d].code = 200 /\ req[d].hash = req[k].hash

(* If a request that heard every relay was offered the file, the upload is *)
(* as new as the deletions acknowledged before.                            *)
OfferedIsNewer ==
    \A k \in Requests : \A d \in req[k].after :
        req[k].op \in {"get", "download"} /\ req[k].heard = Relays /\ req[k].code = 200
            => \E p \in Requests : /\ IsPost(p, req[k].hash) /\ req[d].at <= req[p].at
                                   /\ req[p].pc \in {"await", "done"}

BlobInv ==
    /\ TypeOK
    /\ Phases
    /\ OneUpload
    /\ MessagesTold
    /\ UploadFirst
    /\ SpokenIsPublished
    /\ LiveIsUpload
    /\ TombstonesNewer
    /\ Recorded
    /\ AfterAcked
    /\ OfferedIsNewer

-----------------------------------------------------------------------------
(* The initial state. *)

LEMMA FreshTyped == Fresh \in Request
BY BlobApiAssumption DEF Fresh, Request, Ops, Codes, Times

LEMMA BlobInit == Init => BlobInv
<1>. SUFFICES ASSUME Init PROVE BlobInv
  OBVIOUS
<1>1. TypeOK
  BY FreshTyped, BlobApiAssumption DEF Init, TypeOK, Request, Times
<1>2. \A k \in Requests : /\ req[k].op = "get" /\ req[k].pc = "new" /\ req[k].code = 0
                          /\ req[k].at = 0 /\ req[k].after = {}
  BY DEF Init, Fresh
<1>3. Phases /\ OneUpload /\ AfterAcked
  BY <1>2 DEF Init, Phases, OneUpload, AfterAcked, IsPost
<1>4. \A h \in Hashes : ~Spoken(h)
  BY <1>2 DEF Init, Spoken
<1>5. MessagesTold /\ UploadFirst
  BY <1>2 DEF Init, MessagesTold, UploadFirst
<1>6. SpokenIsPublished /\ LiveIsUpload /\ TombstonesNewer /\ Recorded /\ OfferedIsNewer
  BY <1>2, <1>4 DEF Init, SpokenIsPublished, LiveIsUpload, TombstonesNewer, Recorded,
                    OfferedIsNewer, IsPost
<1>7. QED
  BY <1>1, <1>3, <1>5, <1>6 DEF BlobInv

-----------------------------------------------------------------------------
(* What the steps write. *)

Others(k) == \A j \in Requests \ {k} : req'[j] = req[j]

LEMMA AnswerWrites ==
    ASSUME TypeOK, NEW k \in Requests, NEW code \in Codes, Answer(k, code)
    PROVE  /\ req' \in [Requests -> Request] /\ Others(k)
           /\ req'[k].pc = "done" /\ req'[k].code = code
           /\ req'[k].op = req[k].op /\ req'[k].hash = req[k].hash
           /\ req'[k].at = req[k].at /\ req'[k].after = req[k].after
           /\ req'[k].heard = req[k].heard
<1> DEFINE new == [req[k] EXCEPT !.pc = "done", !.code = code]
<1>1. req[k] \in Request /\ req \in [Requests -> Request]
  BY DEF TypeOK, Request
<1>2. /\ new \in Request /\ new.pc = "done" /\ new.code = code
      /\ new.op = req[k].op /\ new.hash = req[k].hash
      /\ new.at = req[k].at /\ new.after = req[k].after
      /\ new.heard = req[k].heard
  BY <1>1 DEF Request
<1>3. req' = [req EXCEPT ![k] = new]
  BY <1>1 DEF Answer
<1> HIDE DEF new
<1>4. QED
  BY <1>1, <1>2, <1>3 DEF Others

LEMMA AnswerFromWrites ==
    ASSUME TypeOK, NEW k \in Requests, NEW code \in Codes, NEW reached \in SUBSET Relays,
           AnswerFrom(k, reached, code)
    PROVE  /\ req' \in [Requests -> Request] /\ Others(k)
           /\ req'[k].pc = "done" /\ req'[k].code = code
           /\ req'[k].op = req[k].op /\ req'[k].hash = req[k].hash
           /\ req'[k].at = req[k].at /\ req'[k].after = req[k].after
           /\ req'[k].heard = reached
<1> DEFINE new == [req[k] EXCEPT !.pc = "done", !.code = code, !.heard = reached]
<1>1. req[k] \in Request /\ req \in [Requests -> Request]
  BY DEF TypeOK, Request
<1>2. /\ new \in Request /\ new.pc = "done" /\ new.code = code
      /\ new.op = req[k].op /\ new.hash = req[k].hash
      /\ new.at = req[k].at /\ new.after = req[k].after
      /\ new.heard = reached
  BY <1>1 DEF Request
<1>3. req' = [req EXCEPT ![k] = new]
  BY <1>1 DEF AnswerFrom
<1> HIDE DEF new
<1>4. QED
  BY <1>1, <1>2, <1>3 DEF Others

LEMMA GoOnWrites ==
    ASSUME TypeOK, NEW k \in Requests, req' = [req EXCEPT ![k].pc = "publish"]
    PROVE  /\ req' \in [Requests -> Request] /\ Others(k)
           /\ req'[k].pc = "publish" /\ req'[k].code = req[k].code
           /\ req'[k].op = req[k].op /\ req'[k].hash = req[k].hash
           /\ req'[k].at = req[k].at /\ req'[k].after = req[k].after
           /\ req'[k].heard = req[k].heard
BY DEF Others, TypeOK, Request

LEMMA BeginPostWrites ==
    ASSUME TypeOK, NEW k \in Requests, NEW h \in Hashes, BeginPost(k, h)
    PROVE  /\ req' \in [Requests -> Request] /\ Others(k)
           /\ req'[k].pc = "upload" /\ req'[k].code = req[k].code
           /\ req'[k].op = "post" /\ req'[k].hash = h
           /\ req'[k].at = req[k].at /\ req'[k].after = req[k].after
           /\ req'[k].heard = req[k].heard
BY DEF BeginPost, Others, TypeOK, Request, Ops

LEMMA BeginLookupWrites ==
    ASSUME TypeOK, NEW k \in Requests, NEW op \in Ops, NEW h \in Hashes, BeginLookup(k, op, h)
    PROVE  /\ req' \in [Requests -> Request] /\ Others(k)
           /\ req'[k].pc = "resolve" /\ req'[k].code = req[k].code
           /\ req'[k].op = op /\ req'[k].hash = h
           /\ req'[k].at = req[k].at /\ req'[k].after = Deletions(h)
           /\ req'[k].heard = req[k].heard
<1>1. Deletions(h) \in SUBSET Requests
  BY DEF Deletions
<1>2. QED
  BY <1>1 DEF BeginLookup, Others, TypeOK, Request

LEMMA PublishWrites ==
    ASSUME TypeOK, NEW k \in Requests, Publish(k)
    PROVE  /\ req' \in [Requests -> Request] /\ Others(k)
           /\ req'[k].pc = "await" /\ req'[k].code = req[k].code
           /\ req'[k].op = req[k].op /\ req'[k].hash = req[k].hash
           /\ req'[k].at = now /\ req'[k].after = req[k].after
           /\ req'[k].heard = req[k].heard
BY DEF Publish, Others, TypeOK, Request

(* The messages a publication adds. *)
LEMMA PublishSends ==
    ASSUME TypeOK, NEW k \in Requests, Publish(k)
    PROVE  /\ msgs' \subseteq Msg /\ msgs \subseteq msgs'
           /\ \A m \in msgs' \ msgs : /\ m.req = k /\ m.hash = req[k].hash /\ m.at = now
                                      /\ m.deleted <=> req[k].op = "delete"
<1> DEFINE sent == [req: {k}, relay: Relays, hash: {req[k].hash}, at: {now},
                    deleted: {req[k].op = "delete"}]
<1>1. msgs' = msgs \cup sent
  BY DEF Publish
<1>2. req[k].hash \in Hashes /\ now \in Times /\ msgs \subseteq Msg
  BY DEF TypeOK
<1>3. sent \subseteq Msg
  BY <1>2 DEF Msg
<1>4. \A m \in sent : /\ m.req = k /\ m.hash = req[k].hash /\ m.at = now
                      /\ m.deleted <=> req[k].op = "delete"
  OBVIOUS
<1>5. QED
  BY <1>1, <1>2, <1>3, <1>4

LEMMA VersionIsSome == \A v \in Version : v # NoVersion
<1>1. "none" \in DOMAIN NoVersion
  BY DEF NoVersion
<1>2. \A v \in Version : "none" \notin DOMAIN v
  BY DEF Version
<1>3. QED
  BY <1>1, <1>2

(* A relay takes a message, or has a version at least as new. *)
LEMMA AcceptedWrites ==
    ASSUME TypeOK, NEW m \in msgs, Accepted(m)
    PROVE  /\ m \in Msg
           /\ rel' \in [Relays -> [Hashes -> Version \cup {NoVersion}]]
           /\ \A r \in Relays, h \in Hashes : r # m.relay \/ h # m.hash => rel'[r][h] = rel[r][h]
           /\ rel'[m.relay][m.hash] # NoVersion
           /\ m.at <= rel'[m.relay][m.hash].at
           /\ \/ rel'[m.relay][m.hash] = rel[m.relay][m.hash]
              \/ /\ rel'[m.relay][m.hash].at = m.at
                 /\ rel'[m.relay][m.hash].deleted = m.deleted
                 /\ rel[m.relay][m.hash] = NoVersion \/ rel[m.relay][m.hash].at < m.at
<1> DEFINE new == [at |-> m.at, deleted |-> m.deleted]
           old == rel[m.relay][m.hash]
<1>1. m \in Msg
  BY DEF TypeOK
<1>2. /\ m.relay \in Relays /\ m.hash \in Hashes /\ m.at \in Times
      /\ new \in Version /\ new.at = m.at /\ new.deleted = m.deleted
  BY <1>1 DEF Msg, Version
<1>3. new # NoVersion
  BY <1>2, VersionIsSome
<1>4. old \in Version \cup {NoVersion} /\ rel \in [Relays -> [Hashes -> Version \cup {NoVersion}]]
  BY <1>2 DEF TypeOK
<1>5. old # NoVersion => old.at \in Times
  BY <1>4 DEF Version
<1>6. rel' = [rel EXCEPT ![m.relay][m.hash] = IF Replaces(old, m) THEN new ELSE old]
  BY <1>2, <1>4 DEF Accepted
<1> HIDE DEF new, old
<1>7. /\ rel' \in [Relays -> [Hashes -> Version \cup {NoVersion}]]
      /\ \A r \in Relays, h \in Hashes : r # m.relay \/ h # m.hash => rel'[r][h] = rel[r][h]
      /\ rel'[m.relay][m.hash] = IF Replaces(old, m) THEN new ELSE old
  BY <1>2, <1>4, <1>6
<1>8. CASE Replaces(old, m)
  BY <1>1, <1>2, <1>3, <1>7, <1>8 DEF Replaces, old, Times
<1>9. CASE ~Replaces(old, m)
  <2>1. old # NoVersion /\ ~(old.at < m.at)
    BY <1>9 DEF Replaces
  <2>2. m.at <= old.at
    BY <1>2, <1>5, <2>1, BlobApiAssumption DEF Times
  <2>3. rel'[m.relay][m.hash] = old
    BY <1>7, <1>9
  <2>4. QED
    BY <1>1, <1>7, <2>1, <2>2, <2>3 DEF old
<1>10. QED
  BY <1>8, <1>9

-----------------------------------------------------------------------------
(* Every step keeps the invariant. *)

(* A request that ends without success; the file of an upload that failed  *)
(* may be in any state.                                                    *)
LEMMA EndedKeeps ==
    ASSUME BlobInv, NEW k \in Requests, req[k].pc \notin {"new", "done"},
           NEW code \in Codes, code # 200, code # 201, Answer(k, code),
           UNCHANGED <<now, rel>>, msgs' \subseteq msgs,
           blob' \in [Hashes -> {"none", "partial", "whole"}],
           \/ blob' = blob
           \/ /\ req[k].pc = "upload"
              /\ \A h \in Hashes : h # req[k].hash => blob'[h] = blob[h]
    PROVE  BlobInv'
<1>1. /\ TypeOK /\ req' \in [Requests -> Request]
      /\ \A j \in Requests : /\ req'[j].op = req[j].op /\ req'[j].hash = req[j].hash
                             /\ req'[j].at = req[j].at /\ req'[j].after = req[j].after
                             /\ req'[j].heard = req[j].heard
      /\ \A j \in Requests \ {k} : req'[j] = req[j]
      /\ req'[k].pc = "done" /\ req'[k].code = code
  BY AnswerWrites DEF BlobInv, Others
<1>2. \A j \in Requests, h \in Hashes : IsPost(j, h)' <=> IsPost(j, h)
  BY <1>1 DEF IsPost
<1>3. \A h \in Hashes : Uploaded(h)' <=> Uploaded(h)
  BY <1>1 DEF Uploaded
<1>4. \A h \in Hashes : Spoken(h)' => Spoken(h)
  BY <1>1 DEF Spoken
<1>5. TypeOK'
  BY <1>1 DEF TypeOK, Request
<1>6. Phases' /\ OneUpload' /\ AfterAcked'
  <2>1. Phases'
    BY <1>1 DEF BlobInv, Phases
  <2>2. OneUpload'
    BY <1>2 DEF BlobInv, OneUpload
  <2>3. AfterAcked'
    <3>1. req[k].code = 0
      BY DEF BlobInv, Phases
    <3>2. \A d \in Requests : req[d].code = 200 => req'[d].code = 200
      BY <1>1, <3>1
    <3>3. \A j \in Requests : req[j].after \subseteq Requests
      BY <1>1 DEF TypeOK
    <3>4. QED
      BY <1>1, <3>2, <3>3 DEF BlobInv, AfterAcked
  <2>4. QED
    BY <2>1, <2>2, <2>3
<1>7. MessagesTold'
  BY <1>1 DEF BlobInv, MessagesTold, TypeOK, Msg
<1>8. UploadFirst'
  <2>1. req[k].pc = "upload" => IsPost(k, req[k].hash) /\ req[k].hash \in Hashes
    BY <1>1 DEF BlobInv, Phases, IsPost, TypeOK
  <2>2. ASSUME NEW j \in Requests \ {k}, req[j].op = "post", req[j].pc \in {"upload", "publish"}
        PROVE  blob'[req[j].hash] = blob[req[j].hash]
    <3>1. IsPost(j, req[j].hash) /\ req[j].hash \in Hashes
      BY <1>1, <2>2 DEF IsPost, TypeOK
    <3>2. req[k].pc = "upload" => req[j].hash # req[k].hash
      BY <2>1, <2>2, <3>1 DEF BlobInv, OneUpload
    <3>3. QED
      BY <3>1, <3>2
  <2>3. ASSUME NEW h \in Hashes, blob'[h] # "none" PROVE Uploaded(h)
    BY <2>1, <2>3 DEF BlobInv, UploadFirst, Uploaded, IsPost
  <2>4. QED
    BY <1>1, <1>3, <2>2, <2>3 DEF BlobInv, UploadFirst
<1>9. SpokenIsPublished'
  <2>1. SUFFICES ASSUME NEW h \in Hashes, Spoken(h)
                 PROVE  /\ blob'[h] = "whole"
                        /\ \A p \in Requests : IsPost(p, h) => req'[p].pc \in {"await", "done"}
    BY <1>2, <1>4 DEF SpokenIsPublished
  <2>2. blob[h] = "whole" /\ \A p \in Requests : IsPost(p, h) => req[p].pc \in {"await", "done"}
    BY <2>1 DEF BlobInv, SpokenIsPublished
  <2>3. req[k].pc = "upload" => h # req[k].hash
    BY <2>2 DEF BlobInv, Phases, IsPost
  <2>4. QED
    BY <1>1, <2>2, <2>3
<1>10. LiveIsUpload' /\ TombstonesNewer'
  <2>1. LiveIsUpload'
    BY <1>1, <1>2 DEF BlobInv, LiveIsUpload
  <2>2. TombstonesNewer'
    BY <1>1, <1>2 DEF BlobInv, TombstonesNewer
  <2>3. QED
    BY <2>1, <2>2
<1>11. Recorded'
  BY <1>1 DEF BlobInv, Recorded
<1>12. OfferedIsNewer'
  <2>1. SUFFICES ASSUME NEW j \in Requests, NEW d \in req[j].after, j # k,
                        req[j].op \in {"get", "download"}, req[j].heard = Relays,
                        req[j].code = 200
                 PROVE  \E p \in Requests : /\ IsPost(p, req[j].hash)' /\ req'[d].at <= req'[p].at
                                            /\ req'[p].pc \in {"await", "done"}
    BY <1>1 DEF OfferedIsNewer
  <2>2. PICK p \in Requests : /\ IsPost(p, req[j].hash) /\ req[d].at <= req[p].at
                              /\ req[p].pc \in {"await", "done"}
    BY <2>1 DEF BlobInv, OfferedIsNewer
  <2>3. d \in Requests /\ req[j].hash \in Hashes
    BY <1>1 DEF TypeOK
  <2>4. QED
    BY <1>1, <1>2, <2>2, <2>3
<1>13. QED
  BY <1>5, <1>6, <1>7, <1>8, <1>9, <1>10, <1>11, <1>12 DEF BlobInv

LEMMA TickKeeps == ASSUME BlobInv, Tick PROVE BlobInv'
<1>1. /\ UNCHANGED <<blob, rel, msgs, req>> /\ now' \in Times /\ now <= now'
      /\ req \in [Requests -> Request] /\ now \in Times
  BY BlobApiAssumption DEF Tick, BlobInv, TypeOK, Times, Request
<1>2. TypeOK'
  BY <1>1 DEF BlobInv, TypeOK
<1>3. Phases'
  <2>1. ASSUME NEW k \in Requests PROVE req'[k].at <= now'
    <3>1. req[k].at \in Nat /\ req[k].at <= now /\ now \in Nat /\ now' \in Nat
      BY <1>1, BlobApiAssumption DEF BlobInv, Phases, Request, Times
    <3>2. QED
      BY <1>1, <3>1
  <2>2. QED
    BY <1>1, <2>1 DEF BlobInv, Phases
<1>4. OneUpload' /\ AfterAcked' /\ MessagesTold' /\ UploadFirst'
  BY <1>1 DEF BlobInv, OneUpload, AfterAcked, MessagesTold, UploadFirst, IsPost, Uploaded
<1>5. SpokenIsPublished'
  BY <1>1 DEF BlobInv, SpokenIsPublished, Spoken, IsPost
<1>6. LiveIsUpload' /\ TombstonesNewer' /\ Recorded' /\ OfferedIsNewer'
  BY <1>1 DEF BlobInv, LiveIsUpload, TombstonesNewer, Recorded, OfferedIsNewer, IsPost
<1>7. QED
  BY <1>2, <1>3, <1>4, <1>5, <1>6 DEF BlobInv

(* The hash of a new upload is on no relay and in no message. *)
LEMMA BeginPostKeeps ==
    ASSUME BlobInv, NEW k \in Requests, NEW h \in Hashes, BeginPost(k, h)
    PROVE  BlobInv'
<1>1. /\ TypeOK /\ req' \in [Requests -> Request]
      /\ \A j \in Requests \ {k} : req'[j] = req[j]
      /\ req'[k].pc = "upload" /\ req'[k].op = "post" /\ req'[k].hash = h
      /\ req'[k].at = req[k].at /\ req'[k].after = req[k].after
      /\ req'[k].code = 0 /\ req[k].code = 0
      /\ req[k].pc = "new" /\ req[k].op = "get"
      /\ ~Uploaded(h)
      /\ UNCHANGED <<now, blob, rel, msgs>>
  <2>1. req[k].pc = "new" /\ ~Uploaded(h) /\ UNCHANGED <<now, blob, rel, msgs>>
    BY DEF BeginPost
  <2>2. req[k].op = "get" /\ req[k].code = 0
    BY <2>1 DEF BlobInv, Phases
  <2>3. QED
    BY <2>1, <2>2, BeginPostWrites DEF BlobInv, Others
<1>2. \A j \in Requests, g \in Hashes : IsPost(j, g)' <=> IsPost(j, g) \/ (j = k /\ g = h)
  BY <1>1 DEF IsPost
<1>3. \A j \in Requests : ~IsPost(j, h)
  BY <1>1 DEF Uploaded, IsPost
<1>4. ~Spoken(h) /\ blob[h] = "none"
  BY <1>1 DEF BlobInv, SpokenIsPublished, UploadFirst
<1>5. \A g \in Hashes : Spoken(g)' <=> Spoken(g)
  BY <1>1 DEF Spoken
<1>6. TypeOK'
  BY <1>1 DEF TypeOK, Request
<1>7. Phases'
  BY <1>1 DEF BlobInv, Phases
<1>8. OneUpload'
  BY <1>2, <1>3 DEF BlobInv, OneUpload
<1>9. AfterAcked'
  <2>1. \A j \in Requests : req[j].after \subseteq Requests
    BY <1>1 DEF TypeOK
  <2>2. \A j \in Requests : \A d \in req[j].after : d # k
    BY <1>1 DEF BlobInv, AfterAcked
  <2>3. req[k].after = {}
    BY <1>1 DEF BlobInv, Phases
  <2>4. QED
    BY <1>1, <2>1, <2>2, <2>3 DEF BlobInv, AfterAcked
<1>10. MessagesTold'
  <2>1. \A m \in msgs : m.req \in Requests /\ m.req # k
    BY <1>1 DEF BlobInv, MessagesTold, TypeOK, Msg
  <2>2. QED
    BY <1>1, <2>1 DEF BlobInv, MessagesTold
<1>11. UploadFirst'
  <2>1. \A g \in Hashes : Uploaded(g) => Uploaded(g)'
    BY <1>1 DEF Uploaded
  <2>2. QED
    BY <1>1, <1>4, <2>1 DEF BlobInv, UploadFirst
<1>12. SpokenIsPublished'
  BY <1>1, <1>2, <1>4, <1>5 DEF BlobInv, SpokenIsPublished
<1>13. LiveIsUpload'
  <2>1. \A p \in Requests, g \in Hashes : IsPost(p, g) => IsPost(p, g)' /\ req'[p].at = req[p].at
    BY <1>1, <1>2
  <2>2. QED
    BY <1>1, <2>1 DEF BlobInv, LiveIsUpload
<1>14. TombstonesNewer'
  <2>1. /\ \A r \in Relays : rel[r][h] = NoVersion
        /\ \A m \in msgs : m.hash # h
    BY <1>4 DEF Spoken
  <2>2. QED
    BY <1>1, <1>2, <2>1 DEF BlobInv, TombstonesNewer
<1>15. Recorded'
  BY <1>1 DEF BlobInv, Recorded
<1>16. OfferedIsNewer'
  <2>1. SUFFICES ASSUME NEW j \in Requests, NEW d \in req[j].after, j # k,
                        req[j].op \in {"get", "download"}, req[j].heard = Relays,
                        req[j].code = 200
                 PROVE  \E p \in Requests : /\ IsPost(p, req[j].hash)' /\ req'[d].at <= req'[p].at
                                            /\ req'[p].pc \in {"await", "done"}
    BY <1>1 DEF OfferedIsNewer
  <2>2. PICK p \in Requests : /\ IsPost(p, req[j].hash) /\ req[d].at <= req[p].at
                              /\ req[p].pc \in {"await", "done"}
    BY <2>1 DEF BlobInv, OfferedIsNewer
  <2>3. d \in Requests /\ req[j].hash \in Hashes
    BY <1>1 DEF TypeOK
  <2>4. p # k /\ req'[p] = req[p] /\ req'[d].at = req[d].at
    BY <1>1, <2>2, <2>3
  <2>5. QED
    BY <1>1, <1>2, <2>1, <2>2, <2>3, <2>4
<1>17. QED
  BY <1>6, <1>7, <1>8, <1>9, <1>10, <1>11, <1>12, <1>13, <1>14, <1>15, <1>16 DEF BlobInv

LEMMA BeginLookupKeeps ==
    ASSUME BlobInv, NEW k \in Requests, NEW op \in Ops, NEW h \in Hashes, BeginLookup(k, op, h)
    PROVE  BlobInv'
<1>1. /\ TypeOK /\ req' \in [Requests -> Request]
      /\ \A j \in Requests \ {k} : req'[j] = req[j]
      /\ req'[k].pc = "resolve" /\ req'[k].op = op /\ req'[k].hash = h
      /\ req'[k].at = req[k].at /\ req'[k].after = Deletions(h)
      /\ req'[k].code = 0 /\ req[k].code = 0
      /\ req[k].pc = "new" /\ req[k].op = "get" /\ op \in {"get", "download", "delete"}
      /\ UNCHANGED <<now, blob, rel, msgs>>
  <2>1. /\ req[k].pc = "new" /\ op \in {"get", "download", "delete"}
        /\ UNCHANGED <<now, blob, rel, msgs>>
    BY DEF BeginLookup
  <2>2. req[k].op = "get" /\ req[k].code = 0
    BY <2>1 DEF BlobInv, Phases
  <2>3. QED
    BY <2>1, <2>2, BeginLookupWrites DEF BlobInv, Others
<1>2. \A j \in Requests, g \in Hashes : IsPost(j, g)' <=> IsPost(j, g)
  BY <1>1 DEF IsPost
<1>3. \A g \in Hashes : Uploaded(g)' <=> Uploaded(g)
  BY <1>1 DEF Uploaded
<1>4. \A g \in Hashes : Spoken(g)' => Spoken(g)
  BY <1>1 DEF Spoken
<1>5. TypeOK'
  BY <1>1 DEF TypeOK, Request
<1>6. Phases' /\ OneUpload'
  BY <1>1, <1>2 DEF BlobInv, Phases, OneUpload
<1>7. AfterAcked'
  <2>1. \A j \in Requests : req[j].after \subseteq Requests
    BY <1>1 DEF TypeOK
  <2>2. \A d \in Requests : req[d].op = "delete" => req'[d] = req[d]
    BY <1>1
  <2>3. \A d \in Deletions(h) : /\ d \in Requests /\ req[d].op = "delete"
                                /\ req[d].code = 200 /\ req[d].hash = h
    BY DEF Deletions
  <2>4. \A j \in Requests \ {k} : \A d \in req'[j].after :
            req'[d].op = "delete" /\ req'[d].code = 200 /\ req'[d].hash = req'[j].hash
    BY <1>1, <2>1, <2>2 DEF BlobInv, AfterAcked
  <2>5. \A d \in req'[k].after :
            req'[d].op = "delete" /\ req'[d].code = 200 /\ req'[d].hash = req'[k].hash
    BY <1>1, <2>2, <2>3
  <2>6. QED
    BY <2>4, <2>5 DEF AfterAcked
<1>8. MessagesTold'
  <2>1. \A m \in msgs : m.req \in Requests /\ m.req # k
    BY <1>1 DEF BlobInv, MessagesTold, TypeOK, Msg
  <2>2. QED
    BY <1>1, <2>1 DEF BlobInv, MessagesTold
<1>9. UploadFirst'
  BY <1>1, <1>3 DEF BlobInv, UploadFirst
<1>10. SpokenIsPublished'
  <2>1. \A p \in Requests, g \in Hashes : IsPost(p, g) => req'[p].pc = req[p].pc
    BY <1>1 DEF IsPost
  <2>2. QED
    BY <1>1, <1>2, <1>4, <2>1 DEF BlobInv, SpokenIsPublished
<1>11. LiveIsUpload' /\ TombstonesNewer'
  <2>1. \A p \in Requests : req'[p].at = req[p].at
    BY <1>1
  <2>2. LiveIsUpload'
    BY <1>1, <1>2, <2>1 DEF BlobInv, LiveIsUpload
  <2>3. TombstonesNewer'
    BY <1>1, <1>2, <2>1 DEF BlobInv, TombstonesNewer
  <2>4. QED
    BY <2>2, <2>3
<1>12. Recorded'
  BY <1>1 DEF BlobInv, Recorded
<1>13. OfferedIsNewer'
  <2>1. SUFFICES ASSUME NEW j \in Requests, NEW d \in req[j].after, j # k,
                        req[j].op \in {"get", "download"}, req[j].heard = Relays,
                        req[j].code = 200
                 PROVE  \E p \in Requests : /\ IsPost(p, req[j].hash)' /\ req'[d].at <= req'[p].at
                                            /\ req'[p].pc \in {"await", "done"}
    BY <1>1 DEF OfferedIsNewer
  <2>2. PICK p \in Requests : /\ IsPost(p, req[j].hash) /\ req[d].at <= req[p].at
                              /\ req[p].pc \in {"await", "done"}
    BY <2>1 DEF BlobInv, OfferedIsNewer
  <2>3. d \in Requests /\ req[j].hash \in Hashes
    BY <1>1 DEF TypeOK
  <2>4. p # k /\ req'[p] = req[p] /\ req'[d].at = req[d].at
    BY <1>1, <2>2, <2>3
  <2>5. QED
    BY <1>1, <1>2, <2>1, <2>2, <2>3, <2>4
<1>14. QED
  BY <1>5, <1>6, <1>7, <1>8, <1>9, <1>10, <1>11, <1>12, <1>13 DEF BlobInv

(* A request goes on to publish: what does not depend on the file and on   *)
(* the request's phase is left alone.                                      *)
LEMMA GoOnKeeps ==
    ASSUME BlobInv, NEW k \in Requests, req[k].pc \in {"upload", "resolve"},
           req' = [req EXCEPT ![k].pc = "publish"], UNCHANGED <<now, rel, msgs>>
    PROVE  /\ OneUpload' /\ MessagesTold' /\ LiveIsUpload' /\ TombstonesNewer'
           /\ Recorded' /\ AfterAcked' /\ OfferedIsNewer'
<1>1. /\ TypeOK
      /\ \A j \in Requests : /\ req'[j].op = req[j].op /\ req'[j].hash = req[j].hash
                             /\ req'[j].at = req[j].at /\ req'[j].after = req[j].after
                             /\ req'[j].heard = req[j].heard /\ req'[j].code = req[j].code
      /\ \A j \in Requests \ {k} : req'[j] = req[j]
  BY GoOnWrites DEF BlobInv, Others
<1>2. \A j \in Requests, h \in Hashes : IsPost(j, h)' <=> IsPost(j, h)
  BY <1>1 DEF IsPost
<1>3. OneUpload' /\ Recorded'
  BY <1>1, <1>2 DEF BlobInv, OneUpload, Recorded
<1>4. MessagesTold'
  <2>1. \A m \in msgs : m.req \in Requests /\ m.req # k
    BY <1>1 DEF BlobInv, MessagesTold, TypeOK, Msg
  <2>2. QED
    BY <1>1, <2>1 DEF BlobInv, MessagesTold
<1>5. LiveIsUpload'
  BY <1>1, <1>2 DEF BlobInv, LiveIsUpload
<1>6. TombstonesNewer'
  BY <1>1, <1>2 DEF BlobInv, TombstonesNewer
<1>7. AfterAcked'
  <2>1. \A j \in Requests : req[j].after \subseteq Requests
    BY <1>1 DEF TypeOK
  <2>2. QED
    BY <1>1, <2>1 DEF BlobInv, AfterAcked
<1>8. OfferedIsNewer'
  <2>1. SUFFICES ASSUME NEW j \in Requests, NEW d \in req[j].after,
                        req[j].op \in {"get", "download"}, req[j].heard = Relays,
                        req[j].code = 200
                 PROVE  \E p \in Requests : /\ IsPost(p, req[j].hash)' /\ req'[d].at <= req'[p].at
                                            /\ req'[p].pc \in {"await", "done"}
    BY <1>1 DEF OfferedIsNewer
  <2>2. PICK p \in Requests : /\ IsPost(p, req[j].hash) /\ req[d].at <= req[p].at
                              /\ req[p].pc \in {"await", "done"}
    BY <2>1 DEF BlobInv, OfferedIsNewer
  <2>3. d \in Requests /\ req[j].hash \in Hashes
    BY <1>1 DEF TypeOK
  <2>4. QED
    BY <1>1, <1>2, <2>2, <2>3
<1>9. QED
  BY <1>3, <1>4, <1>5, <1>6, <1>7, <1>8

LEMMA UploadKeeps == ASSUME BlobInv, NEW k \in Requests, Upload(k) PROVE BlobInv'
<1> DEFINE file == req[k].hash
<1>1. /\ TypeOK /\ req' \in [Requests -> Request]
      /\ \A j \in Requests : /\ req'[j].op = req[j].op /\ req'[j].hash = req[j].hash
                             /\ req'[j].at = req[j].at /\ req'[j].after = req[j].after
                             /\ req'[j].heard = req[j].heard /\ req'[j].code = req[j].code
      /\ \A j \in Requests \ {k} : req'[j] = req[j]
      /\ req'[k].pc = "publish"
  BY GoOnWrites DEF Upload, BlobInv, Others
<1>2. req[k].pc = "upload" /\ UNCHANGED <<now, rel, msgs>>
  BY DEF Upload
<1>3. IsPost(k, file) /\ file \in Hashes /\ blob[file] = "none"
  BY <1>1, <1>2 DEF BlobInv, Phases, UploadFirst, IsPost, TypeOK
<1>4. /\ blob' \in [Hashes -> {"none", "partial", "whole"}]
      /\ blob'[file] = "whole" /\ \A h \in Hashes : h # file => blob'[h] = blob[h]
  BY <1>1, <1>3 DEF Upload, TypeOK
<1>5. OneUpload' /\ MessagesTold' /\ LiveIsUpload' /\ TombstonesNewer'
      /\ Recorded' /\ AfterAcked' /\ OfferedIsNewer'
  BY <1>2, GoOnKeeps DEF Upload
<1>6. TypeOK'
  BY <1>1, <1>2, <1>4 DEF TypeOK, Request
<1>7. Phases'
  BY <1>1, <1>2 DEF BlobInv, Phases
<1>8. UploadFirst'
  <2>1. ASSUME NEW j \in Requests \ {k}, req[j].op = "post" PROVE req[j].hash # file
    BY <1>3, <2>1 DEF BlobInv, OneUpload, IsPost
  <2>2. \A j \in Requests : req[j].hash \in Hashes
    BY <1>1 DEF TypeOK
  <2>3. \A j \in Requests :
          /\ req'[j].op = "post" /\ req'[j].pc = "upload" => blob'[req'[j].hash] = "none"
          /\ req'[j].op = "post" /\ req'[j].pc = "publish" => blob'[req'[j].hash] = "whole"
    BY <1>1, <1>4, <2>1, <2>2 DEF BlobInv, UploadFirst
  <2>4. ASSUME NEW h \in Hashes, blob'[h] # "none" PROVE Uploaded(h)'
    <3>1. Uploaded(h)
      BY <1>3, <1>4, <2>4 DEF BlobInv, UploadFirst, Uploaded, IsPost
    <3>2. QED
      BY <1>1, <3>1 DEF Uploaded
  <2>5. QED
    BY <2>3, <2>4 DEF UploadFirst
<1>9. SpokenIsPublished'
  <2>1. SUFFICES ASSUME NEW h \in Hashes, Spoken(h)'
                 PROVE  /\ blob'[h] = "whole"
                        /\ \A p \in Requests : IsPost(p, h)' => req'[p].pc \in {"await", "done"}
    BY DEF SpokenIsPublished
  <2>2. Spoken(h)
    BY <1>1, <1>2, <1>3, <2>1 DEF Spoken, IsPost
  <2>3. blob[h] = "whole" /\ \A p \in Requests : IsPost(p, h) => req[p].pc \in {"await", "done"}
    BY <2>2 DEF BlobInv, SpokenIsPublished
  <2>4. h # file
    BY <1>3, <2>3
  <2>5. QED
    BY <1>1, <1>3, <1>4, <2>3, <2>4 DEF IsPost
<1>10. QED
  BY <1>5, <1>6, <1>7, <1>8, <1>9 DEF BlobInv

(* Every version tells that the upload has been published. *)
LEMMA FoundIsSpoken ==
    ASSUME TypeOK, NEW h \in Hashes, NEW reached \in SUBSET Relays, NEW v \in Found(h, reached)
    PROVE  Spoken(h) /\ \E r \in reached : v = rel[r][h] /\ v # NoVersion
BY DEF Found, Spoken

(* A deletion that found a version goes on to publish. *)
LEMMA DeleteGoesOnKeeps ==
    ASSUME BlobInv, NEW k \in Requests, req[k].pc = "resolve", req[k].op = "delete",
           Spoken(req[k].hash), req' = [req EXCEPT ![k].pc = "publish"],
           UNCHANGED <<now, blob, rel, msgs>>
    PROVE  BlobInv'
<1>1. /\ TypeOK /\ req' \in [Requests -> Request]
      /\ \A j \in Requests : /\ req'[j].op = req[j].op /\ req'[j].hash = req[j].hash
                             /\ req'[j].at = req[j].at /\ req'[j].after = req[j].after
                             /\ req'[j].heard = req[j].heard /\ req'[j].code = req[j].code
      /\ \A j \in Requests \ {k} : req'[j] = req[j]
      /\ req'[k].pc = "publish"
  BY GoOnWrites DEF BlobInv, Others
<1>2. OneUpload' /\ MessagesTold' /\ LiveIsUpload' /\ TombstonesNewer'
      /\ Recorded' /\ AfterAcked' /\ OfferedIsNewer'
  BY GoOnKeeps
<1>3. TypeOK'
  BY <1>1 DEF TypeOK, Request
<1>4. Phases'
  BY <1>1 DEF BlobInv, Phases
<1>5. UploadFirst'
  <2>1. \A h \in Hashes : Uploaded(h)' <=> Uploaded(h)
    BY <1>1 DEF Uploaded
  <2>2. QED
    BY <1>1, <2>1 DEF BlobInv, UploadFirst
<1>6. SpokenIsPublished'
  <2>1. \A h \in Hashes : Spoken(h)' => Spoken(h)
    BY <1>1 DEF Spoken
  <2>2. \A p \in Requests, h \in Hashes :
            /\ IsPost(p, h)' <=> IsPost(p, h)
            /\ IsPost(p, h) => req'[p].pc = req[p].pc
    BY <1>1 DEF IsPost
  <2>3. QED
    BY <2>1, <2>2 DEF BlobInv, SpokenIsPublished
<1>7. QED
  BY <1>2, <1>3, <1>4, <1>5, <1>6 DEF BlobInv

(* A lookup is answered; only a live version, as new as any that the       *)
(* reached relays have, is answered with 200.                              *)
LEMMA LookupKeeps ==
    ASSUME BlobInv, NEW k \in Requests, req[k].pc = "resolve",
           NEW reached \in SUBSET Relays, NEW code \in Codes, code # 201,
           AnswerFrom(k, reached, code), UNCHANGED <<now, blob, rel, msgs>>,
           code = 200 => /\ req[k].op # "delete"
                         /\ \E v \in Newest(Found(req[k].hash, reached)) : ~v.deleted
    PROVE  BlobInv'
<1>1. /\ TypeOK /\ req' \in [Requests -> Request]
      /\ \A j \in Requests : /\ req'[j].op = req[j].op /\ req'[j].hash = req[j].hash
                             /\ req'[j].at = req[j].at /\ req'[j].after = req[j].after
      /\ \A j \in Requests \ {k} : req'[j] = req[j]
      /\ req'[k].pc = "done" /\ req'[k].code = code /\ req'[k].heard = reached
  BY AnswerFromWrites DEF BlobInv, Others
<1>2. req[k].op # "post" /\ req[k].code = 0
  BY DEF BlobInv, Phases
<1>3. \A j \in Requests, h \in Hashes : IsPost(j, h)' <=> IsPost(j, h)
  BY <1>1 DEF IsPost
<1>4. \A h \in Hashes : (Uploaded(h)' <=> Uploaded(h)) /\ (Spoken(h)' => Spoken(h))
  BY <1>1 DEF Uploaded, Spoken
<1>5. TypeOK'
  BY <1>1 DEF TypeOK, Request
<1>6. Phases' /\ OneUpload'
  BY <1>1, <1>2, <1>3 DEF BlobInv, Phases, OneUpload
<1>7. MessagesTold'
  BY <1>1 DEF BlobInv, MessagesTold, TypeOK, Msg
<1>8. UploadFirst' /\ LiveIsUpload' /\ TombstonesNewer'
  <2>1. UploadFirst'
    BY <1>1, <1>4 DEF BlobInv, UploadFirst
  <2>2. LiveIsUpload'
    BY <1>1, <1>3 DEF BlobInv, LiveIsUpload
  <2>3. TombstonesNewer'
    BY <1>1, <1>3 DEF BlobInv, TombstonesNewer
  <2>4. QED
    BY <2>1, <2>2, <2>3
<1>9. SpokenIsPublished'
  <2>1. \A p \in Requests, h \in Hashes : IsPost(p, h) => req'[p].pc = req[p].pc
    BY <1>1, <1>2 DEF IsPost
  <2>2. QED
    BY <1>1, <1>3, <1>4, <2>1 DEF BlobInv, SpokenIsPublished
<1>10. Recorded'
  BY <1>1 DEF BlobInv, Recorded
<1>11. AfterAcked'
  <2>1. \A j \in Requests : req[j].after \subseteq Requests
    BY <1>1 DEF TypeOK
  <2>2. \A d \in Requests : req[d].code = 200 => req'[d].code = 200
    BY <1>1, <1>2
  <2>3. QED
    BY <1>1, <2>1, <2>2 DEF BlobInv, AfterAcked
<1>12. OfferedIsNewer'
  <2>1. SUFFICES ASSUME NEW j \in Requests, NEW d \in req[j].after,
                        req[j].op \in {"get", "download"}, req'[j].heard = Relays,
                        req'[j].code = 200
                 PROVE  \E p \in Requests : /\ IsPost(p, req[j].hash) /\ req[d].at <= req[p].at
                                            /\ req'[p].pc \in {"await", "done"}
    <3>1. \A j \in Requests : req[j].hash \in Hashes /\ req[j].after \subseteq Requests
      BY <1>1 DEF TypeOK
    <3>2. QED
      BY <1>1, <1>3, <2>1, <3>1 DEF OfferedIsNewer
  <2>2. d \in Requests /\ req[j].hash \in Hashes
    BY <1>1 DEF TypeOK
  <2>3. CASE j # k
    <3>1. PICK p \in Requests : /\ IsPost(p, req[j].hash) /\ req[d].at <= req[p].at
                                /\ req[p].pc \in {"await", "done"}
      BY <1>1, <2>1, <2>3 DEF BlobInv, OfferedIsNewer
    <3>2. QED
      BY <1>1, <3>1
  <2>4. CASE j = k
    <3> DEFINE h == req[k].hash
    <3>1. PICK v \in Newest(Found(h, Relays)) : ~v.deleted
      BY <1>1, <2>1, <2>4
    <3>2. v \in Found(h, Relays) /\ h \in Hashes
      BY <2>2, <2>4 DEF Newest
    <3>3. PICK r \in Relays : v = rel[r][h] /\ v # NoVersion
      BY <1>1, <3>2, FoundIsSpoken
    <3>4. Spoken(h)
      BY <1>1, <3>2, FoundIsSpoken
    <3>5. PICK p \in Requests : IsPost(p, h) /\ v.at = req[p].at
      BY <3>1, <3>2, <3>3 DEF BlobInv, LiveIsUpload
    <3>6. req[p].pc \in {"await", "done"}
      BY <3>2, <3>4, <3>5 DEF BlobInv, SpokenIsPublished
    <3>7. req[d].op = "delete" /\ req[d].code = 200 /\ req[d].hash = h
      BY <2>1, <2>4 DEF BlobInv, AfterAcked
    <3>8. PICK q \in Relays : rel[q][h] # NoVersion /\ req[d].at <= rel[q][h].at
      BY <2>2, <3>7 DEF BlobInv, Recorded
    <3>9. rel[q][h] \in Found(h, Relays)
      BY <3>8 DEF Found
    <3>10. rel[q][h].at <= v.at
      BY <3>1, <3>9 DEF Newest
    <3>11. req[d].at \in Nat /\ v.at \in Nat /\ rel[q][h].at \in Nat
      <4>1. req[d].at \in Times /\ v.at \in Times
        BY <1>1, <2>2, <3>5 DEF TypeOK
      <4>2. rel[q][h] \in Version
        BY <1>1, <3>2, <3>8 DEF TypeOK
      <4>3. QED
        BY <4>1, <4>2, BlobApiAssumption DEF Version, Times
    <3>12. req[d].at <= req[p].at
      BY <3>5, <3>8, <3>10, <3>11
    <3>13. QED
      BY <1>1, <2>4, <3>5, <3>6, <3>12
  <2>5. QED
    BY <2>3, <2>4
<1>13. QED
  BY <1>5, <1>6, <1>7, <1>8, <1>9, <1>10, <1>11, <1>12 DEF BlobInv

LEMMA ResolveKeeps == ASSUME BlobInv, NEW k \in Requests, Resolve(k) PROVE BlobInv'
<1> DEFINE h == req[k].hash
<1>1. /\ req[k].pc = "resolve" /\ h \in Hashes /\ TypeOK
      /\ UNCHANGED <<now, blob, rel, msgs>>
  BY DEF Resolve, BlobInv, TypeOK
<1>2. PICK reached \in SUBSET Relays :
        \/ /\ Found(h, reached) = {}
           /\ AnswerFrom(k, reached, 404)
        \/ \E v \in Newest(Found(h, reached)) :
             IF req[k].op = "delete"
             THEN req' = [req EXCEPT ![k].pc = "publish"]
             ELSE \E code \in CodesFor(req[k].op, v, blob[h]) : AnswerFrom(k, reached, code)
  BY DEF Resolve
<1>3. CASE AnswerFrom(k, reached, 404)
  BY <1>1, <1>3, LookupKeeps DEF Codes
<1>4. ASSUME NEW v \in Newest(Found(h, reached)), req[k].op = "delete",
             req' = [req EXCEPT ![k].pc = "publish"]
      PROVE  BlobInv'
  <2>1. Spoken(h)
    BY <1>1, <1>4, FoundIsSpoken DEF Newest
  <2>2. QED
    BY <1>1, <1>4, <2>1, DeleteGoesOnKeeps
<1>5. ASSUME NEW v \in Newest(Found(h, reached)), req[k].op # "delete",
             NEW code \in CodesFor(req[k].op, v, blob[h]), AnswerFrom(k, reached, code)
      PROVE  BlobInv'
  <2>1. code \in Codes /\ code # 201 /\ (code = 200 => ~v.deleted)
    BY DEF CodesFor, Codes
  <2>2. QED
    BY <1>1, <1>5, <2>1, LookupKeeps
<1>6. QED
  BY <1>2, <1>3, <1>4, <1>5

LEMMA PublishKeeps == ASSUME BlobInv, NEW k \in Requests, Publish(k) PROVE BlobInv'
<1> DEFINE h == req[k].hash
<1>1. /\ TypeOK /\ req' \in [Requests -> Request]
      /\ \A j \in Requests : /\ req'[j].op = req[j].op /\ req'[j].hash = req[j].hash
                             /\ req'[j].code = req[j].code /\ req'[j].after = req[j].after
                             /\ req'[j].heard = req[j].heard
      /\ \A j \in Requests \ {k} : req'[j] = req[j]
      /\ req'[k].pc = "await" /\ req'[k].at = now
  BY PublishWrites DEF BlobInv, Others
<1>2. /\ msgs' \subseteq Msg /\ msgs \subseteq msgs'
      /\ \A m \in msgs' \ msgs : /\ m.req = k /\ m.hash = h /\ m.at = now
                                 /\ m.deleted <=> req[k].op = "delete"
  BY <1>1, PublishSends
<1>3. req[k].pc = "publish" /\ UNCHANGED <<now, blob, rel>>
  BY DEF Publish
<1>4. req[k].op \in {"post", "delete"} /\ req[k].code = 0 /\ h \in Hashes
  BY <1>1, <1>3 DEF BlobInv, Phases, TypeOK
<1>5. \A j \in Requests, g \in Hashes : IsPost(j, g)' <=> IsPost(j, g)
  BY <1>1 DEF IsPost
<1>6. \A g \in Hashes : Spoken(g)' => Spoken(g) \/ g = h
  <2>1. SUFFICES ASSUME NEW g \in Hashes, g # h, Spoken(g)' PROVE Spoken(g)
    OBVIOUS
  <2>2. \A m \in msgs' : m.hash = g => m \in msgs
    BY <1>2, <2>1
  <2>3. QED
    BY <1>1, <1>3, <2>1, <2>2 DEF Spoken
(* The upload that publishes has not been spoken of before. *)
<1>7. req[k].op = "post" => ~Spoken(h)
  BY <1>3, <1>4 DEF BlobInv, SpokenIsPublished, IsPost
<1>8. TypeOK'
  BY <1>1, <1>2, <1>3 DEF TypeOK, Request
<1>9. Phases'
  <2>1. now <= now
    BY <1>1, BlobApiAssumption DEF TypeOK, Times
  <2>2. QED
    BY <1>1, <1>3, <1>4, <2>1 DEF BlobInv, Phases
<1>10. OneUpload'
  BY <1>5 DEF BlobInv, OneUpload
<1>11. MessagesTold'
  <2>1. ASSUME NEW m \in msgs
        PROVE  /\ m.hash = req'[m.req].hash /\ m.at = req'[m.req].at
               /\ m.deleted <=> req'[m.req].op = "delete"
               /\ req'[m.req].op \in {"post", "delete"}
               /\ req'[m.req].pc \in {"await", "done"}
    <3>1. m.req \in Requests /\ m.req # k
      BY <1>1, <1>3 DEF BlobInv, MessagesTold, TypeOK, Msg
    <3>2. QED
      BY <1>1, <3>1 DEF BlobInv, MessagesTold
  <2>2. QED
    BY <1>1, <1>2, <1>4, <2>1 DEF MessagesTold
<1>12. UploadFirst'
  <2>1. \A g \in Hashes : Uploaded(g)' <=> Uploaded(g)
    BY <1>1 DEF Uploaded
  <2>2. QED
    BY <1>1, <1>3, <2>1 DEF BlobInv, UploadFirst
<1>13. SpokenIsPublished'
  <2>1. SUFFICES ASSUME NEW g \in Hashes, Spoken(g) \/ g = h
                 PROVE  /\ blob[g] = "whole"
                        /\ \A p \in Requests : IsPost(p, g) => req'[p].pc \in {"await", "done"}
    BY <1>3, <1>5, <1>6 DEF SpokenIsPublished
  <2>2. CASE Spoken(g)
    BY <1>1, <2>2 DEF BlobInv, SpokenIsPublished
  <2>3. CASE g = h /\ req[k].op = "post"
    <3>1. blob[h] = "whole"
      BY <1>3, <2>3 DEF BlobInv, UploadFirst
    <3>2. \A p \in Requests : IsPost(p, h) => p = k
      BY <1>4, <2>3 DEF BlobInv, OneUpload, IsPost
    <3>3. QED
      BY <1>1, <2>3, <3>1, <3>2
  <2>4. CASE g = h /\ req[k].op = "delete"
    <3>1. Spoken(h)
      BY <1>3, <2>4 DEF Spoken
    <3>2. QED
      BY <2>2, <2>4, <3>1
  <2>5. QED
    BY <1>4, <2>1, <2>2, <2>3, <2>4
<1>14. LiveIsUpload'
  <2>1. SUFFICES ASSUME NEW r \in Relays, NEW g \in Hashes,
                        rel[r][g] # NoVersion, ~rel[r][g].deleted
                 PROVE  \E p \in Requests : IsPost(p, g) /\ rel[r][g].at = req'[p].at
    BY <1>3, <1>5 DEF LiveIsUpload
  <2>2. PICK p \in Requests : IsPost(p, g) /\ rel[r][g].at = req[p].at
    BY <2>1 DEF BlobInv, LiveIsUpload
  <2>3. Spoken(g)
    BY <2>1 DEF Spoken
  <2>4. p # k
    BY <1>3, <2>2, <2>3 DEF BlobInv, SpokenIsPublished
  <2>5. QED
    BY <1>1, <2>2, <2>4
<1>15. TombstonesNewer'
  <2>1. SUFFICES ASSUME NEW g \in Hashes, NEW p \in Requests, IsPost(p, g)
                 PROVE  /\ \A r \in Relays : rel[r][g] # NoVersion /\ rel[r][g].deleted
                                                 => req'[p].at <= rel[r][g].at
                        /\ \A m \in msgs' : m.hash = g /\ m.deleted => req'[p].at <= m.at
    BY <1>3, <1>5 DEF TombstonesNewer
  <2>2. /\ \A r \in Relays : rel[r][g] # NoVersion /\ rel[r][g].deleted
                                => req[p].at <= rel[r][g].at
        /\ \A m \in msgs : m.hash = g /\ m.deleted => req[p].at <= m.at
    BY <2>1 DEF BlobInv, TombstonesNewer
  <2>3. CASE p # k
    <3>1. req'[p].at = req[p].at /\ req[p].at <= now
      BY <1>1, <2>3 DEF BlobInv, Phases
    <3>2. \A m \in msgs' \ msgs : req'[p].at <= m.at
      BY <1>2, <3>1
    <3>3. QED
      BY <2>2, <3>1, <3>2
  <2>4. CASE p = k
    <3>1. req[k].op = "post" /\ g = h
      BY <2>1, <2>4 DEF IsPost
    <3>2. /\ \A r \in Relays : rel[r][g] = NoVersion
          /\ \A m \in msgs : m.hash # g
      BY <1>7, <3>1 DEF Spoken
    <3>3. \A m \in msgs' \ msgs : ~m.deleted
      BY <1>2, <3>1
    <3>4. QED
      BY <3>2, <3>3
  <2>5. QED
    BY <2>3, <2>4
<1>16. Recorded'
  BY <1>1, <1>3, <1>4 DEF BlobInv, Recorded
<1>17. AfterAcked'
  <2>1. \A j \in Requests : req[j].after \subseteq Requests
    BY <1>1 DEF TypeOK
  <2>2. QED
    BY <1>1, <2>1 DEF BlobInv, AfterAcked
<1>18. OfferedIsNewer'
  <2>1. SUFFICES ASSUME NEW j \in Requests, NEW d \in req[j].after,
                        req[j].op \in {"get", "download"}, req[j].heard = Relays,
                        req[j].code = 200
                 PROVE  \E p \in Requests : /\ IsPost(p, req[j].hash)' /\ req'[d].at <= req'[p].at
                                            /\ req'[p].pc \in {"await", "done"}
    BY <1>1 DEF OfferedIsNewer
  <2>2. PICK p \in Requests : /\ IsPost(p, req[j].hash) /\ req[d].at <= req[p].at
                              /\ req[p].pc \in {"await", "done"}
    BY <2>1 DEF BlobInv, OfferedIsNewer
  <2>3. d \in Requests /\ req[j].hash \in Hashes
    BY <1>1 DEF TypeOK
  <2>4. d # k /\ p # k
    BY <1>3, <1>4, <2>1, <2>2 DEF BlobInv, AfterAcked
  <2>5. QED
    BY <1>1, <1>5, <2>2, <2>3, <2>4
<1>19. QED
  BY <1>8, <1>9, <1>10, <1>11, <1>12, <1>13, <1>14, <1>15, <1>16, <1>17, <1>18 DEF BlobInv

(* What acceptance does to the request: nothing if it is settled already.  *)
LEMMA AcceptedSettles ==
    ASSUME BlobInv, NEW m \in msgs, Accepted(m)
    PROVE  /\ m \in Msg /\ req[m.req].op \in {"post", "delete"}
           /\ req' \in [Requests -> Request]
           /\ \A j \in Requests : /\ req'[j].op = req[j].op /\ req'[j].hash = req[j].hash
                                  /\ req'[j].at = req[j].at /\ req'[j].after = req[j].after
                                  /\ req'[j].heard = req[j].heard
           /\ \A j \in Requests :
                 \/ req'[j] = req[j]
                 \/ /\ j = m.req /\ req[j].pc = "await" /\ req'[j].pc = "done"
                    /\ req'[j].code = Success(j)
<1>1. TypeOK /\ m \in Msg /\ m.req \in Requests /\ req \in [Requests -> Request]
  BY DEF BlobInv, TypeOK, Msg, Request
<1>2. req[m.req].op \in {"post", "delete"}
  BY DEF BlobInv, MessagesTold
<1>3. CASE req[m.req].pc = "await"
  <2>1. Success(m.req) \in Codes
    BY DEF Success, Codes
  <2>2. Answer(m.req, Success(m.req))
    BY <1>3 DEF Accepted
  <2>3. QED
    BY <1>1, <1>2, <1>3, <2>1, <2>2, AnswerWrites DEF Others
<1>4. CASE req[m.req].pc # "await"
  BY <1>1, <1>2, <1>4 DEF Accepted
<1>5. QED
  BY <1>3, <1>4

LEMMA AcceptedKeeps == ASSUME BlobInv, NEW m \in msgs, Accepted(m) PROVE BlobInv'
<1> DEFINE k == m.req
<1>1. /\ TypeOK /\ m \in Msg /\ req' \in [Requests -> Request]
      /\ \A j \in Requests : /\ req'[j].op = req[j].op /\ req'[j].hash = req[j].hash
                             /\ req'[j].at = req[j].at /\ req'[j].after = req[j].after
                             /\ req'[j].heard = req[j].heard
      /\ \A j \in Requests :
            \/ req'[j] = req[j]
            \/ /\ j = k /\ req[j].pc = "await" /\ req'[j].pc = "done"
               /\ req'[j].code = Success(j)
  BY AcceptedSettles DEF BlobInv
<1>2. /\ m.hash = req[k].hash /\ m.at = req[k].at /\ k \in Requests
      /\ m.deleted <=> req[k].op = "delete"
      /\ req[k].op \in {"post", "delete"} /\ req[k].pc \in {"await", "done"}
  BY <1>1 DEF BlobInv, MessagesTold, Msg
<1>3. /\ rel' \in [Relays -> [Hashes -> Version \cup {NoVersion}]]
      /\ \A r \in Relays, h \in Hashes : r # m.relay \/ h # m.hash => rel'[r][h] = rel[r][h]
      /\ rel'[m.relay][m.hash] # NoVersion
      /\ m.at <= rel'[m.relay][m.hash].at
      /\ \/ rel'[m.relay][m.hash] = rel[m.relay][m.hash]
         \/ /\ rel'[m.relay][m.hash].at = m.at
            /\ rel'[m.relay][m.hash].deleted = m.deleted
            /\ rel[m.relay][m.hash] = NoVersion \/ rel[m.relay][m.hash].at < m.at
  BY <1>1, AcceptedWrites
<1>4. UNCHANGED <<now, blob>> /\ msgs' \subseteq msgs
  BY DEF Accepted
<1>5. \A j \in Requests, h \in Hashes : IsPost(j, h)' <=> IsPost(j, h)
  BY <1>1 DEF IsPost
<1>6. \A h \in Hashes : (Uploaded(h)' <=> Uploaded(h)) /\ (Spoken(h)' => Spoken(h))
  <2>1. \A h \in Hashes : Uploaded(h)' <=> Uploaded(h)
    BY <1>1 DEF Uploaded
  <2>2. ASSUME NEW h \in Hashes, Spoken(h)' PROVE Spoken(h)
    <3>1. CASE h = m.hash
      BY <3>1 DEF Spoken
    <3>2. CASE h # m.hash
      BY <1>1, <1>3, <1>4, <2>2, <3>2 DEF Spoken
    <3>3. QED
      BY <3>1, <3>2
  <2>3. QED
    BY <2>1, <2>2
<1>7. TypeOK'
  BY <1>1, <1>3, <1>4 DEF TypeOK, Request
<1>8. Phases' /\ OneUpload'
  <2>1. Phases'
    BY <1>1, <1>2, <1>4 DEF BlobInv, Phases, Success
  <2>2. OneUpload'
    BY <1>5 DEF BlobInv, OneUpload
  <2>3. QED
    BY <2>1, <2>2
<1>9. MessagesTold'
  BY <1>1, <1>4 DEF BlobInv, MessagesTold, TypeOK, Msg
<1>10. UploadFirst'
  BY <1>1, <1>4, <1>6 DEF BlobInv, UploadFirst
<1>11. SpokenIsPublished'
  BY <1>1, <1>4, <1>5, <1>6 DEF BlobInv, SpokenIsPublished
<1>12. LiveIsUpload'
  <2>1. SUFFICES ASSUME NEW r \in Relays, NEW h \in Hashes,
                        rel'[r][h] # NoVersion, ~rel'[r][h].deleted
                 PROVE  \E p \in Requests : IsPost(p, h) /\ rel'[r][h].at = req[p].at
    BY <1>1, <1>5 DEF LiveIsUpload
  <2>2. CASE rel'[r][h] = rel[r][h]
    BY <2>1, <2>2 DEF BlobInv, LiveIsUpload
  <2>3. CASE rel'[r][h] # rel[r][h]
    <3>1. h = m.hash /\ rel'[r][h].at = m.at /\ rel'[r][h].deleted = m.deleted
      BY <1>3, <2>3
    <3>2. IsPost(k, h)
      BY <1>2, <2>1, <3>1 DEF IsPost
    <3>3. QED
      BY <1>2, <3>1, <3>2
  <2>4. QED
    BY <2>2, <2>3
<1>13. TombstonesNewer'
  <2>1. SUFFICES ASSUME NEW h \in Hashes, NEW p \in Requests, IsPost(p, h)
                 PROVE  /\ \A r \in Relays : rel'[r][h] # NoVersion /\ rel'[r][h].deleted
                                                 => req[p].at <= rel'[r][h].at
                        /\ \A n \in msgs' : n.hash = h /\ n.deleted => req[p].at <= n.at
    BY <1>1, <1>5 DEF TombstonesNewer
  <2>2. /\ \A r \in Relays : rel[r][h] # NoVersion /\ rel[r][h].deleted
                                => req[p].at <= rel[r][h].at
        /\ \A n \in msgs : n.hash = h /\ n.deleted => req[p].at <= n.at
    BY <2>1 DEF BlobInv, TombstonesNewer
  <2>3. ASSUME NEW r \in Relays, rel'[r][h] # NoVersion, rel'[r][h].deleted
        PROVE  req[p].at <= rel'[r][h].at
    <3>1. CASE rel'[r][h] = rel[r][h]
      BY <2>2, <2>3, <3>1
    <3>2. CASE rel'[r][h] # rel[r][h]
      <4>1. h = m.hash /\ rel'[r][h].at = m.at /\ rel'[r][h].deleted = m.deleted
        BY <1>3, <3>2
      <4>2. QED
        BY <2>2, <2>3, <4>1
    <3>3. QED
      BY <3>1, <3>2
  <2>4. QED
    BY <1>4, <2>2, <2>3
<1>14. Recorded'
  <2>1. SUFFICES ASSUME NEW j \in Requests,
                        req'[j].code = 201 \/ (req[j].op = "delete" /\ req'[j].code = 200)
                 PROVE  \E r \in Relays : /\ rel'[r][req[j].hash] # NoVersion
                                          /\ req[j].at <= rel'[r][req[j].hash].at
    BY <1>1 DEF Recorded
  <2>2. CASE req'[j] # req[j]
    BY <1>1, <1>2, <1>3, <2>2 DEF Msg
  <2>3. CASE req'[j] = req[j]
    <3> DEFINE h == req[j].hash
    <3>1. PICK r \in Relays : rel[r][h] # NoVersion /\ req[j].at <= rel[r][h].at
      BY <2>1, <2>3 DEF BlobInv, Recorded
    <3>2. CASE rel'[r][h] = rel[r][h]
      BY <3>1, <3>2
    <3>3. CASE rel'[r][h] # rel[r][h]
      <4>1. h \in Hashes /\ req[j].at \in Times /\ rel[r][h] \in Version
        BY <1>1, <3>1 DEF TypeOK
      <4>2. /\ r = m.relay /\ h = m.hash
            /\ rel'[r][h].at = m.at /\ rel[r][h].at < m.at /\ rel'[r][h] # NoVersion
        BY <1>3, <3>1, <3>3, <4>1
      <4>3. req[j].at \in Nat /\ rel[r][h].at \in Nat /\ m.at \in Nat
        BY <1>1, <4>1, BlobApiAssumption DEF Version, Times, Msg
      <4>4. req[j].at <= m.at
        BY <3>1, <4>2, <4>3
      <4>5. QED
        BY <4>2, <4>4
    <3>4. QED
      BY <3>2, <3>3
  <2>4. QED
    BY <2>2, <2>3
<1>15. AfterAcked'
  <2>1. \A j \in Requests : req[j].after \subseteq Requests
    BY <1>1 DEF TypeOK
  <2>2. \A d \in Requests : req[d].code = 200 => req'[d].code = 200
    BY <1>1 DEF BlobInv, Phases
  <2>3. QED
    BY <1>1, <2>1, <2>2 DEF BlobInv, AfterAcked
<1>16. OfferedIsNewer'
  <2>1. SUFFICES ASSUME NEW j \in Requests, NEW d \in req[j].after,
                        req[j].op \in {"get", "download"}, req[j].heard = Relays,
                        req[j].code = 200
                 PROVE  \E p \in Requests : /\ IsPost(p, req[j].hash)' /\ req'[d].at <= req'[p].at
                                            /\ req'[p].pc \in {"await", "done"}
    BY <1>1, <1>2 DEF OfferedIsNewer
  <2>2. PICK p \in Requests : /\ IsPost(p, req[j].hash) /\ req[d].at <= req[p].at
                              /\ req[p].pc \in {"await", "done"}
    BY <2>1 DEF BlobInv, OfferedIsNewer
  <2>3. d \in Requests /\ req[j].hash \in Hashes
    BY <1>1 DEF TypeOK
  <2>4. req'[p].pc \in {"await", "done"}
    BY <1>1, <2>2
  <2>5. QED
    BY <1>1, <1>5, <2>2, <2>3, <2>4
<1>17. QED
  BY <1>7, <1>8, <1>9, <1>10, <1>11, <1>12, <1>13, <1>14, <1>15, <1>16 DEF BlobInv

(* A message is refused or lost; the last one ends its request with 500. *)
LEMMA FewerMessagesKeep ==
    ASSUME BlobInv, msgs' \subseteq msgs, UNCHANGED <<now, blob, rel, req>>
    PROVE  BlobInv'
<1>1. TypeOK' /\ Phases' /\ OneUpload' /\ MessagesTold' /\ UploadFirst'
  BY DEF BlobInv, TypeOK, Phases, OneUpload, MessagesTold, UploadFirst, IsPost, Uploaded
<1>2. SpokenIsPublished'
  BY DEF BlobInv, SpokenIsPublished, Spoken, IsPost
<1>3. LiveIsUpload' /\ TombstonesNewer' /\ Recorded' /\ AfterAcked' /\ OfferedIsNewer'
  BY DEF BlobInv, LiveIsUpload, TombstonesNewer, Recorded, AfterAcked, OfferedIsNewer, IsPost
<1>4. QED
  BY <1>1, <1>2, <1>3 DEF BlobInv

LEMMA BlobStep == BlobInv /\ [Next]_vars => BlobInv'
<1>. SUFFICES ASSUME BlobInv, [Next]_vars PROVE BlobInv'
  OBVIOUS
<1>0. TypeOK /\ 0 \in Codes /\ 500 \in Codes
  BY DEF BlobInv, Codes
<1>1. CASE Tick
  BY <1>1, TickKeeps
<1>2. ASSUME NEW k \in Requests, NEW h \in Hashes, BeginPost(k, h) PROVE BlobInv'
  BY <1>2, BeginPostKeeps
<1>3. ASSUME NEW k \in Requests, NEW op \in Ops, NEW h \in Hashes, BeginLookup(k, op, h)
      PROVE  BlobInv'
  BY <1>3, BeginLookupKeeps
<1>4. ASSUME NEW k \in Requests, Upload(k) PROVE BlobInv'
  BY <1>4, UploadKeeps
<1>5. ASSUME NEW k \in Requests, UploadFails(k) PROVE BlobInv'
  <2>1. /\ req[k].pc = "upload" /\ Answer(k, 500) /\ UNCHANGED <<now, rel, msgs>>
        /\ blob' \in [Hashes -> {"none", "partial", "whole"}]
        /\ \A h \in Hashes : h # req[k].hash => blob'[h] = blob[h]
    BY <1>0, <1>5 DEF UploadFails, AfterUploadFailed, TypeOK
  <2>2. QED
    BY <1>0, <2>1, EndedKeeps
<1>6. ASSUME NEW k \in Requests, Publish(k) PROVE BlobInv'
  BY <1>6, PublishKeeps
<1>7. ASSUME NEW k \in Requests, PublishTimesOut(k) PROVE BlobInv'
  <2>1. /\ req[k].pc = "await" /\ Answer(k, 500) /\ UNCHANGED <<now, blob, rel, msgs>>
    BY <1>7 DEF PublishTimesOut, CodeAllRejected
  <2>2. blob' \in [Hashes -> {"none", "partial", "whole"}]
    BY <1>0, <2>1 DEF TypeOK
  <2>3. QED
    BY <1>0, <2>1, <2>2, EndedKeeps
<1>8. ASSUME NEW k \in Requests, Resolve(k) PROVE BlobInv'
  BY <1>8, ResolveKeeps
<1>9. ASSUME NEW k \in Requests, RequestDies(k) PROVE BlobInv'
  <2>1. /\ req[k].pc \notin {"new", "done"} /\ Answer(k, 0)
        /\ UNCHANGED <<now, blob, rel, msgs>>
    BY <1>9 DEF RequestDies
  <2>2. blob' \in [Hashes -> {"none", "partial", "whole"}]
    BY <1>0, <2>1 DEF TypeOK
  <2>3. QED
    BY <1>0, <2>1, <2>2, EndedKeeps
<1>10. ASSUME NEW m \in msgs, Accepted(m) PROVE BlobInv'
  BY <1>10, AcceptedKeeps
<1>11. ASSUME NEW m \in msgs, Rejected(m) PROVE BlobInv'
  <2>1. m.req \in Requests /\ msgs' \subseteq msgs /\ UNCHANGED <<now, blob, rel>>
    BY <1>0, <1>11 DEF Rejected, TypeOK, Msg
  <2>2. blob' \in [Hashes -> {"none", "partial", "whole"}]
    BY <1>0, <2>1 DEF TypeOK
  <2>3. CASE req[m.req].pc = "await" /\ Answer(m.req, 500)
    BY <1>0, <2>1, <2>2, <2>3, EndedKeeps
  <2>4. CASE UNCHANGED req
    BY <2>1, <2>4, FewerMessagesKeep
  <2>5. QED
    BY <1>11, <2>3, <2>4 DEF Rejected, CodeAllRejected
<1>12. CASE UNCHANGED vars
  BY <1>12, FewerMessagesKeep DEF vars
<1>13. QED
  BY <1>1, <1>2, <1>3, <1>4, <1>5, <1>6, <1>7, <1>8, <1>9, <1>10, <1>11, <1>12 DEF Next

LEMMA BlobInvariance == Spec => []BlobInv
BY BlobInit, BlobStep, PTL DEF Spec

-----------------------------------------------------------------------------
(* Results. *)

(* Every variable keeps to its domain. *)
THEOREM BlobTypeOK == Spec => []TypeOK
<1>1. BlobInv => TypeOK
  BY DEF BlobInv
<1>2. QED
  BY <1>1, BlobInvariance, PTL

(* Metadata never dangles: whatever fails, a version on a relay or on its  *)
(* way to one describes a file that is whole in Blossom, since nothing     *)
(* writes the file again once its upload has been published.               *)
THEOREM BlobMetadataHasBlob == Spec => []MetadataHasBlob
<1>1. BlobInv => MetadataHasBlob
  BY DEF BlobInv, SpokenIsPublished, Spoken, MetadataHasBlob
<1>2. QED
  BY <1>1, BlobInvariance, PTL

(* What was answered 201, or 200 to a deletion in a later second than the  *)
(* upload, is on some relay, and in the second case as a tombstone.        *)
THEOREM BlobAckedIsRecorded == Spec => []AckedIsRecorded
<1>1. ASSUME BlobInv PROVE AckedIsRecorded
  <2>1. SUFFICES ASSUME NEW k \in Requests, req[k].op = "delete", req[k].code = 200,
                        \A t \in At("post", req[k].hash) : t < req[k].at
                 PROVE  \E r \in Relays : /\ rel[r][req[k].hash] # NoVersion
                                          /\ rel[r][req[k].hash].deleted
    BY <1>1 DEF AckedIsRecorded, BlobInv, Recorded
  <2> DEFINE h == req[k].hash
  <2>2. PICK r \in Relays : rel[r][h] # NoVersion /\ req[k].at <= rel[r][h].at
    BY <1>1, <2>1 DEF BlobInv, Recorded
  <2>3. h \in Hashes /\ req[k].at \in Times
    BY <1>1 DEF BlobInv, TypeOK
  <2>4. ASSUME NEW p \in Requests, IsPost(p, h), rel[r][h].at = req[p].at PROVE FALSE
    <3>1. req[p].at \in At("post", h)
      BY <2>4 DEF At, IsPost
    <3>2. req[p].at \in Nat /\ req[k].at \in Nat
      BY <1>1, <2>3, BlobApiAssumption DEF BlobInv, TypeOK, Times
    <3>3. QED
      BY <2>1, <2>2, <2>4, <3>1, <3>2
  <2>5. QED
    BY <1>1, <2>2, <2>3, <2>4 DEF BlobInv, LiveIsUpload
<1>2. BlobInv => AckedIsRecorded
  BY <1>1
<1>3. QED
  BY <1>2, BlobInvariance, PTL

(* An acknowledged deletion, in a later second than the upload, is seen by *)
(* every later request that hears all relays.                              *)
THEOREM BlobDeletionSeen == Spec => []DeletionSeen
<1>1. ASSUME BlobInv PROVE DeletionSeen
  <2>1. SUFFICES ASSUME NEW k \in Requests, NEW d \in req[k].after,
                        req[k].op \in {"get", "download"}, req[k].heard = Relays,
                        \A t \in At("post", req[k].hash) : t < req[d].at,
                        req[k].code = 200
                 PROVE  FALSE
    BY DEF DeletionSeen
  <2>2. PICK p \in Requests : IsPost(p, req[k].hash) /\ req[d].at <= req[p].at
    BY <1>1, <2>1 DEF BlobInv, OfferedIsNewer
  <2>3. req[p].at \in At("post", req[k].hash)
    BY <2>2 DEF At, IsPost
  <2>4. d \in Requests /\ req[p].at \in Nat /\ req[d].at \in Nat
    BY <1>1, BlobApiAssumption DEF BlobInv, TypeOK, Times
  <2>5. QED
    BY <2>1, <2>2, <2>3, <2>4
<1>2. BlobInv => DeletionSeen
  BY <1>1
<1>3. QED
  BY <1>2, BlobInvariance, PTL

(* No step turns a tombstone back into a live version: the upload's event  *)
(* is never newer than the deletion's.                                     *)
THEOREM BlobTombstonesStay == Spec => TombstonesStay
<1>1. ASSUME BlobInv, [Next]_vars, NEW r \in Relays, NEW h \in Hashes,
             rel[r][h] # NoVersion, rel[r][h].deleted
      PROVE  rel'[r][h].deleted
  <2>1. TypeOK
    BY <1>1 DEF BlobInv
  <2>2. ASSUME NEW m \in msgs, Accepted(m) PROVE rel'[r][h].deleted
    <3>1. CASE rel'[r][h] = rel[r][h]
      BY <1>1, <3>1
    <3>2. CASE rel'[r][h] # rel[r][h]
      <4>1. /\ r = m.relay /\ h = m.hash /\ m \in Msg
            /\ rel'[r][h].deleted = m.deleted /\ rel[r][h].at < m.at
        BY <1>1, <2>1, <2>2, <3>2, AcceptedWrites
      <4>2. CASE m.deleted
        BY <4>1, <4>2
      <4>3. CASE ~m.deleted
        <5>1. IsPost(m.req, h) /\ m.req \in Requests /\ m.at = req[m.req].at
          BY <1>1, <4>1, <4>3 DEF BlobInv, MessagesTold, IsPost, Msg
        <5>2. m.at <= rel[r][h].at
          BY <1>1, <5>1 DEF BlobInv, TombstonesNewer
        <5>3. m.at \in Nat /\ rel[r][h].at \in Nat
          BY <1>1, <2>1, <4>1, BlobApiAssumption DEF Msg, TypeOK, Version, Times
        <5>4. QED
          BY <4>1, <5>2, <5>3
      <4>4. QED
        BY <4>2, <4>3
    <3>3. QED
      BY <3>1, <3>2
  <2>3. ASSUME ~(\E m \in msgs : Accepted(m)) PROVE rel' = rel
    BY <1>1, <2>3 DEF Next, vars, Tick, BeginPost, BeginLookup, Upload, UploadFails, Publish,
                      PublishTimesOut, Resolve, RequestDies, Rejected
  <2>4. QED
    BY <1>1, <2>2, <2>3
<1>2. BlobInv /\ [Next]_vars
        => [\A r \in Relays, h \in Hashes :
               rel[r][h] # NoVersion /\ rel[r][h].deleted => rel'[r][h].deleted]_vars
  BY <1>1
<1>3. QED
  BY <1>2, BlobInvariance, PTL DEF Spec, TombstonesStay
=============================================================================
