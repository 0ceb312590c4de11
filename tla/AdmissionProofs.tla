---------------------------- MODULE AdmissionProofs ----------------------------
(***************************************************************************)
(* Theorems about connections, authentication and the admission of events, *)
(* for any clients, messages, events, settings files and bounds.           *)
(***************************************************************************)
EXTENDS Admission, TLAPS

(* What a settings() call may return. *)
Stated == Versions \cup Partial \cup {Default}

(* The clock, the connection and the settings a message has met are there  *)
(* to judge it; what it carries is what a client can send.                 *)
Tracked(m) ==
    /\ msg[m].conn \in Conns
    /\ msg[m].since <= now
    /\ InForce \subseteq seen[m]
    /\ msg[m].type \in {"EVENT", "AUTH"} => msg[m].event \in Events \cup AuthEvents
    /\ msg[m].type = "AUTH" => msg[m].answer \in 1..issued
    /\ msg[m].stage # "limiting" => msg[m].type \in {"EVENT", "AUTH"}

(* The client has authenticated, or need not have. *)
Known(m) ==
    conn[msg[m].conn].authenticated \/ \E v \in seen[m] : ~Setting[v].authentication

(* An EVENT past its first await was let through by isAuthenticationRequired. *)
Cleared(m) == msg[m].type = "EVENT" /\ msg[m].stage # "limiting" => Known(m)

Acceptable(m, v) ==
    v \in seen[m] /\ \E t \in msg[m].since..now : CanAccept(msg[m].event, v, t)

Payable(m, v) == NeedsAdmission(msg[m].event, v) => HasPaid(msg[m].event, v)

(* An event waiting for its author's row was accepted under the terms the  *)
(* row will be judged by, or under the defaults, which ask for none.       *)
Judged(m) ==
    msg[m].stage = "lookup" =>
        \E v \in Stated : Acceptable(m, v) /\ v \in {msg[m].terms, Default}

Accepted(m) ==
    msg[m].stage = "execute" => \E v \in Stated : Acceptable(m, v) /\ Payable(m, v)

MessagesSound ==
    \A m \in Msgs : ~Free(m) => Tracked(m) /\ Cleared(m) /\ Judged(m) /\ Accepted(m)

(* A challenge is sent on one connection. *)
SentOnce ==
    \A c, d \in Conns : /\ sentOn[c] \subseteq 1..issued
                        /\ c # d => sentOn[c] \cap sentOn[d] = {}

(* The challenge a connection waits for was sent on it and not answered. *)
CurrentIsUnused ==
    \A c \in Conns : conn[c].challenge # 0 =>
        conn[c].challenge \in sentOn[c] /\ uses[c][conn[c].challenge] = 0

(* What has authenticated a connection was sent on it. *)
UsedIsSent ==
    \A c \in Conns, n \in Challenges : uses[c][n] <= 1 /\ (uses[c][n] > 0 => n \in sentOn[c])

AuthenticatedByUse ==
    \A c \in Conns : conn[c].authenticated => \E n \in sentOn[c] : uses[c][n] > 0

HeardIsAlive == \A c \in Conns : heard[c] => conn[c].alive

AdmissionInv ==
    /\ TypeOK
    /\ MessagesSound
    /\ SentOnce
    /\ CurrentIsUnused
    /\ UsedIsSent
    /\ AuthenticatedByUse
    /\ HeardIsAlive

-----------------------------------------------------------------------------
(* The settings. *)

LEMMA ReadTyped ==
    ASSUME SettingsTypeOK, NEW r \in Reads
    PROVE  /\ r.returned \in Stated /\ r.returned \in InForce
           /\ r.kept \in Stated \cup {None}
           /\ r.kept = None => r.returned = Default
<1>1. r.returned \in InForce
  BY DEF InForce
<1>2. CASE cached # None
  BY <1>1, <1>2 DEF Reads, SettingsTypeOK, Stated
<1>3. CASE cached = None
  <2>1. r \in Loads
    BY <1>3 DEF Reads
  <2>2. CASE torn
    BY <1>1, <2>1, <2>2, SettingsAssumption DEF Loads, Stated
  <2>3. CASE ~torn
    BY <1>1, <2>1, <2>3, SettingsAssumption DEF Loads, SettingsTypeOK, Stated
  <2>4. QED
    BY <2>2, <2>3
<1>4. QED
  BY <1>2, <1>3

LEMMA LoadTyped ==
    ASSUME SettingsTypeOK, NEW r \in Loads
    PROVE  r.kept \in Stated \cup {None}
<1>1. CASE torn
  BY <1>1 DEF Loads, Stated
<1>2. CASE ~torn
  BY <1>2 DEF Loads, SettingsTypeOK, Stated
<1>3. QED
  BY <1>1, <1>2

(* Two calls in a row return the same, unless the first got the defaults.  *)
LEMMA PairTyped ==
    ASSUME SettingsTypeOK, NEW p \in ReadPairs
    PROVE  /\ p[1].returned \in Stated /\ p[1].returned \in InForce
           /\ p[2].returned \in Stated /\ p[2].kept \in Stated \cup {None}
           /\ p[1].returned \in {p[2].returned, Default}
<1>1. /\ p[1] \in Reads /\ (p[2] \in Reads \/ p[2] = [returned |-> file, kept |-> file])
      /\ p[1].kept # None => p[2] = p[1]
  BY DEF ReadPairs
<1>2. /\ p[1].returned \in Stated /\ p[1].returned \in InForce
      /\ p[1].kept = None => p[1].returned = Default
  BY <1>1, ReadTyped
<1>3. p[2].returned \in Stated /\ p[2].kept \in Stated \cup {None}
  <2>1. CASE p[2] \in Reads
    BY <2>1, ReadTyped
  <2>2. CASE p[2] = [returned |-> file, kept |-> file]
    BY <2>2 DEF SettingsTypeOK, Stated
  <2>3. QED
    BY <1>1, <2>1, <2>2
<1>4. p[1].returned \in {p[2].returned, Default}
  BY <1>1, <1>2
<1>5. QED
  BY <1>2, <1>3, <1>4

LEMMA InForceTyped == SettingsTypeOK => InForce \subseteq Stated
BY ReadTyped DEF InForce

(* Whatever the worker reads, its settings stay well-formed. *)
LEMMA ConsultedTyped ==
    ASSUME SettingsTypeOK, UNCHANGED fileVars,
           \/ UNCHANGED cached
           \/ Consulted
           \/ \E r \in Reads : cached' = r.kept
           \/ \E p \in ReadPairs : cached' = p[2].kept
    PROVE  SettingsTypeOK'
<1>1. cached \in Stated \cup {None}
  BY DEF SettingsTypeOK, Stated
<1>2. cached' \in Stated \cup {None}
  BY <1>1, ReadTyped, PairTyped DEF Consulted
<1>3. QED
  BY <1>2 DEF SettingsTypeOK, fileVars, Stated

LEMMA SettingsStepTyped == SettingsTypeOK /\ SettingsNext => SettingsTypeOK'
<1>. SUFFICES ASSUME SettingsTypeOK, SettingsNext PROVE SettingsTypeOK'
  OBVIOUS
<1>1. ASSUME NEW v \in Versions, BeginEdit(v) \/ ReplaceFile(v) PROVE SettingsTypeOK'
  <2>1. edits' \in 0..MaxEdits
    BY <1>1, SettingsAssumption DEF BeginEdit, ReplaceFile, SettingsTypeOK
  <2>2. file' \in Versions /\ torn' \in BOOLEAN /\ cached' = cached
    BY <1>1 DEF BeginEdit, ReplaceFile, SettingsTypeOK
  <2>3. watched' \in BOOLEAN /\ changed' \in BOOLEAN /\ missed' \in BOOLEAN
    BY <1>1 DEF BeginEdit, ReplaceFile, SettingsTypeOK
  <2>4. QED
    BY <2>1, <2>2, <2>3 DEF SettingsTypeOK
<1>2. CASE EndEdit
  BY <1>2 DEF EndEdit, Noticed, SettingsTypeOK
<1>3. CASE Reload
  <2>1. cached' \in Stated \cup {None}
    BY <1>3, LoadTyped DEF Reload
  <2>2. QED
    BY <1>3, <2>1 DEF Reload, SettingsTypeOK, Stated
<1>4. CASE LoadElsewhere
  <2>1. cached' \in Stated \cup {None}
    BY <1>4, LoadTyped DEF LoadElsewhere
  <2>2. QED
    BY <1>4, <2>1 DEF LoadElsewhere, SettingsTypeOK, Stated
<1>5. QED
  BY <1>1, <1>2, <1>3, <1>4 DEF SettingsNext

-----------------------------------------------------------------------------
(* What the steps write. *)

Stages == {"limiting", "validating", "rating", "lookup", "execute"}

LEMMA EndsWrites ==
    ASSUME TypeOK, NEW m \in Msgs, NEW stage \in Ended, Ends(m, stage)
    PROVE  /\ msg' \in [Msgs -> Msg]
           /\ msg'[m].stage = stage /\ Free(m)'
           /\ \A l \in Msgs : l # m => msg'[l] = msg[l]
<1> DEFINE x == [Idle EXCEPT !.stage = stage]
<1>1. x \in Msg /\ x.stage = stage
  BY DEF Msg, Idle, Types
<1>2. msg' = [msg EXCEPT ![m] = x]
  BY DEF Ends
<1> HIDE DEF x
<1>3. QED
  BY <1>1, <1>2 DEF TypeOK, Free

(* The answer of a message is sent if its socket is open. *)
LEMMA AnswerWrites ==
    ASSUME TypeOK, NEW m \in Msgs, Answer(m)
    PROVE  /\ msg' \in [Msgs -> Msg] /\ Free(m)'
           /\ conn[msg[m].conn].state = "open" => msg'[m].stage = "told"
           /\ \A l \in Msgs : l # m => msg'[l] = msg[l]
<1>1. CASE conn[msg[m].conn].state = "open"
  <2>1. Ends(m, "told") /\ "told" \in Ended
    BY <1>1 DEF Answer, Ended
  <2>2. QED
    BY <2>1, EndsWrites
<1>2. CASE conn[msg[m].conn].state # "open"
  <2>1. Ends(m, "unheard") /\ "unheard" \in Ended
    BY <1>2 DEF Answer, Ended
  <2>2. QED
    BY <1>2, <2>1, EndsWrites
<1>3. QED
  BY <1>1, <1>2

LEMMA GoToWrites ==
    ASSUME TypeOK, NEW m \in Msgs, NEW stage \in Stages, GoTo(m, stage)
    PROVE  /\ msg' \in [Msgs -> Msg]
           /\ msg'[m].stage = stage
           /\ msg'[m].conn = msg[m].conn /\ msg'[m].type = msg[m].type
           /\ msg'[m].event = msg[m].event /\ msg'[m].answer = msg[m].answer
           /\ msg'[m].terms = msg[m].terms /\ msg'[m].since = msg[m].since
           /\ \A l \in Msgs : l # m => msg'[l] = msg[l]
<1> DEFINE x == [msg[m] EXCEPT !.stage = stage]
<1>1. msg[m] \in Msg
  BY DEF TypeOK
<1>2. /\ x \in Msg /\ x.stage = stage
      /\ x.conn = msg[m].conn /\ x.type = msg[m].type /\ x.event = msg[m].event
      /\ x.answer = msg[m].answer /\ x.terms = msg[m].terms /\ x.since = msg[m].since
  BY <1>1 DEF Msg, Stages
<1>3. msg' = [msg EXCEPT ![m] = x]
  BY DEF GoTo, TypeOK
<1> HIDE DEF x
<1>4. QED
  BY <1>2, <1>3 DEF TypeOK

(* Judge's third outcome: the message waits for a row, under the terms of  *)
(* the second call.                                                        *)
LEMMA LookupWrites ==
    ASSUME TypeOK, NEW m \in Msgs, NEW v \in Stated,
           msg' = [msg EXCEPT ![m].stage = "lookup", ![m].terms = v]
    PROVE  /\ msg' \in [Msgs -> Msg]
           /\ msg'[m].stage = "lookup" /\ msg'[m].terms = v
           /\ msg'[m].conn = msg[m].conn /\ msg'[m].type = msg[m].type
           /\ msg'[m].event = msg[m].event /\ msg'[m].answer = msg[m].answer
           /\ msg'[m].since = msg[m].since
           /\ \A l \in Msgs : l # m => msg'[l] = msg[l]
<1> DEFINE x == [msg[m] EXCEPT !.stage = "lookup", !.terms = v]
<1>1. msg[m] \in Msg
  BY DEF TypeOK
<1>2. /\ x \in Msg /\ x.stage = "lookup" /\ x.terms = v
      /\ x.conn = msg[m].conn /\ x.type = msg[m].type /\ x.event = msg[m].event
      /\ x.answer = msg[m].answer /\ x.since = msg[m].since
  BY <1>1 DEF Msg, Stated
<1>3. msg' = [msg EXCEPT ![m] = x]
  BY DEF TypeOK
<1> HIDE DEF x
<1>4. QED
  BY <1>2, <1>3 DEF TypeOK

LEMMA ArriveWrites ==
    ASSUME TypeOK, NEW m \in Msgs, NEW c \in Conns, ClientMessage(m, c)
    PROVE  \E type \in Types, e \in Events \cup AuthEvents \cup {NoEvent}, n \in Nat :
              /\ Arrive(m, c, type, e, n)
              /\ msg' \in [Msgs -> Msg]
              /\ msg'[m] = [stage |-> "limiting", conn |-> c, type |-> type, event |-> e,
                            answer |-> n, terms |-> None, since |-> now]
              /\ \A l \in Msgs : l # m => msg'[l] = msg[l]
              /\ type \in {"EVENT", "AUTH"} => e \in Events \cup AuthEvents
              /\ type = "AUTH" => n \in 1..issued
<1>1. PICK type \in Types, e \in Events \cup AuthEvents \cup {NoEvent}, n \in Nat :
          /\ Arrive(m, c, type, e, n)
          /\ type \in {"EVENT", "AUTH"} => e \in Events \cup AuthEvents
          /\ type = "AUTH" => n \in 1..issued
  <2>1. ASSUME NEW e \in Events, Arrive(m, c, "EVENT", e, 0)
        PROVE  \E type \in Types, x \in Events \cup AuthEvents \cup {NoEvent}, n \in Nat :
                  /\ Arrive(m, c, type, x, n)
                  /\ type \in {"EVENT", "AUTH"} => x \in Events \cup AuthEvents
                  /\ type = "AUTH" => n \in 1..issued
    <3>1. "EVENT" \in Types /\ 0 \in Nat
      BY DEF Types
    <3>2. QED
      BY <2>1, <3>1
  <2>2. ASSUME NEW e \in AuthEvents, NEW n \in 1..issued, Arrive(m, c, "AUTH", e, n)
        PROVE  \E type \in Types, x \in Events \cup AuthEvents \cup {NoEvent}, k \in Nat :
                  /\ Arrive(m, c, type, x, k)
                  /\ type \in {"EVENT", "AUTH"} => x \in Events \cup AuthEvents
                  /\ type = "AUTH" => k \in 1..issued
    <3>1. "AUTH" \in Types /\ n \in Nat
      BY DEF Types
    <3>2. QED
      BY <2>2, <3>1
  <2>3. ASSUME NEW type \in {"REQ", "CLOSE"}, Arrive(m, c, type, NoEvent, 0)
        PROVE  \E t \in Types, x \in Events \cup AuthEvents \cup {NoEvent}, k \in Nat :
                  /\ Arrive(m, c, t, x, k)
                  /\ t \in {"EVENT", "AUTH"} => x \in Events \cup AuthEvents
                  /\ t = "AUTH" => k \in 1..issued
    <3>1. type \in Types /\ type \notin {"EVENT", "AUTH"} /\ 0 \in Nat
      BY DEF Types
    <3>2. QED
      BY <2>3, <3>1
  <2>4. QED
    BY <2>1, <2>2, <2>3 DEF ClientMessage
<1> DEFINE x == [stage |-> "limiting", conn |-> c, type |-> type, event |-> e,
                 answer |-> n, terms |-> None, since |-> now]
<1>2. x \in Msg
  BY DEF Msg, TypeOK
<1>3. msg' = [msg EXCEPT ![m] = x]
  BY <1>1 DEF Arrive
<1> HIDE DEF x
<1>4. msg' \in [Msgs -> Msg] /\ msg'[m] = x /\ \A l \in Msgs : l # m => msg'[l] = msg[l]
  BY <1>2, <1>3 DEF TypeOK
<1>5. QED
  BY <1>1, <1>4 DEF x

(* A connection's credentials. *)
SameCredentials ==
    /\ conn' \in [Conns -> Conn]
    /\ \A c \in Conns : /\ conn'[c].challenge = conn[c].challenge
                        /\ conn'[c].authenticated = conn[c].authenticated

(* A step of one message that touches no connection. *)
Plain(m) ==
    \/ MessageLimited(m) \/ Handle(m) \/ Invalid(m) \/ Valid(m) \/ EventLimited(m)
    \/ Judge(m) \/ Lookup(m) \/ ExecuteEvent(m) \/ Fail(m) \/ Throw(m)

LEMMA PlainWrites ==
    ASSUME TypeOK, NEW m \in Msgs, Plain(m)
    PROVE  /\ UNCHANGED <<now, conn, users, issued, sentOn, uses, heard>>
           /\ SettingsTypeOK'
           /\ msg' \in [Msgs -> Msg]
           /\ \A l \in Msgs : l # m => msg'[l] = msg[l]
           /\ \/ Free(m)'
              \/ Handle(m) /\ GoTo(m, "validating")
              \/ Valid(m) /\ GoTo(m, "rating")
              \/ Judge(m) /\ GoTo(m, "execute")
              \/ /\ Judge(m)
                 /\ \E v \in Stated : msg' = [msg EXCEPT ![m].stage = "lookup", ![m].terms = v]
              \/ Lookup(m) /\ GoTo(m, "execute")
           /\ Free(m)' => Answer(m) \/ Ends(m, "failed") \/ Throw(m)
<1> DEFINE Result ==
               \/ Free(m)'
               \/ Handle(m) /\ GoTo(m, "validating")
               \/ Valid(m) /\ GoTo(m, "rating")
               \/ Judge(m) /\ GoTo(m, "execute")
               \/ /\ Judge(m)
                  /\ \E v \in Stated : msg' = [msg EXCEPT ![m].stage = "lookup", ![m].terms = v]
               \/ Lookup(m) /\ GoTo(m, "execute")
           Ending == Answer(m) \/ Ends(m, "failed") \/ Throw(m)
           Written == /\ msg' \in [Msgs -> Msg]
                      /\ \A l \in Msgs : l # m => msg'[l] = msg[l]
<1>1. SettingsTypeOK
  BY DEF TypeOK
<1>2. UNCHANGED settingsVars => SettingsTypeOK'
  BY <1>1 DEF settingsVars, SettingsTypeOK
<1>3. ASSUME NEW stage \in Ended, Ends(m, stage) PROVE Written /\ Free(m)'
  BY <1>3, EndsWrites
<1>4. ASSUME NEW stage \in Stages, GoTo(m, stage) PROVE Written /\ ~Free(m)'
  <2>1. stage \notin Ended
    BY DEF Stages, Ended
  <2>2. QED
    BY <1>4, <2>1, GoToWrites DEF Free
<1>5. ASSUME NEW v \in Stated, msg' = [msg EXCEPT ![m].stage = "lookup", ![m].terms = v]
      PROVE  Written /\ ~Free(m)'
  BY <1>5, LookupWrites DEF Free, Ended
<1>6. {"validating", "rating", "execute"} \subseteq Stages
  BY DEF Stages
<1>7. UNCHANGED <<now, conn, users, issued, sentOn, uses, heard>>
  BY DEF Plain, MessageLimited, Handle, Invalid, Valid, EventLimited, Judge, Lookup,
         ExecuteEvent, Fail, Throw, challengeVars
<1>8. ASSUME Ending PROVE Written /\ Free(m)'
  <2>1. Answer(m) \/ Ends(m, "failed") \/ Ends(m, "thrown")
    BY <1>8 DEF Throw
  <2>2. "failed" \in Ended /\ "thrown" \in Ended
    BY DEF Ended
  <2>3. QED
    BY <1>3, <2>1, <2>2, AnswerWrites
<1> HIDE DEF Result, Ending, Written
<1>9. CASE \/ MessageLimited(m) \/ Invalid(m) \/ EventLimited(m) \/ ExecuteEvent(m) \/ Fail(m)
  <2>1. UNCHANGED settingsVars /\ Ending
    BY <1>9 DEF MessageLimited, Invalid, EventLimited, ExecuteEvent, Fail, Ending
  <2>2. QED
    BY <1>2, <1>7, <1>8, <2>1 DEF Result, Ending, Written
<1>10. CASE Throw(m)
  <2>1. UNCHANGED fileVars /\ Ending /\ \E r \in Reads : cached' = r.kept
    BY <1>10 DEF Throw, Ending
  <2>2. SettingsTypeOK'
    BY <1>1, <2>1, ConsultedTyped
  <2>3. QED
    BY <1>7, <1>8, <2>1, <2>2 DEF Result, Ending, Written
<1>11. CASE Handle(m)
  <2>1. /\ GoTo(m, "validating") /\ UNCHANGED fileVars
        /\ UNCHANGED cached \/ \E r \in Reads : cached' = r.kept
    BY <1>11 DEF Handle
  <2>2. SettingsTypeOK'
    BY <1>1, <2>1, ConsultedTyped
  <2>3. QED
    BY <1>4, <1>6, <1>7, <1>11, <2>1, <2>2 DEF Result, Written
<1>12. CASE Valid(m)
  <2>1. GoTo(m, "rating") /\ UNCHANGED fileVars /\ \E r \in Reads : cached' = r.kept
    BY <1>12 DEF Valid
  <2>2. SettingsTypeOK'
    BY <1>1, <2>1, ConsultedTyped
  <2>3. QED
    BY <1>4, <1>6, <1>7, <1>12, <2>1, <2>2 DEF Result, Written
<1>13. CASE Judge(m)
  <2>1. /\ UNCHANGED fileVars
        /\ \E p \in ReadPairs :
              /\ cached' = p[2].kept
              /\ \/ Answer(m)
                 \/ GoTo(m, "execute")
                 \/ msg' = [msg EXCEPT ![m].stage = "lookup", ![m].terms = p[2].returned]
    BY <1>13 DEF Judge, SettingsPairs
  <2>2. SettingsTypeOK'
    BY <1>1, <2>1, ConsultedTyped
  <2>3. \/ Ending
        \/ GoTo(m, "execute")
        \/ \E v \in Stated : msg' = [msg EXCEPT ![m].stage = "lookup", ![m].terms = v]
    BY <1>1, <2>1, PairTyped DEF Ending
  <2>4. QED
    BY <1>4, <1>5, <1>6, <1>7, <1>8, <1>13, <2>2, <2>3 DEF Result, Ending, Written
<1>14. CASE Lookup(m)
  <2>1. UNCHANGED settingsVars /\ (Ending \/ GoTo(m, "execute"))
    BY <1>14 DEF Lookup, Ending
  <2>2. QED
    BY <1>2, <1>4, <1>6, <1>7, <1>8, <1>14, <2>1 DEF Result, Ending, Written
<1>15. QED
  BY <1>9, <1>10, <1>11, <1>12, <1>13, <1>14 DEF Plain

(* The refusal of a message with a new challenge. *)
LEMMA ChallengeWrites ==
    ASSUME TypeOK, NEW m \in Msgs, msg[m].conn \in Conns, Challenge(m)
    PROVE  /\ UNCHANGED <<now, users, heard, uses>> /\ SettingsTypeOK'
           /\ msg' \in [Msgs -> Msg] /\ Free(m)' /\ \A l \in Msgs : l # m => msg'[l] = msg[l]
           /\ issued' = issued + 1 /\ issued' \in Challenges
           /\ conn' \in [Conns -> Conn]
           /\ conn'[msg[m].conn].challenge = issued + 1
           /\ \A c \in Conns : /\ c # msg[m].conn => conn'[c] = conn[c]
                               /\ conn'[c].authenticated = conn[c].authenticated
                               /\ conn'[c].alive = conn[c].alive
           /\ sentOn' \in [Conns -> SUBSET Challenges]
           /\ sentOn'[msg[m].conn] = sentOn[msg[m].conn] \cup {issued + 1}
           /\ \A c \in Conns : c # msg[m].conn => sentOn'[c] = sentOn[c]
<1> DEFINE a == msg[m].conn
           x == [conn[a] EXCEPT !.challenge = issued + 1, !.issuedAt = now]
<1>1. /\ UNCHANGED <<now, users, heard, uses, fileVars>> /\ Answer(m)
      /\ \E r \in Reads : cached' = r.kept
      /\ issued < MaxChallenges /\ issued' = issued + 1
      /\ conn' = [conn EXCEPT ![a].challenge = issued + 1, ![a].issuedAt = now]
      /\ sentOn' = [sentOn EXCEPT ![a] = @ \cup {issued + 1}]
  BY DEF Challenge, IssueChallenge, fileVars
<1>2. issued \in Nat /\ issued + 1 \in Challenges /\ now \in Nat
  BY <1>1, AdmissionAssumption DEF TypeOK, Challenges
<1>3. SettingsTypeOK'
  BY <1>1, ConsultedTyped DEF TypeOK
<1>4. /\ msg' \in [Msgs -> Msg] /\ Free(m)'
      /\ \A l \in Msgs : l # m => msg'[l] = msg[l]
  BY <1>1, AnswerWrites
<1>5. /\ x \in Conn /\ x.challenge = issued + 1
      /\ x.authenticated = conn[a].authenticated /\ x.alive = conn[a].alive
  <2>1. conn[a] \in Conn
    BY DEF TypeOK
  <2>2. issued + 1 \in Nat
    BY <1>2
  <2>3. x \in Conn
    BY <1>2, <2>1, <2>2 DEF Conn
  <2>4. x.challenge = issued + 1 /\ x.authenticated = conn[a].authenticated
    BY <2>1 DEF Conn
  <2>5. x.alive = conn[a].alive
    BY <2>1 DEF Conn
  <2>6. QED
    BY <2>3, <2>4, <2>5
<1>6. conn' = [conn EXCEPT ![a] = x]
  BY <1>1 DEF TypeOK
<1> HIDE DEF x
<1>7. conn' \in [Conns -> Conn] /\ conn'[a] = x /\ \A c \in Conns : c # a => conn'[c] = conn[c]
  BY <1>5, <1>6 DEF TypeOK
<1>8. /\ sentOn' \in [Conns -> SUBSET Challenges] /\ sentOn'[a] = sentOn[a] \cup {issued + 1}
      /\ \A c \in Conns : c # a => sentOn'[c] = sentOn[c]
  BY <1>1, <1>2 DEF TypeOK
<1>9. QED
  BY <1>1, <1>2, <1>3, <1>4, <1>5, <1>7, <1>8

(* The answer to a challenge: accepted, or not. *)
LEMMA ExecuteAuthWrites ==
    ASSUME TypeOK, NEW m \in Msgs, msg[m].conn \in Conns, msg[m].answer \in Challenges,
           ExecuteAuth(m)
    PROVE  /\ UNCHANGED <<settingsVars, now, users, issued, sentOn, heard>>
           /\ msg' \in [Msgs -> Msg] /\ Free(m)' /\ \A l \in Msgs : l # m => msg'[l] = msg[l]
           /\ \/ UNCHANGED <<conn, uses>>
              \/ /\ conn[msg[m].conn].challenge = msg[m].answer
                 /\ conn' \in [Conns -> Conn]
                 /\ conn'[msg[m].conn].challenge = 0 /\ conn'[msg[m].conn].authenticated
                 /\ conn'[msg[m].conn].alive = conn[msg[m].conn].alive
                 /\ \A c \in Conns : c # msg[m].conn => conn'[c] = conn[c]
                 /\ uses' \in [Conns -> [Challenges -> Nat]]
                 /\ uses'[msg[m].conn][msg[m].answer] = uses[msg[m].conn][msg[m].answer] + 1
                 /\ \A c \in Conns, n \in Challenges :
                       c # msg[m].conn \/ n # msg[m].answer => uses'[c][n] = uses[c][n]
<1> DEFINE a == msg[m].conn
           k == msg[m].answer
           x == [conn[a] EXCEPT !.authenticated = TRUE, !.challenge = 0]
<1>1. UNCHANGED <<settingsVars, now, users, issued, sentOn, heard>> /\ Answer(m)
  BY DEF ExecuteAuth
<1>2. /\ msg' \in [Msgs -> Msg] /\ Free(m)'
      /\ \A l \in Msgs : l # m => msg'[l] = msg[l]
  BY <1>1, AnswerWrites
<1>3. CASE UNCHANGED <<conn, uses>>
  BY <1>1, <1>2, <1>3
<1>4. CASE /\ conn[a].challenge = k
           /\ conn' = [conn EXCEPT ![a].authenticated = TRUE, ![a].challenge = 0]
           /\ uses' = [uses EXCEPT ![a][k] = @ + 1]
  <2>1. x \in Conn /\ x.challenge = 0 /\ x.authenticated /\ x.alive = conn[a].alive
    <3>1. conn[a] \in Conn
      BY DEF TypeOK
    <3>2. QED
      BY <3>1 DEF Conn
  <2>2. conn' = [conn EXCEPT ![a] = x]
    BY <1>4 DEF TypeOK
  <2> HIDE DEF x
  <2>3. conn' \in [Conns -> Conn] /\ conn'[a] = x /\ \A c \in Conns : c # a => conn'[c] = conn[c]
    BY <2>1, <2>2 DEF TypeOK
  <2>4. /\ uses' \in [Conns -> [Challenges -> Nat]] /\ uses'[a][k] = uses[a][k] + 1
        /\ \A c \in Conns, n \in Challenges : c # a \/ n # k => uses'[c][n] = uses[c][n]
    BY <1>4 DEF TypeOK
  <2>5. QED
    BY <1>1, <1>2, <1>4, <2>1, <2>3, <2>4
<1>5. QED
  BY <1>3, <1>4 DEF ExecuteAuth, Verified, Authenticated

(* A step that writes one connection and leaves its credentials. *)
Edited(c, x) ==
    /\ x \in Conn
    /\ x.challenge = conn[c].challenge /\ x.authenticated = conn[c].authenticated
    /\ conn' = [conn EXCEPT ![c] = x]

LEMMA EditedWrites ==
    ASSUME TypeOK, NEW c \in Conns, NEW x, Edited(c, x)
    PROVE  SameCredentials /\ conn'[c] = x /\ \A d \in Conns : d # c => conn'[d] = conn[d]
<1>1. /\ conn' \in [Conns -> Conn] /\ conn'[c] = x
      /\ \A d \in Conns : d # c => conn'[d] = conn[d]
  BY DEF Edited, TypeOK
<1>2. QED
  BY <1>1 DEF SameCredentials, Edited

LEMMA ConnectionWrites ==
    ASSUME TypeOK, NEW c \in Conns, Connection(c)
    PROVE  /\ UNCHANGED <<now, msg, users, issued, sentOn, uses>> /\ SettingsTypeOK'
           /\ SameCredentials
           /\ heard' \in [Conns -> BOOLEAN]
           /\ \A d \in Conns : d # c => conn'[d] = conn[d] /\ heard'[d] = heard[d]
           /\ conn'[c].state # "closing" \/ conn'[c].state = conn[c].state
           /\ (heard[c] => conn[c].alive) => (heard'[c] => conn'[c].alive)
<1>1. conn[c] \in Conn /\ SettingsTypeOK
  BY DEF TypeOK
<1>2. UNCHANGED <<now, msg, users, issued, sentOn, uses>>
  BY DEF Connection, Connect, ConnectionAccepted, ConnectionLimited, ConnectionUnserved,
         ClientClose, Pong, challengeVars
<1>3. SettingsTypeOK'
  <2>1. UNCHANGED settingsVars \/ (UNCHANGED fileVars /\ Consulted)
    BY DEF Connection, Connect, ConnectionAccepted, ConnectionLimited, ConnectionUnserved,
           ClientClose, Pong
  <2>2. QED
    BY <1>1, <2>1, ConsultedTyped DEF settingsVars, SettingsTypeOK
<1>4. ASSUME NEW x, Edited(c, x),
             \/ x.state # "closing"
             \/ x.state = conn[c].state,
             \/ UNCHANGED heard /\ x.alive = conn[c].alive
             \/ heard' = [heard EXCEPT ![c] = TRUE] /\ x.alive
             \/ heard' = [heard EXCEPT ![c] = FALSE]
      PROVE  /\ SameCredentials
             /\ heard' \in [Conns -> BOOLEAN]
             /\ \A d \in Conns : d # c => conn'[d] = conn[d] /\ heard'[d] = heard[d]
             /\ conn'[c].state # "closing" \/ conn'[c].state = conn[c].state
             /\ (heard[c] => conn[c].alive) => (heard'[c] => conn'[c].alive)
  <2>1. SameCredentials /\ conn'[c] = x /\ \A d \in Conns : d # c => conn'[d] = conn[d]
    BY <1>4, EditedWrites
  <2>2. /\ heard' \in [Conns -> BOOLEAN] /\ \A d \in Conns : d # c => heard'[d] = heard[d]
        /\ (heard[c] => conn[c].alive) => (heard'[c] => x.alive)
    BY <1>4 DEF TypeOK
  <2>3. QED
    BY <1>4, <2>1, <2>2
<1>5. CASE Connect(c) \/ ConnectionLimited(c) \/ ConnectionUnserved(c)
  <2>1. PICK s \in {"connecting", "closed", "unserved"} :
            UNCHANGED heard /\ conn' = [conn EXCEPT ![c].state = s]
    BY <1>5 DEF Connect, ConnectionLimited, ConnectionUnserved
  <2> DEFINE x == [conn[c] EXCEPT !.state = s]
  <2>2. /\ x \in Conn /\ x.challenge = conn[c].challenge
        /\ x.authenticated = conn[c].authenticated /\ x.state = s /\ x.alive = conn[c].alive
    BY <1>1 DEF Conn
  <2>3. conn' = [conn EXCEPT ![c] = x]
    BY <2>1 DEF TypeOK
  <2> HIDE DEF x
  <2>4. QED
    BY <1>2, <1>3, <1>4, <2>1, <2>2, <2>3 DEF Edited
<1>6. CASE ConnectionAccepted(c)
  <2> DEFINE x == [conn[c] EXCEPT !.state = "open", !.alive = TRUE]
  <2>1. /\ x \in Conn /\ x.challenge = conn[c].challenge
        /\ x.authenticated = conn[c].authenticated /\ x.state = "open" /\ x.alive
    BY <1>1 DEF Conn
  <2>2. conn' = [conn EXCEPT ![c] = x] /\ heard' = [heard EXCEPT ![c] = TRUE]
    BY <1>6 DEF ConnectionAccepted, TypeOK
  <2> HIDE DEF x
  <2>3. QED
    BY <1>2, <1>3, <1>4, <2>1, <2>2 DEF Edited
<1>7. CASE ClientClose(c)
  <2> DEFINE x == [conn[c] EXCEPT !.state = "closed", !.alive = FALSE, !.subscribed = FALSE]
  <2>1. /\ x \in Conn /\ x.challenge = conn[c].challenge
        /\ x.authenticated = conn[c].authenticated /\ x.state = "closed"
    BY <1>1 DEF Conn
  <2>2. conn' = [conn EXCEPT ![c] = x] /\ heard' = [heard EXCEPT ![c] = FALSE]
    BY <1>7 DEF ClientClose, TypeOK
  <2> HIDE DEF x
  <2>3. QED
    BY <1>2, <1>3, <1>4, <2>1, <2>2 DEF Edited
<1>8. CASE Pong(c)
  <2> DEFINE x == [conn[c] EXCEPT !.alive = TRUE]
  <2>1. /\ x \in Conn /\ x.challenge = conn[c].challenge
        /\ x.authenticated = conn[c].authenticated /\ x.state = conn[c].state /\ x.alive
    BY <1>1 DEF Conn
  <2>2. conn' = [conn EXCEPT ![c] = x] /\ heard' = [heard EXCEPT ![c] = TRUE]
    BY <1>8 DEF Pong, TypeOK
  <2> HIDE DEF x
  <2>3. QED
    BY <1>2, <1>3, <1>4, <2>1, <2>2 DEF Edited
<1>9. QED
  BY <1>5, <1>6, <1>7, <1>8 DEF Connection

LEMMA HeartbeatWrites ==
    ASSUME TypeOK, Heartbeat
    PROVE  /\ UNCHANGED <<now, msg, users, issued, sentOn, uses>> /\ SettingsTypeOK'
           /\ SameCredentials
           /\ heard' \in [Conns -> BOOLEAN]
           /\ \A c \in Conns : ~heard'[c]
           /\ \A c \in Conns : conn[c].state = "open" /\ conn'[c].state = "closing" => Idles(c)
<1>1. UNCHANGED <<settingsVars, now, msg, users, issued, sentOn, uses>>
  BY DEF Heartbeat, challengeVars
<1>2. SettingsTypeOK'
  BY <1>1 DEF TypeOK, settingsVars, SettingsTypeOK
<1>3. heard' \in [Conns -> BOOLEAN] /\ \A c \in Conns : ~heard'[c]
  BY DEF Heartbeat
<1>4. ASSUME NEW c \in Conns
      PROVE  /\ conn'[c] \in Conn
             /\ conn'[c].challenge = conn[c].challenge
             /\ conn'[c].authenticated = conn[c].authenticated
             /\ conn[c].state = "open" /\ conn'[c].state = "closing" => Idles(c)
  <2>1. conn[c] \in Conn
    BY DEF TypeOK
  <2>2. /\ [conn[c] EXCEPT !.state = "closing"] \in Conn
        /\ [conn[c] EXCEPT !.state = "closing"].challenge = conn[c].challenge
        /\ [conn[c] EXCEPT !.state = "closing"].authenticated = conn[c].authenticated
    BY <2>1 DEF Conn
  <2>3. /\ Probed(c) \in Conn
        /\ Probed(c).challenge = conn[c].challenge
        /\ Probed(c).authenticated = conn[c].authenticated
        /\ Probed(c).state = conn[c].state
    BY <2>1 DEF Conn, Probed
  <2>4. conn'[c] = IF conn[c].state \notin Listening THEN conn[c]
                   ELSE IF Idles(c) THEN [conn[c] EXCEPT !.state = "closing"]
                   ELSE Probed(c)
    BY DEF Heartbeat
  <2>5. CASE conn[c].state \in Listening /\ Idles(c)
    BY <2>2, <2>4, <2>5
  <2>6. CASE conn[c].state \in Listening /\ ~Idles(c)
    BY <2>3, <2>4, <2>6
  <2>7. CASE conn[c].state \notin Listening
    BY <2>1, <2>4, <2>7
  <2>8. QED
    BY <2>5, <2>6, <2>7
<1>5. DOMAIN conn' = Conns /\ conn' = [c \in Conns |-> conn'[c]]
  BY DEF Heartbeat
<1>6. conn' \in [Conns -> Conn]
  BY <1>4, <1>5
<1>7. QED
  BY <1>1, <1>2, <1>3, <1>4, <1>6 DEF SameCredentials

LEMMA SubscriptionWrites ==
    ASSUME TypeOK, NEW m \in Msgs, msg[m].conn \in Conns, Subscribe(m)
    PROVE  /\ UNCHANGED <<settingsVars, now, users, issued, sentOn, uses, heard>>
           /\ msg' \in [Msgs -> Msg] /\ Free(m)' /\ \A l \in Msgs : l # m => msg'[l] = msg[l]
           /\ SameCredentials
           /\ \A c \in Conns : conn'[c].alive = conn[c].alive /\ conn'[c].state = conn[c].state
<1> DEFINE a == msg[m].conn
           b == IF conn[a].state = "closed" THEN conn[a].subscribed ELSE msg[m].type = "REQ"
           x == [conn[a] EXCEPT !.subscribed = b]
<1>1. /\ UNCHANGED <<settingsVars, now, users, issued, sentOn, uses, heard>>
      /\ Answer(m)
  BY DEF Subscribe, challengeVars
<1>2. /\ msg' \in [Msgs -> Msg] /\ Free(m)'
      /\ \A l \in Msgs : l # m => msg'[l] = msg[l]
  BY <1>1, AnswerWrites
<1>3. conn[a] \in Conn
  BY DEF TypeOK
<1>4. b \in BOOLEAN
  BY <1>3 DEF Conn
<1>5. conn' = [conn EXCEPT ![a] = x]
  BY DEF Subscribe, TypeOK
<1> HIDE DEF b
<1>6. /\ x \in Conn /\ x.challenge = conn[a].challenge
      /\ x.authenticated = conn[a].authenticated
      /\ x.alive = conn[a].alive /\ x.state = conn[a].state
  BY <1>3, <1>4 DEF Conn
<1> HIDE DEF x
<1>7. SameCredentials /\ conn'[a] = x /\ \A d \in Conns : d # a => conn'[d] = conn[d]
  BY <1>5, <1>6, EditedWrites DEF Edited
<1>8. QED
  BY <1>1, <1>2, <1>6, <1>7

LEMMA ClientMessageWrites ==
    ASSUME TypeOK, NEW m \in Msgs, NEW c \in Conns, ClientMessage(m, c)
    PROVE  /\ UNCHANGED <<now, users, issued, sentOn, uses>> /\ SettingsTypeOK'
           /\ SameCredentials
           /\ heard' \in [Conns -> BOOLEAN]
           /\ conn'[c].alive
           /\ \A d \in Conns : conn'[d].state = conn[d].state
           /\ \A d \in Conns : d # c => conn'[d] = conn[d] /\ heard'[d] = heard[d]
<1> DEFINE x == [conn[c] EXCEPT !.alive = TRUE]
<1>1. PICK type, e, n : Arrive(m, c, type, e, n)
  BY ArriveWrites
<1>2. /\ UNCHANGED <<now, users, issued, sentOn, uses, fileVars>> /\ Consulted
      /\ heard' = [heard EXCEPT ![c] = TRUE]
      /\ conn' = [conn EXCEPT ![c].alive = TRUE]
  BY <1>1 DEF Arrive, challengeVars, MarkedAlive
<1>3. SettingsTypeOK'
  BY <1>2, ConsultedTyped DEF TypeOK
<1>4. conn[c] \in Conn /\ conn' = [conn EXCEPT ![c] = x]
  BY <1>2 DEF TypeOK
<1>5. /\ x \in Conn /\ x.challenge = conn[c].challenge /\ x.authenticated = conn[c].authenticated
      /\ x.alive /\ x.state = conn[c].state
  BY <1>4 DEF Conn
<1> HIDE DEF x
<1>6. SameCredentials /\ conn'[c] = x /\ \A d \in Conns : d # c => conn'[d] = conn[d]
  BY <1>4, <1>5, EditedWrites DEF Edited
<1>7. heard' \in [Conns -> BOOLEAN] /\ \A d \in Conns : d # c => heard'[d] = heard[d]
  BY <1>2 DEF TypeOK
<1>8. QED
  BY <1>2, <1>3, <1>5, <1>6, <1>7

Environment == SettingsStep \/ Tick \/ \E p \in Pubkeys : Credit(p)

(* What is paid stays paid, and time goes on. *)
LEMMA EnvironmentWrites ==
    ASSUME TypeOK, Environment
    PROVE  /\ UNCHANGED <<conn, msg, issued, sentOn, uses, heard>> /\ SettingsTypeOK'
           /\ now' \in Nat /\ now <= now'
           /\ users' \in [Pubkeys -> User]
           /\ \A p \in Pubkeys : /\ users[p].admitted => users'[p].admitted
                                 /\ users[p].balance <= users'[p].balance
<1>1. now \in Nat /\ \A p \in Pubkeys : users[p] \in User /\ users[p].balance \in Nat
  BY DEF TypeOK, User
<1>2. CASE SettingsStep
  <2>1. UNCHANGED <<now, conn, msg, users, issued, sentOn, uses, heard>>
    BY <1>2 DEF SettingsStep, challengeVars
  <2>2. SettingsTypeOK'
    BY <1>2, SettingsStepTyped DEF SettingsStep, TypeOK
  <2>3. QED
    BY <1>1, <2>1, <2>2 DEF TypeOK
<1>3. CASE Tick
  <2>1. UNCHANGED <<settingsVars, conn, msg, users, issued, sentOn, uses, heard>> /\ now' = now + 1
    BY <1>3 DEF Tick, challengeVars
  <2>2. SettingsTypeOK'
    BY <2>1 DEF TypeOK, settingsVars, SettingsTypeOK
  <2>3. QED
    BY <1>1, <2>1, <2>2 DEF TypeOK
<1>4. ASSUME NEW p \in Pubkeys, Credit(p)
      PROVE  /\ UNCHANGED <<now, conn, msg, issued, sentOn, uses, heard>> /\ SettingsTypeOK'
             /\ users' \in [Pubkeys -> User]
             /\ \A q \in Pubkeys : /\ users[q].admitted => users'[q].admitted
                                   /\ users[q].balance <= users'[q].balance
  <2> DEFINE x == [admitted |-> TRUE, balance |-> users[p].balance + 1]
  <2>1. /\ UNCHANGED <<settingsVars, now, conn, msg, issued, sentOn, uses, heard>>
        /\ users' = [users EXCEPT ![p] = x]
    BY <1>4 DEF Credit, challengeVars
  <2>2. x \in User /\ x.admitted /\ users[p].balance <= x.balance
    BY <1>1 DEF User
  <2> HIDE DEF x
  <2>3. /\ users' \in [Pubkeys -> User] /\ users'[p] = x
        /\ \A q \in Pubkeys : q # p => users'[q] = users[q]
    BY <2>1, <2>2 DEF TypeOK
  <2>4. \A q \in Pubkeys : /\ users[q].admitted => users'[q].admitted
                           /\ users[q].balance <= users'[q].balance
    BY <1>1, <2>2, <2>3
  <2>5. SettingsTypeOK'
    BY <2>1 DEF TypeOK, settingsVars, SettingsTypeOK
  <2>6. QED
    BY <2>1, <2>3, <2>4, <2>5
<1>5. QED
  BY <1>1, <1>2, <1>3, <1>4 DEF Environment

LEMMA StepCases ==
    ASSUME Step
    PROVE  \/ \E m \in Msgs : Plain(m) \/ Challenge(m) \/ Subscribe(m) \/ ExecuteAuth(m)
           \/ \E c \in Conns : Connection(c)
           \/ Heartbeat
           \/ \E m \in Msgs, c \in Conns : ClientMessage(m, c)
           \/ Environment
BY DEF Step, Handling, Plain, Environment

(* A message is handled on a connection, and an answer names a challenge.  *)
LEMMA HandledWhere ==
    ASSUME TypeOK, MessagesSound, NEW m \in Msgs,
           Challenge(m) \/ Subscribe(m) \/ ExecuteAuth(m)
    PROVE  /\ msg[m].conn \in Conns
           /\ ExecuteAuth(m) => msg[m].answer \in 1..issued /\ msg[m].answer \in Challenges
<1>1. ~Free(m)
  BY DEF Challenge, Subscribe, ExecuteAuth, At, Free, Ended
<1>2. Tracked(m)
  BY <1>1 DEF MessagesSound
<1>3. ExecuteAuth(m) => msg[m].type = "AUTH"
  BY DEF ExecuteAuth
<1>4. 1..issued \subseteq Challenges
  BY AdmissionAssumption DEF TypeOK, Challenges
<1>5. QED
  BY <1>2, <1>3, <1>4 DEF Tracked

-----------------------------------------------------------------------------
(* Type correctness. *)

LEMMA NotesTyped ==
    ASSUME TypeOK, SettingsTypeOK', Notes
    PROVE  seen' \in [Msgs -> SUBSET Stated]
<1>1. \A m \in Msgs : seen[m] \subseteq Stated
  BY DEF TypeOK, Stated
<1>2. (InForce \subseteq Stated)'
  BY InForceTyped, PTL
<1>3. QED
  BY <1>1, <1>2 DEF Notes

LEMMA AdmissionTypeStep == TypeOK /\ MessagesSound /\ [Next]_vars => TypeOK'
<1>. SUFFICES ASSUME TypeOK, MessagesSound, [Next]_vars PROVE TypeOK'
  OBVIOUS
<1> DEFINE Rest == /\ SettingsTypeOK
                   /\ now \in Nat
                   /\ conn \in [Conns -> Conn]
                   /\ msg \in [Msgs -> Msg]
                   /\ users \in [Pubkeys -> User]
                   /\ issued \in 0..MaxChallenges
                   /\ sentOn \in [Conns -> SUBSET Challenges]
                   /\ uses \in [Conns -> [Challenges -> Nat]]
                   /\ heard \in [Conns -> BOOLEAN]
<1>1. Rest /\ issued \in Nat
  BY AdmissionAssumption DEF TypeOK
<1>2. ASSUME NEW m \in Msgs, Plain(m) PROVE Rest'
  BY <1>1, <1>2, PlainWrites
<1>3. ASSUME NEW m \in Msgs, Challenge(m) PROVE Rest'
  <2>1. msg[m].conn \in Conns
    BY <1>3, HandledWhere
  <2>2. issued' \in 0..MaxChallenges
    BY <1>1, <1>3, <2>1, ChallengeWrites DEF Challenges
  <2>3. QED
    BY <1>1, <1>3, <2>1, <2>2, ChallengeWrites
<1>4. ASSUME NEW m \in Msgs, Subscribe(m) PROVE Rest'
  <2>1. msg[m].conn \in Conns
    BY <1>4, HandledWhere
  <2>2. QED
    BY <1>1, <1>4, <2>1, SubscriptionWrites DEF SameCredentials, settingsVars, SettingsTypeOK
<1>5. ASSUME NEW m \in Msgs, ExecuteAuth(m) PROVE Rest'
  <2>1. msg[m].conn \in Conns /\ msg[m].answer \in Challenges
    BY <1>5, HandledWhere
  <2>2. /\ UNCHANGED <<settingsVars, now, users, issued, sentOn, heard>>
        /\ msg' \in [Msgs -> Msg]
        /\ conn' \in [Conns -> Conn]
        /\ uses' \in [Conns -> [Challenges -> Nat]]
    BY <1>1, <1>5, <2>1, ExecuteAuthWrites
  <2>3. QED
    BY <1>1, <2>2 DEF settingsVars, SettingsTypeOK
<1>6. ASSUME NEW c \in Conns, Connection(c) PROVE Rest'
  BY <1>1, <1>6, ConnectionWrites DEF SameCredentials
<1>7. ASSUME Heartbeat PROVE Rest'
  BY <1>1, <1>7, HeartbeatWrites DEF SameCredentials
<1>8. ASSUME NEW m \in Msgs, NEW c \in Conns, ClientMessage(m, c) PROVE Rest'
  <2>1. msg' \in [Msgs -> Msg]
    BY <1>8, ArriveWrites
  <2>2. QED
    BY <1>1, <1>8, <2>1, ClientMessageWrites DEF SameCredentials
<1>9. ASSUME Environment PROVE Rest'
  BY <1>1, <1>9, EnvironmentWrites
<1>10. CASE UNCHANGED vars
  BY <1>10 DEF vars, settingsVars, TypeOK, SettingsTypeOK
<1>11. CASE Next
  <2>1. Rest'
    BY <1>2, <1>3, <1>4, <1>5, <1>6, <1>7, <1>8, <1>9, <1>11, StepCases DEF Next
  <2>2. seen' \in [Msgs -> SUBSET Stated]
    BY <1>11, <2>1, NotesTyped DEF Next
  <2>3. QED
    BY <2>1, <2>2 DEF TypeOK, Stated
<1>12. QED
  BY <1>10, <1>11

-----------------------------------------------------------------------------
(* Challenges are answered once. *)

AuthInv == SentOnce /\ CurrentIsUnused /\ UsedIsSent /\ AuthenticatedByUse

(* A step that leaves the credentials leaves the invariant. *)
LEMMA SameAuth ==
    ASSUME TypeOK, AuthInv, UNCHANGED <<issued, sentOn, uses>>,
           \A c \in Conns : /\ conn'[c].challenge = conn[c].challenge
                            /\ conn'[c].authenticated = conn[c].authenticated
    PROVE  AuthInv'
<1>1. SentOnce' /\ UsedIsSent'
  BY DEF AuthInv, SentOnce, UsedIsSent
<1>2. CurrentIsUnused' /\ AuthenticatedByUse'
  BY DEF AuthInv, CurrentIsUnused, AuthenticatedByUse
<1>3. QED
  BY <1>1, <1>2 DEF AuthInv

LEMMA ChallengeAuth ==
    ASSUME TypeOK, AuthInv, NEW m \in Msgs, msg[m].conn \in Conns, Challenge(m)
    PROVE  AuthInv'
<1> DEFINE a == msg[m].conn
           k == issued + 1
<1>1. /\ UNCHANGED uses /\ issued' = k /\ k \in Challenges
      /\ conn'[a].challenge = k
      /\ \A c \in Conns : /\ c # a => conn'[c] = conn[c]
                          /\ conn'[c].authenticated = conn[c].authenticated
      /\ sentOn'[a] = sentOn[a] \cup {k}
      /\ \A c \in Conns : c # a => sentOn'[c] = sentOn[c]
  BY ChallengeWrites
<1>2. issued \in Nat /\ k \notin 1..issued /\ 1..issued \subseteq 1..k /\ k \in 1..k
  BY AdmissionAssumption DEF TypeOK
<1>3. \A c \in Conns : sentOn[c] \subseteq 1..issued
  BY DEF AuthInv, SentOnce
<1>4. \A c \in Conns : k \notin sentOn[c] /\ sentOn[c] \subseteq 1..k
  BY <1>2, <1>3
<1>5. \A c \in Conns : uses[c][k] = 0
  <2>1. \A c \in Conns : uses[c][k] \in Nat
    BY <1>1 DEF TypeOK
  <2>2. \A c \in Conns : ~(uses[c][k] > 0)
    BY <1>1, <1>4 DEF AuthInv, UsedIsSent
  <2>3. QED
    BY <2>1, <2>2
<1> HIDE DEF k
<1>6. SentOnce'
  <2>1. SUFFICES ASSUME NEW c \in Conns, NEW d \in Conns
                 PROVE  sentOn'[c] \subseteq 1..k /\ (c # d => sentOn'[c] \cap sentOn'[d] = {})
    BY <1>1 DEF SentOnce
  <2>2. sentOn'[c] \subseteq 1..k
    BY <1>1, <1>2, <1>4
  <2>3. c # d => sentOn[c] \cap sentOn[d] = {}
    BY DEF AuthInv, SentOnce
  <2>4. c # d => sentOn'[c] \cap sentOn'[d] = {}
    BY <1>1, <1>4, <2>3
  <2>5. QED
    BY <2>2, <2>4
<1>7. CurrentIsUnused'
  BY <1>1, <1>5 DEF AuthInv, CurrentIsUnused
<1>8. UsedIsSent'
  BY <1>1 DEF AuthInv, UsedIsSent
<1>9. AuthenticatedByUse'
  BY <1>1 DEF AuthInv, AuthenticatedByUse
<1>10. QED
  BY <1>6, <1>7, <1>8, <1>9 DEF AuthInv

LEMMA ExecuteAuthAuth ==
    ASSUME TypeOK, AuthInv, NEW m \in Msgs, msg[m].conn \in Conns,
           msg[m].answer \in Challenges, ExecuteAuth(m)
    PROVE  AuthInv'
<1> DEFINE a == msg[m].conn
           k == msg[m].answer
<1>1. UNCHANGED <<issued, sentOn>>
  BY ExecuteAuthWrites
<1>2. CASE UNCHANGED <<conn, uses>>
  BY <1>1, <1>2, SameAuth
<1>3. CASE /\ conn[a].challenge = k
           /\ conn'[a].challenge = 0 /\ conn'[a].authenticated
           /\ \A c \in Conns : c # a => conn'[c] = conn[c]
           /\ uses'[a][k] = uses[a][k] + 1
           /\ \A c \in Conns, n \in Challenges : c # a \/ n # k => uses'[c][n] = uses[c][n]
  <2>1. k \in sentOn[a] /\ uses[a][k] = 0
    BY <1>3 DEF AuthInv, CurrentIsUnused, Challenges
  <2>2. uses'[a][k] = 1
    BY <1>3, <2>1
  <2>3. \A c \in Conns : sentOn[c] \subseteq Challenges
    BY DEF TypeOK
  <2>4. SentOnce'
    BY <1>1 DEF AuthInv, SentOnce
  (* Another connection's challenge is not this one. *)
  <2>5. CurrentIsUnused'
    <3>1. SUFFICES ASSUME NEW c \in Conns, conn'[c].challenge # 0
                   PROVE  /\ conn'[c].challenge \in sentOn[c]
                          /\ uses'[c][conn'[c].challenge] = 0
      BY <1>1 DEF CurrentIsUnused
    <3>2. c # a /\ conn'[c] = conn[c]
      BY <1>3, <3>1
    <3>3. conn[c].challenge \in sentOn[c] /\ uses[c][conn[c].challenge] = 0
      BY <3>1, <3>2 DEF AuthInv, CurrentIsUnused
    <3>4. QED
      BY <1>3, <2>3, <3>2, <3>3
  <2>6. UsedIsSent'
    BY <1>1, <1>3, <2>1, <2>2 DEF AuthInv, UsedIsSent
  <2>7. AuthenticatedByUse'
    <3>1. SUFFICES ASSUME NEW c \in Conns, conn'[c].authenticated
                   PROVE  \E n \in sentOn[c] : uses'[c][n] > 0
      BY <1>1 DEF AuthenticatedByUse
    <3>2. CASE c = a
      BY <2>1, <2>2, <3>2
    <3>3. CASE c # a
      <4>1. PICK n \in sentOn[c] : uses[c][n] > 0
        BY <1>3, <3>1, <3>3 DEF AuthInv, AuthenticatedByUse
      <4>2. uses'[c][n] = uses[c][n]
        BY <1>3, <2>3, <3>3
      <4>3. QED
        BY <4>1, <4>2
    <3>4. QED
      BY <3>2, <3>3
  <2>8. QED
    BY <2>4, <2>5, <2>6, <2>7 DEF AuthInv
<1>4. QED
  BY <1>2, <1>3, ExecuteAuthWrites

LEMMA AuthStep == TypeOK /\ MessagesSound /\ AuthInv /\ [Next]_vars => AuthInv'
<1>. SUFFICES ASSUME TypeOK, MessagesSound, AuthInv, [Next]_vars PROVE AuthInv'
  OBVIOUS
<1>1. ASSUME NEW m \in Msgs, Plain(m) PROVE AuthInv'
  BY <1>1, PlainWrites, SameAuth
<1>2. ASSUME NEW m \in Msgs, Challenge(m) PROVE AuthInv'
  BY <1>2, HandledWhere, ChallengeAuth
<1>3. ASSUME NEW m \in Msgs, Subscribe(m) PROVE AuthInv'
  BY <1>3, HandledWhere, SubscriptionWrites, SameAuth DEF SameCredentials
<1>4. ASSUME NEW m \in Msgs, ExecuteAuth(m) PROVE AuthInv'
  BY <1>4, HandledWhere, ExecuteAuthAuth
<1>5. ASSUME NEW c \in Conns, Connection(c) PROVE AuthInv'
  BY <1>5, ConnectionWrites, SameAuth DEF SameCredentials
<1>6. ASSUME Heartbeat PROVE AuthInv'
  BY <1>6, HeartbeatWrites, SameAuth DEF SameCredentials
<1>7. ASSUME NEW m \in Msgs, NEW c \in Conns, ClientMessage(m, c) PROVE AuthInv'
  BY <1>7, ClientMessageWrites, SameAuth DEF SameCredentials
<1>8. ASSUME Environment PROVE AuthInv'
  BY <1>8, EnvironmentWrites, SameAuth
<1>9. CASE UNCHANGED vars
  BY <1>9, SameAuth DEF vars
<1>10. QED
  BY <1>1, <1>2, <1>3, <1>4, <1>5, <1>6, <1>7, <1>8, <1>9, StepCases DEF Next

-----------------------------------------------------------------------------
(* The heartbeat. *)

(* A client that was heard is alive to the next heartbeat, which alone     *)
(* begins to close connections.                                            *)
LEMMA HeartbeatStep ==
    ASSUME TypeOK, MessagesSound, HeardIsAlive, [Next]_vars
    PROVE  /\ HeardIsAlive'
           /\ \A c \in Conns : conn[c].state = "open" /\ conn'[c].state = "closing" => Idles(c)
<1> DEFINE Closes == \A c \in Conns :
                         conn[c].state = "open" /\ conn'[c].state = "closing" => Idles(c)
<1>1. ASSUME UNCHANGED <<conn, heard>> PROVE HeardIsAlive' /\ Closes
  BY <1>1 DEF HeardIsAlive
<1>2. ASSUME NEW m \in Msgs, Plain(m) PROVE HeardIsAlive' /\ Closes
  BY <1>1, <1>2, PlainWrites
<1>3. ASSUME NEW m \in Msgs, Challenge(m) PROVE HeardIsAlive' /\ Closes
  <2>1. UNCHANGED heard /\ \A c \in Conns : conn'[c].alive = conn[c].alive
    BY <1>3, HandledWhere, ChallengeWrites
  <2>2. \A c \in Conns : conn'[c].state = conn[c].state
    BY <1>3 DEF Challenge, IssueChallenge, TypeOK, Conn
  <2>3. QED
    BY <2>1, <2>2 DEF HeardIsAlive
<1>4. ASSUME NEW m \in Msgs, Subscribe(m) PROVE HeardIsAlive' /\ Closes
  <2>1. /\ UNCHANGED heard
        /\ \A c \in Conns : conn'[c].alive = conn[c].alive /\ conn'[c].state = conn[c].state
    BY <1>4, HandledWhere, SubscriptionWrites
  <2>2. QED
    BY <2>1 DEF HeardIsAlive
<1>5. ASSUME NEW m \in Msgs, ExecuteAuth(m) PROVE HeardIsAlive' /\ Closes
  <2>1. UNCHANGED heard /\ \A c \in Conns : conn'[c].alive = conn[c].alive
    BY <1>5, HandledWhere, ExecuteAuthWrites
  <2>2. \A c \in Conns : conn'[c].state = conn[c].state
    <3>1. UNCHANGED conn \/ conn' = Authenticated(msg[m].conn)
      BY <1>5 DEF ExecuteAuth
    <3>2. \A c \in Conns : Authenticated(msg[m].conn)[c].state = conn[c].state
      BY DEF Authenticated, TypeOK, Conn
    <3>3. QED
      BY <3>1, <3>2
  <2>3. QED
    BY <2>1, <2>2 DEF HeardIsAlive
<1>6. ASSUME NEW c \in Conns, Connection(c) PROVE HeardIsAlive' /\ Closes
  <2>1. /\ \A d \in Conns : d # c => conn'[d] = conn[d] /\ heard'[d] = heard[d]
        /\ conn'[c].state # "closing" \/ conn'[c].state = conn[c].state
        /\ (heard[c] => conn[c].alive) => (heard'[c] => conn'[c].alive)
    BY <1>6, ConnectionWrites
  <2>2. QED
    BY <2>1 DEF HeardIsAlive
<1>7. ASSUME Heartbeat PROVE HeardIsAlive' /\ Closes
  BY <1>7, HeartbeatWrites DEF HeardIsAlive
<1>8. ASSUME NEW m \in Msgs, NEW c \in Conns, ClientMessage(m, c) PROVE HeardIsAlive' /\ Closes
  <2>1. /\ conn'[c].alive /\ \A d \in Conns : conn'[d].state = conn[d].state
        /\ \A d \in Conns : d # c => conn'[d] = conn[d] /\ heard'[d] = heard[d]
    BY <1>8, ClientMessageWrites
  <2>2. QED
    BY <2>1 DEF HeardIsAlive
<1>9. ASSUME Environment PROVE HeardIsAlive' /\ Closes
  BY <1>1, <1>9, EnvironmentWrites
<1>10. CASE UNCHANGED vars
  BY <1>1, <1>10 DEF vars
<1>11. QED
  BY <1>2, <1>3, <1>4, <1>5, <1>6, <1>7, <1>8, <1>9, <1>10, StepCases DEF Next

-----------------------------------------------------------------------------
(* No event gets further than some version of the settings lets it. *)

(* What no step takes back. *)
Growing ==
    /\ now <= now' /\ issued <= issued'
    /\ \A c \in Conns : conn[c].authenticated => conn'[c].authenticated
    /\ \A p \in Pubkeys : /\ users[p].admitted => users'[p].admitted
                          /\ users[p].balance <= users'[p].balance
    /\ \A m \in Msgs : ~Free(m)' => seen[m] \subseteq seen'[m] /\ InForce' \subseteq seen'[m]

LEMMA Grows == TypeOK /\ MessagesSound /\ Next => Growing
<1>. SUFFICES ASSUME TypeOK, MessagesSound, Next PROVE Growing
  OBVIOUS
<1> DEFINE Rest == /\ now <= now' /\ issued <= issued'
                   /\ \A c \in Conns : conn[c].authenticated => conn'[c].authenticated
                   /\ \A p \in Pubkeys : /\ users[p].admitted => users'[p].admitted
                                         /\ users[p].balance <= users'[p].balance
<1>1. now \in Nat /\ issued \in Nat /\ \A p \in Pubkeys : users[p].balance \in Nat
  BY AdmissionAssumption DEF TypeOK, User
<1>2. ASSUME NEW m \in Msgs, Plain(m) PROVE Rest
  <2>1. UNCHANGED <<now, conn, users, issued>>
    BY <1>2, PlainWrites
  <2>2. QED
    BY <1>1, <2>1
<1>3. ASSUME NEW m \in Msgs, Challenge(m) PROVE Rest
  BY <1>1, <1>3, HandledWhere, ChallengeWrites
<1>4. ASSUME NEW m \in Msgs, Subscribe(m) PROVE Rest
  BY <1>1, <1>4, HandledWhere, SubscriptionWrites DEF SameCredentials
<1>5. ASSUME NEW m \in Msgs, ExecuteAuth(m) PROVE Rest
  <2>1. /\ UNCHANGED <<now, users, issued>>
        /\ \A c \in Conns : conn'[c] = conn[c] \/ conn'[c].authenticated
    BY <1>5, HandledWhere, ExecuteAuthWrites
  <2>2. QED
    BY <1>1, <2>1
<1>6. ASSUME NEW c \in Conns, Connection(c) PROVE Rest
  BY <1>1, <1>6, ConnectionWrites DEF SameCredentials
<1>7. ASSUME Heartbeat PROVE Rest
  BY <1>1, <1>7, HeartbeatWrites DEF SameCredentials
<1>8. ASSUME NEW m \in Msgs, NEW c \in Conns, ClientMessage(m, c) PROVE Rest
  BY <1>1, <1>8, ClientMessageWrites DEF SameCredentials
<1>9. ASSUME Environment PROVE Rest
  BY <1>1, <1>9, EnvironmentWrites
<1>10. Rest
  BY <1>2, <1>3, <1>4, <1>5, <1>6, <1>7, <1>8, <1>9, StepCases DEF Next
<1>11. \A m \in Msgs : ~Free(m)' => seen[m] \subseteq seen'[m] /\ InForce' \subseteq seen'[m]
  BY DEF Next, Notes
<1>12. QED
  BY <1>10, <1>11 DEF Growing

LEMMA PaidStays ==
    ASSUME TypeOK, TypeOK', Growing,
           NEW e \in Events \cup AuthEvents, NEW v \in Stated, HasPaid(e, v)
    PROVE  HasPaid(e, v)'
<1> DEFINE p == Event[e].pubkey
<1>1. p \in Pubkeys /\ Setting[v].minBalance \in Int
  BY AdmissionAssumption DEF Stated
<1>2. /\ users[p].admitted => users'[p].admitted
      /\ users[p].balance <= users'[p].balance
  BY <1>1 DEF Growing
<1>3. users[p].balance \in Nat /\ users'[p].balance \in Nat
  BY <1>1 DEF TypeOK, User
<1>4. QED
  BY <1>1, <1>2, <1>3 DEF HasPaid

(* The message is the same, further on perhaps. *)
SameMessage(m) ==
    /\ msg'[m].conn = msg[m].conn /\ msg'[m].type = msg[m].type
    /\ msg'[m].event = msg[m].event /\ msg'[m].answer = msg[m].answer
    /\ msg'[m].since = msg[m].since

(* What has been found of a message stays true of it. *)
LEMMA Carried ==
    ASSUME TypeOK, TypeOK', Growing, NEW m \in Msgs, Tracked(m), ~Free(m)', SameMessage(m)
    PROVE  /\ (msg[m].stage # "limiting" \/ msg'[m].stage = "limiting"
                  \/ msg[m].type \in {"EVENT", "AUTH"}) => Tracked(m)'
           /\ Known(m) => Known(m)'
           /\ \A v \in Stated : Acceptable(m, v) => Acceptable(m, v)'
           /\ \A v \in Stated : msg[m].type \in {"EVENT", "AUTH"} /\ Payable(m, v) => Payable(m, v)'
<1> DEFINE a == msg[m].conn
<1>0. PICK e : e = msg[m].event
  OBVIOUS
<1>1. /\ now \in Nat /\ now' \in Nat /\ issued \in Nat /\ issued' \in Nat /\ msg[m].since \in Nat
      /\ now <= now' /\ issued <= issued'
      /\ seen[m] \subseteq seen'[m] /\ InForce' \subseteq seen'[m]
  BY AdmissionAssumption DEF TypeOK, Msg, Growing
<1>2. /\ a \in Conns /\ msg[m].since <= now
      /\ msg[m].type \in {"EVENT", "AUTH"} => e \in Events \cup AuthEvents
      /\ msg[m].type = "AUTH" => msg[m].answer \in 1..issued
      /\ msg[m].stage # "limiting" => msg[m].type \in {"EVENT", "AUTH"}
  BY <1>0 DEF Tracked
<1>3. ASSUME msg[m].stage # "limiting" \/ msg'[m].stage = "limiting"
                \/ msg[m].type \in {"EVENT", "AUTH"}
      PROVE  Tracked(m)'
  <2>1. msg[m].since <= now' /\ 1..issued \subseteq 1..issued'
    BY <1>1, <1>2
  <2>2. QED
    BY <1>0, <1>1, <1>2, <1>3, <2>1 DEF Tracked, SameMessage
<1>4. Known(m) => Known(m)'
  BY <1>1, <1>2 DEF Known, SameMessage, Growing
<1>5. ASSUME NEW v \in Stated, Acceptable(m, v) PROVE Acceptable(m, v)'
  <2>1. PICK t \in msg[m].since..now : CanAccept(e, v, t)
    BY <1>0, <1>5 DEF Acceptable
  <2>2. t \in msg[m].since..now'
    BY <1>1
  <2>3. CanAccept(e, v, t)'
    BY <2>1 DEF CanAccept
  <2>4. QED
    BY <1>0, <1>1, <1>5, <2>2, <2>3 DEF Acceptable, SameMessage
<1>6. ASSUME NEW v \in Stated, msg[m].type \in {"EVENT", "AUTH"}, Payable(m, v)
      PROVE  Payable(m, v)'
  <2>1. e \in Events \cup AuthEvents
    BY <1>2, <1>6
  <2>2. NeedsAdmission(e, v)' <=> NeedsAdmission(e, v)
    BY DEF NeedsAdmission, AsksAdmission
  <2>3. HasPaid(e, v) => HasPaid(e, v)'
    BY <2>1, PaidStays
  <2>4. QED
    BY <1>0, <1>6, <2>2, <2>3 DEF Payable, SameMessage
<1>7. QED
  BY <1>3, <1>4, <1>5, <1>6

(* A message that a step leaves alone. *)
LEMMA UntouchedSound ==
    ASSUME TypeOK, TypeOK', Growing, MessagesSound, NEW m \in Msgs,
           msg'[m] = msg[m], ~Free(m)'
    PROVE  Tracked(m)' /\ Cleared(m)' /\ Judged(m)' /\ Accepted(m)'
<1>1. ~Free(m) /\ SameMessage(m) /\ msg'[m].stage = msg[m].stage /\ msg'[m].terms = msg[m].terms
  BY DEF Free, SameMessage
<1>2. Tracked(m) /\ Cleared(m) /\ Judged(m) /\ Accepted(m)
  BY <1>1 DEF MessagesSound
<1>3. Tracked(m)'
  BY <1>1, <1>2, Carried
<1>4. Cleared(m)'
  <2>1. Known(m) => Known(m)'
    BY <1>1, <1>2, Carried
  <2>2. QED
    BY <1>1, <1>2, <2>1 DEF Cleared, SameMessage
<1>5. Judged(m)'
  <2>1. \A v \in Stated : Acceptable(m, v) => Acceptable(m, v)'
    BY <1>1, <1>2, Carried
  <2>2. QED
    BY <1>1, <1>2, <2>1 DEF Judged
<1>6. Accepted(m)'
  <2>1. msg[m].stage = "execute" => msg[m].type \in {"EVENT", "AUTH"}
    BY <1>2 DEF Tracked
  <2>2. \A v \in Stated : /\ Acceptable(m, v) => Acceptable(m, v)'
                          /\ msg[m].type \in {"EVENT", "AUTH"} /\ Payable(m, v) => Payable(m, v)'
    BY <1>1, <1>2, Carried
  <2>3. QED
    BY <1>1, <1>2, <2>1, <2>2 DEF Accepted
<1>7. QED
  BY <1>3, <1>4, <1>5, <1>6

(* Under the defaults nobody has to pay. *)
LEMMA DefaultIsFree == \A e : ~NeedsAdmission(e, Default)
BY AdmissionAssumption DEF NeedsAdmission, AsksAdmission

(* canAcceptEvent and isUserAdmitted agree on a version, or the first read *)
(* the defaults, which ask for no payment.                                 *)
LEMMA JudgeDecides ==
    ASSUME TypeOK, MessagesSound, NEW m \in Msgs, Judge(m), ~Free(m)'
    PROVE  \/ /\ GoTo(m, "execute")
              /\ \E v \in Stated : Acceptable(m, v) /\ Payable(m, v)
           \/ \E terms \in Stated, v \in Stated :
                 /\ msg' = [msg EXCEPT ![m].stage = "lookup", ![m].terms = terms]
                 /\ Acceptable(m, v) /\ v \in {terms, Default}
<1> DEFINE e == msg[m].event
<1>1. ~Free(m) /\ SettingsTypeOK
  BY DEF Judge, At, Free, Ended, TypeOK
<1>2. msg[m].since <= now /\ InForce \subseteq seen[m]
  BY <1>1 DEF MessagesSound, Tracked
<1>3. now \in msg[m].since..now
  BY <1>2 DEF TypeOK, Msg
<1>4. ~Answer(m)
  BY AnswerWrites
<1>5. PICK p \in ReadPairs :
          \/ /\ CanAccept(e, p[1].returned, now) /\ ~NeedsAdmission(e, p[2].returned)
             /\ GoTo(m, "execute")
          \/ /\ CanAccept(e, p[1].returned, now)
             /\ msg' = [msg EXCEPT ![m].stage = "lookup", ![m].terms = p[2].returned]
  BY <1>4 DEF Judge, SettingsPairs
<1>6. PICK v, terms \in Stated : /\ v = p[1].returned /\ terms = p[2].returned
                                 /\ v \in InForce /\ v \in {terms, Default}
  BY <1>1, PairTyped
<1>7. Acceptable(m, v)
  BY <1>2, <1>3, <1>5, <1>6 DEF Acceptable
<1>8. CASE ~NeedsAdmission(e, terms) /\ GoTo(m, "execute")
  <2>1. ~NeedsAdmission(e, v)
    BY <1>6, <1>8, DefaultIsFree
  <2>2. QED
    BY <1>7, <1>8, <2>1 DEF Payable
<1>9. CASE msg' = [msg EXCEPT ![m].stage = "lookup", ![m].terms = terms]
  BY <1>6, <1>7, <1>9
<1>10. QED
  BY <1>5, <1>6, <1>8, <1>9

LEMMA PlainSound ==
    ASSUME TypeOK, TypeOK', Growing, MessagesSound, NEW m \in Msgs, Plain(m), ~Free(m)'
    PROVE  Tracked(m)' /\ Cleared(m)' /\ Judged(m)' /\ Accepted(m)'
<1>1. ~Free(m)
  BY DEF Plain, MessageLimited, Handle, Invalid, Valid, EventLimited, Judge, Lookup,
         ExecuteEvent, Fail, Throw, At, Free, Ended
<1>2. Tracked(m) /\ Cleared(m) /\ Judged(m)
  BY <1>1 DEF MessagesSound
(* What every step that goes on has in common. *)
<1>3. ASSUME SameMessage(m), msg[m].type \in {"EVENT", "AUTH"},
             msg[m].type = "EVENT" => Known(m)
      PROVE  /\ Tracked(m)' /\ Cleared(m)'
             /\ \A v \in Stated : /\ Acceptable(m, v) => Acceptable(m, v)'
                                  /\ Payable(m, v) => Payable(m, v)'
  <2>1. /\ Tracked(m)' /\ (Known(m) => Known(m)')
        /\ \A v \in Stated : /\ Acceptable(m, v) => Acceptable(m, v)'
                             /\ Payable(m, v) => Payable(m, v)'
    BY <1>2, <1>3, Carried
  <2>2. Cleared(m)'
    BY <1>3, <2>1 DEF Cleared, SameMessage
  <2>3. QED
    BY <2>1, <2>2
<1>4. msg[m].stage # "limiting" => /\ msg[m].type \in {"EVENT", "AUTH"}
                                   /\ msg[m].type = "EVENT" => Known(m)
  BY <1>2 DEF Tracked, Cleared
<1>5. ASSUME NEW stage \in Stages, GoTo(m, stage)
      PROVE  SameMessage(m) /\ msg'[m].stage = stage
  BY <1>5, GoToWrites DEF SameMessage
<1>6. {"validating", "rating", "execute"} \subseteq Stages
  BY DEF Stages
<1>7. CASE Handle(m) /\ GoTo(m, "validating")
  <2>1. msg[m].type \in {"EVENT", "AUTH"}
    BY <1>7 DEF Handle
  <2>2. msg[m].type = "EVENT" => Known(m)
    <3>1. SUFFICES ASSUME msg[m].type = "EVENT", ~conn[msg[m].conn].authenticated PROVE Known(m)
      BY DEF Known
    <3>2. PICK r \in Reads : Has(r.returned, "authentication") /\ ~MustAuthenticate(m, r.returned)
      BY <1>7, <3>1 DEF Handle, NotAsked
    <3>3. ~Setting[r.returned].authentication
      BY <3>1, <3>2 DEF MustAuthenticate
    <3>4. r.returned \in seen[m]
      BY <1>2, ReadTyped DEF Tracked, TypeOK
    <3>5. QED
      BY <3>3, <3>4 DEF Known
  <2>3. SameMessage(m) /\ msg'[m].stage = "validating"
    BY <1>5, <1>6, <1>7
  <2>4. QED
    BY <1>3, <2>1, <2>2, <2>3 DEF Judged, Accepted
<1>8. CASE Valid(m) /\ GoTo(m, "rating")
  <2>1. SameMessage(m) /\ msg'[m].stage = "rating" /\ msg[m].stage # "limiting"
    BY <1>5, <1>6, <1>8 DEF Valid, At
  <2>2. QED
    BY <1>3, <1>4, <2>1 DEF Judged, Accepted
<1>9. CASE Judge(m)
  <2>1. msg[m].stage # "limiting"
    BY <1>9 DEF Judge, At
  <2>2. CASE GoTo(m, "execute") /\ \E v \in Stated : Acceptable(m, v) /\ Payable(m, v)
    <3>1. SameMessage(m) /\ msg'[m].stage = "execute"
      BY <1>5, <1>6, <2>2
    <3>2. QED
      BY <1>3, <1>4, <2>1, <2>2, <3>1 DEF Judged, Accepted
  <2>3. ASSUME NEW terms \in Stated, NEW v \in Stated,
               msg' = [msg EXCEPT ![m].stage = "lookup", ![m].terms = terms],
               Acceptable(m, v), v \in {terms, Default}
        PROVE  Tracked(m)' /\ Cleared(m)' /\ Judged(m)' /\ Accepted(m)'
    <3>1. SameMessage(m) /\ msg'[m].stage = "lookup" /\ msg'[m].terms = terms
      BY <2>3, LookupWrites DEF SameMessage
    <3>2. Tracked(m)' /\ Cleared(m)' /\ Acceptable(m, v)'
      BY <1>3, <1>4, <2>1, <2>3, <3>1
    <3>3. QED
      BY <2>3, <3>1, <3>2 DEF Judged, Accepted
  <2>4. QED
    BY <1>9, <2>2, <2>3, JudgeDecides
<1>10. CASE Lookup(m) /\ GoTo(m, "execute")
  <2>1. SameMessage(m) /\ msg'[m].stage = "execute"
    BY <1>5, <1>6, <1>10
  <2>2. msg[m].stage = "lookup" /\ HasPaid(msg[m].event, msg[m].terms)
    <3>1. ~Answer(m)
      BY <1>10, AnswerWrites
    <3>2. QED
      BY <1>10, <3>1 DEF Lookup, At
  <2>3. PICK v \in Stated : Acceptable(m, v) /\ v \in {msg[m].terms, Default}
    BY <1>2, <2>2 DEF Judged
  <2>4. Payable(m, v)
    BY <2>2, <2>3, DefaultIsFree DEF Payable
  <2>5. QED
    BY <1>3, <1>4, <2>1, <2>2, <2>3, <2>4 DEF Judged, Accepted
<1>11. QED
  BY <1>7, <1>8, <1>9, <1>10, PlainWrites

LEMMA ArrivalSound ==
    ASSUME TypeOK, TypeOK', Growing, NEW m \in Msgs, NEW c \in Conns, ClientMessage(m, c)
    PROVE  Tracked(m)' /\ Cleared(m)' /\ Judged(m)' /\ Accepted(m)'
<1>1. PICK type \in Types, e \in Events \cup AuthEvents \cup {NoEvent}, n \in Nat :
          /\ msg'[m] = [stage |-> "limiting", conn |-> c, type |-> type, event |-> e,
                        answer |-> n, terms |-> None, since |-> now]
          /\ type \in {"EVENT", "AUTH"} => e \in Events \cup AuthEvents
          /\ type = "AUTH" => n \in 1..issued
  BY ArriveWrites
<1>2. /\ msg'[m].stage = "limiting" /\ msg'[m].conn = c /\ msg'[m].type = type
      /\ msg'[m].event = e /\ msg'[m].answer = n /\ msg'[m].since = now
  BY <1>1
<1>3. UNCHANGED <<now, issued>>
  BY ClientMessageWrites
<1>4. now <= now' /\ InForce' \subseteq seen'[m]
  BY <1>2 DEF Growing, Free, Ended
<1>5. Tracked(m)'
  BY <1>1, <1>2, <1>3, <1>4 DEF Tracked
<1>6. QED
  BY <1>2, <1>5 DEF Cleared, Judged, Accepted

LEMMA MessagesStep ==
    TypeOK /\ TypeOK' /\ MessagesSound /\ [Next]_vars => MessagesSound'
<1>. SUFFICES ASSUME TypeOK, TypeOK', MessagesSound, [Next]_vars PROVE MessagesSound'
  OBVIOUS
<1>1. CASE UNCHANGED vars
  <2>1. InForce' = InForce
    BY <1>1 DEF vars, settingsVars, InForce, Reads, Loads
  <2>2. Growing
    <3>1. now \in Nat /\ issued \in Nat /\ \A p \in Pubkeys : users[p].balance \in Nat
      BY AdmissionAssumption DEF TypeOK, User
    <3>2. \A m \in Msgs : ~Free(m)' => InForce \subseteq seen[m]
      BY <1>1 DEF vars, MessagesSound, Tracked, Free
    <3>3. QED
      BY <1>1, <2>1, <3>1, <3>2 DEF vars, Growing
  <2>3. QED
    BY <1>1, <2>2, UntouchedSound DEF vars, MessagesSound
<1>2. CASE Next
  <2>1. Growing
    BY <1>2, Grows
  <2>2. ASSUME NEW m \in Msgs, \A l \in Msgs : l # m => msg'[l] = msg[l],
               ~Free(m)' => Tracked(m)' /\ Cleared(m)' /\ Judged(m)' /\ Accepted(m)'
        PROVE  MessagesSound'
    BY <2>1, <2>2, UntouchedSound DEF MessagesSound
  <2>3. ASSUME UNCHANGED msg PROVE MessagesSound'
    BY <2>1, <2>3, UntouchedSound DEF MessagesSound
  <2>4. ASSUME NEW m \in Msgs, Plain(m) PROVE MessagesSound'
    <3>1. \A l \in Msgs : l # m => msg'[l] = msg[l]
      BY <2>4, PlainWrites
    <3>2. ~Free(m)' => Tracked(m)' /\ Cleared(m)' /\ Judged(m)' /\ Accepted(m)'
      BY <2>1, <2>4, PlainSound
    <3>3. QED
      BY <2>2, <3>1, <3>2
  <2>5. ASSUME NEW m \in Msgs, Challenge(m) \/ Subscribe(m) \/ ExecuteAuth(m)
        PROVE  MessagesSound'
    <3>1. Free(m)' /\ \A l \in Msgs : l # m => msg'[l] = msg[l]
      BY <2>5, HandledWhere, ChallengeWrites, SubscriptionWrites, ExecuteAuthWrites
    <3>2. QED
      BY <2>2, <3>1
  <2>6. ASSUME NEW m \in Msgs, NEW c \in Conns, ClientMessage(m, c) PROVE MessagesSound'
    <3>1. \A l \in Msgs : l # m => msg'[l] = msg[l]
      BY <2>6, ArriveWrites
    <3>2. Tracked(m)' /\ Cleared(m)' /\ Judged(m)' /\ Accepted(m)'
      BY <2>1, <2>6, ArrivalSound
    <3>3. QED
      BY <2>2, <3>1, <3>2
  <2>7. ASSUME \/ \E c \in Conns : Connection(c)
               \/ Heartbeat
               \/ Environment
        PROVE  MessagesSound'
    BY <2>3, <2>7, ConnectionWrites, HeartbeatWrites, EnvironmentWrites
  <2>8. QED
    BY <1>2, <2>4, <2>5, <2>6, <2>7, StepCases DEF Next
<1>3. QED
  BY <1>1, <1>2

-----------------------------------------------------------------------------
(* The inductive invariant. *)

LEMMA AdmissionInit == Init => AdmissionInv
<1>. SUFFICES ASSUME Init PROVE AdmissionInv
  OBVIOUS
<1>1. Idle \in Msg /\ Fresh \in Conn /\ Idle.stage \in Ended
      /\ Fresh.challenge = 0 /\ ~Fresh.authenticated
  BY DEF Idle, Fresh, Msg, Conn, Types, Ended
<1>2. SettingsTypeOK
  <2>1. /\ file = First /\ torn = FALSE /\ changed = FALSE /\ cached = First /\ edits = 0
        /\ watched = TRUE /\ missed = FALSE
    BY DEF Init, SettingsInit
  <2>2. First \in Versions /\ 0 \in 0..MaxEdits
    BY SettingsAssumption
  <2>3. QED
    BY <2>1, <2>2 DEF SettingsTypeOK
<1>3. TypeOK
  <2>1. [admitted |-> FALSE, balance |-> 0] \in User /\ 0 \in Nat /\ 0 \in 0..MaxChallenges
    BY AdmissionAssumption DEF User
  <2>2. QED
    BY <1>1, <1>2, <2>1 DEF Init, TypeOK
<1>4. MessagesSound
  BY <1>1 DEF Init, MessagesSound, Free
<1>5. SentOnce /\ CurrentIsUnused /\ UsedIsSent /\ AuthenticatedByUse
  BY <1>1 DEF Init, SentOnce, CurrentIsUnused, UsedIsSent, AuthenticatedByUse
<1>6. HeardIsAlive
  BY DEF Init, HeardIsAlive
<1>7. QED
  BY <1>3, <1>4, <1>5, <1>6 DEF AdmissionInv

LEMMA AdmissionStep == AdmissionInv /\ [Next]_vars => AdmissionInv'
<1>. SUFFICES ASSUME AdmissionInv, [Next]_vars PROVE AdmissionInv'
  OBVIOUS
<1>1. TypeOK /\ MessagesSound /\ AuthInv /\ HeardIsAlive
  BY DEF AdmissionInv, AuthInv
<1>2. TypeOK'
  BY <1>1, AdmissionTypeStep
<1>3. MessagesSound' /\ AuthInv' /\ HeardIsAlive'
  BY <1>1, <1>2, MessagesStep, AuthStep, HeartbeatStep
<1>4. QED
  BY <1>2, <1>3 DEF AdmissionInv, AuthInv

LEMMA AdmissionInvariant == Spec => []AdmissionInv
<1>1. QED
  BY AdmissionInit, AdmissionStep, PTL DEF Spec

(* Every state of the adapters and of the messages in flight is a          *)
(* well-formed one.                                                        *)
THEOREM AdmissionTypeOK == Spec => []TypeOK
<1>1. AdmissionInv => TypeOK
  BY DEF AdmissionInv
<1>2. QED
  BY <1>1, AdmissionInvariant, PTL

(* However the settings file is edited while an event waits for the rate   *)
(* limiter and the database, the event reaches its strategy only if one    *)
(* version of the settings, in force at some time of its handling, accepts *)
(* it and asks for no more than its author has paid.                       *)
THEOREM AdmissionOneVersion == Spec => []AcceptedUnderOneVersion
<1>1. AdmissionInv => AcceptedUnderOneVersion
  <2>1. SUFFICES ASSUME AdmissionInv, NEW m \in Msgs, At(m, "execute")
                 PROVE  \E v \in seen[m] :
                            /\ \E t \in msg[m].since..now : CanAccept(msg[m].event, v, t)
                            /\ NeedsAdmission(msg[m].event, v) => HasPaid(msg[m].event, v)
    BY DEF AcceptedUnderOneVersion
  <2>2. Accepted(m) /\ msg[m].stage = "execute"
    BY <2>1 DEF AdmissionInv, MessagesSound, At, Free, Ended
  <2>3. QED
    BY <2>2 DEF Accepted, Acceptable, Payable
<1>2. QED
  BY <1>1, AdmissionInvariant, PTL

(* An EVENT reaches its strategy only on a connection on which a challenge *)
(* sent on that connection was answered, or under settings that asked for  *)
(* no authentication.                                                      *)
THEOREM AdmissionAuthenticated == Spec => []AcceptedIsAuthenticated
<1>1. AdmissionInv => AcceptedIsAuthenticated
  <2>1. SUFFICES ASSUME AdmissionInv, NEW m \in Msgs, At(m, "execute"), msg[m].type = "EVENT"
                 PROVE  \/ \E n \in sentOn[msg[m].conn] : uses[msg[m].conn][n] > 0
                        \/ \E v \in seen[m] : ~Setting[v].authentication
    BY DEF AcceptedIsAuthenticated
  <2>2. Tracked(m) /\ Cleared(m) /\ msg[m].stage = "execute"
    BY <2>1 DEF AdmissionInv, MessagesSound, At, Free, Ended
  <2>3. msg[m].conn \in Conns /\ Known(m)
    BY <2>1, <2>2 DEF Tracked, Cleared
  <2>4. QED
    BY <2>1, <2>3 DEF Known, AdmissionInv, AuthenticatedByUse
<1>2. QED
  BY <1>1, AdmissionInvariant, PTL

(* A signed answer authenticates one connection once, wherever and however *)
(* often it is sent again.                                                 *)
THEOREM AdmissionChallengeOnce == Spec => []ChallengeUsedOnce
<1>1. AdmissionInv => ChallengeUsedOnce
  <2>1. SUFFICES ASSUME AdmissionInv, NEW c \in Conns, NEW d \in Conns, NEW n \in Challenges
                 PROVE  uses[c][n] <= 1 /\ (uses[c][n] > 0 /\ uses[d][n] > 0 => c = d)
    BY DEF ChallengeUsedOnce
  <2>2. /\ uses[c][n] <= 1
        /\ uses[c][n] > 0 => n \in sentOn[c]
        /\ uses[d][n] > 0 => n \in sentOn[d]
        /\ c # d => sentOn[c] \cap sentOn[d] = {}
    BY <2>1 DEF AdmissionInv, UsedIsSent, SentOnce
  <2>3. QED
    BY <2>2
<1>2. QED
  BY <1>1, AdmissionInvariant, PTL

(* The heartbeat closes no client that was heard since the last one, or    *)
(* that has a subscription.                                                *)
THEOREM AdmissionTalkersStay == Spec => TalkersStay
<1> DEFINE Stays == \A c \in Conns : conn[c].state = "open" /\ conn'[c].state = "closing"
                                         => ~heard[c] /\ ~conn[c].subscribed
<1>1. AdmissionInv /\ [Next]_vars => [Stays]_vars
  <2>1. SUFFICES ASSUME AdmissionInv, [Next]_vars, NEW c \in Conns,
                        conn[c].state = "open", conn'[c].state = "closing"
                 PROVE  ~heard[c] /\ ~conn[c].subscribed
    OBVIOUS
  <2>2. TypeOK /\ MessagesSound /\ HeardIsAlive
    BY <2>1 DEF AdmissionInv
  <2>3. Idles(c)
    BY <2>1, <2>2, HeartbeatStep
  <2>4. QED
    BY <2>2, <2>3 DEF Idles, HeardIsAlive
<1>2. QED
  BY <1>1, AdmissionInvariant, PTL DEF Spec, TalkersStay

(* Only a step of its own ends a message. *)
LEMMA EndedHow ==
    ASSUME AdmissionInv, Next, NEW m \in Msgs, ~Free(m), Free(m)'
    PROVE  Answer(m) \/ Ends(m, "failed") \/ Throw(m)
<1>1. TypeOK /\ MessagesSound
  BY DEF AdmissionInv
<1>2. ~(UNCHANGED msg) /\ msg'[m] # msg[m]
  BY DEF Free
<1>3. ASSUME NEW l \in Msgs, Plain(l) PROVE Answer(m) \/ Ends(m, "failed") \/ Throw(m)
  <2>1. l = m
    BY <1>1, <1>2, <1>3, PlainWrites
  <2>2. QED
    BY <1>1, <1>3, <2>1, PlainWrites
<1>4. ASSUME NEW l \in Msgs, Challenge(l) \/ Subscribe(l) \/ ExecuteAuth(l) PROVE Answer(m)
  <2>1. Answer(l)
    BY <1>4 DEF Challenge, Subscribe, ExecuteAuth
  <2>2. l = m
    BY <1>1, <1>2, <2>1, AnswerWrites
  <2>3. QED
    BY <2>1, <2>2
<1>5. ASSUME NEW l \in Msgs, NEW c \in Conns, ClientMessage(l, c) PROVE FALSE
  <2>1. l = m
    BY <1>1, <1>2, <1>5, ArriveWrites
  <2>2. Free(l)
    BY <1>1, <1>5, ArriveWrites DEF Arrive
  <2>3. QED
    BY <2>1, <2>2
<1>6. ~(Heartbeat \/ Environment \/ \E c \in Conns : Connection(c))
  BY <1>1, <1>2, HeartbeatWrites, EnvironmentWrites, ConnectionWrites
<1>7. QED
  BY <1>3, <1>4, <1>5, <1>6, StepCases DEF Next

(* What a handler reads has been in force since its message arrived: it    *)
(* misses a section only in what was read of a torn file.                  *)
LEMMA ThrowsOnPartial ==
    ASSUME AdmissionInv, NEW m \in Msgs, ~Free(m), Throw(m)
    PROVE  seen[m] \cap Partial # {}
<1>1. SettingsTypeOK /\ InForce \subseteq seen[m]
  BY DEF AdmissionInv, TypeOK, MessagesSound, Tracked
<1>2. PICK r \in Reads : ~Has(r.returned, "authentication") \/ ~Has(r.returned, "info")
  BY DEF Throw
<1>3. r.returned \in Stated /\ r.returned \in seen[m]
  BY <1>1, ReadTyped
<1>4. r.returned # None
  BY <1>3, SettingsAssumption DEF Stated
<1>5. r.returned \notin Versions \cup {Default}
  BY <1>2, <1>4, AdmissionAssumption DEF Has
<1>6. QED
  BY <1>3, <1>5 DEF Stated

(* A client that keeps its socket open and is not told what became of its  *)
(* message was let down by the limiter, by the database, or by a settings  *)
(* file read while it was torn, whatever else changed between two awaits.  *)
THEOREM AdmissionSilence == Spec => SilenceIsExplained
<1> DEFINE Explained == \A m \in Msgs :
              ~Free(m) /\ Free(m)' /\ conn[msg[m].conn].state = "open" =>
                  msg'[m].stage \in {"told", "failed"} \/ seen[m] \cap Partial # {}
<1>1. AdmissionInv /\ [Next]_vars => [Explained]_vars
  <2>1. SUFFICES ASSUME AdmissionInv, Next, NEW m \in Msgs,
                        ~Free(m), Free(m)', conn[msg[m].conn].state = "open"
                 PROVE  msg'[m].stage \in {"told", "failed"} \/ seen[m] \cap Partial # {}
    OBVIOUS
  <2>2. TypeOK
    BY <2>1 DEF AdmissionInv
  <2>3. CASE Answer(m)
    BY <2>1, <2>2, <2>3, AnswerWrites
  <2>4. CASE Ends(m, "failed")
    <3>1. "failed" \in Ended
      BY DEF Ended
    <3>2. QED
      BY <2>2, <2>4, <3>1, EndsWrites
  <2>5. CASE Throw(m)
    BY <2>1, <2>5, ThrowsOnPartial
  <2>6. QED
    BY <2>1, <2>3, <2>4, <2>5, EndedHow
<1>2. QED
  BY <1>1, AdmissionInvariant, PTL DEF Spec, SilenceIsExplained
=============================================================================
