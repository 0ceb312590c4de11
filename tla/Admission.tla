------------------------------- MODULE Admission -------------------------------
(***************************************************************************)
(* A worker's WebSocket adapters and the way of a message through them: the *)
(* connection and its rate limit, the heartbeat, NIP-42 authentication, and *)
(* the checks an event passes before its strategy runs.                    *)
(*                                                                         *)
(* onClientMessage runs to its first await, and so do the others: between  *)
(* two awaits of one message, other messages of the same client are        *)
(* handled, the heartbeat strikes, the settings change, and payments       *)
(* arrive.  The verdicts of the rate limiter are the module RateLimiter's  *)
(* subject and are any here; what happens after Execute is EventStore's.   *)
(***************************************************************************)
EXTENDS Integers, FiniteSets, Settings

CONSTANTS
    Conns,         \* connections
    Msgs,          \* messages in flight
    Pubkeys,       \* authors
    RelayKey,      \* the relay's own public key
    Events,        \* events clients may send in EVENT messages
    AuthEvents,    \* events clients may sign to answer a challenge
    Event,         \* the content of every event
    Setting,       \* what each version of the settings says
    ChallengeLife, \* how long a challenge may be answered (10 minutes)
    MaxTime,       \* bound on the clock
    MaxChallenges, \* bound on the challenges issued
    MaxBalance,    \* bound on what a user pays
    MaxLoad        \* bound on the edits begun, the connections ever made and the
                   \* messages in flight, all together

ASSUME AdmissionAssumption ==
    /\ Events \cap AuthEvents = {}
    /\ None \notin Conns
    /\ \A e \in Events \cup AuthEvents : Event[e].pubkey \in Pubkeys
    /\ DOMAIN Setting = Versions \cup Partial \cup {Default}
    /\ \A v \in DOMAIN Setting : Setting[v].minBalance \in Int
    /\ \A v \in Versions \cup {Default} : Setting[v].sections = {"info", "authentication"}
    /\ ChallengeLife \in Nat
    /\ MaxTime \in Nat
    /\ MaxChallenges \in Nat
    /\ MaxBalance \in Nat
    /\ MaxLoad \in Nat
    /\ ~Setting[Default].payments /\ ~Setting[Default].requireAdmission

VARIABLES
    now,      \* the clock, in the unit of created_at
    conn,     \* conn[c]: the socket and its adapter
    msg,      \* msg[m]: the handling of a message
    users,    \* users[p]: the row of p in users, as payments leave it
    issued,   \* the number of challenges issued: the last one's name
    sentOn,   \* history: sentOn[c]: the challenges sent on connection c
    uses,     \* history: uses[c][n]: how often challenge n authenticated c
    heard,    \* history: heard[c]: a frame came since the last heartbeat
    seen      \* history: seen[m]: the settings in force since m arrived

vars == <<settingsVars, now, conn, msg, users, issued, sentOn, uses, heard, seen>>

Challenges == 1..MaxChallenges

Types == {"EVENT", "AUTH", "REQ", "CLOSE"}

NoEvent == "no event"

Conn == [state: {"none", "connecting", "unserved", "open", "closing", "closed"},
         alive: BOOLEAN, subscribed: BOOLEAN, authenticated: BOOLEAN,
         challenge: Nat, issuedAt: Nat]

(* What becomes of a message: its answer is sent, or dropped; or there is  *)
(* none, because an await failed or the handler threw.                     *)
Ended == {"told", "unheard", "failed", "thrown"}

Msg == [stage: {"limiting", "validating", "rating", "lookup", "execute"} \cup Ended,
        conn: Conns \cup {None}, type: Types, event: Events \cup AuthEvents \cup {NoEvent},
        answer: Nat, terms: Versions \cup Partial \cup {Default, None}, since: Nat]

User == [admitted: BOOLEAN, balance: Nat]

TypeOK ==
    /\ SettingsTypeOK
    /\ now \in Nat
    /\ conn \in [Conns -> Conn]
    /\ msg \in [Msgs -> Msg]
    /\ users \in [Pubkeys -> User]
    /\ issued \in 0..MaxChallenges
    /\ sentOn \in [Conns -> SUBSET Challenges]
    /\ uses \in [Conns -> [Challenges -> Nat]]
    /\ heard \in [Conns -> BOOLEAN]
    /\ seen \in [Msgs -> SUBSET (Versions \cup Partial \cup {Default})]

Fresh == [state |-> "none", alive |-> FALSE, subscribed |-> FALSE,
          authenticated |-> FALSE, challenge |-> 0, issuedAt |-> 0]

(* No message. *)
Idle == [stage |-> "told", conn |-> None, type |-> "CLOSE", event |-> NoEvent,
         answer |-> 0, terms |-> None, since |-> 0]

Init ==
    /\ SettingsInit
    /\ now = 0
    /\ conn = [c \in Conns |-> Fresh]
    /\ msg = [m \in Msgs |-> Idle]
    /\ users = [p \in Pubkeys |-> [admitted |-> FALSE, balance |-> 0]]
    /\ issued = 0
    /\ sentOn = [c \in Conns |-> {}]
    /\ uses = [c \in Conns |-> [n \in Challenges |-> 0]]
    /\ heard = [c \in Conns |-> FALSE]
    /\ seen = [m \in Msgs |-> {}]

-----------------------------------------------------------------------------
(* What the settings say of an event.  A limit of 0 and an empty whitelist *)
(* are no limits; a whitelist or blacklist is the set of the authors some  *)
(* prefix of it matches.                                                   *)

CanAccept(e, v, t) ==
    LET ev == Event[e]
        s == Setting[v]
    IN
    \/ ev.pubkey = RelayKey
    \/ /\ \A limit \in s.content :
             limit.maxLength > 0 /\ ev.kind \in limit.kinds => ev.length <= limit.maxLength
       /\ s.maxPositiveDelta > 0 => ev.created_at <= t + s.maxPositiveDelta
       /\ s.maxNegativeDelta > 0 => ev.created_at >= t - s.maxNegativeDelta
       /\ ev.pow >= s.minPow
       /\ ev.pubkeyPow >= s.minPubkeyPow
       /\ s.whitelist = {} \/ ev.pubkey \in s.whitelist
       /\ ev.pubkey \notin s.blacklist
       /\ s.kindWhitelist = {} \/ ev.kind \in s.kindWhitelist
       /\ ev.kind \notin s.kindBlacklist

(* Settings in which the section is an object.  In a file cut short after  *)
(* the line "info:" the section is null, and takes the place of the        *)
(* defaults'.                                                              *)
Has(v, section) == v # None /\ section \in Setting[v].sections

AsksAdmission(v) == Setting[v].payments \/ Setting[v].requireAdmission

(* With payments on, only authors some enabled fee schedule applies to     *)
(* need a row, whatever requireAdmission says.                             *)
NeedsAdmission(e, v) ==
    LET s == Setting[v] IN
    /\ AsksAdmission(v)
    /\ Event[e].pubkey # RelayKey
    /\ s.payments => \E fee \in s.fees : /\ fee.enabled
                                         /\ Event[e].pubkey \notin fee.pubkeys
                                         /\ Event[e].kind \notin fee.kinds

(* The row findByPubkey returns is good enough. *)
HasPaid(e, v) ==
    LET u == users[Event[e].pubkey] IN
    u.admitted /\ (Setting[v].minBalance > 0 => u.balance >= Setting[v].minBalance)

IsExpired(e) == Event[e].expires # 0 /\ Event[e].expires <= now

-----------------------------------------------------------------------------
At(m, stage) == msg[m].stage = stage

Free(m) == msg[m].stage \in Ended

GoTo(m, stage) == msg' = [msg EXCEPT ![m].stage = stage]

Ends(m, stage) == msg' = [msg EXCEPT ![m] = [Idle EXCEPT !.stage = stage]]

Listening == {"open", "closing"}

Load ==
    edits + Cardinality({m \in Msgs : ~Free(m)})
          + Cardinality({c \in Conns : conn[c].state # "none"})

(* An OK, a NOTICE, or the subscription itself is the answer of a message: *)
(* sendMessage drops it unless the socket is open.                         *)
Answer(m) ==
    Ends(m, IF conn[msg[m].conn].state = "open" THEN "told" ELSE "unheard")

(* setNewAuthChallenge: the connection forgets its previous challenge. *)
IssueChallenge(c) ==
    /\ issued < MaxChallenges
    /\ issued' = issued + 1
    /\ conn' = [conn EXCEPT ![c].challenge = issued + 1, ![c].issuedAt = now]
    /\ sentOn' = [sentOn EXCEPT ![c] = @ \cup {issued + 1}]
    /\ UNCHANGED uses

challengeVars == <<issued, sentOn, uses>>

(* The settings but for the worker's copy. *)
fileVars == <<file, torn, watched, changed, edits, missed>>

(* Every step notes in seen what the settings in force are after it. *)
Notes ==
    seen' = [m \in Msgs |-> IF Free(m)' THEN {} ELSE seen[m] \cup InForce']

-----------------------------------------------------------------------------
(* Connections. *)

(* onConnection: the adapter, and with it any listener for messages, is    *)
(* made when the rate limiter has answered; what is sent before is lost.   *)
Connect(c) ==
    /\ conn[c].state = "none"
    /\ Load < MaxLoad
    /\ conn' = [conn EXCEPT ![c].state = "connecting"]
    /\ Consulted
    /\ UNCHANGED <<fileVars, now, msg, users, challengeVars, heard>>

ConnectionAccepted(c) ==
    /\ conn[c].state = "connecting"
    /\ conn' = [conn EXCEPT ![c].state = "open", ![c].alive = TRUE]
    /\ heard' = [heard EXCEPT ![c] = TRUE]
    /\ Consulted
    /\ UNCHANGED <<fileVars, now, msg, users, challengeVars>>

ConnectionLimited(c) ==
    /\ conn[c].state = "connecting"
    /\ conn' = [conn EXCEPT ![c].state = "closed"]
    /\ UNCHANGED <<settingsVars, now, msg, users, challengeVars, heard>>

(* The limiter fails: onConnection rejects, the socket stays open, and no  *)
(* adapter will ever read it, probe it or close it.                        *)
ConnectionUnserved(c) ==
    /\ conn[c].state = "connecting"
    /\ conn' = [conn EXCEPT ![c].state = "unserved"]
    /\ UNCHANGED <<settingsVars, now, msg, users, challengeVars, heard>>

(* onClientClose: the client closes its socket, or the server's close()    *)
(* has gone through (ws destroys the socket of a peer that does not        *)
(* answer).  No listener is left.                                          *)
ClientClose(c) ==
    /\ conn[c].state \in Listening
    /\ conn' = [conn EXCEPT ![c].state = "closed", ![c].alive = FALSE,
                            ![c].subscribed = FALSE]
    /\ heard' = [heard EXCEPT ![c] = FALSE]
    /\ UNCHANGED <<settingsVars, now, msg, users, challengeVars>>

Idles(c) == ~conn[c].alive /\ ~conn[c].subscribed

(* Mutant: a probe that leaves the client marked alive. *)
ProbedAlive(c) == conn[c]

Probed(c) == [conn[c] EXCEPT !.alive = FALSE]

(* The server's timer: every adapter closes its client or probes it. *)
Heartbeat ==
    /\ \E c \in Conns : conn[c].state \in Listening
    /\ conn' = [c \in Conns |->
                   IF conn[c].state \notin Listening THEN conn[c]
                   ELSE IF Idles(c) THEN [conn[c] EXCEPT !.state = "closing"]
                   ELSE Probed(c)]
    /\ heard' = [c \in Conns |-> FALSE]
    /\ UNCHANGED <<settingsVars, now, msg, users, challengeVars>>

(* A ping, or the pong that answers the heartbeat's. *)
Pong(c) ==
    /\ conn[c].state \in Listening
    /\ conn' = [conn EXCEPT ![c].alive = TRUE]
    /\ heard' = [heard EXCEPT ![c] = TRUE]
    /\ UNCHANGED <<settingsVars, now, msg, users, challengeVars>>

-----------------------------------------------------------------------------
(* Messages. *)

(* Mutant: a client counts as alive only once its message is let through.  *)
AliveLater(c) == conn

MarkedAlive(c) == [conn EXCEPT ![c].alive = TRUE]

(* onClientMessage, up to the wait for the rate limiter, whose limits are  *)
(* the settings'.                                                          *)
Arrive(m, c, type, e, n) ==
    /\ Free(m)
    /\ Load < MaxLoad
    /\ conn[c].state \in Listening
    /\ conn' = MarkedAlive(c)
    /\ msg' = [msg EXCEPT ![m] = [stage |-> "limiting", conn |-> c, type |-> type,
                                  event |-> e, answer |-> n, terms |-> None,
                                  since |-> now]]
    /\ heard' = [heard EXCEPT ![c] = TRUE]
    /\ Consulted
    /\ UNCHANGED <<fileVars, now, users, challengeVars>>

(* The events and answers a client can send: it knows every challenge it   *)
(* was sent, on this or another of its connections.                        *)
ClientMessage(m, c) ==
    \/ \E e \in Events : Arrive(m, c, "EVENT", e, 0)
    \/ \E e \in AuthEvents, n \in 1..issued : Arrive(m, c, "AUTH", e, n)
    \/ \E type \in {"REQ", "CLOSE"} : Arrive(m, c, type, NoEvent, 0)

(* Over the message rate, or not a message at all: a NOTICE. *)
MessageLimited(m) ==
    /\ At(m, "limiting")
    /\ Answer(m)
    /\ UNCHANGED <<settingsVars, now, conn, users, challengeVars, heard>>

(* Mutant: a client that has a challenge is not asked again. *)
AskedOnce(m, v) ==
    /\ conn[msg[m].conn].challenge = 0
    /\ ~conn[msg[m].conn].authenticated
    /\ msg[m].type \notin {"AUTH", "CLOSE", "REQ"}
    /\ Has(v, "authentication") /\ Setting[v].authentication

(* isAuthenticationRequired, under version v of the settings. *)
MustAuthenticate(m, v) ==
    /\ ~conn[msg[m].conn].authenticated
    /\ msg[m].type \notin {"AUTH", "CLOSE", "REQ"}
    /\ Has(v, "authentication") /\ Setting[v].authentication

(* The message is within its rate: it is refused with a new challenge, or  *)
(* handed to its handler.                                                  *)
Challenge(m) ==
    /\ At(m, "limiting")
    /\ \E r \in Reads : MustAuthenticate(m, r.returned) /\ cached' = r.kept
    /\ IssueChallenge(msg[m].conn)
    /\ Answer(m)
    /\ UNCHANGED <<fileVars, now, users, heard>>

(* isAuthenticationRequired looks no further. *)
NotAsked(m) == conn[msg[m].conn].authenticated \/ msg[m].type = "AUTH"

(* An EVENT or AUTH message goes on to verify its event's id and signature. *)
Handle(m) ==
    /\ At(m, "limiting")
    /\ msg[m].type \in {"EVENT", "AUTH"}
    /\ \/ NotAsked(m) /\ UNCHANGED cached
       \/ \E r \in Reads : /\ Has(r.returned, "authentication")
                           /\ ~MustAuthenticate(m, r.returned)
                           /\ cached' = r.kept
    /\ GoTo(m, "validating")
    /\ UNCHANGED <<fileVars, now, conn, users, challengeVars, heard>>

(* REQ and CLOSE change the map of subscriptions, if the adapter still has *)
(* its listeners.                                                          *)
Subscribe(m) ==
    LET c == msg[m].conn IN
    /\ At(m, "limiting")
    /\ msg[m].type \in {"REQ", "CLOSE"}
    /\ conn' = [conn EXCEPT ![c].subscribed =
                   IF conn[c].state = "closed" THEN @ ELSE msg[m].type = "REQ"]
    /\ Answer(m)
    /\ UNCHANGED <<settingsVars, now, users, challengeVars, heard>>

(* isEventValid and, for an EVENT, isExpiredEvent. *)
Invalid(m) ==
    /\ At(m, "validating")
    /\ Answer(m)
    /\ UNCHANGED <<settingsVars, now, conn, users, challengeVars, heard>>

Valid(m) ==
    /\ At(m, "validating")
    /\ msg[m].type = "EVENT" => ~IsExpired(msg[m].event)
    /\ \E r \in Reads : Has(r.returned, "info") /\ cached' = r.kept
    /\ GoTo(m, "rating")
    /\ UNCHANGED <<fileVars, now, conn, users, challengeVars, heard>>

(* Over the event rate. *)
EventLimited(m) ==
    /\ At(m, "rating")
    /\ Answer(m)
    /\ UNCHANGED <<settingsVars, now, conn, users, challengeVars, heard>>

(* Mutant: canAcceptEvent with the settings of the message's arrival.      *)
StalePairs(m) ==
    {<<[returned |-> v, kept |-> r.kept], r>> : v \in seen[m], r \in Reads}

SettingsPairs(m) == ReadPairs

(* Within the event rate: canAcceptEvent and the start of isUserAdmitted,  *)
(* each with its own settings() call, in one run of the event loop.  Both  *)
(* look for the relay's key, the second if admission is asked for.         *)
Judge(m) ==
    LET e == msg[m].event IN
    /\ At(m, "rating")
    /\ cached # None => Has(cached, "info")
    /\ \E p \in SettingsPairs(m) :
          /\ cached' = p[2].kept
          /\ \/ /\ ~CanAccept(e, p[1].returned, now)
                /\ Answer(m)
             \/ /\ CanAccept(e, p[1].returned, now)
                /\ AsksAdmission(p[2].returned) => Has(p[2].returned, "info")
                /\ ~NeedsAdmission(e, p[2].returned)
                /\ GoTo(m, "execute")
             \/ /\ CanAccept(e, p[1].returned, now)
                /\ Has(p[2].returned, "info") /\ NeedsAdmission(e, p[2].returned)
                /\ msg' = [msg EXCEPT ![m].stage = "lookup", ![m].terms = p[2].returned]
    /\ UNCHANGED <<fileVars, now, conn, users, challengeVars, heard>>

(* The row of the author, judged by the settings isUserAdmitted began with. *)
Lookup(m) ==
    /\ At(m, "lookup")
    /\ \/ HasPaid(msg[m].event, msg[m].terms) /\ GoTo(m, "execute")
       \/ ~HasPaid(msg[m].event, msg[m].terms) /\ Answer(m)
    /\ UNCHANGED <<settingsVars, now, conn, users, challengeVars, heard>>

(* The event strategy takes over. *)
ExecuteEvent(m) ==
    /\ At(m, "execute")
    /\ msg[m].type = "EVENT"
    /\ Answer(m)
    /\ UNCHANGED <<settingsVars, now, conn, users, challengeVars, heard>>

(* Mutant: setClientToAuthenticated leaves the challenge. *)
AuthenticatedKeeping(c) == [conn EXCEPT ![c].authenticated = TRUE]

Authenticated(c) == [conn EXCEPT ![c].authenticated = TRUE, ![c].challenge = 0]

(* The signed event names the challenge the connection has, in time. *)
Verified(c, n) == conn[c].challenge = n /\ conn[c].issuedAt + ChallengeLife > now

(* SignedAuthEventStrategy: the answer must be the connection's present    *)
(* challenge, in time.  Without a challenge the strategy throws, and the   *)
(* handler answers with an error.                                          *)
ExecuteAuth(m) ==
    LET c == msg[m].conn
        n == msg[m].answer
    IN
    /\ At(m, "execute")
    /\ msg[m].type = "AUTH"
    /\ IF Verified(c, n)
       THEN /\ conn' = Authenticated(c)
            /\ uses' = [uses EXCEPT ![c][n] = @ + 1]
       ELSE UNCHANGED <<conn, uses>>
    /\ Answer(m)
    /\ UNCHANGED <<settingsVars, now, users, issued, sentOn, heard>>

(* The limiter or the database fails an await: onClientMessage logs it and *)
(* nobody is answered.                                                     *)
Fail(m) ==
    /\ msg[m].stage \in {"limiting", "rating", "lookup"}
    /\ Ends(m, "failed")
    /\ UNCHANGED <<settingsVars, now, conn, users, challengeVars, heard>>

(* The settings lack a section the handler looks into: a TypeError, logged *)
(* and not answered either.                                                *)
Throw(m) ==
    /\ \E r \in Reads :
          /\ cached' = r.kept
          /\ \/ /\ At(m, "limiting") /\ msg[m].type = "EVENT" /\ ~NotAsked(m)
                /\ ~Has(r.returned, "authentication")
             \/ At(m, "validating") /\ ~Has(r.returned, "info")
             \/ At(m, "rating") /\ ~Has(r.returned, "info")
    /\ Ends(m, "thrown")
    /\ UNCHANGED <<fileVars, now, conn, users, challengeVars, heard>>

-----------------------------------------------------------------------------
(* The environment. *)

(* A payment that covers the fee is confirmed: Ledger's Credit, with the   *)
(* admission in the same transaction.  A lesser one admits nobody, and the *)
(* balance of an author who is not admitted is not looked at.              *)
Credit(p) ==
    /\ users[p].balance < MaxBalance
    /\ users' = [users EXCEPT ![p] = [admitted |-> TRUE, balance |-> @.balance + 1]]
    /\ UNCHANGED <<settingsVars, now, conn, msg, challengeVars, heard>>

Tick ==
    /\ now < MaxTime
    /\ now' = now + 1
    /\ UNCHANGED <<settingsVars, conn, msg, users, challengeVars, heard>>

SettingsStep ==
    /\ SettingsNext
    /\ UNCHANGED <<now, conn, msg, users, challengeVars, heard>>
    /\ Load' <= MaxLoad

Connection(c) ==
    \/ Connect(c) \/ ConnectionAccepted(c) \/ ConnectionLimited(c)
    \/ ConnectionUnserved(c) \/ ClientClose(c) \/ Pong(c)

Handling(m) ==
    \/ MessageLimited(m) \/ Challenge(m) \/ Handle(m) \/ Subscribe(m)
    \/ Invalid(m) \/ Valid(m) \/ EventLimited(m) \/ Judge(m) \/ Lookup(m)
    \/ ExecuteEvent(m) \/ ExecuteAuth(m)

Step ==
    \/ SettingsStep
    \/ Heartbeat
    \/ Tick
    \/ \E c \in Conns : Connection(c)
    \/ \E m \in Msgs : Handling(m) \/ Fail(m) \/ Throw(m)
    \/ \E m \in Msgs, c \in Conns : ClientMessage(m, c)
    \/ \E p \in Pubkeys : Credit(p)

Next == Step /\ Notes

(* The event loop goes on, timers strike, the watcher's events arrive.     *)
(* Nobody has to send, pay, edit or finish an edit.                        *)
Fairness ==
    /\ \A c \in Conns : WF_vars(conn[c].state = "closing" /\ ClientClose(c) /\ Notes)
    /\ WF_vars(Heartbeat /\ Notes)
    /\ WF_vars(Reload /\ UNCHANGED <<now, conn, msg, users, challengeVars, heard>> /\ Notes)

Spec == Init /\ [][Next]_vars /\ Fairness

-----------------------------------------------------------------------------
(* An event gets as far as its strategy only if some version of the        *)
(* settings that was in force while it was handled accepts it at some      *)
(* moment of that time and asks for no more than its author has paid: the  *)
(* checks of two versions are never mixed, though every check reads the    *)
(* settings anew and the waits between them let the settings change.       *)
AcceptedUnderOneVersion ==
    \A m \in Msgs : At(m, "execute") =>
        LET e == msg[m].event IN
        \E v \in seen[m] :
            /\ \E t \in msg[m].since..now : CanAccept(e, v, t)
            /\ NeedsAdmission(e, v) => HasPaid(e, v)

(* An EVENT gets as far only on a connection on which a challenge sent on  *)
(* that very connection was answered, unless the settings asked for no     *)
(* authentication at some time of its handling.                            *)
AcceptedIsAuthenticated ==
    \A m \in Msgs : At(m, "execute") /\ msg[m].type = "EVENT" =>
        \/ \E n \in sentOn[msg[m].conn] : uses[msg[m].conn][n] > 0
        \/ \E v \in seen[m] : ~Setting[v].authentication

(* A signed answer is worth one authentication of one connection, however  *)
(* often and wherever it is sent again.                                    *)
ChallengeUsedOnce ==
    \A c, d \in Conns, n \in Challenges :
        /\ uses[c][n] <= 1
        /\ uses[c][n] > 0 /\ uses[d][n] > 0 => c = d

(* The heartbeat never closes a client that sent anything since the last   *)
(* one, a refused message included, or that has a subscription.            *)
TalkersStay ==
    [][\A c \in Conns :
          conn[c].state = "open" /\ conn'[c].state = "closing"
              => ~heard[c] /\ ~conn[c].subscribed]_vars

(* A client that keeps its socket open is told what became of a message,   *)
(* unless the limiter or the database failed, or a file that was torn when *)
(* it was read was in force while the message was handled.  Nothing else   *)
(* that is read anew between two awaits leaves a message without answer.   *)
SilenceIsExplained ==
    [][\A m \in Msgs :
          ~Free(m) /\ Free(m)' /\ conn[msg[m].conn].state = "open" =>
              msg'[m].stage \in {"told", "failed"} \/ seen[m] \cap Partial # {}]_vars

(* A client that falls silent for good and has no subscription does not    *)
(* keep its socket.                                                        *)
DeadPeersClosed ==
    \A c \in Conns :
        <>[](~heard[c] /\ ~conn[c].subscribed) =>
            <>[](conn[c].state \notin Listening)
=============================================================================
