------------------------------ MODULE RateLimiter ------------------------------
(***************************************************************************)
(* The sliding-window rate limiter.  A call (a connection, a message, an   *)
(* event, a page request) hits one Redis sorted set per configured limit,  *)
(* one limit after the other, and is turned away if any of them was over   *)
(* its rate.  A hit is four Redis commands, sent together and awaited      *)
(* together; Redis runs one command at a time, so the commands of calls    *)
(* that are in flight on several workers interleave, and time passes       *)
(* between them.  Time is the milliseconds of Date.now(), which the        *)
(* workers of one host and its Redis share.                                *)
(***************************************************************************)
EXTENDS Integers, FiniteSets

CONSTANTS
    Calls,       \* calls in flight that share the keys (one client's, say)
    NumLimits,   \* how many limits are configured
    Period,      \* Period[l]: the window of limit l, in milliseconds
    Rate,        \* Rate[l]: the hits a window may have
    MsPerSecond, \* EXPIRE counts seconds
    MaxTime,     \* bound on the clock
    Faults       \* TRUE if Redis may fail a call

LimitIds == 1..NumLimits

ASSUME RateLimiterAssumption ==
    /\ NumLimits \in Nat \ {0}
    /\ Period \in [LimitIds -> Nat \ {0}]
    /\ Rate \in [LimitIds -> Nat]
    /\ MsPerSecond \in Nat \ {0}
    /\ MaxTime \in Nat
    /\ Faults \in BOOLEAN

VARIABLES
    now,      \* Date.now()
    zset,     \* zset[l]: the timestamps in the sorted set of limit l
    expires,  \* expires[l]: when Redis drops the set; Never without a TTL
    call,     \* call[c]: what call c is doing
    passed,   \* history: passed[l]: when the calls let through hit limit l,
              \* for the last period
    late,     \* history: late[l]: the timestamps added a period late or more
    settled,  \* history: settled[l]: the members whose EXPIRE has run
    blurred   \* history: blurred[l]: until when a hit lost to an expiry that
              \* came between its ZADD and its EXPIRE would have counted

vars == <<now, zset, expires, call, passed, late, settled, blurred>>

Never == -1

Stages == {"idle", "evict", "add", "read", "expire", "reply"}

CallState == [stage: Stages, limit: LimitIds, at: [LimitIds -> Nat],
              entries: SUBSET Nat, limited: BOOLEAN]

(* Mutant: the loop over the limits starts at an index there is none of. *)
IdleBefore == [stage |-> "idle", limit |-> 0, at |-> [l \in LimitIds |-> 0],
               entries |-> {}, limited |-> FALSE]

Idle == [stage |-> "idle", limit |-> 1, at |-> [l \in LimitIds |-> 0],
         entries |-> {}, limited |-> FALSE]

TypeOK ==
    /\ now \in Nat
    /\ zset \in [LimitIds -> SUBSET Nat]
    /\ expires \in [LimitIds -> Nat \cup {Never}]
    /\ call \in [Calls -> CallState]
    /\ passed \in [LimitIds -> SUBSET Nat]
    /\ late \in [LimitIds -> SUBSET Nat]
    /\ settled \in [LimitIds -> SUBSET Nat]
    /\ blurred \in [LimitIds -> Nat]

Init ==
    /\ now = 0
    /\ zset = [l \in LimitIds |-> {}]
    /\ expires = [l \in LimitIds |-> Never]
    /\ call = [c \in Calls |-> Idle]
    /\ passed = [l \in LimitIds |-> {}]
    /\ late = [l \in LimitIds |-> {}]
    /\ settled = [l \in LimitIds |-> {}]
    /\ blurred = [l \in LimitIds |-> 0]

history == <<passed, late, settled, blurred>>

-----------------------------------------------------------------------------
(* What the commands do. *)

Limit(c) == call[c].limit

(* The timestamp of the hit in progress. *)
Stamp(c) == call[c].at[Limit(c)]

At(c, stage) == call[c].stage = stage

GoTo(c, stage) == call' = [call EXCEPT ![c].stage = stage]

(* The timestamps of S in the window of limit l that ends at t. *)
Window(l, t, S) == {s \in S : s > t - Period[l]}

(* Mutant: the members left in the set until Redis drops it. *)
KeepsAll(l, t) == zset[l]

(* ZREMRANGEBYSCORE key 0 (timestamp - period), both ends included. *)
Remaining(l, t) == Window(l, t, zset[l])

(* EXPIRE key period: the period is in milliseconds, the TTL in seconds.   *)
TTL(l) == Period[l] * MsPerSecond

(* The members are `timestamp:1`, so hits of one millisecond are one       *)
(* member, and the sum of their steps is their number.                     *)
Over(c) == Cardinality(call[c].entries) > Rate[Limit(c)]

(* Mutant: the verdict of the last limit alone. *)
LastVerdict(c) == Over(c)

(* Any limit that is over turns the call away, but the loop goes on to hit *)
(* the others.                                                             *)
Verdict(c) == call[c].limited \/ Over(c)

-----------------------------------------------------------------------------
(* A call takes its first timestamp and sends the first hit's commands. *)
StartCall(c) ==
    /\ At(c, "idle")
    /\ call' = [call EXCEPT ![c] = [Idle EXCEPT !.stage = "evict", !.at = [@ EXCEPT ![1] = now]]]
    /\ UNCHANGED <<now, zset, expires, history>>

(* Redis deletes a key, and its TTL with it, when its set becomes empty. *)
Evict(c) ==
    LET l == Limit(c) IN
    /\ At(c, "evict")
    /\ zset' = [zset EXCEPT ![l] = Remaining(l, Stamp(c))]
    /\ expires' = [expires EXCEPT ![l] = IF zset'[l] = {} THEN Never ELSE @]
    /\ settled' = [settled EXCEPT ![l] = @ \cap zset'[l]]
    /\ GoTo(c, "add")
    /\ UNCHANGED <<now, passed, late, blurred>>

Add(c) ==
    LET l == Limit(c) IN
    /\ At(c, "add")
    /\ zset' = [zset EXCEPT ![l] = @ \cup {Stamp(c)}]
    /\ late' = IF now - Stamp(c) >= Period[l]
               THEN [late EXCEPT ![l] = @ \cup {Stamp(c)}] ELSE late
    /\ GoTo(c, "read")
    /\ UNCHANGED <<now, expires, passed, settled, blurred>>

Read(c) ==
    /\ At(c, "read")
    /\ call' = [call EXCEPT ![c].stage = "expire", ![c].entries = zset[Limit(c)]]
    /\ UNCHANGED <<now, zset, expires, history>>

(* On a key that is gone EXPIRE does nothing. *)
Expire(c) ==
    LET l == Limit(c) IN
    /\ At(c, "expire")
    /\ IF zset[l] = {}
       THEN UNCHANGED <<expires, settled>>
       ELSE /\ expires' = [expires EXCEPT ![l] = now + TTL(l)]
            /\ settled' = [settled EXCEPT ![l] = @ \cup ({Stamp(c)} \cap zset[l])]
    /\ GoTo(c, "reply")
    /\ UNCHANGED <<now, zset, passed, late, blurred>>

(* The four results are in: the next hit starts, with a timestamp of its   *)
(* own, or the call is over and, if no limit was exceeded, goes through.   *)
NextHit(c) ==
    /\ At(c, "reply")
    /\ Limit(c) + 1 \in LimitIds
    /\ call' = [call EXCEPT ![c] =
                   [stage |-> "evict", limit |-> @.limit + 1,
                    at |-> [@.at EXCEPT ![Limit(c) + 1] = now],
                    entries |-> {}, limited |-> Verdict(c)]]
    /\ UNCHANGED <<now, zset, expires, history>>

Finish(c) ==
    /\ At(c, "reply")
    /\ Limit(c) + 1 \notin LimitIds
    /\ passed' = IF Verdict(c) THEN passed
                 ELSE [l \in LimitIds |-> Window(l, now, passed[l] \cup {call[c].at[l]})]
    /\ call' = [call EXCEPT ![c] = Idle]
    /\ UNCHANGED <<now, zset, expires, late, settled, blurred>>

(* A command is rejected: what was executed stays, and the message is      *)
(* dropped without an answer (onClientMessage logs the error).             *)
FailCall(c) ==
    /\ Faults
    /\ ~At(c, "idle")
    /\ call' = [call EXCEPT ![c] = Idle]
    /\ UNCHANGED <<now, zset, expires, history>>

(* A millisecond passes; a set whose time is up is gone for every command  *)
(* that comes after.                                                       *)
Tick ==
    LET Ends(l) == expires[l] = now + 1
        Lost(l) == Window(l, now + 1, zset[l] \ settled[l])
    IN
    /\ now < MaxTime
    /\ now' = now + 1
    /\ zset' = [l \in LimitIds |-> IF Ends(l) THEN {} ELSE zset[l]]
    /\ expires' = [l \in LimitIds |-> IF Ends(l) THEN Never ELSE expires[l]]
    /\ blurred' = [l \in LimitIds |-> IF Ends(l) /\ Lost(l) # {}
                                      THEN now + 1 + Period[l] ELSE blurred[l]]
    /\ settled' = [l \in LimitIds |-> IF Ends(l) THEN {} ELSE settled[l]]
    /\ passed' = [l \in LimitIds |-> Window(l, now + 1, passed[l])]
    /\ UNCHANGED <<call, late>>

Step(c) ==
    \/ StartCall(c) \/ Evict(c) \/ Add(c) \/ Read(c) \/ Expire(c)
    \/ NextHit(c) \/ Finish(c) \/ FailCall(c)

Next == Tick \/ \E c \in Calls : Step(c)

Spec == Init /\ [][Next]_vars

-----------------------------------------------------------------------------
(* At any moment, the calls let through in the last period hit each limit  *)
(* in at most Rate different milliseconds, however their commands and      *)
(* those of others interleave: a member of the window is evicted by        *)
(* nobody, so the last call to read sees all the others.  Only a set that  *)
(* expires between a hit's ZADD and its EXPIRE may forget that hit.        *)
WithinRate ==
    \A l \in LimitIds :
        now >= blurred[l] => Cardinality(Window(l, now, passed[l])) <= Rate[l]

(* Nobody is turned away for hits of the past: what a call counts are the  *)
(* hits of the period before its own and those of calls so slow that their *)
(* hits were a period old when Redis got them.                             *)
CountsOnlyRecent ==
    \A c \in Calls :
        LET l == Limit(c) IN
        At(c, "reply") =>
            \A t \in call[c].entries : t > Stamp(c) - Period[l] \/ t \in late[l]
=============================================================================
