--------------------------- MODULE RateLimiterProofs ---------------------------
(***************************************************************************)
(* Proofs about RateLimiter, for any calls, limits, periods and rates.     *)
(***************************************************************************)
EXTENDS RateLimiter, FiniteSetTheorems, TLAPS

-----------------------------------------------------------------------------
(* The inductive invariant. *)

(* The timestamps of the calls and of the histories are of the past. *)
Past ==
    /\ \A c \in Calls, l \in LimitIds : call[c].at[l] <= now
    /\ \A l \in LimitIds : \A t \in zset[l] \cup passed[l] \cup settled[l] : t <= now

(* What a call counts, or is about to count, is recent or late. *)
Recent(c, S) ==
    \A t \in S : t > Stamp(c) - Period[Limit(c)] \/ t \in late[Limit(c)]

CountsRecentIn(c) ==
    /\ At(c, "add") \/ At(c, "read") => Recent(c, zset[Limit(c)])
    /\ At(c, "expire") \/ At(c, "reply") => Recent(c, call[c].entries)

CountsRecent == \A c \in Calls : CountsRecentIn(c)

(* The sets are finite, and a hit whose EXPIRE has run outlives its window. *)
SetsKept ==
    \A l \in LimitIds :
        /\ IsFiniteSet(zset[l])
        /\ blurred[l] <= now + Period[l]
        /\ \A t \in settled[l] : expires[l] >= t + Period[l]

(* Call c has added its hit of limit l. *)
Hit(c, l) ==
    \/ Limit(c) > l
    \/ Limit(c) = l /\ call[c].stage \in {"read", "expire", "reply"}

(* Call c has been told that limit l is not exceeded, nor one before it.   *)
Granted(c, l) ==
    /\ ~call[c].limited
    /\ \/ Limit(c) > l
       \/ /\ Limit(c) = l
          /\ call[c].stage \in {"expire", "reply"}
          /\ ~Over(c)

(* The hits that still count are in the set, unless an expiry took them.   *)
Counted(l, t) ==
    t > now - Period[l] => t \in zset[l] \/ t <= blurred[l] - Period[l]

HitsCounted ==
    \A l \in LimitIds :
        /\ \A t \in passed[l] : Counted(l, t)
        /\ \A c \in Calls : Hit(c, l) => Counted(l, call[c].at[l])

(* The hits of this window that were, or still may be, let through. *)
GrantedHits(l) ==
    {t \in 0..now :
        /\ t > now - Period[l]
        /\ t > blurred[l] - Period[l]
        /\ t \in passed[l] \/ \E c \in Calls : Granted(c, l) /\ call[c].at[l] = t}

FewGranted == \A l \in LimitIds : Cardinality(GrantedHits(l)) <= Rate[l]

IInv ==
    /\ TypeOK
    /\ Past
    /\ CountsRecent
    /\ SetsKept
    /\ HitsCounted
    /\ FewGranted

-----------------------------------------------------------------------------
(* A TTL is a number of milliseconds, and no shorter than the period. *)
LEMMA TTLType == \A l \in LimitIds : TTL(l) \in Nat /\ TTL(l) >= Period[l]
<1>. TAKE l \in LimitIds
<1>. DEFINE p == Period[l]
<1>1. p \in Nat /\ MsPerSecond \in Nat /\ MsPerSecond >= 1
  BY RateLimiterAssumption DEF LimitIds
<1>2. \A a, b \in Nat : b >= 1 => a * b \in Nat /\ a * b >= a
  BY Z3
<1>. HIDE DEF p
<1>3. p * MsPerSecond \in Nat /\ p * MsPerSecond >= p
  BY <1>1, <1>2
<1>. QED  BY <1>3 DEF TTL, p

(* A call that waits to be made is a state of a call. *)
LEMMA IdleType == Idle \in CallState
BY RateLimiterAssumption DEF Idle, CallState, Stages, LimitIds

(* What a step does to the calls.  Starting, a call has one timestamp, the  *)
(* present.                                                                *)
LEMMA Starts ==
    ASSUME TypeOK, NEW c \in Calls, StartCall(c)
    PROVE  /\ call' \in [Calls -> CallState]
           /\ \A d \in Calls \ {c} : call'[d] = call[d]
           /\ call'[c].stage = "evict"
           /\ call'[c].limit = 1
           /\ call'[c].limited = FALSE
           /\ \A l \in LimitIds : call'[c].at[l] <= now
<1>. DEFINE at == [Idle.at EXCEPT ![1] = now]
            new == [Idle EXCEPT !.stage = "evict", !.at = at]
<1>1. /\ Idle \in CallState /\ Idle.limit = 1 /\ Idle.limited = FALSE
      /\ \A l \in LimitIds : Idle.at[l] = 0
  BY RateLimiterAssumption DEF Idle, CallState, Stages, LimitIds
<1>2. at \in [LimitIds -> Nat]
  BY <1>1 DEF CallState, TypeOK
<1>3. \A l \in LimitIds : at[l] <= now
  BY <1>1 DEF CallState, TypeOK
<1>4. call' = [call EXCEPT ![c] = new]
  BY DEF StartCall
<1>. HIDE DEF at
<1>5. /\ new \in CallState /\ new.stage = "evict" /\ new.at = at
      /\ new.limit = 1 /\ new.limited = FALSE
  BY <1>1, <1>2 DEF CallState, Stages
<1>. HIDE DEF new
<1>. QED  BY <1>3, <1>4, <1>5 DEF TypeOK

(* A call that goes from one command to the next. *)
LEMMA Goes ==
    ASSUME TypeOK, NEW c \in Calls, NEW s \in Stages, GoTo(c, s)
    PROVE  /\ call' \in [Calls -> CallState]
           /\ \A d \in Calls \ {c} : call'[d] = call[d]
           /\ call'[c].stage = s
           /\ call'[c].limit = call[c].limit
           /\ call'[c].at = call[c].at
           /\ call'[c].entries = call[c].entries
           /\ call'[c].limited = call[c].limited
<1>. DEFINE new == [call[c] EXCEPT !.stage = s]
<1>1. call[c] \in CallState
  BY DEF TypeOK
<1>2. /\ new \in CallState
      /\ new.stage = s /\ new.limit = call[c].limit /\ new.at = call[c].at
      /\ new.entries = call[c].entries /\ new.limited = call[c].limited
  BY <1>1 DEF CallState
<1>3. call' = [call EXCEPT ![c] = new]
  BY DEF GoTo
<1>. HIDE DEF new
<1>. QED  BY <1>2, <1>3 DEF TypeOK

(* A call that reads what its limit counts. *)
LEMMA Reads ==
    ASSUME TypeOK, NEW c \in Calls, Read(c)
    PROVE  /\ call' \in [Calls -> CallState]
           /\ \A d \in Calls \ {c} : call'[d] = call[d]
           /\ call'[c].stage = "expire"
           /\ call'[c].limit = call[c].limit
           /\ call'[c].at = call[c].at
           /\ call'[c].entries = zset[call[c].limit]
           /\ call'[c].limited = call[c].limited
<1>. DEFINE new == [call[c] EXCEPT !.stage = "expire", !.entries = zset[Limit(c)]]
<1>1. call[c] \in CallState /\ zset[call[c].limit] \in SUBSET Nat
  BY DEF TypeOK, CallState
<1>2. /\ new \in CallState
      /\ new.stage = "expire" /\ new.limit = call[c].limit /\ new.at = call[c].at
      /\ new.entries = zset[call[c].limit] /\ new.limited = call[c].limited
  BY <1>1 DEF CallState, Stages, Limit
<1>3. call' = [call EXCEPT ![c] = new]
  BY DEF Read
<1>. HIDE DEF new
<1>. QED  BY <1>2, <1>3 DEF TypeOK

(* A call that goes on to its next limit. *)
LEMMA Continues ==
    ASSUME TypeOK, NEW c \in Calls, NextHit(c)
    PROVE  /\ call' \in [Calls -> CallState]
           /\ \A d \in Calls \ {c} : call'[d] = call[d]
           /\ call'[c].stage = "evict"
           /\ call'[c].limit = call[c].limit + 1
           /\ call'[c].at = [call[c].at EXCEPT ![call[c].limit + 1] = now]
           /\ call'[c].limited = Verdict(c)
<1>. DEFINE at == [call[c].at EXCEPT ![call[c].limit + 1] = now]
            new == [stage |-> "evict", limit |-> call[c].limit + 1, at |-> at,
                    entries |-> {}, limited |-> Verdict(c)]
<1>1. Verdict(c) \in BOOLEAN
  BY DEF Verdict, Over, TypeOK, CallState
<1>2. at \in [LimitIds -> Nat]
  BY DEF TypeOK, CallState
<1>3. call' = [call EXCEPT ![c] = new]
  BY DEF NextHit, Limit
<1>. HIDE DEF at
<1>4. new \in CallState
  BY <1>1, <1>2 DEF CallState, Stages, NextHit, Limit
<1>. QED  BY <1>3, <1>4 DEF TypeOK, at

(* A call that is over. *)
LEMMA Ends ==
    ASSUME TypeOK, NEW c \in Calls, call' = [call EXCEPT ![c] = Idle]
    PROVE  /\ call' \in [Calls -> CallState]
           /\ \A d \in Calls \ {c} : call'[d] = call[d]
           /\ call'[c].stage = "idle"
           /\ call'[c].limit = 1
           /\ \A l \in LimitIds : call'[c].at[l] <= now
<1>1. /\ Idle \in CallState /\ Idle.stage = "idle" /\ Idle.limit = 1
      /\ \A l \in LimitIds : Idle.at[l] = 0
  BY RateLimiterAssumption DEF Idle, CallState, Stages, LimitIds
<1>. QED  BY <1>1 DEF TypeOK

(* The initial states satisfy the invariant. *)
LEMMA InitIInv == Init => IInv
<1>. SUFFICES ASSUME Init PROVE IInv
  OBVIOUS
<1>. USE RateLimiterAssumption
<1>1. TypeOK
  BY DEF Init, TypeOK, CallState, Idle, Stages, Never, LimitIds
<1>2. Past
  BY DEF Init, Past, Idle
<1>3. CountsRecent
  BY DEF Init, CountsRecent, CountsRecentIn, At, Idle
<1>4. SetsKept
  BY FS_EmptySet DEF Init, SetsKept
<1>5. HitsCounted
  BY DEF Init, HitsCounted, Hit, Limit, Idle, LimitIds
<1>6. \A l \in LimitIds : GrantedHits(l) = {}
  BY DEF Init, GrantedHits, Granted, Limit, Idle, LimitIds
<1>7. FewGranted
  BY <1>6, FS_EmptySet DEF FewGranted
<1>. QED  BY <1>1, <1>2, <1>3, <1>4, <1>5, <1>7 DEF IInv

(* Every step keeps the types. *)
LEMMA TypeStep == TypeOK /\ [Next]_vars => TypeOK'
<1>. SUFFICES ASSUME TypeOK, [Next]_vars PROVE TypeOK'
  OBVIOUS
<1>1. ASSUME NEW c \in Calls, StartCall(c) PROVE TypeOK'
  BY <1>1, Starts DEF TypeOK, StartCall, history
<1>2. ASSUME NEW c \in Calls, Evict(c) PROVE TypeOK'
  <2>1. call' \in [Calls -> CallState]
    BY <1>2, Goes DEF Evict, Stages
  <2>. QED  BY <1>2, <2>1 DEF TypeOK, Evict, Remaining, Window, Limit, Never
<1>3. ASSUME NEW c \in Calls, Add(c) PROVE TypeOK'
  <2>1. call' \in [Calls -> CallState]
    BY <1>3, Goes DEF Add, Stages
  <2>2. Stamp(c) \in Nat
    BY DEF Stamp, Limit, TypeOK, CallState
  <2>. QED  BY <1>3, <2>1, <2>2 DEF TypeOK, Add
<1>4. ASSUME NEW c \in Calls, Read(c) PROVE TypeOK'
  BY <1>4, Reads DEF TypeOK, Read, history
<1>5. ASSUME NEW c \in Calls, Expire(c) PROVE TypeOK'
  <2>1. call' \in [Calls -> CallState]
    BY <1>5, Goes DEF Expire, Stages
  <2>2. Stamp(c) \in Nat /\ now + TTL(Limit(c)) \in Nat
    BY TTLType DEF Stamp, Limit, TypeOK, CallState
  <2>. QED  BY <1>5, <2>1, <2>2 DEF TypeOK, Expire
<1>6. ASSUME NEW c \in Calls, NextHit(c) PROVE TypeOK'
  BY <1>6, Continues DEF TypeOK, NextHit, history
<1>7. ASSUME NEW c \in Calls, Finish(c) PROVE TypeOK'
  <2>1. call' \in [Calls -> CallState]
    BY <1>7, Ends DEF Finish
  <2>2. \A l \in LimitIds : call[c].at[l] \in Nat
    BY DEF TypeOK, CallState
  <2>3. passed' \in [LimitIds -> SUBSET Nat]
    BY <1>7, <2>2 DEF Finish, Window, TypeOK
  <2>. QED  BY <1>7, <2>1, <2>3 DEF TypeOK, Finish
<1>8. ASSUME NEW c \in Calls, FailCall(c) PROVE TypeOK'
  BY <1>8, Ends DEF TypeOK, FailCall, history
<1>9. CASE Tick
  BY <1>9, RateLimiterAssumption DEF Tick, TypeOK, Window, Never
<1>10. CASE UNCHANGED vars
  BY <1>10 DEF vars, TypeOK
<1>. QED
  BY <1>1, <1>2, <1>3, <1>4, <1>5, <1>6, <1>7, <1>8, <1>9, <1>10 DEF Next, Step

(* The clock only goes forward, and a hit is stamped with the present. *)
LEMMA PastStep == TypeOK /\ Past /\ [Next]_vars => Past'
<1>. SUFFICES ASSUME TypeOK, Past, [Next]_vars PROVE Past'
  OBVIOUS
<1>. DEFINE CallsPast == \A c \in Calls, l \in LimitIds : call[c].at[l] <= now
            SetsPast == \A l \in LimitIds :
                            \A t \in zset[l] \cup passed[l] \cup settled[l] : t <= now
<1>. SUFFICES CallsPast' /\ SetsPast'
  BY DEF Past
<1>0. CallsPast /\ SetsPast
  BY DEF Past
<1>1. ASSUME NEW c \in Calls, StartCall(c) PROVE CallsPast' /\ SetsPast'
  BY <1>0, <1>1, Starts DEF StartCall, history
<1>2. ASSUME NEW c \in Calls, Evict(c) PROVE CallsPast' /\ SetsPast'
  <2>1. CallsPast'
    BY <1>0, <1>2, Goes DEF Evict, Stages
  <2>2. SetsPast'
    BY <1>0, <1>2 DEF Evict, Remaining, Window, Limit, TypeOK, CallState
  <2>. QED  BY <2>1, <2>2
<1>3. ASSUME NEW c \in Calls, Add(c) PROVE CallsPast' /\ SetsPast'
  <2>1. CallsPast'
    BY <1>0, <1>3, Goes DEF Add, Stages
  <2>2. Limit(c) \in LimitIds /\ Stamp(c) <= now
    BY <1>0 DEF Stamp, Limit, TypeOK, CallState
  <2>3. SetsPast'
    BY <1>0, <1>3, <2>2 DEF Add, TypeOK
  <2>. QED  BY <2>1, <2>3
<1>4. ASSUME NEW c \in Calls, Read(c) PROVE CallsPast' /\ SetsPast'
  <2>1. UNCHANGED <<now, zset, passed, settled>>
    BY <1>4 DEF Read, history
  <2>2. CallsPast'
    BY <1>0, <1>4, <2>1, Reads
  <2>. QED  BY <1>0, <2>1, <2>2
<1>5. ASSUME NEW c \in Calls, Expire(c) PROVE CallsPast' /\ SetsPast'
  <2>1. CallsPast'
    BY <1>0, <1>5, Goes DEF Expire, Stages
  <2>2. Limit(c) \in LimitIds
    BY DEF Limit, TypeOK, CallState
  <2>3. SetsPast'
    BY <1>0, <1>5, <2>2 DEF Expire, TypeOK
  <2>. QED  BY <2>1, <2>3
<1>6. ASSUME NEW c \in Calls, NextHit(c) PROVE CallsPast' /\ SetsPast'
  <2>1. CallsPast'
    BY <1>0, <1>6, Continues DEF NextHit, TypeOK, CallState
  <2>. QED  BY <1>0, <1>6, <2>1 DEF NextHit, history
<1>7. ASSUME NEW c \in Calls, Finish(c) PROVE CallsPast' /\ SetsPast'
  <2>1. CallsPast'
    BY <1>0, <1>7, Ends DEF Finish
  <2>2. SetsPast'
    BY <1>0, <1>7 DEF Finish, Window, TypeOK
  <2>. QED  BY <2>1, <2>2
<1>8. ASSUME NEW c \in Calls, FailCall(c) PROVE CallsPast' /\ SetsPast'
  <2>1. CallsPast'
    BY <1>0, <1>8, Ends DEF FailCall
  <2>. QED  BY <1>0, <1>8, <2>1 DEF FailCall, history
<1>9. CASE Tick
  <2>1. now' = now + 1 /\ call' = call
    BY <1>9 DEF Tick
  <2>2. \A c \in Calls, l \in LimitIds : call[c].at[l] \in Nat
    BY DEF TypeOK, CallState
  <2>3. CallsPast'
    BY <1>0, <2>1, <2>2 DEF TypeOK
  <2>4. SetsPast'
    BY <1>0, <1>9 DEF Tick, Window, TypeOK
  <2>. QED  BY <2>3, <2>4
<1>10. CASE UNCHANGED vars
  BY <1>0, <1>10 DEF vars
<1>. QED
  BY <1>1, <1>2, <1>3, <1>4, <1>5, <1>6, <1>7, <1>8, <1>9, <1>10 DEF Next, Step

(* What counts for a call stays so while the sets lose members and the     *)
(* hits known to be late become more.                                      *)
LEMMA OthersCountRecent ==
    ASSUME TypeOK, CountsRecent, NEW d \in Calls, call'[d] = call[d],
           \A l \in LimitIds : zset'[l] \subseteq zset[l] /\ late[l] \subseteq late'[l]
    PROVE  CountsRecentIn(d)'
<1>1. CountsRecentIn(d) /\ call[d].limit \in LimitIds
  BY DEF CountsRecent, TypeOK, CallState
<1>. QED  BY <1>1 DEF CountsRecentIn, Recent, At, Stamp, Limit

(* A hit that is added is recent for its own call, and for the others it   *)
(* is recent or late.                                                      *)
LEMMA AddCountsRecent ==
    ASSUME TypeOK, Past, CountsRecent, NEW c \in Calls, Add(c), NEW d \in Calls
    PROVE  CountsRecentIn(d)'
<1>. DEFINE l == call[c].limit
            s == call[c].at[l]
<1>1. /\ l \in LimitIds /\ s \in Nat /\ s <= now
      /\ now \in Nat /\ Period[l] \in Nat /\ Period[l] >= 1
  BY RateLimiterAssumption DEF TypeOK, CallState, Past
<1>2. /\ call'[d].limit = call[d].limit /\ call'[d].at = call[d].at
      /\ call'[d].entries = call[d].entries
      /\ d # c => call'[d].stage = call[d].stage
      /\ call'[c].stage = "read" /\ call[c].stage = "add"
  BY Goes DEF Add, Stages, At
<1>3. /\ zset' = [zset EXCEPT ![l] = @ \cup {s}]
      /\ now - s >= Period[l] => late' = [late EXCEPT ![l] = @ \cup {s}]
      /\ now - s < Period[l] => late' = late
  BY <1>1 DEF Add, Limit, Stamp
<1>4. \A k \in LimitIds : late[k] \subseteq late'[k]
  BY <1>1, <1>3 DEF TypeOK
<1>5. /\ call[d].limit \in LimitIds /\ CountsRecentIn(d)
      /\ call[d].at[call[d].limit] \in Nat /\ call[d].at[call[d].limit] <= now
  BY DEF CountsRecent, TypeOK, CallState, Past
<1>. HIDE DEF l, s
<1>6. call[d].limit = l => s > call[d].at[l] - Period[l] \/ s \in late'[l]
  BY <1>1, <1>3, <1>5 DEF TypeOK
<1>7. \A t \in zset'[call[d].limit] :
          t \in zset[call[d].limit] \/ (call[d].limit = l /\ t = s)
  BY <1>1, <1>3, <1>5 DEF TypeOK
<1>8. CASE d = c
  <2>1. At(d, "add") /\ ~At(d, "expire")' /\ ~At(d, "reply")'
    BY <1>2, <1>8 DEF At
  <2>2. Recent(d, zset[call[d].limit])
    BY <1>5, <2>1 DEF CountsRecentIn, Limit
  <2>3. Recent(d, zset[Limit(d)])'
    BY <1>2, <1>4, <1>5, <1>6, <1>7, <2>2 DEF Recent, Stamp, Limit
  <2>. QED  BY <2>1, <2>3 DEF CountsRecentIn
<1>9. CASE d # c
  <2>1. ASSUME Recent(d, zset[Limit(d)]) PROVE Recent(d, zset[Limit(d)])'
    BY <1>2, <1>4, <1>5, <1>6, <1>7, <2>1 DEF Recent, Stamp, Limit
  <2>2. ASSUME Recent(d, call[d].entries) PROVE Recent(d, call[d].entries)'
    BY <1>2, <1>4, <1>5, <2>2 DEF Recent, Stamp, Limit
  <2>. QED  BY <1>2, <1>5, <1>9, <2>1, <2>2 DEF CountsRecentIn, At
<1>. QED  BY <1>8, <1>9

(* Every step keeps what the calls count recent or late. *)
LEMMA RecentStep == TypeOK /\ Past /\ CountsRecent /\ [Next]_vars => CountsRecent'
<1>. SUFFICES ASSUME TypeOK, Past, CountsRecent, [Next]_vars, NEW d \in Calls
              PROVE  CountsRecentIn(d)'
  BY DEF CountsRecent
<1>0. call[d] \in CallState /\ Limit(d) \in LimitIds /\ CountsRecentIn(d)
  BY DEF CountsRecent, TypeOK, CallState, Limit
<1>1. ASSUME NEW c \in Calls, StartCall(c) PROVE CountsRecentIn(d)'
  <2>1. zset' = zset /\ late' = late /\ call'[c].stage = "evict"
    BY <1>1, Starts DEF StartCall, history
  <2>2. CASE d = c
    BY <2>1, <2>2 DEF CountsRecentIn, At
  <2>3. CASE d # c
    BY <1>1, <2>1, <2>3, Starts, OthersCountRecent
  <2>. QED  BY <2>2, <2>3
<1>2. ASSUME NEW c \in Calls, Evict(c) PROVE CountsRecentIn(d)'
  <2>1. /\ call'[c].stage = "add" /\ call'[c].limit = call[c].limit
        /\ call'[c].at = call[c].at
        /\ d # c => call'[d] = call[d]
    BY <1>2, Goes DEF Evict, Stages
  <2>2. zset' = [zset EXCEPT ![Limit(c)] = Remaining(Limit(c), Stamp(c))]
    BY <1>2 DEF Evict
  <2>3. \A l \in LimitIds : zset'[l] \subseteq zset[l]
    BY <2>2 DEF Remaining, Window, TypeOK
  <2>4. late' = late
    BY <1>2 DEF Evict
  <2>5. CASE d = c
    <3>1. \A t \in zset'[Limit(d)] : t > Stamp(d) - Period[Limit(d)]
      BY <1>0, <2>2, <2>5 DEF Remaining, Window, TypeOK
    <3>2. call'[d].stage = "add" /\ call'[d].limit = call[d].limit /\ call'[d].at = call[d].at
      BY <2>1, <2>5
    <3>. QED  BY <3>1, <3>2 DEF CountsRecentIn, Recent, At, Limit, Stamp
  <2>6. CASE d # c
    BY <2>1, <2>3, <2>4, <2>6, OthersCountRecent
  <2>. QED  BY <2>5, <2>6
<1>3. ASSUME NEW c \in Calls, Add(c) PROVE CountsRecentIn(d)'
  BY <1>3, AddCountsRecent
<1>4. ASSUME NEW c \in Calls, Read(c) PROVE CountsRecentIn(d)'
  <2>1. UNCHANGED <<zset, late>> /\ At(c, "read")
    BY <1>4 DEF Read, history
  <2>2. CASE d = c
    <3>1. Recent(d, zset[call[d].limit])
      BY <1>0, <2>1, <2>2 DEF CountsRecentIn, Limit
    <3>2. /\ call'[d].stage = "expire" /\ call'[d].limit = call[d].limit
          /\ call'[d].at = call[d].at /\ call'[d].entries = zset[call[d].limit]
      BY <1>4, <2>2, Reads
    <3>. QED  BY <2>1, <3>1, <3>2 DEF CountsRecentIn, Recent, At, Limit, Stamp
  <2>3. CASE d # c
    BY <1>4, <2>1, <2>3, Reads, OthersCountRecent
  <2>. QED  BY <2>2, <2>3
<1>5. ASSUME NEW c \in Calls, Expire(c) PROVE CountsRecentIn(d)'
  <2>1. UNCHANGED <<zset, late>> /\ At(c, "expire")
    BY <1>5 DEF Expire
  <2>2. CASE d = c
    <3>1. Recent(d, call[d].entries)
      BY <1>0, <2>1, <2>2 DEF CountsRecentIn
    <3>2. /\ call'[d].stage = "reply" /\ call'[d].limit = call[d].limit
          /\ call'[d].at = call[d].at /\ call'[d].entries = call[d].entries
      BY <1>5, <2>2, Goes DEF Expire, Stages
    <3>. QED  BY <2>1, <3>1, <3>2 DEF CountsRecentIn, Recent, At, Limit, Stamp
  <2>3. CASE d # c
    <3>1. call'[d] = call[d]
      BY <1>5, <2>3, Goes DEF Expire, Stages
    <3>. QED  BY <2>1, <3>1, OthersCountRecent
  <2>. QED  BY <2>2, <2>3
<1>6. ASSUME NEW c \in Calls, NextHit(c) PROVE CountsRecentIn(d)'
  <2>1. zset' = zset /\ late' = late /\ call'[c].stage = "evict"
    BY <1>6, Continues DEF NextHit, history
  <2>2. CASE d = c
    BY <2>1, <2>2 DEF CountsRecentIn, At
  <2>3. CASE d # c
    BY <1>6, <2>1, <2>3, Continues, OthersCountRecent
  <2>. QED  BY <2>2, <2>3
<1>7. ASSUME NEW c \in Calls, Finish(c) \/ FailCall(c) PROVE CountsRecentIn(d)'
  <2>1. zset' = zset /\ late' = late /\ call' = [call EXCEPT ![c] = Idle]
    BY <1>7 DEF Finish, FailCall, history
  <2>2. CASE d = c
    <3>1. call'[c].stage = "idle"
      BY <2>1, Ends
    <3>. QED  BY <2>2, <3>1 DEF CountsRecentIn, At
  <2>3. CASE d # c
    BY <2>1, <2>3, Ends, OthersCountRecent
  <2>. QED  BY <2>2, <2>3
<1>8. CASE Tick
  <2>1. /\ call' = call /\ late' = late
        /\ \A l \in LimitIds : zset'[l] \subseteq zset[l]
    BY <1>8 DEF Tick
  <2>. QED  BY <2>1, OthersCountRecent
<1>9. CASE UNCHANGED vars
  BY <1>9, OthersCountRecent DEF vars
<1>. QED
  BY <1>1, <1>2, <1>3, <1>4, <1>5, <1>6, <1>7, <1>8, <1>9 DEF Next, Step

-----------------------------------------------------------------------------
(* Every step keeps the sets finite and the hits with a TTL in them. *)
LEMMA KeptStep == TypeOK /\ Past /\ SetsKept /\ [Next]_vars => SetsKept'
<1>. SUFFICES ASSUME TypeOK, Past, SetsKept, [Next]_vars PROVE SetsKept'
  OBVIOUS
<1>0. \A l \in LimitIds : Period[l] \in Nat /\ Period[l] >= 1
  BY RateLimiterAssumption
<1>1. ASSUME UNCHANGED <<now, zset, expires, settled, blurred>> PROVE SetsKept'
  BY <1>1 DEF SetsKept
<1>2. ASSUME NEW c \in Calls, Evict(c) PROVE SetsKept'
  <2>1. Limit(c) \in LimitIds
    BY DEF Limit, TypeOK, CallState
  <2>2. \A l \in LimitIds : zset'[l] \subseteq zset[l]
    BY <1>2 DEF Evict, Remaining, Window, TypeOK
  <2>3. \A l \in LimitIds : IsFiniteSet(zset'[l])
    BY <2>2, FS_Subset DEF SetsKept
  <2>4. ASSUME NEW l \in LimitIds, NEW t \in settled'[l]
        PROVE  expires'[l] = expires[l] /\ t \in settled[l]
    BY <1>2, <2>1, <2>4 DEF Evict, TypeOK
  <2>5. now' = now /\ blurred' = blurred
    BY <1>2 DEF Evict
  <2>. QED  BY <2>3, <2>4, <2>5 DEF SetsKept
<1>3. ASSUME NEW c \in Calls, Add(c) PROVE SetsKept'
  <2>1. /\ zset' = [zset EXCEPT ![Limit(c)] = @ \cup {Stamp(c)}]
        /\ UNCHANGED <<now, expires, settled, blurred>>
    BY <1>3 DEF Add
  <2>2. ASSUME NEW l \in LimitIds PROVE IsFiniteSet(zset'[l])
    <3>1. IsFiniteSet(zset[l])
      BY DEF SetsKept
    <3>2. IsFiniteSet(zset[l] \cup {Stamp(c)})
      BY <3>1, FS_AddElement
    <3>3. zset'[l] = zset[l] \/ zset'[l] = zset[l] \cup {Stamp(c)}
      BY <2>1 DEF TypeOK
    <3>. QED  BY <3>1, <3>2, <3>3
  <2>. QED  BY <2>1, <2>2 DEF SetsKept
<1>4. ASSUME NEW c \in Calls, Expire(c) PROVE SetsKept'
  <2>1. UNCHANGED <<now, zset, blurred>>
    BY <1>4 DEF Expire
  <2>2. ASSUME NEW l \in LimitIds, NEW t \in settled'[l] PROVE expires'[l] >= t + Period[l]
    <3>1. CASE t \in settled[l] /\ expires'[l] = expires[l]
      BY <3>1 DEF SetsKept
    <3>2. CASE expires'[l] = now + TTL(l) /\ t <= now
      <4>1. TTL(l) \in Nat /\ TTL(l) >= Period[l]
        BY TTLType
      <4>2. t \in Nat
        BY <2>2, TypeStep DEF TypeOK
      <4>. QED  BY <1>0, <3>2, <4>1, <4>2 DEF TypeOK
    <3>3. Limit(c) \in LimitIds /\ Stamp(c) <= now
      BY DEF Limit, Stamp, TypeOK, CallState, Past
    <3>4. \A s \in settled[l] : s <= now
      BY DEF Past
    <3>. QED  BY <1>4, <2>2, <3>1, <3>2, <3>3, <3>4 DEF Expire, TypeOK
  <2>. QED  BY <2>1, <2>2 DEF SetsKept
<1>5. CASE Tick
  <2>1. ASSUME NEW l \in LimitIds PROVE IsFiniteSet(zset'[l])
    BY <1>5, FS_EmptySet DEF Tick, SetsKept
  <2>2. ASSUME NEW l \in LimitIds PROVE blurred'[l] <= now' + Period[l]
    BY <1>0, <1>5 DEF Tick, SetsKept, TypeOK
  <2>3. ASSUME NEW l \in LimitIds, NEW t \in settled'[l] PROVE expires'[l] >= t + Period[l]
    BY <1>5, <2>3 DEF Tick, SetsKept
  <2>. QED  BY <2>1, <2>2, <2>3 DEF SetsKept
<1>. QED
  BY <1>1, <1>2, <1>3, <1>4, <1>5
  DEF Next, Step, vars, history, StartCall, Read, NextHit, Finish, FailCall

-----------------------------------------------------------------------------
(* Nobody goes back on the clock, nor on what an expiry has blurred. *)
LEMMA Forward ==
    ASSUME TypeOK, SetsKept, [Next]_vars, NEW l \in LimitIds
    PROVE  /\ now \in Nat /\ now' \in Nat /\ now' >= now
           /\ blurred[l] \in Nat /\ blurred'[l] \in Nat /\ blurred'[l] >= blurred[l]
<1>1. Period[l] \in Nat
  BY RateLimiterAssumption
<1>2. now \in Nat /\ blurred[l] \in Nat
  BY DEF TypeOK
<1>3. CASE Tick
  BY <1>1, <1>2, <1>3 DEF Tick, SetsKept
<1>4. CASE ~Tick
  <2>1. now' = now /\ blurred' = blurred
    BY <1>4
    DEF Next, Step, vars, history, StartCall, Evict, Add, Read, Expire, NextHit, Finish,
        FailCall
  <2>. QED  BY <1>2, <2>1
<1>. QED  BY <1>3, <1>4

(* A hit that counts is taken from the set by nothing but an expiry that    *)
(* came before its EXPIRE.                                                  *)
LEMMA CountedStays ==
    ASSUME TypeOK, Past, SetsKept, [Next]_vars,
           NEW l \in LimitIds, NEW t \in Nat, Counted(l, t)
    PROVE  Counted(l, t)'
<1>0. /\ now \in Nat /\ blurred[l] \in Nat /\ blurred'[l] \in Nat
      /\ now' >= now /\ now' \in Nat /\ blurred'[l] >= blurred[l]
      /\ Period[l] \in Nat
  BY Forward, RateLimiterAssumption
<1>1. ASSUME UNCHANGED <<now, zset, blurred>> PROVE Counted(l, t)'
  BY <1>1 DEF Counted
<1>2. ASSUME NEW c \in Calls, Evict(c) PROVE Counted(l, t)'
  <2>1. Stamp(c) \in Nat /\ Stamp(c) <= now
    BY DEF Limit, Stamp, TypeOK, CallState, Past
  <2>2. now' = now /\ blurred' = blurred
    BY <1>2 DEF Evict
  <2>3. ASSUME t \in zset[l], t > now - Period[l] PROVE t \in zset'[l]
    BY <1>0, <1>2, <2>1, <2>3 DEF Evict, Remaining, Window, TypeOK
  <2>. QED  BY <2>2, <2>3 DEF Counted
<1>3. ASSUME NEW c \in Calls, Add(c) PROVE Counted(l, t)'
  <2>1. zset[l] \subseteq zset'[l] /\ now' = now /\ blurred' = blurred
    BY <1>3 DEF Add, TypeOK
  <2>. QED  BY <2>1 DEF Counted
<1>4. ASSUME NEW c \in Calls, Expire(c) PROVE Counted(l, t)'
  BY <1>1, <1>4 DEF Expire
<1>5. CASE Tick
  <2>. SUFFICES ASSUME t > now' - Period[l], ~(t <= blurred'[l] - Period[l])
                PROVE  t \in zset'[l]
    BY DEF Counted
  <2>1. now' = now + 1
    BY <1>5 DEF Tick
  <2>2. t \in zset[l]
    BY <1>0, <2>1 DEF Counted
  <2>3. t <= now
    BY <2>2 DEF Past
  <2>4. CASE expires[l] = now + 1
    <3>1. t \notin settled[l]
      BY <1>0, <2>1, <2>4 DEF SetsKept
    <3>2. t \in Window(l, now + 1, zset[l] \ settled[l])
      BY <2>1, <2>2, <3>1 DEF Window
    <3>3. blurred'[l] = now + 1 + Period[l]
      BY <1>5, <2>4, <3>2 DEF Tick
    <3>. QED  BY <1>0, <2>3, <3>3
  <2>5. CASE expires[l] # now + 1
    BY <1>5, <2>2, <2>5 DEF Tick
  <2>. QED  BY <2>4, <2>5
<1>. QED
  BY <1>1, <1>2, <1>3, <1>4, <1>5
  DEF Next, Step, vars, history, StartCall, Read, NextHit, Finish, FailCall

(* A hit that a call has made was made before, or is in the set now. *)
LEMMA HitBefore ==
    ASSUME TypeOK, [Next]_vars, NEW d \in Calls, NEW l \in LimitIds, Hit(d, l)'
    PROVE  /\ call'[d].at[l] = call[d].at[l]
           /\ Hit(d, l) \/ call[d].at[l] \in zset'[l]
<1>0. /\ l \in Int /\ l >= 1
      /\ call[d] \in CallState /\ call[d].limit \in LimitIds /\ call[d].limit \in Int
  <2>1. call[d] \in CallState /\ call[d].limit \in LimitIds
    BY DEF TypeOK, CallState
  <2>. QED  BY <2>1, RateLimiterAssumption DEF LimitIds
<1>1. ASSUME call'[d] = call[d] PROVE Hit(d, l) /\ call'[d].at[l] = call[d].at[l]
  BY <1>1 DEF Hit, Limit
<1>2. ASSUME call'[d].limit = 1, call'[d].stage \in {"idle", "evict"} PROVE FALSE
  BY <1>0, <1>2 DEF Hit, Limit
<1>3. CASE StartCall(d)
  BY <1>2, <1>3, Starts
<1>4. CASE Evict(d)
  <2>1. /\ call'[d].stage = "add" /\ call'[d].limit = call[d].limit
        /\ call'[d].at = call[d].at
    BY <1>4, Goes DEF Evict, Stages
  <2>. QED  BY <2>1 DEF Hit, Limit
<1>5. CASE Add(d)
  <2>1. /\ call'[d].stage = "read" /\ call'[d].limit = call[d].limit
        /\ call'[d].at = call[d].at
    BY <1>5, Goes DEF Add, Stages
  <2>2. call[d].limit = l => call[d].at[l] \in zset'[l]
    BY <1>5 DEF Add, Limit, Stamp, TypeOK
  <2>. QED  BY <2>1, <2>2 DEF Hit, Limit
<1>6. CASE Read(d)
  <2>1. call[d].stage = "read"
    BY <1>6 DEF Read, At
  <2>. QED  BY <1>6, <2>1, Reads DEF Hit, Limit
<1>7. CASE Expire(d)
  <2>1. /\ call'[d].stage = "reply" /\ call'[d].limit = call[d].limit
        /\ call'[d].at = call[d].at /\ call[d].stage = "expire"
    BY <1>7, Goes DEF Expire, Stages, At
  <2>. QED  BY <2>1 DEF Hit, Limit
<1>8. CASE NextHit(d)
  <2>1. /\ call'[d].stage = "evict" /\ call'[d].limit = call[d].limit + 1
        /\ call'[d].at = [call[d].at EXCEPT ![call[d].limit + 1] = now]
        /\ call[d].stage = "reply"
    BY <1>8, Continues DEF NextHit, At
  <2>2. l < call[d].limit + 1
    BY <2>1 DEF Hit, Limit
  <2>3. call'[d].at[l] = call[d].at[l]
    BY <1>0, <2>1, <2>2 DEF CallState
  <2>. QED  BY <1>0, <2>1, <2>2, <2>3 DEF Hit, Limit
<1>9. CASE Finish(d) \/ FailCall(d)
  <2>1. call' = [call EXCEPT ![d] = Idle]
    BY <1>9 DEF Finish, FailCall
  <2>. QED  BY <1>2, <2>1, Ends
<1>10. ASSUME NEW c \in Calls, Step(c), c # d PROVE call'[d] = call[d]
  BY <1>10 DEF Step, StartCall, Evict, Add, Read, Expire, NextHit, Finish, FailCall, GoTo, TypeOK
<1>11. CASE Tick \/ UNCHANGED vars
  BY <1>1, <1>11 DEF Tick, vars
<1>. QED
  BY <1>1, <1>3, <1>4, <1>5, <1>6, <1>7, <1>8, <1>9, <1>10, <1>11 DEF Next, Step

(* A call that has been granted a limit was granted it before, or has just  *)
(* found few enough members in the set.                                    *)
LEMMA GrantedBefore ==
    ASSUME TypeOK, SetsKept, [Next]_vars, NEW d \in Calls, NEW l \in LimitIds, Granted(d, l)'
    PROVE  /\ call'[d].at[l] = call[d].at[l]
           /\ \/ Granted(d, l)
              \/ Hit(d, l) /\ Cardinality(zset[l]) <= Rate[l]
<1>0. /\ l \in Int /\ l >= 1
      /\ call[d] \in CallState /\ call[d].limit \in LimitIds /\ call[d].limit \in Int
  <2>1. call[d] \in CallState /\ call[d].limit \in LimitIds
    BY DEF TypeOK, CallState
  <2>. QED  BY <2>1, RateLimiterAssumption DEF LimitIds
<1>1. ASSUME call'[d] = call[d] PROVE Granted(d, l) /\ call'[d].at[l] = call[d].at[l]
  BY <1>1 DEF Granted, Limit, Over
<1>2. ASSUME call'[d].limit = 1, call'[d].stage \in {"idle", "evict"} PROVE FALSE
  BY <1>0, <1>2 DEF Granted, Limit
<1>3. CASE StartCall(d)
  BY <1>2, <1>3, Starts
<1>4. CASE Evict(d)
  <2>1. /\ call'[d].stage = "add" /\ call'[d].limit = call[d].limit
        /\ call'[d].at = call[d].at /\ call'[d].limited = call[d].limited
    BY <1>4, Goes DEF Evict, Stages
  <2>. QED  BY <2>1 DEF Granted, Limit
<1>5. CASE Add(d)
  <2>1. /\ call'[d].stage = "read" /\ call'[d].limit = call[d].limit
        /\ call'[d].at = call[d].at /\ call'[d].limited = call[d].limited
    BY <1>5, Goes DEF Add, Stages
  <2>. QED  BY <2>1 DEF Granted, Limit
<1>6. CASE Read(d)
  <2>1. /\ call'[d].stage = "expire" /\ call'[d].limit = call[d].limit
        /\ call'[d].at = call[d].at /\ call'[d].limited = call[d].limited
        /\ call'[d].entries = zset[call[d].limit] /\ call[d].stage = "read"
    BY <1>6, Reads DEF Read, At
  <2>2. Cardinality(zset[l]) \in Nat /\ Rate[l] \in Nat
    BY FS_CardinalityType, RateLimiterAssumption DEF SetsKept
  <2>3. CASE call[d].limit = l
    BY <1>0, <2>1, <2>2, <2>3 DEF Granted, Hit, Limit, Over
  <2>4. CASE call[d].limit # l
    BY <2>1, <2>4 DEF Granted, Limit
  <2>. QED  BY <2>3, <2>4
<1>7. CASE Expire(d)
  <2>1. /\ call'[d].stage = "reply" /\ call'[d].limit = call[d].limit
        /\ call'[d].at = call[d].at /\ call'[d].limited = call[d].limited
        /\ call'[d].entries = call[d].entries /\ call[d].stage = "expire"
    BY <1>7, Goes DEF Expire, Stages, At
  <2>. QED  BY <2>1 DEF Granted, Limit, Over
<1>8. CASE NextHit(d)
  <2>1. /\ call'[d].stage = "evict" /\ call'[d].limit = call[d].limit + 1
        /\ call'[d].at = [call[d].at EXCEPT ![call[d].limit + 1] = now]
        /\ call'[d].limited = Verdict(d) /\ call[d].stage = "reply"
    BY <1>8, Continues DEF NextHit, At
  <2>2. l < call[d].limit + 1 /\ ~Verdict(d)
    BY <2>1 DEF Granted, Limit
  <2>3. call'[d].at[l] = call[d].at[l]
    BY <1>0, <2>1, <2>2 DEF CallState
  <2>. QED  BY <1>0, <2>1, <2>2, <2>3 DEF Granted, Limit, Verdict
<1>9. CASE Finish(d) \/ FailCall(d)
  <2>1. call' = [call EXCEPT ![d] = Idle]
    BY <1>9 DEF Finish, FailCall
  <2>. QED  BY <1>2, <2>1, Ends
<1>10. ASSUME NEW c \in Calls, Step(c), c # d PROVE call'[d] = call[d]
  BY <1>10 DEF Step, StartCall, Evict, Add, Read, Expire, NextHit, Finish, FailCall, GoTo, TypeOK
<1>11. CASE Tick \/ UNCHANGED vars
  BY <1>1, <1>11 DEF Tick, vars
<1>. QED
  BY <1>1, <1>3, <1>4, <1>5, <1>6, <1>7, <1>8, <1>9, <1>10, <1>11 DEF Next, Step

(* The hits let through are those of calls granted every limit. *)
LEMMA PassedBefore ==
    ASSUME TypeOK, [Next]_vars, NEW l \in LimitIds, NEW t \in passed'[l]
    PROVE  \/ t \in passed[l]
           \/ \E c \in Calls : Granted(c, l) /\ call[c].at[l] = t
<1>1. ASSUME passed' = passed PROVE t \in passed[l]
  BY <1>1
<1>2. ASSUME NEW c \in Calls, Finish(c)
      PROVE  t \in passed[l] \/ (Granted(c, l) /\ call[c].at[l] = t)
  <2>1. /\ call[c].limit \in 1..NumLimits /\ call[c].limit + 1 \notin 1..NumLimits
        /\ l \in 1..NumLimits
    BY <1>2 DEF Finish, Limit, LimitIds, TypeOK, CallState
  <2>2. call[c].limit >= l
    BY <2>1, RateLimiterAssumption
  <2>3. ~Verdict(c) => Granted(c, l)
    BY <1>2, <2>1, <2>2 DEF Granted, Verdict, Finish, At, Limit
  <2>4. t \in passed[l] \/ (~Verdict(c) /\ t = call[c].at[l])
    BY <1>2 DEF Finish, Window
  <2>. QED  BY <2>3, <2>4
<1>3. CASE Tick
  BY <1>3 DEF Tick, Window
<1>4. CASE ~Tick /\ \A c \in Calls : ~Finish(c)
  <2>1. passed' = passed
    BY <1>4 DEF Next, Step, vars, history, StartCall, Evict, Add, Read, Expire, NextHit, FailCall
  <2>. QED  BY <1>1, <2>1
<1>. QED  BY <1>2, <1>3, <1>4

-----------------------------------------------------------------------------
(* A call that has been granted a limit has hit it. *)
LEMMA GrantedHit == \A c \in Calls, l \in LimitIds : Granted(c, l) => Hit(c, l)
BY DEF Granted, Hit

(* There are finitely many moments of the past. *)
LEMMA GrantedFinite == TypeOK => \A l \in LimitIds : IsFiniteSet(GrantedHits(l))
<1>. SUFFICES ASSUME TypeOK, NEW l \in LimitIds PROVE IsFiniteSet(GrantedHits(l))
  OBVIOUS
<1>1. IsFiniteSet(0..now)
  BY FS_Interval DEF TypeOK
<1>2. GrantedHits(l) \subseteq 0..now
  BY DEF GrantedHits
<1>. QED  BY <1>1, <1>2, FS_Subset

(* Every step keeps the hits that still count in the sets. *)
LEMMA CountedStep ==
    TypeOK /\ Past /\ SetsKept /\ HitsCounted /\ [Next]_vars => HitsCounted'
<1>. SUFFICES ASSUME TypeOK, Past, SetsKept, HitsCounted, [Next]_vars, NEW l \in LimitIds
              PROVE  /\ \A t \in passed'[l] : Counted(l, t)'
                     /\ \A c \in Calls : Hit(c, l)' => Counted(l, call[c].at[l])'
  BY DEF HitsCounted
<1>1. ASSUME NEW t \in passed'[l] PROVE Counted(l, t)'
  <2>1. Counted(l, t)
    BY PassedBefore, GrantedHit DEF HitsCounted
  <2>2. t \in Nat
    BY TypeStep DEF TypeOK
  <2>. QED  BY <2>1, <2>2, CountedStays
<1>2. ASSUME NEW c \in Calls, Hit(c, l)' PROVE Counted(l, call[c].at[l])'
  <2>1. call'[c].at[l] \in Nat
    BY TypeStep DEF TypeOK, CallState
  <2>2. ASSUME NEW t \in Nat, t = call'[c].at[l] PROVE Counted(l, t)'
    <3>1. t = call[c].at[l] /\ (Hit(c, l) \/ t \in zset'[l])
      BY <1>2, <2>2, HitBefore
    <3>2. CASE Hit(c, l)
      BY <3>1, <3>2, CountedStays DEF HitsCounted
    <3>3. CASE t \in zset'[l]
      BY <3>3 DEF Counted
    <3>. QED  BY <3>1, <3>2, <3>3
  <2>. QED  BY <2>1, <2>2 DEF Counted
<1>. QED  BY <1>1, <1>2

(* Every step keeps the hits granted in a window to the rate: those granted *)
(* in this window were granted before, or they are in a set that has just   *)
(* been read and found small enough.                                        *)
LEMMA GrantedStep ==
    TypeOK /\ Past /\ SetsKept /\ HitsCounted /\ FewGranted /\ [Next]_vars => FewGranted'
<1>. SUFFICES ASSUME TypeOK, Past, SetsKept, HitsCounted, FewGranted, [Next]_vars,
                     NEW l \in LimitIds
              PROVE  Cardinality(GrantedHits(l)') <= Rate[l]
  BY DEF FewGranted
<1>. DEFINE New == \E c \in Calls : Granted(c, l)' /\ ~Granted(c, l)
<1>0. /\ now \in Nat /\ now' \in Nat /\ now' >= now
      /\ blurred[l] \in Nat /\ blurred'[l] \in Nat /\ blurred'[l] >= blurred[l]
      /\ Period[l] \in Nat /\ Rate[l] \in Nat
  BY Forward, RateLimiterAssumption
<1>1. ASSUME NEW t \in GrantedHits(l)'
      PROVE  /\ t \in Nat /\ t > now - Period[l] /\ t > blurred[l] - Period[l]
             /\ \/ t \in passed'[l]
                \/ \E c \in Calls : Granted(c, l)' /\ call'[c].at[l] = t
  BY <1>0, <1>1 DEF GrantedHits
<1>2. ASSUME NEW S, IsFiniteSet(S), GrantedHits(l)' \subseteq S, Cardinality(S) <= Rate[l]
      PROVE  Cardinality(GrantedHits(l)') <= Rate[l]
  BY <1>0, <1>2, FS_Subset, FS_CardinalityType
<1>3. CASE New
  <2>1. Cardinality(zset[l]) <= Rate[l]
    BY <1>3, GrantedBefore
  <2>2. ASSUME NEW t \in GrantedHits(l)' PROVE t \in zset[l]
    <3>1. /\ t \in Nat /\ t > now - Period[l] /\ t > blurred[l] - Period[l]
          /\ \/ t \in passed'[l]
             \/ \E c \in Calls : Granted(c, l)' /\ call'[c].at[l] = t
      BY <1>1
    <3>2. t \in passed[l] \/ \E c \in Calls : Hit(c, l) /\ call[c].at[l] = t
      BY <3>1, PassedBefore, GrantedBefore, GrantedHit
    <3>3. Counted(l, t)
      BY <3>2 DEF HitsCounted
    <3>. QED  BY <1>0, <3>1, <3>3 DEF Counted
  <2>3. IsFiniteSet(zset[l])
    BY DEF SetsKept
  <2>. QED  BY <1>2, <2>1, <2>2, <2>3
<1>4. CASE ~New
  <2>1. ASSUME NEW t \in GrantedHits(l)' PROVE t \in GrantedHits(l)
    <3>1. /\ t \in Nat /\ t > now - Period[l] /\ t > blurred[l] - Period[l]
          /\ \/ t \in passed'[l]
             \/ \E c \in Calls : Granted(c, l)' /\ call'[c].at[l] = t
      BY <1>1
    <3>2. t \in passed[l] \/ \E c \in Calls : Granted(c, l) /\ call[c].at[l] = t
      BY <1>4, <3>1, PassedBefore, GrantedBefore
    <3>3. t <= now
      BY <3>2 DEF Past
    <3>. QED  BY <1>0, <3>1, <3>2, <3>3 DEF GrantedHits
  <2>2. IsFiniteSet(GrantedHits(l))
    BY GrantedFinite
  <2>3. Cardinality(GrantedHits(l)) <= Rate[l]
    BY DEF FewGranted
  <2>. QED  BY <1>2, <2>1, <2>2, <2>3
<1>. QED  BY <1>3, <1>4

-----------------------------------------------------------------------------
(* The invariant is inductive. *)
LEMMA NextIInv == IInv /\ [Next]_vars => IInv'
BY TypeStep, PastStep, RecentStep, KeptStep, CountedStep, GrantedStep DEF IInv

LEMMA Invariance == Spec => []IInv
BY InitIInv, NextIInv, PTL DEF Spec

(* The variables of the limiter have their types. *)
THEOREM TypeCorrect == Spec => []TypeOK
<1>1. IInv => TypeOK
  BY DEF IInv
<1>. QED  BY <1>1, Invariance, PTL

(* Nobody is turned away for hits of the past, whatever the interleaving of *)
(* the commands and however many calls are in flight.                       *)
THEOREM CountedAreRecent == Spec => []CountsOnlyRecent
<1>1. IInv => CountsOnlyRecent
  BY DEF IInv, CountsRecent, CountsRecentIn, Recent, CountsOnlyRecent, Limit
<1>. QED  BY <1>1, Invariance, PTL

(* The calls let through in a period hit each limit in at most Rate         *)
(* different milliseconds, whatever the interleaving of the commands and    *)
(* however many calls are in flight, unless an expiry blurred the count.    *)
THEOREM NoMoreThanRate == Spec => []WithinRate
<1>1. IInv => WithinRate
  <2>. SUFFICES ASSUME IInv, NEW l \in LimitIds, now >= blurred[l]
                PROVE  Cardinality(Window(l, now, passed[l])) <= Rate[l]
    BY DEF WithinRate
  <2>1. /\ now \in Nat /\ blurred[l] \in Nat /\ Period[l] \in Nat /\ Rate[l] \in Nat
        /\ passed[l] \subseteq Nat
    BY RateLimiterAssumption DEF IInv, TypeOK
  <2>2. \A t \in passed[l] : t <= now
    BY DEF IInv, Past
  <2>3. Window(l, now, passed[l]) \subseteq GrantedHits(l)
    BY <2>1, <2>2 DEF Window, GrantedHits
  <2>4. IsFiniteSet(GrantedHits(l))
    BY GrantedFinite DEF IInv
  <2>5. Cardinality(GrantedHits(l)) <= Rate[l]
    BY DEF IInv, FewGranted
  <2>. QED  BY <2>1, <2>3, <2>4, <2>5, FS_Subset, FS_CardinalityType
<1>. QED  BY <1>1, Invariance, PTL
=============================================================================
