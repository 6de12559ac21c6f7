---------------------------- MODULE RateLimiter ----------------------------
(***************************************************************************)
(* RateLimiterManager: the maps of limiters by client and by address, the  *)
(* calls AllowClient and AllowIP of many goroutines, and the goroutine     *)
(* that forgets the entries nobody has used for a while.                   *)
(*                                                                         *)
(* A call finds or makes the limiter of its key with the mutex of the map  *)
(* held and takes a token after it has released it; meanwhile the entry    *)
(* may be deleted and made anew.  Tokens are counted in the time it takes  *)
(* to earn them, so that every limiter regains one unit per unit of time.  *)
(***************************************************************************)
EXTENDS Naturals, FiniteSets

CONSTANTS
  Caller,     \* goroutines, each of one AllowClient or AllowIP call
  Key,        \* the keys of both maps
  Asks,       \* of each caller: the keys it may ask for
  ClientKey,  \* those of r.clients; the others are in r.ips
  Limiter,    \* the *rate.Limiter values
  Cost,       \* of each key: the time to earn a token, 1 / rate
  Capacity,   \* of each key: the time to earn a full burst
  EntryTTL,
  MaxTime,    \* bound: the time that passes
  NoKey, NoLimiter

ASSUME KeysAssumption ==
  /\ ClientKey \subseteq Key /\ Asks \in [Caller -> SUBSET Key] /\ NoKey \notin Key /\ NoLimiter \notin Limiter

\* WithRateLimit takes any limits, also those of an entry that is forgotten
\* before its limiter is full again.
ASSUME TimesAssumption ==
  /\ EntryTTL \in Nat /\ MaxTime \in Nat
  /\ Cost \in [Key -> Nat] /\ Capacity \in [Key -> Nat]

VARIABLES
  now,
  limiter, lastSeen,  \* the entries: the limiter of each key, or NoLimiter
  credit, limits,     \* of each limiter: what it holds, and the key it was made for
  pc, key, held, since,  \* of each call: its key, and the limiter it found and when
  clientsViolations, ipsViolations,
  loop, start,        \* cleanupLoop, and the time its cleanup began
  quit, stopPanics,   \* whether r.quit is closed; whether a second Stop has panicked
  taken, forgotten    \* history: how each call took its token; the deletions of each entry

entryVars == <<limiter, lastSeen>>
poolVars  == <<credit, limits>>
callVars  == <<pc, key, held, since>>
countVars == <<clientsViolations, ipsViolations>>
loopVars  == <<loop, start>>
stopVars  == <<quit, stopPanics>>
history   == <<taken, forgotten>>
vars == <<now, entryVars, poolVars, callVars, countVars, loopVars, stopVars, history>>

Init ==
  /\ now = 0
  /\ limiter = [k \in Key |-> NoLimiter] /\ lastSeen = [k \in Key |-> 0]
  /\ credit = [l \in Limiter |-> 0] /\ limits = [l \in Limiter |-> NoKey]
  /\ pc = [c \in Caller |-> "idle"] /\ key = [c \in Caller |-> NoKey]
  /\ held = [c \in Caller |-> NoLimiter] /\ since = [c \in Caller |-> 0]
  /\ clientsViolations = 0 /\ ipsViolations = 0
  /\ loop = "select" /\ start = 0
  /\ quit = FALSE /\ stopPanics = FALSE
  /\ taken = [c \in Caller |-> "none"] /\ forgotten = [k \in Key |-> 0]
-----------------------------------------------------------------------------
(* Time, and rate.Limiter, whose tokens come back as time passes           *)

RefilledForever(l) == IF limits[l] # NoKey THEN credit[l] + 1 ELSE credit[l]    \* mutant: no burst
Refilled(l) ==
  IF limits[l] # NoKey /\ credit[l] < Capacity[limits[l]] THEN credit[l] + 1 ELSE credit[l]

\* Time passes whatever a call is about to do.
Tick ==
  /\ now < MaxTime
  /\ now' = now + 1
  /\ credit' = [l \in Limiter |-> Refilled(l)]
  /\ UNCHANGED <<entryVars, limits, callVars, countVars, loopVars, stopVars, history>>
-----------------------------------------------------------------------------
(* AllowClient and AllowIP                                                 *)

\* A limiter that no entry and no call refers to stands for a new one.
Unused(l) ==
  /\ \A k \in Key : limiter[k] # l
  /\ \A c \in Caller : pc[c] = "allow" => held[c] # l

Found(c, k, l) ==
  /\ limiter' = [limiter EXCEPT ![k] = l]
  /\ lastSeen' = [lastSeen EXCEPT ![k] = now]
  /\ key' = [key EXCEPT ![c] = k]
  /\ held' = [held EXCEPT ![c] = l]
  /\ since' = [since EXCEPT ![c] = now]
  /\ pc' = [pc EXCEPT ![c] = "allow"]
  /\ UNCHANGED <<now, countVars, loopVars, stopVars, history>>

LookupKnown(c, k) ==
  /\ pc[c] = "idle" /\ limiter[k] # NoLimiter
  /\ Found(c, k, limiter[k])
  /\ UNCHANGED poolVars

NoBurst(k) == 0    \* mutant: a new limiter starts empty
Burst(k) == Capacity[k]

LookupNew(c, k) ==
  /\ pc[c] = "idle" /\ limiter[k] = NoLimiter
  /\ \E l \in Limiter : Unused(l)
  /\ LET l == CHOOSE l \in Limiter : Unused(l) IN
       /\ credit' = [credit EXCEPT ![l] = Burst(k)]
       /\ limits' = [limits EXCEPT ![l] = k]
       /\ Found(c, k, l)

\* How a call that is about to take its token comes to it: by a limiter that is
\* no longer the one of its entry, so late that the limiter cannot fill up
\* again before the entry expires, or promptly.
Manner(c) ==
  IF limiter[key[c]] # held[c] THEN "stale"
  ELSE IF now + Capacity[key[c]] > since[c] + EntryTTL THEN "late" ELSE "prompt"

NoCharge(l) == credit[l]    \* mutant: Tokens() >= 1, which takes none
Charge(l) == credit[l] - Cost[limits[l]]

\* lim.Allow()
Allow(c) ==
  /\ pc[c] = "allow"
  /\ LET l == held[c] IN
       IF credit[l] >= Cost[limits[l]]
       THEN /\ credit' = [credit EXCEPT ![l] = Charge(l)]
            /\ pc' = [pc EXCEPT ![c] = "granted"]
            /\ taken' = [taken EXCEPT ![c] = Manner(c)]
       ELSE /\ pc' = [pc EXCEPT ![c] = "count"]
            /\ UNCHANGED <<credit, taken>>
  /\ held' = [held EXCEPT ![c] = NoLimiter]
  /\ since' = [since EXCEPT ![c] = 0]
  /\ UNCHANGED <<now, entryVars, limits, key, countVars, loopVars, stopVars, forgotten>>

CountViolation(c) ==
  /\ pc[c] = "count"
  /\ IF key[c] \in ClientKey
     THEN clientsViolations' = clientsViolations + 1 /\ UNCHANGED ipsViolations
     ELSE ipsViolations' = ipsViolations + 1 /\ UNCHANGED clientsViolations
  /\ pc' = [pc EXCEPT ![c] = "refused"]
  /\ UNCHANGED <<now, entryVars, poolVars, key, held, since, loopVars, stopVars, history>>
-----------------------------------------------------------------------------
(* cleanupLoop, and Stop                                                   *)

\* cleanup reads the time once, before it takes the first mutex.
CleanupBegin ==
  /\ loop = "select"
  /\ loop' = "clients" /\ start' = now
  /\ UNCHANGED <<now, entryVars, poolVars, callVars, countVars, stopVars, history>>

ExpiredAtOnce(k) == lastSeen[k] < start    \* mutant: the threshold is the present
\* v.lastSeen.Before(threshold)
Expired(k) == lastSeen[k] + EntryTTL < start

Forget(S) ==
  LET gone == {k \in S : limiter[k] # NoLimiter /\ Expired(k)} IN
    /\ limiter' = [k \in Key |-> IF k \in gone THEN NoLimiter ELSE limiter[k]]
    /\ forgotten' = [k \in Key |-> IF k \in gone THEN forgotten[k] + 1 ELSE forgotten[k]]
    /\ UNCHANGED taken

CleanupClients ==
  /\ loop = "clients"
  /\ Forget(ClientKey)
  /\ loop' = "ips"
  /\ UNCHANGED <<now, lastSeen, poolVars, callVars, countVars, start, stopVars>>

CleanupIPs ==
  /\ loop = "ips"
  /\ Forget(Key \ ClientKey)
  /\ loop' = "select" /\ start' = 0
  /\ UNCHANGED <<now, lastSeen, poolVars, callVars, countVars, stopVars>>

BreakSelect == "select"    \* mutant: break leaves the select, not the loop
AfterQuit == "ended"

CleanupQuit ==
  /\ loop = "select" /\ quit
  /\ loop' = AfterQuit
  /\ UNCHANGED <<now, entryVars, poolVars, callVars, countVars, start, stopVars, history>>

\* The second close of r.quit panics.
Stop ==
  /\ ~stopPanics
  /\ quit' = TRUE
  /\ stopPanics' = quit
  /\ UNCHANGED <<now, entryVars, poolVars, callVars, countVars, loopVars, history>>
-----------------------------------------------------------------------------
CallNext(c) == (\E k \in Asks[c] : LookupKnown(c, k) \/ LookupNew(c, k)) \/ Allow(c) \/ CountViolation(c)

LoopNext == CleanupBegin \/ CleanupClients \/ CleanupIPs \/ CleanupQuit

Next == Tick \/ LoopNext \/ Stop \/ (\E c \in Caller : CallNext(c))

Spec == Init /\ [][Next]_vars

\* The goroutine of cleanupLoop is scheduled, and a select that finds both
\* channels ready again and again takes the one of r.quit at last.
FairSpec == Spec /\ WF_vars(CleanupClients \/ CleanupIPs) /\ SF_vars(CleanupQuit)
-----------------------------------------------------------------------------
(* Properties                                                              *)

\* Every variable has its type, a limiter never holds more than its burst,
\* and no two keys share a limiter.
TypeOK ==
  /\ now \in Nat /\ start \in Nat
  /\ limiter \in [Key -> Limiter \cup {NoLimiter}] /\ lastSeen \in [Key -> Nat]
  /\ credit \in [Limiter -> Nat] /\ limits \in [Limiter -> Key \cup {NoKey}]
  /\ pc \in [Caller -> {"idle", "allow", "count", "granted", "refused"}]
  /\ key \in [Caller -> Key \cup {NoKey}] /\ held \in [Caller -> Limiter \cup {NoLimiter}]
  /\ since \in [Caller -> Nat]
  /\ clientsViolations \in Nat /\ ipsViolations \in Nat
  /\ loop \in {"select", "clients", "ips", "ended"} /\ quit \in BOOLEAN /\ stopPanics \in BOOLEAN
  /\ taken \in [Caller -> {"none", "prompt", "late", "stale"}] /\ forgotten \in [Key -> Nat]
  /\ \A l \in Limiter : limits[l] # NoKey => credit[l] <= Capacity[limits[l]]
  /\ \A k \in Key : limiter[k] # NoLimiter => limits[limiter[k]] = k

TakenBy(k, manners) == {c \in Caller : pc[c] = "granted" /\ key[c] = k /\ taken[c] \in manners}
Granted(k) == {c \in Caller : pc[c] = "granted" /\ key[c] = k}
Refused(k) == {c \in Caller : pc[c] \in {"count", "refused"} /\ key[c] = k}

\* cleanup gives nothing away: however often the entry of a key is deleted and
\* made anew, the calls that take their token promptly are never granted more than
\* one burst and the time that has passed pay for.  Only a call suspended between the
\* unlock and lim.Allow(), for longer than EntryTTL exceeds the time of a refill, is
\* not counted; with an EntryTTL below that time this is every call.
RateBounded ==
  \A k \in Key : Cost[k] * Cardinality(TakenBy(k, {"prompt"})) <= Capacity[k] + now

\* With any limits, and however long the calls are suspended, every deletion of an
\* entry costs at most one more burst, unless it takes the limiter away from under
\* a call.
BurstPerDeletion ==
  \A k \in Key : Cost[k] * Cardinality(TakenBy(k, {"prompt", "late"}))
                   <= Capacity[k] * (1 + forgotten[k]) + now

\* No call is refused before its own key has used up its burst: other keys, calls in
\* between and deletions take no token away.
RefusalsEarned ==
  \A k \in Key : Refused(k) # {} => Cost[k] * (Cardinality(Granted(k)) + 1) > Capacity[k]

\* After Stop the goroutine of cleanupLoop ends, whatever the ticker does.
LoopEnds == quit ~> loop = "ended"
=============================================================================
