------------------------ MODULE RateLimiter_proofs ------------------------
(***************************************************************************)
(* Proofs about RateLimiter, for any limits.  Beside the limiter of its    *)
(* entry every key is given a bucket of its own that is never forgotten    *)
(* and from which the prompt calls alone take: when cleanup deletes an     *)
(* entry, that bucket is full.                                             *)
(***************************************************************************)
EXTENDS RateLimiter, FiniteSetTheorems, TLAPS

\* A call about to take its token holds a limiter with the limits of its key, and
\* the one of its entry as long as the entry cannot have expired.
HeldLimits ==
  \A c \in Caller : pc[c] = "allow" =>
    /\ key[c] \in Key /\ held[c] \in Limiter /\ limits[held[c]] = key[c] /\ since[c] <= now
    /\ now <= since[c] + EntryTTL =>
         limiter[key[c]] = held[c] /\ since[c] <= lastSeen[key[c]]

Clock == start <= now /\ \A k \in Key : lastSeen[k] <= now

IInv == TypeOK /\ HeldLimits /\ Clock

USE KeysAssumption, TimesAssumption

LEMMA InitInv == Init => IInv
<1> SUFFICES ASSUME Init PROVE IInv
  OBVIOUS
<1>1. TypeOK
  BY DEF Init, TypeOK
<1>2. HeldLimits /\ Clock
  BY DEF Init, HeldLimits, Clock
<1> QED BY <1>1, <1>2 DEF IInv

\* The limiter of a key is in nobody else's entry, and has the limits of the key.
LEMMA LimitsOfEntry ==
  ASSUME TypeOK, NEW k \in Key, limiter[k] # NoLimiter
  PROVE  /\ limiter[k] \in Limiter /\ limits[limiter[k]] = k
         /\ credit[limiter[k]] \in Nat /\ credit[limiter[k]] <= Capacity[k]
         /\ \A j \in Key : limiter[j] = limiter[k] => j = k
BY DEF TypeOK

LEMMA StepTick == IInv /\ Tick => IInv'
<1> SUFFICES ASSUME IInv, Tick PROVE IInv'
  OBVIOUS
<1> USE DEF entryVars, callVars, countVars, loopVars, stopVars, history
<1>1. now' = now + 1 /\ now \in Nat
  BY DEF Tick, IInv, TypeOK
<1>2. \A l \in Limiter : credit'[l] = Refilled(l)
  BY DEF Tick
<1>3. \A l \in Limiter : /\ credit'[l] \in Nat
                         /\ limits[l] # NoKey => credit'[l] <= Capacity[limits[l]]
  BY <1>2 DEF Refilled, IInv, TypeOK
<1>4. credit' \in [Limiter -> Nat]
  BY <1>3 DEF Tick
<1>5. TypeOK'
  BY <1>1, <1>3, <1>4 DEF Tick, IInv, TypeOK
<1>6. HeldLimits'
  <2> SUFFICES ASSUME NEW c \in Caller, pc[c] = "allow"
               PROVE  /\ key[c] \in Key /\ held[c] \in Limiter /\ limits[held[c]] = key[c]
                      /\ since[c] <= now'
                      /\ now' <= since[c] + EntryTTL =>
                           limiter[key[c]] = held[c] /\ since[c] <= lastSeen[key[c]]
    BY DEF HeldLimits, Tick
  <2>1. since[c] \in Nat
    BY DEF IInv, TypeOK
  <2>2. now' <= since[c] + EntryTTL => now <= since[c] + EntryTTL
    BY <1>1, <2>1
  <2>3. since[c] <= now => since[c] <= now'
    BY <1>1, <2>1
  <2> QED BY <2>2, <2>3 DEF IInv, HeldLimits
<1>7. Clock'
  BY <1>1 DEF Tick, IInv, Clock, TypeOK
<1> QED BY <1>5, <1>6, <1>7 DEF IInv

\* A lookup reads or makes the entry of its key; other keys keep theirs.
LEMMA StepFound ==
  ASSUME IInv, NEW c \in Caller, NEW k \in Key, NEW l \in Limiter, Found(c, k, l),
         pc[c] = "idle",
         credit' \in [Limiter -> Nat], limits' \in [Limiter -> Key \cup {NoKey}],
         limits'[l] = k, credit'[l] \in Nat, credit'[l] <= Capacity[k],
         limiter[k] # NoLimiter => l = limiter[k],
         limiter[k] = NoLimiter => Unused(l),
         \A m \in Limiter : m # l \/ limiter[k] # NoLimiter =>
                              credit'[m] = credit[m] /\ limits'[m] = limits[m]
  PROVE  IInv'
<1> USE DEF entryVars, callVars, countVars, loopVars, stopVars, history
<1>1. limiter' = [limiter EXCEPT ![k] = l] /\ limiter'[k] = l /\ lastSeen'[k] = now /\ now' = now
      /\ now \in Nat /\ \A j \in Key : j # k => limiter'[j] = limiter[j] /\ lastSeen'[j] = lastSeen[j]
  BY DEF Found, IInv, TypeOK
<1>2. \A j \in Key : j # k /\ limiter[j] # NoLimiter =>
        /\ limiter[j] # l
        /\ credit'[limiter[j]] = credit[limiter[j]] /\ limits'[limiter[j]] = limits[limiter[j]]
  <2> SUFFICES ASSUME NEW j \in Key, j # k, limiter[j] # NoLimiter
               PROVE  /\ limiter[j] # l
                      /\ credit'[limiter[j]] = credit[limiter[j]]
                      /\ limits'[limiter[j]] = limits[limiter[j]]
    OBVIOUS
  <2>1. limiter[j] \in Limiter /\ limiter[j] # l
    BY LimitsOfEntry DEF IInv, Unused
  <2> QED BY <2>1
<1>3. TypeOK'
  <2>1. limiter' \in [Key -> Limiter \cup {NoLimiter}] /\ lastSeen' \in [Key -> Nat]
    BY <1>1 DEF Found, IInv, TypeOK
  <2>2. \A j \in Key : limiter'[j] # NoLimiter => limits'[limiter'[j]] = j
    BY <1>1, <1>2 DEF IInv, TypeOK
  <2>3. \A m \in Limiter : limits'[m] # NoKey => credit'[m] <= Capacity[limits'[m]]
    BY DEF IInv, TypeOK
  <2>4. /\ pc' \in [Caller -> {"idle", "allow", "count", "granted", "refused"}]
        /\ key' \in [Caller -> Key \cup {NoKey}] /\ held' \in [Caller -> Limiter \cup {NoLimiter}]
        /\ since' \in [Caller -> Nat]
    BY <1>1 DEF Found, IInv, TypeOK
  <2> QED BY <2>1, <2>2, <2>3, <2>4, <1>1 DEF Found, IInv, TypeOK
<1>4. HeldLimits'
  <2> SUFFICES ASSUME NEW d \in Caller, pc'[d] = "allow"
               PROVE  /\ key'[d] \in Key /\ held'[d] \in Limiter /\ limits'[held'[d]] = key'[d]
                      /\ since'[d] <= now'
                      /\ now' <= since'[d] + EntryTTL =>
                           limiter'[key'[d]] = held'[d] /\ since'[d] <= lastSeen'[key'[d]]
    BY DEF HeldLimits
  <2>1. CASE d = c
    <3>1. key'[d] = k /\ held'[d] = l /\ since'[d] = now
      BY <2>1 DEF Found, IInv, TypeOK
    <3> QED BY <3>1, <1>1
  <2>2. CASE d # c
    <3>1. pc[d] = "allow" /\ key'[d] = key[d] /\ held'[d] = held[d] /\ since'[d] = since[d]
      BY <2>2 DEF Found, IInv, TypeOK
    <3>2. /\ key[d] \in Key /\ held[d] \in Limiter /\ limits[held[d]] = key[d] /\ since[d] <= now
          /\ now <= since[d] + EntryTTL => limiter[key[d]] = held[d] /\ since[d] <= lastSeen[key[d]]
      BY <3>1 DEF IInv, HeldLimits
    <3>3. limits'[held[d]] = key[d]
      BY <3>1, <3>2 DEF Unused
    <3>4. CASE key[d] = k
      <4>1. now <= since[d] + EntryTTL => limiter[k] # NoLimiter
        BY <3>2, <3>4
      <4> QED BY <3>1, <3>2, <3>3, <3>4, <4>1, <1>1
    <3>5. CASE key[d] # k
      BY <3>1, <3>2, <3>3, <3>5, <1>1
    <3> QED BY <3>4, <3>5
  <2> QED BY <2>1, <2>2
<1>5. Clock'
  BY <1>1 DEF Found, IInv, Clock, TypeOK
<1> QED BY <1>3, <1>4, <1>5 DEF IInv

LEMMA StepLookup ==
  ASSUME IInv, NEW c \in Caller, NEW k \in Key, LookupKnown(c, k) \/ LookupNew(c, k)
  PROVE  IInv'
<1>1. CASE LookupKnown(c, k)
  <2>1. limiter[k] # NoLimiter /\ pc[c] = "idle" /\ Found(c, k, limiter[k])
        /\ credit' = credit /\ limits' = limits
    BY <1>1 DEF LookupKnown, poolVars
  <2>2. limiter[k] \in Limiter /\ limits[limiter[k]] = k
        /\ credit[limiter[k]] \in Nat /\ credit[limiter[k]] <= Capacity[k]
    BY <2>1, LimitsOfEntry DEF IInv
  <2>3. credit \in [Limiter -> Nat] /\ limits \in [Limiter -> Key \cup {NoKey}]
    BY DEF IInv, TypeOK
  <2> QED BY <2>1, <2>2, <2>3, StepFound
<1>2. CASE LookupNew(c, k)
  <2> DEFINE l == CHOOSE l \in Limiter : Unused(l)
  <2>1. l \in Limiter /\ Unused(l)
    BY <1>2 DEF LookupNew
  <2>2. /\ limiter[k] = NoLimiter /\ pc[c] = "idle" /\ Found(c, k, l)
        /\ credit' = [credit EXCEPT ![l] = Capacity[k]] /\ limits' = [limits EXCEPT ![l] = k]
    BY <1>2 DEF LookupNew, Burst
  <2>3. credit \in [Limiter -> Nat] /\ limits \in [Limiter -> Key \cup {NoKey}]
        /\ Capacity[k] \in Nat
    BY DEF IInv, TypeOK
  <2> HIDE DEF l
  <2> QED BY <2>1, <2>2, <2>3, StepFound
<1> QED BY <1>1, <1>2

\* What Allow does to the limiter it holds and to no other.
LEMMA AllowFacts ==
  ASSUME IInv, NEW c \in Caller, Allow(c)
  PROVE  LET k == key[c] IN LET l == held[c] IN
         /\ k \in Key /\ l \in Limiter /\ limits[l] = k /\ pc[c] = "allow"
         /\ credit[l] \in Nat /\ credit[l] <= Capacity[k] /\ Cost[k] \in Nat /\ Capacity[k] \in Nat
         /\ credit' \in [Limiter -> Nat]
         /\ \A m \in Limiter : m # l => credit'[m] = credit[m]
         /\ UNCHANGED <<now, limiter, lastSeen, limits, key, start, forgotten>>
         /\ \/ /\ credit[l] >= Cost[k] /\ credit'[l] = credit[l] - Cost[k]
               /\ pc' = [pc EXCEPT ![c] = "granted"] /\ taken' = [taken EXCEPT ![c] = Manner(c)]
            \/ /\ credit[l] < Cost[k] /\ credit' = credit
               /\ pc' = [pc EXCEPT ![c] = "count"] /\ taken' = taken
<1> DEFINE k == key[c]
           l == held[c]
<1>1. k \in Key /\ l \in Limiter /\ limits[l] = k /\ pc[c] = "allow"
  BY DEF Allow, IInv, HeldLimits
<1>2. /\ credit[l] \in Nat /\ credit[l] <= Capacity[k] /\ Cost[k] \in Nat /\ Capacity[k] \in Nat
      /\ credit \in [Limiter -> Nat]
  BY <1>1 DEF IInv, TypeOK
<1>3. UNCHANGED <<now, limiter, lastSeen, limits, key, start, forgotten>>
  BY DEF Allow, entryVars, loopVars
<1>4. CASE credit[l] >= Cost[k]
  <2>1. /\ credit' = [credit EXCEPT ![l] = credit[l] - Cost[k]]
        /\ pc' = [pc EXCEPT ![c] = "granted"] /\ taken' = [taken EXCEPT ![c] = Manner(c)]
    BY <1>1, <1>4 DEF Allow, Charge
  <2> HIDE DEF k, l
  <2>2. credit[l] - Cost[k] \in Nat
    BY <1>2, <1>4
  <2>3. credit' \in [Limiter -> Nat] /\ credit'[l] = credit[l] - Cost[k]
        /\ \A m \in Limiter : m # l => credit'[m] = credit[m]
    BY <1>1, <1>2, <2>1, <2>2
  <2> QED BY <1>1, <1>2, <1>3, <1>4, <2>1, <2>3 DEF k, l
<1>5. CASE ~(credit[l] >= Cost[k])
  <2>1. credit' = credit /\ pc' = [pc EXCEPT ![c] = "count"] /\ taken' = taken
    BY <1>1, <1>5 DEF Allow
  <2>2. credit[l] < Cost[k]
    <3> HIDE DEF k, l
    <3> QED BY <1>2, <1>5
  <2> QED BY <1>1, <1>2, <1>3, <2>1, <2>2
<1> QED BY <1>4, <1>5

LEMMA StepAllow ==
  ASSUME IInv, NEW c \in Caller, Allow(c)
  PROVE  IInv'
<1> USE DEF entryVars, callVars, countVars, loopVars, stopVars
<1> DEFINE l == held[c]
<1>1. /\ l \in Limiter /\ limits[l] = key[c] /\ credit' \in [Limiter -> Nat] /\ credit'[l] <= credit[l]
      /\ \A m \in Limiter : m # l => credit'[m] = credit[m]
      /\ UNCHANGED <<now, limiter, lastSeen, limits, key, start, forgotten>>
  BY AllowFacts
<1>2. /\ held' = [held EXCEPT ![c] = NoLimiter] /\ since' = [since EXCEPT ![c] = 0]
      /\ \E p \in {"granted", "count"} : pc' = [pc EXCEPT ![c] = p]
      /\ UNCHANGED <<clientsViolations, ipsViolations, loop, quit, stopPanics>>
  BY DEF Allow
<1>3. taken' \in [Caller -> {"none", "prompt", "late", "stale"}]
  <2>1. Manner(c) \in {"prompt", "late", "stale"}
    BY DEF Manner
  <2>2. taken' = taken \/ taken' = [taken EXCEPT ![c] = Manner(c)]
    BY AllowFacts
  <2> QED BY <2>1, <2>2 DEF IInv, TypeOK
<1>4. TypeOK'
  <2>1. \A m \in Limiter : limits'[m] # NoKey => credit'[m] <= Capacity[limits'[m]]
    <3> SUFFICES ASSUME NEW m \in Limiter, limits[m] # NoKey PROVE credit'[m] <= Capacity[limits[m]]
      BY <1>1
    <3>1. credit[m] <= Capacity[limits[m]] /\ Capacity[limits[m]] \in Nat
      BY DEF IInv, TypeOK
    <3>2. credit'[m] \in Nat /\ credit[m] \in Nat /\ credit'[m] <= credit[m]
      BY <1>1 DEF IInv, TypeOK
    <3> QED BY <3>1, <3>2
  <2>2. /\ pc' \in [Caller -> {"idle", "allow", "count", "granted", "refused"}]
        /\ held' \in [Caller -> Limiter \cup {NoLimiter}] /\ since' \in [Caller -> Nat]
    BY <1>2 DEF IInv, TypeOK
  <2>3. /\ limiter' \in [Key -> Limiter \cup {NoLimiter}]
        /\ \A k \in Key : limiter'[k] # NoLimiter => limits'[limiter'[k]] = k
    BY <1>1 DEF IInv, TypeOK
  <2> QED BY <1>1, <1>2, <1>3, <2>1, <2>2, <2>3 DEF IInv, TypeOK
<1>5. HeldLimits'
  <2> SUFFICES ASSUME NEW d \in Caller, pc'[d] = "allow"
               PROVE  /\ key[d] \in Key /\ held'[d] \in Limiter /\ limits[held'[d]] = key[d]
                      /\ since'[d] <= now
                      /\ now <= since'[d] + EntryTTL =>
                           limiter[key[d]] = held'[d] /\ since'[d] <= lastSeen[key[d]]
    BY <1>1 DEF HeldLimits
  <2>1. d # c /\ pc[d] = "allow" /\ held'[d] = held[d] /\ since'[d] = since[d]
    BY <1>2 DEF IInv, TypeOK
  <2> QED BY <2>1 DEF IInv, HeldLimits
<1>6. Clock'
  BY <1>1 DEF IInv, Clock
<1> QED BY <1>4, <1>5, <1>6 DEF IInv

\* The rest of a call, Stop, and the steps of the loop that delete nothing.
OtherSteps ==
  \/ \E c \in Caller : CountViolation(c)
  \/ Stop \/ CleanupBegin \/ CleanupQuit \/ UNCHANGED vars

LEMMA OtherFacts ==
  ASSUME IInv, OtherSteps
  PROVE  /\ UNCHANGED <<now, limiter, lastSeen, credit, limits, key, held, since, taken, forgotten>>
         /\ pc' \in [Caller -> {"idle", "allow", "count", "granted", "refused"}]
         /\ \A c \in Caller : /\ pc'[c] = "allow" <=> pc[c] = "allow"
                              /\ pc'[c] = "granted" <=> pc[c] = "granted"
                              /\ pc'[c] \in {"count", "refused"} <=> pc[c] \in {"count", "refused"}
BY DEF OtherSteps, CountViolation, Stop, CleanupBegin, CleanupQuit, vars, IInv, TypeOK,
       entryVars, poolVars, callVars, countVars, loopVars, stopVars, history

LEMMA StepOther ==
  ASSUME IInv, OtherSteps
  PROVE  IInv'
<1> USE DEF entryVars, poolVars, callVars, countVars, loopVars, stopVars, history
<1>1. start' \in Nat /\ start' <= now
  BY DEF OtherSteps, CountViolation, Stop, CleanupBegin, CleanupQuit, vars, IInv, TypeOK, Clock
<1>2. clientsViolations' \in Nat /\ ipsViolations' \in Nat
  BY DEF OtherSteps, CountViolation, Stop, CleanupBegin, CleanupQuit, vars, IInv, TypeOK
<1>3. loop' \in {"select", "clients", "ips", "ended"} /\ quit' \in BOOLEAN /\ stopPanics' \in BOOLEAN
  BY DEF OtherSteps, CountViolation, Stop, CleanupBegin, CleanupQuit, AfterQuit, vars, IInv, TypeOK
<1>4. TypeOK'
  BY <1>1, <1>2, <1>3, OtherFacts DEF IInv, TypeOK
<1>5. HeldLimits' /\ Clock'
  BY <1>1, OtherFacts DEF IInv, HeldLimits, Clock
<1> QED BY <1>4, <1>5 DEF IInv

\* What cleanup of either map deletes, and what it leaves.
LEMMA ForgetFacts ==
  ASSUME IInv, CleanupClients \/ CleanupIPs
  PROVE  /\ UNCHANGED <<now, lastSeen, credit, limits, pc, key, held, since, clientsViolations,
                         ipsViolations, quit, stopPanics, taken>>
         /\ loop' \in {"ips", "select"} /\ start' \in {start, 0}
         /\ limiter' \in [Key -> Limiter \cup {NoLimiter}] /\ forgotten' \in [Key -> Nat]
         /\ \A k \in Key : \/ limiter'[k] = limiter[k] /\ forgotten'[k] = forgotten[k]
                           \/ /\ limiter[k] # NoLimiter /\ limiter'[k] = NoLimiter
                              /\ forgotten'[k] = forgotten[k] + 1
                              /\ lastSeen[k] + EntryTTL < now
<1> USE DEF entryVars, poolVars, callVars, countVars, loopVars, stopVars, history
<1>1. PICK S \in SUBSET Key : Forget(S)
  BY DEF CleanupClients, CleanupIPs
<1> DEFINE gone == {k \in S : limiter[k] # NoLimiter /\ Expired(k)}
<1>2. /\ limiter' = [k \in Key |-> IF k \in gone THEN NoLimiter ELSE limiter[k]]
      /\ forgotten' = [k \in Key |-> IF k \in gone THEN forgotten[k] + 1 ELSE forgotten[k]]
      /\ taken' = taken
  BY <1>1 DEF Forget
<1>3. \A k \in gone : limiter[k] # NoLimiter /\ lastSeen[k] + EntryTTL < now
  BY DEF Expired, IInv, Clock, TypeOK
<1> HIDE DEF gone
<1>4. /\ UNCHANGED <<now, lastSeen, credit, limits, pc, key, held, since, clientsViolations,
                      ipsViolations, quit, stopPanics>>
      /\ loop' \in {"ips", "select"} /\ start' \in {start, 0}
  BY DEF CleanupClients, CleanupIPs
<1>5. limiter' \in [Key -> Limiter \cup {NoLimiter}] /\ forgotten' \in [Key -> Nat]
  BY <1>2 DEF IInv, TypeOK
<1> QED BY <1>2, <1>3, <1>4, <1>5

LEMMA StepForget ==
  ASSUME IInv, CleanupClients \/ CleanupIPs
  PROVE  IInv'
<1>1. TypeOK'
  <2>1. start' \in Nat
    BY ForgetFacts DEF IInv, TypeOK
  <2>2. \A k \in Key : limiter'[k] # NoLimiter => limits'[limiter'[k]] = k
    BY ForgetFacts DEF IInv, TypeOK
  <2> QED BY <2>1, <2>2, ForgetFacts DEF IInv, TypeOK
<1>2. HeldLimits'
  <2> SUFFICES ASSUME NEW c \in Caller, pc[c] = "allow"
               PROVE  /\ key[c] \in Key /\ held[c] \in Limiter /\ limits[held[c]] = key[c]
                      /\ since[c] <= now
                      /\ now <= since[c] + EntryTTL =>
                           limiter'[key[c]] = held[c] /\ since[c] <= lastSeen[key[c]]
    BY ForgetFacts DEF HeldLimits
  <2>1. /\ key[c] \in Key /\ held[c] \in Limiter /\ limits[held[c]] = key[c] /\ since[c] <= now
        /\ now <= since[c] + EntryTTL => limiter[key[c]] = held[c] /\ since[c] <= lastSeen[key[c]]
    BY DEF IInv, HeldLimits
  <2>2. ASSUME now <= since[c] + EntryTTL PROVE limiter'[key[c]] = limiter[key[c]]
    <3>1. since[c] <= lastSeen[key[c]]
      BY <2>1, <2>2
    <3>2. now \in Nat /\ since[c] \in Nat /\ lastSeen[key[c]] \in Nat
      BY <2>1 DEF IInv, TypeOK
    <3>3. ~(lastSeen[key[c]] + EntryTTL < now)
      BY <2>2, <3>1, <3>2
    <3> QED BY <2>1, <3>3, ForgetFacts
  <2> QED BY <2>1, <2>2
<1>3. Clock'
  BY ForgetFacts DEF IInv, Clock, TypeOK
<1> QED BY <1>1, <1>2, <1>3 DEF IInv

LEMMA AsksKeys == \A c \in Caller : Asks[c] \subseteq Key
BY KeysAssumption

LEMMA StepInv == IInv /\ [Next]_vars => IInv'
<1> SUFFICES ASSUME IInv, [Next]_vars PROVE IInv'
  OBVIOUS
<1>1. ASSUME NEW c \in Caller, CallNext(c) PROVE IInv'
  BY <1>1, AsksKeys, StepLookup, StepAllow, StepOther DEF CallNext, OtherSteps
<1>2. CASE LoopNext
  BY <1>2, StepForget, StepOther DEF LoopNext, OtherSteps
<1> QED BY <1>1, <1>2, StepTick, StepOther DEF Next, OtherSteps

LEMMA Invariance == Spec => []IInv
BY InitInv, StepInv, PTL DEF Spec

\* Every variable has its type, a limiter never holds more than its burst,
\* and no two keys share a limiter.
THEOREM TypeCorrect == Spec => []TypeOK
BY Invariance, PTL DEF IInv
-----------------------------------------------------------------------------
(* The calls granted to a key                                              *)

LEMMA TakenKept ==
  ASSUME key' = key, taken' = taken, \A c \in Caller : pc'[c] = "granted" <=> pc[c] = "granted",
         NEW k \in Key, NEW M
  PROVE  TakenBy(k, M)' = TakenBy(k, M) /\ Granted(k)' = Granted(k)
BY DEF TakenBy, Granted

LEMMA TakenByLookup ==
  ASSUME IInv, NEW c \in Caller, NEW k \in Key, LookupKnown(c, k) \/ LookupNew(c, k),
         NEW j \in Key, NEW M
  PROVE  /\ TakenBy(j, M)' = TakenBy(j, M) /\ Granted(j)' = Granted(j)
         /\ \A d \in Refused(j)' : d \in Refused(j)
<1>1. /\ pc[c] = "idle" /\ pc' = [pc EXCEPT ![c] = "allow"] /\ key' = [key EXCEPT ![c] = k]
      /\ taken' = taken
  BY DEF LookupKnown, LookupNew, Found, history
<1> QED BY <1>1 DEF TakenBy, Granted, Refused, IInv, TypeOK

LEMMA TakenByRefusal ==
  ASSUME IInv, NEW c \in Caller, pc[c] = "allow", pc' = [pc EXCEPT ![c] = "count"], key' = key,
         taken' = taken, NEW j \in Key, NEW M
  PROVE  TakenBy(j, M)' = TakenBy(j, M) /\ Granted(j)' = Granted(j)
BY DEF TakenBy, Granted, IInv, TypeOK

LEMMA TakenByGrant ==
  ASSUME IInv, NEW c \in Caller, pc[c] = "allow", pc' = [pc EXCEPT ![c] = "granted"], key' = key,
         taken' = [taken EXCEPT ![c] = Manner(c)], NEW j \in Key, NEW M
  PROVE  /\ TakenBy(j, M)' = IF key[c] = j /\ Manner(c) \in M THEN TakenBy(j, M) \cup {c}
                             ELSE TakenBy(j, M)
         /\ c \notin TakenBy(j, M)
         /\ Granted(j)' = IF key[c] = j THEN Granted(j) \cup {c} ELSE Granted(j)
         /\ c \notin Granted(j)
<1>1. pc'[c] = "granted" /\ taken'[c] = Manner(c)
      /\ \A d \in Caller : d # c => pc'[d] = pc[d] /\ taken'[d] = taken[d]
  BY DEF IInv, TypeOK
<1> QED BY <1>1 DEF TakenBy, Granted

LEMMA Distribute ==
  ASSUME NEW m \in Nat, NEW n \in Nat
  PROVE  m * (n + 1) = m * n + m /\ m * n \in Nat
OBVIOUS

\* The price of the calls in a set, which one more call raises by one token.
LEMMA OneMore ==
  ASSUME NEW p \in Nat, NEW S, NEW c, IsFiniteSet(S), c \notin S
  PROVE  /\ IsFiniteSet(S \cup {c}) /\ p * Cardinality(S) \in Nat
         /\ p * Cardinality(S \cup {c}) = p * Cardinality(S) + p
<1>1. Cardinality(S \cup {c}) = Cardinality(S) + 1 /\ IsFiniteSet(S \cup {c}) /\ Cardinality(S) \in Nat
  BY FS_AddElement, FS_CardinalityType
<1> QED BY <1>1, Distribute

LEMMA PriceType ==
  ASSUME NEW p \in Nat, NEW S, IsFiniteSet(S)
  PROVE  p * Cardinality(S) \in Nat
BY FS_CardinalityType, Distribute

Finite == \A k \in Key : /\ IsFiniteSet(TakenBy(k, {"prompt"})) /\ IsFiniteSet(Granted(k))
                         /\ IsFiniteSet(TakenBy(k, {"prompt", "late"}))

LEMMA FiniteInit == Init => Finite
<1> SUFFICES ASSUME Init, NEW k \in Key
             PROVE  /\ IsFiniteSet(TakenBy(k, {"prompt"})) /\ IsFiniteSet(Granted(k))
                    /\ IsFiniteSet(TakenBy(k, {"prompt", "late"}))
  BY DEF Finite
<1>1. \A M : TakenBy(k, M) = {} /\ Granted(k) = {}
  BY DEF Init, TakenBy, Granted
<1> QED BY <1>1, FS_EmptySet

LEMMA StepKeeps ==
  ASSUME IInv, OtherSteps \/ Tick \/ CleanupClients \/ CleanupIPs, NEW k \in Key, NEW M
  PROVE  /\ TakenBy(k, M)' = TakenBy(k, M) /\ Granted(k)' = Granted(k)
         /\ Refused(k)' = Refused(k)
<1>1. CASE OtherSteps
  BY <1>1, OtherFacts DEF TakenBy, Granted, Refused
<1>2. CASE Tick
  BY <1>2 DEF Tick, callVars, history, TakenBy, Granted, Refused
<1>3. CASE CleanupClients \/ CleanupIPs
  BY <1>3, ForgetFacts DEF TakenBy, Granted, Refused
<1> QED BY <1>1, <1>2, <1>3

LEMMA FiniteNext == IInv /\ Finite /\ [Next]_vars => Finite'
<1> SUFFICES ASSUME IInv, Finite, [Next]_vars, NEW k \in Key
             PROVE  /\ IsFiniteSet(TakenBy(k, {"prompt"})') /\ IsFiniteSet(Granted(k)')
                    /\ IsFiniteSet(TakenBy(k, {"prompt", "late"})')
  BY DEF Finite
<1>1. IsFiniteSet(TakenBy(k, {"prompt"})) /\ IsFiniteSet(Granted(k))
      /\ IsFiniteSet(TakenBy(k, {"prompt", "late"}))
  BY DEF Finite
<1>3. CASE OtherSteps \/ Tick \/ CleanupClients \/ CleanupIPs
  BY <1>1, <1>3, StepKeeps
<1>4. ASSUME NEW c \in Caller, NEW j \in Key, LookupKnown(c, j) \/ LookupNew(c, j)
      PROVE  \A M : TakenBy(k, M)' = TakenBy(k, M) /\ Granted(k)' = Granted(k)
  BY <1>4, TakenByLookup
<1>5. ASSUME NEW c \in Caller, Allow(c)
      PROVE  /\ \A M : TakenBy(k, M)' \in {TakenBy(k, M), TakenBy(k, M) \cup {c}}
             /\ Granted(k)' \in {Granted(k), Granted(k) \cup {c}}
  <2>1. key' = key /\ pc[c] = "allow"
    BY <1>5, AllowFacts
  <2>2. CASE pc' = [pc EXCEPT ![c] = "granted"] /\ taken' = [taken EXCEPT ![c] = Manner(c)]
    <3>1. \A M : TakenBy(k, M)' = IF key[c] = k /\ Manner(c) \in M THEN TakenBy(k, M) \cup {c}
                                  ELSE TakenBy(k, M)
      BY <2>1, <2>2, TakenByGrant
    <3>2. Granted(k)' = IF key[c] = k THEN Granted(k) \cup {c} ELSE Granted(k)
      BY <2>1, <2>2, TakenByGrant
    <3> QED BY <3>1, <3>2
  <2>3. CASE pc' = [pc EXCEPT ![c] = "count"] /\ taken' = taken
    <3>1. \A M : TakenBy(k, M)' = TakenBy(k, M) /\ Granted(k)' = Granted(k)
      BY <2>1, <2>3, TakenByRefusal
    <3> QED BY <3>1
  <2> QED BY <1>5, <2>2, <2>3, AllowFacts
<1>6. ASSUME NEW c \in Caller, CallNext(c)
      PROVE  /\ IsFiniteSet(TakenBy(k, {"prompt"})') /\ IsFiniteSet(Granted(k)')
             /\ IsFiniteSet(TakenBy(k, {"prompt", "late"})')
  <2>1. CASE Allow(c)
    <3>1. ASSUME NEW S, NEW T, T \in {S, S \cup {c}}, IsFiniteSet(S) PROVE IsFiniteSet(T)
      <4>1. CASE T = S
        BY <3>1, <4>1
      <4>2. CASE T = S \cup {c}
        BY <3>1, <4>2, FS_AddElement
      <4> QED BY <3>1, <4>1, <4>2
    <3>2. IsFiniteSet(TakenBy(k, {"prompt"})')
      BY <1>1, <1>5, <2>1, <3>1
    <3>3. IsFiniteSet(TakenBy(k, {"prompt", "late"})')
      BY <1>1, <1>5, <2>1, <3>1
    <3>4. IsFiniteSet(Granted(k)')
      BY <1>1, <1>5, <2>1, <3>1
    <3> QED BY <3>2, <3>3, <3>4
  <2>2. CASE \E j \in Asks[c] : LookupKnown(c, j) \/ LookupNew(c, j)
    BY <1>1, <1>4, <2>2, AsksKeys
  <2>3. CASE CountViolation(c)
    BY <1>3, <2>3 DEF OtherSteps
  <2> QED BY <1>6, <2>1, <2>2, <2>3 DEF CallNext
<1>7. CASE LoopNext
  BY <1>3, <1>7 DEF LoopNext, OtherSteps
<1> QED BY <1>3, <1>6, <1>7 DEF Next, OtherSteps
-----------------------------------------------------------------------------
(* The rate                                                                *)

Prompt(k) == Cost[k] * Cardinality(TakenBy(k, {"prompt"}))

\* v can be what a bucket of key k holds that is never forgotten: it is full
\* unless the key has been looked up too recently for its entry to expire.
Reserve(k, v) ==
  /\ v <= Capacity[k]
  /\ IF limiter[k] = NoLimiter THEN v = Capacity[k] ELSE credit[limiter[k]] <= v
  /\ v = Capacity[k] \/ now + Capacity[k] <= v + lastSeen[k] + EntryTTL
  /\ v + Prompt(k) <= Capacity[k] + now

Reserved == \A k \in Key : \E v \in Nat : Reserve(k, v)

LEMMA ReservedInit == Init => Reserved
<1> SUFFICES ASSUME Init, NEW k \in Key PROVE Reserve(k, Capacity[k])
  BY DEF Reserved
<1>1. TakenBy(k, {"prompt"}) = {}
  BY DEF Init, TakenBy
<1>2. Prompt(k) = 0
  BY <1>1, FS_EmptySet DEF Prompt
<1> QED BY <1>2 DEF Reserve, Init

LEMMA PromptType == ASSUME Finite, NEW k \in Key PROVE Prompt(k) \in Nat
BY PriceType DEF Finite, Prompt

\* Time adds to the reserve of a key what it adds to the limiter.
LEMMA ReservedTick == ASSUME IInv, Finite, Reserved, Tick PROVE Reserved'
<1> SUFFICES ASSUME NEW k \in Key PROVE \E v \in Nat : Reserve(k, v)'
  BY DEF Reserved
<1>1. PICK v \in Nat : Reserve(k, v)
  BY DEF Reserved
<1> DEFINE w == IF v < Capacity[k] THEN v + 1 ELSE v
<1>2. Prompt(k)' = Prompt(k) /\ Prompt(k) \in Nat
  BY StepKeeps, PromptType DEF Prompt
<1>3. now' = now + 1 /\ limiter' = limiter /\ lastSeen' = lastSeen
  BY DEF Tick, entryVars
<1>4. now \in Nat /\ Capacity[k] \in Nat /\ lastSeen[k] \in Nat /\ w \in Nat
  BY DEF IInv, TypeOK
<1>5. CASE limiter[k] = NoLimiter
  <2>1. w = v /\ v = Capacity[k]
    BY <1>1, <1>4, <1>5 DEF Reserve
  <2>2. v + Prompt(k) <= Capacity[k] + now'
    BY <1>1, <1>2, <1>3, <1>4 DEF Reserve
  <2> QED BY <1>2, <1>3, <1>4, <1>5, <2>1, <2>2 DEF Reserve
<1>6. CASE limiter[k] # NoLimiter
  <2>1. limiter[k] \in Limiter /\ limits[limiter[k]] = k /\ credit[limiter[k]] \in Nat
        /\ credit[limiter[k]] <= Capacity[k]
    BY <1>6, LimitsOfEntry DEF IInv
  <2>2. credit'[limiter[k]] = IF credit[limiter[k]] < Capacity[k]
                              THEN credit[limiter[k]] + 1 ELSE credit[limiter[k]]
    BY <2>1 DEF Tick, Refilled
  <2>3. credit[limiter[k]] <= v /\ v <= Capacity[k]
    BY <1>1, <1>6 DEF Reserve
  <2>4. credit'[limiter[k]] <= w /\ w <= Capacity[k]
    BY <1>4, <2>1, <2>2, <2>3
  <2>5. w = Capacity[k] \/ now' + Capacity[k] <= w + lastSeen[k] + EntryTTL
    <3>1. v = Capacity[k] \/ now + Capacity[k] <= v + lastSeen[k] + EntryTTL
      BY <1>1 DEF Reserve
    <3> QED BY <1>3, <1>4, <2>3, <3>1
  <2>6. w + Prompt(k) <= Capacity[k] + now'
    <3>1. v + Prompt(k) <= Capacity[k] + now
      BY <1>1 DEF Reserve
    <3> QED BY <1>2, <1>3, <1>4, <3>1
  <2> HIDE DEF w
  <2> QED BY <1>2, <1>3, <1>4, <1>6, <2>4, <2>5, <2>6 DEF Reserve
<1> QED BY <1>5, <1>6

\* A key without an entry has its full reserve, which is what a new limiter holds.
LEMMA ReservedLookup ==
  ASSUME IInv, Finite, Reserved, NEW c \in Caller, NEW j \in Key, LookupKnown(c, j) \/ LookupNew(c, j)
  PROVE  Reserved'
<1> SUFFICES ASSUME NEW k \in Key PROVE \E v \in Nat : Reserve(k, v)'
  BY DEF Reserved
<1>1. PICK v \in Nat : Reserve(k, v)
  BY DEF Reserved
<1>2. Prompt(k)' = Prompt(k) /\ Prompt(k) \in Nat
  BY TakenByLookup, PromptType DEF Prompt
<1>3. /\ now' = now /\ lastSeen' = [lastSeen EXCEPT ![j] = now] /\ now \in Nat
      /\ Capacity[k] \in Nat /\ lastSeen[k] \in Nat /\ lastSeen[k] <= now
  BY DEF LookupKnown, LookupNew, Found, IInv, TypeOK, Clock
<1>4. lastSeen'[k] \in Nat /\ lastSeen[k] <= lastSeen'[k]
  BY <1>3 DEF IInv, TypeOK
<1>5. IF limiter'[k] = NoLimiter THEN v = Capacity[k] ELSE credit'[limiter'[k]] <= v
  <2>1. CASE LookupKnown(c, j)
    BY <1>1, <2>1 DEF LookupKnown, Found, poolVars, Reserve, IInv, TypeOK
  <2>2. CASE LookupNew(c, j)
    <3> DEFINE l == CHOOSE l \in Limiter : Unused(l)
    <3>1. l \in Limiter /\ Unused(l) /\ limiter[j] = NoLimiter
      BY <2>2 DEF LookupNew
    <3>2. /\ credit' = [credit EXCEPT ![l] = Capacity[j]]
          /\ limiter' = [limiter EXCEPT ![j] = l]
      BY <2>2 DEF LookupNew, Found, Burst
    <3> HIDE DEF l
    <3>3. CASE k = j
      BY <1>1, <1>3, <3>1, <3>2, <3>3 DEF Reserve, IInv, TypeOK
    <3>4. CASE k # j
      BY <1>1, <3>1, <3>2, <3>4 DEF Reserve, IInv, TypeOK, Unused
    <3> QED BY <3>3, <3>4
  <2> QED BY <2>1, <2>2
<1>6. v = Capacity[k] \/ now' + Capacity[k] <= v + lastSeen'[k] + EntryTTL
  <2>1. v = Capacity[k] \/ now + Capacity[k] <= v + lastSeen[k] + EntryTTL
    BY <1>1 DEF Reserve
  <2> QED BY <1>3, <1>4, <2>1
<1>7. v <= Capacity[k] /\ v + Prompt(k)' <= Capacity[k] + now'
  BY <1>1, <1>2, <1>3 DEF Reserve
<1> QED BY <1>5, <1>6, <1>7 DEF Reserve

\* A prompt call takes its token from the limiter of the entry and from the
\* reserve; the entry cannot expire before both are full again.
LEMMA ReservedAllow ==
  ASSUME IInv, Finite, Reserved, NEW c \in Caller, Allow(c)
  PROVE  Reserved'
<1> SUFFICES ASSUME NEW k \in Key PROVE \E v \in Nat : Reserve(k, v)'
  BY DEF Reserved
<1>1. PICK v \in Nat : Reserve(k, v)
  BY DEF Reserved
<1> DEFINE l == held[c]
<1>2. /\ l \in Limiter /\ limits[l] = key[c] /\ pc[c] = "allow"
      /\ credit[l] \in Nat /\ credit' \in [Limiter -> Nat]
      /\ \A m \in Limiter : m # l => credit'[m] = credit[m]
      /\ UNCHANGED <<now, limiter, lastSeen, key>>
  BY AllowFacts
<1>3. /\ now \in Nat /\ Capacity[k] \in Nat /\ Cost[k] \in Nat /\ lastSeen[k] \in Nat
      /\ Prompt(k) \in Nat
  BY PromptType DEF IInv, TypeOK
<1>4. limiter[k] # NoLimiter => limiter[k] \in Limiter /\ limits[limiter[k]] = k
                                /\ credit[limiter[k]] \in Nat
  BY LimitsOfEntry DEF IInv
<1>5. CASE Prompt(k)' = Prompt(k) /\ credit'[l] <= credit[l]
  <2>1. limiter[k] # NoLimiter => credit'[limiter[k]] <= v
    <3> SUFFICES ASSUME limiter[k] # NoLimiter PROVE credit'[limiter[k]] <= v
      OBVIOUS
    <3>1. credit[limiter[k]] <= v
      BY <1>1 DEF Reserve
    <3>2. credit'[limiter[k]] <= credit[limiter[k]] /\ credit'[limiter[k]] \in Nat
      <4>1. CASE limiter[k] = l
        BY <1>2, <1>4, <1>5, <4>1
      <4>2. CASE limiter[k] # l
        BY <1>2, <1>4, <4>2
      <4> QED BY <4>1, <4>2
    <3> QED BY <1>4, <3>1, <3>2
  <2> QED BY <1>1, <1>2, <1>5, <2>1 DEF Reserve
<1>6. CASE /\ key[c] = k /\ Manner(c) = "prompt" /\ Prompt(k)' = Prompt(k) + Cost[k]
           /\ credit[l] >= Cost[k] /\ credit'[l] = credit[l] - Cost[k]
  <2>1. limiter[k] = l /\ now + Capacity[k] <= since[c] + EntryTTL /\ since[c] \in Nat
    <3>1. limiter[key[c]] = held[c] /\ ~(now + Capacity[key[c]] > since[c] + EntryTTL)
      BY <1>6 DEF Manner
    <3>2. since[c] \in Nat
      BY DEF IInv, TypeOK
    <3> QED BY <1>3, <1>6, <3>1, <3>2
  <2>2. since[c] <= lastSeen[k]
    <3>1. now <= since[c] + EntryTTL
      BY <1>3, <2>1
    <3> QED BY <1>2, <1>6, <3>1 DEF IInv, HeldLimits
  <2>3. credit[l] <= v /\ v <= Capacity[k] /\ v + Prompt(k) <= Capacity[k] + now
    <3>1. l # NoLimiter
      BY <1>2
    <3> QED BY <1>1, <2>1, <3>1 DEF Reserve
  <2> HIDE DEF l
  <2>4. PICK w \in Nat : w = v - Cost[k]
    BY <1>2, <1>3, <1>6, <2>3
  <2>5. w <= Capacity[k] /\ credit'[l] <= w
    BY <1>2, <1>3, <1>6, <2>3, <2>4
  <2>6. now + Capacity[k] <= w + lastSeen[k] + EntryTTL
    BY <1>3, <2>1, <2>2
  <2>7. w + Prompt(k)' <= Capacity[k] + now
    BY <1>3, <1>6, <2>3, <2>4
  <2>8. l # NoLimiter
    BY <1>2
  <2>9. Reserve(k, w)'
    BY <1>2, <2>1, <2>5, <2>6, <2>7, <2>8 DEF Reserve
  <2> QED BY <2>9
<1>7. \/ Prompt(k)' = Prompt(k) /\ credit'[l] <= credit[l]
      \/ /\ key[c] = k /\ Manner(c) = "prompt" /\ Prompt(k)' = Prompt(k) + Cost[k]
         /\ credit[l] >= Cost[k] /\ credit'[l] = credit[l] - Cost[k]
  <2>1. CASE credit' = credit /\ pc' = [pc EXCEPT ![c] = "count"] /\ taken' = taken
    <3>1. TakenBy(k, {"prompt"})' = TakenBy(k, {"prompt"})
      BY <1>2, <2>1, TakenByRefusal
    <3> QED BY <1>2, <2>1, <3>1 DEF Prompt
  <2>2. CASE /\ credit[l] >= Cost[key[c]] /\ credit'[l] = credit[l] - Cost[key[c]]
             /\ pc' = [pc EXCEPT ![c] = "granted"] /\ taken' = [taken EXCEPT ![c] = Manner(c)]
    <3> HIDE DEF l
    <3>1. /\ TakenBy(k, {"prompt"})' = IF key[c] = k /\ Manner(c) \in {"prompt"}
                                       THEN TakenBy(k, {"prompt"}) \cup {c} ELSE TakenBy(k, {"prompt"})
          /\ c \notin TakenBy(k, {"prompt"})
      <4>1. \A M : /\ TakenBy(k, M)' = IF key[c] = k /\ Manner(c) \in M THEN TakenBy(k, M) \cup {c}
                                       ELSE TakenBy(k, M)
                   /\ c \notin TakenBy(k, M)
        <5>1. key' = key /\ pc[c] = "allow"
          BY <1>2
        <5> QED BY <5>1, <2>2, TakenByGrant
      <4> QED BY <4>1
    <3>2. IsFiniteSet(TakenBy(k, {"prompt"}))
      BY DEF Finite
    <3>3. CASE key[c] = k /\ Manner(c) \in {"prompt"}
      <4>1. TakenBy(k, {"prompt"})' = TakenBy(k, {"prompt"}) \cup {c}
        BY <3>1, <3>3
      <4>2. Cost[k] * Cardinality(TakenBy(k, {"prompt"}) \cup {c})
              = Cost[k] * Cardinality(TakenBy(k, {"prompt"})) + Cost[k]
        BY <1>3, <3>1, <3>2, OneMore
      <4> QED BY <2>2, <3>3, <4>1, <4>2 DEF Prompt
    <3>4. CASE ~(key[c] = k /\ Manner(c) \in {"prompt"})
      <4>1. Prompt(k)' = Prompt(k)
        BY <3>1, <3>4 DEF Prompt
      <4>2. Cost[key[c]] \in Nat
        BY AllowFacts
      <4>3. credit'[l] <= credit[l]
        BY <1>2, <2>2, <4>2
      <4> QED BY <4>1, <4>3
    <3> QED BY <3>3, <3>4
  <2> QED BY <2>1, <2>2, AllowFacts
<1> QED BY <1>5, <1>6, <1>7

\* An entry that has expired has its full reserve.
LEMMA ReservedForget ==
  ASSUME IInv, Finite, Reserved, CleanupClients \/ CleanupIPs
  PROVE  Reserved'
<1> SUFFICES ASSUME NEW k \in Key PROVE \E v \in Nat : Reserve(k, v)'
  BY DEF Reserved
<1>1. PICK v \in Nat : Reserve(k, v)
  BY DEF Reserved
<1>2. Prompt(k)' = Prompt(k)
  BY StepKeeps DEF Prompt
<1>3. now' = now /\ lastSeen' = lastSeen /\ credit' = credit
  BY ForgetFacts
<1>4. now \in Nat /\ lastSeen[k] \in Nat /\ Capacity[k] \in Nat
  BY DEF IInv, TypeOK
<1>5. CASE limiter'[k] = limiter[k]
  BY <1>1, <1>2, <1>3, <1>5 DEF Reserve
<1>6. CASE limiter'[k] = NoLimiter /\ lastSeen[k] + EntryTTL < now
  <2>1. v <= Capacity[k] /\ (v = Capacity[k] \/ now + Capacity[k] <= v + lastSeen[k] + EntryTTL)
    BY <1>1 DEF Reserve
  <2>2. v = Capacity[k]
    BY <1>4, <1>6, <2>1
  <2> QED BY <1>1, <1>2, <1>3, <1>6, <2>2 DEF Reserve
<1> QED BY <1>5, <1>6, ForgetFacts

LEMMA ReservedNext == IInv /\ Finite /\ Reserved /\ [Next]_vars => Reserved'
<1> SUFFICES ASSUME IInv, Finite, Reserved, [Next]_vars PROVE Reserved'
  OBVIOUS
<1>1. CASE OtherSteps
  <2>1. UNCHANGED <<now, limiter, lastSeen, credit>>
    BY <1>1, OtherFacts
  <2>2. \A k \in Key : Prompt(k)' = Prompt(k)
    BY <1>1, StepKeeps DEF Prompt
  <2>3. ASSUME NEW k \in Key, NEW v \in Nat, Reserve(k, v) PROVE Reserve(k, v)'
    BY <2>1, <2>2, <2>3 DEF Reserve
  <2> QED BY <2>3 DEF Reserved
<1>2. ASSUME NEW c \in Caller, CallNext(c) PROVE Reserved'
  BY <1>1, <1>2, AsksKeys, ReservedLookup, ReservedAllow DEF CallNext, OtherSteps
<1>3. CASE LoopNext
  BY <1>1, <1>3, ReservedForget DEF LoopNext, OtherSteps
<1> QED BY <1>1, <1>2, <1>3, ReservedTick DEF Next, OtherSteps

\* For any limits, any number of concurrent calls and deletions: the calls that take
\* their token promptly are never granted more than one burst and the time pay for.
THEOREM RateNeverExceeded == Spec => []RateBounded
<1>1. ASSUME IInv, Finite, Reserved, NEW k \in Key
      PROVE  Cost[k] * Cardinality(TakenBy(k, {"prompt"})) <= Capacity[k] + now
  <2>1. PICK v \in Nat : v + Prompt(k) <= Capacity[k] + now
    BY <1>1 DEF Reserved, Reserve
  <2>2. Prompt(k) \in Nat /\ now \in Nat /\ Capacity[k] \in Nat
    BY <1>1, PromptType DEF IInv, TypeOK
  <2>3. Prompt(k) <= Capacity[k] + now
    BY <2>1, <2>2
  <2> QED BY <2>3 DEF Prompt
<1>2. IInv /\ Finite /\ Reserved => RateBounded
  BY <1>1 DEF RateBounded
<1> QED BY <1>2, Invariance, FiniteInit, FiniteNext, ReservedInit, ReservedNext, PTL DEF Spec
-----------------------------------------------------------------------------
(* One burst per deletion                                                  *)

Counted(k) == Cost[k] * Cardinality(TakenBy(k, {"prompt", "late"}))

Bucket(k) == IF limiter[k] = NoLimiter THEN Capacity[k] ELSE credit[limiter[k]]

Bursts(k) == Capacity[k] * (1 + forgotten[k])

PaidFor == \A k \in Key : Bucket(k) + Counted(k) <= Bursts(k) + now

LEMMA BucketType == ASSUME IInv, NEW k \in Key PROVE Bucket(k) \in Nat /\ Bucket(k) <= Capacity[k]
BY LimitsOfEntry DEF IInv, TypeOK, Bucket

LEMMA CountedType ==
  ASSUME IInv, Finite, NEW k \in Key
  PROVE  Counted(k) \in Nat /\ Bursts(k) \in Nat /\ now \in Nat
<1>1. Counted(k) \in Nat
  BY PriceType DEF Finite, Counted
<1>2. forgotten[k] \in Nat /\ Capacity[k] \in Nat /\ now \in Nat
  BY DEF IInv, TypeOK
<1>3. 1 + forgotten[k] \in Nat
  BY <1>2
<1>4. Bursts(k) \in Nat
  BY <1>2, <1>3, Distribute DEF Bursts
<1> QED BY <1>1, <1>2, <1>4

LEMMA PaidInit == Init => PaidFor
<1> SUFFICES ASSUME Init, NEW k \in Key PROVE Bucket(k) + Counted(k) <= Bursts(k) + now
  BY DEF PaidFor
<1>1. TakenBy(k, {"prompt", "late"}) = {}
  BY DEF Init, TakenBy
<1>2. Counted(k) = 0
  <2>1. Cardinality(TakenBy(k, {"prompt", "late"})) = 0 /\ Cost[k] \in Nat
    BY <1>1, FS_EmptySet
  <2> QED BY <2>1 DEF Counted
<1>3. Bucket(k) = Capacity[k] /\ Bursts(k) = Capacity[k] /\ now = 0 /\ Capacity[k] \in Nat
  BY DEF Init, Bucket, Bursts
<1> QED BY <1>2, <1>3

LEMMA PaidTick == ASSUME IInv, Finite, PaidFor, Tick PROVE PaidFor'
<1> SUFFICES ASSUME NEW k \in Key PROVE Bucket(k)' + Counted(k)' <= Bursts(k)' + now'
  BY DEF PaidFor
<1>1. Counted(k)' = Counted(k)
  BY StepKeeps DEF Counted
<1>2. Bursts(k)' = Bursts(k) /\ now' = now + 1 /\ limiter' = limiter
  BY DEF Tick, history, entryVars, Bursts
<1>3. Bucket(k) \in Nat /\ Bucket(k)' \in {Bucket(k), Bucket(k) + 1}
  <2>1. CASE limiter[k] = NoLimiter
    BY <1>2, <2>1, BucketType DEF Bucket
  <2>2. CASE limiter[k] # NoLimiter
    BY <1>2, <2>2, BucketType, LimitsOfEntry DEF IInv, Bucket, Tick, Refilled
  <2> QED BY <2>1, <2>2
<1>4. Bucket(k) + Counted(k) <= Bursts(k) + now
  BY DEF PaidFor
<1> QED BY <1>1, <1>2, <1>3, <1>4, CountedType

LEMMA PaidLookup ==
  ASSUME IInv, Finite, PaidFor, NEW c \in Caller, NEW j \in Key, LookupKnown(c, j) \/ LookupNew(c, j)
  PROVE  PaidFor'
<1> SUFFICES ASSUME NEW k \in Key PROVE Bucket(k)' + Counted(k)' <= Bursts(k)' + now'
  BY DEF PaidFor
<1>1. Counted(k)' = Counted(k)
  BY TakenByLookup DEF Counted
<1>2. Bursts(k)' = Bursts(k) /\ now' = now
  BY DEF LookupKnown, LookupNew, Found, history, Bursts
<1>3. Bucket(k)' = Bucket(k)
  <2>1. CASE LookupKnown(c, j)
    BY <2>1 DEF LookupKnown, Found, poolVars, Bucket, IInv, TypeOK
  <2>2. CASE LookupNew(c, j)
    <3> DEFINE l == CHOOSE l \in Limiter : Unused(l)
    <3>1. l \in Limiter /\ Unused(l) /\ limiter[j] = NoLimiter
      BY <2>2 DEF LookupNew
    <3>2. /\ credit' = [credit EXCEPT ![l] = Capacity[j]]
          /\ limiter' = [limiter EXCEPT ![j] = l]
      BY <2>2 DEF LookupNew, Found, Burst
    <3> HIDE DEF l
    <3>3. CASE k = j
      BY <3>1, <3>2, <3>3 DEF Bucket, IInv, TypeOK
    <3>4. CASE k # j
      BY <3>1, <3>2, <3>4 DEF Bucket, IInv, TypeOK, Unused
    <3> QED BY <3>3, <3>4
  <2> QED BY <2>1, <2>2
<1> QED BY <1>1, <1>2, <1>3 DEF PaidFor

\* A call that is not stale takes from the bucket what it is counted for; a stale
\* one takes from a limiter that is in no entry.
LEMMA PaidAllow ==
  ASSUME IInv, Finite, PaidFor, NEW c \in Caller, Allow(c)
  PROVE  PaidFor'
<1> SUFFICES ASSUME NEW k \in Key PROVE Bucket(k)' + Counted(k)' <= Bursts(k)' + now'
  BY DEF PaidFor
<1> DEFINE l == held[c]
<1>1. /\ l \in Limiter /\ limits[l] = key[c] /\ pc[c] = "allow" /\ key[c] \in Key
      /\ credit[l] \in Nat /\ credit' \in [Limiter -> Nat] /\ Cost[key[c]] \in Nat
      /\ \A m \in Limiter : m # l => credit'[m] = credit[m]
      /\ now' = now /\ limiter' = limiter /\ key' = key /\ forgotten' = forgotten
  BY AllowFacts
<1>2. Bursts(k)' = Bursts(k) /\ Bucket(k) + Counted(k) <= Bursts(k) + now
  BY <1>1 DEF Bursts, PaidFor
<1>3. Bucket(k) \in Nat /\ Counted(k) \in Nat /\ Bursts(k) \in Nat /\ now \in Nat
  BY BucketType, CountedType
<1> HIDE DEF l
<1>4. l # NoLimiter /\ (limiter[k] = l => key[c] = k)
  BY <1>1, LimitsOfEntry DEF IInv
<1>5. limiter[k] # l => Bucket(k)' = Bucket(k)
  BY <1>1 DEF Bucket, IInv, TypeOK
<1>6. limiter[k] = l => Bucket(k) = credit[l] /\ Bucket(k)' = credit'[l]
  BY <1>1, <1>4 DEF Bucket
<1>7. CASE credit' = credit /\ pc' = [pc EXCEPT ![c] = "count"] /\ taken' = taken
  <2>1. TakenBy(k, {"prompt", "late"})' = TakenBy(k, {"prompt", "late"})
    BY <1>1, <1>7, TakenByRefusal
  <2>2. Bucket(k)' = Bucket(k)
    BY <1>1, <1>7 DEF Bucket
  <2> QED BY <1>1, <1>2, <2>1, <2>2 DEF Counted
<1>8. CASE /\ credit[l] >= Cost[key[c]] /\ credit'[l] = credit[l] - Cost[key[c]]
           /\ pc' = [pc EXCEPT ![c] = "granted"] /\ taken' = [taken EXCEPT ![c] = Manner(c)]
  <2>1. /\ TakenBy(k, {"prompt", "late"})' =
             IF key[c] = k /\ Manner(c) \in {"prompt", "late"}
             THEN TakenBy(k, {"prompt", "late"}) \cup {c} ELSE TakenBy(k, {"prompt", "late"})
        /\ c \notin TakenBy(k, {"prompt", "late"})
    <3>1. \A M : /\ TakenBy(k, M)' = IF key[c] = k /\ Manner(c) \in M THEN TakenBy(k, M) \cup {c}
                                     ELSE TakenBy(k, M)
                 /\ c \notin TakenBy(k, M)
      <4>1. key' = key /\ pc[c] = "allow"
        BY <1>1
      <4> QED BY <4>1, <1>8, TakenByGrant
    <3> QED BY <3>1
  <2>2. CASE key[c] = k /\ Manner(c) \in {"prompt", "late"}
    <3>1. limiter[k] = l
      <4>1. limiter[key[c]] # held[c] => Manner(c) = "stale"
        BY DEF Manner
      <4> QED BY <2>2, <4>1 DEF l
    <3>2. Counted(k)' = Counted(k) + Cost[k]
      <4>1. TakenBy(k, {"prompt", "late"})' = TakenBy(k, {"prompt", "late"}) \cup {c}
        BY <2>1, <2>2
      <4>2. IsFiniteSet(TakenBy(k, {"prompt", "late"})) /\ Cost[k] \in Nat
        BY DEF Finite
      <4>3. Cost[k] * Cardinality(TakenBy(k, {"prompt", "late"}) \cup {c})
              = Cost[k] * Cardinality(TakenBy(k, {"prompt", "late"})) + Cost[k]
        BY <2>1, <4>2, OneMore
      <4> QED BY <4>1, <4>3 DEF Counted
    <3>3. Bucket(k)' = Bucket(k) - Cost[k] /\ Cost[k] \in Nat
      BY <1>1, <1>6, <1>8, <2>2, <3>1
    <3> QED BY <1>1, <1>2, <1>3, <3>2, <3>3
  <2>3. CASE ~(key[c] = k /\ Manner(c) \in {"prompt", "late"})
    <3>1. Counted(k)' = Counted(k)
      BY <2>1, <2>3 DEF Counted
    <3>2. limiter[k] # l
      BY <1>4, <2>3 DEF Manner, l
    <3> QED BY <1>1, <1>2, <1>5, <3>1, <3>2
  <2> QED BY <2>2, <2>3
<1> QED BY <1>7, <1>8, AllowFacts DEF l

LEMMA PaidForget ==
  ASSUME IInv, Finite, PaidFor, CleanupClients \/ CleanupIPs
  PROVE  PaidFor'
<1> SUFFICES ASSUME NEW k \in Key PROVE Bucket(k)' + Counted(k)' <= Bursts(k)' + now'
  BY DEF PaidFor
<1>1. Counted(k)' = Counted(k)
  BY StepKeeps DEF Counted
<1>2. now' = now /\ credit' = credit
  BY ForgetFacts
<1>3. /\ Bucket(k) \in Nat /\ Counted(k) \in Nat /\ Bursts(k) \in Nat /\ now \in Nat
      /\ Capacity[k] \in Nat /\ forgotten[k] \in Nat
  BY BucketType, CountedType DEF IInv, TypeOK
<1>4. Bucket(k) + Counted(k) <= Bursts(k) + now
  BY DEF PaidFor
<1>5. CASE limiter'[k] = limiter[k] /\ forgotten'[k] = forgotten[k]
  BY <1>1, <1>2, <1>4, <1>5 DEF Bucket, Bursts
<1>6. CASE limiter'[k] = NoLimiter /\ forgotten'[k] = forgotten[k] + 1
  <2>1. Bucket(k)' = Capacity[k]
    BY <1>6 DEF Bucket
  <2>2. Bursts(k)' = Bursts(k) + Capacity[k]
    <3>1. 1 + forgotten[k] \in Nat /\ 1 + (forgotten[k] + 1) = (1 + forgotten[k]) + 1
      BY <1>3
    <3> QED BY <1>3, <1>6, <3>1, Distribute DEF Bursts
  <2> QED BY <1>1, <1>2, <1>3, <1>4, <2>1, <2>2
<1> QED BY <1>5, <1>6, ForgetFacts

LEMMA PaidNext == IInv /\ Finite /\ PaidFor /\ [Next]_vars => PaidFor'
<1> SUFFICES ASSUME IInv, Finite, PaidFor, [Next]_vars PROVE PaidFor'
  OBVIOUS
<1>1. CASE OtherSteps
  <2>1. UNCHANGED <<now, limiter, credit, forgotten>>
    BY <1>1, OtherFacts
  <2>2. \A k \in Key : Counted(k)' = Counted(k)
    BY <1>1, StepKeeps DEF Counted
  <2> QED BY <2>1, <2>2 DEF PaidFor, Bucket, Bursts
<1>2. ASSUME NEW c \in Caller, CallNext(c) PROVE PaidFor'
  BY <1>1, <1>2, AsksKeys, PaidLookup, PaidAllow DEF CallNext, OtherSteps
<1>3. CASE LoopNext
  BY <1>1, <1>3, PaidForget DEF LoopNext, OtherSteps
<1> QED BY <1>1, <1>2, <1>3, PaidTick DEF Next, OtherSteps

\* For any limits, also with entries that expire before their limiters are full
\* again: a deletion costs at most one burst.
THEOREM DeletionsCostOneBurst == Spec => []BurstPerDeletion
<1>1. ASSUME IInv, Finite, PaidFor, NEW k \in Key
      PROVE  Cost[k] * Cardinality(TakenBy(k, {"prompt", "late"})) <= Capacity[k] * (1 + forgotten[k]) + now
  <2>1. Counted(k) <= Bursts(k) + now
    BY <1>1, BucketType, CountedType DEF PaidFor
  <2> QED BY <2>1 DEF Counted, Bursts
<1>2. IInv /\ Finite /\ PaidFor => BurstPerDeletion
  BY <1>1 DEF BurstPerDeletion
<1> QED BY <1>2, Invariance, FiniteInit, FiniteNext, PaidInit, PaidNext, PTL DEF Spec
-----------------------------------------------------------------------------
(* Refusals                                                                *)

GrantedPrice(k) == Cost[k] * Cardinality(Granted(k))

\* Whatever a limiter lacks, calls of its own key have taken.
Spent ==
  \A l \in Limiter, k \in Key : limits[l] = k => Capacity[k] <= credit[l] + GrantedPrice(k)

Earned == \A k \in Key : Refused(k) # {} => Capacity[k] < GrantedPrice(k) + Cost[k]

LEMMA GrantedType == ASSUME Finite, NEW k \in Key PROVE GrantedPrice(k) \in Nat
BY PriceType DEF Finite, GrantedPrice

LEMMA SpentStep ==
  ASSUME IInv, Finite, Spent, Earned, [Next]_vars
  PROVE  Spent' /\ Earned'
<1>1. CASE OtherSteps
  <2>1. UNCHANGED <<credit, limits>>
    BY <1>1, OtherFacts
  <2>2. \A k \in Key : GrantedPrice(k)' = GrantedPrice(k) /\ Refused(k)' = Refused(k)
    BY <1>1, StepKeeps DEF GrantedPrice
  <2>3. Earned'
    BY <2>2 DEF Earned
  <2>4. Spent'
    BY <2>1, <2>2 DEF Spent
  <2> QED BY <2>3, <2>4
<1>2. CASE Tick
  <2>1. \A k \in Key : GrantedPrice(k)' = GrantedPrice(k) /\ Refused(k)' = Refused(k)
    BY <1>2, StepKeeps DEF GrantedPrice
  <2>2. Earned'
    BY <2>1 DEF Earned
  <2>3. Spent'
    <3> SUFFICES ASSUME NEW l \in Limiter, NEW k \in Key, limits[l] = k
                 PROVE  Capacity[k] <= credit'[l] + GrantedPrice(k)'
      BY <1>2 DEF Spent, Tick
    <3>1. credit[l] \in Nat
      BY DEF IInv, TypeOK
    <3>2. credit'[l] \in {credit[l], credit[l] + 1}
      BY <1>2 DEF Tick, Refilled
    <3>3. Capacity[k] <= credit[l] + GrantedPrice(k) /\ Capacity[k] \in Nat
      BY DEF Spent
    <3>4. GrantedPrice(k) \in Nat
      BY GrantedType
    <3> QED BY <2>1, <3>1, <3>2, <3>3, <3>4
  <2> QED BY <2>2, <2>3
<1>3. CASE CleanupClients \/ CleanupIPs
  <2>1. UNCHANGED <<credit, limits>>
    BY <1>3, ForgetFacts
  <2>2. \A k \in Key : GrantedPrice(k)' = GrantedPrice(k) /\ Refused(k)' = Refused(k)
    BY <1>3, StepKeeps DEF GrantedPrice
  <2>3. Earned'
    BY <2>2 DEF Earned
  <2>4. Spent'
    BY <2>1, <2>2 DEF Spent
  <2> QED BY <2>3, <2>4
<1>4. ASSUME NEW c \in Caller, NEW j \in Key, LookupKnown(c, j) \/ LookupNew(c, j)
      PROVE  Spent' /\ Earned'
  <2>1. \A k \in Key : GrantedPrice(k)' = GrantedPrice(k) /\ Refused(k)' \subseteq Refused(k)
    BY <1>4, TakenByLookup DEF GrantedPrice
  <2>2. Earned'
    BY <2>1 DEF Earned
  <2>3. \A l \in Limiter : \/ credit'[l] = credit[l] /\ limits'[l] = limits[l]
                           \/ limits'[l] = j /\ credit'[l] = Capacity[j]
    BY <1>4 DEF LookupKnown, LookupNew, poolVars, Burst, IInv, TypeOK
  <2>4. Spent'
    <3> SUFFICES ASSUME NEW l \in Limiter, NEW k \in Key, limits'[l] = k
                 PROVE  Capacity[k] <= credit'[l] + GrantedPrice(k)'
      BY DEF Spent
    <3>1. CASE credit'[l] = credit[l] /\ limits'[l] = limits[l]
      BY <2>1, <3>1 DEF Spent
    <3>2. CASE limits'[l] = j /\ credit'[l] = Capacity[j]
      <4>1. GrantedPrice(j) \in Nat /\ Capacity[j] \in Nat
        BY GrantedType
      <4> QED BY <2>1, <3>2, <4>1
    <3> QED BY <2>3, <3>1, <3>2
  <2> QED BY <2>2, <2>4
<1>5. ASSUME NEW c \in Caller, Allow(c)
      PROVE  Spent' /\ Earned'
  <2>1. /\ held[c] \in Limiter /\ limits[held[c]] = key[c] /\ key[c] \in Key /\ pc[c] = "allow"
        /\ credit[held[c]] \in Nat /\ Cost[key[c]] \in Nat /\ Capacity[key[c]] \in Nat
        /\ \A m \in Limiter : m # held[c] => credit'[m] = credit[m]
        /\ limits' = limits /\ key' = key
    BY <1>5, AllowFacts
  <2>2. CASE /\ credit[held[c]] < Cost[key[c]] /\ credit' = credit
             /\ pc' = [pc EXCEPT ![c] = "count"] /\ taken' = taken
    <3>1. \A k \in Key : GrantedPrice(k)' = GrantedPrice(k)
      BY <2>1, <2>2, TakenByRefusal DEF GrantedPrice
    <3>2. Spent'
      BY <2>1, <2>2, <3>1 DEF Spent
    <3>3. Earned'
      <4> SUFFICES ASSUME NEW k \in Key, Refused(k)' # {}
                   PROVE  Capacity[k] < GrantedPrice(k)' + Cost[k]
        BY DEF Earned
      <4>1. CASE k = key[c]
        <5>1. Capacity[k] <= credit[held[c]] + GrantedPrice(k) /\ GrantedPrice(k) \in Nat
          BY <2>1, <4>1, GrantedType, KeysAssumption DEF Spent
        <5> QED BY <2>1, <2>2, <3>1, <4>1, <5>1
      <4>2. CASE k # key[c]
        <5>1. Refused(k)' = Refused(k)
          BY <2>1, <2>2, <4>2 DEF Refused, IInv, TypeOK
        <5> QED BY <3>1, <5>1 DEF Earned
      <4> QED BY <4>1, <4>2
    <3> QED BY <3>2, <3>3
  <2>3. CASE /\ credit[held[c]] >= Cost[key[c]] /\ credit'[held[c]] = credit[held[c]] - Cost[key[c]]
             /\ pc' = [pc EXCEPT ![c] = "granted"] /\ taken' = [taken EXCEPT ![c] = Manner(c)]
    <3>1. \A k \in Key : /\ Granted(k)' = IF key[c] = k THEN Granted(k) \cup {c} ELSE Granted(k)
                         /\ c \notin Granted(k)
      BY <2>1, <2>3, TakenByGrant
    <3>2. \A k \in Key : k # key[c] => GrantedPrice(k)' = GrantedPrice(k)
      BY <3>1 DEF GrantedPrice
    <3>3. \A k \in Key : k = key[c] => GrantedPrice(k)' = GrantedPrice(k) + Cost[k]
      <4> SUFFICES ASSUME NEW k \in Key, k = key[c] PROVE GrantedPrice(k)' = GrantedPrice(k) + Cost[k]
        OBVIOUS
      <4>1. Granted(k)' = Granted(k) \cup {c} /\ c \notin Granted(k)
        BY <3>1
      <4>2. IsFiniteSet(Granted(k)) /\ Cost[k] \in Nat
        BY DEF Finite
      <4>3. Cost[k] * Cardinality(Granted(k) \cup {c}) = Cost[k] * Cardinality(Granted(k)) + Cost[k]
        BY <4>1, <4>2, OneMore
      <4> QED BY <4>1, <4>3 DEF GrantedPrice
    <3>4. \A k \in Key : GrantedPrice(k) \in Nat /\ Cost[k] \in Nat /\ Capacity[k] \in Nat
      BY GrantedType
    <3>5. Spent'
      <4> SUFFICES ASSUME NEW l \in Limiter, NEW k \in Key, limits[l] = k
                   PROVE  Capacity[k] <= credit'[l] + GrantedPrice(k)'
        BY <2>1 DEF Spent
      <4>1. credit[l] \in Nat /\ Capacity[k] <= credit[l] + GrantedPrice(k)
        BY DEF IInv, TypeOK, Spent
      <4>2. CASE k # key[c]
        <5>1. credit'[l] = credit[l] /\ GrantedPrice(k)' = GrantedPrice(k)
          BY <2>1, <3>2, <4>2
        <5> QED BY <4>1, <5>1
      <4>3. CASE k = key[c] /\ l # held[c]
        <5>1. credit'[l] = credit[l] /\ GrantedPrice(k)' = GrantedPrice(k) + Cost[k]
          BY <2>1, <3>3, <4>3
        <5> QED BY <3>4, <4>1, <5>1
      <4>4. CASE l = held[c]
        <5>1. k = key[c]
          BY <2>1, <4>4
        <5>2. credit'[l] = credit[l] - Cost[k] /\ GrantedPrice(k)' = GrantedPrice(k) + Cost[k]
          BY <2>3, <3>3, <4>4, <5>1
        <5> QED BY <3>4, <4>1, <5>2
      <4> QED BY <4>2, <4>3, <4>4
    <3>6. Earned'
      <4> SUFFICES ASSUME NEW k \in Key, Refused(k)' # {}
                   PROVE  Capacity[k] < GrantedPrice(k)' + Cost[k]
        BY DEF Earned
      <4>1. Refused(k)' = Refused(k)
        BY <2>1, <2>3 DEF Refused, IInv, TypeOK
      <4>2. Capacity[k] < GrantedPrice(k) + Cost[k]
        BY <4>1 DEF Earned
      <4>3. CASE k = key[c]
        BY <3>3, <3>4, <4>2, <4>3
      <4>4. CASE k # key[c]
        BY <3>2, <4>2, <4>4
      <4> QED BY <4>3, <4>4
    <3> QED BY <3>5, <3>6
  <2> QED BY <1>5, <2>2, <2>3, AllowFacts
<1>6. ASSUME NEW c \in Caller, CallNext(c) PROVE Spent' /\ Earned'
  BY <1>1, <1>4, <1>5, <1>6, AsksKeys DEF CallNext, OtherSteps
<1>7. CASE LoopNext
  BY <1>1, <1>3, <1>7 DEF LoopNext, OtherSteps
<1> QED BY <1>1, <1>2, <1>6, <1>7 DEF Next, OtherSteps

\* No call is refused while its own key has a token left of the burst.
THEOREM RefusalsAreEarned == Spec => []RefusalsEarned
<1>1. Init => Spent /\ Earned
  BY DEF Init, Spent, Earned, Refused
<1>2. ASSUME IInv, Finite, Earned, NEW k \in Key, Refused(k) # {}
      PROVE  Cost[k] * (Cardinality(Granted(k)) + 1) > Capacity[k]
  <2>1. Capacity[k] < Cost[k] * Cardinality(Granted(k)) + Cost[k]
    BY <1>2 DEF Earned, GrantedPrice
  <2>2. Cardinality(Granted(k)) \in Nat /\ Cost[k] \in Nat /\ Capacity[k] \in Nat
    BY <1>2, FS_CardinalityType DEF Finite
  <2>3. Cost[k] * (Cardinality(Granted(k)) + 1) = Cost[k] * Cardinality(Granted(k)) + Cost[k]
    BY <2>2, Distribute
  <2> QED BY <2>1, <2>2, <2>3
<1>3. IInv /\ Finite /\ Earned => RefusalsEarned
  BY <1>2 DEF RefusalsEarned
<1>4. IInv /\ Finite /\ Spent /\ Earned /\ [Next]_vars => Spent' /\ Earned'
  BY SpentStep
<1> QED BY <1>1, <1>3, <1>4, Invariance, FiniteInit, FiniteNext, PTL DEF Spec
=============================================================================
