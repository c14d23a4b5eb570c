------------------------- MODULE TokenFlightProofs -------------------------
(***************************************************************************)
(* The safety properties of the token cache hold for any number of         *)
(* callers, keys and flights: the steps of callers and waiters keep the    *)
(* invariant, those of leaders do by TokenFlightLeader, and the properties *)
(* follow from it. So does that of the requests over the cache.            *)
(***************************************************************************)
EXTENDS TokenFlightLeader, AuthRequest

(* A leaf that names no prover goes to the SMT solver and then to Zenon,   *)
(* with time to spare for a slow machine.                                  *)
USE SMTT(30), ZenonT(30)

(* A new call has no demand and no token, so nothing can be stale. *)
LEMMA StartGetInv ==
  ASSUME IInv, NEW c \in Callers, NEW k \in Keys, StartGet(c, k)
  PROVE  IInv'
<1> USE NoTokenAssumption, NoFlightAssumption
<1>1. TypeOK'
  BY DEF IInv, TypeOK, StartGet, Goto, registryVars, flightVars, PcValues, Leading,
         Owing, Waiting, Token, CachedToken
<1>2. Others(c)
  BY DEF IInv, TypeOK, StartGet, Goto, registryVars, flightVars, Others
<1>3. KeepsLead(c) /\ RegistryKept
  BY DEF IInv, TypeOK, StartGet, Goto, registryVars, flightVars, KeepsLead, RegistryKept,
         Leading
<1>4. RegisteredIsLive' /\ Leadership'
  BY <1>2, <1>3, LeadersFrame
<1>5. Unregistered'
  BY DEF IInv, TypeOK, StartGet, Goto, registryVars, flightVars, Unregistered
<1>6. WakeupDue'
  <2>1. OutcomesKept(c) /\ ~Waiting(c)' /\ KeepsDuty(c)
    BY DEF IInv, TypeOK, StartGet, Goto, registryVars, flightVars, OutcomesKept, Waiting,
           KeepsDuty, Leading
  <2>2. QED  BY <1>2, <2>1, WakeupFrame
<1>7. DemandOf(c)' /\ FreshOf(c)'
  BY DEF IInv, TypeOK, StartGet, Goto, registryVars, flightVars, Demand, DemandOf,
         RefreshIsFresh, FreshOf, Waiting
<1>8. Demand' /\ RefreshIsFresh'
  <2>1. \A l \in Keys : generations'[l] \in Nat /\ generations[l] <= generations'[l]
    BY DEF IInv, TypeOK, StartGet, Goto, registryVars, flightVars
  <2>2. QED  BY <1>2, <1>7, <2>1, CallFrame
<1>9. CacheIsCurrent'
  BY DEF IInv, TypeOK, StartGet, Goto, registryVars, flightVars, CacheIsCurrent
<1>10. QED  BY <1>1, <1>4, <1>5, <1>6, <1>8, <1>9 DEF IInv

(* invalidate: the orphaned flight keeps its leader, which is now behind. *)
LEMMA StartRefreshInv ==
  ASSUME IInv, NEW c \in Callers, NEW k \in Keys, StartRefresh(c, k)
  PROVE  IInv'
<1> USE NoTokenAssumption, NoFlightAssumption
<1>1. TypeOK'
  BY DEF IInv, TypeOK, StartRefresh, Goto, flightVars, PcValues, Leading, Owing, Waiting,
         Endings, Outcomes
<1>2. Others(c)
  BY DEF IInv, TypeOK, StartRefresh, Goto, flightVars, Others
<1>3. RegisteredIsLive'
  BY DEF IInv, TypeOK, StartRefresh, Goto, flightVars, RegisteredIsLive, Leading
<1>4. RegisteredIsLive' /\ Leadership'
  <2>1. \A d \in Callers : Leading(d)' <=> Leading(d)
    BY DEF IInv, TypeOK, StartRefresh, Goto, flightVars, Leading
  <2>2. \A d \in Callers : Leading(d) => flight'[d] = flight[d] /\ key'[d] = key[d]
    BY DEF IInv, TypeOK, StartRefresh, Goto, flightVars, Leading
  <2>3. \A d \in Callers : Leading(d) => /\ key[d] \in Keys /\ flight_gen[flight[d]] \in Nat
                                         /\ generations[key[d]] \in Nat
    BY DEF IInv, TypeOK, Leading, Owing
  <2>4. /\ flight_gen' = flight_gen
        /\ \A l \in Keys \ {k} : flights'[l] = flights[l] /\ generations'[l] = generations[l]
        /\ generations[k] \in Nat /\ generations'[k] \in Nat /\ generations[k] < generations'[k]
    BY DEF IInv, TypeOK, StartRefresh, Goto, flightVars
  <2>5. \A d \in Callers : Leading(d)' =>
          /\ flight_gen'[flight'[d]] <= generations'[key'[d]]
          /\ flight_gen'[flight'[d]] = generations'[key'[d]] => flights'[key'[d]] = flight'[d]
    <3> SUFFICES ASSUME NEW d \in Callers, Leading(d)
                 PROVE  /\ flight_gen[flight[d]] <= generations'[key[d]]
                        /\ flight_gen[flight[d]] = generations'[key[d]] => flights'[key[d]] = flight[d]
      BY <2>1, <2>2, <2>4
    <3>1. /\ flight_gen[flight[d]] <= generations[key[d]]
          /\ flight_gen[flight[d]] = generations[key[d]] => flights[key[d]] = flight[d]
      BY DEF IInv, Leadership
    <3>2. CASE key[d] = k
      BY <2>3, <2>4, <3>1, <3>2
    <3>3. CASE key[d] # k
      BY <2>3, <2>4, <3>1, <3>3
    <3>4. QED  BY <3>2, <3>3
  <2>6. Leadership'
    BY <2>1, <2>2, <2>4, <2>5 DEF IInv, Leadership
  <2>7. QED  BY <1>3, <2>6
<1>5. Unregistered'
  <2>1. \A l \in Keys : flights[l] = flights[k] /\ flights[k] # NoFlight => l = k
    BY DEF IInv, RegisteredIsLive, Leadership
  <2>2. \A d \in Callers : pc'[d] \in {"complete", "notify"} =>
          \/ d = c /\ flights[k] # NoFlight /\ flight'[d] = flights[k]
          \/ pc[d] \in {"complete", "notify"} /\ flight'[d] = flight[d] /\ flight[d] # NoFlight
    BY DEF IInv, TypeOK, StartRefresh, Goto, Owing
  <2>3. \A l \in Keys : flights'[l] = IF l = k THEN NoFlight ELSE flights[l]
    BY DEF IInv, TypeOK, StartRefresh
  <2>4. QED  BY <2>1, <2>2, <2>3 DEF IInv, Unregistered
<1>6. WakeupDue'
  <2>1. OutcomesKept(c) /\ ~Waiting(c)' /\ KeepsDuty(c)
    BY DEF IInv, TypeOK, StartRefresh, Goto, flightVars, OutcomesKept, Waiting,
           KeepsDuty, Leading
  <2>2. QED  BY <1>2, <2>1, WakeupFrame
<1>7. DemandOf(c)' /\ FreshOf(c)'
  BY DEF IInv, TypeOK, StartRefresh, Goto, flightVars, Demand, DemandOf, RefreshIsFresh,
         FreshOf, Waiting
<1>8. Demand' /\ RefreshIsFresh'
  <2>1. \A l \in Keys : generations'[l] \in Nat /\ generations[l] <= generations'[l]
    BY DEF IInv, TypeOK, StartRefresh, Goto, flightVars
  <2>2. QED  BY <1>2, <1>7, <2>1, CallFrame
<1>9. CacheIsCurrent'
  BY DEF IInv, TypeOK, StartRefresh, Goto, flightVars, CacheIsCurrent
<1>10. QED  BY <1>1, <1>4, <1>5, <1>6, <1>8, <1>9 DEF IInv

(* load: a hit is current, a miss forgets the entry. *)
LEMMA LoadInv ==
  ASSUME IInv, NEW c \in Callers, Load(c)
  PROVE  IInv'
<1> USE NoTokenAssumption, NoFlightAssumption
<1>0. /\ pc[c] = "load" /\ key[c] \in Keys
      /\ pc' = [pc EXCEPT ![c] = IF Valid(key[c]) THEN "returned" ELSE "acquire"]
      /\ token' = IF Valid(key[c]) THEN [token EXCEPT ![c] = cache[key[c]].token] ELSE token
      /\ cache' = IF Valid(key[c]) THEN cache ELSE [cache EXCEPT ![key[c]] = NoToken]
      /\ UNCHANGED <<flights, generations, last_key, flightVars, key, need, flight, born,
                     ending, woken>>
      /\ Valid(key[c]) => /\ cache[key[c]].token \in Token
                          /\ cache[key[c]].token.key = key[c]
                          /\ cache[key[c]].token.born = generations[key[c]]
  BY ValidIsCurrent DEF IInv, TypeOK, Load, Goto
<1>1. TypeOK'
  BY <1>0 DEF IInv, TypeOK, Goto, flightVars, PcValues, Leading, Owing, Waiting
<1>2. Others(c)
  BY <1>0 DEF IInv, TypeOK, Goto, flightVars, Others
<1>3. KeepsLead(c) /\ RegistryKept
  BY <1>0 DEF IInv, TypeOK, Goto, flightVars, KeepsLead, RegistryKept, Leading
<1>4. RegisteredIsLive' /\ Leadership'
  BY <1>2, <1>3, LeadersFrame
<1>5. Unregistered'
  BY <1>0 DEF IInv, TypeOK, Goto, flightVars, Unregistered
<1>6. WakeupDue'
  <2>1. OutcomesKept(c) /\ ~Waiting(c)' /\ KeepsDuty(c)
    BY <1>0 DEF IInv, TypeOK, Goto, flightVars, OutcomesKept, Waiting, KeepsDuty, Leading
  <2>2. QED  BY <1>2, <2>1, WakeupFrame
<1>7. DemandOf(c)' /\ FreshOf(c)'
  BY <1>0 DEF IInv, TypeOK, Goto, flightVars, Demand, DemandOf, RefreshIsFresh, FreshOf, Waiting
<1>8. Demand' /\ RefreshIsFresh'
  <2>1. generations' = generations
    BY <1>0
  <2>2. \A l \in Keys : generations'[l] \in Nat /\ generations[l] <= generations'[l]
    BY <2>1 DEF IInv, TypeOK
  <2>3. QED  BY <1>2, <1>7, <2>2, CallFrame
<1>9. CacheIsCurrent'
  BY <1>0 DEF IInv, TypeOK, Goto, flightVars, CacheIsCurrent
<1>10. QED  BY <1>1, <1>4, <1>5, <1>6, <1>8, <1>9 DEF IInv

(* Joining: the registered flight has a live leader of the generation. *)
LEMMA AcquireWaiterInv ==
  ASSUME IInv, NEW c \in Callers, AcquireWaiter(c)
  PROVE  IInv'
<1> USE NoTokenAssumption, NoFlightAssumption
<1>1. TypeOK'
  BY DEF IInv, TypeOK, AcquireWaiter, Goto, registryVars, flightVars, PcValues, Leading,
         Owing, Waiting
<1>2. Others(c)
  BY DEF IInv, TypeOK, AcquireWaiter, Goto, registryVars, flightVars, Others
<1>3. KeepsLead(c) /\ RegistryKept
  BY DEF IInv, TypeOK, AcquireWaiter, Goto, registryVars, flightVars, KeepsLead,
         RegistryKept, Leading
<1>4. RegisteredIsLive' /\ Leadership'
  BY <1>2, <1>3, LeadersFrame
<1>5. Unregistered'
  BY DEF IInv, TypeOK, AcquireWaiter, Goto, registryVars, flightVars, Unregistered
<1>6. WakeupDue'
  <2>1. PICK l \in Callers : Leading(l) /\ flight[l] = flights[key[c]]
    BY DEF IInv, TypeOK, AcquireWaiter, RegisteredIsLive
  <2>2. l # c /\ flight'[l] = flight'[c] /\ Leading(l)'
    BY <2>1 DEF IInv, TypeOK, AcquireWaiter, Goto, registryVars, flightVars, Leading
  <2>3. QED
    BY <2>1, <2>2 DEF IInv, TypeOK, AcquireWaiter, Goto, registryVars, flightVars,
           WakeupDue, Leading, Waiting
<1>7. DemandOf(c)' /\ FreshOf(c)'
  BY DEF IInv, TypeOK, AcquireWaiter, Goto, registryVars, flightVars, Demand, DemandOf,
         RefreshIsFresh, FreshOf, Waiting, RegisteredIsLive
<1>8. Demand' /\ RefreshIsFresh'
  <2>1. \A l \in Keys : generations'[l] \in Nat /\ generations[l] <= generations'[l]
    BY DEF IInv, TypeOK, AcquireWaiter, Goto, registryVars, flightVars
  <2>2. QED  BY <1>2, <1>7, <2>1, CallFrame
<1>9. CacheIsCurrent'
  BY DEF IInv, TypeOK, AcquireWaiter, Goto, registryVars, flightVars, CacheIsCurrent
<1>10. QED  BY <1>1, <1>4, <1>5, <1>6, <1>8, <1>9 DEF IInv

(* Enabling the Notified future. *)
LEMMA WaitInv ==
  ASSUME IInv, NEW c \in Callers, Wait(c)
  PROVE  IInv'
<1> USE NoTokenAssumption, NoFlightAssumption
<1>1. TypeOK'
  BY DEF IInv, TypeOK, Wait, Goto, registryVars, flightVars, callVars, PcValues, Leading,
         Owing, Waiting
<1>2. Others(c)
  BY DEF IInv, TypeOK, Wait, Goto, registryVars, flightVars, callVars, Others
<1>3. KeepsLead(c) /\ RegistryKept
  BY DEF IInv, TypeOK, Wait, Goto, registryVars, flightVars, callVars, KeepsLead,
         RegistryKept, Leading
<1>4. RegisteredIsLive' /\ Leadership'
  BY <1>2, <1>3, LeadersFrame
<1>5. Unregistered'
  BY DEF IInv, TypeOK, Wait, Goto, registryVars, flightVars, callVars, Unregistered
<1>6. WakeupDue'
  BY DEF IInv, TypeOK, Wait, Goto, registryVars, flightVars, callVars, WakeupDue,
         Leading, Waiting
<1>7. DemandOf(c)' /\ FreshOf(c)'
  BY DEF IInv, TypeOK, Wait, Goto, registryVars, flightVars, callVars, Demand, DemandOf,
         RefreshIsFresh, FreshOf, Waiting
<1>8. Demand' /\ RefreshIsFresh'
  <2>1. \A l \in Keys : generations'[l] \in Nat /\ generations[l] <= generations'[l]
    BY DEF IInv, TypeOK, Wait, Goto, registryVars, flightVars, callVars
  <2>2. QED  BY <1>2, <1>7, <2>1, CallFrame
<1>9. CacheIsCurrent'
  BY DEF IInv, TypeOK, Wait, Goto, registryVars, flightVars, callVars, CacheIsCurrent
<1>10. QED  BY <1>1, <1>4, <1>5, <1>6, <1>8, <1>9 DEF IInv

(* A waiter that leaves its flight takes nothing from the leader. *)
LEMMA AnswerInv ==
  ASSUME IInv, NEW c \in Callers, NEW o, pc[c] \in {"check", "parked"}, Answer(c, o),
         UNCHANGED <<registryVars, key, need, born, ending, token>>
  PROVE  IInv'
<1>1. flight[c] # NoFlight /\ ~Leading(c)
  BY DEF IInv, TypeOK, Waiting, Leading
<1>2. PICK l \in {"load", "returned"} : pc' = [pc EXCEPT ![c] = l]
  BY Zenon DEF Answer, Goto
<1>3. Dropped(c) /\ woken' = [woken EXCEPT ![c] = FALSE]
  BY <1>1, DropFlightKeeps DEF Answer
<1>4. /\ ending' \in [Callers -> Endings] /\ woken' \in [Callers -> BOOLEAN]
      /\ \A d \in Callers \ {c} : woken[d] => woken'[d]
  BY <1>3 DEF IInv, TypeOK
<1>5. WakeupDue'
  <2>1. Others(c)
    BY <1>2, <1>3, <1>4 DEF IInv, TypeOK, Dropped, Others
  <2>2. OutcomesKept(c) /\ ~Waiting(c)' /\ KeepsDuty(c)
    BY <1>1, <1>2, <1>3 DEF IInv, TypeOK, Dropped, OutcomesKept, Waiting, KeepsDuty, Leading
  <2>3. QED  BY <2>1, <2>2, WakeupFrame
<1>6. QED  BY <1>1, <1>2, <1>3, <1>4, <1>5, LetGoInv, Zenon

(* A waiter parks only on an open flight, which somebody will complete. *)
LEMMA CheckInv ==
  ASSUME IInv, NEW c \in Callers, Check(c)
  PROVE  IInv'
<1>1. CASE flight_outcome[flight[c]] # "Pending"
  BY <1>1, AnswerInv DEF Check
<1>2. CASE flight_outcome[flight[c]] = "Pending"
  <2>0. /\ pc[c] = "check" /\ pc' = [pc EXCEPT ![c] = "parked"]
        /\ UNCHANGED <<registryVars, flightVars, callVars>>
    BY <1>2 DEF Check, Goto, flightVars, callVars
  <2> USE DEF flightVars, callVars
  <2>1. TypeOK'
    BY <2>0 DEF IInv, TypeOK, registryVars, PcValues, Leading, Owing, Waiting
  <2>2. Others(c)
    BY <2>0 DEF IInv, TypeOK, Others
  <2>3. KeepsLead(c) /\ RegistryKept
    BY <2>0 DEF IInv, TypeOK, registryVars, KeepsLead, RegistryKept, Leading
  <2>4. RegisteredIsLive' /\ Leadership'
    BY <2>2, <2>3, LeadersFrame
  <2>5. Unregistered'
    BY <2>0 DEF IInv, TypeOK, registryVars, Unregistered
  <2>6. WakeupDue'
    BY <1>2, <2>0 DEF IInv, TypeOK, WakeupDue, Leading, Waiting
  <2>7. DemandOf(c)' /\ FreshOf(c)'
    BY <2>0 DEF IInv, TypeOK, registryVars, Demand, DemandOf, RefreshIsFresh, FreshOf, Waiting
  <2>8. Demand' /\ RefreshIsFresh'
    <3>1. \A k \in Keys : generations'[k] \in Nat /\ generations[k] <= generations'[k]
      BY <2>0, SMTT(30) DEF IInv, TypeOK, registryVars
    <3>2. QED  BY <2>2, <2>7, <3>1, CallFrame
  <2>9. CacheIsCurrent'
    BY <2>0, SMTT(30) DEF IInv, registryVars, CacheIsCurrent
  <2>10. QED  BY <2>1, <2>4, <2>5, <2>6, <2>8, <2>9 DEF IInv
<1>3. QED  BY <1>1, <1>2

(* A woken waiter, and one whose task is cancelled, let go of the flight. *)
LEMMA WakeInv ==
  ASSUME IInv, NEW c \in Callers, Wake(c) \/ WaiterAbort(c)
  PROVE  IInv'
  BY AnswerInv DEF Wake, WaiterAbort

(* What may happen to the cache beside a call: an entry goes or ages. *)
CacheShrinks ==
  /\ cache' \in [Keys -> CachedToken \cup {NoToken}]
  /\ \A k \in Keys : cache'[k] # NoToken =>
       /\ cache[k] # NoToken
       /\ cache'[k].token = cache[k].token
       /\ cache'[k].generation = cache[k].generation

(* The result leaves with the call, whether or not headers are built from the *)
(* cache at that moment.                                                       *)
LEMMA ResultTakenInv ==
  ASSUME IInv, NEW c \in Callers, CacheShrinks,
         pc[c] = "returned", Goto(c, "idle"),
         need' = [need EXCEPT ![c] = 0], token' = [token EXCEPT ![c] = NoToken],
         UNCHANGED <<flights, generations, last_key, flightVars, key, flight, born, ending, woken>>
  PROVE  IInv'
<1> USE NoTokenAssumption, NoFlightAssumption
<1>1. TypeOK'
  BY DEF IInv, TypeOK, CacheShrinks, Goto, flightVars, PcValues, Leading, Owing, Waiting
<1>2. Others(c)
  BY DEF IInv, TypeOK, Goto, flightVars, Others
<1>3. KeepsLead(c) /\ RegistryKept
  BY DEF IInv, TypeOK, Goto, flightVars, KeepsLead, RegistryKept, Leading
<1>4. RegisteredIsLive' /\ Leadership'
  BY <1>2, <1>3, LeadersFrame
<1>5. Unregistered'
  BY DEF IInv, TypeOK, Goto, flightVars, Unregistered
<1>6. WakeupDue'
  <2>1. OutcomesKept(c) /\ ~Waiting(c)' /\ KeepsDuty(c)
    BY DEF IInv, TypeOK, Goto, flightVars, OutcomesKept, Waiting, KeepsDuty, Leading
  <2>2. QED  BY <1>2, <2>1, WakeupFrame
<1>7. DemandOf(c)' /\ FreshOf(c)'
  BY DEF IInv, TypeOK, Goto, flightVars, Demand, DemandOf, RefreshIsFresh, FreshOf, Waiting
<1>8. Demand' /\ RefreshIsFresh'
  <2>1. \A l \in Keys : generations'[l] \in Nat /\ generations[l] <= generations'[l]
    BY DEF IInv, TypeOK, Goto, flightVars
  <2>2. QED  BY <1>2, <1>7, <2>1, CallFrame
<1>9. CacheIsCurrent'
  BY Zenon DEF IInv, CacheShrinks, CacheIsCurrent
<1>10. QED  BY <1>1, <1>4, <1>5, <1>6, <1>8, <1>9 DEF IInv

(* The result leaves with the call. *)
LEMMA TakeResultInv ==
  ASSUME IInv, NEW c \in Callers, TakeResult(c)
  PROVE  IInv'
<1>1. CacheShrinks
  BY DEF IInv, TypeOK, TakeResult, registryVars, CacheShrinks
<1>2. QED  BY Zenon, <1>1, ResultTakenInv DEF TakeResult, registryVars

(* load_last and the clock touch the cache alone: an entry goes or ages. *)
LEMMA CacheOnlyInv ==
  ASSUME IInv,
         UNCHANGED <<flights, generations, last_key, flightVars, pc, callVars>>,
         CacheShrinks
  PROVE  IInv'
<1> USE DEF IInv, flightVars, callVars
<1>1. TypeOK'  BY DEF TypeOK, CacheShrinks, Leading, Owing, Waiting
<1>2. RegisteredIsLive'  BY SMTT(60) DEF RegisteredIsLive, Leading, TypeOK
<1>3. Leadership'  BY ZenonT(30) DEF Leadership, Leading
<1>4. Unregistered'  BY DEF Unregistered
<1>5. WakeupDue'  BY SMTT(30) DEF WakeupDue, Leading, Waiting
<1>6. Demand'  BY SMTT(30) DEF Demand, DemandOf
<1>7. RefreshIsFresh'  BY DEF RefreshIsFresh, Waiting
<1>8. CacheIsCurrent'  BY SMTT(30) DEF CacheIsCurrent, CacheShrinks
<1>9. QED  BY <1>1, <1>2, <1>3, <1>4, <1>5, <1>6, <1>7, <1>8

(* load_last evicts an entry that is no longer valid. *)
LEMMA LoadLastInv == ASSUME IInv, LoadLast PROVE IInv'
<1>1. cache' \in [Keys -> CachedToken \cup {NoToken}]
  BY DEF IInv, TypeOK, LoadLast
<1>2. QED
  BY <1>1, CacheOnlyInv DEF IInv, TypeOK, LoadLast, CacheShrinks

(* Time takes from an entry's remaining lifetime only. *)
LEMMA TickInv == ASSUME IInv, Tick PROVE IInv'
<1>1. \A k \in Keys : cache[k] # NoToken =>
        /\ cache'[k] = [cache[k] EXCEPT !.ttl = SaturatingSub(@, 1)]
        /\ cache[k] \in CachedToken
  BY DEF IInv, TypeOK, Tick
<1>2. \A k \in Keys : cache[k] # NoToken => cache'[k] \in CachedToken
  <2> SUFFICES ASSUME NEW k \in Keys, cache[k] # NoToken
               PROVE  cache'[k] \in CachedToken
    OBVIOUS
  <2>1. cache[k].ttl \in Nat
    BY <1>1, Zenon DEF CachedToken
  <2>2. SaturatingSub(cache[k].ttl, 1) \in Nat
    BY <2>1 DEF SaturatingSub
  <2>3. QED
    BY <1>1, <2>2, Zenon DEF CachedToken
<1>3. \A k \in Keys : cache[k] = NoToken => cache'[k] = NoToken
  BY DEF Tick
<1>4. cache' \in [Keys -> CachedToken \cup {NoToken}]
  BY <1>2, <1>3 DEF Tick
<1>5. \A k \in Keys : cache'[k] # NoToken =>
        /\ cache[k] # NoToken
        /\ cache'[k].token = cache[k].token
        /\ cache'[k].generation = cache[k].generation
  BY <1>1, <1>3, Zenon DEF CachedToken
<1>6. QED
  BY <1>4, <1>5, CacheOnlyInv, Zenon DEF Tick, CacheShrinks

(* A stuttering step. *)
LEMMA StutterInv == ASSUME IInv, UNCHANGED vars PROVE IInv'
<1>1. cache' \in [Keys -> CachedToken \cup {NoToken}]
  BY DEF IInv, TypeOK, vars, registryVars
<1>2. QED
  BY <1>1, CacheOnlyInv DEF vars, registryVars, CacheShrinks

(* Every step of the token cache preserves the inductive invariant. *)
LEMMA StepInv == IInv /\ [Next]_vars => IInv'
<1> SUFFICES ASSUME IInv, [Next]_vars PROVE IInv'
  OBVIOUS
<1>1. ASSUME NEW c \in Callers, Start(c) PROVE IInv'
  BY <1>1, StartGetInv, StartRefreshInv DEF Start
<1>2. ASSUME NEW c \in Callers, Progress(c) PROVE IInv'
  BY <1>2, LoadInv, AcquireWaiterInv, AcquireLeaderInv, ReloadInv, FetchOkInv,
     FetchErrInv, FinishInv, CompleteInv, NotifyInv, WaitInv, CheckInv, WakeInv
  DEF Progress
<1>3. ASSUME NEW c \in Callers,
             TakeResult(c) \/ LeaderAbort(c) \/ WaiterAbort(c)
      PROVE  IInv'
  BY <1>3, TakeResultInv, LeaderAbortInv, WakeInv
<1>4. QED
  BY <1>1, <1>2, <1>3, LoadLastInv, TickInv, StutterInv DEF Next

(* The inductive invariant holds in every reachable state. *)
THEOREM Invariance == Spec => []IInv
<1>1. QED  BY InitInv, StepInv, PTL DEF Spec

-----------------------------------------------------------------------------
(* Type correctness of the token cache, for any callers, keys and flights. *)
THEOREM TypeCorrect == Spec => []TypeOK
<1>1. IInv => TypeOK  BY SMTT(30) DEF IInv
<1>2. QED  BY <1>1, Invariance, PTL

(* acquire, invalidate and finish keep at most one network request per key *)
(* and generation in flight.                                               *)
THEOREM SingleFlight == Spec => []SingleFetch
<1>1. IInv => SingleFetch
  BY DEF IInv, Leadership, SingleFetch, Leading
<1>2. QED  BY <1>1, Invariance, PTL

(* A registered flight is open and has a live leader of its generation, so *)
(* acquire never makes a caller wait for a flight that is already over.    *)
THEOREM RegisteredFlightsLive == Spec => []RegisteredIsLive
<1>1. IInv => RegisteredIsLive  BY DEF IInv
<1>2. QED  BY <1>1, Invariance, PTL

(* wait and complete lose no wakeup: a parked waiter is notified, or a     *)
(* task that will complete or announce its flight still exists.            *)
THEOREM WakeupsNotLost == Spec => []NoLostWakeup
<1>1. IInv => NoLostWakeup
  <2> SUFFICES ASSUME IInv, NEW c \in Callers, pc[c] = "parked", ~woken[c]
               PROVE  \E d \in Callers : flight[d] = flight[c] /\ Owing(d)
    BY SMTT(30) DEF NoLostWakeup
  <2>1. CASE flight_outcome[flight[c]] = "Pending"
    BY <2>1, ZenonT(30) DEF IInv, WakeupDue, Waiting, Owing
  <2>2. CASE flight_outcome[flight[c]] # "Pending"
    BY <2>2 DEF IInv, WakeupDue, Owing
  <2>3. QED  BY <2>1, <2>2
<1>2. QED  BY <1>1, Invariance, PTL

(* refresh_token is only ever answered by a fetch that started after it. *)
THEOREM RefreshAnswersFresh == Spec => []RefreshIsFresh
<1>1. IInv => RefreshIsFresh  BY DEF IInv
<1>2. QED  BY <1>1, Invariance, PTL

(* store_if_current lets no older fetch fill the cache. *)
THEOREM CacheStaysCurrent == Spec => []CacheIsCurrent
<1>1. IInv => CacheIsCurrent  BY DEF IInv
<1>2. QED  BY <1>1, Invariance, PTL

-----------------------------------------------------------------------------
(* Authenticated requests *)

(* What a request in phase ph knows of its tokens, with the authorization    *)
(* auth of its headers and the refused token old: the first is at most as    *)
(* new as its key's generation, and a refused one is older than what the     *)
(* refresh will accept.                                                      *)
TokensOf(ph, tgt, auth, old, k, n, gens) ==
  /\ ph = "first" /\ auth # NoToken => auth \in Token /\ auth.born <= gens[auth.key]
  /\ ph = "refreshing" => /\ k = tgt /\ (old # NoToken => old \in Token)
                          /\ old # NoToken /\ old.key = tgt => old.born < n
  /\ ph = "second" => /\ auth # NoToken /\ auth.key = tgt
                      /\ old # NoToken /\ old.key = tgt => auth.born > old.born

RequestOf(c) ==
  TokensOf(phase[c], target[c], headers[c].auth, rejected[c], key[c], need[c], generations)

RequestTypes ==
  /\ phase \in [Callers -> {"none", "first", "refreshing", "second"}]
  /\ target \in [Callers -> Keys]
  /\ DOMAIN headers = Callers /\ DOMAIN rejected = Callers
  /\ load \in Workload

RequestInv == RequestTypes /\ \A c \in Callers : RequestOf(c)

(* What is needed of the types of the cache. *)
LEMMA CacheTypes ==
  ASSUME IInv
  PROVE  /\ generations \in [Keys -> Nat] /\ key \in [Callers -> Keys] /\ need \in [Callers -> Nat]
         /\ token \in [Callers -> Token \cup {NoToken}]
  BY Zenon DEF IInv, TypeOK

(* A token has a key and a time of birth. *)
LEMMA TokenFields ==
  ASSUME NEW t \in Token
  PROVE  t.key \in Keys /\ t.born \in Nat
  BY DEF Token

(* Generations only advance. *)
Advance(gens, later) == \A k \in Keys : gens[k] \in Nat /\ later[k] \in Nat /\ gens[k] <= later[k]

(* What a request knows stays true when generations advance. *)
LEMMA TokensKept ==
  ASSUME NEW ph, NEW tgt, NEW auth, NEW old, NEW k, NEW n, NEW gens, NEW later,
         TokensOf(ph, tgt, auth, old, k, n, gens), Advance(gens, later)
  PROVE  TokensOf(ph, tgt, auth, old, k, n, later)
<1>1. CASE ph = "first" /\ auth # NoToken
  <2>1. auth \in Token /\ auth.born <= gens[auth.key]
    BY <1>1, SMTT(30) DEF TokensOf
  <2>2. auth.key \in Keys /\ auth.born \in Nat
    BY <2>1, TokenFields
  <2>3. auth.born <= later[auth.key]
    BY <2>1, <2>2 DEF Advance
  <2> QED
    BY <1>1, <2>1, <2>3 DEF TokensOf
<1>2. CASE ~ (ph = "first" /\ auth # NoToken)
  BY <1>2, Zenon DEF TokensOf
<1> QED
  BY <1>1, <1>2

(* A request is not concerned by the steps of others. *)
LEMMA RequestFrame ==
  ASSUME RequestInv, NEW d \in Callers, Advance(generations, generations'),
         phase'[d] = phase[d], target'[d] = target[d], headers'[d] = headers[d],
         rejected'[d] = rejected[d], key'[d] = key[d], need'[d] = need[d]
  PROVE  RequestOf(d)'
<1>1. TokensOf(phase[d], target[d], headers[d].auth, rejected[d], key[d], need[d], generations)
  BY Zenon DEF RequestInv, RequestOf
<1>2. TokensOf(phase[d], target[d], headers[d].auth, rejected[d], key[d], need[d], generations')
  BY <1>1, TokensKept, Zenon
<1> QED
  BY <1>2, Zenon DEF RequestOf

(* The token of the last key, when it is valid. *)
LEMMA LastTokenCurrent ==
  ASSUME IInv, LastToken # NoToken
  PROVE  LastToken \in Token /\ LastToken.born <= generations[LastToken.key]
<1> DEFINE usable == {k \in last_key : Valid(k)}
<1>1. usable # {}
  BY DEF LastToken
<1>2. PICK k \in usable : LastToken = cache[k].token
  BY <1>1, Zenon DEF LastToken
<1>3. k \in Keys /\ Valid(k)
  BY DEF IInv, TypeOK
<1>4. LastToken \in Token /\ LastToken.key = k /\ LastToken.born = generations[k]
  BY <1>2, <1>3, ValidIsCurrent
<1> QED
  BY <1>3, <1>4 DEF IInv, TypeOK

(* Headers evict the last token when it is no longer valid. *)
LEMMA EvictShrinks ==
  ASSUME IInv, EvictLast
  PROVE  CacheShrinks
  BY DEF IInv, TypeOK, EvictLast, CacheShrinks

(* What the token cache does by itself. *)
LEMMA TokenStepRequest ==
  ASSUME IInv, RequestInv, UNCHANGED requestVars,
         (\E c \in Callers : Progress(c) \/ LeaderAbort(c) \/ WaiterAbort(c)) \/ Tick \/ UNCHANGED vars
  PROVE  IInv' /\ RequestInv'
<1>1. IInv'
  <2>1. ASSUME NEW c \in Callers, Progress(c) PROVE IInv'
    BY <2>1, LoadInv, AcquireWaiterInv, AcquireLeaderInv, ReloadInv, FetchOkInv,
       FetchErrInv, FinishInv, CompleteInv, NotifyInv, WaitInv, CheckInv, WakeInv
    DEF Progress
  <2> QED
    BY <2>1, LeaderAbortInv, WakeInv, TickInv, StutterInv
<1>2. key' = key /\ need' = need /\ generations' = generations
  <2>1. ASSUME NEW c \in Callers, Progress(c) PROVE key' = key /\ need' = need /\ generations' = generations
    <3>1. CASE Load(c) \/ AcquireWaiter(c) \/ AcquireLeader(c) \/ Reload(c) \/ FetchOk(c)
      BY <3>1, Zenon DEF Load, AcquireWaiter, AcquireLeader, Reload, FetchOk, registryVars
    <3>2. CASE FetchErr(c) \/ Finish(c) \/ Complete(c) \/ Notify(c)
      BY <3>2, Zenon DEF FetchErr, Finish, Complete, Notify, registryVars, callVars
    <3>3. CASE Wait(c) \/ Check(c) \/ Wake(c)
      BY <3>3, Zenon DEF Wait, Check, Wake, registryVars, callVars
    <3> QED
      BY <2>1, <3>1, <3>2, <3>3 DEF Progress
  <2> QED
    BY <2>1, Zenon DEF LeaderAbort, WaiterAbort, Tick, vars, registryVars, callVars
<1>3. Advance(generations, generations')
  BY <1>2, CacheTypes DEF Advance
<1>4. \A d \in Callers : RequestOf(d)'
  BY <1>2, <1>3, RequestFrame, Zenon DEF requestVars
<1> QED
  BY <1>1, <1>4, Zenon DEF RequestInv, RequestTypes, requestVars

(* The first attempt carries a token that is at most current. *)
LEMMA SendFirstRequest ==
  ASSUME IInv, RequestInv, NEW c \in Callers, SendFirst(c)
  PROVE  IInv' /\ RequestInv'
<1> USE CacheTypes
<1>1. IInv'
  BY EvictShrinks, CacheOnlyInv, Zenon DEF SendFirst
<1>2. PICK m \in load.kinds, k \in load.keys :
        /\ target' = [target EXCEPT ![c] = k]
        /\ headers' = [headers EXCEPT ![c] = [auth |-> LastToken, own |-> m = "body"]]
  BY Zenon DEF SendFirst
<1>3. /\ phase' = [phase EXCEPT ![c] = "first"] /\ rejected' = rejected /\ load' = load
      /\ generations' = generations /\ key' = key /\ need' = need
  BY Zenon DEF SendFirst, Enter, callVars
<1>4. RequestTypes /\ k \in Keys
  BY DEF RequestInv, RequestTypes, Workload
<1>5. Advance(generations, generations')
  BY <1>3, SMTT(30) DEF Advance
<1>6. ASSUME NEW d \in Callers, d # c PROVE RequestOf(d)'
  <2>1. phase'[d] = phase[d] /\ target'[d] = target[d] /\ headers'[d] = headers[d]
    BY <1>2, <1>3, <1>4, <1>6, SMTT(30) DEF RequestTypes
  <2> QED
    BY <1>3, <1>5, <2>1, RequestFrame, SMTT(30)
<1>7. RequestOf(c)'
  <2>1. headers'[c] = [auth |-> LastToken, own |-> m = "body"] /\ phase'[c] = "first"
    BY ZenonT(30), <1>2, <1>3, <1>4 DEF RequestTypes
  <2>2. headers'[c].auth = LastToken
    BY <2>1
  <2>3. LastToken # NoToken => LastToken \in Token /\ LastToken.born <= generations[LastToken.key]
    BY LastTokenCurrent, SMTT(30)
  <2> QED
    BY <1>3, <2>1, <2>2, <2>3 DEF RequestOf, TokensOf
<1>8. RequestTypes'
  BY <1>2, <1>3, <1>4 DEF RequestTypes
<1> QED
  BY <1>1, <1>6, <1>7, <1>8 DEF RequestInv

(* A request that returns has nothing to remember. *)
LEMMA ReturnRequest ==
  ASSUME IInv, RequestInv, NEW c \in Callers, Return(c), generations' = generations,
         \A d \in Callers \ {c} : key'[d] = key[d] /\ need'[d] = need[d]
  PROVE  RequestInv'
<1> USE CacheTypes
<1>1. Keys # {}
  OBVIOUS
<1>2. RequestTypes /\ (CHOOSE k \in Keys : TRUE) \in Keys
  BY <1>1, Zenon DEF RequestInv
<1>3. /\ phase' = [phase EXCEPT ![c] = "none"] /\ headers' = [headers EXCEPT ![c] = NoHeaders]
      /\ rejected' = [rejected EXCEPT ![c] = NoToken] /\ load' = load
      /\ target' = [target EXCEPT ![c] = CHOOSE k \in Keys : TRUE]
  BY Zenon DEF Return, Enter
<1>4. Advance(generations, generations')
  BY SMTT(30) DEF Advance
<1>5. ASSUME NEW d \in Callers, d # c PROVE RequestOf(d)'
  <2>1. /\ phase'[d] = phase[d] /\ target'[d] = target[d] /\ headers'[d] = headers[d]
        /\ rejected'[d] = rejected[d]
    BY <1>2, <1>3, <1>5 DEF RequestTypes
  <2> QED
    BY <1>4, <1>5, <2>1, RequestFrame, SMTT(30)
<1>6. RequestOf(c)'
  <2>1. phase'[c] = "none"
    BY <1>2, <1>3, SMTT(30) DEF RequestTypes
  <2> QED
    BY ZenonT(30), <2>1 DEF RequestOf, TokensOf
<1>7. RequestTypes'
  BY <1>2, <1>3 DEF RequestTypes
<1> QED
  BY <1>5, <1>6, <1>7 DEF RequestInv

(* The refusal: the refresh asks for more than the refused token.            *)
LEMMA FirstRejectedRequest ==
  ASSUME IInv, RequestInv, NEW c \in Callers, FirstRejected(c)
  PROVE  IInv' /\ RequestInv'
<1> USE CacheTypes
<1>1. RequestTypes /\ target[c] \in Keys /\ phase[c] = "first" /\ RequestOf(c)
  BY DEF RequestInv, RequestTypes, FirstRejected
<1>2. IInv'
  BY <1>1, StartRefreshInv DEF FirstRejected
<1>3. /\ generations' = [generations EXCEPT ![target[c]] = @ + 1]
      /\ key' = [key EXCEPT ![c] = target[c]]
      /\ need' = [need EXCEPT ![c] = generations[target[c]] + 1]
  BY Zenon DEF FirstRejected, StartRefresh
<1>4. /\ rejected' = [rejected EXCEPT ![c] = headers[c].auth]
      /\ phase' = [phase EXCEPT ![c] = "refreshing"]
      /\ UNCHANGED <<load, target, headers>>
  BY ZenonT(30) DEF FirstRejected, Enter
<1>5. Advance(generations, generations')
  BY <1>1, <1>3, SMTT(30) DEF Advance
<1>6. ASSUME NEW d \in Callers, d # c PROVE RequestOf(d)'
  <2>1. /\ phase'[d] = phase[d] /\ target'[d] = target[d] /\ headers'[d] = headers[d]
        /\ rejected'[d] = rejected[d] /\ key'[d] = key[d] /\ need'[d] = need[d]
    BY <1>1, <1>3, <1>4, <1>6, SMTT(30) DEF RequestTypes
  <2> QED
    BY <1>5, <2>1, RequestFrame
<1>7. RequestOf(c)'
  <2> DEFINE a == headers[c].auth
  <2>1. /\ key'[c] = target[c] /\ need'[c] = generations[target[c]] + 1 /\ phase'[c] = "refreshing"
        /\ rejected'[c] = a /\ target'[c] = target[c] /\ generations[target[c]] \in Nat
    BY <1>1, <1>3, <1>4 DEF RequestTypes
  <2>2. a # NoToken => a \in Token /\ a.born <= generations[a.key]
    BY ZenonT(30), <1>1 DEF RequestOf, TokensOf
  <2>3. a # NoToken => a.born \in Nat
    BY <2>2, TokenFields, SMTT(30)
  <2> HIDE DEF a
  <2>4. a # NoToken /\ a.key = target[c] => a.born < need'[c]
    BY <2>1, <2>2, <2>3
  <2> QED
    BY <2>1, <2>2, <2>4 DEF RequestOf, TokensOf
<1>8. RequestTypes'
  BY <1>1, <1>4 DEF RequestTypes
<1> QED
  BY <1>2, <1>6, <1>7, <1>8 DEF RequestInv

(* The second attempt carries what the refresh returned. *)
LEMMA SendSecondRequest ==
  ASSUME IInv, RequestInv, NEW c \in Callers, SendSecond(c)
  PROVE  IInv' /\ RequestInv'
<1> USE CacheTypes
<1>1. IInv'
  BY EvictShrinks, ResultTakenInv, Zenon DEF SendSecond
<1>2. /\ phase[c] = "refreshing" /\ token[c] # NoToken
      /\ headers' = [headers EXCEPT ![c] = RetryHeaders(c)]
      /\ need' = [need EXCEPT ![c] = 0] /\ phase' = [phase EXCEPT ![c] = "second"]
      /\ UNCHANGED <<generations, key, load, target, rejected>>
  BY Zenon DEF SendSecond, Enter
<1>3. Advance(generations, generations')
  BY <1>2 DEF Advance
<1>4. RequestTypes /\ RequestOf(c)
  BY DEF RequestInv
<1>5. ASSUME NEW d \in Callers, d # c PROVE RequestOf(d)'
  <2>1. phase'[d] = phase[d] /\ headers'[d] = headers[d] /\ need'[d] = need[d]
    BY <1>2, <1>4, <1>5 DEF RequestTypes
  <2> QED
    BY <1>2, <1>3, <2>1, RequestFrame, Zenon
<1>6. RequestOf(c)'
  <2>1. RetryHeaders(c).auth = token[c]
    BY DEF RetryHeaders
  <2>2. /\ phase'[c] = "second" /\ headers'[c] = RetryHeaders(c) /\ rejected'[c] = rejected[c]
        /\ target'[c] = target[c]
    BY <1>2, <1>4, SMTT(30) DEF RequestTypes
  <2>3. token[c] \in Token /\ need[c] \in Nat /\ token[c].key = key[c] /\ token[c].born >= need[c]
    BY <1>2 DEF IInv, RefreshIsFresh
  <2>4. token[c].born \in Nat
    BY <2>3, TokenFields, SMTT(30)
  <2>5. /\ key[c] = target[c] /\ (rejected[c] # NoToken => rejected[c] \in Token)
        /\ (rejected[c] # NoToken /\ rejected[c].key = target[c] => rejected[c].born < need[c])
    BY <1>2, <1>4, SMTT(30) DEF RequestOf, TokensOf
  <2>6. rejected[c] # NoToken => rejected[c].born \in Nat
    BY <2>5, TokenFields, SMTT(30)
  <2>7. rejected[c] # NoToken /\ rejected[c].key = target[c] => token[c].born > rejected[c].born
    BY <2>3, <2>4, <2>5, <2>6
  <2> QED
    BY <1>2, <2>1, <2>2, <2>3, <2>5, <2>7, Zenon DEF RequestOf, TokensOf
<1>7. RequestTypes'
  BY <1>2, <1>4 DEF RequestTypes
<1> QED
  BY <1>1, <1>5, <1>6, <1>7 DEF RequestInv

(* A step of the requests keeps both invariants. *)
LEMMA RequestNextInv == IInv /\ RequestInv /\ [RequestNext]_allVars => IInv' /\ RequestInv'
<1> SUFFICES ASSUME IInv, RequestInv, [RequestNext]_allVars PROVE IInv' /\ RequestInv'
  OBVIOUS
<1>1. ASSUME NEW c \in Callers, FirstAnswer(c) \/ SecondAnswer(c) PROVE IInv' /\ RequestInv'
  <2>1. Return(c) /\ UNCHANGED vars
    BY <1>1 DEF FirstAnswer, SecondAnswer
  <2>2. generations' = generations /\ key' = key /\ need' = need
    BY <2>1 DEF vars, registryVars, callVars
  <2> QED
    BY <2>1, <2>2, StutterInv, ReturnRequest
<1>2. ASSUME NEW c \in Callers, RefreshFailed(c) PROVE IInv' /\ RequestInv'
  <2>1. Return(c) /\ TakeResult(c)
    BY <1>2 DEF RefreshFailed
  <2>2. /\ generations' = generations /\ key' = key
        /\ \A d \in Callers \ {c} : need'[d] = need[d]
    BY <2>1 DEF TakeResult, registryVars, IInv, TypeOK
  <2> QED
    BY <2>1, <2>2, TakeResultInv, ReturnRequest
<1>3. ASSUME NEW c \in Callers, TokenStep(c) \/ Abort(c) PROVE IInv' /\ RequestInv'
  BY <1>3, TokenStepRequest DEF TokenStep, Abort
<1>4. CASE Idle \/ UNCHANGED allVars \/ (Tick /\ UNCHANGED requestVars)
  BY <1>4, TokenStepRequest DEF Idle, allVars
<1> QED
  BY <1>1, <1>2, <1>3, <1>4, SendFirstRequest, FirstRejectedRequest, SendSecondRequest
  DEF RequestNext, RequestStep

(* The one retry of a refused request carries a token that was requested     *)
(* after the refusal, however many other requests of however many keys       *)
(* refresh, abort and expire meanwhile (request.rs:                          *)
(* request_challenge_for_response).                                          *)
THEOREM RetriesAreFresh ==
  ASSUME RequestAssumption
  PROVE  RequestSafety => []RetryIsFresh
<1>1. RequestInit => IInv /\ RequestInv
  <2> SUFFICES ASSUME RequestInit PROVE IInv /\ RequestInv
    OBVIOUS
  <2>1. IInv
    BY InitInv DEF RequestInit
  <2>2. \A c \in Callers : (CHOOSE k \in Keys : TRUE) \in Keys
    BY <2>1, ZenonT(30) DEF IInv, TypeOK
  <2>3. RequestTypes
    BY <2>2 DEF RequestInit, InitRequests, RequestTypes, RequestAssumption
  <2>4. \A c \in Callers : phase[c] = "none"
    BY ZenonT(30) DEF RequestInit, InitRequests
  <2>5. \A c \in Callers : RequestOf(c)
    BY Zenon, <2>4 DEF RequestOf, TokensOf
  <2> QED
    BY <2>1, <2>3, <2>5 DEF RequestInv
<1>2. RequestInv => RetryIsFresh
  BY DEF RequestInv, RequestOf, TokensOf, RetryIsFresh
<1> QED
  BY <1>1, <1>2, RequestNextInv, PTL DEF RequestSafety
=============================================================================
