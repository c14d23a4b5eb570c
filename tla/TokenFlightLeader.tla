------------------------- MODULE TokenFlightLeader -------------------------
(***************************************************************************)
(* The inductive invariant of the token cache and what its proof rests on. *)
(* The safety properties are strengthened by what the code keeps true      *)
(* between its critical sections: whose flight is whose. A step touches    *)
(* one caller, so the frame lemmas say once what it leaves alone for all   *)
(* the others. The steps of the leader of a flight keep the invariant:     *)
(* acquire, the second load, the fetch and its failures, finish, complete  *)
(* and notify.                                                             *)
(***************************************************************************)
EXTENDS TokenFlight, TLAPS

(* A leaf that names no prover goes to the SMT solver and then to Zenon,   *)
(* with time to spare for a slow machine.                                  *)
USE SMTT(30), ZenonT(30)

(* A flight has one leader; a leader's flight is registered under its key  *)
(* in the current generation, or a refresh has moved the generation on.    *)
Leadership ==
  /\ \A c, d \in Callers :
       Leading(c) /\ Leading(d) /\ flight[c] = flight[d] => c = d
  /\ \A c, d \in Callers :
       /\ Leading(c) /\ Leading(d) /\ key[c] = key[d]
       /\ flight_gen[flight[c]] = flight_gen[flight[d]]
       => c = d
  /\ \A c \in Callers : Leading(c) =>
       /\ flight_gen[flight[c]] <= generations[key[c]]
       /\ flight_gen[flight[c]] = generations[key[c]]
            => flights[key[c]] = flight[c]

(* Whoever completes or announces a flight has unregistered it before. *)
Unregistered ==
  \A c \in Callers : pc[c] \in {"complete", "notify"} =>
    \A k \in Keys : flights[k] # flight[c]

(* An open flight with a waiter has a caller that will complete it, and a  *)
(* closed one with a sleeping waiter has a caller that will announce it.   *)
WakeupDue ==
  \A c \in Callers :
    /\ Waiting(c) /\ flight_outcome[flight[c]] = "Pending" =>
         \E d \in Callers : /\ flight[d] = flight[c]
                            /\ Leading(d) \/ pc[d] = "complete"
    /\ pc[c] = "parked" /\ ~woken[c] /\ flight_outcome[flight[c]] # "Pending" =>
         \E d \in Callers : flight[d] = flight[c] /\ pc[d] = "notify"

(* What a call needs is never ahead of its key's generation, and what a    *)
(* leader has asked for is at least as new as both.                        *)
DemandOf(c) ==
  /\ need[c] <= generations[key[c]]
  /\ pc[c] = "idle" => need[c] = 0 /\ token[c] = NoToken
  /\ pc[c] = "fetch" => /\ born[c] >= need[c]
                        /\ born[c] >= flight_gen[flight[c]]
                        /\ born[c] <= generations[key[c]]

Demand == \A c \in Callers : DemandOf(c)

IInv ==
  /\ TypeOK
  /\ RegisteredIsLive
  /\ Leadership
  /\ Unregistered
  /\ WakeupDue
  /\ Demand
  /\ RefreshIsFresh
  /\ CacheIsCurrent

-----------------------------------------------------------------------------
(* The initial state: nobody holds a flight or a token. *)
LEMMA InitInv == Init => IInv
  BY NoTokenAssumption, NoFlightAssumption
  DEF Init, IInv, TypeOK, RegisteredIsLive, Leadership, Unregistered, WakeupDue,
      Demand, DemandOf, RefreshIsFresh, CacheIsCurrent, Leading, Owing, Waiting, PcValues,
      Endings, Outcomes

(* fetch_token_network: the time a token is cached is a positive number of *)
(* seconds, whatever lifetime and age the token service reports.           *)
LEMMA TtlPositive ==
  ASSUME NEW e \in Nat, NEW d \in Nat
  PROVE  TokenTtl(e, d) \in Nat /\ TokenTtl(e, d) > 0
  BY ClockAssumption DEF TokenTtl, Greatest, Least, SaturatingSub

(* What load hands out was requested for that key in its generation. *)
LEMMA ValidIsCurrent ==
  ASSUME IInv, NEW k \in Keys, Valid(k)
  PROVE  /\ cache[k].token \in Token
         /\ cache[k].token.key = k
         /\ cache[k].token.born = generations[k]
<1>1. cache[k].token = [key |-> k, born |-> generations[k]]
  BY DEF IInv, Valid, CacheIsCurrent
<1>2. generations[k] \in Nat
  BY DEF IInv, TypeOK
<1>3. QED
  BY <1>1, <1>2 DEF Token

(* What dropping an Arc<Flight> leaves alone: every flight that another    *)
(* caller or a key still holds.                                            *)
Dropped(c) ==
  /\ flight' = [flight EXCEPT ![c] = NoFlight]
  /\ flight_outcome' \in [FlightIds -> Outcomes \cup {"Pending"}]
  /\ flight_gen' \in [FlightIds -> Nat]
  /\ \A d \in Callers : d # c /\ flight[d] # NoFlight =>
       /\ flight_outcome'[flight[d]] = flight_outcome[flight[d]]
       /\ flight_gen'[flight[d]] = flight_gen[flight[d]]
  /\ \A k \in Keys : flights[k] # NoFlight =>
       /\ flight_outcome'[flights[k]] = flight_outcome[flights[k]]
       /\ flight_gen'[flights[k]] = flight_gen[flights[k]]

(* Letting go of a flight (an Arc dropped, sync.rs FlightWaiter) frees its number *)
(* only when nobody else holds it, so what others see of theirs does not change.  *)
LEMMA DropFlightKeeps ==
  ASSUME IInv, NEW c \in Callers, flight[c] # NoFlight, DropFlight(c)
  PROVE  Dropped(c)
<1>1. CASE Unheld(flight[c], Callers \ {c})
  BY <1>1, NoFlightAssumption
  DEF IInv, TypeOK, DropFlight, Dropped, Unheld, Outcomes
<1>2. CASE ~Unheld(flight[c], Callers \ {c})
  BY <1>2, NoFlightAssumption DEF IInv, TypeOK, DropFlight, Dropped
<1>3. QED  BY <1>1, <1>2

-----------------------------------------------------------------------------
(* A step of one caller leaves the other callers' locals alone, may wake   *)
(* them, and changes no generation of a flight they hold.                  *)
Others(c) ==
  \A d \in Callers \ {c} :
    /\ pc'[d] = pc[d] /\ key'[d] = key[d] /\ need'[d] = need[d]
    /\ flight'[d] = flight[d] /\ born'[d] = born[d] /\ token'[d] = token[d]
    /\ woken[d] => woken'[d]
    /\ flight[d] # NoFlight => flight_gen'[flight[d]] = flight_gen[flight[d]]

(* ... nor the outcome of one. *)
OutcomesKept(c) ==
  \A d \in Callers \ {c} : flight[d] # NoFlight =>
    flight_outcome'[flight[d]] = flight_outcome[flight[d]]

(* What is registered, and in which generation, stays as it is. *)
RegistryKept ==
  /\ flights' = flights /\ generations' = generations
  /\ \A k \in Keys : flights[k] # NoFlight =>
       /\ flight_outcome'[flights[k]] = flight_outcome[flights[k]]
       /\ flight_gen'[flights[k]] = flight_gen[flights[k]]

(* The caller leads its flight after the step if and only if it did before. *)
KeepsLead(c) ==
  /\ Leading(c)' <=> Leading(c)
  /\ Leading(c) => /\ flight'[c] = flight[c] /\ key'[c] = key[c]
                   /\ flight_gen'[flight[c]] = flight_gen[flight[c]]

(* What it owes the waiters of its flight it still owes. *)
KeepsDuty(c) ==
  /\ Leading(c) \/ pc[c] = "complete" =>
       (Leading(c)' \/ pc'[c] = "complete") /\ flight'[c] = flight[c]
  /\ pc[c] = "notify" => pc'[c] = "notify" /\ flight'[c] = flight[c]

(* RefreshIsFresh for one caller. *)
FreshOf(c) ==
  /\ token[c] # NoToken => token[c].key = key[c] /\ token[c].born >= need[c]
  /\ Waiting(c) => flight_gen[flight[c]] >= need[c]

(* Leaders and registered flights are as before when nobody gains or loses *)
(* the lead (every step of get_token_for_key but acquire, finish and       *)
(* invalidate).                                                            *)
LEMMA LeadersFrame ==
  ASSUME IInv, NEW c \in Callers, Others(c), KeepsLead(c), RegistryKept
  PROVE  RegisteredIsLive' /\ Leadership'
<1>1. \A d \in Callers : pc'[d] \in {"reload", "fetch", "finish"} <=> Leading(d)
  BY DEF Others, KeepsLead, Leading
<1>2. \A d \in Callers : Leading(d) =>
        /\ flight'[d] = flight[d] /\ key'[d] = key[d]
        /\ flight_gen'[flight[d]] = flight_gen[flight[d]]
  BY DEF IInv, TypeOK, Owing, Others, KeepsLead
<1>3. RegisteredIsLive'
  BY <1>1, <1>2 DEF IInv, RegisteredIsLive, RegistryKept, Leading
<1>4. Leadership'
  BY <1>1, <1>2 DEF IInv, Leadership, RegistryKept, Leading
<1>5. QED  BY <1>3, <1>4

(* Nobody's wakeup is lost by a step of a caller that does not wait after  *)
(* it and keeps its duties (complete and notify are the steps that do not). *)
LEMMA WakeupFrame ==
  ASSUME IInv, NEW c \in Callers, Others(c), OutcomesKept(c), ~Waiting(c)',
         KeepsDuty(c)
  PROVE  WakeupDue'
<1> SUFFICES ASSUME NEW d \in Callers, Waiting(d)'
             PROVE  /\ flight_outcome'[flight'[d]] = "Pending" =>
                         \E e \in Callers :
                           /\ flight'[e] = flight'[d]
                           /\ Leading(e)' \/ pc'[e] = "complete"
                    /\ pc'[d] = "parked" /\ ~woken'[d]
                         /\ flight_outcome'[flight'[d]] # "Pending" =>
                         \E e \in Callers : flight'[e] = flight'[d] /\ pc'[e] = "notify"
  BY DEF WakeupDue, Waiting
<1>1. d # c
  OBVIOUS
<1>2. Waiting(d) /\ flight'[d] = flight[d] /\ pc'[d] = pc[d] /\ (woken[d] => woken'[d])
  BY <1>1 DEF Others, Waiting
<1>3. flight_outcome'[flight'[d]] = flight_outcome[flight[d]]
  BY <1>1, <1>2 DEF IInv, TypeOK, OutcomesKept
<1>4. \A e \in Callers : Leading(e) \/ pc[e] = "complete" =>
        (Leading(e)' \/ pc'[e] = "complete") /\ flight'[e] = flight[e]
  BY DEF Others, KeepsDuty, Leading
<1>5. \A e \in Callers : pc[e] = "notify" => pc'[e] = "notify" /\ flight'[e] = flight[e]
  BY DEF Others, KeepsDuty
<1>6. ASSUME flight_outcome[flight[d]] = "Pending"
      PROVE  \E e \in Callers : /\ flight'[e] = flight'[d]
                                /\ Leading(e)' \/ pc'[e] = "complete"
  BY <1>2, <1>4, <1>6 DEF IInv, WakeupDue
<1>7. ASSUME pc[d] = "parked", ~woken[d], flight_outcome[flight[d]] # "Pending"
      PROVE  \E e \in Callers : flight'[e] = flight'[d] /\ pc'[e] = "notify"
  BY <1>2, <1>5, <1>7 DEF IInv, WakeupDue
<1>8. QED  BY <1>2, <1>3, <1>6, <1>7

(* Generations only grow, so what the other callers need and have stays as *)
(* good as it was.                                                         *)
LEMMA CallFrame ==
  ASSUME IInv, NEW c \in Callers, Others(c),
         \A k \in Keys : generations'[k] \in Nat /\ generations[k] <= generations'[k],
         DemandOf(c)', FreshOf(c)'
  PROVE  Demand' /\ RefreshIsFresh'
<1> SUFFICES ASSUME NEW d \in Callers, d # c
             PROVE  DemandOf(d)' /\ FreshOf(d)'
  BY DEF Demand, RefreshIsFresh, FreshOf
<1>1. /\ pc'[d] = pc[d] /\ key'[d] = key[d] /\ need'[d] = need[d]
      /\ flight'[d] = flight[d] /\ born'[d] = born[d] /\ token'[d] = token[d]
      /\ flight[d] # NoFlight => flight_gen'[flight[d]] = flight_gen[flight[d]]
  BY DEF Others
<1>2. /\ key[d] \in Keys /\ need[d] \in Nat /\ born[d] \in Nat
      /\ generations[key[d]] \in Nat
      /\ pc[d] = "fetch" \/ Waiting(d) => flight[d] # NoFlight
  BY DEF IInv, TypeOK, Owing, Leading
<1>3. DemandOf(d) /\ FreshOf(d)
  BY DEF IInv, Demand, RefreshIsFresh, FreshOf
<1>4. DemandOf(d)'
  BY <1>1, <1>2, <1>3 DEF DemandOf
<1>5. FreshOf(d)'
  BY <1>1, <1>2, <1>3 DEF FreshOf, Waiting
<1>6. QED  BY <1>4, <1>5

(* The caller lets go of its flight and goes back to the loop or returns:   *)
(* the end of complete, of notify and of wait.  It was not leading, so only *)
(* what the waiters of its flight are owed can change.                      *)
LEMMA LetGoInv ==
  ASSUME IInv, NEW c \in Callers, NEW l \in {"load", "returned"},
         pc[c] \notin {"idle"}, ~Leading(c),
         pc' = [pc EXCEPT ![c] = l], Dropped(c),
         ending' \in [Callers -> Endings], woken' \in [Callers -> BOOLEAN],
         \A d \in Callers \ {c} : woken[d] => woken'[d],
         UNCHANGED <<registryVars, key, need, born, token>>,
         WakeupDue'
  PROVE  IInv'
<1> USE NoFlightAssumption
<1>1. TypeOK'
  BY Zenon DEF IInv, TypeOK, registryVars, Dropped, PcValues, Leading, Owing, Waiting
<1>2. Others(c)
  BY DEF IInv, TypeOK, Dropped, Others
<1>3. KeepsLead(c) /\ RegistryKept
  BY DEF IInv, TypeOK, registryVars, Dropped, KeepsLead, RegistryKept, Leading
<1>4. RegisteredIsLive' /\ Leadership'
  BY <1>2, <1>3, LeadersFrame
<1>5. Unregistered'
  BY DEF IInv, TypeOK, registryVars, Dropped, Unregistered
<1>6. DemandOf(c)' /\ FreshOf(c)'
  BY DEF IInv, TypeOK, registryVars, Demand, DemandOf, RefreshIsFresh, FreshOf, Waiting
<1>7. Demand' /\ RefreshIsFresh'
  <2>1. \A k \in Keys : generations'[k] \in Nat /\ generations[k] <= generations'[k]
    BY DEF IInv, TypeOK, registryVars
  <2>2. QED  BY <1>2, <1>6, <2>1, CallFrame
<1>8. CacheIsCurrent'
  BY DEF IInv, registryVars, CacheIsCurrent
<1>9. QED  BY <1>1, <1>4, <1>5, <1>7, <1>8 DEF IInv

-----------------------------------------------------------------------------
(* A new flight is held by nobody else. *)
LEMMA AcquireLeaderInv ==
  ASSUME IInv, NEW c \in Callers, AcquireLeader(c)
  PROVE  IInv'
<1> USE NoTokenAssumption, NoFlightAssumption
<1>1. TypeOK'
  BY DEF IInv, TypeOK, AcquireLeader, Goto, Unheld, PcValues, Leading, Owing, Waiting
<1>2. Others(c)
  BY DEF IInv, TypeOK, AcquireLeader, Goto, Unheld, Others
<1>3. PICK f \in FlightIds :
        /\ Unheld(f, Callers)
        /\ flights' = [flights EXCEPT ![key[c]] = f]
        /\ flight' = [flight EXCEPT ![c] = f]
        /\ flight_outcome' = [flight_outcome EXCEPT ![f] = "Pending"]
        /\ flight_gen' = [flight_gen EXCEPT ![f] = generations[key[c]]]
  BY Zenon DEF AcquireLeader
<1>4. RegisteredIsLive' /\ Leadership'
  <2>1. /\ pc[c] = "acquire" /\ flights[key[c]] = NoFlight
        /\ pc' = [pc EXCEPT ![c] = "reload"]
        /\ UNCHANGED <<key, generations>>
    BY DEF AcquireLeader, Goto
  <2>2. RegisteredIsLive'
    BY <1>3, <2>1 DEF IInv, TypeOK, RegisteredIsLive, Leading, Unheld
  <2>3. \A d \in Callers : Leading(d) /\ key[d] = key[c] =>
          flight_gen[flight[d]] < generations[key[c]]
    <3>1. \A d \in Callers : Leading(d) =>
            /\ flight[d] # NoFlight /\ key[d] \in Keys
            /\ flight_gen[flight[d]] \in Nat /\ generations[key[d]] \in Nat
      BY DEF IInv, TypeOK, Owing
    <3>2. QED  BY <2>1, <3>1 DEF IInv, Leadership
  <2>4. \A d \in Callers \ {c} :
          /\ Leading(d)' <=> Leading(d)
          /\ flight'[d] = flight[d] /\ flight[d] # f
          /\ Leading(d) => flight_gen'[flight[d]] = flight_gen[flight[d]]
    BY <1>3, <2>1 DEF IInv, TypeOK, Leading, Owing, Unheld
  <2>5. /\ flight'[c] = f /\ flight_gen'[f] = generations[key[c]]
        /\ flights'[key[c]] = f /\ key[c] \in Keys /\ generations[key[c]] \in Nat
        /\ \A l \in Keys : flights'[l] # flights[l] => l = key[c]
    BY <1>3 DEF IInv, TypeOK
  <2>6. Leadership'
    BY <2>1, <2>3, <2>4, <2>5 DEF IInv, TypeOK, Leadership, Leading
  <2>7. QED  BY <2>2, <2>6
<1>5. Unregistered'
  BY DEF IInv, TypeOK, AcquireLeader, Goto, Unheld, Unregistered
<1>6. WakeupDue'
  <2>1. OutcomesKept(c) /\ ~Waiting(c)' /\ KeepsDuty(c)
    BY DEF IInv, TypeOK, AcquireLeader, Goto, Unheld, OutcomesKept, Waiting, KeepsDuty, Leading
  <2>2. QED  BY <1>2, <2>1, WakeupFrame
<1>7. DemandOf(c)' /\ FreshOf(c)'
  BY DEF IInv, TypeOK, AcquireLeader, Goto, Unheld, Demand, DemandOf, RefreshIsFresh,
         FreshOf, Waiting
<1>8. Demand' /\ RefreshIsFresh'
  <2>1. \A l \in Keys : generations'[l] \in Nat /\ generations[l] <= generations'[l]
    BY DEF IInv, TypeOK, AcquireLeader, Goto, Unheld
  <2>2. QED  BY <1>2, <1>7, <2>1, CallFrame
<1>9. CacheIsCurrent'
  BY DEF IInv, TypeOK, AcquireLeader, Goto, Unheld, CacheIsCurrent
<1>10. QED  BY <1>1, <1>4, <1>5, <1>6, <1>8, <1>9 DEF IInv

(* The leader's second load, and the request it sends on a miss. *)
LEMMA ReloadInv ==
  ASSUME IInv, NEW c \in Callers, Reload(c)
  PROVE  IInv'
<1> USE NoTokenAssumption, NoFlightAssumption
<1>0. /\ pc[c] = "reload" /\ key[c] \in Keys
      /\ pc' = [pc EXCEPT ![c] = IF Valid(key[c]) THEN "finish" ELSE "fetch"]
      /\ token' = IF Valid(key[c]) THEN [token EXCEPT ![c] = cache[key[c]].token] ELSE token
      /\ cache' = IF Valid(key[c]) THEN cache ELSE [cache EXCEPT ![key[c]] = NoToken]
      /\ born' = IF Valid(key[c]) THEN born ELSE [born EXCEPT ![c] = generations[key[c]]]
      /\ ending' \in {ending, [ending EXCEPT ![c] = "Succeeded"]}
      /\ UNCHANGED <<flights, generations, last_key, flightVars, key, need, flight, woken>>
      /\ Valid(key[c]) => /\ cache[key[c]].token \in Token
                          /\ cache[key[c]].token.key = key[c]
                          /\ cache[key[c]].token.born = generations[key[c]]
  BY ValidIsCurrent DEF IInv, TypeOK, Reload, Goto, Finishing
<1>1. TypeOK'
  BY <1>0 DEF IInv, TypeOK, Goto, flightVars, PcValues, Leading, Owing, Waiting, Endings,
         Outcomes
<1>2. Others(c)
  BY <1>0 DEF IInv, TypeOK, Goto, flightVars, Others
<1>3. KeepsLead(c) /\ RegistryKept
  BY <1>0 DEF IInv, TypeOK, Goto, flightVars, KeepsLead, RegistryKept, Leading
<1>4. RegisteredIsLive' /\ Leadership'
  BY <1>2, <1>3, LeadersFrame
<1>5. Unregistered'
  BY <1>0 DEF IInv, TypeOK, Goto, flightVars, Unregistered
<1>6. WakeupDue'
  <2>1. OutcomesKept(c) /\ ~Waiting(c)' /\ KeepsDuty(c)
    BY <1>0 DEF IInv, TypeOK, Goto, flightVars, OutcomesKept, Waiting, KeepsDuty, Leading
  <2>2. QED  BY <1>2, <2>1, WakeupFrame
<1>7. DemandOf(c)' /\ FreshOf(c)'
  <2>1. /\ key[c] \in Keys /\ generations[key[c]] \in Nat /\ need[c] \in Nat
        /\ flight_gen[flight[c]] \in Nat
        /\ need[c] <= generations[key[c]] /\ flight_gen[flight[c]] <= generations[key[c]]
    BY <1>0, SMTT(30) DEF IInv, TypeOK, Demand, DemandOf, Leadership, Leading, Owing
  <2>2. CASE Valid(key[c])
    <3>1. /\ pc'[c] = "finish" /\ token'[c] = cache[key[c]].token
          /\ need' = need /\ key' = key /\ generations' = generations
      BY <1>0, <2>2 DEF IInv, TypeOK
    <3>2. QED  BY <1>0, <2>1, <2>2, <3>1 DEF DemandOf, FreshOf, Waiting
  <2>3. CASE ~Valid(key[c])
    <3>1. /\ pc'[c] = "fetch" /\ token' = token /\ born'[c] = generations[key[c]]
          /\ need' = need /\ key' = key /\ generations' = generations
          /\ flight_gen' = flight_gen /\ flight' = flight
      BY <1>0, <2>3 DEF IInv, TypeOK, flightVars
    <3>2. QED  BY <1>0, <2>1, <3>1 DEF IInv, DemandOf, RefreshIsFresh, FreshOf, Waiting
  <2>4. QED  BY <2>2, <2>3
<1>8. Demand' /\ RefreshIsFresh'
  <2>1. generations' = generations
    BY Zenon, <1>0
  <2>2. \A l \in Keys : generations'[l] \in Nat /\ generations[l] <= generations'[l]
    BY <2>1, SMTT(30) DEF IInv, TypeOK
  <2>3. QED  BY <1>2, <1>7, <2>2, CallFrame, SMTT(30)
<1>9. CacheIsCurrent'
  BY <1>0, SMTT(30) DEF IInv, TypeOK, Goto, flightVars, CacheIsCurrent
<1>10. QED  BY <1>1, <1>4, <1>5, <1>6, <1>8, <1>9 DEF IInv

(* store_if_current: equal generations mean the request was sent in it. *)
LEMMA FetchOkInv ==
  ASSUME IInv, NEW c \in Callers, FetchOk(c)
  PROVE  IInv'
<1> USE NoTokenAssumption, NoFlightAssumption
<1>0. /\ pc[c] = "fetch" /\ key[c] \in Keys
      /\ [key |-> key[c], born |-> born[c]] \in Token
      /\ pc' = [pc EXCEPT ![c] = "finish"]
      /\ token' = [token EXCEPT ![c] = [key |-> key[c], born |-> born[c]]] \/ token' = token
      /\ born' = [born EXCEPT ![c] = 0]
      /\ \E e \in {"Succeeded", "Cancelled"} : ending' = [ending EXCEPT ![c] = e]
      /\ UNCHANGED <<flights, generations, flightVars, key, need, flight, woken>>
  BY DEF IInv, TypeOK, Token, FetchOk, Goto, Finishing
<1>a. /\ cache' \in [Keys -> CachedToken \cup {NoToken}]
      /\ last_key' \subseteq Keys
      /\ CacheIsCurrent'
  <2>1. CASE generations[key[c]] = flight_gen[flight[c]]
    <3>1. PICK e \in ExpiresIn, d \in Elapsed :
            cache' = [cache EXCEPT ![key[c]] =
              [token |-> [key |-> key[c], born |-> born[c]],
               generation |-> flight_gen[flight[c]], ttl |-> TokenTtl(e, d)]]
      BY <2>1 DEF FetchOk
    <3>2. TokenTtl(e, d) \in Nat
      BY TtlPositive, ClockAssumption, SMTT(30)
    <3>3. generations[key[c]] \in Nat /\ last_key' = {key[c]}
      BY <1>0, <2>1 DEF IInv, TypeOK, FetchOk
    <3>4. born[c] = generations[key[c]]
      BY <1>0, <2>1, SMTT(30) DEF IInv, TypeOK, Demand, DemandOf
    <3>5. cache' \in [Keys -> CachedToken \cup {NoToken}]
      BY <1>0, <2>1, <3>1, <3>2, <3>3, SMTT(30) DEF IInv, TypeOK, CachedToken
    <3>6. CacheIsCurrent'
      BY <1>0, <2>1, <3>1, <3>4, SMTT(30) DEF IInv, TypeOK, CacheIsCurrent
    <3>7. QED  BY <1>0, <3>3, <3>5, <3>6
  <2>2. CASE generations[key[c]] # flight_gen[flight[c]]
    <3>1. cache' = cache /\ last_key' = last_key
      BY <2>2 DEF FetchOk
    <3>2. QED  BY <1>0, <3>1 DEF IInv, TypeOK, CacheIsCurrent
  <2>3. QED  BY <2>1, <2>2
<1>1. TypeOK'
  BY <1>0, <1>a DEF IInv, TypeOK, flightVars, PcValues, Endings, Outcomes, Leading,
         Owing, Waiting
<1>2. Others(c)
  BY <1>0 DEF IInv, TypeOK, Goto, flightVars, Others
<1>3. KeepsLead(c) /\ RegistryKept
  BY <1>0 DEF IInv, TypeOK, Goto, flightVars, KeepsLead, RegistryKept, Leading
<1>4. RegisteredIsLive' /\ Leadership'
  BY <1>2, <1>3, LeadersFrame
<1>5. Unregistered'
  BY <1>0 DEF IInv, TypeOK, Goto, flightVars, Unregistered
<1>6. WakeupDue'
  <2>1. OutcomesKept(c) /\ ~Waiting(c)' /\ KeepsDuty(c)
    BY <1>0, SMTT(30) DEF IInv, TypeOK, Goto, flightVars, OutcomesKept, Waiting, KeepsDuty, Leading
  <2>2. QED  BY <1>2, <2>1, WakeupFrame
<1>7. DemandOf(c)' /\ FreshOf(c)'
  BY <1>0 DEF IInv, TypeOK, Goto, flightVars, Demand, DemandOf, RefreshIsFresh, FreshOf, Waiting
<1>8. Demand' /\ RefreshIsFresh'
  <2>1. generations' = generations
    BY <1>0, Zenon
  <2>2. \A l \in Keys : generations'[l] \in Nat /\ generations[l] <= generations'[l]
    BY <2>1 DEF IInv, TypeOK
  <2>3. QED  BY <1>2, <1>7, <2>2, CallFrame
<1>9. CacheIsCurrent'
  BY <1>a
<1>10. QED  BY <1>1, <1>4, <1>5, <1>6, <1>8, <1>9 DEF IInv

(* A failed fetch still leads its flight until finish. *)
LEMMA FetchErrInv ==
  ASSUME IInv, NEW c \in Callers, FetchErr(c)
  PROVE  IInv'
<1> USE NoTokenAssumption, NoFlightAssumption
<1>1. TypeOK'
  BY DEF IInv, TypeOK, FetchErr, Goto, registryVars, flightVars, Finishing, PcValues,
         Leading, Owing, Waiting, Endings, Outcomes
<1>2. Others(c)
  BY DEF IInv, TypeOK, FetchErr, Goto, registryVars, flightVars, Finishing, Others
<1>3. KeepsLead(c) /\ RegistryKept
  BY DEF IInv, TypeOK, FetchErr, Goto, registryVars, flightVars, Finishing, KeepsLead,
         RegistryKept, Leading
<1>4. RegisteredIsLive' /\ Leadership'
  BY <1>2, <1>3, LeadersFrame
<1>5. Unregistered'
  BY DEF IInv, TypeOK, FetchErr, Goto, registryVars, flightVars, Finishing, Unregistered
<1>6. WakeupDue'
  <2>1. OutcomesKept(c) /\ ~Waiting(c)' /\ KeepsDuty(c)
    BY DEF IInv, TypeOK, FetchErr, Goto, registryVars, flightVars, Finishing,
           OutcomesKept, Waiting, KeepsDuty, Leading
  <2>2. QED  BY <1>2, <2>1, WakeupFrame
<1>7. DemandOf(c)' /\ FreshOf(c)'
  BY DEF IInv, TypeOK, FetchErr, Goto, registryVars, flightVars, Finishing, Demand,
         DemandOf, RefreshIsFresh, FreshOf, Waiting
<1>8. Demand' /\ RefreshIsFresh'
  <2>1. \A l \in Keys : generations'[l] \in Nat /\ generations[l] <= generations'[l]
    BY DEF IInv, TypeOK, FetchErr, Goto, registryVars, flightVars, Finishing
  <2>2. QED  BY <1>2, <1>7, <2>1, CallFrame
<1>9. CacheIsCurrent'
  BY DEF IInv, TypeOK, FetchErr, Goto, registryVars, flightVars, Finishing, CacheIsCurrent
<1>10. QED  BY <1>1, <1>4, <1>5, <1>6, <1>8, <1>9 DEF IInv

(* So does an aborted one, whose guard is being dropped. *)
LEMMA LeaderAbortInv ==
  ASSUME IInv, NEW c \in Callers, LeaderAbort(c)
  PROVE  IInv'
<1> USE NoTokenAssumption, NoFlightAssumption
<1>1. TypeOK'
  BY DEF IInv, TypeOK, LeaderAbort, Goto, registryVars, flightVars, Finishing, PcValues,
         Leading, Owing, Waiting, Endings, Outcomes
<1>2. Others(c)
  BY DEF IInv, TypeOK, LeaderAbort, Goto, registryVars, flightVars, Finishing, Others
<1>3. KeepsLead(c) /\ RegistryKept
  BY DEF IInv, TypeOK, LeaderAbort, Goto, registryVars, flightVars, Finishing, KeepsLead,
         RegistryKept, Leading
<1>4. RegisteredIsLive' /\ Leadership'
  BY <1>2, <1>3, LeadersFrame
<1>5. Unregistered'
  BY DEF IInv, TypeOK, LeaderAbort, Goto, registryVars, flightVars, Finishing, Unregistered
<1>6. WakeupDue'
  <2>1. OutcomesKept(c) /\ ~Waiting(c)' /\ KeepsDuty(c)
    BY DEF IInv, TypeOK, LeaderAbort, Goto, registryVars, flightVars, Finishing,
           OutcomesKept, Waiting, KeepsDuty, Leading
  <2>2. QED  BY <1>2, <2>1, WakeupFrame
<1>7. DemandOf(c)' /\ FreshOf(c)'
  BY DEF IInv, TypeOK, LeaderAbort, Goto, registryVars, flightVars, Finishing, Demand,
         DemandOf, RefreshIsFresh, FreshOf, Waiting
<1>8. Demand' /\ RefreshIsFresh'
  <2>1. \A l \in Keys : generations'[l] \in Nat /\ generations[l] <= generations'[l]
    BY DEF IInv, TypeOK, LeaderAbort, Goto, registryVars, flightVars, Finishing
  <2>2. QED  BY <1>2, <1>7, <2>1, CallFrame
<1>9. CacheIsCurrent'
  BY DEF IInv, TypeOK, LeaderAbort, Goto, registryVars, flightVars, Finishing, CacheIsCurrent
<1>10. QED  BY <1>1, <1>4, <1>5, <1>6, <1>8, <1>9 DEF IInv

(* finish: the registered flight is removed by its own leader only. *)
LEMMA FinishInv ==
  ASSUME IInv, NEW c \in Callers, Finish(c)
  PROVE  IInv'
<1> USE NoTokenAssumption, NoFlightAssumption
<1>1. TypeOK'
  BY DEF IInv, TypeOK, Finish, Goto, flightVars, callVars, PcValues, Leading, Owing, Waiting
<1>2. Others(c)
  BY DEF IInv, TypeOK, Finish, Goto, flightVars, callVars, Others
<1>3. /\ pc[c] = "finish" /\ pc' = [pc EXCEPT ![c] = "complete"]
      /\ \A l \in Keys : flights'[l] # flights[l] => flights[l] = flight[c] /\ flights'[l] = NoFlight
      /\ \A l \in Keys : flights'[l] # flight[c]
      /\ UNCHANGED <<generations, flightVars, key, flight>>
  <2>1. \A l \in Keys : flights[l] = flight[c] => l = key[c]
    BY DEF IInv, TypeOK, Finish, RegisteredIsLive, Leadership, Leading, Owing
  <2>2. flight[c] # NoFlight /\ key[c] \in Keys
    BY DEF IInv, TypeOK, Finish, Owing, Leading
  <2>3. flights[key[c]] = flight[c] => generations[key[c]] = flight_gen[flight[c]]
    BY <2>2 DEF IInv, RegisteredIsLive
  <2>4. QED
    BY <2>1, <2>2, <2>3 DEF IInv, TypeOK, Finish, Goto, callVars
<1>4. RegisteredIsLive' /\ Leadership'
  <2>1. \A d \in Callers : Leading(d)' <=> Leading(d) /\ d # c
    BY <1>3, SMTT(30) DEF IInv, TypeOK, Leading
  <2>2. \A d \in Callers \ {c} : Leading(d) => flight[d] # flight[c] /\ key[d] \in Keys
    BY <1>3 DEF IInv, TypeOK, Leadership, Leading
  <2>3. /\ generations' = generations /\ key' = key /\ flight' = flight
        /\ flight_outcome' = flight_outcome /\ flight_gen' = flight_gen
    BY <1>3 DEF flightVars
  <2>4. RegisteredIsLive'
    <3> SUFFICES ASSUME NEW l \in Keys, flights'[l] # NoFlight
                 PROVE  /\ flight_outcome[flights[l]] = "Pending"
                        /\ flight_gen[flights[l]] = generations[l]
                        /\ flights'[l] = flights[l]
                        /\ \E d \in Callers : Leading(d)' /\ flight[d] = flights[l] /\ key[d] = l
      BY <2>3 DEF RegisteredIsLive
    <3>1. flights'[l] = flights[l] /\ flights[l] # flight[c]
      BY <1>3
    <3>2. QED  BY <2>1, <3>1 DEF IInv, RegisteredIsLive
  <2>5. \A d \in Callers : Leading(d)' /\ flights[key[d]] = flight[d] => flights'[key[d]] = flight[d]
    BY <1>3, <2>1, <2>2
  <2>6. Leadership'
    BY <2>1, <2>3, <2>5 DEF IInv, Leadership
  <2>7. QED  BY <2>4, <2>6
<1>5. Unregistered'
  <2>1. \A d \in Callers : pc'[d] \in {"complete", "notify"} =>
          d = c \/ (pc[d] \in {"complete", "notify"} /\ flight[d] # NoFlight)
    <3>1. \A d \in Callers : pc'[d] = IF d = c THEN "complete" ELSE pc[d]
      BY <1>3, SMTT(30) DEF IInv, TypeOK
    <3>2. QED  BY <3>1 DEF IInv, TypeOK, Owing
  <2>2. flight' = flight
    BY Zenon, <1>3
  <2>3. QED  BY <1>3, <2>1, <2>2 DEF IInv, Unregistered
<1>6. WakeupDue'
  <2>1. OutcomesKept(c) /\ ~Waiting(c)' /\ KeepsDuty(c)
    BY DEF IInv, TypeOK, Finish, Goto, flightVars, callVars, OutcomesKept, Waiting,
           KeepsDuty, Leading
  <2>2. QED  BY <1>2, <2>1, WakeupFrame
<1>7. DemandOf(c)' /\ FreshOf(c)'
  BY DEF IInv, TypeOK, Finish, Goto, flightVars, callVars, Demand, DemandOf,
         RefreshIsFresh, FreshOf, Waiting
<1>8. Demand' /\ RefreshIsFresh'
  <2>1. \A l \in Keys : generations'[l] \in Nat /\ generations[l] <= generations'[l]
    BY SMTT(30) DEF IInv, TypeOK, Finish, Goto, flightVars, callVars
  <2>2. QED  BY <1>2, <1>7, <2>1, CallFrame
<1>9. CacheIsCurrent'
  BY DEF IInv, TypeOK, Finish, Goto, flightVars, callVars, CacheIsCurrent
<1>10. QED  BY <1>1, <1>4, <1>5, <1>6, <1>8, <1>9 DEF IInv

(* complete: the flight is not registered, and the caller now owes notify. *)
LEMMA CompleteInv ==
  ASSUME IInv, NEW c \in Callers, Complete(c)
  PROVE  IInv'
<1>1. flight[c] # NoFlight
  BY DEF IInv, TypeOK, Complete, Owing
<1>2. CASE flight_outcome[flight[c]] = "Pending"
  <2>0. /\ pc[c] = "complete" /\ pc' = [pc EXCEPT ![c] = "notify"]
        /\ flight[c] \in FlightIds /\ OutcomeOf(ending[c]) \in Outcomes
        /\ flight_outcome' = [flight_outcome EXCEPT ![flight[c]] = OutcomeOf(ending[c])]
        /\ UNCHANGED <<registryVars, flight_gen, key, need, flight, born, ending, woken, token>>
    BY <1>1, <1>2 DEF IInv, TypeOK, Complete, Goto, OutcomeOf, Endings, Outcomes
  <2>1. TypeOK'
    BY <2>0 DEF IInv, TypeOK, registryVars, PcValues, Leading, Owing, Waiting
  <2>2. Others(c)
    BY <2>0 DEF IInv, TypeOK, Others
  <2>3. KeepsLead(c) /\ RegistryKept
    BY <2>0 DEF IInv, TypeOK, registryVars, KeepsLead, RegistryKept, Leading, Unregistered
  <2>4. RegisteredIsLive' /\ Leadership'
    BY <2>2, <2>3, LeadersFrame
  <2>5. Unregistered'
    BY <2>0 DEF IInv, TypeOK, registryVars, Unregistered
  <2>6. WakeupDue'
    <3>1. OutcomeOf(ending[c]) # "Pending"
      BY <2>0 DEF Outcomes
    <3>2. QED
      BY <2>0, <3>1 DEF IInv, TypeOK, WakeupDue, Waiting, Leading
  <2>7. DemandOf(c)' /\ FreshOf(c)'
    BY <2>0, SMTT(30) DEF IInv, TypeOK, registryVars, Demand, DemandOf, RefreshIsFresh, FreshOf, Waiting
  <2>8. Demand' /\ RefreshIsFresh'
    <3>1. \A l \in Keys : generations'[l] \in Nat /\ generations[l] <= generations'[l]
      BY <2>0 DEF IInv, TypeOK, registryVars
    <3>2. QED  BY <2>2, <2>7, <3>1, CallFrame
  <2>9. CacheIsCurrent'
    BY <2>0 DEF IInv, registryVars, CacheIsCurrent
  <2>10. QED  BY <2>1, <2>4, <2>5, <2>6, <2>8, <2>9 DEF IInv
<1>3. CASE flight_outcome[flight[c]] # "Pending"
  <2>1. /\ pc[c] = "complete" /\ pc' = [pc EXCEPT ![c] = AfterEnding(ending[c])]
        /\ ending' = [ending EXCEPT ![c] = "Cancelled"]
        /\ UNCHANGED <<registryVars, key, need, born, woken, token>>
        /\ Dropped(c)
    BY <1>1, <1>3, DropFlightKeeps DEF Complete, Ended, Goto
  <2>2. AfterEnding(ending[c]) \in {"load", "returned"} /\ ~Leading(c)
    BY <2>1 DEF AfterEnding, Leading
  <2>3. ending' \in [Callers -> Endings] /\ woken' \in [Callers -> BOOLEAN]
    BY <2>1 DEF IInv, TypeOK, Endings, Outcomes
  <2>4. WakeupDue'
    BY <1>3, <2>1, <2>2, NoFlightAssumption DEF IInv, TypeOK, WakeupDue, Dropped,
           Waiting, Leading
  <2>5. QED  BY <2>1, <2>2, <2>3, <2>4, LetGoInv, Zenon
<1>4. QED  BY <1>2, <1>3

(* notify: every sleeping waiter of the flight is woken. *)
LEMMA NotifyInv ==
  ASSUME IInv, NEW c \in Callers, Notify(c)
  PROVE  IInv'
<1>1. flight[c] # NoFlight
  BY DEF IInv, TypeOK, Notify, Owing
<1>2. /\ pc[c] = "notify" /\ pc' = [pc EXCEPT ![c] = AfterEnding(ending[c])]
      /\ woken' = [d \in Callers |->
                     \/ woken[d]
                     \/ pc[d] \in {"check", "parked"} /\ flight[d] = flight[c]]
      /\ ending' = [ending EXCEPT ![c] = "Cancelled"]
      /\ UNCHANGED <<registryVars, key, need, born, token>>
      /\ Dropped(c)
  BY Zenon, <1>1, DropFlightKeeps DEF Notify, Ended, Goto
<1>3. AfterEnding(ending[c]) \in {"load", "returned"} /\ ~Leading(c)
  BY <1>2 DEF AfterEnding, Leading
<1>4. /\ ending' \in [Callers -> Endings] /\ woken' \in [Callers -> BOOLEAN]
      /\ \A d \in Callers : woken[d] => woken'[d]
  BY <1>2 DEF IInv, TypeOK, Endings, Outcomes
<1>5. \A d \in Callers : pc[d] = "parked" /\ flight[d] = flight[c] => woken'[d]
  BY <1>2
<1>6. WakeupDue'
  <2>1. ~Waiting(c)' /\ pc'[c] # "parked"
    BY <1>2, <1>3 DEF IInv, TypeOK, Waiting
  <2>2. \A d \in Callers \ {c} :
          pc'[d] = pc[d] /\ flight'[d] = flight[d] /\ (Waiting(d)' <=> Waiting(d))
    BY <1>2 DEF IInv, TypeOK, Dropped, Waiting
  <2>3. \A d \in Callers \ {c} : Waiting(d) =>
          flight_outcome'[flight[d]] = flight_outcome[flight[d]]
    BY <1>2, NoFlightAssumption DEF IInv, TypeOK, Dropped
  <2>4. \A d \in Callers : Leading(d) \/ pc[d] = "complete" =>
          d # c /\ (Leading(d)' \/ pc'[d] = "complete")
    BY <1>2, <1>3 DEF IInv, TypeOK, Leading
  <2>5. \A d \in Callers : pc[d] = "parked" => Waiting(d)
    BY DEF Waiting
  <2>6. QED
    BY <1>4, <1>5, <2>1, <2>2, <2>3, <2>4, <2>5 DEF IInv, WakeupDue
<1>7. QED  BY <1>2, <1>3, <1>4, <1>6, LetGoInv, Zenon
=============================================================================
