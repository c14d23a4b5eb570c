----------------------------- MODULE TokenFlight -----------------------------
(***************************************************************************)
(* The registry-token cache with generational single-flight of             *)
(* crates/nixcache-oci/src/token.rs and token/sync.rs.  Callers ask for    *)
(* the token of a challenge key (realm, service, scope), or refresh it     *)
(* after a 401.  One caller, the leader, fetches from the network; callers *)
(* that arrive meanwhile wait for its flight and then read the cache       *)
(* again.  A refresh advances the key's generation, which orphans the      *)
(* flight and the token of every older one.                                *)
(*                                                                         *)
(* One step is one critical section of RegistryState's or Flight's mutex,  *)
(* or one await; callers interleave between them.  Time is relative: a     *)
(* cache entry holds expires_at - now, which Tick counts down.             *)
(***************************************************************************)
EXTENDS Naturals

CONSTANTS
  Callers,       \* tasks that share one TokenManager
  Keys,          \* challenge keys
  FlightIds,     \* identities of Arc<Flight>
  NoFlight,      \* no flight registered or held
  NoToken,       \* Option::None of a token or a cache entry
  Skew,          \* seconds taken off a token's lifetime (30 in the code)
  ExpiresIn,     \* values of expires_in the token service may answer
  Elapsed,       \* seconds since issued_at when the answer arrives
  MaxGeneration  \* bound: the last generation a refresh may open

Token == [key : Keys, born : Nat]
CachedToken == [token : Token, generation : Nat, ttl : Nat]

ASSUME NoFlightAssumption == NoFlight \notin FlightIds
ASSUME NoTokenAssumption == NoToken \notin Token /\ NoToken \notin CachedToken
ASSUME ClockAssumption ==
  Skew \in Nat /\ ExpiresIn \subseteq Nat /\ Elapsed \subseteq Nat

VARIABLES
  cache,          \* RegistryState.cache
  flights,        \* RegistryState.flights
  generations,    \* RegistryState.generations
  last_key,       \* RegistryState.last_key, a set of at most one key
  flight_outcome, \* FlightState.outcome, "Pending" for None
  flight_gen,     \* LeaderGuard.generation of the flight's one leader
  pc,             \* where each caller is in get_token_for_key
  key,            \* the key it asks for
  need,           \* history: the generation it must be served from at least
  flight,         \* the flight it leads, waits for or has orphaned
  born,           \* history: the generation its network request was sent in
  ending,         \* how it is about to complete its flight
  woken,          \* whether notify_waiters reached its Notified future
  token           \* the token it returns, NoToken for an error

registryVars == <<cache, flights, generations, last_key>>
flightVars == <<flight_outcome, flight_gen>>
callVars == <<key, need, flight, born, ending, woken, token>>
vars == <<registryVars, flightVars, pc, callVars>>

Outcomes == {"Succeeded", "Failed", "Cancelled"}

(* A leader ends its flight by LeaderGuard::finish with an outcome, or by  *)
(* being "Dropped"; a refresh ends the flight it orphaned with Cancelled.  *)
Endings == Outcomes \cup {"Dropped"}
OutcomeOf(e) == IF e = "Dropped" THEN "Cancelled" ELSE e
AfterEnding(e) == IF e = "Cancelled" THEN "load" ELSE "returned"

PcValues == {"idle", "load", "acquire", "reload", "fetch", "finish",
             "complete", "notify", "wait", "check", "parked", "returned"}

Least(a, b) == IF a <= b THEN a ELSE b
Greatest(a, b) == IF a <= b THEN b ELSE a
SaturatingSub(a, b) == IF a <= b THEN 0 ELSE a - b

(* Seconds a fetched token is cached: its remaining lifetime minus a skew. *)
TokenTtl(expires_in, elapsed) ==
  LET lifetime == Greatest(SaturatingSub(Greatest(expires_in, 1), elapsed), 1)
  IN  Greatest(SaturatingSub(lifetime, Least(lifetime, Skew)), 1)

Init ==
  /\ cache = [k \in Keys |-> NoToken]
  /\ flights = [k \in Keys |-> NoFlight]
  /\ generations = [k \in Keys |-> 0]
  /\ last_key = {}
  /\ flight_outcome = [f \in FlightIds |-> "Pending"]
  /\ flight_gen = [f \in FlightIds |-> 0]
  /\ pc = [c \in Callers |-> "idle"]
  /\ key \in [Callers -> Keys]
  /\ need = [c \in Callers |-> 0]
  /\ flight = [c \in Callers |-> NoFlight]
  /\ born = [c \in Callers |-> 0]
  /\ ending = [c \in Callers |-> "Cancelled"]
  /\ woken = [c \in Callers |-> FALSE]
  /\ token = [c \in Callers |-> NoToken]

Goto(c, l) == pc' = [pc EXCEPT ![c] = l]

(* RegistryState::load's test of the entry it finds. *)
Valid(k) ==
  /\ cache[k] # NoToken
  /\ cache[k].generation = generations[k]
  /\ cache[k].ttl > 0

(* get_token_for_challenge: a call that any generation may serve. *)
StartGet(c, k) ==
  /\ pc[c] = "idle"
  /\ Goto(c, "load")
  /\ key' = [key EXCEPT ![c] = k]
  /\ UNCHANGED <<registryVars, flightVars, need, flight, born, ending, woken,
                 token>>

(* Mutant: invalidate does not advance the generation. *)
RefreshKeepsGeneration(c, k) ==
  /\ pc[c] = "idle"
  /\ cache' = [cache EXCEPT ![k] = NoToken]
  /\ flights' = [flights EXCEPT ![k] = NoFlight]
  /\ key' = [key EXCEPT ![c] = k]
  /\ need' = [need EXCEPT ![c] = generations[k] + 1]
  /\ flight' = [flight EXCEPT ![c] = flights[k]]
  /\ ending' = [ending EXCEPT ![c] = "Cancelled"]
  /\ Goto(c, IF flights[k] = NoFlight THEN "load" ELSE "complete")
  /\ UNCHANGED <<generations, last_key, flightVars, born, woken, token>>

(* refresh_token: FlightRegistry::invalidate under the registry lock.  The *)
(* flight it unregisters is completed after the lock is released.          *)
StartRefresh(c, k) ==
  /\ pc[c] = "idle"
  /\ generations[k] < MaxGeneration
  /\ generations' = [generations EXCEPT ![k] = @ + 1]
  /\ cache' = [cache EXCEPT ![k] = NoToken]
  /\ flights' = [flights EXCEPT ![k] = NoFlight]
  /\ key' = [key EXCEPT ![c] = k]
  /\ need' = [need EXCEPT ![c] = generations[k] + 1]
  /\ flight' = [flight EXCEPT ![c] = flights[k]]
  /\ ending' = [ending EXCEPT ![c] = "Cancelled"]
  /\ Goto(c, IF flights[k] = NoFlight THEN "load" ELSE "complete")
  /\ UNCHANGED <<last_key, flightVars, born, woken, token>>

(* The loop's first load: a hit returns the cached token. *)
Load(c) ==
  LET k == key[c] IN
  /\ pc[c] = "load"
  /\ \/ /\ Valid(k)
        /\ token' = [token EXCEPT ![c] = cache[k].token]
        /\ Goto(c, "returned")
        /\ UNCHANGED cache
     \/ /\ ~Valid(k)
        /\ cache' = [cache EXCEPT ![k] = NoToken]
        /\ Goto(c, "acquire")
        /\ UNCHANGED token
  /\ UNCHANGED <<flights, generations, last_key, flightVars, key, need,
                 flight, born, ending, woken>>

(* FlightRegistry::acquire: join the registered flight as a waiter ... *)
AcquireWaiter(c) ==
  /\ pc[c] = "acquire"
  /\ flights[key[c]] # NoFlight
  /\ flight' = [flight EXCEPT ![c] = flights[key[c]]]
  /\ Goto(c, "wait")
  /\ UNCHANGED <<registryVars, flightVars, key, need, born, ending, woken,
                 token>>

(* Nobody in C and no key holds an Arc of the flight. *)
Unheld(f, C) ==
  /\ \A d \in C : flight[d] # f
  /\ \A k \in Keys : flights[k] # f

(* ... or register a new one and lead it. *)
AcquireLeader(c) ==
  /\ pc[c] = "acquire"
  /\ flights[key[c]] = NoFlight
  /\ \E f \in FlightIds :
       /\ Unheld(f, Callers)
       /\ flights' = [flights EXCEPT ![key[c]] = f]
       /\ flight' = [flight EXCEPT ![c] = f]
       /\ flight_outcome' = [flight_outcome EXCEPT ![f] = "Pending"]
       /\ flight_gen' = [flight_gen EXCEPT ![f] = generations[key[c]]]
  /\ Goto(c, "reload")
  /\ UNCHANGED <<cache, generations, last_key, key, need, born, ending, woken,
                 token>>

(* The leader's part is decided and LeaderGuard::finish or Drop follows. *)
Finishing(c, e) ==
  /\ Goto(c, "finish")
  /\ ending' = [ending EXCEPT ![c] = e]

(* The leader's second load; on a miss it sends the token request. *)
Reload(c) ==
  LET k == key[c] IN
  /\ pc[c] = "reload"
  /\ \/ /\ Valid(k)
        /\ token' = [token EXCEPT ![c] = cache[k].token]
        /\ Finishing(c, "Succeeded")
        /\ UNCHANGED <<cache, born>>
     \/ /\ ~Valid(k)
        /\ cache' = [cache EXCEPT ![k] = NoToken]
        /\ born' = [born EXCEPT ![c] = generations[k]]
        /\ Goto(c, "fetch")
        /\ UNCHANGED <<ending, token>>
  /\ UNCHANGED <<flights, generations, last_key, flightVars, key, need,
                 flight, woken>>

(* Mutant: the answer is stored without comparing generations. *)
FetchStoresAlways(c) ==
  LET k == key[c]
      t == [key |-> k, born |-> born[c]]
  IN
  /\ pc[c] = "fetch"
  /\ \E e \in ExpiresIn, d \in Elapsed :
       cache' = [cache EXCEPT ![k] = [token |-> t, generation |-> generations[k],
                                      ttl |-> TokenTtl(e, d)]]
  /\ last_key' = {k}
  /\ token' = [token EXCEPT ![c] = t]
  /\ Finishing(c, "Succeeded")
  /\ born' = [born EXCEPT ![c] = 0]
  /\ UNCHANGED <<flights, generations, flightVars, key, need, flight, woken>>

(* The token service answers: store_if_current, under the registry lock. *)
FetchOk(c) ==
  LET k == key[c]
      t == [key |-> k, born |-> born[c]]
      g == flight_gen[flight[c]]
  IN
  /\ pc[c] = "fetch"
  /\ \/ /\ generations[k] = g
        /\ \E e \in ExpiresIn, d \in Elapsed :
             cache' = [cache EXCEPT ![k] =
               [token |-> t, generation |-> g, ttl |-> TokenTtl(e, d)]]
        /\ last_key' = {k}
        /\ token' = [token EXCEPT ![c] = t]
        /\ Finishing(c, "Succeeded")
     \/ /\ generations[k] # g
        /\ Finishing(c, "Cancelled")
        /\ UNCHANGED <<cache, last_key, token>>
  /\ born' = [born EXCEPT ![c] = 0]
  /\ UNCHANGED <<flights, generations, flightVars, key, need, flight, woken>>

(* Transport error, HTTP error status or an unusable body. *)
FetchErr(c) ==
  /\ pc[c] = "fetch"
  /\ Finishing(c, "Failed")
  /\ born' = [born EXCEPT ![c] = 0]
  /\ UNCHANGED <<registryVars, flightVars, key, need, flight, woken, token>>

(* Mutant: LeaderGuard has no Drop. *)
LeaderLeak(c) ==
  /\ pc[c] = "fetch"
  /\ Goto(c, "returned")
  /\ flight' = [flight EXCEPT ![c] = NoFlight]
  /\ born' = [born EXCEPT ![c] = 0]
  /\ UNCHANGED <<registryVars, flightVars, key, need, ending, woken, token>>

(* The leading task is aborted or panics: LeaderGuard is dropped. *)
LeaderAbort(c) ==
  /\ pc[c] = "fetch"
  /\ Finishing(c, "Dropped")
  /\ born' = [born EXCEPT ![c] = 0]
  /\ UNCHANGED <<registryVars, flightVars, key, need, flight, woken, token>>

(* Mutant: finish removes whatever flight its key has. *)
FinishAnyFlight(c) ==
  /\ pc[c] = "finish"
  /\ flights' = [flights EXCEPT ![key[c]] = NoFlight]
  /\ Goto(c, "complete")
  /\ UNCHANGED <<cache, generations, last_key, flightVars, callVars>>

(* FlightRegistry::finish under the registry lock: unregister the flight,  *)
(* unless a refresh did so already.                                        *)
Finish(c) ==
  LET k == key[c] IN
  /\ pc[c] = "finish"
  /\ flights' = IF /\ flights[k] = flight[c]
                   /\ generations[k] = flight_gen[flight[c]]
                THEN [flights EXCEPT ![k] = NoFlight]
                ELSE flights
  /\ Goto(c, "complete")
  /\ UNCHANGED <<cache, generations, last_key, flightVars, callVars>>

(* The caller drops its Arc; the last one frees the flight. *)
DropFlight(c) ==
  LET f == flight[c]
      last == Unheld(f, Callers \ {c})
  IN
  /\ flight' = [flight EXCEPT ![c] = NoFlight]
  /\ flight_outcome' = IF last THEN [flight_outcome EXCEPT ![f] = "Pending"]
                               ELSE flight_outcome
  /\ flight_gen' = IF last THEN [flight_gen EXCEPT ![f] = 0] ELSE flight_gen

(* The flight is over for the caller that completed it. *)
Ended(c) ==
  /\ DropFlight(c)
  /\ ending' = [ending EXCEPT ![c] = "Cancelled"]
  /\ Goto(c, AfterEnding(ending[c]))

(* Flight::complete under the flight's lock: the first outcome stays. *)
Complete(c) ==
  LET f == flight[c] IN
  /\ pc[c] = "complete"
  /\ \/ /\ flight_outcome[f] = "Pending"
        /\ flight_outcome' = [flight_outcome EXCEPT ![f] = OutcomeOf(ending[c])]
        /\ Goto(c, "notify")
        /\ UNCHANGED <<flight_gen, flight, ending>>
     \/ /\ flight_outcome[f] # "Pending"
        /\ Ended(c)
  /\ UNCHANGED <<registryVars, key, need, born, woken, token>>

(* Mutant: notify_one instead of notify_waiters. *)
NotifyOne(c) ==
  /\ pc[c] = "notify"
  /\ LET W == {d \in Callers :
                 pc[d] \in {"check", "parked"} /\ flight[d] = flight[c]}
     IN  \/ W = {} /\ UNCHANGED woken
         \/ \E d \in W : woken' = [woken EXCEPT ![d] = TRUE]
  /\ Ended(c)
  /\ UNCHANGED <<registryVars, key, need, born, token>>

(* notify_waiters, after the flight's lock is released: it reaches the     *)
(* Notified futures that exist at this moment.                             *)
Notify(c) ==
  /\ pc[c] = "notify"
  /\ woken' = [d \in Callers |->
                 \/ woken[d]
                 \/ pc[d] \in {"check", "parked"} /\ flight[d] = flight[c]]
  /\ Ended(c)
  /\ UNCHANGED <<registryVars, key, need, born, token>>

(* Flight::wait creates and enables its Notified future ... *)
Wait(c) ==
  /\ pc[c] = "wait"
  /\ Goto(c, "check")
  /\ UNCHANGED <<registryVars, flightVars, callVars>>

(* A completed flight sends its waiter back to the loop or fails the call; *)
(* the Notified future is dropped.                                         *)
Answer(c, o) ==
  /\ Goto(c, IF o = "Failed" THEN "returned" ELSE "load")
  /\ DropFlight(c)
  /\ woken' = [woken EXCEPT ![c] = FALSE]

(* ... and only then looks at the outcome. *)
Check(c) ==
  LET o == flight_outcome[flight[c]] IN
  /\ pc[c] = "check"
  /\ \/ /\ o # "Pending"
        /\ Answer(c, o)
     \/ /\ o = "Pending"
        /\ Goto(c, "parked")
        /\ UNCHANGED <<flightVars, flight, woken>>
  /\ UNCHANGED <<registryVars, key, need, born, ending, token>>

(* The Notified future is ready; an outcome still unset counts as Cancelled. *)
Wake(c) ==
  /\ pc[c] = "parked"
  /\ woken[c]
  /\ Answer(c, flight_outcome[flight[c]])
  /\ UNCHANGED <<registryVars, key, need, born, ending, token>>

(* The waiting task times out or is cancelled. *)
WaiterAbort(c) ==
  /\ pc[c] = "parked"
  /\ Answer(c, "Failed")
  /\ UNCHANGED <<registryVars, key, need, born, ending, token>>

(* The call's result, a token or an error, is taken by whoever made it. *)
TakeResult(c) ==
  /\ pc[c] = "returned"
  /\ Goto(c, "idle")
  /\ need' = [need EXCEPT ![c] = 0]
  /\ token' = [token EXCEPT ![c] = NoToken]
  /\ UNCHANGED <<registryVars, flightVars, key, flight, born, ending, woken>>

(* FlightRegistry::load_last, which request headers are built from. *)
LoadLast ==
  /\ \E k \in last_key :
       /\ ~Valid(k)
       /\ cache' = [cache EXCEPT ![k] = NoToken]
  /\ UNCHANGED <<flights, generations, last_key, flightVars, pc, callVars>>

(* One second passes. *)
Tick ==
  /\ cache' = [k \in Keys |->
                 IF cache[k] = NoToken THEN NoToken
                 ELSE [cache[k] EXCEPT !.ttl = SaturatingSub(@, 1)]]
  /\ UNCHANGED <<flights, generations, last_key, flightVars, pc, callVars>>

(* What a scheduled task does by itself, the network's answer included. *)
Progress(c) ==
  \/ Load(c) \/ AcquireWaiter(c) \/ AcquireLeader(c) \/ Reload(c)
  \/ FetchOk(c) \/ FetchErr(c) \/ Finish(c) \/ Complete(c) \/ Notify(c)
  \/ Wait(c) \/ Check(c) \/ Wake(c)

Start(c) == \E k \in Keys : StartGet(c, k) \/ StartRefresh(c, k)

Next ==
  \/ \E c \in Callers :
       \/ Start(c) \/ Progress(c) \/ TakeResult(c)
       \/ LeaderAbort(c) \/ WaiterAbort(c)
  \/ LoadLast
  \/ Tick

Spec == Init /\ [][Next]_vars

(***************************************************************************)
(* Properties                                                              *)
(***************************************************************************)

(* Callers that hold a LeaderGuard not finished yet, and callers that      *)
(* still owe their flight a completion or its waiters a notification.      *)
Leading(c) == pc[c] \in {"reload", "fetch", "finish"}
Owing(c) == Leading(c) \/ pc[c] \in {"complete", "notify"}
Waiting(c) == pc[c] \in {"wait", "check", "parked"}

(* Every variable has its type; a caller that leads, waits or owes holds a *)
(* flight.                                                                 *)
TypeOK ==
  /\ cache \in [Keys -> CachedToken \cup {NoToken}]
  /\ flights \in [Keys -> FlightIds \cup {NoFlight}]
  /\ generations \in [Keys -> Nat]
  /\ last_key \subseteq Keys
  /\ flight_outcome \in [FlightIds -> Outcomes \cup {"Pending"}]
  /\ flight_gen \in [FlightIds -> Nat]
  /\ pc \in [Callers -> PcValues]
  /\ key \in [Callers -> Keys]
  /\ need \in [Callers -> Nat]
  /\ flight \in [Callers -> FlightIds \cup {NoFlight}]
  /\ born \in [Callers -> Nat]
  /\ ending \in [Callers -> Endings]
  /\ woken \in [Callers -> BOOLEAN]
  /\ token \in [Callers -> Token \cup {NoToken}]
  /\ \A c \in Callers : Owing(c) \/ Waiting(c) => flight[c] # NoFlight

(* Single flight: the network is never asked twice for one key and one     *)
(* generation at the same time, whatever refreshes, aborts and failures    *)
(* happen in between (acquire, invalidate, finish).                        *)
SingleFetch ==
  \A c, d \in {e \in Callers : pc[e] = "fetch"} :
    key[c] = key[d] /\ flight_gen[flight[c]] = flight_gen[flight[d]] => c = d

(* A registered flight is open and a live leader of the current generation *)
(* stands behind it: no newcomer joins a flight that is over or abandoned  *)
(* (finish unregisters before it completes; Drop finishes an aborted one). *)
RegisteredIsLive ==
  \A k \in Keys : flights[k] # NoFlight =>
    /\ flight_outcome[flights[k]] = "Pending"
    /\ \E c \in Callers : /\ Leading(c)
                          /\ key[c] = k
                          /\ flight[c] = flights[k]
    /\ flight_gen[flights[k]] = generations[k]

(* No lost wakeup: whoever is parked on a flight has been notified or some *)
(* task still owes that flight its completion or its notification          *)
(* (Flight::wait enables its future before it looks at the outcome).       *)
NoLostWakeup ==
  \A c \in Callers : pc[c] = "parked" /\ ~woken[c] =>
    \E d \in Callers : flight[d] = flight[c] /\ Owing(d)

(* README: a refresh is never satisfied by an older fetch.  A refresh      *)
(* returns only a token requested after it advanced the generation, waits  *)
(* only for (and so fails only with) a flight at least that new, and every *)
(* call gets a token of the key it asked for.                              *)
RefreshIsFresh ==
  \A c \in Callers :
    /\ token[c] # NoToken => token[c].key = key[c] /\ token[c].born >= need[c]
    /\ Waiting(c) => flight_gen[flight[c]] >= need[c]

(* README: an older fetch never refills the cache.  What the cache holds   *)
(* was requested under the key's current generation (store_if_current).    *)
CacheIsCurrent ==
  \A k \in Keys : cache[k] # NoToken =>
    /\ cache[k].generation = generations[k]
    /\ cache[k].token = [key |-> k, born |-> generations[k]]
=============================================================================
