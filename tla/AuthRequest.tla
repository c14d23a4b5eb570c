----------------------------- MODULE AuthRequest -----------------------------
(***************************************************************************)
(* Authenticated registry requests, crates/nixcache-oci/src/client/        *)
(* request.rs, over the token cache of TokenFlight.  Every caller runs one *)
(* request at a time: headers carry the last used token, a 401 with a      *)
(* Bearer challenge refreshes the challenge's token, and the request is    *)
(* sent once more.  "Plain" requests (get, head, post, delete, stream)     *)
(* build their headers themselves; "body" requests (post_bytes, put_bytes, *)
(* patch_chunk, put_chunk_finish) are handed headers that their caller     *)
(* built earlier and that may hold conditions such as If-Match.            *)
(***************************************************************************)
EXTENDS TokenFlight

CONSTANT Workloads  \* what the callers may be asked to do

(* The kinds of request that are made, the keys that their challenges name,    *)
(* and a bound on the requests of a history.                                   *)
Workload == [kinds : SUBSET {"plain", "body"}, keys : SUBSET Keys, requests : Nat]

RequestAssumption == Workloads \subseteq Workload

VARIABLES
  load,       \* never changes
  phase,      \* where each caller's request is
  kind,       \* "plain" or "body"
  target,     \* the key the registry's challenge names for this request
  headers,    \* the headers of the attempt in progress
  rejected,   \* history: the token of the attempt the registry refused
  requests    \* how many requests were started

requestVars == <<load, phase, kind, target, headers, rejected, requests>>
allVars == <<vars, requestVars>>

(* HeaderMap: the Bearer token, and whether the caller's own headers are   *)
(* there (a body request has some, a plain one has none).                  *)
NoHeaders == [auth |-> NoToken, own |-> FALSE]

InitRequests ==
  /\ load \in Workloads
  /\ phase = [c \in Callers |-> "none"]
  /\ kind = [c \in Callers |-> "plain"]
  /\ target = [c \in Callers |-> CHOOSE k \in Keys : TRUE]
  /\ headers = [c \in Callers |-> NoHeaders]
  /\ rejected = [c \in Callers |-> NoToken]
  /\ requests = 0

(* get_auth_headers: load_last returns the last key's token if it is still *)
(* valid and otherwise evicts it.                                          *)
LastToken ==
  LET usable == {k \in last_key : Valid(k)}
  IN  IF usable = {} THEN NoToken ELSE cache[CHOOSE k \in usable : TRUE].token

EvictLast ==
  cache' = [k \in Keys |-> IF k \in last_key /\ ~Valid(k) THEN NoToken
                                                        ELSE cache[k]]

Enter(c, p) == phase' = [phase EXCEPT ![c] = p]

(* The headers are built and the first attempt is sent. *)
SendFirst(c) ==
  /\ phase[c] = "none"
  /\ requests < load.requests
  /\ requests' = requests + 1
  /\ \E m \in load.kinds, k \in load.keys :
       /\ kind' = [kind EXCEPT ![c] = m]
       /\ target' = [target EXCEPT ![c] = k]
       /\ headers' = [headers EXCEPT ![c] =
                        [auth |-> LastToken, own |-> m = "body"]]
  /\ EvictLast
  /\ Enter(c, "first")
  /\ UNCHANGED <<flights, generations, last_key, flightVars, pc, callVars,
                 load, rejected>>

(* The request returns to its caller, a response or an error, and its      *)
(* locals are dropped.                                                     *)
Return(c) ==
  /\ Enter(c, "none")
  /\ headers' = [headers EXCEPT ![c] = NoHeaders]
  /\ kind' = [kind EXCEPT ![c] = "plain"]
  /\ rejected' = [rejected EXCEPT ![c] = NoToken]
  /\ target' = [target EXCEPT ![c] = CHOOSE k \in Keys : TRUE]
  /\ UNCHANGED <<load, requests>>

(* Any status but 401, a transport error, or a 401 without a challenge,    *)
(* which is AuthenticationFailed.                                          *)
FirstAnswer(c) ==
  /\ phase[c] = "first"
  /\ Return(c)
  /\ UNCHANGED vars

(* Mutant: the 401 asks for the cached token instead of a refresh. *)
FirstRejectedGet(c) ==
  /\ phase[c] = "first"
  /\ StartGet(c, target[c])
  /\ rejected' = [rejected EXCEPT ![c] = headers[c].auth]
  /\ Enter(c, "refreshing")
  /\ UNCHANGED <<load, kind, target, headers, requests>>

(* 401 with a Bearer challenge: refresh_token for the challenge's key. *)
FirstRejected(c) ==
  /\ phase[c] = "first"
  /\ StartRefresh(c, target[c])
  /\ rejected' = [rejected EXCEPT ![c] = headers[c].auth]
  /\ Enter(c, "refreshing")
  /\ UNCHANGED <<load, kind, target, headers, requests>>

(* The refresh failed: its error is the request's. *)
RefreshFailed(c) ==
  /\ phase[c] = "refreshing"
  /\ pc[c] = "returned" /\ token[c] = NoToken
  /\ TakeResult(c)
  /\ Return(c)

(* get_auth_headers again, the fresh token over its Authorization, and a   *)
(* body request's own headers, except authorization, over that.            *)
RetryHeaders(c) ==
  LET fresh == [auth |-> LastToken, own |-> FALSE]
      bearer == [fresh EXCEPT !.auth = token[c]]
  IN  IF kind[c] = "body" THEN [bearer EXCEPT !.own = headers[c].own]
                          ELSE bearer

SendSecond(c) ==
  /\ phase[c] = "refreshing"
  /\ pc[c] = "returned" /\ token[c] # NoToken
  /\ EvictLast
  /\ headers' = [headers EXCEPT ![c] = RetryHeaders(c)]
  /\ Goto(c, "idle")
  /\ need' = [need EXCEPT ![c] = 0]
  /\ token' = [token EXCEPT ![c] = NoToken]
  /\ Enter(c, "second")
  /\ UNCHANGED <<flights, generations, last_key, flightVars, key, flight, born,
                 ending, woken, load, kind, target, rejected, requests>>

(* The second answer is final; another 401 is AuthenticationFailed. *)
SecondAnswer(c) ==
  /\ phase[c] = "second"
  /\ Return(c)
  /\ UNCHANGED vars

RequestInit == Init /\ InitRequests

RequestStep(c) ==
  \/ FirstAnswer(c) \/ FirstRejected(c) \/ RefreshFailed(c)
  \/ SendSecond(c) \/ SecondAnswer(c)

TokenStep(c) == Progress(c) /\ UNCHANGED requestVars

(* A request's future is dropped while it waits on the network or a flight. *)
Abort(c) == (LeaderAbort(c) \/ WaiterAbort(c)) /\ UNCHANGED requestVars

Idle == (\A c \in Callers : phase[c] = "none") /\ UNCHANGED allVars

RequestNext ==
  \/ \E c \in Callers :
       SendFirst(c) \/ RequestStep(c) \/ TokenStep(c) \/ Abort(c)
  \/ Tick /\ UNCHANGED requestVars
  \/ Idle

(* The network answers and tasks are scheduled. *)
RequestFairness ==
  \A c \in Callers : /\ WF_allVars(RequestStep(c))
                     /\ WF_allVars(TokenStep(c))

RequestSafety == RequestInit /\ [][RequestNext]_allVars
RequestSpec == RequestSafety /\ RequestFairness

(***************************************************************************)
(* Properties                                                              *)
(***************************************************************************)

(* The one retry never repeats the refused token, nor any older token of   *)
(* that key: request_challenge_for_response sends a token requested after  *)
(* the 401, however many other requests refresh the key meanwhile.         *)
RetryIsFresh ==
  \A c \in Callers : phase[c] = "second" =>
    /\ headers[c].auth # NoToken
    /\ headers[c].auth.key = target[c]
    /\ rejected[c] # NoToken /\ rejected[c].key = target[c]
         => headers[c].auth.born > rejected[c].born

(* Every request returns, although each one's refresh cancels the flights  *)
(* that the others wait for.                                               *)
RequestsReturn ==
  \A c \in Callers : phase[c] # "none" ~> phase[c] = "none"
=============================================================================
