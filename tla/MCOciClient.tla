----------------------------- MODULE MCOciClient ------------------------------
(* Instances of three machines of the OCI client: authenticated requests        *)
(* (AuthRequest), conditional updates of an index (CasIndex) and the upload of  *)
(* one blob (BlobUpload). A history is one of them at work while the others     *)
(* stand still.                                                                 *)
EXTENDS OciClient

CONSTANTS
  Parts,
  Callers, Keys, FlightIds, NoFlight, NoToken, Skew, ExpiresIn, Elapsed, MaxGeneration, Workloads

VARIABLES
  active,
  cache, flights, generations, last_key, flight_outcome, flight_gen, token_pc, key, need, flight, born,
  ending, woken, token, load, phase, kind, target, headers, rejected, requests

requestVars == <<load, phase, kind, target, headers, rejected, requests>>
authVars ==
  <<cache, flights, generations, last_key, flight_outcome, flight_gen, token_pc, key, need, flight, born,
    ending, woken, token, requestVars>>
uploadVars ==
  <<size, strategy, conduct, upload_pc, read, offset, chunk, session, stored, late, blob, interrupted>>

Auth == INSTANCE AuthRequest WITH pc <- token_pc

ASSUME Auth!RequestAssumption
ASSUME Upload!UploadAssumption

(* Two requests of either kind over all keys, or three plain ones that race     *)
(* for one key.                                                                 *)
MCWorkloads ==
  {[kinds |-> {"plain", "body"}, keys |-> Keys, requests |-> 2]}
    \cup {[kinds |-> {"plain"}, keys |-> {k}, requests |-> 3] : k \in {CHOOSE k \in Keys : TRUE}}

(* An upload: everything goes wrong, or nothing but the connection. *)
AnyConduct ==
  {[faults |-> {"stream", "loss", "late", "partial", "refuse", "probe", "answer", "headers"},
    empty |-> e] : e \in {"absent", "zero"}}
  \cup {[faults |-> {"loss"}, empty |-> "absent"]}

-------------------------------------------------------------------------------
IdleCas == active # "cas" => tag = NoManifest
IdleAuth ==
  active # "auth" => <<load, key>> = CHOOSE x \in Workloads \X [Callers -> Keys] : TRUE
IdleUpload ==
  active # "upload" =>
    <<size, strategy, conduct>> = CHOOSE x \in Sizes \X Strategies \X Conducts : TRUE

ClientInit ==
  /\ active \in Parts
  /\ Init /\ IdleCas /\ Auth!RequestInit /\ IdleAuth /\ Upload!Init /\ IdleUpload

AloneCas == active = "cas" /\ UNCHANGED <<active, authVars, uploadVars>>
AloneAuth == active = "auth" /\ UNCHANGED <<active, vars, uploadVars>>
AloneUpload == active = "upload" /\ UNCHANGED <<active, vars, authVars>>

ClientNext == (AloneCas /\ Next) \/ (AloneAuth /\ Auth!RequestNext) \/ (AloneUpload /\ Upload!Next)

clientVars == <<active, vars, authVars, uploadVars>>

(* The fairness of each machine. *)
ClientFairness ==
  /\ \A c \in Clients : WF_clientVars(AloneCas /\ Step(c))
  /\ \A c \in Callers :
       /\ WF_clientVars(AloneAuth /\ Auth!RequestStep(c))
       /\ WF_clientVars(AloneAuth /\ Auth!TokenStep(c))
  /\ WF_clientVars(AloneUpload /\ Upload!Client)

ClientSpec == ClientInit /\ [][ClientNext]_clientVars /\ ClientFairness

-------------------------------------------------------------------------------
(* Every authenticated request returns (AuthRequest). *)
RequestsReturn == Auth!RequestsReturn

(* Every upload returns (BlobUpload). *)
Returns == active = "upload" => Upload!Returns
===============================================================================
