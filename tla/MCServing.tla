------------------------------ MODULE MCServing -------------------------------
(* Instances of what serves a NAR: the index of the proxy (ProxyIndex) and the  *)
(* streams its body passes through (BlobStream). A history is one of the two.   *)
EXTENDS ProxyIndex, NarStream, TLC

CONSTANT Parts

VARIABLE active

ASSUME Stream!ConstantsOk

(* Two paths in one shard. *)
OneShard == [h \in Hashes |-> CHOOSE s \in Shards : TRUE]

(* One request at a time, with a registry that fails or a disk that does; two   *)
(* that overlap while roots change; registrations that race with NAR requests.  *)
Mix ==
  {[kinds |-> {"lookup", "nar", "refresh", "register"}, alone |-> TRUE,
    faults |-> {"outage", "withdraw"}, publications |-> 3, registrations |-> 2],
   [kinds |-> {"lookup", "nar", "refresh"}, alone |-> TRUE,
    faults |-> {"disk"}, publications |-> 3, registrations |-> 0],
   [kinds |-> {"lookup", "refresh"}, alone |-> FALSE,
    faults |-> {"outage"}, publications |-> 2, registrations |-> 0],
   [kinds |-> {"nar", "register"}, alone |-> FALSE,
    faults |-> {}, publications |-> 1, registrations |-> 2]}

Symmetry == Permutations(Tasks) \cup Permutations(Hashes)

(* A blob of two bytes, and bodies that are shorter, longer and different. *)
MCContent == <<1, 2>>
MCBodies == {<< >>, <<1>>, <<1, 2>>, <<2, 2>>, <<1, 2, 1>>, <<1, 2, 1, 2>>}

IdleProxy == active # "proxy" => load = CHOOSE w \in Workloads : TRUE
IdleStream == active # "stream" => use = [for |-> "serve", transport |-> "reqwest"]

ServingInit == active \in Parts /\ Init /\ IdleProxy /\ Stream!Init /\ IdleStream

ServingNext ==
  \/ active = "proxy" /\ Next /\ UNCHANGED <<active, streamVars>>
  \/ active = "stream" /\ Stream!Next /\ UNCHANGED <<active, vars>>

ServingSpec == ServingInit /\ [][ServingNext]_<<active, vars, streamVars>>
===============================================================================
