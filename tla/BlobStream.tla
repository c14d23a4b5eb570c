------------------------------ MODULE BlobStream ------------------------------
(* The streams a blob passes through (nixcache-oci, transport.rs, integrity.rs  *)
(* and client/blob.rs): VerifiedBlobStream between a registry and a client that *)
(* asked the proxy or the worker for a NAR, HashingStream before an upload, and *)
(* collect_limited behind every buffered GET, over the two HTTP transports.     *)
(* A digest is the body it was computed from.                                   *)
EXTENDS Naturals, Sequences

CONSTANTS
  Content,       \* the body the requested digest stands for
  Bodies,        \* what a body may be
  Lengths,       \* what Content-Length may say, besides None and Invalid
  MaxBytes,      \* max_bytes of the reader
  MAX_REDIRECTS,
  Upstreams,     \* how many upstream caches there are
  None, Invalid, \* a header that is missing, one that does not parse
  End, Error     \* items of a stream that are not bytes

ConstantsOk ==
  /\ Content \in Bodies /\ Bodies \subseteq Seq(Nat) /\ MaxBytes \in Nat /\ Lengths \subseteq Nat
  /\ MAX_REDIRECTS \in Nat /\ Upstreams \in Nat
  /\ None \notin Nat /\ None \notin {"cache", "complete", "aborted"}
  /\ End \notin Seq(Nat) /\ Error \notin Seq(Nat) /\ End # Error

(* What the body is read for, and the transport that fetches it. *)
Uses == [for : {"serve", "collect"}, transport : {"reqwest", "fetch"}]
          \cup [for : {"hash"}, transport : {"none"}]

Responses ==
  [status : {"ok", "missing", "failed"}, length : Lengths \cup {None, Invalid},
   digest : Bodies \cup {None, Invalid}, body : Bodies]

VARIABLES
  use, pc,
  redirect_count,
  authorization,     \* the request carries the header
  response,
  left,              \* what the inner stream has not yielded yet
  stream,            \* the wrapper, or the buffer of collect_limited
  terminal,          \* StreamHashTerminal
  remote_connected,  \* set_remote_status
  upstream,          \* upstream caches asked
  reply              \* what the client of the server has received

vars == <<use, pc, redirect_count, authorization, response, left, stream, terminal,
          remote_connected, upstream, reply>>

request == <<redirect_count, authorization>>

Blob == [status |-> "ok", length |-> None, digest |-> None, body |-> << >>]
Opened == [seen |-> << >>, finished |-> FALSE, failed |-> FALSE]
InProgress == [status |-> "InProgress", digest |-> << >>]
NoReply == [from |-> None, length |-> None, bytes |-> << >>, end |-> None]

Init ==
  /\ use \in Uses /\ redirect_count = 0 /\ authorization = TRUE
  /\ \/ /\ use.for = "hash" /\ pc = "poll"
        /\ \E b \in Bodies : response = [Blob EXCEPT !.body = b] /\ left = b
     \/ /\ use.for # "hash" /\ pc = (IF use.for = "serve" THEN "lookup" ELSE "send")
        /\ response = Blob /\ left = << >>
  /\ stream = Opened /\ terminal = InProgress /\ remote_connected = TRUE
  /\ upstream = 0 /\ reply = NoReply

-------------------------------------------------------------------------------
(* The request. *)

(* serve_nar, and the route of the worker: the index knows the digest or not. *)
Lookup ==
  /\ pc = "lookup"
  /\ pc' \in {"send", "upstream"}
  /\ UNCHANGED <<use, request, response, left, stream, terminal, remote_connected, upstream, reply>>

(* WorkerFetchTransport follows redirects itself; reqwest does it unseen. *)
Redirect ==
  /\ pc = "send" /\ use.transport = "fetch" /\ redirect_count < MAX_REDIRECTS
  /\ redirect_count' = redirect_count + 1 /\ authorization' = FALSE
  /\ UNCHANGED <<use, pc, response, left, stream, terminal, remote_connected, upstream, reply>>

check_content_length(length) == length # Invalid /\ (length # None => length <= MaxBytes)

(* BlobClient::stream fails before the first byte: the upstream caches are asked. *)
StreamFails ==
  /\ pc' = (IF use.for = "serve" THEN "upstream" ELSE "err")
  /\ remote_connected' = (use.for # "serve" /\ remote_connected)
  /\ UNCHANGED <<use, request, response, left, stream, terminal, upstream, reply>>

(* The reply is opened with the Content-Length of the registry. *)
Opens(r) ==
  /\ response' = r /\ left' = r.body /\ pc' = "poll"
  /\ remote_connected' = TRUE
  /\ reply' = IF use.for # "serve" THEN reply
              ELSE [NoReply EXCEPT !.from = "cache", !.length = r.length]
  /\ UNCHANGED <<use, request, stream, terminal, upstream>>

(* The length is checked whatever the status; a buffered GET returns any status. *)
Answered(r) == check_content_length(r.length) /\ (use.for = "serve" => r.status = "ok")

Send ==
  /\ pc = "send"
  /\ \/ \E r \in Responses : IF Answered(r) THEN Opens(r) ELSE StreamFails
     \/ StreamFails

-------------------------------------------------------------------------------
(* The inner stream yields a piece of the body, or an error, or ends. *)

Items == {SubSeq(left, 1, n) : n \in 1..Len(left)} \cup {Error}
           \cup (IF left = << >> THEN {End} ELSE {})

Rest(item) == IF item \in {End, Error} THEN left ELSE SubSeq(left, Len(item) + 1, Len(left))

(* A verification that trusts the registry: its header, when there is one. *)
HeaderOnly(r, actual) ==
  /\ r.length # None => r.length = Len(actual)
  /\ IF r.digest = None THEN actual = Content ELSE r.digest = actual

(* verify_size and verify_stream_digest, at the end of the stream *)
verify_stream_digest(r, actual) ==
  /\ r.length # None => r.length = Len(actual)
  /\ r.digest # None => r.digest = actual
  /\ actual = Content

Failed(s) == [s EXCEPT !.finished = TRUE, !.failed = TRUE]

Keep(s, item) ==
  IF Len(s.seen) + Len(item) > MaxBytes THEN Failed(s) ELSE [s EXCEPT !.seen = @ \o item]

(* VerifiedBlobStream::poll_next *)
VerifiedBlobStream(s, item) ==
  CASE item = Error -> Failed(s)
    [] item = End ->
         [s EXCEPT !.finished = TRUE, !.failed = ~ verify_stream_digest(response, s.seen)]
    [] item \notin {End, Error} -> Keep(s, item)

(* collect_limited: the limit is checked before the chunk is kept. *)
collect_limited(s, item) ==
  CASE item = Error -> Failed(s)
    [] item = End -> [s EXCEPT !.finished = TRUE]
    [] item \notin {End, Error} -> Keep(s, item)

(* A server of HTTP that has sent as many bytes as it announced may be done     *)
(* with the stream, or poll it once more.                                       *)
Forward(item, s) ==
  LET room == IF reply.length = None THEN MaxBytes ELSE reply.length - Len(reply.bytes)
      sent == IF item \in {End, Error} \/ s.failed THEN reply.bytes
              ELSE reply.bytes \o SubSeq(item, 1, IF Len(item) < room THEN Len(item) ELSE room)
      full == reply.length = Len(sent)
      ends == (IF s.failed THEN {"aborted"}
               ELSE IF ~ s.finished THEN {None}
               ELSE IF reply.length = None \/ full THEN {"complete"} ELSE {"aborted"})
              \cup (IF full /\ ~ s.failed THEN {"complete"} ELSE {})
  IN  \E e \in ends : reply' = [reply EXCEPT !.bytes = sent, !.end = e]

PollNar ==
  /\ pc = "poll" /\ use.for = "serve"
  /\ \E item \in Items :
       /\ stream' = VerifiedBlobStream(stream, item)
       /\ left' = Rest(item)
       /\ Forward(item, stream')
  /\ pc' = IF reply'.end = None THEN "poll" ELSE "done"
  /\ UNCHANGED <<use, request, response, terminal, remote_connected, upstream>>

PollBuffered ==
  /\ pc = "poll" /\ use.for = "collect"
  /\ \E item \in Items : stream' = collect_limited(stream, item) /\ left' = Rest(item)
  /\ pc' = IF ~ stream'.finished THEN "poll" ELSE IF stream'.failed THEN "err" ELSE "done"
  /\ UNCHANGED <<use, request, response, terminal, remote_connected, upstream, reply>>

Terminated(s) == [InProgress EXCEPT !.status = s]

(* HashingStream::poll_next; the terminal state is set once. *)
PollHashing ==
  /\ pc = "poll" /\ use.for = "hash" /\ terminal = InProgress
  /\ \E item \in Items :
       /\ left' = Rest(item)
       /\ CASE item = Error ->
                 terminal' = Terminated("Failed") /\ stream' = Failed(stream)
            [] item = End ->
                 /\ terminal' = [status |-> "Complete", digest |-> stream.seen]
                 /\ stream' = [stream EXCEPT !.finished = TRUE]
            [] item \notin {End, Error} ->
                 terminal' = terminal /\ stream' = [stream EXCEPT !.seen = @ \o item]
  /\ UNCHANGED <<use, pc, request, response, remote_connected, upstream, reply>>

(* Drop for HashingStream: after its end, or before it. *)
DropHashing ==
  /\ pc = "poll" /\ use.for = "hash"
  /\ pc' = "done"
  /\ terminal' = IF terminal = InProgress THEN Terminated("Aborted") ELSE terminal
  /\ UNCHANGED <<use, request, response, left, stream, remote_connected, upstream, reply>>

-------------------------------------------------------------------------------
(* The upstream caches, in order; what they send is passed on as it is. *)

AskUpstream ==
  /\ pc = "upstream" /\ upstream < Upstreams
  /\ upstream' = upstream + 1
  /\ \/ \E b \in Bodies : reply' = [NoReply EXCEPT !.from = "upstream", !.bytes = b] /\ pc' = "done"
     \/ UNCHANGED <<reply, pc>>
  /\ UNCHANGED <<use, request, response, left, stream, terminal, remote_connected>>

NotFound ==
  /\ pc = "upstream" /\ upstream = Upstreams
  /\ reply' = [NoReply EXCEPT !.from = "nowhere"] /\ pc' = "done"
  /\ UNCHANGED <<use, request, response, left, stream, terminal, remote_connected, upstream>>

(* The reader has what it is going to get. *)
Over == pc \in {"done", "err"} /\ UNCHANGED vars

Next ==
  \/ Lookup \/ Redirect \/ Send \/ PollNar \/ PollBuffered \/ PollHashing \/ DropHashing
  \/ AskUpstream \/ NotFound \/ Over

Spec == Init /\ [][Next]_vars

-------------------------------------------------------------------------------
(* What a reader takes for the end of a blob is the end of the whole blob,       *)
(* whatever pieces it came in and whatever the headers said. A verified stream   *)
(* ends without an error only after the body its digest stands for; the digest   *)
(* HashingStream publishes is never that of a prefix (transport.rs:151); a       *)
(* buffer never exceeds its limit. A NAR reply of the proxy or the worker that   *)
(* its receiver takes for complete is the body of the digest when no length was  *)
(* announced; with a Content-Length, which is the registry's and is passed on    *)
(* before the digest is known (proxy.rs:213), it has that length.                *)
EndIsWhole ==
  /\ stream.finished /\ ~ stream.failed =>
       /\ stream.seen = response.body
       /\ use.for = "serve" => stream.seen = Content
  /\ terminal.status = "Complete" => terminal.digest = response.body
  /\ use.for # "hash" => Len(stream.seen) <= MaxBytes
  /\ reply.from = "cache" /\ reply.end = "complete" =>
       /\ Len(reply.bytes) <= Len(response.body)
       /\ \A i \in 1 .. Len(reply.bytes) : reply.bytes[i] = response.body[i]
       /\ IF reply.length = None THEN reply.bytes = Content ELSE Len(reply.bytes) = reply.length
===============================================================================
