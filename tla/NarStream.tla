------------------------------ MODULE NarStream -------------------------------
(* The streams of a blob (BlobStream) as a machine beside others, and what is   *)
(* promised of them.                                                            *)
EXTENDS Naturals, Sequences

CONSTANTS Content, Bodies, Lengths, MaxBytes, MAX_REDIRECTS, Upstreams, None, Invalid, End, Error

VARIABLES
  use, stream_pc, redirect_count, authorization, response, left, stream, terminal, remote_connected, upstream, reply

streamVars ==
  <<use, stream_pc, redirect_count, authorization, response, left, stream, terminal, remote_connected, upstream,
    reply>>

Stream == INSTANCE BlobStream WITH pc <- stream_pc

(* What a reader takes for the end of a blob is the end of the whole blob        *)
(* (BlobStream, transport.rs).                                                   *)
EndIsWhole == Stream!EndIsWhole
===============================================================================
