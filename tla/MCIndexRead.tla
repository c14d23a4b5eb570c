----------------------------- MODULE MCIndexRead -----------------------------
(* Two architectures, four shards (one bit per character), two ledgers per  *)
(* architecture: the second changes one entry and fills another shard.      *)
EXTENDS IndexRead, TLC

X86 == << 1 >>
Arm == << 2 >>
MCSystems == {X86, Arm}
MCAsked == {X86}
H(a, b) == << 48 + a, 48 + b >>
MCLedgers ==
  X86 :> << (H(0, 0) :> 1 @@ H(0, 1) :> 1), (H(0, 0) :> 1 @@ H(0, 1) :> 2 @@ H(1, 1) :> 1) >>
    @@ Arm :> << (H(0, 0) :> 1 @@ H(0, 1) :> 1) >>
=============================================================================
