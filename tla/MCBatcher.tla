------------------------------ MODULE MCBatcher ------------------------------
(* Two batchers on one queue, the first with a maximum size of two. *)
EXTENDS Batcher, TLC

CONSTANTS a1, a2, a3, b1, A, B

MCCalls == {a1, a2, a3, b1}
MCBatcherOf == a1 :> A @@ a2 :> A @@ a3 :> A @@ b1 :> B
MCMaxSize == A :> 2 @@ B :> 0
=============================================================================
