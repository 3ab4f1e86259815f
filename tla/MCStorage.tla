------------------------------ MODULE MCStorage ------------------------------
(* Three transactions on a storage whose map has one page. *)
EXTENDS Storage, TLC

CONSTANTS Store

MCBatcherOf == [c \in Calls |-> Store]
MCMaxSize == Store :> 0
=============================================================================
