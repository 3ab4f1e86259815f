----------------------------- MODULE MCInflight -----------------------------
EXTENDS Inflight, TLC

CONSTANTS root, a, b, c

\* A chain of nested mounts, and a fork.
ChainParent == (a :> root) @@ (b :> a)
OnlyParent == a :> root
ForkParent == (a :> root) @@ (b :> root) @@ (c :> a)
=============================================================================
