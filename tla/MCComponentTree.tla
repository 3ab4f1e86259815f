-------------------------- MODULE MCComponentTree --------------------------
(* Instances of ComponentTree for TLC: a component p under the root, which *)
(* mounts g and h when it processes v1 and only h when it processes v2.    *)
EXTENDS ComponentTree, TLC

CONSTANTS root, p, g, h, v1, v2

MCTree == {root, p, g, h}
MCParent == (p :> root) @@ (g :> p) @@ (h :> p)
MCContents == {v1, v2}
MCMounts == (v1 :> {g, h}) @@ (v2 :> {h})

\* The same without h.
MCChain == {root, p, g}
MCChainParent == (p :> root) @@ (g :> p)
MCChainMounts == (v1 :> {g}) @@ (v2 :> {})
=============================================================================
