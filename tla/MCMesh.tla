------------------------------- MODULE MCMesh -------------------------------
EXTENDS Mesh
CONSTANTS g, h
\* Every watch, wake and launch is for g.
OfG == [w \in Waking |-> g]
\* No policy, and a policy that keeps g from writing to h.
DeniedNone == {}
DeniedSome == {<<g, h>>}
=============================================================================
