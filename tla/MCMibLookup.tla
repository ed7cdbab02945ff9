---------------------------- MODULE MCMibLookup ----------------------------
(***************************************************************************)
(* MibLookup for TLC.  The objects are interchangeable.  The first module  *)
(* defines a root and a child of it, the second one a grandchild below     *)
(* them and another root.                                                  *)
(***************************************************************************)
EXTENDS MibLookup

CONSTANTS core, extra

MCModuleOf == (<<1>> :> core) @@ (<<1, 6>> :> core) @@ (<<1, 6, 1>> :> extra) @@ (<<6>> :> extra)

Symmetry == Permutations(Objects)
=============================================================================
