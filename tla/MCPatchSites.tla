---------------------------- MODULE MCPatchSites ----------------------------
(***************************************************************************)
(* Instances of PatchSites: instructions of two bytes, alone or with       *)
(* another one in the eight bytes of their jump.                           *)
(***************************************************************************)
EXTENDS PatchSites

TwoBytes == [s \in Sites |-> 2]
HeadOrTail == {16 .. 19, 20 .. 27}

=============================================================================
