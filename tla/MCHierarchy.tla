---------------------------- MODULE MCHierarchy ----------------------------
(***************************************************************************)
(* Small instances of Hierarchy.                                           *)
(***************************************************************************)
EXTENDS Hierarchy

CONSTANTS n1, n2, n3

(* One namespace below another, and the event that put it there. *)
MCPrior == <<[ns |-> n2, prev |-> None, new |-> n1, at |-> 0]>>

MCNoPrior == << >>
=============================================================================
