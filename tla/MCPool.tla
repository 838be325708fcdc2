------------------------------ MODULE MCPool --------------------------------
(***************************************************************************)
(* An instance of DescriptorPool: two workers at a time, and the main      *)
(* thread before, between and after them.                                  *)
(***************************************************************************)
EXTENDS DescriptorPool

CONSTANTS t1, t2

MCMaxOps == [t \in Threads |-> CASE t = t1 -> 3 [] t = t2 -> 1 [] OTHER -> 2]
MCDoes == [t \in Threads |->
             CASE t = t1 -> {"allocate"} [] t = t2 -> {"reserve", "abort"} [] OTHER -> {"abort"}]
MCPolicies == [t \in Threads |->
  IF t = t2 THEN {"kRecycleOldOnSuccess", "kRecycleNewOnFailure"} ELSE {"kRecycleAlways"}]
=============================================================================
