------------------------ MODULE MCPendingInputStore ------------------------
(* Instances of PendingInputStore for TLC: requests, runs and the rest are  *)
(* model values; requests and runs are interchangeable.                     *)
EXTENDS PendingInputDelivery, TLC

Interchangeable == Permutations(Req) \cup Permutations(Run) \cup Permutations(Conv)
=============================================================================
