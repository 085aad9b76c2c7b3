----------------------------- MODULE MCRpcTasks -----------------------------
(* The instance of RpcTasks, with the history of RpcDispatch, for TLC. *)
EXTENDS RpcDispatch, TLC

Symmetry == Permutations(Tasks) \cup Permutations(Handlers) \cup Permutations(Devices)
              \cup Permutations(Uids) \cup Permutations(Contents)
=============================================================================
