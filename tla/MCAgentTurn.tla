---------------------------- MODULE MCAgentTurn ----------------------------
(* One officer's turn at a bank whose file an earlier build may have written. *)
EXTENDS AgentTurn

MCRequests == Calls
MCBearer == [q \in MCRequests |-> "officer"]
MCFiles ==
  {[version |-> 0, status |-> "pending", rows |-> <<>>],
   [version |-> NoSchema, status |-> "none", rows |-> <<>>],
   [version |-> SchemaVersion + 1, status |-> "pending", rows |-> <<>>]}
=============================================================================
