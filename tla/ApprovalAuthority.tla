------------------------- MODULE ApprovalAuthority -------------------------
(***************************************************************************)
(* What the approval flow promises, with no grants, no pre-hook and no     *)
(* store writes in flight: a request is settled once, by somebody else     *)
(* whose authority covers it, and an approval buys its requester at most   *)
(* one call above their own authority, on the resource approved, at or     *)
(* below the amount approved, within the grant's lifetime.                 *)
(***************************************************************************)
EXTENDS Naturals, Sequences

CONSTANTS Null, Accounts, Owner, Clearance, Requests, Loans, Amounts, GrantTtl

VARIABLES requests, lifts, now

vars == <<requests, lifts, now>>

Init ==
  /\ requests = [r \in Requests |->
       [status |-> "unused", requester_id |-> Null, resource_id |-> Null,
        amount |-> Null, decided_by |-> Null, decided_at |-> Null]]
  /\ lifts = [r \in Requests |-> <<>>]
  /\ now = 0

\* A request is open, for an amount that somebody else could decide.
Raise(r, account, loan, amount) ==
  /\ requests[r].status = "unused"
  /\ \E a \in Accounts : Owner[a] # account /\ amount <= Clearance[Owner[a]]
  /\ requests' = [requests EXCEPT ![r] =
       [status |-> "pending", requester_id |-> account, resource_id |-> loan,
        amount |-> amount, decided_by |-> Null, decided_at |-> Null]]
  /\ UNCHANGED <<lifts, now>>

\* Settled once, by another person with sufficient authority.
Settle(r, account, decision) ==
  /\ requests[r].status = "pending"
  /\ Owner[account] # Owner[requests[r].requester_id]
  /\ requests[r].amount <= Clearance[Owner[account]]
  /\ requests' = [requests EXCEPT ![r].status = decision,
                                  ![r].decided_by = account,
                                  ![r].decided_at = now]
  /\ UNCHANGED <<lifts, now>>

\* The one call the approval of r buys.
Exercise(r, amount) ==
  LET user == Owner[requests[r].requester_id]
  IN /\ requests[r].status = "approved"
     /\ lifts[r] = <<>>
     /\ Clearance[user] < amount /\ amount <= requests[r].amount
     /\ requests[r].decided_at <= now
     /\ now < requests[r].decided_at + GrantTtl
     /\ lifts' = [lifts EXCEPT ![r] =
          <<[user |-> user, resource_id |-> requests[r].resource_id,
             amount |-> amount, at |-> now]>>]
     /\ UNCHANGED <<requests, now>>

Erase ==
  /\ requests' = [r \in Requests |->
       IF requests[r].status = "unused" THEN requests[r]
       ELSE [requests[r] EXCEPT !.status = "erased"]]
  /\ UNCHANGED <<lifts, now>>

Tick ==
  /\ now' = now + 1
  /\ UNCHANGED <<requests, lifts>>

Next ==
  \/ \E r \in Requests, a \in Accounts, l \in Loans, n \in Amounts : Raise(r, a, l, n)
  \/ \E r \in Requests, a \in Accounts, d \in {"approved", "denied"} : Settle(r, a, d)
  \/ \E r \in Requests, n \in Amounts : Exercise(r, n)
  \/ Erase
  \/ Tick

Spec == Init /\ [][Next]_vars
=============================================================================
