---------------------------- MODULE CodePromise ----------------------------
(***************************************************************************)
(* What an authorization code is worth to the one it was issued to: it is  *)
(* redeemed once, by one exchange, and once its tokens have settled nothing *)
(* takes them but a revocation somebody asked for, or a reset.  However    *)
(* often the code is presented again, it is refused and the tokens stay.   *)
(* TokenEndpoint implements this.                                          *)
(***************************************************************************)
CONSTANTS Codes, Requests, Null

VARIABLES
  standing,    \* by code: what became of it
  redeemer     \* by code: the exchange that redeemed it

vars == <<standing, redeemer>>

Init ==
  /\ standing = [c \in Codes |-> "unissued"]
  /\ redeemer = [c \in Codes |-> Null]

Becomes(c, from, to) ==
  /\ standing[c] \in from
  /\ standing' = [standing EXCEPT ![c] = to]

Issue(c) == Becomes(c, {"unissued"}, "issued") /\ UNCHANGED redeemer

Redeem(c, r) ==
  /\ Becomes(c, {"issued"}, "redeemed")
  /\ redeemer' = [redeemer EXCEPT ![c] = r]

\* Both tokens are there and nothing under way can take them.
Settle(c) == Becomes(c, {"redeemed"}, "settled") /\ UNCHANGED redeemer

\* Asked for by the person or the client, never by presenting the code.
Revoke(c) == Becomes(c, {"redeemed", "settled"}, "revoked") /\ UNCHANGED redeemer

Reset ==
  /\ standing' = [c \in Codes |-> IF standing[c] = "unissued" THEN "unissued" ELSE "void"]
  /\ UNCHANGED redeemer

Next ==
  \/ \E c \in Codes : Issue(c) \/ Settle(c) \/ Revoke(c)
  \/ \E c \in Codes, r \in Requests : Redeem(c, r)
  \/ Reset

Spec == Init /\ [][Next]_vars
=============================================================================
