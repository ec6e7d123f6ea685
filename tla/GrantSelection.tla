--------------------------- MODULE GrantSelection ---------------------------
(***************************************************************************)
(* A run of calls against the grants of one person: selectGrant over rows  *)
(* that were issued by hand, by the flow or by nobody in their right mind, *)
(* and consumeGrant written back for the one that answered.                *)
(***************************************************************************)
EXTENDS GrantChecker, FiniteSets

CONSTANTS
  Grants,    \* records the schema lets into the table
  Rows,      \* the sequences of them a person may hold
  Calls,     \* the calls that may be made
  MaxCalls,  \* bound: calls let through
  MaxClock    \* bound of the clock

ASSUME GrantsAssumption ==
  /\ \A g \in Grants :
       /\ g = [subject_id |-> g.subject_id, granted_by |-> g.granted_by,
               match |-> g.match, resource_id |-> g.resource_id,
               pinned_inputs |-> g.pinned_inputs, ceiling |-> g.ceiling,
               issued_at |-> g.issued_at, expires_at |-> g.expires_at,
               uses_remaining |-> g.uses_remaining, revoked_at |-> g.revoked_at]
       /\ g.uses_remaining \in Nat \cup {Null}
       /\ {g.issued_at, g.expires_at} \subseteq Int
       /\ g.ceiling # Null => g.ceiling.max \in Int
  /\ Rows \subseteq Seq(Grants)
  /\ Null \notin Int
  /\ {MaxCalls, MaxClock} \subseteq Nat

VARIABLES
  issued,   \* the grants as they were issued
  rows,     \* as they are stored now
  clock,    \* now, as /pre and the checker read it
  accepted  \* the calls let through, each with the row that let it

selectionVars == <<issued, rows, clock, accepted>>

SelectionInit ==
  /\ issued \in Rows
  /\ rows = issued
  /\ clock = 0
  /\ accepted = <<>>

\* /pre on a denied call: select, and spend what was selected.
Present(call) ==
  LET i == SelectGrant(rows, call, clock)
  IN IF i = 0 THEN UNCHANGED selectionVars
     ELSE /\ Len(accepted) < MaxCalls
          /\ rows' = [rows EXCEPT ![i] = ConsumeGrant(@)]
          /\ accepted' = Append(accepted, [call |-> call, row |-> i, at |-> clock])
          /\ UNCHANGED <<issued, clock>>

SelectionTick ==
  /\ clock < MaxClock
  /\ clock' = clock + 1
  /\ UNCHANGED <<issued, rows, accepted>>

SelectionNext == (\E call \in Calls : Present(call)) \/ SelectionTick

SelectionSpec == SelectionInit /\ [][SelectionNext]_selectionVars
-----------------------------------------------------------------------------

\* A row lets through at most as many calls as it was issued with uses.
UsesBoundCalls ==
  \A i \in DOMAIN issued :
    issued[i].uses_remaining = Null
      \/ Cardinality({k \in DOMAIN accepted : accepted[k].row = i})
           <= issued[i].uses_remaining

\* No grant is a standing permission: what it lets through was made by its
\* subject, at a time in its window, with its resource somewhere in the inputs
\* and no amount above its ceiling, however the record was filled in.
NothingBeyondTheGrant ==
  \A k \in DOMAIN accepted :
    LET g == issued[accepted[k].row]
        call == accepted[k].call
    IN /\ call.user = g.subject_id /\ call.user # g.granted_by
       /\ call.tool = g.match
       /\ g.issued_at <= accepted[k].at /\ accepted[k].at < g.expires_at
       /\ g.resource_id # Null =>
            \E key \in DOMAIN call.inputs : call.inputs[key] = g.resource_id
       /\ g.ceiling # Null =>
            /\ g.ceiling.input \in DOMAIN call.inputs
            /\ call.inputs[g.ceiling.input] <= g.ceiling.max
=============================================================================
