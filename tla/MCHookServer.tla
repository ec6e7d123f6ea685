---------------------------- MODULE MCHookServer ----------------------------
(***************************************************************************)
(* Two calls by a roster entry, somebody holding a grant and a stranger,   *)
(* against output policies that mask, sweep, chase their own output and do *)
(* not compile.                                                            *)
(***************************************************************************)
EXTENDS HookServer

MCSubjectOf == [u \in {"Ada", "bob", "eve"} |->
                  CASE u = "Ada" -> "ada" [] u = "bob" -> "bob" [] u = "eve" -> Null]

GetLoan == [toolkit |-> "Loan", name |-> "GetLoan"]
Send == [toolkit |-> "Mail", name |-> "Send"]

MCTools == {GetLoan, Send}
MCConfigured == {"Loan"}
MCGrants == {<<"bob", GetLoan>>}
MCPositions == {"0", "1"}
MCWithheld == <<"withheld">>

Key(k) == {k}
Account == <<Key("account")>>
Rows(k) == <<Key("rows"), Positions, Key(k)>>

Mask(path, marker) == [path |-> path, strategy |-> "mask", replacement |-> marker]
Drop(path) == [path |-> path, strategy |-> "remove", replacement |-> <<>>]
Pattern(id, strategy, regex, ahead, replacement) ==
  [id |-> id, strategy |-> strategy, regex |-> regex, ahead |-> ahead,
   replacement |-> replacement]

Rule(id, subjects, fields, patterns) ==
  [id |-> id, priority |-> id, match |-> [toolkit |-> "Loan", tool |-> Wildcard],
   subjects |-> subjects, fields |-> fields, patterns |-> patterns, enabled |-> TRUE]

\* Named fields, for bob only; and the rows of a list for everybody.
Fields == <<Rule(1, {"bob"}, <<Mask(Account, <<"M">>)>>, <<>>),
            Rule(2, Null, <<Drop(Rows("account"))>>, <<>>)>>

\* A field and a sweep whose deletion joins what was around it.
Joining == <<Rule(2, Null, <<>>, <<Pattern(1, "remove", <<"A", "Z">>, Null, <<>>)>>),
             Rule(1, Null, <<Mask(Account, <<"M">>)>>, <<>>)>>

\* A becomes B, B becomes C and C becomes A while a Z follows.
Cycle == <<Rule(1, Null, <<>>, <<Pattern(1, "mask", <<"A">>, "Z", <<"B">>)>>),
           Rule(2, Null, <<>>, <<Pattern(1, "mask", <<"B">>, "Z", <<"C">>)>>),
           Rule(3, Null, <<Mask(Account, <<"M">>)>>,
                <<Pattern(1, "mask", <<"C">>, "Z", <<"A">>)>>)>>

\* The same patterns in the order in which one pass is not enough.
Drift == <<Rule(1, Null, <<>>, <<Pattern(1, "mask", <<"B">>, "Z", <<"C">>)>>),
           Rule(2, Null, <<>>, <<Pattern(1, "mask", <<"A">>, "Z", <<"B">>),
                                 Pattern(2, "replace", <<"I">>, Null, <<"gone">>)>>)>>

\* A string that never settles.
Growing == <<Rule(1, Null, <<>>, <<Pattern(1, "mask", <<"A">>, "Z", <<"A", "A">>)>>)>>

\* Two rules that name one path and mark it differently.
Clashing == <<Rule(1, {"bob"}, <<Mask(Account, <<"M">>)>>, <<>>),
              Rule(2, Null, <<Mask(Account, <<"N">>)>>, <<>>)>>

\* A marker another rule's pattern matches: refused.
Chasing == <<Rule(1, Null, <<Mask(Account, <<"M">>)>>, <<>>),
             Rule(2, Null, <<>>, <<Pattern(1, "mask", <<"M">>, Null, <<"N">>)>>)>>

Snapshot(rows, scanners) ==
  [catalogue |-> {GetLoan}, visible |-> {<<"ada", GetLoan>>},
   permits |-> {<<"ada", GetLoan>>}, rows |-> rows, scanners |-> scanners]

MCSnapshots ==
  {Snapshot(rows, "armed") :
     rows \in {Fields, Joining, Cycle, Drift, Growing, Clashing, Chasing}}
  \cup {Snapshot(Joining, "disarmed")}

\* A loan, and a list of two.
Loan(account, note) == (<<"account">> :> account) @@ (<<"note">> :> note)
Listing == (<<"rows", "0", "account">> :> <<"S">>) @@ (<<"rows", "0", "note">> :> <<"A", "Z">>)
           @@ (<<"rows", "1", "account">> :> <<"S">>)

\* What each caller's /post carries: an account to mask and a note that takes
\* several sweeps, one masked before it came, and a list.
Outputs(user) ==
  CASE user = "bob" -> {Loan(<<"M">>, <<"A", "Z", "I">>), Listing}
    [] user = "eve" -> {Loan(<<"S">>, <<"A", "A", "Z", "Z">>)}

MCBodies == [hook \in {"access", "pre", "post"} |->
  CASE hook = "access" -> {[user |-> "Ada", tools |-> MCTools, output |-> Null]}
    [] hook = "pre" -> {[user |-> u, tools |-> {GetLoan}, output |-> Null] :
                          u \in {"Ada", "bob"}}
    [] hook = "post" -> UNION {{[user |-> u, tools |-> {GetLoan}, output |-> o] :
                                  o \in Outputs(u)} : u \in {"bob", "eve"}}
                        \cup {[user |-> "bob", tools |-> {Send},
                              output |-> Loan(<<"S">>, <<"A">>)]}]
=============================================================================
