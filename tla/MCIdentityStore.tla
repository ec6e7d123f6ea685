-------------------------- MODULE MCIdentityStore --------------------------
(* The files an identity provider has been started on: none; one of this    *)
(* build; one of an older build, with its client adopted or not, its secret *)
(* readable, not or missing, its people in one case or in two, with orphaned *)
(* rows; a newer one.                                                       *)
EXTENDS IdentityStore

CONSTANTS dana, danaUpper, sam

MCLower == (dana :> dana) @@ (danaUpper :> dana) @@ (sam :> sam)
MCConfig == <<"arcade", "web">>
MCDisplayName == [arcade |-> ClientName, web |-> "Web"]
Whole == <<dana, sam>>

\* A forker who gave two personas one address.
Twice == <<dana, sam, dana>>

Client(id, name, clientId, secret) ==
  [id |-> id, name |-> name, clientId |-> clientId, secret |-> secret, configured |-> FALSE]

Old(clients, people) ==
  [version |-> 0, people |-> people, orphans |-> FALSE, clients |-> clients]
Blank == [version |-> NoSchema, people |-> {}, orphans |-> FALSE, clients |-> {}]
Current == [version |-> 1, people |-> {dana, sam}, orphans |-> FALSE,
            clients |-> {Client("arcade", ClientName, 1, Hash(1))}]
Unkeyed(secret) == {Client("x", ClientName, 1, secret)}
OneUpper == {danaUpper, sam}

MCDisks ==
  {Blank, Current, [Current EXCEPT !.version = 2],
   Old(Unkeyed(Cipher(1)), OneUpper), Old(Unkeyed(Undecryptable(1)), OneUpper),
   Old(Unkeyed(Hash(1)), {dana, danaUpper, sam}),
   Old(Unkeyed(Hash(1)) \cup {Client("y", ClientName, 2, Hash(2))}, OneUpper),
   [Old(Unkeyed(Hash(1)), OneUpper) EXCEPT !.orphans = TRUE],
   Old(Unkeyed(NoSecret), OneUpper),
   [Current EXCEPT !.clients = {Client("web", "Web", 1, Cipher(1))}]}

MCFixtures == {Whole, Twice}
=============================================================================
