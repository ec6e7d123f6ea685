------------------------------- MODULE SignIn -------------------------------
(***************************************************************************)
(* apps/web/lib/identity, the token half of apps/web/lib/agent and the loan *)
(* book reads: one browser, its cookies, and the requests it has under way. *)
(* The server keeps nothing.  A request carries the cookies of the moment   *)
(* it was sent, a response changes the cookies of the moment it arrives,    *)
(* and in between the handler waits for the identity provider, the gateway  *)
(* and Arcade.                                                             *)
(*                                                                         *)
(* External: the identity provider (codes, rotating refresh tokens, the     *)
(* revocation of a grant whose spent refresh token comes back), the gateway *)
(* (bearers it may refuse at any time) and Arcade (the flows it finalises), *)
(* as the code uses them.  Times are choices: a token is near its expiry or *)
(* not, a leg's ten minutes are over or not.  Arguments that are checked    *)
(* and passed on (a return path, an issuer, a persona hint) are left out.   *)
(***************************************************************************)
EXTENDS Integers, Sequences, FiniteSets

CONSTANTS
  None,
  People,
  HttpRequests,    \* the requests the browser sends, each once
  Earlier,     \* the request that made the session the browser starts with
  Flows,       \* Arcade's pending tool authorizations
  OwnerOf,     \* OwnerOf[flow]: the person whose tool call it is
  MaxGen,      \* how often a token can be refreshed
  MaxInFlight  \* how many requests are under way together

VARIABLES
  jar,         \* the browser's cookies, by name; None: it has none
  requests,    \* by request
  pages,       \* the pages of others this browser has open, by what led there
  idp,         \* the identity provider: its browser session, its grants
  gateway,     \* the gateway's grants
  mishap       \* two requests overlapped, or a response was lost

signInVars == <<jar, requests, pages, idp, gateway, mishap>>

Families == HttpRequests \cup {Earlier}
Bearer == [family : Families, gen : Nat]
AnySession ==
  [email : People, gateway : {None} \cup Bearer, idp : Bearer, rejected : BOOLEAN]

\* A grant of the identity provider.
IdpGrant == [person : People, gen : Nat, revoked : BOOLEAN]

\* None is no bearer, no grant, no session and no piece of one; the session of
\* before the model was made by none of its requests.
ASSUME SignInAssumption ==
  /\ Earlier \notin HttpRequests
  /\ None \notin Bearer \cup IdpGrant \cup AnySession \cup [session : AnySession, by : Families]

\* A token names the grant it came from and how often that was refreshed.
Token(family, gen) == [family |-> family, gen |-> gen]

Session(email, gw, bearer, rejected) ==
  [email |-> email, gateway |-> gw, idp |-> bearer, rejected |-> rejected]

-----------------------------------------------------------------------------
(* Cookies.                                                                *)

ChunkNames == <<"cg_session.0", "cg_session.1">>
LegNames == {"cg_signin", "cg_gateway", "cg_arcade_flow"}
SessionNames == {"cg_session.0", "cg_session.1"}
Names == SessionNames \cup LegNames

\* Two bearers do not fit in one cookie.
ChunkCount(session) == IF session.gateway = None THEN 1 ELSE 2

\* The pieces of one sealed value: every sealing is different.
Chunk(session, by) == [session |-> session, by |-> by]

\* The chunks a jar holds without a gap.
Joined(cookies) ==
  {i \in DOMAIN ChunkNames : \A j \in 1..i : cookies[ChunkNames[j]] # None}

\* openSealed: all the pieces of one value, or nothing.
ReadSession(cookies) ==
  LET held == Joined(cookies)
      first == cookies[ChunkNames[1]]
  IN IF /\ held # {}
        /\ \A i \in held : cookies[ChunkNames[i]] = first
        /\ Cardinality(held) = ChunkCount(first.session)
     THEN first.session ELSE None

\* Mutant of ClearedChunks: a shorter value leaves the longer one's rest behind.
ClearedNone(cookies, written) == {}

\* The chunks a request carries that a value of that many does not replace.
ClearedChunks(cookies, written) ==
  {ChunkNames[i] : i \in {j \in DOMAIN ChunkNames :
                            j > written /\ cookies[ChunkNames[j]] # None}}

\* The Set-Cookie headers of a response: from a name to its new value.
Expire(names) == [name \in names |-> None]

\* Headers are appended, never set: those of two writers both go.
Both(headers, others) ==
  [name \in DOMAIN headers \cup DOMAIN others |->
     IF name \in DOMAIN headers THEN headers[name] ELSE others[name]]

WriteSession(cookies, session, by) ==
  Both([name \in {ChunkNames[i] : i \in 1..ChunkCount(session)} |-> Chunk(session, by)],
       Expire(ClearedChunks(cookies, ChunkCount(session))))

ClearSession(cookies) == Expire(ClearedChunks(cookies, 0))

ClearLeg(name) == Expire({name})
WriteLeg(name, value) == [n \in {name} |-> value]

\* What a browser does with them.
Store(cookies, headers) == Both(headers, cookies)

WithGatewayToken(session, token) ==
  [session EXCEPT !.gateway = token, !.rejected = FALSE]
WithIdpToken(session, token) == [session EXCEPT !.idp = token]
GatewayTokenRejected(session) ==
  [session EXCEPT !.gateway = None, !.rejected = TRUE]

-----------------------------------------------------------------------------
(* Requests.                                                               *)

\* alone: no other request was under way while it was.
Unsent ==
  [kind |-> "none", stage |-> "unsent", arg |-> None, cookies |-> Expire(Names),
   session |-> None, alone |-> TRUE,
   page |-> "none", headers |-> Expire({})]

\* What is left of a request that is over.
Done == [Unsent EXCEPT !.stage = "done"]

InFlight == {r \in HttpRequests : requests[r].stage \notin {"unsent", "done"}}

\* The browser sends a request with the cookies it holds.
Send(r, kind, arg) ==
  /\ requests[r].stage = "unsent"
  /\ Cardinality(InFlight) < MaxInFlight
  /\ requests' = [q \in HttpRequests |->
       IF q = r
       THEN [Unsent EXCEPT !.kind = kind, !.stage = "serving", !.arg = arg,
                           !.cookies = jar, !.session = ReadSession(jar),
                           !.alone = InFlight = {}]
       ELSE IF q \in InFlight THEN [requests[q] EXCEPT !.alone = FALSE] ELSE requests[q]]
  /\ mishap' = (mishap \/ InFlight # {})
  /\ UNCHANGED <<jar, gateway>>

Serving(r, kind) == requests[r].kind = kind /\ requests[r].stage = "serving"

\* The handler of r is done: what it answers, with which cookies.
Respond(r, page, headers) ==
  requests' = [requests EXCEPT ![r].stage = "answered", ![r].page = page,
                               ![r].headers = headers]

\* person: whom the page was opened as, once the provider has said so.
Opened(by, at, person) == [by |-> by, at |-> at, person |-> person]

\* The response is there: the cookies first, then the page.
Arrive(r) ==
  /\ requests[r].stage = "answered"
  /\ jar' = Store(jar, requests[r].headers)
  /\ requests' = [requests EXCEPT ![r] = Done]
  /\ pages' = IF requests[r].page \in {"login", "authorize"}
              THEN pages \cup {Opened(r, requests[r].page, None)} ELSE pages
  /\ UNCHANGED <<idp, gateway, mishap>>

\* The tab was closed.
Lose(r) ==
  /\ requests[r].stage = "answered"
  /\ requests' = [requests EXCEPT ![r] = Done]
  /\ mishap' = TRUE
  /\ UNCHANGED <<jar, pages, idp, gateway>>

\* Something on the way threw: 500, and no cookie is set.
Throw(r) ==
  /\ requests[r].stage \in {"serving", "read", "retry", "listing", "listed"}
  /\ Respond(r, "fault", Expire({}))
  /\ mishap' = TRUE
  /\ UNCHANGED <<jar, pages, idp, gateway>>

\* A leg lives ten minutes.
LegExpires(name) ==
  /\ jar[name] # None
  /\ jar' = [jar EXCEPT ![name] = None]
  /\ UNCHANGED <<requests, pages, idp, gateway, mishap>>

-----------------------------------------------------------------------------
(* Hop 0: who you are.                                                     *)

\* The old session goes before the login page is shown.  arg: what the
\* sign-in is for.
Signin(r) ==
  /\ Serving(r, "signin")
  /\ Respond(r, "login",
       Both(ClearSession(requests[r].cookies),
            WriteLeg("cg_signin", [state |-> r, next |-> requests[r].arg])))
  /\ UNCHANGED <<jar, pages, idp, gateway, mishap>>

\* prompt=login: a password is typed, and the browser is sent back with a code.
LogIn(page, person, r) ==
  /\ page.at = "login"
  /\ Send(r, "callback", [state |-> page.by, person |-> person])
  /\ idp' = [idp EXCEPT !.session = person]
  /\ pages' = pages \ {page}

\* Mutant of Confirms: a 200 is a confirmation.
ConfirmsAnybody(flow, email) == {"not_authorized", "verified", "authorized"}

\* confirmUser: Arcade answers another person's flow with a 200, and says
\* user_mismatch in the body.
Confirms(flow, email) ==
  IF OwnerOf[flow] = email THEN {"not_authorized", "verified", "authorized"}
  ELSE {"not_authorized"}

\* Then one fetch of next_uri, whose status is logged and not looked at.
CompleteVerification(r, flow, email, headers) ==
  \E page \in Confirms(flow, email) : Respond(r, page, headers)

\* A callback belongs to the leg this browser holds.
StartedHere(leg, request) == leg # None /\ leg.state = request.arg.state

\* fetchUserinfo: the email, or one of three reasons there is none.
UserinfoAnswers == {"email", "request-failed", "unreadable", "no-email-claim"}

\* The callback: the leg of this browser, the code exchanged unless the
\* provider refuses it, the email read.
SigninCallback(r) ==
  LET request == requests[r]
      leg == request.cookies["cg_signin"]
      flow == request.cookies["cg_arcade_flow"]
      session == Session(request.arg.person, None, Token(r, 0), FALSE)
      headers == Both(ClearLeg("cg_signin"), WriteSession(request.cookies, session, r))
      parked == Both(headers, ClearLeg("cg_arcade_flow"))
  IN
  /\ Serving(r, "callback")
  /\ \/ /\ ~StartedHere(leg, request)
        /\ Respond(r, "not_started_here", ClearLeg("cg_signin"))
        /\ UNCHANGED idp
     \/ /\ StartedHere(leg, request)
        /\ Respond(r, "refused", ClearLeg("cg_signin"))
        /\ UNCHANGED idp
     \/ /\ StartedHere(leg, request)
        /\ idp' = [idp EXCEPT !.grants[r] =
                     [person |-> session.email, gen |-> 0, revoked |-> FALSE]]
        /\ \E userinfo \in UserinfoAnswers :
             \/ /\ userinfo # "email"
                /\ Respond(r, userinfo, ClearLeg("cg_signin"))
             \/ /\ userinfo = "email" /\ flow # None
                /\ CompleteVerification(r, flow, session.email, parked)
             \/ /\ userinfo = "email" /\ flow = None
                /\ IF leg.next = "verify"
                   THEN Respond(r, "expired", parked)
                   ELSE Respond(r, "signed_in", headers)
  /\ UNCHANGED <<jar, pages, gateway, mishap>>

Signout(r) ==
  /\ Serving(r, "signout")
  /\ Respond(r, "home", Both(ClearSession(requests[r].cookies), Expire(LegNames)))
  /\ UNCHANGED <<jar, pages, idp, gateway, mishap>>

-----------------------------------------------------------------------------
(* Hop 1: the gateway token.                                               *)

\* discoverGateway and the registration: one client per process, or a step on
\* the way that failed and will be tried again.
GatewayClients == {"client", "none"}

GatewayStart(r) ==
  /\ Serving(r, "start")
  /\ \/ /\ requests[r].session = None
        /\ Respond(r, "signin_first", Expire({}))
     \/ /\ requests[r].session # None
        /\ \E client \in GatewayClients :
             IF client = "none" THEN Respond(r, "no_client", Expire({}))
             ELSE Respond(r, "authorize", WriteLeg("cg_gateway", [state |-> r]))
  /\ UNCHANGED <<jar, pages, idp, gateway, mishap>>

\* The gateway takes whoever the identity provider knows in this browser to
\* its consent screen,
Authorize(page) ==
  /\ page.at = "authorize"
  /\ idp.session # None
  /\ pages' = (pages \ {page}) \cup {Opened(page.by, "consent", idp.session)}
  /\ UNCHANGED <<jar, requests, idp, gateway, mishap>>

\* and, when they agree, back with a code.
Consent(page, r) ==
  /\ page.at = "consent"
  /\ Send(r, "gwcallback", [state |-> page.by, person |-> page.person])
  /\ pages' = pages \ {page}
  /\ UNCHANGED idp

GatewayCallback(r) ==
  LET request == requests[r]
      leg == request.cookies["cg_gateway"]
      kept == ClearLeg("cg_gateway")
  IN
  /\ Serving(r, "gwcallback")
  /\ \/ /\ ~(StartedHere(leg, request) /\ request.session # None)
        /\ Respond(r, "not_started_here", kept)
        /\ UNCHANGED gateway
     \/ /\ StartedHere(leg, request) /\ request.session # None
        /\ \/ \* an error, a refused code, or no access_token in the answer
              /\ Respond(r, "refused", kept)
              /\ UNCHANGED gateway
           \/ /\ gateway' = [gateway EXCEPT ![r] =
                   [person |-> request.arg.person, gen |-> 0, refuses |-> {}]]
              /\ Respond(r, "connected",
                   Both(kept, WriteSession(request.cookies,
                                WithGatewayToken(request.session, Token(r, 0)), r)))
  /\ UNCHANGED <<jar, pages, idp, mishap>>

\* The gateway stops taking a bearer, for a reason of its own.
Refuses(family, gen) ==
  /\ gateway[family] # None
  /\ gen \in 0..gateway[family].gen
  /\ gen \notin gateway[family].refuses
  /\ gateway' = [gateway EXCEPT ![family].refuses = @ \cup {gen}]
  /\ UNCHANGED <<jar, requests, pages, idp, mishap>>

\* probeGatewayToken: one initialize with the bearer.
Probed(token) ==
  {"unreachable",
   IF token.gen \in gateway[token.family].refuses THEN "rejected" ELSE "accepted"}

\* A refresh is answered with the next bearer of the grant.
Refreshable(token) == gateway[token.family].gen < MaxGen

Refreshed(token) == Token(token.family, gateway[token.family].gen + 1)

Refresh(token) ==
  gateway' = [gateway EXCEPT ![token.family].gen = @ + 1]

\* reauthorize: the bearer is dropped, the sign-in is not, and the person is
\* shown where to authorize again.
Reauthorize(r, session) ==
  Respond(r, "card", WriteSession(requests[r].cookies, GatewayTokenRejected(session), r))

\* chat, with no bearer to run the turn with: 401 if there never was one, and
\* the card if it was refused or cannot be renewed.
Bearerless(r, session) ==
  IF session = None \/ (session.gateway = None /\ ~session.rejected)
  THEN Respond(r, "unauthorized", Expire({}))
  ELSE Reauthorize(r, session)

\* liveGatewayToken: the bearer held, or, close to its expiry, the next one.
LiveGatewayToken(r) ==
  LET session == requests[r].session
      Settled(current) == [requests EXCEPT ![r].stage = "read", ![r].session = current]
      held == session # None /\ session.gateway # None
  IN
  /\ Serving(r, "chat")
  /\ \/ Bearerless(r, session) /\ UNCHANGED gateway
     \/ held /\ requests' = Settled(session) /\ UNCHANGED gateway
     \/ /\ held /\ Refreshable(session.gateway)
        /\ Refresh(session.gateway)
        /\ requests' = Settled(WithGatewayToken(session, Refreshed(session.gateway)))
  /\ UNCHANGED <<jar, pages, idp, mishap>>

\* A refreshed session is sealed on every way out.
Resealed(r) ==
  IF requests[r].session = ReadSession(requests[r].cookies) THEN Expire({})
  ELSE WriteSession(requests[r].cookies, requests[r].session, r)

\* The bearer is settled.  A turn that cannot run after all is answered with
\* the same cookies, and one refused for the second time is not run.
Probe(r) ==
  LET request == requests[r] IN
  /\ request.kind = "chat" /\ request.stage \in {"read", "retry"}
  /\ \E probe \in Probed(request.session.gateway) :
       \/ /\ probe = "unreachable"
          /\ Respond(r, "unreachable", Resealed(r))
       \/ /\ probe = "accepted"
          /\ \E page \in {"turn", "no_tools"} : Respond(r, page, Resealed(r))
       \/ /\ probe = "rejected" /\ request.stage = "retry"
          /\ Reauthorize(r, request.session)
  /\ UNCHANGED <<jar, pages, idp, gateway, mishap>>

\* Refused once: refreshed once, whatever the clock says.
RefreshRefused(r) ==
  LET session == requests[r].session IN
  /\ requests[r].kind = "chat" /\ requests[r].stage = "read"
  /\ "rejected" \in Probed(session.gateway)
  /\ \/ /\ Refreshable(session.gateway)
        /\ Refresh(session.gateway)
        /\ requests' = [requests EXCEPT ![r].stage = "retry",
                          ![r].session = WithGatewayToken(@, Refreshed(session.gateway))]
     \/ Reauthorize(r, session) /\ UNCHANGED gateway
  /\ UNCHANGED <<jar, pages, idp, mishap>>

-----------------------------------------------------------------------------
(* Hop 2: the custom verifier.                                             *)

\* arg: the flow, and whether the request names a person, which it may not.
Verify(r) ==
  LET request == requests[r] IN
  /\ Serving(r, "verify")
  /\ \/ /\ request.arg.identity
        /\ Respond(r, "no_identity_taken", Expire({}))
     \/ /\ ~request.arg.identity /\ request.session = None
        /\ Respond(r, "signin_first", WriteLeg("cg_arcade_flow", request.arg.flow))
     \/ /\ ~request.arg.identity /\ request.session # None
        /\ CompleteVerification(r, request.arg.flow, request.session.email, Expire({}))
  /\ UNCHANGED <<jar, pages, idp, gateway, mishap>>

-----------------------------------------------------------------------------
(* The loan book, read as the person signed in.                            *)

Rotates(token) ==
  /\ ~idp.grants[token.family].revoked
  /\ token.gen = idp.grants[token.family].gen

\* The provider rotates: a spent refresh token costs the whole grant.
Rotate(token) ==
  idp' = IF Rotates(token)
         THEN [idp EXCEPT !.grants[token.family].gen = @ + 1]
         ELSE [idp EXCEPT !.grants[token.family].revoked = TRUE]

\* Mutant of MayRenew: a page renews as well.
AnyMayRenew(r) == TRUE

\* usableToken: only a caller that can store the new one presents the refresh
\* token.
MayRenew(r) == requests[r].kind = "loans"

\* The loan book decides whether a bearer is live; a provider that has revoked
\* its grant no longer names anybody for it.
BookAnswers(grant) ==
  {"expired", "unavailable"} \cup (IF grant.revoked THEN {} ELSE {"loaded"})

\* sessionSurface: a page lists its tools first, with the bearer held or, close
\* to its expiry, the next one.  What it refreshes to do so it cannot store.
ListTools(r) ==
  LET session == requests[r].session
      held == session # None /\ session.gateway # None
      Stands(stage, current) ==
        [requests EXCEPT ![r].stage = stage, ![r].session = current]
  IN
  /\ Serving(r, "page")
  /\ \/ requests' = Stands("listed", session) /\ UNCHANGED gateway
     \/ held /\ requests' = Stands("listing", session) /\ UNCHANGED gateway
     \/ /\ held /\ Refreshable(session.gateway)
        /\ Refresh(session.gateway)
        /\ requests' = Stands("listing", WithGatewayToken(session, Refreshed(session.gateway)))
  /\ UNCHANGED <<jar, pages, idp, mishap>>

\* listWith and advertise: the listing, on a connection of its own.  A bearer
\* the gateway refuses is refreshed once, and the second listing is final.
ListWith(r) ==
  LET session == requests[r].session IN
  /\ requests[r].stage = "listing"
  /\ requests' = [requests EXCEPT ![r].stage = "listed"]
  /\ \/ UNCHANGED gateway
     \/ /\ "rejected" \in Probed(session.gateway)
        /\ Refreshable(session.gateway)
        /\ Refresh(session.gateway)
  /\ UNCHANGED <<jar, pages, idp, mishap>>

\* Nothing but the loan book says that a bearer is dead: one whose renewal was
\* refused is presented like any other, to a book that asks the provider then.
ReadLoanBook(r) ==
  LET session == requests[r].session
      next == Token(session.idp.family, session.idp.gen + 1)
      Reading(headers) ==
        \E page \in BookAnswers(idp'.grants[session.idp.family]) : Respond(r, page, headers)
      Sealed(renewed) ==
        IF requests[r].kind = "loans" THEN WriteSession(requests[r].cookies, renewed, r)
        ELSE Expire({})
  IN
  /\ Serving(r, "loans") \/ requests[r].stage = "listed"
  /\ \/ /\ session = None
        /\ UNCHANGED idp
        /\ Respond(r, "signed_out", Expire({}))
     \/ /\ session # None
        /\ UNCHANGED idp
        /\ Reading(Expire({}))
     \/ /\ session # None /\ MayRenew(r)
        /\ session.idp.gen < MaxGen
        /\ Rotate(session.idp)
        /\ Reading(IF Rotates(session.idp) THEN Sealed(WithIdpToken(session, next))
                   ELSE Expire({}))
  /\ UNCHANGED <<jar, pages, gateway, mishap>>

-----------------------------------------------------------------------------

\* A browser that has never been here, or one a person is signed in on, with
\* a gateway token or without.
SignInInit ==
  /\ \E person \in People \cup {None} : \E gw \in {None, Token(Earlier, 0)} :
       /\ person = None => gw = None
       /\ jar = IF person = None THEN Expire(Names)
                ELSE Store(Expire(Names),
                       WriteSession(Expire(Names),
                         Session(person, gw, Token(Earlier, 0), FALSE), Earlier))
       /\ idp = [session |-> person,
                 grants |-> [f \in Families |->
                   IF f = Earlier /\ person # None
                   THEN [person |-> person, gen |-> 0, revoked |-> FALSE] ELSE None]]
       /\ gateway = [f \in Families |->
            IF f = Earlier /\ gw # None
            THEN [person |-> person, gen |-> 0, refuses |-> {}] ELSE None]
  /\ requests = [r \in HttpRequests |-> Unsent]
  /\ pages = {}
  /\ mishap = FALSE

Browse(r) ==
  /\ \/ \E kind \in {"signout", "start", "chat", "loans", "page"} : Send(r, kind, None)
     \/ \E next \in {"start", "verify"} : Send(r, "signin", next)
     \/ \E flow \in Flows, identity \in BOOLEAN :
          Send(r, "verify", [flow |-> flow, identity |-> identity])
  /\ UNCHANGED <<pages, idp>>

SignInNext ==
  \/ \E r \in HttpRequests :
       \/ Browse(r) \/ Arrive(r) \/ Lose(r) \/ Throw(r)
       \/ Signin(r) \/ SigninCallback(r) \/ Signout(r)
       \/ GatewayStart(r) \/ GatewayCallback(r) \/ Verify(r)
       \/ LiveGatewayToken(r) \/ Probe(r) \/ RefreshRefused(r)
       \/ ListTools(r) \/ ListWith(r) \/ ReadLoanBook(r)
       \/ \E page \in pages : Consent(page, r) \/ \E person \in People : LogIn(page, person, r)
  \/ \E page \in pages : Authorize(page)
  \/ \E name \in LegNames : LegExpires(name)
  \/ \E f \in Families : \E gen \in 0..MaxGen : Refuses(f, gen)

SignInSpec == SignInInit /\ [][SignInNext]_signInVars

-----------------------------------------------------------------------------
(* Properties.                                                             *)

\* The session a response seals; None: it clears it, or leaves it alone.
SealedBy(headers) ==
  IF "cg_session.0" \in DOMAIN headers /\ headers["cg_session.0"] # None
  THEN headers["cg_session.0"].session ELSE None

Touches(headers) == DOMAIN headers \cap SessionNames # {}

\* A response that no other request overlapped is taken whole: the browser
\* then holds the session it seals, or none, whatever was held before and in
\* however many chunks.
SealTakes ==
  [][\A r \in HttpRequests :
       /\ Arrive(r) /\ requests[r].alone
       /\ Touches(requests[r].headers)
       => ReadSession(jar') = SealedBy(requests[r].headers)]_signInVars

\* A page that says a tool is authorized says it of the person whose flow it
\* is, through sign-ins, parked flows and changes of person.
AuthorizedAsItsOwner ==
  \A r \in HttpRequests :
    requests[r].page = "authorized" =>
      LET request == requests[r] IN
      IF request.kind = "verify" THEN OwnerOf[request.arg.flow] = request.session.email
      ELSE OwnerOf[request.cookies["cg_arcade_flow"]] = request.arg.person

\* The grant behind a sign-in is revoked only when two requests overlapped or
\* an answer never came: reading the loan book, in pages and polls one after
\* another, never presents a spent refresh token.
SignInSurvives ==
  \A f \in Families :
    idp.grants[f] # None /\ idp.grants[f].revoked => mishap

\* What they rest on, and the types.  A bearer is held only of a grant that was given.
GatewayGrant == [person : People, gen : Nat, refuses : SUBSET Nat]
Given(grants, grant) == [family : {f \in Families : grants[f] \in grant}, gen : Nat]
Sessions ==
  [email : People, gateway : {None} \cup Given(gateway, GatewayGrant),
   idp : Given(idp.grants, IdpGrant), rejected : BOOLEAN]

Worth(name, sessions) ==
  CASE name = "cg_signin" -> [state : HttpRequests, next : {"start", "verify"}]
    [] name = "cg_gateway" -> [state : HttpRequests]
    [] name = "cg_arcade_flow" -> Flows
    [] OTHER -> [session : sessions, by : Families]
Cookies(cookies, sessions) ==
  /\ DOMAIN cookies \subseteq Names
  /\ \A name \in DOMAIN cookies : cookies[name] \in {None} \cup Worth(name, sessions)

Stages == {"unsent", "serving", "read", "retry", "listing", "listed", "answered", "done"}
Arguments(kind) ==
  CASE kind = "signin" -> {"start", "verify"}
    [] kind \in {"callback", "gwcallback"} -> [state : HttpRequests, person : People]
    [] kind = "verify" -> [flow : Flows, identity : BOOLEAN]
    [] OTHER -> {None}

Asked(q, sessions) ==
  /\ DOMAIN q = DOMAIN Unsent
  /\ q.stage \in Stages /\ q.arg \in Arguments(q.kind) /\ q.alone \in BOOLEAN
  /\ Cookies(q.cookies, sessions) /\ DOMAIN q.cookies = Names
  /\ q.session \in {None} \cup sessions
  /\ q.stage \in {"read", "retry", "listing"} =>
       q.session # None /\ q.session.gateway # None
  /\ Cookies(q.headers, sessions)
  /\ q.page # "none" => q.stage = "answered"

SignInTypeOK ==
  /\ Cookies(jar, Sessions) /\ DOMAIN jar = Names
  /\ DOMAIN requests = HttpRequests
  /\ \A r \in HttpRequests : Asked(requests[r], Sessions)
  /\ pages \subseteq [by : HttpRequests, at : {"login", "authorize", "consent"},
                     person : {None} \cup People]
  /\ \A page \in pages : page.at = "consent" => page.person \in People
  /\ idp \in [session : {None} \cup People, grants : [Families -> {None} \cup IdpGrant]]
  /\ gateway \in [Families -> {None} \cup GatewayGrant]
  /\ mishap \in BOOLEAN

\* A request served alone read what the browser still holds.
AloneIsAlone ==
  \A r \in InFlight : requests[r].alone =>
    InFlight = {r} /\ \A name \in SessionNames : jar[name] = requests[r].cookies[name]

\* An answer that writes or clears the session does so whole, over the cookies it
\* was asked with; until then a handler holds the sign-in they carried.
Replaces(q) == q.stage = "answered" /\ Touches(q.headers)
Faithful(q) ==
  /\ Replaces(q) => ReadSession(Store(q.cookies, q.headers)) = SealedBy(q.headers)
  /\ q.stage \notin {"unsent", "answered", "done"} /\ q.session # None =>
       LET held == ReadSession(q.cookies) IN held # None /\ held.idp = q.session.idp

\* A session whose refresh token is the next its grant takes.
Unspent(session, grants, sent) ==
  session # None =>
    LET family == session.idp.family IN
    /\ grants[family].gen = session.idp.gen
    /\ family \in HttpRequests => sent[family].stage \in {"answered", "done"}

\* Until two requests overlap or an answer is lost, what the browser holds or is
\* about to be given is current.
Undisturbed ==
  /\ \A r \in InFlight : requests[r].alone
  /\ \A f \in Families : idp.grants[f] \in IdpGrant => ~idp.grants[f].revoked
  /\ \A r \in InFlight : Replaces(requests[r]) =>
       Unspent(SealedBy(requests[r].headers), idp.grants, requests)
  /\ (\A r \in InFlight : ~Replaces(requests[r])) =>
       Unspent(ReadSession(jar), idp.grants, requests)

SignInInv ==
  /\ SignInTypeOK /\ AloneIsAlone
  /\ \A r \in HttpRequests : Faithful(requests[r])
  /\ mishap \/ Undisturbed
  /\ AuthorizedAsItsOwner
=============================================================================
