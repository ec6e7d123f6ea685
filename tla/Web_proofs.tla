------------------------------ MODULE Web_proofs ----------------------------
(***************************************************************************)
(* What the web application keeps: the wait of ApprovalWait, for any       *)
(* people, requests, turns and failures, and then the sign-in of SignIn,   *)
(* for any people, requests, flows and lost answers.                       *)
(*                                                                         *)
(* A resume changes the page and the turns together, sometimes from a page *)
(* that is itself half way through a step, so the part of the invariant    *)
(* about the two is stated of any page p and turns s: Coherent.            *)
(*                                                                         *)
(* A sign-in is what its headers do to the cookies: a response leaves the  *)
(* session's pieces, clears them or writes them all (Leaves, Clears,       *)
(* Writes).  Each handler comes down to one of a few moves of a request:   *)
(* sent, going on, answered, over.                                         *)
(***************************************************************************)
EXTENDS ApprovalWait, SignIn, FiniteSetTheorems, TLAPS

-----------------------------------------------------------------------------
(* The wait.                                                               *)

Unfinished(p, s, n) == s[n].generation = p.generation /\ s[n].phase # "ended"

TurnsAgree(p, s) ==
  \A n \in DOMAIN s :
    /\ s[n].generation <= p.generation
    /\ s[n].generation = p.generation => s[n].persona = p.signedInAs

TakenOnce(s) ==
  \A m, n \in DOMAIN s : s[m].resumes = s[n].resumes /\ s[m].resumes # Null => m = n

OwnDecisions(s) ==
  \A n \in DOMAIN s : s[n].resumes # Null =>
    /\ store[s[n].resumes].requester_id = s[n].persona
    /\ store[s[n].resumes].status = "decided"

OneUnfinished(p, s) ==
  /\ \A m, n \in DOMAIN s : Unfinished(p, s, m) /\ Unfinished(p, s, n) => m = n
  /\ p.inFlight = \E n \in DOMAIN s : Unfinished(p, s, n)

Raised(p, s) ==
  \A n \in DOMAIN s : s[n].raised # Null =>
    /\ store[s[n].raised].status # "unused"
    /\ store[s[n].raised].requester_id = s[n].persona
    /\ \A m \in DOMAIN s : s[m].raised = s[n].raised => m = n
    /\ s[n].phase # "ended" =>
         /\ p.waiting # s[n].raised
         /\ \A m \in DOMAIN s : s[m].resumes # s[n].raised

Held(p, s) ==
  p.waiting # Null =>
    /\ store[p.waiting].status # "unused"
    /\ store[p.waiting].requester_id = p.signedInAs
    /\ \A n \in DOMAIN s : s[n].resumes # p.waiting

Told(p) ==
  /\ p.queued # Null => store[p.queued].status = "decided"
  /\ \A r \in p.pendingDecision : store[r].status = "decided"

Coherent(p, s) ==
  /\ p \in Page /\ s \in Seq(Turn)
  /\ TurnsAgree(p, s)
  /\ TakenOnce(s)
  /\ OwnDecisions(s)
  /\ OneUnfinished(p, s)
  /\ Raised(p, s)
  /\ Held(p, s)
  /\ Told(p)

\* The rest of the invariant.
Environment ==
  /\ store \in [Requests -> Request]
  /\ socket \in {"down", "opening", "up"}
  /\ wire \in Seq(Requests)
  /\ checks \subseteq Check
  /\ unchecked \subseteq Requests /\ displaced \subseteq Requests
  /\ {asks, drops, faults} \subseteq Nat
  /\ \A i \in DOMAIN wire : store[wire[i]].status = "decided"
  /\ \A c \in checks : /\ store[c.id].status # "unused"
                       /\ c.said = "decided" => store[c.id].status = "decided"

LEMMA Parts == IInv <=> Coherent(page, turns) /\ Environment
BY DEF IInv, TypeOK, ResumedOnce, ResumesItsOwnDecision, OneStream, TurnsOfTheirTime,
       RaisedByOneTurn, HeldIsOurs, WordOfADecision, Current, Coherent, Environment,
       TurnsAgree, TakenOnce, OwnDecisions, OneUnfinished, Unfinished, Raised, Held, Told

-----------------------------------------------------------------------------
(* The two ways the turns change.                                          *)

LEMMA Appended ==
  ASSUME NEW s \in Seq(Turn), NEW t \in Turn
  PROVE  LET u == Append(s, t)
         IN /\ u \in Seq(Turn)
            /\ DOMAIN s = 1..Len(s) /\ DOMAIN u = 1..(Len(s) + 1) /\ Len(s) \in Nat
            /\ u[Len(s) + 1] = t
            /\ \A n \in DOMAIN s : u[n] = s[n] /\ n # Len(s) + 1
            /\ \A n \in DOMAIN u : n \in DOMAIN s \/ n = Len(s) + 1
  OBVIOUS

LEMMA Changed ==
  ASSUME NEW s \in Seq(Turn), NEW n \in DOMAIN s, NEW t \in Turn
  PROVE  LET u == [s EXCEPT ![n] = t]
         IN /\ u \in Seq(Turn)
            /\ DOMAIN u = DOMAIN s
            /\ u[n] = t
            /\ \A m \in DOMAIN s : m # n => u[m] = s[m]
  OBVIOUS

-----------------------------------------------------------------------------
(* A resume, from a page and turns that are coherent.                      *)

LEMMA ResumeCoherent ==
  ASSUME Environment,
         NEW p, NEW s, Coherent(p, s),
         p.signedInAs = page.signedInAs, p.generation = page.generation,
         NEW id \in Requests, store[id].status = "decided",
         Resume(p, s, id)
  PROVE  Coherent(page', turns')
<1>1. CASE p.waiting # id
  <2>1. page' = p /\ turns' = s
    BY <1>1 DEF Resume
  <2> QED BY <2>1
<1>2. CASE p.waiting = id /\ p.inFlight
  <2>1. page' = Queued(p, id) /\ turns' = s
    BY <1>2 DEF Resume
  <2>2. /\ page' \in Page
        /\ page'.queued = IF p.queued = Null THEN id ELSE p.queued
        /\ page'.signedInAs = p.signedInAs /\ page'.generation = p.generation
        /\ page'.inFlight = p.inFlight /\ page'.waiting = p.waiting
        /\ page'.pendingDecision = p.pendingDecision
    BY <2>1 DEF Queued, Coherent, Page
  <2> QED
    BY <2>1, <2>2 DEF Coherent, TurnsAgree, OneUnfinished, Unfinished, Raised, Held, Told
<1>3. CASE p.waiting = id /\ ~p.inFlight
  <2> DEFINE t == NewTurn(id)
             u == Append(s, t)
             k == Len(s) + 1
  <2>1. page' = Taken(p) /\ turns' = u
    BY <1>3 DEF Resume
  <2>2. /\ page' \in Page /\ page'.inFlight = TRUE /\ page'.waiting = Null
        /\ page'.signedInAs = p.signedInAs /\ page'.generation = p.generation
        /\ page'.queued = p.queued /\ page'.pendingDecision = p.pendingDecision
    BY <2>1 DEF Taken, Coherent, Page
  <2>3. /\ t \in Turn /\ t.resumes = id /\ t.raised = Null /\ t.phase = "sent"
        /\ t.persona = p.signedInAs /\ t.generation = p.generation
    BY DEF NewTurn, Turn, Coherent, Page
  <2>4. /\ u \in Seq(Turn)
        /\ \A n \in DOMAIN s : n \in DOMAIN u /\ u[n] = s[n] /\ n # k
        /\ \A n \in DOMAIN u : n \in DOMAIN s \/ n = k
        /\ k \in DOMAIN u /\ u[k] = t
    BY <2>3, Appended DEF Coherent
  <2> HIDE DEF t, u, k
  <2>5. /\ id # Null
        /\ store[id].requester_id = p.signedInAs
        /\ \A n \in DOMAIN s : s[n].resumes # id
    BY <1>3, WaitAssumption DEF Coherent, Held
  <2>6. TurnsAgree(page', u)
    BY <2>2, <2>3, <2>4 DEF Coherent, TurnsAgree, Page
  <2>7. TakenOnce(u)
    BY <2>3, <2>4, <2>5 DEF Coherent, TakenOnce
  <2>8. OwnDecisions(u)
    BY <2>3, <2>4, <2>5 DEF Coherent, OwnDecisions
  <2>9. OneUnfinished(page', u)
    <3>1. \A n \in DOMAIN s : ~Unfinished(p, s, n)
      BY <1>3 DEF Coherent, OneUnfinished
    <3>2. \A n \in DOMAIN u : Unfinished(page', u, n) <=> n = k
      BY <2>2, <2>3, <2>4, <3>1 DEF Unfinished
    <3> QED BY <2>2, <2>4, <3>2 DEF OneUnfinished
  <2>10. Raised(page', u)
    <3>1. ASSUME NEW n \in DOMAIN u, u[n].raised # Null
          PROVE  /\ store[u[n].raised].status # "unused"
                 /\ store[u[n].raised].requester_id = u[n].persona
                 /\ \A m \in DOMAIN u : u[m].raised = u[n].raised => m = n
                 /\ u[n].phase # "ended" =>
                      /\ page'.waiting # u[n].raised
                      /\ \A m \in DOMAIN u : u[m].resumes # u[n].raised
      <4>1. n \in DOMAIN s /\ u[n] = s[n]
        BY <2>3, <2>4, <3>1
      <4> QED BY <1>3, <2>2, <2>3, <2>4, <3>1, <4>1 DEF Coherent, Raised
    <3> QED BY <3>1 DEF Raised
  <2>11. Held(page', u) /\ Told(page')
    BY <2>2 DEF Coherent, Held, Told
  <2> QED
    BY <2>1, <2>2, <2>4, <2>6, <2>7, <2>8, <2>9, <2>10, <2>11 DEF Coherent
<1> QED BY <1>1, <1>2, <1>3 DEF Coherent, Page

\* The end of the page's own turn n, from page p: the card is the one there was
\* or the request n raised.
LEMMA ReleasedCoherent ==
  ASSUME Environment, Coherent(page, turns),
         NEW n \in DOMAIN turns, Unfinished(page, turns, n),
         NEW p \in Page, p.signedInAs = page.signedInAs, p.generation = page.generation,
         Told(p),
         \/ p.waiting = page.waiting
         \/ turns[n].raised # Null /\ p.waiting = turns[n].raised,
         Released(n, p)
  PROVE  Coherent(page', turns')
<1> DEFINE free == [p EXCEPT !.inFlight = FALSE, !.queued = Null]
           over == [turns[n] EXCEPT !.phase = "ended"]
           ended == [turns EXCEPT ![n].phase = "ended"]
<1>1. /\ free \in Page /\ free.inFlight = FALSE /\ free.queued = Null
      /\ free.signedInAs = page.signedInAs /\ free.generation = page.generation
      /\ free.waiting = p.waiting /\ free.pendingDecision = p.pendingDecision
  BY DEF Page
<1>2. turns \in Seq(Turn) /\ turns[n] \in Turn
  BY DEF Coherent
<1>3. /\ over \in Turn /\ over.phase = "ended"
      /\ over.raised = turns[n].raised /\ over.resumes = turns[n].resumes
      /\ over.persona = turns[n].persona /\ over.generation = turns[n].generation
  BY <1>2 DEF Turn
<1>4. ended = [turns EXCEPT ![n] = over]
  OBVIOUS
<1>5. /\ ended \in Seq(Turn) /\ DOMAIN ended = DOMAIN turns
      /\ ended[n] = over /\ \A m \in DOMAIN turns : m # n => ended[m] = turns[m]
  BY <1>2, <1>3, <1>4, Changed
<1>6. \A m \in DOMAIN turns :
        /\ ended[m].raised = turns[m].raised /\ ended[m].resumes = turns[m].resumes
        /\ ended[m].persona = turns[m].persona
        /\ ended[m].generation = turns[m].generation
        /\ ended[m].phase # "ended" => turns[m].phase # "ended" /\ m # n
  BY <1>3, <1>5
<1> HIDE DEF free, over, ended
<1>7. TurnsAgree(free, ended) /\ TakenOnce(ended) /\ OwnDecisions(ended)
  BY <1>1, <1>5, <1>6 DEF Coherent, TurnsAgree, TakenOnce, OwnDecisions
<1>8. OneUnfinished(free, ended)
  <2>1. \A m \in DOMAIN turns : ~Unfinished(free, ended, m)
    BY <1>1, <1>6 DEF Unfinished, Coherent, OneUnfinished
  <2> QED BY <1>1, <1>5, <2>1 DEF OneUnfinished
<1>9. Raised(free, ended)
  <2>1. ASSUME NEW m \in DOMAIN turns, turns[m].raised # Null, ended[m].phase # "ended"
        PROVE  free.waiting # turns[m].raised
    <3>1. m # n /\ turns[m].phase # "ended"
      BY <1>6, <2>1
    <3>2. page.waiting # turns[m].raised
      BY <2>1, <3>1 DEF Coherent, Raised
    <3>3. turns[n].raised # turns[m].raised
      BY <2>1, <3>1 DEF Coherent, Raised
    <3> QED BY <1>1, <3>2, <3>3
  <2>2. \A m \in DOMAIN turns : turns[m].raised # Null =>
          /\ store[turns[m].raised].status # "unused"
          /\ store[turns[m].raised].requester_id = turns[m].persona
          /\ \A k \in DOMAIN turns : turns[k].raised = turns[m].raised => k = m
          /\ turns[m].phase # "ended" =>
               \A k \in DOMAIN turns : turns[k].resumes # turns[m].raised
    BY DEF Coherent, Raised
  <2> QED BY <1>5, <1>6, <2>1, <2>2 DEF Raised
<1>10. Held(free, ended)
  <2>1. CASE p.waiting = page.waiting
    BY <1>1, <1>5, <1>6, <2>1 DEF Coherent, Held
  <2>2. CASE turns[n].raised # Null /\ p.waiting = turns[n].raised
    <3>1. turns[n].persona = page.signedInAs /\ turns[n].phase # "ended"
      BY DEF Unfinished, Coherent, TurnsAgree
    <3>2. /\ store[p.waiting].status # "unused"
          /\ store[p.waiting].requester_id = page.signedInAs
          /\ \A m \in DOMAIN turns : turns[m].resumes # p.waiting
      BY <2>2, <3>1 DEF Coherent, Raised
    <3> QED BY <1>1, <1>5, <1>6, <3>2 DEF Held
  <2> QED BY <2>1, <2>2
<1>11. Told(free)
  BY <1>1 DEF Told
<1>12. Coherent(free, ended)
  BY <1>1, <1>5, <1>7, <1>8, <1>9, <1>10, <1>11 DEF Coherent
<1>13. CASE p.queued = Null
  <2>1. page' = free /\ turns' = ended
    BY <1>13 DEF Released, free, ended
  <2> QED BY <1>12, <2>1
<1>14. CASE p.queued # Null
  <2>1. Resume(free, ended, p.queued)
    BY <1>14 DEF Released, free, ended
  <2>2. p.queued \in Requests /\ store[p.queued].status = "decided"
    BY <1>14 DEF Page, Told
  <2> QED BY <1>1, <1>12, <2>1, <2>2, ResumeCoherent
<1> QED BY <1>13, <1>14

-----------------------------------------------------------------------------
(* The steps.  Most leave the store alone.                                 *)

LEMMA Kept ==
  ASSUME store' = store, Coherent(page', turns'), Environment'
  PROVE  IInv'
BY DEF IInv, TypeOK, ResumedOnce, ResumesItsOwnDecision, OneStream, TurnsOfTheirTime,
       RaisedByOneTurn, HeldIsOurs, WordOfADecision, Current, Coherent, Environment,
       TurnsAgree, TakenOnce, OwnDecisions, OneUnfinished, Unfinished, Raised, Held, Told

LEMMA InitStep == Init => IInv
<1> SUFFICES ASSUME Init PROVE IInv
  OBVIOUS
<1> USE DEF Init
<1>1. PICK persona \in Personas : page = SignedIn(persona, 0)
  OBVIOUS
<1>2. page \in Page /\ page.inFlight = FALSE /\ page.waiting = Null
      /\ page.queued = Null /\ page.pendingDecision = {}
  BY <1>1 DEF SignedIn, Page
<1>3. turns \in Seq(Turn) /\ DOMAIN turns = {} /\ wire \in Seq(Requests) /\ DOMAIN wire = {}
  OBVIOUS
<1>4. store \in [Requests -> Request]
  BY DEF Request
<1>5. Coherent(page, turns)
  BY <1>2, <1>3 DEF Coherent, TurnsAgree, TakenOnce, OwnDecisions, OneUnfinished,
                    Raised, Held, Told
<1>6. Environment
  BY <1>3, <1>4 DEF Environment
<1> QED BY <1>5, <1>6, Parts

LEMMA AskStep == IInv /\ Ask => IInv'
<1> SUFFICES ASSUME IInv, Ask PROVE IInv'
  OBVIOUS
<1>1. Coherent(page, turns) /\ Environment
  BY Parts
<1> DEFINE t == NewTurn(Null)
           k == Len(turns) + 1
<1>2. /\ page' \in Page /\ page'.inFlight = TRUE /\ page'.waiting = page.waiting
      /\ page'.signedInAs = page.signedInAs /\ page'.generation = page.generation
      /\ page'.queued = page.queued /\ page'.pendingDecision = page.pendingDecision
  BY <1>1 DEF Ask, Coherent, Page
<1>3. /\ t \in Turn /\ t.resumes = Null /\ t.raised = Null /\ t.phase = "sent"
      /\ t.persona = page.signedInAs /\ t.generation = page.generation
  BY <1>1 DEF NewTurn, Turn, Coherent, Page
<1>4. /\ turns' \in Seq(Turn)
      /\ \A n \in DOMAIN turns : n \in DOMAIN turns' /\ turns'[n] = turns[n] /\ n # k
      /\ \A n \in DOMAIN turns' : n \in DOMAIN turns \/ n = k
      /\ k \in DOMAIN turns' /\ turns'[k] = t
  BY <1>1, <1>3, Appended DEF Coherent, Ask
<1> HIDE DEF t, k
<1>5. TurnsAgree(page', turns')
  BY <1>1, <1>2, <1>3, <1>4 DEF Coherent, TurnsAgree, Page
<1>6. TakenOnce(turns') /\ OwnDecisions(turns')
  BY <1>1, <1>3, <1>4 DEF Coherent, TakenOnce, OwnDecisions
<1>7. OneUnfinished(page', turns')
  <2>1. \A n \in DOMAIN turns : ~Unfinished(page, turns, n)
    BY <1>1 DEF Ask, Coherent, OneUnfinished
  <2>2. \A n \in DOMAIN turns' : Unfinished(page', turns', n) <=> n = k
    BY <1>2, <1>3, <1>4, <2>1 DEF Unfinished
  <2> QED BY <1>2, <1>4, <2>2 DEF OneUnfinished
<1>8. Raised(page', turns')
  <2>1. ASSUME NEW n \in DOMAIN turns', turns'[n].raised # Null
        PROVE  /\ store[turns'[n].raised].status # "unused"
               /\ store[turns'[n].raised].requester_id = turns'[n].persona
               /\ \A m \in DOMAIN turns' : turns'[m].raised = turns'[n].raised => m = n
               /\ turns'[n].phase # "ended" =>
                    /\ page'.waiting # turns'[n].raised
                    /\ \A m \in DOMAIN turns' : turns'[m].resumes # turns'[n].raised
    <3>1. n \in DOMAIN turns /\ turns'[n] = turns[n]
      BY <1>3, <1>4, <2>1
    <3> QED BY <1>1, <1>2, <1>3, <1>4, <2>1, <3>1 DEF Coherent, Raised
  <2> QED BY <2>1 DEF Raised
<1>9. Held(page', turns') /\ Told(page')
  BY <1>1, <1>2, <1>3, <1>4 DEF Coherent, Held, Told
<1>10. Environment'
  BY <1>1 DEF Ask, Environment
<1>11. store' = store
  BY DEF Ask
<1> QED BY <1>2, <1>4, <1>5, <1>6, <1>7, <1>8, <1>9, <1>10, <1>11, Kept DEF Coherent

\* Only the phase of one turn changes, and it neither ends nor had ended.
LEMMA StartStep == ASSUME IInv, NEW n \in DOMAIN turns, Start(n) PROVE IInv'
<1>1. Coherent(page, turns) /\ Environment
  BY Parts
<1> DEFINE t == [turns[n] EXCEPT !.phase = IF Planned(turns[n]) THEN "running" ELSE "refused"]
<1>2. turns \in Seq(Turn) /\ turns[n] \in Turn
  BY <1>1 DEF Coherent
<1>3. /\ t \in Turn /\ t.phase # "ended" /\ turns[n].phase # "ended"
      /\ t.raised = turns[n].raised /\ t.resumes = turns[n].resumes
      /\ t.persona = turns[n].persona /\ t.generation = turns[n].generation
  BY <1>2 DEF Turn, Start
<1>4. turns' = [turns EXCEPT ![n] = t]
  BY DEF Start
<1> HIDE DEF t
<1>5. /\ turns' \in Seq(Turn) /\ DOMAIN turns' = DOMAIN turns
      /\ turns'[n] = t /\ \A m \in DOMAIN turns : m # n => turns'[m] = turns[m]
  BY <1>2, <1>3, <1>4, Changed
<1>6. \A m \in DOMAIN turns :
        /\ turns'[m].raised = turns[m].raised /\ turns'[m].resumes = turns[m].resumes
        /\ turns'[m].persona = turns[m].persona
        /\ turns'[m].generation = turns[m].generation
        /\ turns'[m].phase # "ended" <=> turns[m].phase # "ended"
  BY <1>3, <1>5
<1>7. page' = page /\ store' = store
  BY DEF Start
<1>8. TurnsAgree(page, turns') /\ TakenOnce(turns') /\ OwnDecisions(turns')
  BY <1>1, <1>5, <1>6 DEF Coherent, TurnsAgree, TakenOnce, OwnDecisions
<1>9. OneUnfinished(page, turns')
  <2>1. \A m \in DOMAIN turns : Unfinished(page, turns', m) <=> Unfinished(page, turns, m)
    BY <1>6 DEF Unfinished
  <2> QED BY <1>1, <1>5, <2>1 DEF Coherent, OneUnfinished
<1>10. Raised(page, turns') /\ Held(page, turns')
  BY <1>1, <1>5, <1>6 DEF Coherent, Raised, Held
<1>11. Environment'
  BY <1>1 DEF Start, Environment
<1> QED BY <1>1, <1>5, <1>7, <1>8, <1>9, <1>10, <1>11, Kept DEF Coherent

\* The request is unused until now, so nothing in the tab can name it.
LEMMA RaiseStep ==
  ASSUME IInv, NEW n \in DOMAIN turns, NEW r \in Requests, NEW seen \in BOOLEAN,
         Raise(n, r, seen)
  PROVE  IInv'
<1>1. Coherent(page, turns) /\ Environment
  BY Parts
<1> DEFINE t == [turns[n] EXCEPT !.raised = IF seen THEN r ELSE Null]
<1>2. turns \in Seq(Turn) /\ turns[n] \in Turn /\ page \in Page /\ r # Null
  BY <1>1, WaitAssumption DEF Coherent
<1>3. /\ t \in Turn /\ t.raised \in {r, Null} /\ turns[n].raised = Null
      /\ t.resumes = turns[n].resumes /\ t.phase = turns[n].phase
      /\ t.persona = turns[n].persona /\ t.generation = turns[n].generation
  BY <1>2 DEF Turn, Raise
<1>4. turns' = [turns EXCEPT ![n] = t]
  BY DEF Raise
<1> HIDE DEF t
<1>5. /\ turns' \in Seq(Turn) /\ DOMAIN turns' = DOMAIN turns
      /\ turns'[n] = t /\ \A m \in DOMAIN turns : m # n => turns'[m] = turns[m]
  BY <1>2, <1>3, <1>4, Changed
<1>6. \A m \in DOMAIN turns :
        /\ turns'[m].resumes = turns[m].resumes /\ turns'[m].phase = turns[m].phase
        /\ turns'[m].persona = turns[m].persona
        /\ turns'[m].generation = turns[m].generation
        /\ turns'[m].raised = turns[m].raised \/ (m = n /\ turns'[m].raised = r)
  BY <1>3, <1>5
<1>7. page' = page
  BY DEF Raise
<1>8. /\ store' \in [Requests -> Request]
      /\ store'[r].status = "pending" /\ store'[r].requester_id = turns[n].persona
      /\ \A q \in Requests : q # r => store'[q] = store[q]
      /\ store[r].status = "unused"
  BY <1>1, <1>2 DEF Raise, Environment, Request, Turn
<1>9. /\ page.waiting # r /\ page.queued # r /\ r \notin page.pendingDecision
      /\ \A m \in DOMAIN turns : turns[m].raised # r /\ turns[m].resumes # r
  BY <1>1, <1>2, <1>8 DEF Coherent, Held, Told, Raised, OwnDecisions
<1>10. /\ page.waiting \in Requests \cup {Null} /\ page.queued \in Requests \cup {Null}
       /\ page.pendingDecision \subseteq Requests
       /\ \A m \in DOMAIN turns : /\ turns[m].resumes \in Requests \cup {Null}
                                  /\ turns[m].raised \in Requests \cup {Null}
  <2>1. \A m \in DOMAIN turns : turns[m] \in Turn
    BY <1>2
  <2> QED BY <1>2, <2>1 DEF Page, Turn
<1>11. TypeOK'
  BY <1>1, <1>2, <1>5, <1>7, <1>8 DEF Raise, Environment, TypeOK
<1>12. ResumedOnce' /\ TurnsOfTheirTime'
  BY <1>1, <1>5, <1>6, <1>7
     DEF Coherent, TakenOnce, TurnsAgree, ResumedOnce, TurnsOfTheirTime, Current
<1>13. ResumesItsOwnDecision'
  BY <1>1, <1>5, <1>6, <1>8, <1>9, <1>10 DEF Coherent, OwnDecisions, ResumesItsOwnDecision
<1>14. OneStream'
  <2>1. OneUnfinished(page, turns)
    BY <1>1 DEF Coherent
  <2>2. \A m \in DOMAIN turns :
          Current(m)' /\ turns'[m].phase # "ended" <=> Unfinished(page, turns, m)
    BY <1>6, <1>7 DEF Unfinished, Current
  <2>3. \A m, k \in DOMAIN turns' :
          Current(m)' /\ turns'[m].phase # "ended" /\ Current(k)' /\ turns'[k].phase # "ended"
            => m = k
    BY <1>5, <2>1, <2>2 DEF OneUnfinished
  <2>4. (\E m \in DOMAIN turns' : Current(m)' /\ turns'[m].phase # "ended")
          <=> \E m \in DOMAIN turns : Unfinished(page, turns, m)
    BY <1>5, <2>2
  <2>5. page'.inFlight = \E m \in DOMAIN turns' : Current(m)' /\ turns'[m].phase # "ended"
    BY <1>7, <2>1, <2>4 DEF OneUnfinished
  <2> QED BY <2>3, <2>5 DEF OneStream
<1>15. RaisedByOneTurn'
  <2> SUFFICES ASSUME NEW m \in DOMAIN turns, turns'[m].raised # Null
        PROVE  /\ store'[turns'[m].raised].status # "unused"
               /\ store'[turns'[m].raised].requester_id = turns'[m].persona
               /\ \A k \in DOMAIN turns : turns'[k].raised = turns'[m].raised => k = m
               /\ turns'[m].phase # "ended" =>
                    /\ page.waiting # turns'[m].raised
                    /\ \A k \in DOMAIN turns : turns'[k].resumes # turns'[m].raised
    BY <1>5, <1>7 DEF RaisedByOneTurn
  <2>1. CASE turns'[m].raised = r
    <3>1. m = n
      BY <1>6, <1>9, <2>1
    <3>2. \A k \in DOMAIN turns : turns'[k].raised = r => k = n
      BY <1>6, <1>9
    <3> QED BY <1>6, <1>8, <1>9, <2>1, <3>1, <3>2
  <2>2. CASE turns'[m].raised # r
    <3>1. turns'[m].raised = turns[m].raised /\ turns[m].raised \in Requests
      BY <1>6, <1>10, <2>2
    <3>2. \A k \in DOMAIN turns : turns'[k].raised = turns[m].raised => k = m
      BY <1>1, <1>6, <2>2, <3>1 DEF Coherent, Raised
    <3> QED BY <1>1, <1>6, <1>8, <2>2, <3>1, <3>2 DEF Coherent, Raised
  <2> QED BY <2>1, <2>2
<1>16. HeldIsOurs'
  BY <1>1, <1>5, <1>6, <1>7, <1>8, <1>9, <1>10 DEF Coherent, Held, HeldIsOurs
<1>17. WordOfADecision'
  <2>1. /\ \A i \in DOMAIN wire : wire[i] \in Requests /\ wire[i] # r
        /\ \A c \in checks : c.id \in Requests /\ c.id # r
    BY <1>1, <1>8 DEF Environment, Check
  <2>2. wire' = wire /\ checks' = checks
    BY DEF Raise
  <2> QED
    BY <1>1, <1>7, <1>8, <1>9, <1>10, <2>1, <2>2
       DEF Coherent, Told, Environment, WordOfADecision
<1> QED BY <1>11, <1>12, <1>13, <1>14, <1>15, <1>16, <1>17 DEF IInv

\* The end of the page's own turn: the card is the one there was, or its request.
LEMMA EndStep == ASSUME IInv, NEW n \in DOMAIN turns, End(n) PROVE IInv'
<1>1. Coherent(page, turns) /\ Environment
  BY Parts
<1>2. page \in Page /\ turns[n] \in Turn /\ Unfinished(page, turns, n)
  BY <1>1 DEF Coherent, End, Current, Unfinished
<1> DEFINE held == turns[n].raised
           next == [page EXCEPT !.waiting = IF held = Null THEN @ ELSE held,
                                !.pendingDecision = {}, !.pendingReconnect = FALSE]
           p == Committed(n)
<1>3. /\ next \in Page /\ next.pendingDecision = {}
      /\ next.signedInAs = page.signedInAs /\ next.generation = page.generation
      /\ next.waiting = page.waiting \/ (held # Null /\ next.waiting = held)
      /\ next.queued = page.queued
  BY <1>2 DEF Page, Turn
<1>4. p = IF held \in page.pendingDecision THEN Queued(next, held) ELSE next
  BY DEF Committed
<1> HIDE DEF next, p
<1>5. /\ p \in Page /\ p.signedInAs = page.signedInAs /\ p.generation = page.generation
      /\ p.waiting = next.waiting
      /\ Told(p)
  <2>1. CASE held \notin page.pendingDecision
    BY <1>1, <1>3, <1>4, <2>1 DEF Coherent, Told
  <2>2. CASE held \in page.pendingDecision
    <3>1. held \in Requests /\ store[held].status = "decided"
      BY <1>1, <1>2, <2>2 DEF Coherent, Told, Page
    <3>2. p = Queued(next, held)
      BY <1>4, <2>2
    <3>3. /\ p \in Page /\ p.signedInAs = next.signedInAs
          /\ p.generation = next.generation /\ p.waiting = next.waiting
          /\ p.pendingDecision = {}
          /\ p.queued \in {page.queued, held}
      BY <1>3, <3>1, <3>2 DEF Queued, Page
    <3> QED BY <1>1, <1>3, <3>1, <3>3 DEF Coherent, Told
  <2> QED BY <2>1, <2>2
<1>6. Released(n, p)
  BY DEF End, p
<1>7. p.waiting = page.waiting \/ (held # Null /\ p.waiting = held)
  BY <1>3, <1>5
<1>8. Coherent(page', turns')
  BY <1>1, <1>2, <1>5, <1>6, <1>7, ReleasedCoherent
<1>9. /\ checks' \subseteq Check
      /\ \A c \in checks' :
           c \in checks \/ (c.said = "asked" /\ store[c.id].status # "unused")
  <2>1. /\ CaughtUp(n) \subseteq Check
        /\ \A c \in CaughtUp(n) : c.said = "asked" /\ c.id = held /\ held # Null
    BY <1>2 DEF CaughtUp, Check, Turn
  <2>2. held # Null => store[held].status # "unused"
    BY <1>1 DEF Coherent, Raised
  <2> QED BY <1>1, <2>1, <2>2 DEF End, Environment
<1>10. displaced' \subseteq Requests
  BY <1>1, <1>2 DEF End, Environment, Turn
<1>11. Environment' /\ store' = store
  BY <1>1, <1>9, <1>10 DEF End, Environment
<1> QED BY <1>8, <1>11, Kept

LEMMA FailStep == ASSUME IInv, NEW n \in DOMAIN turns, Fail(n) PROVE IInv'
<1>1. Coherent(page, turns) /\ Environment
  BY Parts
<1>2. page \in Page /\ Told(page) /\ Unfinished(page, turns, n)
  BY <1>1 DEF Coherent, Fail, Current, Unfinished
<1>3. Coherent(page', turns')
  BY <1>1, <1>2, ReleasedCoherent DEF Fail
<1>4. Environment' /\ store' = store
  BY <1>1 DEF Fail, Environment
<1> QED BY <1>3, <1>4, Kept

\* The turn was not the page's before, so the lock is as it should be after.
LEMMA EndAbandonedStep == ASSUME IInv, NEW n \in DOMAIN turns, EndAbandoned(n) PROVE IInv'
<1>1. Coherent(page, turns) /\ Environment
  BY Parts
<1> DEFINE t == [turns[n] EXCEPT !.phase = "ended"]
<1>2. turns \in Seq(Turn) /\ turns[n] \in Turn
  BY <1>1 DEF Coherent
<1>3. /\ t \in Turn /\ t.phase = "ended"
      /\ t.raised = turns[n].raised /\ t.resumes = turns[n].resumes
      /\ t.persona = turns[n].persona /\ t.generation = turns[n].generation
  BY <1>2 DEF Turn
<1>4. turns' = [turns EXCEPT ![n] = t]
  BY DEF EndAbandoned, Abandon
<1> HIDE DEF t
<1>5. /\ turns' \in Seq(Turn) /\ DOMAIN turns' = DOMAIN turns
      /\ turns'[n] = t /\ \A m \in DOMAIN turns : m # n => turns'[m] = turns[m]
  BY <1>2, <1>3, <1>4, Changed
<1>6. \A m \in DOMAIN turns :
        /\ turns'[m].raised = turns[m].raised /\ turns'[m].resumes = turns[m].resumes
        /\ turns'[m].persona = turns[m].persona
        /\ turns'[m].generation = turns[m].generation
        /\ turns'[m].phase # "ended" => turns[m].phase # "ended"
        /\ m # n => turns'[m].phase = turns[m].phase
  BY <1>3, <1>5
<1>7. page' = page /\ store' = store
  BY DEF EndAbandoned, Abandon
<1>8. TurnsAgree(page, turns') /\ TakenOnce(turns') /\ OwnDecisions(turns')
  BY <1>1, <1>5, <1>6 DEF Coherent, TurnsAgree, TakenOnce, OwnDecisions
<1>9. OneUnfinished(page, turns')
  <2>1. turns[n].generation # page.generation
    BY DEF EndAbandoned, Current
  <2>2. \A m \in DOMAIN turns : Unfinished(page, turns', m) <=> Unfinished(page, turns, m)
    BY <1>6, <2>1 DEF Unfinished
  <2> QED BY <1>1, <1>5, <2>2 DEF Coherent, OneUnfinished
<1>10. Raised(page, turns') /\ Held(page, turns')
  BY <1>1, <1>5, <1>6 DEF Coherent, Raised, Held
<1>11. Environment'
  BY <1>1 DEF EndAbandoned, Environment
<1> QED BY <1>1, <1>5, <1>7, <1>8, <1>9, <1>10, <1>11, Kept DEF Coherent

\* The turns see of the store what they saw, except that r is decided.
LEMMA DecideStep == ASSUME IInv, NEW r \in Requests, Decide(r) PROVE IInv'
<1>1. Coherent(page, turns) /\ Environment
  BY Parts
<1>2. page' = page /\ turns' = turns
  BY DEF Decide
<1>3. /\ store' \in [Requests -> Request]
      /\ \A q \in Requests :
           /\ store'[q].requester_id = store[q].requester_id
           /\ store[q].status = "decided" => store'[q].status = "decided"
           /\ store[q].status # "unused" => store'[q].status # "unused"
      /\ store'[r].status = "decided"
  BY <1>1 DEF Decide, Environment, Request
<1>4. /\ wire' \in Seq(Requests)
      /\ \A i \in DOMAIN wire' : store'[wire'[i]].status = "decided"
  <2>1. CASE wire' = wire
    BY <1>1, <1>3, <2>1 DEF Environment
  <2>2. CASE wire' = Append(wire, r)
    <3>1. /\ wire' \in Seq(Requests)
          /\ \A i \in DOMAIN wire' : wire'[i] = r \/ (i \in DOMAIN wire /\ wire'[i] = wire[i])
          /\ \A i \in DOMAIN wire : wire[i] \in Requests
      BY <1>1, <2>2 DEF Environment
    <3> QED BY <1>1, <1>3, <3>1 DEF Environment
  <2> QED BY <2>1, <2>2 DEF Decide
<1>5. page \in Page /\ \A m \in DOMAIN turns : turns[m] \in Turn
  BY <1>1 DEF Coherent
<1>6. /\ page.waiting \in Requests \cup {Null} /\ page.queued \in Requests \cup {Null}
      /\ page.pendingDecision \subseteq Requests
      /\ \A m \in DOMAIN turns : /\ turns[m].resumes \in Requests \cup {Null}
                                 /\ turns[m].raised \in Requests \cup {Null}
  BY <1>5 DEF Page, Turn
<1>7. TypeOK'
  BY <1>1, <1>2, <1>3, <1>4 DEF Decide, Coherent, Environment, TypeOK
<1>8. ResumedOnce' /\ TurnsOfTheirTime' /\ OneStream'
  BY <1>1, <1>2 DEF Coherent, TakenOnce, TurnsAgree, OneUnfinished, Unfinished,
                    ResumedOnce, TurnsOfTheirTime, OneStream, Current
<1>9. ResumesItsOwnDecision'
  BY <1>1, <1>2, <1>3, <1>6 DEF Coherent, OwnDecisions, ResumesItsOwnDecision
<1>10. RaisedByOneTurn'
  BY <1>1, <1>2, <1>3, <1>6 DEF Coherent, Raised, RaisedByOneTurn
<1>11. HeldIsOurs'
  BY <1>1, <1>2, <1>3, <1>6 DEF Coherent, Held, HeldIsOurs
<1>12. WordOfADecision'
  <2>1. checks' = checks /\ \A c \in checks : c.id \in Requests
    BY <1>1 DEF Decide, Environment, Check
  <2> QED BY <1>1, <1>2, <1>3, <1>4, <1>6, <2>1 DEF Coherent, Told, Environment, WordOfADecision
<1> QED BY <1>7, <1>8, <1>9, <1>10, <1>11, <1>12 DEF IInv

\* What the page notes for later does not show in its turns.
LEMMA Noted ==
  ASSUME Coherent(page, turns), turns' = turns, page' \in Page, Told(page'),
         page'.signedInAs = page.signedInAs, page'.generation = page.generation,
         page'.inFlight = page.inFlight, page'.waiting = page.waiting
  PROVE  Coherent(page', turns')
<1>1. TurnsAgree(page', turns) /\ Raised(page', turns) /\ Held(page', turns)
  BY DEF Coherent, TurnsAgree, Raised, Held
<1>2. OneUnfinished(page', turns)
  BY DEF Coherent, OneUnfinished, Unfinished
<1> QED BY <1>1, <1>2 DEF Coherent

LEMMA NoticeStep == IInv /\ Notice => IInv'
<1> SUFFICES ASSUME IInv, Notice PROVE IInv'
  OBVIOUS
<1>1. Coherent(page, turns) /\ Environment
  BY Parts
<1> DEFINE r == Head(wire)
<1>2. wire \in Seq(Requests) /\ wire # <<>>
  BY <1>1 DEF Environment, Notice
<1>3. /\ r \in Requests /\ r = wire[1] /\ 1 \in DOMAIN wire
      /\ wire' \in Seq(Requests)
      /\ \A i \in DOMAIN wire' : i + 1 \in DOMAIN wire /\ wire'[i] = wire[i + 1]
  BY <1>2 DEF Notice
<1>4. store[r].status = "decided"
  BY <1>1, <1>3 DEF Environment
<1>5. Environment' /\ store' = store
  BY <1>1, <1>3 DEF Notice, Environment
<1>6. Coherent(page', turns')
  <2>1. CASE page' = page /\ turns' = turns
    BY <1>1, <2>1
  <2>2. CASE page' = [page EXCEPT !.pendingDecision = @ \cup {r}] /\ turns' = turns
    <3>1. /\ page' \in Page /\ page'.pendingDecision = page.pendingDecision \cup {r}
          /\ page'.signedInAs = page.signedInAs /\ page'.generation = page.generation
          /\ page'.inFlight = page.inFlight /\ page'.waiting = page.waiting
          /\ page'.queued = page.queued
      BY <1>1, <1>3, <2>2 DEF Coherent, Page
    <3>2. Told(page')
      BY <1>1, <1>4, <3>1 DEF Coherent, Told
    <3> QED BY <1>1, <2>2, <3>1, <3>2, Noted
  <2>3. CASE Resume(page, turns, r)
    BY <1>1, <1>3, <1>4, <2>3, ResumeCoherent
  <2> QED BY <2>1, <2>2, <2>3 DEF Notice
<1> QED BY <1>5, <1>6, Kept

LEMMA OpenStep == IInv /\ Open => IInv'
<1> SUFFICES ASSUME IInv, Open PROVE IInv'
  OBVIOUS
<1>1. Coherent(page, turns) /\ Environment
  BY Parts
<1>2. Environment' /\ store' = store /\ page' = page /\ turns' = turns
  BY <1>1 DEF Open, Environment
<1> QED BY <1>1, <1>2, Kept

LEMMA ConnectedStep == IInv /\ Connected => IInv'
<1> SUFFICES ASSUME IInv, Connected PROVE IInv'
  OBVIOUS
<1>1. Coherent(page, turns) /\ Environment
  BY Parts
<1>2. turns' = turns /\ store' = store
  BY DEF Connected
<1>3. CASE page.waiting = Null
  <2>1. /\ page' \in Page /\ page'.pendingDecision = page.pendingDecision
        /\ page'.signedInAs = page.signedInAs /\ page'.generation = page.generation
        /\ page'.inFlight = page.inFlight /\ page'.waiting = page.waiting
        /\ page'.queued = page.queued
    BY <1>1, <1>3 DEF Coherent, Page, Connected
  <2>2. Coherent(page', turns')
    <3>1. Told(page')
      BY <1>1, <2>1 DEF Coherent, Told
    <3> QED BY <1>1, <1>2, <2>1, <3>1, Noted
  <2>3. Environment'
    BY <1>1, <1>3 DEF Connected, Environment
  <2> QED BY <1>2, <2>2, <2>3, Kept
<1>4. CASE page.waiting # Null
  <2>1. [id |-> page.waiting, said |-> "asked"] \in Check
    BY <1>1, <1>4 DEF Coherent, Page, Check
  <2>2. /\ checks' \subseteq Check
        /\ \A c \in checks' :
             c \in checks \/ (c.said = "asked" /\ store[c.id].status # "unused")
    BY <1>1, <1>4, <2>1 DEF Coherent, Held, Connected, Environment
  <2>3. Environment' /\ page' = page
    BY <1>1, <1>4, <2>2 DEF Connected, Environment
  <2> QED BY <1>1, <1>2, <2>3, Kept
<1> QED BY <1>3, <1>4

LEMMA DropStep == IInv /\ Drop => IInv'
<1> SUFFICES ASSUME IInv, Drop PROVE IInv'
  OBVIOUS
<1>1. Coherent(page, turns) /\ Environment
  BY Parts
<1>2. Environment' /\ store' = store /\ page' = page /\ turns' = turns
  BY <1>1 DEF Drop, Environment
<1> QED BY <1>1, <1>2, Kept

LEMMA AnswerStep == ASSUME IInv, NEW c \in checks, Answer(c) PROVE IInv'
<1>1. Coherent(page, turns) /\ Environment
  BY Parts
<1> DEFINE d == [c EXCEPT !.said = IF store[c.id].requester_id = page.signedInAs
                                   THEN store[c.id].status ELSE "nothing"]
<1>2. /\ c \in Check /\ c.said = "asked" /\ c.id \in Requests
      /\ checks' = (checks \ {c}) \cup {d}
      /\ store' = store /\ page' = page /\ turns' = turns
  BY <1>1 DEF Answer, Environment, Check
<1>3. store[c.id] \in Request /\ d.id = c.id
      /\ d.said = IF store[c.id].requester_id = page.signedInAs
                  THEN store[c.id].status ELSE "nothing"
  BY <1>1, <1>2 DEF Environment, Check
<1> HIDE DEF d
<1>4. d \in Check /\ store[d.id].status # "unused" /\ (d.said = "decided" => store[d.id].status = "decided")
  <2>1. store[c.id].status \in {"unused", "pending", "decided"}
    BY <1>3 DEF Request
  <2>2. store[c.id].status # "unused"
    BY <1>1 DEF Environment
  <2>3. d \in Check
    BY <1>2, <2>1, <2>2 DEF Check, d
  <2>4. d.said = "decided" => store[c.id].status = "decided"
    BY <1>3
  <2> QED BY <1>3, <2>2, <2>3, <2>4
<1>5. Environment'
  BY <1>1, <1>2, <1>4 DEF Answer, Environment
<1> QED BY <1>1, <1>2, <1>5, Kept

LEMMA ReturnStep == ASSUME IInv, NEW c \in checks, Return(c) PROVE IInv'
<1>1. Coherent(page, turns) /\ Environment
  BY Parts
<1>2. c.id \in Requests /\ (c.said = "decided" => store[c.id].status = "decided")
  BY <1>1 DEF Environment, Check
<1>3. Coherent(page', turns')
  BY <1>1, <1>2, ResumeCoherent DEF Return
<1>4. Environment' /\ store' = store
  BY <1>1 DEF Return, Environment
<1> QED BY <1>3, <1>4, Kept

LEMMA FailCheckStep == ASSUME IInv, NEW c \in checks, FailCheck(c) PROVE IInv'
<1>1. Coherent(page, turns) /\ Environment
  BY Parts
<1>2. c.id \in Requests
  BY <1>1 DEF Environment, Check
<1>3. Environment' /\ store' = store /\ page' = page /\ turns' = turns
  BY <1>1, <1>2 DEF FailCheck, Environment
<1> QED BY <1>1, <1>3, Kept

\* No turn is of the new generation: the page starts with none of its own.
LEMMA SwitchStep == ASSUME IInv, NEW persona \in Personas, Switch(persona) PROVE IInv'
<1>1. Coherent(page, turns) /\ Environment
  BY Parts
<1>2. page \in Page /\ \A m \in DOMAIN turns : turns[m].generation \in Nat
  <2>1. \A m \in DOMAIN turns : turns[m] \in Turn
    BY <1>1 DEF Coherent
  <2> QED BY <1>1, <2>1 DEF Coherent, Turn
<1>3. /\ page' \in Page /\ page'.signedInAs = persona
      /\ page'.generation = page.generation + 1 /\ page.generation \in Nat
      /\ page'.inFlight = FALSE /\ page'.waiting = Null /\ page'.queued = Null
      /\ page'.pendingDecision = {}
  BY <1>2, WaitAssumption DEF Switch, Switched, SignedIn, Page
<1>4. turns' = turns /\ store' = store
  BY DEF Switch
<1>5. \A m \in DOMAIN turns :
        turns[m].generation <= page'.generation /\ turns[m].generation # page'.generation
  BY <1>1, <1>2, <1>3 DEF Coherent, TurnsAgree
<1>6. TurnsAgree(page', turns) /\ OneUnfinished(page', turns)
  BY <1>3, <1>5 DEF TurnsAgree, OneUnfinished, Unfinished
<1>7. Held(page', turns) /\ Told(page')
  BY <1>3 DEF Held, Told
<1>8. Raised(page', turns)
  <2>1. \A m \in DOMAIN turns : turns[m].raised # Null => page'.waiting # turns[m].raised
    BY <1>3
  <2> QED BY <1>1, <2>1 DEF Coherent, Raised
<1>9. Environment'
  BY <1>1 DEF Switch, Environment
<1> QED BY <1>1, <1>3, <1>4, <1>6, <1>7, <1>8, <1>9, Kept DEF Coherent

LEMMA StutterStep == IInv /\ UNCHANGED vars => IInv'
<1> SUFFICES ASSUME IInv, UNCHANGED vars PROVE IInv'
  OBVIOUS
<1>1. Coherent(page, turns) /\ Environment
  BY Parts
<1>2. Environment' /\ store' = store /\ page' = page /\ turns' = turns
  BY <1>1 DEF vars, Environment
<1> QED BY <1>1, <1>2, Kept

-----------------------------------------------------------------------------
(* The theorems.                                                           *)

\* The invariant holds of every behaviour, fair or not: one case per action.
LEMMA Invariance == Spec => []IInv
<1>1. IInv /\ [Next]_vars => IInv'
  <2> SUFFICES ASSUME IInv, [Next]_vars PROVE IInv'
    OBVIOUS
  <2>1. CASE Ask
    BY <2>1, AskStep
  <2>2. ASSUME NEW n \in DOMAIN turns, Start(n) PROVE IInv'
    BY <2>2, StartStep
  <2>3. ASSUME NEW n \in DOMAIN turns, NEW r \in Requests, NEW seen \in BOOLEAN,
               Raise(n, r, seen)
        PROVE  IInv'
    BY <2>3, RaiseStep
  <2>4. ASSUME NEW n \in DOMAIN turns, End(n) PROVE IInv'
    BY <2>4, EndStep
  <2>5. ASSUME NEW n \in DOMAIN turns, Fail(n) PROVE IInv'
    BY <2>5, FailStep
  <2>6. ASSUME NEW n \in DOMAIN turns, EndAbandoned(n) PROVE IInv'
    BY <2>6, EndAbandonedStep
  <2>7. ASSUME NEW r \in Requests, Decide(r) PROVE IInv'
    BY <2>7, DecideStep
  <2>8. CASE Notice
    BY <2>8, NoticeStep
  <2>9. CASE Open
    BY <2>9, OpenStep
  <2>10. CASE Connected
    BY <2>10, ConnectedStep
  <2>11. CASE Drop
    BY <2>11, DropStep
  <2>12. ASSUME NEW c \in checks, Answer(c) PROVE IInv'
    BY <2>12, AnswerStep
  <2>13. ASSUME NEW c \in checks, Return(c) PROVE IInv'
    BY <2>13, ReturnStep
  <2>14. ASSUME NEW c \in checks, FailCheck(c) PROVE IInv'
    BY <2>14, FailCheckStep
  <2>15. ASSUME NEW persona \in Personas, Switch(persona) PROVE IInv'
    BY <2>15, SwitchStep
  <2>16. CASE UNCHANGED vars
    BY <2>16, StutterStep
  <2> QED
    BY <2>1, <2>2, <2>3, <2>4, <2>5, <2>6, <2>7, <2>8, <2>9, <2>10, <2>11, <2>12,
       <2>13, <2>14, <2>15, <2>16 DEF Next
<1> QED BY <1>1, InitStep, PTL DEF Spec

\* TypeOK: the refs of the Chat component, its turns and what the control plane
\* sends it are of their types, whatever the interleaving.
THEOREM TypeCorrect == Spec => []TypeOK
<1>1. IInv => TypeOK
  BY DEF IInv
<1> QED BY <1>1, Invariance, PTL

\* ResumedOnce: resume takes the card before it posts, so the live notice, the
\* remembered one, the queued one and the status check never post two turns for
\* one decision.
THEOREM ResumesOnce == Spec => []ResumedOnce
<1>1. IInv => ResumedOnce
  BY DEF IInv
<1> QED BY <1>1, Invariance, PTL

\* ResumesItsOwnDecision: a resume is posted only for a request that is decided
\* and was raised by the person whose turn it is, so planResume never refuses
\* what the page asks for.
THEOREM ActsOnItsOwn == Spec => []ResumesItsOwnDecision
<1>1. IInv => ResumesItsOwnDecision
  BY DEF IInv
<1> QED BY <1>1, Invariance, PTL

\* OneStream: inFlightRef is held exactly while one turn of this generation
\* runs, also when an abandoned turn of another persona ends late.
THEOREM NeverInterleaves == Spec => []OneStream
<1>1. IInv => OneStream
  BY DEF IInv
<1> QED BY <1>1, Invariance, PTL

-----------------------------------------------------------------------------
(* The sign-in.  The stages in which a handler has a request.              *)

Before == {"serving", "read", "retry", "listing", "listed"}

LEMMA JoinIs ==
  ASSUME NEW f, NEW g
  PROVE  /\ DOMAIN Both(f, g) = DOMAIN f \cup DOMAIN g
         /\ \A x \in DOMAIN f \cup DOMAIN g :
              Both(f, g)[x] = IF x \in DOMAIN f THEN f[x] ELSE g[x]
BY DEF Both

LEMMA ExpireIs ==
  ASSUME NEW names
  PROVE  DOMAIN Expire(names) = names /\ \A name \in names : Expire(names)[name] = None
BY DEF Expire

LEMMA WriteLegIs ==
  ASSUME NEW name, NEW value
  PROVE  DOMAIN WriteLeg(name, value) = {name} /\ WriteLeg(name, value)[name] = value
BY DEF WriteLeg

\* A session is two chunks when it holds both bearers.
Two(session) == session.gateway # None

LEMMA Places == DOMAIN ChunkNames = {1, 2} /\ ChunkNames[1] = "cg_session.0"
                /\ ChunkNames[2] = "cg_session.1"
BY DEF ChunkNames

LEMMA ReadIs ==
  ASSUME NEW cookies
  PROVE  LET a == cookies["cg_session.0"]
             b == cookies["cg_session.1"]
         IN ReadSession(cookies) =
              IF a # None /\ IF Two(a.session) THEN b = a ELSE b = None
              THEN a.session ELSE None
<1>. DEFINE a == cookies["cg_session.0"]
            b == cookies["cg_session.1"]
            held == Joined(cookies)
<1>1. ReadSession(cookies) =
        IF held # {} /\ (\A i \in held : cookies[ChunkNames[i]] = a)
           /\ Cardinality(held) = ChunkCount(a.session)
        THEN a.session ELSE None
  BY Places DEF ReadSession
<1>2. held = {i \in {1, 2} : \A j \in 1..i : cookies[ChunkNames[j]] # None}
  BY Places DEF Joined
<1>3. 1 \in held <=> a # None
  BY <1>2, Places
<1>4. 2 \in held <=> a # None /\ b # None
  BY <1>2, Places
<1>. HIDE DEF a, b, held
<1>5. ChunkCount(a.session) = IF Two(a.session) THEN 2 ELSE 1
  BY DEF ChunkCount, Two
<1>6. CASE a = None
  <2>1. held = {}
    BY <1>2, <1>3, <1>4, <1>6
  <2>. QED
    BY <1>1, <1>6, <2>1 DEF a, b
<1>7. CASE a # None /\ b = None
  <2>1. held = {1}
    BY <1>2, <1>3, <1>4, <1>7
  <2>2. Cardinality(held) = 1
    BY <2>1, FS_Singleton
  <2>3. \A i \in held : cookies[ChunkNames[i]] = a
    BY <2>1, Places DEF a
  <2>. QED
    BY <1>1, <1>5, <1>7, <2>1, <2>2, <2>3 DEF a, b
<1>8. CASE a # None /\ b # None
  <2>1. held = {1, 2}
    BY <1>2, <1>3, <1>4, <1>8
  <2>2. Cardinality(held) = 2
    <3>1. IsFiniteSet({1}) /\ Cardinality({1}) = 1
      BY FS_Singleton
    <3>2. Cardinality({1} \cup {2}) = Cardinality({1}) + 1
      BY <3>1, FS_AddElement
    <3>3. held = {1} \cup {2}
      BY <2>1
    <3>. QED
      BY <3>1, <3>2, <3>3
  <2>3. (\A i \in held : cookies[ChunkNames[i]] = a) <=> b = a
    BY <2>1, Places DEF a, b
  <2>. QED
    BY <1>1, <1>5, <1>8, <2>1, <2>2, <2>3 DEF a, b
<1>. QED
  BY <1>6, <1>7, <1>8

\* What headers do to the session's cookies.
Leaves(headers) == DOMAIN headers \cap SessionNames = {}
Clears(headers, cookies) ==
  \A name \in SessionNames :
    /\ name \in DOMAIN headers <=> cookies[name] # None
    /\ name \in DOMAIN headers => headers[name] = None
Writes(headers, cookies, session, by) ==
  /\ "cg_session.0" \in DOMAIN headers
  /\ headers["cg_session.0"] = Chunk(session, by)
  /\ IF Two(session)
     THEN /\ "cg_session.1" \in DOMAIN headers
          /\ headers["cg_session.1"] = Chunk(session, by)
     ELSE /\ "cg_session.1" \in DOMAIN headers <=> cookies["cg_session.1"] # None
          /\ "cg_session.1" \in DOMAIN headers => headers["cg_session.1"] = None

LEMMA WriteSessionIs ==
  ASSUME NEW cookies, NEW session, NEW by
  PROVE  /\ DOMAIN WriteSession(cookies, session, by) \subseteq SessionNames
         /\ Writes(WriteSession(cookies, session, by), cookies, session, by)
         /\ \A name \in DOMAIN WriteSession(cookies, session, by) :
              WriteSession(cookies, session, by)[name] \in {None, Chunk(session, by)}
<1>. DEFINE n == ChunkCount(session)
            written == {ChunkNames[i] : i \in 1..n}
            f == [name \in written |-> Chunk(session, by)]
            g == Expire(ClearedChunks(cookies, n))
<1>1. n = IF Two(session) THEN 2 ELSE 1
  BY DEF ChunkCount, Two
<1>2. written = IF Two(session) THEN SessionNames ELSE {"cg_session.0"}
  <2>1. 1..n = IF Two(session) THEN {1, 2} ELSE {1}
    <3>. HIDE DEF n
    <3>1. CASE Two(session)
      <4>1. n = 2
        BY <1>1, <3>1
      <4>. QED
        BY <3>1, <4>1
    <3>2. CASE ~Two(session)
      <4>1. n = 1
        BY <1>1, <3>2
      <4>. QED
        BY <3>2, <4>1
    <3>. QED
      BY <3>1, <3>2
  <2>. HIDE DEF n
  <2>. QED
    BY <2>1, Places DEF SessionNames
<1>3. ClearedChunks(cookies, n) =
        {name \in SessionNames : name \notin written /\ cookies[name] # None}
  <2>1. ClearedChunks(cookies, n) =
          {ChunkNames[i] : i \in {j \in {1, 2} : j > n /\ cookies[ChunkNames[j]] # None}}
    BY Places DEF ClearedChunks
  <2>. HIDE DEF written, n
  <2>. QED
    BY <1>1, <1>2, <2>1, Places DEF SessionNames
<1>4. WriteSession(cookies, session, by) = Both(f, g)
  BY DEF WriteSession
<1>5. DOMAIN f = written /\ \A name \in written : f[name] = Chunk(session, by)
  OBVIOUS
<1>6. /\ DOMAIN g = {name \in SessionNames : name \notin written /\ cookies[name] # None}
      /\ \A name \in DOMAIN g : g[name] = None
  BY <1>3, ExpireIs
<1>. HIDE DEF f, g, written, n
<1>7. /\ DOMAIN Both(f, g) = DOMAIN f \cup DOMAIN g
      /\ \A x \in DOMAIN f \cup DOMAIN g :
           Both(f, g)[x] = IF x \in DOMAIN f THEN f[x] ELSE g[x]
  BY DEF Both
<1>. QED
  BY <1>2, <1>4, <1>5, <1>6, <1>7 DEF Writes, SessionNames

LEMMA ClearSessionIs ==
  ASSUME NEW cookies
  PROVE  /\ DOMAIN ClearSession(cookies) \subseteq SessionNames
         /\ Clears(ClearSession(cookies), cookies)
         /\ \A name \in DOMAIN ClearSession(cookies) : ClearSession(cookies)[name] = None
<1>1. ClearedChunks(cookies, 0) = {name \in SessionNames : cookies[name] # None}
  BY Places DEF ClearedChunks, SessionNames
<1>. QED
  BY <1>1, ExpireIs DEF ClearSession, Clears
LEMMA StoreIs ==
  ASSUME NEW cookies, NEW headers, DOMAIN cookies = Names, DOMAIN headers \subseteq Names
  PROVE  /\ DOMAIN Store(cookies, headers) = Names
         /\ \A name \in Names : Store(cookies, headers)[name] =
              IF name \in DOMAIN headers THEN headers[name] ELSE cookies[name]
BY DEF Store, Both

LEMMA SessionsAre == Sessions \subseteq AnySession /\ Sessions' \subseteq AnySession
BY DEF Sessions, AnySession, Given, Bearer

LEMMA ChunkIs ==
  ASSUME NEW session \in AnySession, NEW by \in Families
  PROVE  Chunk(session, by) # None /\ Chunk(session, by).session = session
BY SignInAssumption DEF Chunk

\* The session's cookies after headers that write it, or clear it.
LEMMA WritesWhole ==
  ASSUME NEW cookies, NEW headers, DOMAIN cookies = Names, DOMAIN headers \subseteq Names,
         NEW session \in AnySession, NEW by \in Families,
         Writes(headers, cookies, session, by)
  PROVE  /\ Touches(headers) /\ SealedBy(headers) = session
         /\ ReadSession(Store(cookies, headers)) = session
<1>. DEFINE d == Store(cookies, headers)
            chunk == Chunk(session, by)
<1>1. chunk # None /\ chunk.session = session
  BY ChunkIs
<1>2. /\ d["cg_session.0"] = chunk
      /\ d["cg_session.1"] = IF Two(session) THEN chunk ELSE None
  BY StoreIs DEF Writes, Names, SessionNames
<1>. HIDE DEF chunk
<1>3. Touches(headers) /\ SealedBy(headers) = session
  BY <1>1 DEF Writes, Touches, SealedBy, SessionNames, chunk
<1>. HIDE DEF d
<1>4. ReadSession(d) = session
  BY <1>1, <1>2, ReadIs
<1>. QED
  BY <1>3, <1>4 DEF d

LEMMA ClearsWhole ==
  ASSUME NEW cookies, NEW headers, DOMAIN cookies = Names, DOMAIN headers \subseteq Names,
         Clears(headers, cookies)
  PROVE  SealedBy(headers) = None /\ ReadSession(Store(cookies, headers)) = None
<1>. DEFINE d == Store(cookies, headers)
<1>1. d["cg_session.0"] = None
  BY StoreIs DEF Clears, Names, SessionNames
<1>2. SealedBy(headers) = None
  BY DEF Clears, SealedBy, SessionNames
<1>. HIDE DEF d
<1>3. ReadSession(d) = None
  BY <1>1, ReadIs
<1>. QED
  BY <1>2, <1>3 DEF d

\* The cookies of a leg are other cookies.
LEMMA BesideLegs ==
  ASSUME NEW f, NEW g, Leaves(f), NEW cookies, NEW session, NEW by
  PROVE  /\ Writes(g, cookies, session, by) =>
              /\ Writes(Both(f, g), cookies, session, by)
              /\ Writes(Both(g, f), cookies, session, by)
         /\ Clears(g, cookies) => Clears(Both(f, g), cookies) /\ Clears(Both(g, f), cookies)
<1>1. \A name \in SessionNames :
        /\ name \in DOMAIN Both(f, g) <=> name \in DOMAIN g
        /\ name \in DOMAIN Both(g, f) <=> name \in DOMAIN g
        /\ name \in DOMAIN g => Both(f, g)[name] = g[name] /\ Both(g, f)[name] = g[name]
  BY DEF Both, Leaves
<1>2. "cg_session.0" \in SessionNames /\ "cg_session.1" \in SessionNames
  BY DEF SessionNames
<1>3. Writes(g, cookies, session, by) =>
              /\ Writes(Both(f, g), cookies, session, by)
              /\ Writes(Both(g, f), cookies, session, by)
  BY <1>1, <1>2 DEF Writes
<1>4. Clears(g, cookies) => Clears(Both(f, g), cookies) /\ Clears(Both(g, f), cookies)
  BY <1>1 DEF Clears
<1>. QED
  BY <1>3, <1>4

LEMMA LegsLeave ==
  /\ \A names : names \subseteq LegNames => Leaves(Expire(names))
  /\ \A name, value : name \in LegNames => Leaves(WriteLeg(name, value))
<1>1. LegNames \cap SessionNames = {}
  BY DEF LegNames, SessionNames
<1>2. ASSUME NEW names, names \subseteq LegNames PROVE Leaves(Expire(names))
  BY <1>1, <1>2, ExpireIs DEF Leaves
<1>3. ASSUME NEW name, NEW value, name \in LegNames PROVE Leaves(WriteLeg(name, value))
  <2>1. DOMAIN WriteLeg(name, value) = {name}
    BY WriteLegIs
  <2>. QED
    BY <1>1, <1>3, <2>1 DEF Leaves
<1>. QED
  BY <1>2, <1>3

\* Types of headers.
LEMMA MoreCookies ==
  ASSUME NEW cookies, NEW S, NEW T, S \subseteq T, Cookies(cookies, S)
  PROVE  Cookies(cookies, T)
<1>1. \A name : Worth(name, S) \subseteq Worth(name, T)
  BY DEF Worth
<1>. HIDE DEF Worth
<1>. QED
  BY <1>1 DEF Cookies

LEMMA HeadersTyped ==
  ASSUME NEW S
  PROVE  /\ \A f, g : Cookies(f, S) /\ Cookies(g, S) => Cookies(Both(f, g), S)
         /\ \A names : names \subseteq Names => Cookies(Expire(names), S)
         /\ \A name, value : name \in Names /\ value \in Worth(name, S) =>
              Cookies(WriteLeg(name, value), S)
         /\ \A cookies : Cookies(ClearSession(cookies), S)
         /\ \A cookies : \A session \in S : \A by \in Families :
              Cookies(WriteSession(cookies, session, by), S)
<1>1. ASSUME NEW f, NEW g, Cookies(f, S), Cookies(g, S) PROVE Cookies(Both(f, g), S)
  BY <1>1 DEF Cookies, Both
<1>2. ASSUME NEW names, names \subseteq Names PROVE Cookies(Expire(names), S)
  BY <1>2, ExpireIs DEF Cookies
<1>3. ASSUME NEW name, NEW value, name \in Names, value \in Worth(name, S)
      PROVE  Cookies(WriteLeg(name, value), S)
  <2>1. DOMAIN WriteLeg(name, value) = {name} /\ WriteLeg(name, value)[name] = value
    BY WriteLegIs
  <2>. QED
    BY <1>3, <2>1 DEF Cookies
<1>4. ASSUME NEW cookies PROVE Cookies(ClearSession(cookies), S)
  BY ClearSessionIs DEF Cookies, Names
<1>5. ASSUME NEW cookies, NEW session \in S, NEW by \in Families
      PROVE  Cookies(WriteSession(cookies, session, by), S)
  <2>1. \A name \in SessionNames : Chunk(session, by) \in Worth(name, S)
    BY DEF Worth, SessionNames, Chunk
  <2>. QED
    BY <2>1, WriteSessionIs DEF Cookies, Names
<1>. QED
  BY <1>1, <1>2, <1>3, <1>4, <1>5

LEMMA ReadTyped ==
  ASSUME NEW S, NEW cookies, Cookies(cookies, S), DOMAIN cookies = Names
  PROVE  ReadSession(cookies) \in {None} \cup S
<1>1. cookies["cg_session.0"] \in {None} \cup [session : S, by : Families]
  BY DEF Cookies, Names, SessionNames, Worth
<1>. QED
  BY <1>1, ReadIs

LEMMA MoreAsked ==
  ASSUME NEW q, NEW S, NEW T, S \subseteq T, Asked(q, S)
  PROVE  Asked(q, T)
BY MoreCookies DEF Asked
LEMMA Flying == \A r \in HttpRequests : r \in InFlight <=> requests[r].stage \notin {"unsent", "done"}
BY DEF InFlight

\* Nothing overlapped: the request under way holds what the browser does.
LEMMA AloneHolds ==
  ASSUME SignInInv, ~mishap, NEW r \in HttpRequests, requests[r].stage \in Before
  PROVE  /\ InFlight = {r}
         /\ Unspent(ReadSession(jar), idp.grants, requests)
         /\ Unspent(requests[r].session, idp.grants, requests)
         /\ \A f \in Families : idp.grants[f] \in IdpGrant => ~idp.grants[f].revoked
<1>1. r \in InFlight /\ Undisturbed
  BY Flying DEF Before, SignInInv
<1>2. /\ InFlight = {r}
      /\ \A name \in SessionNames : jar[name] = requests[r].cookies[name]
  BY <1>1 DEF Undisturbed, SignInInv, AloneIsAlone
<1>3. ReadSession(jar) = ReadSession(requests[r].cookies)
  BY <1>2, ReadIs DEF SessionNames
<1>4. ~Replaces(requests[r])
  BY DEF Replaces, Before
<1>5. Unspent(ReadSession(jar), idp.grants, requests)
  BY <1>1, <1>2, <1>4 DEF Undisturbed
<1>6. requests[r].session # None =>
        /\ ReadSession(jar) # None
        /\ ReadSession(jar).idp = requests[r].session.idp
  BY <1>3 DEF SignInInv, Faithful, Before
<1>7. Unspent(requests[r].session, idp.grants, requests)
  BY <1>5, <1>6 DEF Unspent
<1>. QED
  BY <1>1, <1>2, <1>5, <1>7 DEF Undisturbed

LEMMA RespondIs ==
  ASSUME SignInInv, NEW r \in HttpRequests, requests[r].stage \in Before,
         NEW shown, NEW headers, Respond(r, shown, headers)
  PROVE  /\ DOMAIN requests' = HttpRequests
         /\ \A q \in HttpRequests : q # r => requests'[q] = requests[q]
         /\ DOMAIN requests'[r] = DOMAIN Unsent
         /\ requests'[r].stage = "answered" /\ requests'[r].page = shown
         /\ requests'[r].headers = headers /\ requests'[r].kind = requests[r].kind
         /\ requests'[r].arg = requests[r].arg /\ requests'[r].alone = requests[r].alone
         /\ requests'[r].cookies = requests[r].cookies
         /\ requests'[r].session = requests[r].session
         /\ InFlight' = InFlight /\ r \in InFlight
<1>. DEFINE n == [[[requests[r] EXCEPT !.stage = "answered"] EXCEPT !.page = shown]
                    EXCEPT !.headers = headers]
<1>1. DOMAIN requests = HttpRequests /\ DOMAIN requests[r] = DOMAIN Unsent
  BY DEF SignInInv, SignInTypeOK, Asked
<1>2. requests' = [requests EXCEPT ![r] = n]
  BY <1>1 DEF Respond
<1>3. /\ DOMAIN n = DOMAIN Unsent /\ n.stage = "answered" /\ n.page = shown
      /\ n.headers = headers /\ n.kind = requests[r].kind /\ n.arg = requests[r].arg
      /\ n.alone = requests[r].alone /\ n.cookies = requests[r].cookies
      /\ n.session = requests[r].session
  BY <1>1 DEF Unsent
<1>. HIDE DEF n
<1>4. DOMAIN requests' = HttpRequests /\ requests'[r] = n
      /\ \A q \in HttpRequests : q # r => requests'[q] = requests[q]
  BY <1>1, <1>2
<1>5. InFlight' = InFlight /\ r \in InFlight
  BY <1>3, <1>4 DEF InFlight, Before
<1>. QED
  BY <1>3, <1>4, <1>5

\* What a page that says "authorized" is about.
Entitled(q) ==
  IF q.kind = "verify" THEN OwnerOf[q.arg.flow] = q.session.email
  ELSE OwnerOf[q.cookies["cg_arcade_flow"]] = q.arg.person

\* A handler answers.  What is left to show is what its headers are worth.
LEMMA RespondKeeps ==
  ASSUME SignInInv, NEW r \in HttpRequests, requests[r].stage \in Before,
         NEW shown, NEW headers, Respond(r, shown, headers), UNCHANGED <<jar, pages>>,
         Sessions \subseteq Sessions',
         idp' \in [session : {None} \cup People, grants : [Families -> {None} \cup IdpGrant]],
         gateway' \in [Families -> {None} \cup GatewayGrant],
         mishap' \in BOOLEAN, mishap => mishap',
         Cookies(headers, Sessions'),
         \/ Leaves(headers)
         \/ Clears(headers, requests[r].cookies)
         \/ \E session \in Sessions' : Writes(headers, requests[r].cookies, session, r),
         shown = "authorized" => Entitled(requests[r]),
         ~mishap' =>
           /\ \A f \in Families : idp'.grants[f] \in IdpGrant => ~idp'.grants[f].revoked
           /\ Touches(headers) => Unspent(SealedBy(headers), idp'.grants, requests')
           /\ ~Touches(headers) => Unspent(ReadSession(jar), idp'.grants, requests')
  PROVE  SignInInv'
<1>1. /\ DOMAIN requests' = HttpRequests
      /\ \A q \in HttpRequests : q # r => requests'[q] = requests[q]
      /\ DOMAIN requests'[r] = DOMAIN Unsent
      /\ requests'[r].stage = "answered" /\ requests'[r].page = shown
      /\ requests'[r].headers = headers /\ requests'[r].kind = requests[r].kind
      /\ requests'[r].arg = requests[r].arg /\ requests'[r].alone = requests[r].alone
      /\ requests'[r].cookies = requests[r].cookies
      /\ requests'[r].session = requests[r].session
      /\ InFlight' = InFlight /\ r \in InFlight
  BY RespondIs
<1>2. /\ \A q \in HttpRequests : Asked(requests[q], Sessions)
      /\ Cookies(jar, Sessions) /\ DOMAIN jar = Names
  BY DEF SignInInv, SignInTypeOK
<1>3. Asked(requests[r], Sessions')
  BY <1>2, MoreAsked
<1>4. Asked(requests'[r], Sessions')
  BY <1>1, <1>3 DEF Asked, Stages
<1>5. \A q \in HttpRequests : Asked(requests'[q], Sessions')
  BY <1>1, <1>2, <1>4, MoreAsked
<1>6. SignInTypeOK'
  <2>1. Cookies(jar', Sessions')
    BY <1>2, MoreCookies
  <2>. QED
    BY <1>1, <1>2, <1>5, <2>1 DEF SignInInv, SignInTypeOK
<1>7. AloneIsAlone'
  BY <1>1 DEF SignInInv, AloneIsAlone, InFlight
<1>8. Faithful(requests'[r])
  <2>1. DOMAIN requests[r].cookies = Names /\ DOMAIN headers \subseteq Names
    BY <1>2 DEF Asked, Cookies
  <2>2. CASE Leaves(headers)
    BY <1>1, <2>2 DEF Faithful, Replaces, Touches, Leaves
  <2>3. CASE Clears(headers, requests[r].cookies)
    BY <1>1, <2>1, <2>3, ClearsWhole DEF Faithful, Replaces
  <2>4. ASSUME NEW session \in Sessions', Writes(headers, requests[r].cookies, session, r)
        PROVE  Faithful(requests'[r])
    <3>1. session \in AnySession /\ r \in Families
      BY SessionsAre DEF Families
    <3>. QED
      BY <1>1, <2>1, <2>4, <3>1, WritesWhole DEF Faithful, Replaces
  <2>. QED
    BY <2>2, <2>3, <2>4
<1>9. \A q \in HttpRequests : Faithful(requests'[q])
  BY <1>1, <1>8 DEF SignInInv
<1>10. mishap' \/ Undisturbed'
  <2>. SUFFICES ASSUME ~mishap' PROVE Undisturbed'
    OBVIOUS
  <2>1. InFlight = {r} /\ Undisturbed
    BY AloneHolds DEF SignInInv
  <2>2. Replaces(requests'[r]) <=> Touches(headers)
    BY <1>1 DEF Replaces
  <2>3. /\ \A q \in InFlight' : requests'[q].alone
        /\ \A q \in InFlight' : Replaces(requests'[q]) =>
             Unspent(SealedBy(requests'[q].headers), idp'.grants, requests')
        /\ (\A q \in InFlight' : ~Replaces(requests'[q])) =>
             Unspent(ReadSession(jar), idp'.grants, requests')
    BY <1>1, <2>1, <2>2 DEF Undisturbed
  <2>. QED
    BY <2>3 DEF Undisturbed
<1>11. AuthorizedAsItsOwner'
  BY <1>1 DEF SignInInv, AuthorizedAsItsOwner, Entitled
<1>. QED
  BY <1>6, <1>7, <1>9, <1>10, <1>11 DEF SignInInv
\* Its headers leave the session alone, clear it, or write one of the same sign-in.
LEMMA RespondQuietly ==
  ASSUME SignInInv, NEW r \in HttpRequests, requests[r].stage \in Before,
         NEW shown, NEW headers, Respond(r, shown, headers),
         UNCHANGED <<jar, pages, idp, mishap>>, Sessions \subseteq Sessions',
         gateway' \in [Families -> {None} \cup GatewayGrant],
         Cookies(headers, Sessions'),
         \/ Leaves(headers)
         \/ Clears(headers, requests[r].cookies)
         \/ /\ requests[r].session # None
            /\ \E session \in Sessions' :
                 /\ session.idp = requests[r].session.idp
                 /\ Writes(headers, requests[r].cookies, session, r),
         shown = "authorized" => Entitled(requests[r])
  PROVE  SignInInv'
<1>1. /\ idp \in [session : {None} \cup People, grants : [Families -> {None} \cup IdpGrant]]
      /\ mishap \in BOOLEAN /\ Asked(requests[r], Sessions)
  BY DEF SignInInv, SignInTypeOK
<1>2. ASSUME ~mishap'
      PROVE  /\ \A f \in Families : idp'.grants[f] \in IdpGrant => ~idp'.grants[f].revoked
             /\ Touches(headers) => Unspent(SealedBy(headers), idp'.grants, requests')
             /\ ~Touches(headers) => Unspent(ReadSession(jar), idp'.grants, requests')
  <2>1. /\ Unspent(ReadSession(jar), idp.grants, requests)
        /\ Unspent(requests[r].session, idp.grants, requests)
        /\ \A f \in Families : idp.grants[f] \in IdpGrant => ~idp.grants[f].revoked
    BY <1>2, AloneHolds
  <2>2. \A q \in HttpRequests : requests[q].stage \in {"answered", "done"} =>
          requests'[q].stage \in {"answered", "done"}
    BY RespondIs
  <2>3. Unspent(ReadSession(jar), idp'.grants, requests')
    BY <2>1, <2>2 DEF Unspent
  <2>4. ASSUME Touches(headers) PROVE Unspent(SealedBy(headers), idp'.grants, requests')
    <3>1. DOMAIN requests[r].cookies = Names /\ DOMAIN headers \subseteq Names
      BY <1>1 DEF Asked, Cookies
    <3>2. CASE Clears(headers, requests[r].cookies)
      BY <3>1, <3>2, ClearsWhole DEF Unspent
    <3>3. ASSUME requests[r].session # None, NEW session \in Sessions',
                 session.idp = requests[r].session.idp,
                 Writes(headers, requests[r].cookies, session, r)
          PROVE  Unspent(SealedBy(headers), idp'.grants, requests')
      <4>1. session \in AnySession /\ r \in Families
        BY SessionsAre DEF Families
      <4>2. SealedBy(headers) = session
        BY <3>1, <3>3, <4>1, WritesWhole
      <4>. QED
        BY <2>1, <2>2, <3>3, <4>2 DEF Unspent
    <3>. QED
      BY <2>4, <3>2, <3>3 DEF Touches, Leaves
  <2>. QED
    BY <2>1, <2>3, <2>4
<1>3. \/ Leaves(headers)
      \/ Clears(headers, requests[r].cookies)
      \/ \E session \in Sessions' : Writes(headers, requests[r].cookies, session, r)
  OBVIOUS
<1>4. /\ idp' \in [session : {None} \cup People, grants : [Families -> {None} \cup IdpGrant]]
      /\ mishap' \in BOOLEAN /\ (mishap => mishap')
  BY <1>1
<1>. QED
  BY <1>2, <1>3, <1>4, RespondKeeps

LEMMA SameSessions ==
  ASSUME idp'.grants = idp.grants, UNCHANGED gateway
  PROVE  Sessions' = Sessions
BY DEF Sessions

\* A grant is given, or goes on: there are more bearers to hold.
LEMMA GatewayGrows ==
  ASSUME SignInInv, NEW f \in Families, NEW grant \in GatewayGrant,
         gateway' = [gateway EXCEPT ![f] = grant], UNCHANGED idp
  PROVE  /\ gateway' \in [Families -> {None} \cup GatewayGrant]
         /\ Sessions \subseteq Sessions' /\ gateway'[f] \in GatewayGrant
<1>1. gateway \in [Families -> {None} \cup GatewayGrant]
  BY DEF SignInInv, SignInTypeOK
<1>2. /\ gateway' \in [Families -> {None} \cup GatewayGrant] /\ gateway'[f] = grant
      /\ \A e \in Families : gateway[e] \in GatewayGrant => gateway'[e] \in GatewayGrant
  BY <1>1
<1>3. Given(gateway, GatewayGrant) \subseteq Given(gateway', GatewayGrant)
  BY <1>2 DEF Given
<1>. QED
  BY <1>2, <1>3 DEF Sessions

LEMMA IdpGrows ==
  ASSUME SignInInv, NEW f \in Families, NEW grant \in IdpGrant,
         idp' = [idp EXCEPT !.grants[f] = grant], UNCHANGED gateway
  PROVE  /\ idp' \in [session : {None} \cup People, grants : [Families -> {None} \cup IdpGrant]]
         /\ Sessions \subseteq Sessions' /\ idp'.grants = [idp.grants EXCEPT ![f] = grant]
         /\ idp'.grants[f] = grant
         /\ \A e \in Families : e # f => idp'.grants[e] = idp.grants[e]
<1>1. idp \in [session : {None} \cup People, grants : [Families -> {None} \cup IdpGrant]]
  BY DEF SignInInv, SignInTypeOK
<1>2. idp'.session = idp.session /\ idp'.grants = [idp.grants EXCEPT ![f] = grant]
  BY <1>1
<1>3. /\ idp' \in [session : {None} \cup People, grants : [Families -> {None} \cup IdpGrant]]
      /\ idp'.grants[f] = grant
      /\ \A e \in Families : e # f => idp'.grants[e] = idp.grants[e]
  <2>1. idp.grants \in [Families -> {None} \cup IdpGrant]
    BY <1>1
  <2>2. [idp.grants EXCEPT ![f] = grant] \in [Families -> {None} \cup IdpGrant]
    BY <2>1
  <2>3. idp' \in [session : {None} \cup People, grants : [Families -> {None} \cup IdpGrant]]
    BY <1>1, <2>2
  <2>. QED
    BY <1>2, <2>1, <2>3
<1>4. Given(idp.grants, IdpGrant) \subseteq Given(idp'.grants, IdpGrant)
  BY <1>3 DEF Given
<1>. QED
  BY <1>2, <1>3, <1>4 DEF Sessions

\* A handler goes on, with the session it read or the next bearer in it.
LEMMA Proceeds ==
  ASSUME SignInInv, NEW r \in HttpRequests, requests[r].stage \in Before, NEW n,
         requests' = [requests EXCEPT ![r] = n], DOMAIN n = DOMAIN Unsent,
         n.stage \in {"read", "retry", "listing", "listed"},
         n.kind = requests[r].kind, n.arg = requests[r].arg, n.alone = requests[r].alone,
         n.cookies = requests[r].cookies, n.page = requests[r].page,
         n.headers = requests[r].headers,
         n.session \in {None} \cup Sessions',
         n.stage # "listed" => n.session # None /\ n.session.gateway # None,
         n.session # None => /\ requests[r].session # None
                             /\ n.session.idp = requests[r].session.idp,
         UNCHANGED <<jar, pages, idp, mishap>>, Sessions \subseteq Sessions',
         gateway' \in [Families -> {None} \cup GatewayGrant]
  PROVE  SignInInv'
<1>1. /\ \A q \in HttpRequests : Asked(requests[q], Sessions)
      /\ Cookies(jar, Sessions) /\ DOMAIN jar = Names /\ DOMAIN requests = HttpRequests
  BY DEF SignInInv, SignInTypeOK
<1>2. /\ DOMAIN requests' = HttpRequests /\ requests'[r] = n
      /\ \A q \in HttpRequests : q # r => requests'[q] = requests[q]
  BY <1>1
<1>3. InFlight' = InFlight /\ r \in InFlight
  BY <1>2 DEF InFlight, Before
<1>4. requests[r].page = "none"
  BY <1>1 DEF Asked, Before
<1>5. Asked(n, Sessions')
  <2>1. Asked(requests[r], Sessions')
    BY <1>1, MoreAsked
  <2>. QED
    BY <1>4, <2>1 DEF Asked, Stages
<1>6. \A q \in HttpRequests : Asked(requests'[q], Sessions')
  BY <1>1, <1>2, <1>5, MoreAsked
<1>7. SignInTypeOK'
  <2>1. Cookies(jar', Sessions')
    BY <1>1, MoreCookies
  <2>. QED
    BY <1>1, <1>2, <1>6, <2>1 DEF SignInInv, SignInTypeOK
<1>8. AloneIsAlone'
  BY <1>2, <1>3 DEF SignInInv, AloneIsAlone, InFlight
<1>9. Faithful(n)
  <2>1. requests[r].session # None =>
          /\ ReadSession(requests[r].cookies) # None
          /\ ReadSession(requests[r].cookies).idp = requests[r].session.idp
    BY DEF SignInInv, Faithful, Before
  <2>. QED
    BY <2>1 DEF Faithful, Replaces
<1>10. \A q \in HttpRequests : Faithful(requests'[q])
  BY <1>2, <1>9 DEF SignInInv
<1>11. mishap' \/ Undisturbed'
  <2>. SUFFICES ASSUME ~mishap' PROVE Undisturbed'
    OBVIOUS
  <2>1. /\ InFlight = {r} /\ Undisturbed
        /\ Unspent(ReadSession(jar), idp.grants, requests)
    BY AloneHolds DEF SignInInv
  <2>2. Unspent(ReadSession(jar), idp.grants, requests')
    BY <1>2, <2>1 DEF Unspent, Before
  <2>3. ~Replaces(n)
    BY DEF Replaces
  <2>. QED
    BY <1>2, <1>3, <2>1, <2>2, <2>3 DEF Undisturbed
<1>12. AuthorizedAsItsOwner'
  BY <1>2, <1>4 DEF SignInInv, AuthorizedAsItsOwner
<1>. QED
  BY <1>7, <1>8, <1>10, <1>11, <1>12 DEF SignInInv
LEMMA UnsentIs ==
  /\ Unsent.page = "none" /\ DOMAIN Unsent.headers = {} /\ Unsent.alone = TRUE
  /\ Unsent.session = None /\ Unsent.arg = None /\ Unsent.kind = "none"
  /\ Unsent.cookies = Expire(Names)
BY ExpireIs DEF Unsent

\* The browser sends a request, of these arguments.
LEMMA Sends ==
  ASSUME SignInInv, NEW r \in HttpRequests, NEW kind, NEW arg \in Arguments(kind),
         Send(r, kind, arg), idp'.grants = idp.grants,
         idp' \in [session : {None} \cup People, grants : [Families -> {None} \cup IdpGrant]],
         pages' \subseteq pages
  PROVE  SignInInv'
<1>. DEFINE n == [[[[[[Unsent EXCEPT !.kind = kind] EXCEPT !.stage = "serving"]
                     EXCEPT !.arg = arg] EXCEPT !.cookies = jar]
                   EXCEPT !.session = ReadSession(jar)] EXCEPT !.alone = (InFlight = {})]
<1>1. /\ \A q \in HttpRequests : Asked(requests[q], Sessions)
      /\ Cookies(jar, Sessions) /\ DOMAIN jar = Names /\ DOMAIN requests = HttpRequests
  BY DEF SignInInv, SignInTypeOK
<1>2. /\ requests[r].stage = "unsent" /\ r \notin InFlight
      /\ mishap' = (mishap \/ InFlight # {}) /\ UNCHANGED <<jar, gateway>>
  BY DEF Send, InFlight
<1>3. /\ DOMAIN requests' = HttpRequests
      /\ requests'[r] = n
      /\ \A q \in HttpRequests : q # r =>
           requests'[q] = IF q \in InFlight THEN [requests[q] EXCEPT !.alone = FALSE]
                          ELSE requests[q]
  BY DEF Send
<1>4. /\ DOMAIN n = DOMAIN Unsent /\ n.kind = kind /\ n.stage = "serving" /\ n.arg = arg
      /\ n.cookies = jar /\ n.session = ReadSession(jar) /\ n.alone = (InFlight = {})
      /\ n.page = "none" /\ DOMAIN n.headers = {}
  BY UnsentIs DEF Unsent
<1>. HIDE DEF n
<1>5. ASSUME NEW q \in HttpRequests, q # r
      PROVE  /\ DOMAIN requests'[q] = DOMAIN Unsent
             /\ requests'[q].kind = requests[q].kind /\ requests'[q].stage = requests[q].stage
             /\ requests'[q].arg = requests[q].arg /\ requests'[q].page = requests[q].page
             /\ requests'[q].cookies = requests[q].cookies
             /\ requests'[q].session = requests[q].session
             /\ requests'[q].headers = requests[q].headers
             /\ q \in InFlight => ~requests'[q].alone
             /\ q \notin InFlight => requests'[q] = requests[q]
             /\ requests'[q].alone \in BOOLEAN
  <2>1. DOMAIN requests[q] = DOMAIN Unsent /\ requests[q].alone \in BOOLEAN
    BY <1>1 DEF Asked
  <2>. QED
    BY <1>3, <1>5, <2>1 DEF Unsent
<1>6. InFlight' = InFlight \cup {r}
  BY <1>3, <1>4, <1>5 DEF InFlight
<1>7. Sessions' = Sessions
  BY <1>2, SameSessions
<1>8. Asked(n, Sessions)
  <2>1. ReadSession(jar) \in {None} \cup Sessions
    BY <1>1, ReadTyped
  <2>2. Cookies(n.headers, Sessions)
    BY <1>4 DEF Cookies
  <2>. HIDE DEF Arguments
  <2>. QED
    BY <1>1, <1>4, <2>1, <2>2 DEF Asked, Stages
<1>9. \A q \in HttpRequests : Asked(requests'[q], Sessions')
  <2>1. ASSUME NEW q \in HttpRequests, q # r PROVE Asked(requests'[q], Sessions)
    BY <1>1, <1>5, <2>1 DEF Asked
  <2>. QED
    BY <1>3, <1>7, <1>8, <2>1
<1>10. SignInTypeOK'
  BY <1>1, <1>2, <1>3, <1>7, <1>9 DEF SignInInv, SignInTypeOK
<1>11. AloneIsAlone'
  <2>1. ASSUME NEW q \in InFlight', requests'[q].alone
        PROVE  InFlight' = {q} /\ \A name \in SessionNames : jar'[name] = requests'[q].cookies[name]
    <3>1. q \in HttpRequests /\ q = r
      BY <1>5, <1>6, <2>1 DEF InFlight
    <3>. QED
      BY <1>2, <1>3, <1>4, <1>6, <2>1, <3>1
  <2>. QED
    BY <2>1 DEF AloneIsAlone
<1>12. \A q \in HttpRequests : Faithful(requests'[q])
  <2>1. Faithful(n)
    BY <1>4 DEF Faithful, Replaces
  <2>2. ASSUME NEW q \in HttpRequests, q # r PROVE Faithful(requests'[q])
    BY <1>5, <2>2 DEF SignInInv, Faithful, Replaces
  <2>. QED
    BY <1>3, <2>1, <2>2
<1>13. mishap' \/ Undisturbed'
  <2>. SUFFICES ASSUME ~mishap' PROVE Undisturbed'
    OBVIOUS
  <2>1. ~mishap /\ InFlight = {} /\ Undisturbed
    BY <1>2 DEF SignInInv
  <2>2. InFlight' = {r} /\ n.alone /\ ~Replaces(n)
    BY <1>4, <1>6, <2>1 DEF Replaces
  <2>3. Unspent(ReadSession(jar), idp.grants, requests)
    BY <2>1 DEF Undisturbed
  <2>4. Unspent(ReadSession(jar), idp'.grants, requests')
    BY <1>2, <1>5, <2>3 DEF Unspent
  <2>. QED
    BY <1>2, <1>3, <2>1, <2>2, <2>4 DEF Undisturbed
<1>14. AuthorizedAsItsOwner'
  BY <1>3, <1>4, <1>5 DEF SignInInv, AuthorizedAsItsOwner
<1>. QED
  BY <1>10, <1>11, <1>12, <1>13, <1>14 DEF SignInInv

\* A request is over.
LEMMA OverIs ==
  ASSUME SignInInv, NEW r \in HttpRequests, requests' = [requests EXCEPT ![r] = Done],
         Sessions' = Sessions
  PROVE  /\ DOMAIN requests' = HttpRequests /\ requests'[r] = Done
         /\ \A q \in HttpRequests : q # r => requests'[q] = requests[q]
         /\ Done.stage = "done" /\ Done.page = "none"
         /\ InFlight' = InFlight \ {r}
         /\ \A q \in HttpRequests : Asked(requests'[q], Sessions') /\ Faithful(requests'[q])
<1>1. /\ \A q \in HttpRequests : Asked(requests[q], Sessions)
      /\ DOMAIN requests = HttpRequests
  BY DEF SignInInv, SignInTypeOK
<1>2. /\ DOMAIN requests' = HttpRequests /\ requests'[r] = Done
      /\ \A q \in HttpRequests : q # r => requests'[q] = requests[q]
  BY <1>1
<1>3. /\ DOMAIN Done = DOMAIN Unsent /\ Done.stage = "done" /\ Done.page = "none"
      /\ DOMAIN Done.headers = {} /\ Done.alone = TRUE /\ Done.session = None
      /\ Done.arg = None /\ Done.kind = "none" /\ Done.cookies = Expire(Names)
  BY UnsentIs DEF Done, Unsent
<1>4. InFlight' = InFlight \ {r}
  BY <1>2, <1>3 DEF InFlight
<1>5. Asked(Done, Sessions)
  <2>1. Cookies(Done.headers, Sessions) /\ Cookies(Done.cookies, Sessions)
        /\ DOMAIN Done.cookies = Names
    BY <1>3, ExpireIs, HeadersTyped DEF Cookies
  <2>2. Done.arg \in Arguments(Done.kind)
    BY <1>3 DEF Arguments
  <2>. HIDE DEF Done
  <2>. QED
    BY <1>3, <2>1, <2>2 DEF Asked, Stages
<1>6. Faithful(Done)
  BY <1>3 DEF Faithful, Replaces
<1>7. \A q \in HttpRequests : Asked(requests'[q], Sessions')
  BY <1>1, <1>2, <1>5
<1>8. \A q \in HttpRequests : Faithful(requests'[q])
  BY <1>2, <1>6 DEF SignInInv
<1>. QED
  BY <1>2, <1>3, <1>4, <1>7, <1>8

\* What arrives alone is taken whole.
LEMMA ArrivesWhole ==
  ASSUME SignInInv, NEW r \in HttpRequests, Arrive(r), requests[r].alone
  PROVE  /\ InFlight = {r}
         /\ Touches(requests[r].headers) => ReadSession(jar') = SealedBy(requests[r].headers)
         /\ ~Touches(requests[r].headers) => ReadSession(jar') = ReadSession(jar)
<1>. DEFINE headers == requests[r].headers
            cookies == requests[r].cookies
<1>1. /\ requests[r].stage = "answered" /\ jar' = Store(jar, headers) /\ r \in InFlight
  BY Flying DEF Arrive
<1>2. /\ DOMAIN jar = Names /\ DOMAIN cookies = Names /\ DOMAIN headers \subseteq Names
  BY DEF SignInInv, SignInTypeOK, Asked, Cookies
<1>3. InFlight = {r} /\ \A name \in SessionNames : jar[name] = cookies[name]
  BY <1>1 DEF SignInInv, AloneIsAlone
<1>4. \A name \in Names : jar'[name] =
        IF name \in DOMAIN headers THEN headers[name] ELSE jar[name]
  BY <1>1, <1>2, StoreIs
<1>5. ASSUME Touches(headers) PROVE ReadSession(jar') = SealedBy(headers)
  <2>1. Replaces(requests[r])
    BY <1>1, <1>5 DEF Replaces
  <2>2. ReadSession(Store(cookies, headers)) = SealedBy(headers)
    BY <2>1 DEF SignInInv, Faithful
  <2>3. \A name \in Names : Store(cookies, headers)[name] =
          IF name \in DOMAIN headers THEN headers[name] ELSE cookies[name]
    BY <1>2, StoreIs
  <2>4. \A name \in SessionNames : jar'[name] = Store(cookies, headers)[name]
    BY <1>3, <1>4, <2>3 DEF Names
  <2>. QED
    BY <2>2, <2>4, ReadIs DEF SessionNames
<1>6. ASSUME ~Touches(headers) PROVE ReadSession(jar') = ReadSession(jar)
  <2>1. \A name \in SessionNames : jar'[name] = jar[name]
    BY <1>4, <1>6 DEF Names, Touches
  <2>. QED
    BY <2>1, ReadIs DEF SessionNames
<1>. QED
  BY <1>3, <1>5, <1>6

LEMMA ArriveKeeps == ASSUME SignInInv, NEW r \in HttpRequests, Arrive(r) PROVE SignInInv'
<1>. DEFINE headers == requests[r].headers
            cookies == requests[r].cookies
<1>1. /\ requests[r].stage = "answered" /\ jar' = Store(jar, headers)
      /\ requests' = [requests EXCEPT ![r] = Done] /\ UNCHANGED <<idp, gateway, mishap>>
  BY DEF Arrive
<1>2. /\ Asked(requests[r], Sessions) /\ Cookies(jar, Sessions) /\ DOMAIN jar = Names
  BY DEF SignInInv, SignInTypeOK
<1>3. Sessions' = Sessions
  BY <1>1, SameSessions
<1>4. /\ DOMAIN requests' = HttpRequests /\ requests'[r] = Done
      /\ \A q \in HttpRequests : q # r => requests'[q] = requests[q]
      /\ Done.stage = "done" /\ Done.page = "none"
      /\ InFlight' = InFlight \ {r}
      /\ \A q \in HttpRequests : Asked(requests'[q], Sessions') /\ Faithful(requests'[q])
  BY <1>1, <1>3, OverIs
<1>5. Cookies(headers, Sessions) /\ DOMAIN headers \subseteq Names
  BY <1>2 DEF Asked, Cookies
<1>6. Cookies(jar', Sessions') /\ DOMAIN jar' = Names
  BY <1>1, <1>2, <1>3, <1>5, HeadersTyped, StoreIs DEF Store
<1>7. /\ pages' \subseteq [by : HttpRequests, at : {"login", "authorize", "consent"},
                           person : {None} \cup People]
      /\ \A opened \in pages' : opened.at = "consent" => opened.person \in People
  BY DEF Arrive, Opened, SignInInv, SignInTypeOK
<1>8. SignInTypeOK'
  BY <1>1, <1>4, <1>6, <1>7 DEF SignInInv, SignInTypeOK
<1>9. r \in InFlight
  BY <1>1, Flying
<1>10. AloneIsAlone'
  BY <1>4, <1>9 DEF SignInInv, AloneIsAlone, InFlight
<1>11. mishap' \/ Undisturbed'
  <2>. SUFFICES ASSUME ~mishap' PROVE Undisturbed'
    OBVIOUS
  <2>1. Undisturbed /\ requests[r].alone
    BY <1>1, <1>9 DEF SignInInv, Undisturbed
  <2>2. /\ InFlight = {r}
        /\ Touches(headers) => ReadSession(jar') = SealedBy(headers)
        /\ ~Touches(headers) => ReadSession(jar') = ReadSession(jar)
    BY <2>1, ArrivesWhole
  <2>3. InFlight' = {}
    BY <1>4, <2>2
  <2>4. Unspent(ReadSession(jar'), idp.grants, requests)
    <3>1. Replaces(requests[r]) <=> Touches(headers)
      BY <1>1 DEF Replaces
    <3>. QED
      BY <2>1, <2>2, <3>1 DEF Undisturbed
  <2>5. Unspent(ReadSession(jar'), idp.grants, requests')
    BY <1>4, <2>4 DEF Unspent
  <2>. QED
    BY <1>1, <2>1, <2>3, <2>5 DEF Undisturbed
<1>12. AuthorizedAsItsOwner'
  BY <1>4 DEF SignInInv, AuthorizedAsItsOwner
<1>. QED
  BY <1>4, <1>8, <1>10, <1>11, <1>12 DEF SignInInv

LEMMA LoseKeeps == ASSUME SignInInv, NEW r \in HttpRequests, Lose(r) PROVE SignInInv'
<1>1. Sessions' = Sessions
  BY SameSessions DEF Lose
<1>2. /\ DOMAIN requests' = HttpRequests /\ requests'[r] = Done
      /\ \A q \in HttpRequests : q # r => requests'[q] = requests[q]
      /\ Done.stage = "done" /\ Done.page = "none"
      /\ InFlight' = InFlight \ {r}
      /\ \A q \in HttpRequests : Asked(requests'[q], Sessions') /\ Faithful(requests'[q])
  BY <1>1, OverIs DEF Lose
<1>3. SignInTypeOK'
  BY <1>1, <1>2 DEF Lose, SignInInv, SignInTypeOK
<1>4. AloneIsAlone'
  <2>1. r \in InFlight
    BY Flying DEF Lose
  <2>. QED
    BY <1>2, <2>1 DEF Lose, SignInInv, AloneIsAlone, InFlight
<1>5. AuthorizedAsItsOwner'
  BY <1>2 DEF SignInInv, AuthorizedAsItsOwner
<1>. QED
  BY <1>2, <1>3, <1>4, <1>5 DEF Lose, SignInInv

\* The browser and the others move, and no request does.
LEMMA AroundKeeps ==
  ASSUME SignInInv, UNCHANGED <<requests, mishap>>, idp' = idp,
         Cookies(jar', Sessions), DOMAIN jar' = Names,
         \A name \in SessionNames : jar'[name] = jar[name],
         pages' \subseteq [by : HttpRequests, at : {"login", "authorize", "consent"},
                           person : {None} \cup People],
         \A opened \in pages' : opened.at = "consent" => opened.person \in People,
         Sessions \subseteq Sessions',
         gateway' \in [Families -> {None} \cup GatewayGrant]
  PROVE  SignInInv'
<1>1. \A q \in HttpRequests : Asked(requests[q], Sessions')
  BY MoreAsked DEF SignInInv, SignInTypeOK
<1>2. SignInTypeOK'
  BY <1>1, MoreCookies DEF SignInInv, SignInTypeOK
<1>3. InFlight' = InFlight /\ AloneIsAlone'
  BY DEF SignInInv, AloneIsAlone, InFlight
<1>4. ReadSession(jar') = ReadSession(jar)
  BY ReadIs DEF SessionNames
<1>5. mishap' \/ Undisturbed'
  BY <1>3, <1>4 DEF SignInInv, Undisturbed
<1>. QED
  BY <1>2, <1>3, <1>5 DEF SignInInv, AuthorizedAsItsOwner

LEMMA LegExpiresKeeps ==
  ASSUME SignInInv, NEW name \in LegNames, LegExpires(name) PROVE SignInInv'
<1>1. Sessions' = Sessions
  BY SameSessions DEF LegExpires
<1>2. Cookies(jar, Sessions) /\ DOMAIN jar = Names
  BY DEF SignInInv, SignInTypeOK
<1>3. Cookies(jar', Sessions) /\ DOMAIN jar' = Names
  BY <1>2 DEF LegExpires, Cookies
<1>4. \A other \in SessionNames : jar'[other] = jar[other]
  <2>1. name \notin SessionNames
    BY DEF LegNames, SessionNames
  <2>. QED
    BY <1>2, <2>1 DEF LegExpires, Names
<1>5. /\ UNCHANGED <<requests, pages, idp, gateway, mishap>>
      /\ pages \subseteq [by : HttpRequests, at : {"login", "authorize", "consent"},
                          person : {None} \cup People]
      /\ \A opened \in pages : opened.at = "consent" => opened.person \in People
      /\ gateway \in [Families -> {None} \cup GatewayGrant]
  BY DEF LegExpires, SignInInv, SignInTypeOK
<1>. QED
  BY <1>1, <1>3, <1>4, <1>5, AroundKeeps

LEMMA RefusesKeeps ==
  ASSUME SignInInv, NEW f \in Families, NEW gen \in 0..MaxGen, Refuses(f, gen) PROVE SignInInv'
<1>. DEFINE grant == [gateway[f] EXCEPT !.refuses = @ \cup {gen}]
<1>1. gateway \in [Families -> {None} \cup GatewayGrant] /\ gen \in Nat
  BY DEF SignInInv, SignInTypeOK
<1>2. gateway[f] \in GatewayGrant
  BY <1>1 DEF Refuses
<1>3. grant \in GatewayGrant
  BY <1>1, <1>2 DEF GatewayGrant
<1>4. gateway' = [gateway EXCEPT ![f] = grant] /\ UNCHANGED idp
  BY <1>1 DEF Refuses
<1>. HIDE DEF grant
<1>5. gateway' \in [Families -> {None} \cup GatewayGrant] /\ Sessions \subseteq Sessions'
  BY <1>3, <1>4, GatewayGrows
<1>. QED
  BY <1>4, <1>5, AroundKeeps DEF Refuses, SignInInv, SignInTypeOK

LEMMA AuthorizeKeeps ==
  ASSUME SignInInv, NEW opened \in pages, Authorize(opened) PROVE SignInInv'
<1>1. Sessions' = Sessions
  BY SameSessions DEF Authorize
<1>2. /\ opened.by \in HttpRequests /\ idp.session \in People
  BY DEF Authorize, SignInInv, SignInTypeOK
<1>3. /\ pages' \subseteq [by : HttpRequests, at : {"login", "authorize", "consent"},
                           person : {None} \cup People]
      /\ \A p \in pages' : p.at = "consent" => p.person \in People
  BY <1>2 DEF Authorize, Opened, SignInInv, SignInTypeOK
<1>. QED
  BY <1>1, <1>3, AroundKeeps DEF Authorize, SignInInv, SignInTypeOK
-----------------------------------------------------------------------------
(* The handlers.                                                           *)

LEMMA ServingIs ==
  ASSUME SignInInv, NEW r \in HttpRequests, NEW kind, Serving(r, kind)
  PROVE  /\ requests[r].stage \in Before /\ requests[r].kind = kind
         /\ requests[r].arg \in Arguments(kind)
         /\ requests[r].session \in {None} \cup Sessions
         /\ Cookies(requests[r].cookies, Sessions) /\ DOMAIN requests[r].cookies = Names
BY DEF Serving, SignInInv, SignInTypeOK, Asked, Before

\* An answer that changes nothing but cookies.
LEMMA Plainly ==
  ASSUME SignInInv, NEW r \in HttpRequests, requests[r].stage \in Before,
         NEW shown, NEW headers, Respond(r, shown, headers),
         UNCHANGED <<jar, pages, idp, gateway, mishap>>,
         Cookies(headers, Sessions),
         \/ Leaves(headers)
         \/ Clears(headers, requests[r].cookies)
         \/ /\ requests[r].session # None
            /\ \E session \in Sessions :
                 /\ session.idp = requests[r].session.idp
                 /\ Writes(headers, requests[r].cookies, session, r),
         shown = "authorized" => Entitled(requests[r])
  PROVE  SignInInv'
<1>1. Sessions' = Sessions
  BY SameSessions
<1>2. gateway' \in [Families -> {None} \cup GatewayGrant]
  BY DEF SignInInv, SignInTypeOK
<1>3. /\ Sessions \subseteq Sessions' /\ Cookies(headers, Sessions')
      /\ \/ Leaves(headers)
         \/ Clears(headers, requests[r].cookies)
         \/ /\ requests[r].session # None
            /\ \E session \in Sessions' :
                 /\ session.idp = requests[r].session.idp
                 /\ Writes(headers, requests[r].cookies, session, r)
  BY <1>1
<1>. QED
  BY <1>2, <1>3, RespondQuietly

\* No cookie at all.
LEMMA Nothing ==
  \A S : Cookies(Expire({}), S) /\ Leaves(Expire({})) /\ ~Touches(Expire({}))
<1>1. {} \subseteq Names /\ {} \subseteq LegNames
  OBVIOUS
<1>. QED
  BY <1>1, HeadersTyped, LegsLeave DEF Leaves, Touches

LEMMA LegCleared ==
  ASSUME NEW name \in LegNames
  PROVE  Leaves(ClearLeg(name)) /\ \A S : Cookies(ClearLeg(name), S)
<1>1. {name} \subseteq LegNames /\ {name} \subseteq Names
  BY DEF Names
<1>. QED
  BY <1>1, HeadersTyped, LegsLeave DEF ClearLeg

\* What is sealed over the cookies of a request.
LEMMA Seals ==
  ASSUME NEW S, NEW cookies, NEW session \in S, NEW r \in HttpRequests
  PROVE  /\ Cookies(WriteSession(cookies, session, r), S)
         /\ Writes(WriteSession(cookies, session, r), cookies, session, r)
BY HeadersTyped, WriteSessionIs DEF Families

LEMMA SigninKeeps == ASSUME SignInInv, NEW r \in HttpRequests, Signin(r) PROVE SignInInv'
<1>. DEFINE cookies == requests[r].cookies
            value == [state |-> r, next |-> requests[r].arg]
            f == ClearSession(cookies)
            g == WriteLeg("cg_signin", value)
<1>1. /\ requests[r].stage \in Before /\ requests[r].arg \in {"start", "verify"}
  <2>1. Serving(r, "signin")
    BY DEF Signin
  <2>. QED
    BY <2>1, ServingIs DEF Arguments
<1>2. value \in Worth("cg_signin", Sessions) /\ "cg_signin" \in LegNames
  BY <1>1 DEF Worth, LegNames
<1>3. Cookies(f, Sessions) /\ Clears(f, cookies)
  BY HeadersTyped, ClearSessionIs
<1>4. Cookies(g, Sessions) /\ Leaves(g)
  BY <1>2, HeadersTyped, LegsLeave DEF Names
<1>5. Respond(r, "login", Both(f, g)) /\ UNCHANGED <<jar, pages, idp, gateway, mishap>>
  BY DEF Signin
<1>. HIDE DEF f, g
<1>6. Cookies(Both(f, g), Sessions) /\ Clears(Both(f, g), cookies)
  BY <1>3, <1>4, HeadersTyped, BesideLegs
<1>. QED
  BY <1>1, <1>5, <1>6, Plainly

LEMMA SignoutKeeps == ASSUME SignInInv, NEW r \in HttpRequests, Signout(r) PROVE SignInInv'
<1>. DEFINE cookies == requests[r].cookies
            f == ClearSession(cookies)
            g == Expire(LegNames)
<1>1. requests[r].stage \in Before
  <2>1. Serving(r, "signout")
    BY DEF Signout
  <2>. QED
    BY <2>1, ServingIs
<1>2. Cookies(f, Sessions) /\ Clears(f, cookies)
  BY HeadersTyped, ClearSessionIs
<1>3. Cookies(g, Sessions) /\ Leaves(g)
  <2>1. LegNames \subseteq Names
    BY DEF Names
  <2>. QED
    BY <2>1, HeadersTyped, LegsLeave
<1>4. Respond(r, "home", Both(f, g)) /\ UNCHANGED <<jar, pages, idp, gateway, mishap>>
  BY DEF Signout
<1>. HIDE DEF f, g
<1>5. Cookies(Both(f, g), Sessions) /\ Clears(Both(f, g), cookies)
  BY <1>2, <1>3, HeadersTyped, BesideLegs
<1>. QED
  BY <1>1, <1>4, <1>5, Plainly

LEMMA ThrowKeeps == ASSUME SignInInv, NEW r \in HttpRequests, Throw(r) PROVE SignInInv'
<1>1. requests[r].stage \in Before /\ Respond(r, "fault", Expire({})) /\ mishap' = TRUE
      /\ UNCHANGED <<jar, pages, idp, gateway>>
  BY DEF Throw, Before
<1>2. Sessions' = Sessions
  BY <1>1, SameSessions
<1>3. /\ idp' \in [session : {None} \cup People, grants : [Families -> {None} \cup IdpGrant]]
      /\ gateway' \in [Families -> {None} \cup GatewayGrant]
      /\ mishap' \in BOOLEAN /\ (mishap => mishap') /\ Sessions \subseteq Sessions'
  BY <1>1, <1>2 DEF SignInInv, SignInTypeOK
<1>4. Cookies(Expire({}), Sessions') /\ Leaves(Expire({}))
  BY Nothing
<1>. QED
  BY <1>1, <1>3, <1>4, RespondKeeps

LEMMA GatewayStartKeeps ==
  ASSUME SignInInv, NEW r \in HttpRequests, GatewayStart(r) PROVE SignInInv'
<1>1. requests[r].stage \in Before
  <2>1. Serving(r, "start")
    BY DEF GatewayStart
  <2>. QED
    BY <2>1, ServingIs
<1>2. UNCHANGED <<jar, pages, idp, gateway, mishap>>
  BY DEF GatewayStart
<1>. DEFINE g == WriteLeg("cg_gateway", [state |-> r])
<1>3. Cookies(g, Sessions) /\ Leaves(g)
  <2>1. [state |-> r] \in Worth("cg_gateway", Sessions) /\ "cg_gateway" \in LegNames
    BY DEF Worth, LegNames
  <2>. QED
    BY <2>1, HeadersTyped, LegsLeave DEF Names
<1>. HIDE DEF g
<1>4. CASE Respond(r, "signin_first", Expire({}))
  BY <1>1, <1>2, <1>4, Nothing, Plainly
<1>5. CASE Respond(r, "no_client", Expire({}))
  BY <1>1, <1>2, <1>5, Nothing, Plainly
<1>6. CASE Respond(r, "authorize", g)
  BY <1>1, <1>2, <1>3, <1>6, Plainly
<1>. QED
  BY <1>4, <1>5, <1>6 DEF GatewayStart, g

\* Whom Arcade names: the owner of the flow.
LEMMA ConfirmsOwner ==
  \A flow, email : "authorized" \in Confirms(flow, email) => OwnerOf[flow] = email
BY DEF Confirms

LEMMA VerifyKeeps == ASSUME SignInInv, NEW r \in HttpRequests, Verify(r) PROVE SignInInv'
<1>. DEFINE q == requests[r]
            g == WriteLeg("cg_arcade_flow", q.arg.flow)
<1>1. /\ q.stage \in Before /\ q.kind = "verify"
      /\ q.arg \in [flow : Flows, identity : BOOLEAN]
  <2>1. Serving(r, "verify")
    BY DEF Verify
  <2>. QED
    BY <2>1, ServingIs DEF Arguments
<1>2. UNCHANGED <<jar, pages, idp, gateway, mishap>>
  BY DEF Verify
<1>3. Cookies(g, Sessions) /\ Leaves(g)
  <2>1. q.arg.flow \in Worth("cg_arcade_flow", Sessions) /\ "cg_arcade_flow" \in LegNames
    BY <1>1 DEF Worth, LegNames
  <2>. HIDE DEF q
  <2>. QED
    BY <2>1, HeadersTyped, LegsLeave DEF Names
<1>4. \/ Respond(r, "no_identity_taken", Expire({}))
      \/ Respond(r, "signin_first", g)
      \/ \E shown \in Confirms(q.arg.flow, q.session.email) : Respond(r, shown, Expire({}))
  BY DEF Verify, CompleteVerification
<1>. HIDE DEF g
<1>5. CASE Respond(r, "no_identity_taken", Expire({}))
  BY <1>1, <1>2, <1>5, Nothing, Plainly
<1>6. CASE Respond(r, "signin_first", g)
  BY <1>1, <1>2, <1>3, <1>6, Plainly
<1>7. ASSUME NEW shown \in Confirms(q.arg.flow, q.session.email), Respond(r, shown, Expire({}))
      PROVE  SignInInv'
  <2>1. shown = "authorized" => Entitled(q)
    BY <1>1, ConfirmsOwner DEF Entitled
  <2>. QED
    BY <1>1, <1>2, <1>7, <2>1, Nothing, Plainly
<1>. QED
  BY <1>4, <1>5, <1>6, <1>7
\* What a handler does to the session it read: the sign-in stays.
LEMMA SessionOps ==
  ASSUME NEW session \in Sessions
  PROVE  /\ GatewayTokenRejected(session) \in Sessions
         /\ GatewayTokenRejected(session).idp = session.idp
BY DEF GatewayTokenRejected, Sessions

LEMMA NextBearer ==
  ASSUME NEW session \in Sessions, Sessions \subseteq Sessions',
         NEW token \in Given(gateway', GatewayGrant)
  PROVE  /\ WithGatewayToken(session, token) \in Sessions'
         /\ WithGatewayToken(session, token).idp = session.idp
         /\ WithGatewayToken(session, token) # None
         /\ WithGatewayToken(session, token).gateway # None
<1>. DEFINE s == [[session EXCEPT !.gateway = token] EXCEPT !.rejected = FALSE]
<1>1. session \in Sessions'
  OBVIOUS
<1>2. s \in Sessions' /\ s.idp = session.idp /\ s.gateway = token
  BY <1>1 DEF Sessions
<1>3. token \in Bearer
  BY DEF Given, Bearer
<1>4. s # None /\ token # None
  BY <1>2, <1>3, SessionsAre, SignInAssumption
<1>5. WithGatewayToken(session, token) = s
  BY <1>1 DEF WithGatewayToken, Sessions
<1>. QED
  BY <1>2, <1>4, <1>5

\* A refresh is of a grant that was given, and gives its next bearer.
LEMMA RefreshIs ==
  ASSUME SignInInv, NEW session \in Sessions, session.gateway # None,
         Refresh(session.gateway), UNCHANGED idp
  PROVE  /\ gateway' \in [Families -> {None} \cup GatewayGrant]
         /\ Sessions \subseteq Sessions'
         /\ Refreshed(session.gateway) \in Given(gateway', GatewayGrant)
<1>. DEFINE f == session.gateway.family
            grant == [gateway[f] EXCEPT !.gen = @ + 1]
<1>1. f \in Families /\ gateway[f] \in GatewayGrant
  BY DEF Sessions, Given
<1>2. grant \in GatewayGrant /\ gateway[f].gen \in Nat
  BY <1>1 DEF GatewayGrant
<1>3. gateway' = [gateway EXCEPT ![f] = grant]
  BY DEF Refresh, SignInInv, SignInTypeOK
<1>. HIDE DEF grant
<1>4. /\ gateway' \in [Families -> {None} \cup GatewayGrant]
      /\ Sessions \subseteq Sessions' /\ gateway'[f] \in GatewayGrant
  BY <1>1, <1>2, <1>3, GatewayGrows
<1>5. Refreshed(session.gateway) \in Given(gateway', GatewayGrant)
  BY <1>1, <1>2, <1>4 DEF Refreshed, Token, Given
<1>. QED
  BY <1>4, <1>5

LEMMA ReauthorizeKeeps ==
  ASSUME SignInInv, NEW r \in HttpRequests, requests[r].stage \in Before,
         requests[r].session # None, Reauthorize(r, requests[r].session),
         UNCHANGED <<jar, pages, idp, gateway, mishap>>
  PROVE  SignInInv'
<1>. DEFINE session == requests[r].session
            next == GatewayTokenRejected(session)
            headers == WriteSession(requests[r].cookies, next, r)
<1>1. session \in Sessions
  BY DEF SignInInv, SignInTypeOK, Asked
<1>2. next \in Sessions /\ next.idp = session.idp
  BY <1>1, SessionOps
<1>3. Respond(r, "card", headers)
  BY DEF Reauthorize
<1>. HIDE DEF next
<1>4. /\ Cookies(headers, Sessions)
      /\ Writes(headers, requests[r].cookies, next, r)
  BY <1>2, Seals
<1>. HIDE DEF headers
<1>. QED
  BY <1>2, <1>3, <1>4, Plainly

LEMMA GatewayCallbackKeeps ==
  ASSUME SignInInv, NEW r \in HttpRequests, GatewayCallback(r) PROVE SignInInv'
<1>. DEFINE q == requests[r]
            kept == ClearLeg("cg_gateway")
            grant == [person |-> q.arg.person, gen |-> 0, refuses |-> {}]
            next == WithGatewayToken(q.session, Token(r, 0))
            sealed == WriteSession(q.cookies, next, r)
<1>1. /\ q.stage \in Before /\ q.arg \in [state : HttpRequests, person : People]
      /\ q.session \in {None} \cup Sessions
  <2>1. Serving(r, "gwcallback")
    BY DEF GatewayCallback
  <2>. QED
    BY <2>1, ServingIs DEF Arguments
<1>2. UNCHANGED <<jar, pages, idp, mishap>>
  BY DEF GatewayCallback
<1>3. Leaves(kept) /\ \A S : Cookies(kept, S)
  BY LegCleared DEF LegNames
<1>4. CASE Respond(r, "not_started_here", kept) /\ UNCHANGED gateway
  BY <1>1, <1>2, <1>3, <1>4, Plainly
<1>5. CASE Respond(r, "refused", kept) /\ UNCHANGED gateway
  BY <1>1, <1>2, <1>3, <1>5, Plainly
<1>6. CASE /\ q.session # None /\ gateway' = [gateway EXCEPT ![r] = grant]
           /\ Respond(r, "connected", Both(kept, sealed))
  <2>1. grant \in GatewayGrant /\ r \in Families
    BY <1>1 DEF GatewayGrant, Families
  <2>2. /\ gateway' \in [Families -> {None} \cup GatewayGrant]
        /\ Sessions \subseteq Sessions' /\ gateway'[r] \in GatewayGrant
    <3>. HIDE DEF grant
    <3>. QED
      BY <1>2, <1>6, <2>1, GatewayGrows
  <2>3. Token(r, 0) \in Given(gateway', GatewayGrant)
    BY <2>1, <2>2 DEF Token, Given
  <2>4. next \in Sessions' /\ next.idp = q.session.idp
    BY <1>1, <1>6, <2>2, <2>3, NextBearer
  <2>. HIDE DEF next, kept
  <2>5. Cookies(sealed, Sessions') /\ Writes(sealed, q.cookies, next, r)
    BY <2>4, Seals
  <2>. HIDE DEF sealed
  <2>6. /\ Cookies(Both(kept, sealed), Sessions')
        /\ Writes(Both(kept, sealed), q.cookies, next, r)
    BY <1>3, <2>5, HeadersTyped, BesideLegs
  <2>. QED
    BY <1>1, <1>2, <1>6, <2>2, <2>4, <2>6, RespondQuietly
<1>. QED
  BY <1>4, <1>5, <1>6 DEF GatewayCallback

\* A handler goes on at this stage with this session.
LEMMA ProceedsWith ==
  ASSUME SignInInv, NEW r \in HttpRequests, requests[r].stage \in Before,
         NEW stage \in {"read", "retry", "listing", "listed"}, NEW session,
         requests' = [requests EXCEPT ![r].stage = stage, ![r].session = session],
         session \in {None} \cup Sessions',
         stage # "listed" => session # None /\ session.gateway # None,
         session # None => /\ requests[r].session # None
                           /\ session.idp = requests[r].session.idp,
         UNCHANGED <<jar, pages, idp, mishap>>, Sessions \subseteq Sessions',
         gateway' \in [Families -> {None} \cup GatewayGrant]
  PROVE  SignInInv'
<1>. DEFINE n == [[requests[r] EXCEPT !.stage = stage] EXCEPT !.session = session]
<1>1. DOMAIN requests = HttpRequests /\ DOMAIN requests[r] = DOMAIN Unsent
  BY DEF SignInInv, SignInTypeOK, Asked
<1>2. requests' = [requests EXCEPT ![r] = n]
  BY <1>1
<1>3. /\ DOMAIN n = DOMAIN Unsent /\ n.stage = stage /\ n.kind = requests[r].kind
      /\ n.arg = requests[r].arg /\ n.alone = requests[r].alone
      /\ n.cookies = requests[r].cookies /\ n.page = requests[r].page
      /\ n.headers = requests[r].headers /\ n.session = session
  BY <1>1 DEF Unsent
<1>. HIDE DEF n
<1>. QED
  BY <1>2, <1>3, Proceeds

\* A turn or a page goes on with the bearer held, or with the next one.
LEMMA GoesOn ==
  ASSUME SignInInv, NEW r \in HttpRequests, requests[r].stage \in Before,
         NEW stage \in {"read", "retry", "listing"},
         requests[r].session # None, requests[r].session.gateway # None,
         UNCHANGED <<jar, pages, idp, mishap>>,
         \/ /\ requests' = [requests EXCEPT ![r].stage = stage,
                                            ![r].session = requests[r].session]
            /\ UNCHANGED gateway
         \/ /\ Refresh(requests[r].session.gateway)
            /\ requests' = [requests EXCEPT ![r].stage = stage,
                 ![r].session = WithGatewayToken(requests[r].session,
                                  Refreshed(requests[r].session.gateway))]
  PROVE  SignInInv'
<1>. DEFINE session == requests[r].session
            next == WithGatewayToken(session, Refreshed(session.gateway))
<1>1. session \in Sessions
  BY DEF SignInInv, SignInTypeOK, Asked
<1>2. CASE /\ requests' = [requests EXCEPT ![r].stage = stage, ![r].session = session]
           /\ UNCHANGED gateway
  <2>1. Sessions' = Sessions /\ gateway' \in [Families -> {None} \cup GatewayGrant]
    BY <1>2, SameSessions DEF SignInInv, SignInTypeOK
  <2>. QED
    BY <1>1, <1>2, <2>1, ProceedsWith
<1>3. CASE /\ Refresh(session.gateway)
           /\ requests' = [requests EXCEPT ![r].stage = stage, ![r].session = next]
  <2>1. /\ gateway' \in [Families -> {None} \cup GatewayGrant]
        /\ Sessions \subseteq Sessions'
        /\ Refreshed(session.gateway) \in Given(gateway', GatewayGrant)
    BY <1>1, <1>3, RefreshIs
  <2>2. next \in Sessions' /\ next.idp = session.idp /\ next # None /\ next.gateway # None
    BY <1>1, <2>1, NextBearer
  <2>. HIDE DEF next
  <2>. QED
    BY <1>3, <2>1, <2>2, ProceedsWith
<1>. QED
  BY <1>2, <1>3

LEMMA LiveGatewayTokenKeeps ==
  ASSUME SignInInv, NEW r \in HttpRequests, LiveGatewayToken(r) PROVE SignInInv'
<1>. DEFINE session == requests[r].session
<1>1. requests[r].stage \in Before
  <2>1. Serving(r, "chat")
    BY DEF LiveGatewayToken
  <2>. QED
    BY <2>1, ServingIs
<1>2. UNCHANGED <<jar, pages, idp, mishap>>
  BY DEF LiveGatewayToken
<1>3. CASE Bearerless(r, session) /\ UNCHANGED gateway
  <2>1. CASE Respond(r, "unauthorized", Expire({}))
    BY <1>1, <1>2, <1>3, <2>1, Nothing, Plainly
  <2>2. CASE session # None /\ Reauthorize(r, session)
    BY <1>1, <1>2, <1>3, <2>2, ReauthorizeKeeps
  <2>. QED
    BY <1>3, <2>1, <2>2 DEF Bearerless
<1>4. CASE /\ session # None /\ session.gateway # None
           /\ requests' = [requests EXCEPT ![r].stage = "read", ![r].session = session]
           /\ UNCHANGED gateway
  BY <1>1, <1>2, <1>4, GoesOn
<1>5. CASE /\ session # None /\ session.gateway # None
           /\ Refresh(session.gateway)
           /\ requests' = [requests EXCEPT ![r].stage = "read",
                ![r].session = WithGatewayToken(session, Refreshed(session.gateway))]
  BY <1>1, <1>2, <1>5, GoesOn
<1>. QED
  BY <1>3, <1>4, <1>5 DEF LiveGatewayToken

\* A turn under way has a bearer.
LEMMA BearerHeld ==
  ASSUME SignInInv, NEW r \in HttpRequests, requests[r].stage \in {"read", "retry", "listing"}
  PROVE  /\ requests[r].stage \in Before /\ requests[r].session \in Sessions
         /\ requests[r].session # None /\ requests[r].session.gateway # None
BY DEF SignInInv, SignInTypeOK, Asked, Before

LEMMA ProbeKeeps == ASSUME SignInInv, NEW r \in HttpRequests, Probe(r) PROVE SignInInv'
<1>. DEFINE session == requests[r].session
            headers == Resealed(r)
<1>1. /\ requests[r].stage \in Before /\ session \in Sessions /\ session # None
      /\ UNCHANGED <<jar, pages, idp, gateway, mishap>>
  <2>1. requests[r].stage \in {"read", "retry", "listing"}
    BY DEF Probe
  <2>. QED
    BY <2>1, BearerHeld DEF Probe
<1>2. /\ Cookies(headers, Sessions)
      /\ Leaves(headers) \/ Writes(headers, requests[r].cookies, session, r)
  BY <1>1, Nothing, Seals DEF Resealed
<1>3. \/ \E shown \in {"unreachable", "turn", "no_tools"} : Respond(r, shown, headers)
      \/ Reauthorize(r, session)
  BY DEF Probe
<1>. HIDE DEF headers
<1>4. ASSUME NEW shown \in {"unreachable", "turn", "no_tools"}, Respond(r, shown, headers)
      PROVE  SignInInv'
  <2>1. shown # "authorized"
    BY <1>4
  <2>. QED
    BY <1>1, <1>2, <1>4, <2>1, Plainly
<1>5. CASE Reauthorize(r, session)
  BY <1>1, <1>5, ReauthorizeKeeps
<1>. QED
  BY <1>3, <1>4, <1>5

LEMMA RefreshRefusedKeeps ==
  ASSUME SignInInv, NEW r \in HttpRequests, RefreshRefused(r) PROVE SignInInv'
<1>. DEFINE session == requests[r].session
<1>1. /\ requests[r].stage \in Before /\ session # None /\ session.gateway # None
      /\ UNCHANGED <<jar, pages, idp, mishap>>
  <2>1. requests[r].stage \in {"read", "retry", "listing"}
    BY DEF RefreshRefused
  <2>. QED
    BY <2>1, BearerHeld DEF RefreshRefused
<1>2. CASE /\ Refresh(session.gateway)
           /\ requests' = [requests EXCEPT ![r].stage = "retry",
                ![r].session = WithGatewayToken(session, Refreshed(session.gateway))]
  BY <1>1, <1>2, GoesOn
<1>3. CASE Reauthorize(r, session) /\ UNCHANGED gateway
  BY <1>1, <1>3, ReauthorizeKeeps
<1>4. DOMAIN requests = HttpRequests /\ DOMAIN requests[r] = DOMAIN Unsent
  BY DEF SignInInv, SignInTypeOK, Asked
<1>. QED
  BY <1>2, <1>3, <1>4 DEF RefreshRefused, Unsent

LEMMA ListToolsKeeps ==
  ASSUME SignInInv, NEW r \in HttpRequests, ListTools(r) PROVE SignInInv'
<1>. DEFINE session == requests[r].session
<1>1. requests[r].stage \in Before /\ session \in {None} \cup Sessions
  <2>1. Serving(r, "page")
    BY DEF ListTools
  <2>. QED
    BY <2>1, ServingIs
<1>2. UNCHANGED <<jar, pages, idp, mishap>>
  BY DEF ListTools
<1>3. CASE /\ requests' = [requests EXCEPT ![r].stage = "listed", ![r].session = session]
           /\ UNCHANGED gateway
  <2>1. Sessions' = Sessions /\ gateway' \in [Families -> {None} \cup GatewayGrant]
    BY <1>2, <1>3, SameSessions DEF SignInInv, SignInTypeOK
  <2>. QED
    BY <1>1, <1>2, <1>3, <2>1, ProceedsWith
<1>4. CASE /\ session # None /\ session.gateway # None
           /\ requests' = [requests EXCEPT ![r].stage = "listing", ![r].session = session]
           /\ UNCHANGED gateway
  BY <1>1, <1>2, <1>4, GoesOn
<1>5. CASE /\ session # None /\ session.gateway # None
           /\ Refresh(session.gateway)
           /\ requests' = [requests EXCEPT ![r].stage = "listing",
                ![r].session = WithGatewayToken(session, Refreshed(session.gateway))]
  BY <1>1, <1>2, <1>5, GoesOn
<1>. QED
  BY <1>3, <1>4, <1>5 DEF ListTools

LEMMA ListWithKeeps ==
  ASSUME SignInInv, NEW r \in HttpRequests, ListWith(r) PROVE SignInInv'
<1>. DEFINE session == requests[r].session
            n == [requests[r] EXCEPT !.stage = "listed"]
<1>1. /\ requests[r].stage \in Before /\ session \in Sessions /\ session # None
      /\ session.gateway # None /\ UNCHANGED <<jar, pages, idp, mishap>>
  <2>1. requests[r].stage \in {"read", "retry", "listing"}
    BY DEF ListWith
  <2>. QED
    BY <2>1, BearerHeld DEF ListWith
<1>2. /\ gateway' \in [Families -> {None} \cup GatewayGrant]
      /\ Sessions \subseteq Sessions'
  <2>1. CASE UNCHANGED gateway
    BY <1>1, <2>1, SameSessions DEF SignInInv, SignInTypeOK
  <2>2. CASE Refresh(session.gateway)
    BY <1>1, <2>2, RefreshIs
  <2>. QED
    BY <2>1, <2>2 DEF ListWith
<1>3. DOMAIN requests = HttpRequests /\ DOMAIN requests[r] = DOMAIN Unsent
  BY DEF SignInInv, SignInTypeOK, Asked
<1>4. requests' = [requests EXCEPT ![r] = n]
  BY <1>3 DEF ListWith
<1>5. /\ DOMAIN n = DOMAIN Unsent /\ n.stage = "listed" /\ n.kind = requests[r].kind
      /\ n.arg = requests[r].arg /\ n.alone = requests[r].alone
      /\ n.cookies = requests[r].cookies /\ n.page = requests[r].page
      /\ n.headers = requests[r].headers /\ n.session = session
  BY <1>3 DEF Unsent
<1>. HIDE DEF n
<1>. QED
  BY <1>1, <1>2, <1>4, <1>5, Proceeds
\* The sign-in the browser held is not of the grant a request is about to be given.
LEMMA HeldIsOlder ==
  ASSUME SignInInv, NEW r \in HttpRequests, requests[r].stage \in Before,
         NEW shown, NEW headers, Respond(r, shown, headers), ~mishap,
         \A f \in Families : f # r => idp'.grants[f] = idp.grants[f]
  PROVE  Unspent(ReadSession(jar), idp'.grants, requests')
<1>1. Unspent(ReadSession(jar), idp.grants, requests)
  BY AloneHolds
<1>2. ReadSession(jar) \in {None} \cup Sessions
  BY ReadTyped DEF SignInInv, SignInTypeOK
<1>3. CASE ReadSession(jar) # None
  <2>. DEFINE f == ReadSession(jar).idp.family
  <2>1. f \in Families
    BY <1>2, <1>3 DEF Sessions, Given
  <2>2. f # r
    BY <1>1, <1>3 DEF Unspent, Before
  <2>3. f \in HttpRequests => requests'[f].stage \in {"answered", "done"}
    BY <1>1, <1>3, <2>2, RespondIs DEF Unspent
  <2>. QED
    BY <1>1, <1>3, <2>1, <2>2, <2>3 DEF Unspent
<1>4. CASE ReadSession(jar) = None
  BY <1>4 DEF Unspent
<1>. QED
  BY <1>3, <1>4

LEMMA SigninCallbackKeeps ==
  ASSUME SignInInv, NEW r \in HttpRequests, SigninCallback(r) PROVE SignInInv'
<1>. DEFINE q == requests[r]
            leg == q.cookies["cg_signin"]
            flow == q.cookies["cg_arcade_flow"]
            session == Session(q.arg.person, None, Token(r, 0), FALSE)
            kept == ClearLeg("cg_signin")
            sealed == WriteSession(q.cookies, session, r)
            headers == Both(kept, sealed)
            parked == Both(headers, ClearLeg("cg_arcade_flow"))
            grant == [person |-> session.email, gen |-> 0, revoked |-> FALSE]
<1>1. /\ q.stage \in Before /\ q.kind = "callback"
      /\ q.arg \in [state : HttpRequests, person : People]
  <2>1. Serving(r, "callback")
    BY DEF SigninCallback
  <2>. QED
    BY <2>1, ServingIs DEF Arguments
<1>2. UNCHANGED <<jar, pages, gateway, mishap>>
  BY DEF SigninCallback
<1>3. Leaves(kept) /\ \A S : Cookies(kept, S)
  BY LegCleared DEF LegNames
<1>4. CASE Respond(r, "not_started_here", kept) /\ UNCHANGED idp
  BY <1>1, <1>2, <1>3, <1>4, Plainly
<1>5. CASE Respond(r, "refused", kept) /\ UNCHANGED idp
  BY <1>1, <1>2, <1>3, <1>5, Plainly
<1>6. CASE /\ idp' = [idp EXCEPT !.grants[r] = grant]
           /\ \/ \E userinfo \in UserinfoAnswers \ {"email"} : Respond(r, userinfo, kept)
              \/ \E shown \in Confirms(flow, session.email) : Respond(r, shown, parked)
              \/ Respond(r, "expired", parked)
              \/ Respond(r, "signed_in", headers)
  <2>1. grant \in IdpGrant /\ r \in Families /\ grant.gen = 0 /\ ~grant.revoked
        /\ session.email = q.arg.person
    BY <1>1 DEF IdpGrant, Families, Session
  <2>. HIDE DEF grant
  <2>2. /\ idp' \in [session : {None} \cup People, grants : [Families -> {None} \cup IdpGrant]]
        /\ Sessions \subseteq Sessions' /\ idp'.grants[r] = grant
        /\ \A e \in Families : e # r => idp'.grants[e] = idp.grants[e]
    BY <1>2, <1>6, <2>1, IdpGrows
  <2>3. session \in Sessions' /\ session.idp = Token(r, 0)
    BY <1>1, <2>1, <2>2 DEF Session, Token, Sessions, Given
  <2>4. /\ gateway' \in [Families -> {None} \cup GatewayGrant]
        /\ mishap' \in BOOLEAN /\ (mishap => mishap')
    BY <1>2 DEF SignInInv, SignInTypeOK
  <2>5. ~mishap' => \A f \in Families : idp'.grants[f] \in IdpGrant => ~idp'.grants[f].revoked
    BY <1>1, <1>2, <2>1, <2>2, AloneHolds
  <2>6. ASSUME NEW shown, shown # "authorized", Respond(r, shown, kept) PROVE SignInInv'
    <3>1. ~mishap' => Unspent(ReadSession(jar), idp'.grants, requests')
      BY <1>1, <1>2, <2>2, <2>6, HeldIsOlder
    <3>2. ~Touches(kept)
      BY <1>3 DEF Leaves, Touches
    <3>. HIDE DEF kept
    <3>. QED
      BY <1>1, <1>2, <1>3, <2>2, <2>4, <2>5, <2>6, <3>1, <3>2, RespondKeeps
  <2>7. ASSUME NEW shown, NEW all, all = headers \/ all = parked, Respond(r, shown, all),
               shown = "authorized" => Entitled(q)
        PROVE  SignInInv'
    <3>. HIDE DEF session, kept
    <3>1. Cookies(sealed, Sessions') /\ Writes(sealed, q.cookies, session, r)
      BY <2>3, Seals
    <3>. HIDE DEF sealed
    <3>2. Cookies(headers, Sessions') /\ Writes(headers, q.cookies, session, r)
      BY <1>3, <3>1, HeadersTyped, BesideLegs
    <3>. HIDE DEF headers
    <3>3. /\ Leaves(ClearLeg("cg_arcade_flow"))
          /\ Cookies(ClearLeg("cg_arcade_flow"), Sessions')
      BY LegCleared DEF LegNames
    <3>4. Cookies(parked, Sessions') /\ Writes(parked, q.cookies, session, r)
      BY <3>2, <3>3, HeadersTyped, BesideLegs
    <3>. HIDE DEF parked
    <3>5. Cookies(all, Sessions') /\ Writes(all, q.cookies, session, r)
      BY <2>7, <3>2, <3>4
    <3>6. Touches(all) /\ SealedBy(all) = session
      <4>1. DOMAIN q.cookies = Names /\ DOMAIN all \subseteq Names
        BY <3>5 DEF SignInInv, SignInTypeOK, Asked, Cookies
      <4>. QED
        BY <2>1, <2>3, <3>5, <4>1, SessionsAre, WritesWhole
    <3>7. Unspent(session, idp'.grants, requests')
      <4>1. requests'[r].stage = "answered"
        BY <1>1, <2>7, RespondIs
      <4>. QED
        BY <2>1, <2>2, <2>3, <4>1 DEF Unspent, Token
    <3>. HIDE DEF q
    <3>8. \E s \in Sessions' : Writes(all, requests[r].cookies, s, r)
      BY <2>3, <3>5 DEF q
    <3>. QED
      BY <1>1, <1>2, <2>2, <2>4, <2>5, <2>7, <3>5, <3>6, <3>7, <3>8, RespondKeeps DEF q
  <2>8. CASE \E userinfo \in UserinfoAnswers \ {"email"} : Respond(r, userinfo, kept)
    BY <2>6, <2>8 DEF UserinfoAnswers
  <2>9. ASSUME NEW shown \in Confirms(flow, session.email), Respond(r, shown, parked)
        PROVE  SignInInv'
    <3>1. shown = "authorized" => Entitled(q)
      BY <1>1, <2>1, ConfirmsOwner DEF Entitled
    <3>. QED
      BY <2>7, <2>9, <3>1
  <2>10. CASE Respond(r, "expired", parked)
    <3>1. "expired" # "authorized"
      OBVIOUS
    <3>. HIDE DEF parked, headers
    <3>. QED
      BY <2>7, <2>10, <3>1
  <2>11. CASE Respond(r, "signed_in", headers)
    <3>1. "signed_in" # "authorized"
      OBVIOUS
    <3>. HIDE DEF parked, headers
    <3>. QED
      BY <2>7, <2>11, <3>1
  <2>. QED
    BY <1>6, <2>8, <2>9, <2>10, <2>11
<1>. QED
  BY <1>4, <1>5, <1>6 DEF SigninCallback, CompleteVerification

LEMMA ReadLoanBookKeeps ==
  ASSUME SignInInv, NEW r \in HttpRequests, ReadLoanBook(r) PROVE SignInInv'
<1>. DEFINE q == requests[r]
            session == q.session
            family == session.idp.family
            gen == session.idp.gen
            next == Token(family, gen + 1)
            renewed == WithIdpToken(session, next)
            headers == WriteSession(q.cookies, renewed, r)
<1>1. /\ q.stage \in Before /\ session \in {None} \cup Sessions
      /\ UNCHANGED <<jar, pages, gateway, mishap>>
  BY DEF ReadLoanBook, Serving, Before, SignInInv, SignInTypeOK, Asked
<1>2. \A given : "authorized" \notin BookAnswers(given)
  BY DEF BookAnswers
<1>3. ASSUME NEW shown, shown # "authorized", Respond(r, shown, Expire({})), UNCHANGED idp
      PROVE  SignInInv'
  BY <1>1, <1>3, Nothing, Plainly
<1>4. CASE /\ session # None /\ MayRenew(r) /\ Rotate(session.idp)
           /\ \E shown \in BookAnswers(idp'.grants[family]) :
                Respond(r, shown, IF Rotates(session.idp) THEN headers ELSE Expire({}))
  <2>1. /\ family \in Families /\ gen \in Nat /\ session \in Sessions
        /\ idp.grants[family] \in IdpGrant
    BY <1>1, <1>4 DEF Sessions, Given
  <2>. DEFINE old == idp.grants[family]
              rotates == gen = old.gen /\ ~old.revoked
              grant == IF rotates THEN [old EXCEPT !.gen = @ + 1]
                       ELSE [old EXCEPT !.revoked = TRUE]
  <2>2. /\ grant \in IdpGrant
        /\ rotates => grant.gen = gen + 1 /\ grant.revoked = old.revoked
    <3>. HIDE DEF old
    <3>1. old \in IdpGrant
      BY <2>1 DEF old
    <3>2. CASE rotates
      BY <2>1, <3>1, <3>2 DEF IdpGrant
    <3>3. CASE ~rotates
      BY <2>1, <3>1, <3>3 DEF IdpGrant
    <3>. QED
      BY <3>2, <3>3
  <2>3. idp' = [idp EXCEPT !.grants[family] = grant]
    BY <1>4, <2>1 DEF Rotate, Rotates, SignInInv, SignInTypeOK
  <2>. HIDE DEF grant, family
  <2>4. /\ idp' \in [session : {None} \cup People, grants : [Families -> {None} \cup IdpGrant]]
        /\ Sessions \subseteq Sessions' /\ idp'.grants[family] = grant
        /\ \A e \in Families : e # family => idp'.grants[e] = idp.grants[e]
    BY <1>1, <2>1, <2>2, <2>3, IdpGrows
  <2>5. /\ gateway' \in [Families -> {None} \cup GatewayGrant]
        /\ mishap' \in BOOLEAN /\ (mishap => mishap')
    BY <1>1 DEF SignInInv, SignInTypeOK
  <2>6. ~mishap' => /\ gen = old.gen /\ ~old.revoked
                    /\ family \in HttpRequests => requests[family].stage \in {"answered", "done"}
    <3>1. ~mishap' =>
            /\ Unspent(session, idp.grants, requests)
            /\ \A f \in Families : idp.grants[f] \in IdpGrant => ~idp.grants[f].revoked
      BY <1>1, AloneHolds
    <3>2. ~mishap' => /\ gen = old.gen
                      /\ family \in HttpRequests => requests[family].stage \in {"answered", "done"}
      BY <1>4, <3>1 DEF Unspent, family
    <3>3. ~mishap' => ~old.revoked
      BY <2>1, <3>1
    <3>. QED
      BY <3>2, <3>3
  <2>7. ASSUME NEW shown \in BookAnswers(idp'.grants[family]), ~Rotates(session.idp),
               Respond(r, shown, Expire({}))
        PROVE  SignInInv'
    <3>1. mishap' /\ shown # "authorized"
      BY <1>2, <2>6, <2>7 DEF Rotates, family
    <3>. QED
      BY <1>1, <2>4, <2>5, <2>7, <3>1, Nothing, RespondKeeps
  <2>8. ASSUME NEW shown \in BookAnswers(idp'.grants[family]), Rotates(session.idp), Respond(r, shown, headers)
        PROVE  SignInInv'
    <3>1. gen = old.gen /\ ~old.revoked
      BY <2>8 DEF Rotates, family
    <3>2. next \in Given(idp'.grants, IdpGrant)
      BY <2>1, <2>2, <2>4 DEF Token, Given
    <3>3. renewed \in Sessions' /\ renewed.idp = next
      <4>1. session \in Sessions'
        BY <2>1, <2>4
      <4>. HIDE DEF next, session
      <4>. QED
        BY <3>2, <4>1 DEF WithIdpToken, Sessions
    <3>. HIDE DEF renewed
    <3>4. Cookies(headers, Sessions') /\ Writes(headers, q.cookies, renewed, r)
      BY <3>3, Seals
    <3>. HIDE DEF headers
    <3>5. Touches(headers) /\ SealedBy(headers) = renewed
      <4>1. DOMAIN q.cookies = Names /\ DOMAIN headers \subseteq Names /\ r \in Families
        BY <3>4 DEF SignInInv, SignInTypeOK, Asked, Cookies, Families
      <4>. QED
        BY <3>3, <3>4, <4>1, SessionsAre, WritesWhole
    <3>6. ~mishap' => Unspent(renewed, idp'.grants, requests')
      <4>1. /\ requests'[r].stage = "answered"
            /\ \A e \in HttpRequests : e # r => requests'[e] = requests[e]
        BY <1>1, <2>8, RespondIs
      <4>2. renewed.idp.family = family /\ renewed.idp.gen = gen + 1
        BY <3>3 DEF Token
      <4>3. idp'.grants[family].gen = gen + 1
        BY <2>2, <2>4, <3>1
      <4>4. ~mishap' /\ family \in HttpRequests => requests'[family].stage \in {"answered", "done"}
        BY <2>6, <4>1
      <4>. QED
        BY <4>2, <4>3, <4>4 DEF Unspent
    <3>7. ~mishap' => \A f \in Families : idp'.grants[f] \in IdpGrant => ~idp'.grants[f].revoked
      <4>1. ~mishap' => \A f \in Families : idp.grants[f] \in IdpGrant => ~idp.grants[f].revoked
        BY <1>1, AloneHolds
      <4>. QED
        BY <2>2, <2>4, <3>1, <4>1
    <3>8. \E s \in Sessions' : Writes(headers, requests[r].cookies, s, r)
      BY <3>3, <3>4
    <3>9. shown # "authorized"
      BY <1>2, <2>8
    <3>. QED
      BY <1>1, <2>4, <2>5, <2>8, <3>4, <3>5, <3>6, <3>7, <3>8, <3>9, RespondKeeps
  <2>. QED
    BY <1>4, <2>7, <2>8
<1>5. CASE Respond(r, "signed_out", Expire({})) /\ UNCHANGED idp
  BY <1>3, <1>5
<1>6. CASE /\ \E shown \in BookAnswers(idp'.grants[family]) : Respond(r, shown, Expire({}))
           /\ UNCHANGED idp
  BY <1>2, <1>3, <1>6
<1>. QED
  BY <1>4, <1>5, <1>6 DEF ReadLoanBook, MayRenew

LEMMA BrowseKeeps == ASSUME SignInInv, NEW r \in HttpRequests, Browse(r) PROVE SignInInv'
<1>1. /\ UNCHANGED <<pages, idp>>
      /\ idp \in [session : {None} \cup People, grants : [Families -> {None} \cup IdpGrant]]
  BY DEF Browse, SignInInv, SignInTypeOK
<1>2. ASSUME NEW kind, NEW arg \in Arguments(kind), Send(r, kind, arg) PROVE SignInInv'
  BY <1>1, <1>2, Sends
<1>3. ASSUME NEW kind \in {"signout", "start", "chat", "loans", "page"}, Send(r, kind, None)
      PROVE  SignInInv'
  <2>1. None \in Arguments(kind)
    BY DEF Arguments
  <2>. QED
    BY <1>2, <1>3, <2>1
<1>4. ASSUME NEW next \in {"start", "verify"}, Send(r, "signin", next) PROVE SignInInv'
  <2>1. next \in Arguments("signin")
    BY DEF Arguments
  <2>. QED
    BY <1>2, <1>4, <2>1
<1>5. ASSUME NEW flow \in Flows, NEW identity \in BOOLEAN,
             Send(r, "verify", [flow |-> flow, identity |-> identity])
      PROVE  SignInInv'
  <2>. DEFINE arg == [flow |-> flow, identity |-> identity]
  <2>1. arg \in Arguments("verify")
    BY DEF Arguments
  <2>. HIDE DEF arg
  <2>2. Send(r, "verify", arg)
    BY <1>5 DEF arg
  <2>. QED
    BY <1>2, <2>1, <2>2
<1>. QED
  BY <1>3, <1>4, <1>5 DEF Browse

LEMMA ConsentKeeps ==
  ASSUME SignInInv, NEW opened \in pages, NEW r \in HttpRequests, Consent(opened, r) PROVE SignInInv'
<1>. DEFINE arg == [state |-> opened.by, person |-> opened.person]
<1>1. opened.by \in HttpRequests /\ opened.person \in People
  BY DEF Consent, SignInInv, SignInTypeOK
<1>2. arg \in Arguments("gwcallback")
  BY <1>1 DEF Arguments
<1>3. Send(r, "gwcallback", arg) /\ UNCHANGED idp /\ pages' \subseteq pages
  BY DEF Consent
<1>. HIDE DEF arg
<1>. QED
  BY <1>2, <1>3, Sends DEF SignInInv, SignInTypeOK

LEMMA LogInKeeps ==
  ASSUME SignInInv, NEW opened \in pages, NEW person \in People, NEW r \in HttpRequests,
         LogIn(opened, person, r)
  PROVE  SignInInv'
<1>. DEFINE arg == [state |-> opened.by, person |-> person]
<1>1. opened.by \in HttpRequests
  BY DEF SignInInv, SignInTypeOK
<1>2. arg \in Arguments("callback")
  BY <1>1 DEF Arguments
<1>3. Send(r, "callback", arg) /\ pages' \subseteq pages
  BY DEF LogIn
<1>4. /\ idp'.grants = idp.grants
      /\ idp' \in [session : {None} \cup People, grants : [Families -> {None} \cup IdpGrant]]
  BY DEF LogIn, SignInInv, SignInTypeOK
<1>. HIDE DEF arg
<1>. QED
  BY <1>2, <1>3, <1>4, Sends
LEMMA SignInBegins == SignInInit => SignInInv
<1>. SUFFICES ASSUME SignInInit PROVE SignInInv
  OBVIOUS
<1>1. PICK person \in People \cup {None}, gw \in {None, Token(Earlier, 0)} :
        /\ person = None => gw = None
        /\ jar = IF person = None THEN Expire(Names)
                 ELSE Store(Expire(Names),
                        WriteSession(Expire(Names),
                          Session(person, gw, Token(Earlier, 0), FALSE), Earlier))
        /\ idp = [session |-> person,
                  grants |-> [f \in Families |->
                    IF f = Earlier /\ person # None
                    THEN [person |-> person, gen |-> 0, revoked |-> FALSE] ELSE None]]
        /\ gateway = [f \in Families |->
             IF f = Earlier /\ gw # None
             THEN [person |-> person, gen |-> 0, refuses |-> {}] ELSE None]
  BY Zenon DEF SignInInit
<1>2. requests = [r \in HttpRequests |-> Unsent] /\ pages = {} /\ mishap = FALSE
  BY DEF SignInInit
<1>. DEFINE session == Session(person, gw, Token(Earlier, 0), FALSE)
<1>3. Earlier \in Families
  BY DEF Families
<1>4. /\ idp \in [session : {None} \cup People, grants : [Families -> {None} \cup IdpGrant]]
      /\ person # None => idp.grants[Earlier] \in IdpGrant /\ idp.grants[Earlier].gen = 0
      /\ \A f \in Families : idp.grants[f] \in IdpGrant => ~idp.grants[f].revoked
  <2>. DEFINE given == [person |-> person, gen |-> 0, revoked |-> FALSE]
              grants == [f \in Families |-> IF f = Earlier /\ person # None THEN given ELSE None]
  <2>1. person # None => given \in IdpGrant
    BY DEF IdpGrant
  <2>2. given.gen = 0 /\ ~given.revoked
    OBVIOUS
  <2>. HIDE DEF given
  <2>3. /\ grants \in [Families -> {None} \cup IdpGrant]
        /\ person # None => grants[Earlier] = given
        /\ \A f \in Families : grants[f] = None \/ grants[f] = given
    BY <1>3, <2>1
  <2>4. idp = [session |-> person, grants |-> grants]
    BY <1>1 DEF given
  <2>5. None \notin IdpGrant
    BY SignInAssumption
  <2>. HIDE DEF grants
  <2>. QED
    BY <2>1, <2>2, <2>3, <2>4, <2>5
<1>5. /\ gateway \in [Families -> {None} \cup GatewayGrant]
      /\ gw # None => gateway[Earlier] \in GatewayGrant
  <2>. DEFINE given == [person |-> person, gen |-> 0, refuses |-> {}]
  <2>1. gw # None => given \in GatewayGrant
    BY <1>1 DEF GatewayGrant
  <2>. HIDE DEF given
  <2>2. gateway = [f \in Families |-> IF f = Earlier /\ gw # None THEN given ELSE None]
    BY <1>1 DEF given
  <2>. QED
    BY <1>3, <2>1, <2>2
<1>6. person # None => session \in Sessions
  BY <1>3, <1>4, <1>5 DEF Session, Token, Sessions, Given
<1>. HIDE DEF session
<1>7. Cookies(jar, Sessions) /\ DOMAIN jar = Names
  <2>1. Cookies(Expire(Names), Sessions) /\ DOMAIN Expire(Names) = Names
    BY HeadersTyped, ExpireIs
  <2>2. CASE person # None
    <3>. DEFINE headers == WriteSession(Expire(Names), session, Earlier)
    <3>1. Cookies(headers, Sessions)
      BY <1>3, <1>6, <2>2, HeadersTyped
    <3>2. jar = Store(Expire(Names), headers)
      BY <1>1, <2>2 DEF session
    <3>. HIDE DEF headers
    <3>3. Cookies(jar, Sessions)
      BY <2>1, <3>1, <3>2, HeadersTyped DEF Store
    <3>4. DOMAIN headers \subseteq Names
      BY <3>1 DEF Cookies
    <3>. QED
      BY <2>1, <3>2, <3>3, <3>4, StoreIs
  <2>. QED
    BY <1>1, <2>1, <2>2
<1>8. /\ \A r \in HttpRequests : requests[r] = Unsent
      /\ DOMAIN requests = HttpRequests /\ InFlight = {}
  BY <1>2 DEF InFlight, Unsent
<1>9. Asked(Unsent, Sessions) /\ Faithful(Unsent)
  <2>1. Unsent.stage = "unsent"
    BY DEF Unsent
  <2>2. /\ Cookies(Expire(Names), Sessions) /\ DOMAIN Expire(Names) = Names
        /\ Cookies(Unsent.headers, Sessions)
    BY UnsentIs, HeadersTyped, ExpireIs DEF Cookies
  <2>3. Unsent.arg \in Arguments(Unsent.kind)
    BY UnsentIs DEF Arguments
  <2>. HIDE DEF Unsent
  <2>. QED
    BY <2>1, <2>2, <2>3, UnsentIs DEF Asked, Stages, Faithful, Replaces
<1>10. SignInTypeOK
  BY <1>2, <1>4, <1>5, <1>7, <1>8, <1>9 DEF SignInTypeOK
<1>11. AloneIsAlone /\ AuthorizedAsItsOwner
  BY <1>8, UnsentIs DEF AloneIsAlone, AuthorizedAsItsOwner
<1>12. Unspent(ReadSession(jar), idp.grants, requests)
  <2>1. CASE person = None
    <3>1. jar["cg_session.0"] = None
      BY <1>1, <2>1, ExpireIs DEF Names, SessionNames
    <3>. QED
      BY <3>1, ReadIs DEF Unspent
  <2>2. CASE person # None
    <3>. DEFINE headers == WriteSession(Expire(Names), session, Earlier)
    <3>1. /\ Cookies(headers, Sessions) /\ Writes(headers, Expire(Names), session, Earlier)
          /\ DOMAIN Expire(Names) = Names
      BY <1>3, <1>6, <2>2, HeadersTyped, WriteSessionIs, ExpireIs
    <3>2. jar = Store(Expire(Names), headers)
      BY <1>1, <2>2 DEF session
    <3>. HIDE DEF headers
    <3>3. DOMAIN headers \subseteq Names
      BY <3>1 DEF Cookies
    <3>4. ReadSession(jar) = session
      BY <1>3, <1>6, <2>2, <3>1, <3>2, <3>3, SessionsAre, WritesWhole
    <3>5. session.idp = Token(Earlier, 0)
      BY DEF session, Session
    <3>6. session.idp.family = Earlier /\ session.idp.gen = 0
      BY <3>5 DEF Token
    <3>. QED
      BY <1>4, <2>2, <3>4, <3>6, SignInAssumption DEF Unspent
  <2>. QED
    BY <2>1, <2>2
<1>13. Undisturbed
  BY <1>4, <1>8, <1>12 DEF Undisturbed
<1>. QED
  BY <1>8, <1>9, <1>10, <1>11, <1>13 DEF SignInInv

LEMMA SignInSteps == SignInInv /\ [SignInNext]_signInVars => SignInInv'
<1>. SUFFICES ASSUME SignInInv, [SignInNext]_signInVars PROVE SignInInv'
  OBVIOUS
<1>1. ASSUME NEW r \in HttpRequests,
             \/ Browse(r) \/ Arrive(r) \/ Lose(r) \/ Throw(r)
             \/ Signin(r) \/ SigninCallback(r) \/ Signout(r)
             \/ GatewayStart(r) \/ GatewayCallback(r) \/ Verify(r)
             \/ LiveGatewayToken(r) \/ Probe(r) \/ RefreshRefused(r)
             \/ ListTools(r) \/ ListWith(r) \/ ReadLoanBook(r)
      PROVE  SignInInv'
  BY <1>1, BrowseKeeps, ArriveKeeps, LoseKeeps, ThrowKeeps, SigninKeeps, SigninCallbackKeeps,
     SignoutKeeps, GatewayStartKeeps, GatewayCallbackKeeps, VerifyKeeps, LiveGatewayTokenKeeps,
     ProbeKeeps, RefreshRefusedKeeps, ListToolsKeeps, ListWithKeeps, ReadLoanBookKeeps
<1>2. ASSUME NEW r \in HttpRequests, NEW opened \in pages,
             Consent(opened, r) \/ \E person \in People : LogIn(opened, person, r)
      PROVE  SignInInv'
  BY <1>2, ConsentKeeps, LogInKeeps
<1>3. CASE \E opened \in pages : Authorize(opened)
  BY <1>3, AuthorizeKeeps
<1>4. CASE \E name \in LegNames : LegExpires(name)
  BY <1>4, LegExpiresKeeps
<1>5. CASE \E f \in Families : \E gen \in 0..MaxGen : Refuses(f, gen)
  BY <1>5, RefusesKeeps
<1>6. CASE UNCHANGED signInVars
  <2>1. Sessions' = Sessions /\ InFlight' = InFlight
    BY <1>6, SameSessions DEF signInVars, InFlight
  <2>. QED
    BY <1>6, <2>1 DEF signInVars, SignInInv, SignInTypeOK, AloneIsAlone, Undisturbed,
                      AuthorizedAsItsOwner
<1>. QED
  BY <1>1, <1>2, <1>3, <1>4, <1>5, <1>6 DEF SignInNext

LEMMA SignInInvariant == SignInSpec => []SignInInv
BY SignInBegins, SignInSteps, PTL DEF SignInSpec

\* The cookies, the requests under way and the grants keep their types; a bearer is
\* only held of a grant that was given.
THEOREM SignInCorrect == SignInSpec => []SignInTypeOK
<1>1. SignInInv => SignInTypeOK
  BY DEF SignInInv
<1>. QED
  BY <1>1, SignInInvariant, PTL

\* "Authorized" is said to the person whose flow it is, whoever signs in meanwhile.
THEOREM AuthorizedItsOwner == SignInSpec => []AuthorizedAsItsOwner
<1>1. SignInInv => AuthorizedAsItsOwner
  BY DEF SignInInv
<1>. QED
  BY <1>1, SignInInvariant, PTL

\* One request after another, each answered, never cost a person their sign-in.
THEOREM NeverSpentTwice == SignInSpec => []SignInSurvives
<1>1. SignInInv => SignInSurvives
  <2>. SUFFICES ASSUME SignInInv, NEW f \in Families, idp.grants[f] # None,
                       idp.grants[f].revoked
                PROVE  mishap
    BY DEF SignInSurvives
  <2>1. idp.grants[f] \in IdpGrant
    BY DEF SignInInv, SignInTypeOK
  <2>. QED
    BY <2>1 DEF SignInInv, Undisturbed
<1>. QED
  BY <1>1, SignInInvariant, PTL

\* An answer nothing overlapped leaves the browser with the session it seals, in
\* however many chunks, or with none.
THEOREM SealsAreTaken == SignInSpec => SealTakes
<1>1. ASSUME SignInInv, [SignInNext]_signInVars
      PROVE  [\A r \in HttpRequests :
                /\ Arrive(r) /\ requests[r].alone
                /\ Touches(requests[r].headers)
                => ReadSession(jar') = SealedBy(requests[r].headers)]_signInVars
  BY <1>1, ArrivesWhole
<1>. QED
  BY <1>1, SignInInvariant, PTL DEF SignInSpec, SealTakes
=============================================================================
