--------------------------- MODULE SessionsProofs ---------------------------
(***************************************************************************)
(* Accounts and login sessions implement the life of a session, and what   *)
(* overlapping requests may do to its expiry: for every number of          *)
(* sessions, browsers, requests, failures and seconds.                     *)
(***************************************************************************)
EXTENDS Sessions, TLAPS

-----------------------------------------------------------------------------
(* The inductive invariant. *)

\* Stages behind the reading of the session.
UnderSession == {"purge", "game", "deleteSession", "refresh"}

\* The times a request works with: what RequireAuth read never lies a whole
\* life ahead, and what will be written is no earlier than what was read.
TimesOK(q) ==
    /\ q.at = "purge" => q.seen <= clock
    /\ q.at \in {"game", "deleteSession"} => q.seen <= clock + TTL
    /\ q.at = "refresh" => q.seen <= q.due
    /\ q.at \in {"createSession", "refresh"} => q.due <= clock + TTL

Sound(q) ==
    /\ q \in Request
    /\ q.at = "auth" => q.op \in DOMAIN Handler
    /\ q.at \in UnderSession => q.sid \in Ids
    /\ q.at = "createSession" => q.email \in account
    /\ TimesOK(q)

RequestsOK ==
    /\ req \in [Reqs -> Request]
    /\ \A r \in Reqs : Sound(req[r])

TablesOK ==
    /\ clock \in 0 .. MaxTime
    /\ account \subseteq Emails
    /\ session \in [Ids -> Row \cup {Unused, Deleted}]
    /\ \A s \in Ids : Stored(s) => /\ session[s].user \in account
                                   /\ session[s].expires <= clock + TTL
    /\ cookie \in [Browsers -> Cookie]
    /\ faults \in 0 .. MaxFaults

Inv == TablesOK /\ RequestsOK

LEMMA InvType == Inv => TypeOK
BY DEF Inv, TablesOK, RequestsOK, TypeOK

LEMMA InvTimes ==
    ASSUME Inv
    PROVE  /\ clock \in Nat /\ clock + TTL \in Nat /\ TTL \in Nat /\ TTL >= 1
           /\ \A s \in Ids : Stored(s) =>
                /\ session[s] \in Row
                /\ session[s].expires \in Nat /\ session[s].expires <= clock + TTL
BY SessionsAssumption DEF Inv, TablesOK, Stored, Row

LEMMA InvRequest ==
    ASSUME Inv, NEW r \in Reqs
    PROVE  req[r] \in Request /\ Sound(req[r])
BY DEF Inv, RequestsOK

LEMMA IdleSound ==
    /\ Idle \in Request /\ Idle.at = "idle"
    /\ clock \in Nat => Sound(Idle)
<1>1. /\ (CHOOSE b \in Browsers : TRUE) \in Browsers
      /\ (CHOOSE e \in Emails : TRUE) \in Emails
  BY SessionsAssumption
<1>2. NoCookie \in Cookie
  BY DEF NoCookie, Cookie
<1>3. Idle \in Request /\ Idle.at = "idle"
  BY <1>1, <1>2 DEF Idle, Request, Stages, Ops
<1> QED
  BY <1>3 DEF Sound, TimesOK, UnderSession

\* A request is as sound when the clock and the accounts have grown.
LEMMA SoundLater ==
    ASSUME Inv, NEW q, Sound(q), clock' \in Nat, clock <= clock', account \subseteq account'
    PROVE  Sound(q)'
<1>1. q \in Request /\ q.seen \in Nat /\ q.due \in Nat
  BY DEF Sound, Request
<1>2. clock + TTL <= clock' + TTL /\ clock' + TTL \in Nat
  BY InvTimes
<1>3. TimesOK(q)'
  BY <1>1, <1>2, InvTimes DEF Sound, TimesOK
<1> QED
  BY <1>3 DEF Sound

\* The request in slot r changes, and the tables may.
LEMMA RequestStep ==
    ASSUME Inv, NEW r \in Reqs, NEW q, Sound(q), req' = [req EXCEPT ![r] = q],
           clock' = clock, account \subseteq account'
    PROVE  RequestsOK'
<1>1. clock' \in Nat /\ clock <= clock'
  BY InvTimes
<1>2. q \in Request /\ Sound(q)'
  BY <1>1, SoundLater DEF Sound
<1>3. \A z \in Reqs : Sound(req[z])'
  <2> SUFFICES ASSUME NEW z \in Reqs PROVE Sound(req[z])'
    OBVIOUS
  <2>1. req[z] \in Request /\ Sound(req[z])
    BY InvRequest
  <2>2. CASE z = r
    <3>1. req'[z] = q
      BY <2>2 DEF Inv, RequestsOK
    <3> QED
      BY <1>2, <3>1 DEF Sound, TimesOK
  <2>3. CASE z # r
    <3>1. req'[z] = req[z]
      BY <2>3 DEF Inv, RequestsOK
    <3>2. PICK x : x = req[z]
      OBVIOUS
    <3>3. Sound(x)'
      BY <1>1, <2>1, <3>2, SoundLater
    <3> QED
      BY <3>1, <3>2, <3>3 DEF Sound, TimesOK
  <2> QED
    BY <2>2, <2>3
<1> QED
  BY <1>2, <1>3 DEF Inv, RequestsOK

\* A slot is left idle.
LEMMA EndStep ==
    ASSUME Inv, NEW r \in Reqs, End(r), account \subseteq account'
    PROVE  RequestsOK'
BY IdleSound, InvTimes, RequestStep DEF End, Becomes

\* Rows are deleted, and nothing else happens to the tables.
LEMMA WithoutSound ==
    ASSUME Inv, NEW s, session' = Without(s), UNCHANGED <<clock, account, cookie>>,
           faults' \in 0 .. MaxFaults
    PROVE  TablesOK'
<1>1. session' \in [Ids -> Row \cup {Unused, Deleted}]
  BY DEF Inv, TablesOK, Without
<1>2. \A z \in Ids : session'[z] \in Row => session'[z] = session[z]
  BY MarksAreNoRows DEF Inv, TablesOK, Without, Stored
<1> QED
  BY <1>1, <1>2 DEF Inv, TablesOK, Stored

\* A row is stored with an expiry no further than a life ahead.
LEMMA StoreSound ==
    ASSUME Inv, NEW s \in Ids, NEW e \in account, NEW x \in Nat, x <= clock + TTL,
           session' = [session EXCEPT ![s] = [user |-> e, expires |-> x]],
           UNCHANGED <<clock, account, cookie>>, faults' \in 0 .. MaxFaults
    PROVE  TablesOK'
<1> DEFINE row == [user |-> e, expires |-> x]
<1>1. row \in Row /\ row.user = e /\ row.expires = x
  BY DEF Inv, TablesOK, Row
<1> HIDE DEF row
<1>2. session' \in [Ids -> Row \cup {Unused, Deleted}]
  BY <1>1 DEF Inv, TablesOK, row
<1>3. \A z \in Ids : session'[z] = IF z = s THEN row ELSE session[z]
  BY DEF Inv, TablesOK, row
<1>4. \A z \in Ids : Stored(z)' => /\ session'[z].user \in account
                                   /\ session'[z].expires <= clock + TTL
  BY <1>1, <1>3 DEF Inv, TablesOK, Stored
<1> QED
  BY <1>2, <1>4 DEF Inv, TablesOK

LEMMA TablesUnchanged ==
    ASSUME Inv, UNCHANGED <<clock, account, session, cookie, faults>>
    PROVE  TablesOK'
BY DEF Inv, TablesOK, Stored

-----------------------------------------------------------------------------
(* What the steps are to SessionLife. *)

LifeOf == [s \in Ids |-> Lived(s)]

AdmittedTo == [r \in Reqs |-> IF Served(r) THEN req[r].sid ELSE NoId]

Refines == Life!Next \/ UNCHANGED Life!vars

\* The session under which a request in slot r would be served.
Under(q) == IF q.at \in {"game", "deleteSession", "refresh"} THEN q.sid ELSE NoId

LEMMA AdmittedIsUnder == AdmittedTo = [r \in Reqs |-> Under(req[r])]
BY DEF AdmittedTo, Under, Served

LEMMA SlotAdmitted ==
    ASSUME Inv, NEW r \in Reqs, NEW q, req' = [req EXCEPT ![r] = q]
    PROVE  AdmittedTo' = [AdmittedTo EXCEPT ![r] = Under(q)]
<1>1. AdmittedTo' = [z \in Reqs |-> Under(req'[z])]
  BY DEF AdmittedTo, Under, Served
<1>2. \A z \in Reqs : req'[z] = IF z = r THEN q ELSE req[z]
  BY DEF Inv, RequestsOK
<1> QED
  BY <1>1, <1>2, AdmittedIsUnder

LEMMA LifeUnchanged ==
    ASSUME UNCHANGED <<clock, session>>
    PROVE  LifeOf' = LifeOf
BY DEF LifeOf, Lived, Expired

\* Only the session whose entry changes changes its life.
LEMMA LifeOfOne ==
    ASSUME Inv, NEW s \in Ids, NEW x, session' = [session EXCEPT ![s] = x],
           clock' = clock
    PROVE  LifeOf' = [LifeOf EXCEPT ![s] = LifeOf'[s]] /\ session'[s] = x
<1>1. \A z \in Ids : session'[z] = IF z = s THEN x ELSE session[z]
  BY DEF Inv, TablesOK
<1>2. \A z \in Ids : z # s => LifeOf'[z] = LifeOf[z]
  BY <1>1 DEF LifeOf, Lived, Expired
<1>3. LifeOf = [z \in Ids |-> LifeOf[z]] /\ LifeOf' = [z \in Ids |-> LifeOf'[z]]
  BY DEF LifeOf
<1> QED
  BY <1>1, <1>2, <1>3

LEMMA StoredLives ==
    ASSUME NEW s \in Ids
    PROVE  /\ session[s] \in Row => LifeOf[s] = IF Expired(s) THEN "lapsed" ELSE "open"
           /\ session[s] = Unused => LifeOf[s] = "unused"
           /\ session[s] = Deleted => LifeOf[s] = "closed"
BY MarksAreNoRows DEF LifeOf, Lived

LEMMA StoredLivesNext ==
    ASSUME NEW s \in Ids
    PROVE  /\ session'[s] \in Row => LifeOf'[s] \in {"open", "lapsed"}
           /\ session'[s] = Deleted => LifeOf'[s] = "closed"
BY MarksAreNoRows DEF LifeOf, Lived, Expired

\* The actions of SessionLife, over what is shown of Sessions.
LEMMA OpenStep ==
    ASSUME NEW s \in Ids, LifeOf[s] = "unused", NEW l \in {"open", "lapsed"},
           LifeOf' = [LifeOf EXCEPT ![s] = l], UNCHANGED AdmittedTo
    PROVE  Life!Next
<1>1. Life!Open(s)
  BY DEF Life!Open, LifeOf, AdmittedTo
<1> QED
  BY <1>1 DEF Life!Next

LEMMA CloseStep ==
    ASSUME NEW s \in Ids, LifeOf[s] \in {"open", "lapsed"},
           LifeOf' = [LifeOf EXCEPT ![s] = "closed"],
           \/ UNCHANGED AdmittedTo
           \/ \E r \in Reqs : /\ AdmittedTo[r] = s
                             /\ AdmittedTo' = [AdmittedTo EXCEPT ![r] = NoId]
    PROVE  Life!Next
<1>1. Life!Close(s)
  BY DEF Life!Close, LifeOf, AdmittedTo
<1> QED
  BY <1>1 DEF Life!Next

LEMMA AdmitStep ==
    ASSUME NEW s \in Ids, NEW r \in Reqs, AdmittedTo[r] = NoId, LifeOf[s] = "open",
           AdmittedTo' = [AdmittedTo EXCEPT ![r] = s], UNCHANGED LifeOf
    PROVE  Life!Next
<1>1. Life!Admit(r, s)
  BY DEF Life!Admit, LifeOf, AdmittedTo
<1> QED
  BY <1>1 DEF Life!Next

LEMMA RenewStep ==
    ASSUME NEW r \in Reqs, NEW s \in Ids, AdmittedTo[r] = s,
           LifeOf[s] \in {"open", "lapsed"}, NEW l \in {"open", "lapsed"},
           LifeOf' = [LifeOf EXCEPT ![s] = l],
           AdmittedTo' = [AdmittedTo EXCEPT ![r] = NoId]
    PROVE  Life!Next
<1>1. s # NoId
  BY SessionsAssumption
<1>2. Life!Renew(r)
  BY <1>1 DEF Life!Renew, LifeOf, AdmittedTo
<1> QED
  BY <1>2 DEF Life!Next

LEMMA ReleaseStep ==
    ASSUME NEW R \in SUBSET Reqs, UNCHANGED LifeOf,
           AdmittedTo' = [r \in Reqs |-> IF r \in R THEN NoId ELSE AdmittedTo[r]]
    PROVE  Life!Next
<1>1. Life!Release(R)
  BY DEF Life!Release, LifeOf, AdmittedTo
<1> QED
  BY <1>1 DEF Life!Next

LEMMA LapseStep ==
    ASSUME NEW S \in SUBSET Ids, \A s \in S : LifeOf[s] = "open",
           LifeOf' = [s \in Ids |-> IF s \in S THEN "lapsed" ELSE LifeOf[s]],
           UNCHANGED AdmittedTo
    PROVE  Life!Next
<1>1. Life!Lapse(S)
  BY DEF Life!Lapse, LifeOf, AdmittedTo
<1> QED
  BY <1>1 DEF Life!Next

\* Nothing happens to any session: the slot is served as before, or no more.
LEMMA NoSessionStep ==
    ASSUME Inv, NEW r \in Reqs, NEW q, req' = [req EXCEPT ![r] = q],
           UNCHANGED <<clock, session>>, Under(q) \in {NoId, Under(req[r])}
    PROVE  Refines
<1>1. UNCHANGED LifeOf
  BY LifeUnchanged
<1>2. AdmittedTo' = [AdmittedTo EXCEPT ![r] = Under(q)]
  BY SlotAdmitted
<1>3. CASE Under(q) = NoId
  <2>1. AdmittedTo' = [z \in Reqs |-> IF z \in {r} THEN NoId ELSE AdmittedTo[z]]
    BY <1>2, <1>3 DEF AdmittedTo
  <2> QED
    BY <1>1, <2>1, ReleaseStep DEF Refines
<1>4. CASE Under(q) = Under(req[r])
  <2>1. UNCHANGED AdmittedTo
    BY <1>2, <1>4, AdmittedIsUnder
  <2> QED
    BY <1>1, <2>1 DEF Refines, Life!vars, LifeOf, AdmittedTo
<1> QED
  BY <1>3, <1>4

\* A row is deleted, or was gone already; the slot is served as before or no more.
LEMMA DeleteStep ==
    ASSUME Inv, NEW r \in Reqs, NEW q, req' = [req EXCEPT ![r] = q],
           session' = Without(req[r].sid), clock' = clock,
           \/ Under(q) = Under(req[r])
           \/ Under(q) = NoId /\ Under(req[r]) = req[r].sid
    PROVE  Refines
<1> DEFINE s == req[r].sid
<1>1. CASE ~Stored(s)
  BY <1>1, NoSessionStep DEF Without
<1>2. CASE Stored(s)
  <2>1. s \in Ids /\ session[s] \in Row /\ session' = [session EXCEPT ![s] = Deleted]
    BY <1>2 DEF Stored, Without
  <2> HIDE DEF s
  <2>2. LifeOf' = [LifeOf EXCEPT ![s] = "closed"]
    BY <2>1, LifeOfOne, StoredLivesNext
  <2>3. LifeOf[s] \in {"open", "lapsed"}
    BY <2>1, StoredLives
  <2>4. AdmittedTo' = [AdmittedTo EXCEPT ![r] = Under(q)]
    BY SlotAdmitted
  <2>5. CASE Under(q) = Under(req[r])
    <3>1. UNCHANGED AdmittedTo
      BY <2>4, <2>5, AdmittedIsUnder
    <3> QED
      BY <2>1, <2>2, <2>3, <3>1, CloseStep DEF Refines
  <2>6. CASE Under(q) = NoId /\ Under(req[r]) = req[r].sid
    <3>1. AdmittedTo[r] = s
      BY <2>6, AdmittedIsUnder DEF s
    <3> QED
      BY <2>1, <2>2, <2>3, <2>4, <2>6, <3>1, CloseStep DEF Refines
  <2> QED
    BY <2>5, <2>6
<1> QED
  BY <1>1, <1>2

\* A session is stored for a login.
LEMMA InsertStep ==
    ASSUME Inv, NEW r \in Reqs, NEW q, req' = [req EXCEPT ![r] = q],
           req[r].at = "createSession", NEW s \in Ids, Inserted(r, s),
           UNCHANGED <<clock, account, cookie>>, faults' \in 0 .. MaxFaults,
           Under(q) = NoId
    PROVE  TablesOK' /\ Refines
<1> DEFINE row == [user |-> req[r].email, expires |-> req[r].due]
<1>1. /\ req[r].email \in account /\ req[r].due \in Nat /\ req[r].due <= clock + TTL
  BY InvRequest DEF Sound, TimesOK, Request
<1>2. session[s] = Unused /\ session' = [session EXCEPT ![s] = row]
  BY DEF Inserted
<1>3. TablesOK'
  BY <1>1, <1>2, StoreSound
<1>4. row \in Row
  BY <1>1 DEF Row, Inv, TablesOK
<1> HIDE DEF row
<1>5. LifeOf[s] = "unused"
  BY <1>2, StoredLives
<1>6. LifeOf' = [LifeOf EXCEPT ![s] = LifeOf'[s]] /\ LifeOf'[s] \in {"open", "lapsed"}
  BY <1>2, <1>4, LifeOfOne, StoredLivesNext
<1>7. AdmittedTo' = [AdmittedTo EXCEPT ![r] = NoId] /\ AdmittedTo[r] = NoId
  BY SlotAdmitted, AdmittedIsUnder DEF Under
<1>8. UNCHANGED AdmittedTo
  BY <1>7 DEF AdmittedTo
<1> QED
  BY <1>3, <1>5, <1>6, <1>8, OpenStep DEF Refines

-----------------------------------------------------------------------------
(* The actions. *)

LEMMA SendStep ==
    ASSUME Inv, NEW r \in Reqs, NEW b \in Browsers, NEW op \in Ops, NEW e \in Emails,
           Send(r, b, op, e)
    PROVE  Inv' /\ Refines
<1> DEFINE sid == IF op \in DOMAIN Handler THEN cookie[b].id ELSE NoId
           q == [Idle EXCEPT !.at = Route[op], !.op = op, !.browser = b, !.email = e,
                             !.sid = sid]
<1>1. /\ req[r].at = "idle" /\ req' = [req EXCEPT ![r] = q]
      /\ UNCHANGED <<clock, account, session, cookie, faults>>
  BY DEF Send
<1>2. sid \in Ids \cup {NoId}
  BY DEF Inv, TablesOK, Cookie
<1>3. /\ Route[op] \in {"createAccount", "findUser", "auth"}
      /\ Route[op] = "auth" => op \in DOMAIN Handler
  BY DEF Ops, Route, Handler
<1> HIDE DEF sid
<1>4. q \in Request /\ q.at = Route[op] /\ q.op = op
  BY <1>2, <1>3, IdleSound DEF Request, Stages
<1> HIDE DEF q
<1>5. Sound(q)
  BY <1>3, <1>4 DEF Sound, TimesOK, UnderSession
<1>6. Under(q) = NoId
  BY <1>3, <1>4 DEF Under
<1> QED
  BY <1>1, <1>5, <1>6, RequestStep, TablesUnchanged, NoSessionStep DEF Inv

\* A step that ends in slot r and leaves the tables alone.
LEMMA GoesOn ==
    ASSUME Inv, NEW r \in Reqs, NEW q, Sound(q), Becomes(r, q),
           UNCHANGED <<account, session>>, Under(q) \in {NoId, Under(req[r])}
    PROVE  Inv' /\ Refines
<1>1. req' = [req EXCEPT ![r] = q] /\ UNCHANGED <<clock, account, session, cookie, faults>>
  BY DEF Becomes
<1> QED
  BY <1>1, RequestStep, TablesUnchanged, NoSessionStep DEF Inv

LEMMA Ends ==
    ASSUME Inv, NEW r \in Reqs, End(r), UNCHANGED <<account, session>>
    PROVE  Inv' /\ Refines
BY IdleSound, InvTimes, GoesOn DEF End, Under

LEMMA RequireAuthStep ==
    ASSUME Inv, NEW r \in Reqs, RequireAuth(r)
    PROVE  Inv' /\ Refines
<1> DEFINE s == req[r].sid
           q == [req[r] EXCEPT !.seen = session[s].expires]
<1>0. req[r].at = "auth" /\ UNCHANGED <<account, session>>
  BY DEF RequireAuth
<1>1. req[r] \in Request /\ Sound(req[r]) /\ req[r].op \in DOMAIN Handler
  BY <1>0, InvRequest DEF Sound
<1>2. ASSUME Stored(s)
      PROVE  /\ s \in Ids /\ session[s].expires \in Nat
             /\ session[s].expires <= clock + TTL
             /\ q \in Request /\ q.sid = s /\ q.seen = session[s].expires
             /\ q.op = req[r].op
  <2>1. s \in Ids /\ session[s].expires \in Nat /\ session[s].expires <= clock + TTL
    BY <1>2, InvTimes DEF Stored
  <2> QED
    BY <1>1, <2>1 DEF Request
<1>3. CASE ~Stored(s) /\ End(r)
  BY <1>0, <1>3, Ends
<1>4. CASE Stored(s) /\ Expired(s) /\ Becomes(r, [q EXCEPT !.at = "purge"])
  <2> DEFINE p == [q EXCEPT !.at = "purge"]
  <2>1. p \in Request /\ p.at = "purge" /\ p.sid = s /\ p.seen = session[s].expires
    BY <1>2, <1>4 DEF Request, Stages
  <2>2. p.seen <= clock
    BY <1>4, <2>1 DEF Expired
  <2> HIDE DEF p
  <2>3. Sound(p) /\ Under(p) = NoId
    BY <1>2, <1>4, <2>1, <2>2 DEF Sound, TimesOK, Under
  <2> QED
    BY <1>0, <1>4, <2>3, GoesOn DEF p
<1>5. CASE Stored(s) /\ ~Expired(s) /\ CSRFMiddleware(r, q)
  <2>1. CASE Becomes(r, [q EXCEPT !.at = Handler[q.op]])
    <3> DEFINE p == [q EXCEPT !.at = Handler[q.op]]
    <3>1. Handler[q.op] \in {"game", "deleteSession"}
      BY <1>1, <1>2, <1>5 DEF Handler
    <3>2. p \in Request /\ p.at = Handler[q.op] /\ p.sid = s /\ p.seen = session[s].expires
      BY <1>2, <1>5, <3>1 DEF Request, Stages
    <3> HIDE DEF p, q, s
    <3>3. Sound(p) /\ Under(p) = s
      BY <1>2, <1>5, <3>1, <3>2 DEF Sound, TimesOK, Under
    <3>4. req' = [req EXCEPT ![r] = p] /\ UNCHANGED <<clock, account, session, cookie, faults>>
      BY <1>0, <2>1 DEF Becomes, p
    <3>5. Inv'
      BY <3>3, <3>4, RequestStep, TablesUnchanged DEF Inv
    <3>6. LifeOf[s] = "open"
      BY <1>2, <1>5, StoredLives DEF Stored
    <3>7. AdmittedTo' = [AdmittedTo EXCEPT ![r] = s] /\ AdmittedTo[r] = NoId
      BY <1>0, <3>3, <3>4, SlotAdmitted, AdmittedIsUnder DEF Under
    <3>8. Life!Next
      BY <1>2, <1>5, <3>4, <3>6, <3>7, AdmitStep, LifeUnchanged
    <3> QED
      BY <3>5, <3>8 DEF Refines
  <2>2. CASE End(r)
    BY <1>0, <2>2, Ends
  <2> QED
    BY <1>5, <2>1, <2>2 DEF CSRFMiddleware
<1> QED
  BY <1>3, <1>4, <1>5 DEF RequireAuth

LEMMA PurgeStep ==
    ASSUME Inv, NEW r \in Reqs, Purge(r)
    PROVE  Inv' /\ Refines
<1>1. /\ req[r].at = "purge" /\ session' = Without(req[r].sid)
      /\ End(r) /\ account' = account
  BY DEF Purge
<1>2. req' = [req EXCEPT ![r] = Idle] /\ UNCHANGED <<clock, cookie, faults>>
  BY <1>1 DEF End, Becomes
<1>3. RequestsOK'
  BY <1>1, EndStep
<1>4. TablesOK'
  BY <1>1, <1>2, WithoutSound DEF Inv, TablesOK
<1>5. Under(Idle) = NoId /\ Under(req[r]) = NoId
  BY <1>1, IdleSound DEF Under
<1> QED
  BY <1>1, <1>2, <1>3, <1>4, <1>5, DeleteStep DEF Inv

\* What is written by the refresh middleware, when it has been computed at
\* clock: no earlier than what RequireAuth read.
LEMMA ToRefresh ==
    ASSUME Inv, NEW r \in Reqs, req[r].at \in {"game", "deleteSession"}
    PROVE  LET q == [Goto(r, "refresh") EXCEPT !.due = RefreshExpiry]
           IN  Sound(q) /\ Under(q) = Under(req[r])
<1> DEFINE q == [Goto(r, "refresh") EXCEPT !.due = RefreshExpiry]
<1>1. req[r] \in Request /\ Sound(req[r])
  BY InvRequest
<1>2. RefreshExpiry \in Nat /\ RefreshExpiry = clock + TTL
  BY InvTimes DEF RefreshExpiry
<1>3. /\ q \in Request /\ q.at = "refresh" /\ q.due = RefreshExpiry
      /\ q.seen = req[r].seen /\ q.sid = req[r].sid
  BY <1>1, <1>2 DEF Request, Goto, Stages
<1> HIDE DEF q
<1>4. req[r].sid \in Ids /\ req[r].seen <= clock + TTL
  BY <1>1 DEF Sound, TimesOK, UnderSession
<1>5. Sound(q)
  BY <1>2, <1>3, <1>4 DEF Sound, TimesOK
<1>6. Under(q) = Under(req[r])
  BY <1>3 DEF Under
<1> QED
  BY <1>5, <1>6 DEF q

LEMMA GameStep ==
    ASSUME Inv, NEW r \in Reqs, Game(r)
    PROVE  Inv' /\ Refines
<1>1. req[r].at = "game" /\ UNCHANGED <<account, session>>
  BY DEF Game
<1>2. CASE End(r)
  BY <1>1, <1>2, Ends
<1>3. CASE Becomes(r, [Goto(r, "refresh") EXCEPT !.due = RefreshExpiry])
  BY <1>1, <1>3, ToRefresh, GoesOn
<1> QED
  BY <1>2, <1>3 DEF Game

LEMMA CreateAccountStep ==
    ASSUME Inv, NEW r \in Reqs, CreateAccount(r)
    PROVE  Inv' /\ Refines
<1>1. /\ req[r].at = "createAccount" /\ account' = account \cup {req[r].email}
      /\ End(r) /\ session' = session
  BY DEF CreateAccount
<1>2. req' = [req EXCEPT ![r] = Idle] /\ UNCHANGED <<clock, cookie, faults>>
  BY <1>1 DEF End, Becomes
<1>3. RequestsOK'
  BY <1>1, EndStep
<1>4. req[r].email \in Emails
  BY InvRequest DEF Request
<1>5. TablesOK'
  BY <1>1, <1>2, <1>4 DEF Inv, TablesOK, Stored
<1>6. Under(Idle) = NoId
  BY IdleSound DEF Under
<1> QED
  BY <1>1, <1>2, <1>3, <1>5, <1>6, NoSessionStep DEF Inv

LEMMA GetUserByEmailStep ==
    ASSUME Inv, NEW r \in Reqs, GetUserByEmail(r)
    PROVE  Inv' /\ Refines
<1>1. req[r].at = "findUser" /\ UNCHANGED <<account, session>>
  BY DEF GetUserByEmail
<1>2. CASE End(r)
  BY <1>1, <1>2, Ends
<1>3. CASE /\ req[r].email \in account
           /\ Becomes(r, [Goto(r, "createSession") EXCEPT !.due = LoginExpiry])
  <2> DEFINE q == [Goto(r, "createSession") EXCEPT !.due = LoginExpiry]
  <2>1. LoginExpiry \in Nat /\ LoginExpiry = clock + TTL
    BY InvTimes DEF LoginExpiry
  <2>2. /\ q \in Request /\ q.at = "createSession" /\ q.due = LoginExpiry
        /\ q.email = req[r].email
    BY <2>1, InvRequest DEF Request, Goto, Stages
  <2> HIDE DEF q
  <2>3. Sound(q) /\ Under(q) = NoId
    BY <1>3, <2>1, <2>2 DEF Sound, TimesOK, UnderSession, Under
  <2> QED
    BY <1>1, <1>3, <2>3, GoesOn DEF q
<1> QED
  BY <1>2, <1>3 DEF GetUserByEmail

\* A response that sets cookies waits to arrive.
LEMMA SetCookiesSound ==
    ASSUME Inv, NEW r \in Reqs, NEW c \in Cookie
    PROVE  Sound(SetCookies(r, c)) /\ Under(SetCookies(r, c)) = NoId
<1> DEFINE q == SetCookies(r, c)
<1>1. q \in Request /\ q.at = "answer"
  BY InvRequest, IdleSound DEF SetCookies, Request, Stages
<1> HIDE DEF q
<1>2. Sound(q) /\ Under(q) = NoId
  BY <1>1 DEF Sound, TimesOK, UnderSession, Under
<1> QED
  BY <1>2 DEF q

LEMMA CreateSessionStep ==
    ASSUME Inv, NEW r \in Reqs, CreateSession(r)
    PROVE  Inv' /\ Refines
<1>1. PICK s \in Ids : /\ Inserted(r, s)
                       /\ Becomes(r, SetCookies(r, [id |-> s, until |-> LoginExpiry]))
  BY DEF CreateSession
<1>2. [id |-> s, until |-> LoginExpiry] \in Cookie
  BY InvTimes DEF Cookie, LoginExpiry
<1> DEFINE q == SetCookies(r, [id |-> s, until |-> LoginExpiry])
<1>3. Sound(q) /\ Under(q) = NoId
  BY <1>2, SetCookiesSound
<1>4. /\ req[r].at = "createSession" /\ req' = [req EXCEPT ![r] = q]
      /\ UNCHANGED <<clock, account, cookie, faults>>
  BY <1>1 DEF CreateSession, Becomes
<1>5. faults' \in 0 .. MaxFaults
  BY <1>4 DEF Inv, TablesOK
<1> HIDE DEF q
<1>6. RequestsOK'
  BY <1>3, <1>4, RequestStep
<1> QED
  BY <1>1, <1>3, <1>4, <1>5, <1>6, InsertStep DEF Inv

LEMMA DeleteSessionStep ==
    ASSUME Inv, NEW r \in Reqs, DeleteSession(r)
    PROVE  Inv' /\ Refines
<1> DEFINE q == [Goto(r, "refresh") EXCEPT !.due = RefreshExpiry]
<1>1. /\ req[r].at = "deleteSession" /\ session' = Without(req[r].sid)
      /\ req' = [req EXCEPT ![r] = q]
      /\ UNCHANGED <<clock, account, cookie, faults>>
  BY DEF DeleteSession, Becomes
<1>2. Sound(q) /\ Under(q) = Under(req[r])
  BY <1>1, ToRefresh
<1> HIDE DEF q
<1>3. RequestsOK'
  BY <1>1, <1>2, RequestStep
<1>4. TablesOK'
  BY <1>1, WithoutSound DEF Inv, TablesOK
<1> QED
  BY <1>1, <1>2, <1>3, <1>4, DeleteStep DEF Inv

LEMMA RefreshStep ==
    ASSUME Inv, NEW r \in Reqs, Refresh(r)
    PROVE  Inv' /\ Refines
<1> DEFINE s == req[r].sid
           q == IF req[r].op = "logout" THEN SetCookies(r, NoCookie) ELSE Idle
<1>1. /\ req[r].at = "refresh" /\ session' = RefreshTTL(s, req[r].due)
      /\ req' = [req EXCEPT ![r] = q]
      /\ UNCHANGED <<clock, account, cookie, faults>>
  BY DEF Refresh, Becomes, End
<1>2. Sound(q) /\ Under(q) = NoId
  <2>1. NoCookie \in Cookie
    BY DEF NoCookie, Cookie
  <2> QED
    BY <2>1, SetCookiesSound, IdleSound, InvTimes DEF Under
<1> HIDE DEF q
<1>3. RequestsOK'
  BY <1>1, <1>2, RequestStep
<1>4. s \in Ids /\ req[r].due \in Nat /\ req[r].due <= clock + TTL
  BY <1>1, InvRequest DEF Sound, TimesOK, UnderSession, Request
<1>5. CASE ~Stored(s)
  <2>1. session' = session
    BY <1>1, <1>5 DEF RefreshTTL
  <2> QED
    BY <1>1, <1>2, <1>3, <2>1, TablesUnchanged, NoSessionStep DEF Inv
<1>6. CASE Stored(s)
  <2> HIDE DEF s
  <2>0. session[s] \in Row /\ session[s].user \in account
    BY <1>4, <1>6 DEF Inv, TablesOK, Stored
  <2>1. PICK e \in account, x \in Nat :
          e = session[s].user /\ x = req[r].due /\ x <= clock + TTL
    BY <1>4, <2>0
  <2> DEFINE row == [user |-> e, expires |-> x]
  <2>2. session' = [session EXCEPT ![s] = row]
    <3>1. [session[s] EXCEPT !.expires = x] = row
      BY <2>0, <2>1 DEF Row
    <3>2. session' = [session EXCEPT ![s] = [session[s] EXCEPT !.expires = x]]
      BY <1>1, <1>6, <2>1 DEF RefreshTTL
    <3> QED
      BY <3>1, <3>2
  <2>3. TablesOK'
    <3>1. faults' \in 0 .. MaxFaults
      BY <1>1 DEF Inv, TablesOK
    <3> QED
      BY <1>1, <1>4, <2>1, <2>2, <3>1, StoreSound
  <2>4. row \in Row
    BY <2>1 DEF Row, Inv, TablesOK
  <2> HIDE DEF row
  <2>5. LifeOf' = [LifeOf EXCEPT ![s] = LifeOf'[s]] /\ LifeOf'[s] \in {"open", "lapsed"}
    BY <1>1, <1>4, <2>2, <2>4, LifeOfOne, StoredLivesNext
  <2>6. LifeOf[s] \in {"open", "lapsed"}
    BY <1>4, <2>0, StoredLives
  <2>7. AdmittedTo' = [AdmittedTo EXCEPT ![r] = NoId]
    BY <1>1, <1>2, SlotAdmitted
  <2>8. AdmittedTo[r] = s
    BY <1>1, AdmittedIsUnder DEF Under, s
  <2>9. Life!Next
    BY <1>4, <2>5, <2>6, <2>7, <2>8, RenewStep
  <2> QED
    BY <1>3, <2>3, <2>9 DEF Inv, Refines
<1> QED
  BY <1>5, <1>6

LEMMA AnswerStep ==
    ASSUME Inv, NEW r \in Reqs, Answer(r)
    PROVE  Inv' /\ Refines
<1>1. /\ req[r].at = "answer"
      /\ cookie' = [cookie EXCEPT ![req[r].browser] = req[r].set]
      /\ req' = [req EXCEPT ![r] = Idle]
      /\ UNCHANGED <<clock, account, session, faults>>
  BY DEF Answer
<1>2. req[r].set \in Cookie
  BY InvRequest DEF Request
<1>3. TablesOK'
  BY <1>1, <1>2 DEF Inv, TablesOK, Stored
<1>4. Sound(Idle) /\ Under(Idle) = NoId
  BY IdleSound, InvTimes DEF Under
<1>5. RequestsOK'
  BY <1>1, <1>4, RequestStep
<1> QED
  BY <1>1, <1>3, <1>4, <1>5, NoSessionStep DEF Inv

LEMMA AfterErrorSound ==
    ASSUME Inv, NEW r \in Reqs
    PROVE  Sound(AfterError(r)) /\ Under(AfterError(r)) = NoId
<1>1. NoCookie \in Cookie
  BY DEF NoCookie, Cookie
<1> QED
  BY <1>1, SetCookiesSound, IdleSound, InvTimes DEF AfterError, Under

LEMMA FailStep ==
    ASSUME Inv, NEW r \in Reqs, Fail(r)
    PROVE  Inv' /\ Refines
<1>1. /\ faults < MaxFaults /\ faults' = faults + 1
      /\ req' = [req EXCEPT ![r] = AfterError(r)]
      /\ UNCHANGED <<clock, account, session, cookie>>
  BY DEF Fail
<1>2. TablesOK'
  BY <1>1, SessionsAssumption DEF Inv, TablesOK, Stored
<1>3. RequestsOK'
  BY <1>1, AfterErrorSound, RequestStep
<1> QED
  BY <1>1, <1>2, <1>3, AfterErrorSound, NoSessionStep DEF Inv

LEMMA FailLateStep ==
    ASSUME Inv, NEW r \in Reqs, FailLate(r)
    PROVE  Inv' /\ Refines
<1>1. /\ faults < MaxFaults /\ faults' = faults + 1
      /\ req' = [req EXCEPT ![r] = AfterError(r)]
      /\ UNCHANGED <<clock, account, cookie>>
  BY DEF FailLate
<1>2. faults' \in 0 .. MaxFaults
  BY <1>1, SessionsAssumption DEF Inv, TablesOK
<1>3. RequestsOK'
  BY <1>1, AfterErrorSound, RequestStep
<1>4. CASE req[r].at = "createSession" /\ \E s \in Ids : Inserted(r, s)
  BY <1>1, <1>2, <1>3, <1>4, AfterErrorSound, InsertStep DEF Inv
<1>5. CASE req[r].at = "deleteSession" /\ session' = Without(req[r].sid)
  <2>1. TablesOK'
    BY <1>1, <1>2, <1>5, WithoutSound
  <2>2. Under(AfterError(r)) = NoId /\ Under(req[r]) = req[r].sid
    BY <1>5, AfterErrorSound DEF Under
  <2> QED
    BY <1>1, <1>3, <1>5, <2>1, <2>2, DeleteStep DEF Inv
<1> QED
  BY <1>4, <1>5 DEF FailLate

LEMMA RestartStep ==
    ASSUME Inv, Restart
    PROVE  Inv' /\ Refines
<1>1. /\ faults < MaxFaults /\ faults' = faults + 1
      /\ req' = [r \in Reqs |-> Idle]
      /\ UNCHANGED <<clock, account, session, cookie>>
  BY DEF Restart
<1>2. TablesOK'
  BY <1>1, SessionsAssumption DEF Inv, TablesOK, Stored
<1>3. RequestsOK'
  BY <1>1, IdleSound DEF RequestsOK, Sound, TimesOK, UnderSession
<1>4. AdmittedTo' = [r \in Reqs |-> IF r \in Reqs THEN NoId ELSE AdmittedTo[r]]
  BY <1>1, IdleSound DEF AdmittedTo, Served
<1>5. Life!Next
  BY <1>1, <1>4, LifeUnchanged, ReleaseStep
<1> QED
  BY <1>2, <1>3, <1>5 DEF Inv, Refines

LEMMA TickStep ==
    ASSUME Inv, Tick
    PROVE  Inv' /\ Refines
<1>1. /\ clock < MaxTime /\ clock' = clock + 1
      /\ cookie' = [b \in Browsers |->
                      IF cookie[b].until <= clock' THEN NoCookie ELSE cookie[b]]
      /\ UNCHANGED <<account, session, req, faults>>
  BY DEF Tick
<1>2. clock \in Nat /\ clock' \in Nat /\ clock' \in 0 .. MaxTime /\ clock <= clock'
  BY <1>1, InvTimes, SessionsAssumption
<1>3. cookie' \in [Browsers -> Cookie]
  BY <1>1 DEF Inv, TablesOK, NoCookie, Cookie
<1>4. \A s \in Ids : Stored(s) => session[s].expires <= clock' + TTL
  BY <1>1, <1>2, InvTimes
<1>5. TablesOK'
  BY <1>1, <1>2, <1>3, <1>4 DEF Inv, TablesOK, Stored
<1>6. RequestsOK'
  <2>1. \A r \in Reqs : Sound(req[r])
    BY DEF Inv, RequestsOK
  <2>2. \A q : Sound(q) => Sound(q)'
    BY <1>1, <1>2, SoundLater
  <2>3. \A r \in Reqs : Sound(req[r])'
    BY <1>1, <2>1, <2>2 DEF Sound, TimesOK
  <2> QED
    BY <1>1, <2>3 DEF Inv, RequestsOK
<1>7. Refines
  <2> DEFINE S == {s \in Ids : LifeOf[s] = "open" /\ LifeOf'[s] = "lapsed"}
  <2>1. UNCHANGED AdmittedTo
    BY <1>1 DEF AdmittedTo, Served
  <2>2. \A s \in Ids : LifeOf'[s] = IF s \in S THEN "lapsed" ELSE LifeOf[s]
    <3> SUFFICES ASSUME NEW s \in Ids
                 PROVE  LifeOf'[s] = LifeOf[s] \/ s \in S
      OBVIOUS
    <3>1. CASE session[s] \in {Unused, Deleted}
      BY <1>1, <3>1 DEF LifeOf, Lived
    <3>2. CASE session[s] \in Row
      <4>1. Expired(s) => Expired(s)'
        BY <1>1, <1>2, <3>2, InvTimes DEF Expired, Stored
      <4>2. session[s] # Unused /\ session[s] # Deleted
        BY <3>2, MarksAreNoRows
      <4> QED
        BY <1>1, <4>1, <4>2 DEF LifeOf, Lived
    <3> QED
      BY <3>1, <3>2 DEF Inv, TablesOK
  <2>3. LifeOf' = [s \in Ids |-> IF s \in S THEN "lapsed" ELSE LifeOf[s]]
    BY <2>2 DEF LifeOf
  <2> QED
    BY <2>1, <2>3, LapseStep DEF Refines
<1> QED
  BY <1>5, <1>6, <1>7 DEF Inv

LEMMA StepSound ==
    ASSUME Inv, Next
    PROVE  Inv' /\ Refines
<1>1. ASSUME NEW r \in Reqs, Serve(r)
      PROVE  Inv' /\ Refines
  BY <1>1, RequireAuthStep, PurgeStep, GameStep, CreateAccountStep, GetUserByEmailStep,
     CreateSessionStep, DeleteSessionStep, RefreshStep, AnswerStep DEF Serve
<1> QED
  BY <1>1, SendStep, FailStep, FailLateStep, RestartStep, TickStep DEF Next

LEMMA StutterStep ==
    ASSUME Inv, UNCHANGED vars
    PROVE  Inv'
BY DEF Inv, TablesOK, RequestsOK, Sound, TimesOK, Stored, vars

LEMMA InvAlways == Spec => []Inv
<1>1. Init => Inv
  <2> SUFFICES ASSUME Init PROVE Inv
    OBVIOUS
  <2>1. NoCookie \in Cookie
    BY DEF NoCookie, Cookie
  <2>2. TablesOK
    BY <2>1, SessionsAssumption, MarksAreNoRows DEF Init, TablesOK, Stored
  <2>3. RequestsOK
    BY IdleSound DEF Init, RequestsOK
  <2> QED
    BY <2>2, <2>3 DEF Inv
<1>2. Inv /\ [Next]_vars => Inv'
  BY StepSound, StutterStep
<1> QED
  BY <1>1, <1>2, PTL DEF Spec

-----------------------------------------------------------------------------
(* The properties. *)

\* Sessions' type invariant: in particular every stored session belongs to an
\* account that exists (Login inserts only for a user it has found, and users
\* are never deleted).
THEOREM TypeCorrect == Spec => []TypeOK
BY InvAlways, InvType, PTL

\* However the statements of requests interleave with each other, with time,
\* failures and restarts, sessions live as SessionLife promises: opened by one
\* login, serving only requests that RequireAuth found open, revived only by
\* such a request (RefreshSessionMiddleware), and never back after DeleteByID.
THEOREM SessionsImplementSessionLife == Spec => ImplementsSessionLife
<1>1. Init => Life!Init
  BY IdleSound, SessionsAssumption DEF Init, Life!Init, Lived, Served
<1>2. Inv /\ [Next]_vars => [Life!Next]_Life!vars
  <2>1. UNCHANGED vars => UNCHANGED <<LifeOf, AdmittedTo>>
    BY DEF vars, LifeOf, AdmittedTo, Lived, Expired, Served
  <2>2. UNCHANGED <<LifeOf, AdmittedTo>> => UNCHANGED Life!vars
    BY DEF Life!vars, LifeOf, AdmittedTo
  <2> QED
    BY <2>1, <2>2, StepSound DEF Refines
<1> QED
  BY <1>1, <1>2, InvAlways, PTL DEF Spec, ImplementsSessionLife, Life!Spec

\* RequireAuth decides to delete when it finds a session expired, and deletes
\* later: if that hits a session which is good again, another request has
\* refreshed it in between.
THEOREM PurgeOnlyOvertaken == Spec => PurgesOnlyExpired
<1>1. ASSUME Inv, NEW r \in Reqs, req[r].at = "purge", Stored(req[r].sid),
             session[req[r].sid].expires > clock
      PROVE  session[req[r].sid].expires > req[r].seen
  <2>1. req[r].seen \in Nat /\ req[r].seen <= clock
    BY <1>1, InvRequest DEF Sound, TimesOK, Request
  <2>2. session[req[r].sid].expires \in Nat /\ clock \in Nat
    BY <1>1, InvTimes DEF Stored
  <2> QED
    BY <1>1, <2>1, <2>2
<1>2. Inv =>
        [\A r \in Reqs :
            LET s == req[r].sid
                StillGood == Stored(s) /\ session[s].expires > clock
            IN  Passes(r, "purge") /\ StillGood /\ session'[s] = Deleted
                  => session[s].expires > req[r].seen]_vars
  BY <1>1 DEF Passes
<1> QED
  BY <1>2, InvAlways, PTL DEF PurgesOnlyExpired

\* A step of one slot leaves the others.
LEMMA OnlyOwnSlot ==
    ASSUME NEW r \in Reqs, Serve(r) \/ FailLate(r)
    PROVE  \E q : req' = [req EXCEPT ![r] = q]
<1>1. CASE RequireAuth(r)
  BY <1>1 DEF RequireAuth, CSRFMiddleware, End, Becomes
<1>2. CASE Purge(r)
  BY <1>2 DEF Purge, End, Becomes
<1>3. CASE Game(r)
  BY <1>3 DEF Game, End, Becomes
<1>4. CASE CreateAccount(r)
  BY <1>4 DEF CreateAccount, End, Becomes
<1>5. CASE GetUserByEmail(r)
  BY <1>5 DEF GetUserByEmail, End, Becomes
<1>6. CASE CreateSession(r)
  BY <1>6 DEF CreateSession, Becomes
<1>7. CASE DeleteSession(r)
  BY <1>7 DEF DeleteSession, Becomes
<1>8. CASE Refresh(r)
  BY <1>8 DEF Refresh, End, Becomes
<1>9. CASE Answer(r)
  BY <1>9 DEF Answer
<1>10. CASE FailLate(r)
  BY <1>10 DEF FailLate
<1> QED
  BY <1>1, <1>2, <1>3, <1>4, <1>5, <1>6, <1>7, <1>8, <1>9, <1>10 DEF Serve

\* A request gets past the refresh by the refresh, or without any effect.
LEMMA PastRefresh ==
    ASSUME Inv, [Next]_vars, NEW r \in Reqs, Passes(r, "refresh")
    PROVE  Refresh(r) \/ UNCHANGED session
<1>0. req[r].at = "refresh" /\ req'[r] # req[r]
  BY DEF Passes
<1>1. ASSUME NEW z \in Reqs, Serve(z) \/ FailLate(z)
      PROVE  Refresh(r)
  <2>1. PICK q : req' = [req EXCEPT ![z] = q]
    BY <1>1, OnlyOwnSlot
  <2>2. z = r
    BY <1>0, <2>1 DEF Inv, RequestsOK
  <2> QED
    BY <1>0, <1>1, <2>2
       DEF Serve, FailLate, RequireAuth, Purge, Game, CreateAccount, GetUserByEmail,
           CreateSession, DeleteSession, Answer
<1>2. ASSUME NEW z \in Reqs, NEW b \in Browsers, NEW op \in Ops, NEW e \in Emails,
             Send(z, b, op, e)
      PROVE  UNCHANGED session
  BY <1>2 DEF Send
<1>3. ASSUME NEW z \in Reqs, Fail(z)
      PROVE  UNCHANGED session
  BY <1>3 DEF Fail
<1>4. Restart \/ Tick \/ UNCHANGED vars => UNCHANGED session
  BY DEF Restart, Tick, vars
<1> QED
  BY <1>1, <1>2, <1>3, <1>4 DEF Next

\* Of two overlapping refreshes the earlier expiry may be written last, and
\* only so can a refresh take time from a session: RefreshSessionMiddleware
\* computes now + TTL before its UPDATE, and no expiry ever lies further ahead.
THEOREM ShortenedOnlyOvertaken == Spec => ShortenedOnlyIfOvertaken
<1>1. ASSUME Inv, [Next]_vars, NEW r \in Reqs, Passes(r, "refresh"),
             Stored(req[r].sid),
             session'[req[r].sid].expires < session[req[r].sid].expires
      PROVE  session[req[r].sid].expires > req[r].seen
  <2> DEFINE s == req[r].sid
  <2>1. s \in Ids /\ session[s] \in Row /\ session[s].expires \in Nat
    BY <1>1, InvTimes DEF Stored
  <2>2. /\ req[r].seen \in Nat /\ req[r].due \in Nat
        /\ req[r].seen <= req[r].due
    BY <1>1, InvRequest DEF Passes, Sound, TimesOK, Request
  <2>3. session' # session
    BY <1>1, <2>1
  <2>4. session' = RefreshTTL(s, req[r].due)
    BY <1>1, <2>3, PastRefresh DEF Refresh
  <2>5. session'[s].expires = req[r].due
    <3>1. session'[s] = [session[s] EXCEPT !.expires = req[r].due]
      BY <1>1, <2>1, <2>4 DEF RefreshTTL, Inv, TablesOK
    <3> QED
      BY <2>1, <3>1 DEF Row
  <2> QED
    BY <1>1, <2>1, <2>2, <2>5
<1>2. Inv /\ [Next]_vars =>
        [\A r \in Reqs :
            LET s == req[r].sid
                Shortened == Stored(s) /\ session'[s].expires < session[s].expires
            IN  Passes(r, "refresh") /\ Shortened
                  => session[s].expires > req[r].seen]_vars
  BY <1>1
<1> QED
  BY <1>2, InvAlways, PTL DEF Spec, ShortenedOnlyIfOvertaken

=============================================================================
