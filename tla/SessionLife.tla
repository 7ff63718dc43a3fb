---------------------------- MODULE SessionLife ----------------------------
(***************************************************************************)
(* What a login session promises, without tables, clocks or cookies.       *)
(*                                                                         *)
(* A session is opened once and closed at most once; it is never opened    *)
(* again.  In between it lapses as time passes.  Requests are admitted     *)
(* only under a session that is open at that moment, and only a request    *)
(* admitted then can bring a lapsed session back.                          *)
(***************************************************************************)
CONSTANTS
    Ids,    \* session ids
    Reqs,   \* request slots
    NoId    \* no session

VARIABLES
    life,      \* life[s]: what has become of session s
    admitted   \* admitted[r]: the session under which slot r is served, or NoId

vars == <<life, admitted>>

Lives == {"unused", "open", "lapsed", "closed"}

Init ==
    /\ life = [s \in Ids |-> "unused"]
    /\ admitted = [r \in Reqs |-> NoId]

\* A session may be stored so late that it has lapsed already.
Open(s) ==
    /\ life[s] = "unused"
    /\ \E l \in {"open", "lapsed"} : life' = [life EXCEPT ![s] = l]
    /\ UNCHANGED admitted

\* Time runs out for all sessions of S at once.
Lapse(S) ==
    /\ \A s \in S : life[s] = "open"
    /\ life' = [s \in Ids |-> IF s \in S THEN "lapsed" ELSE life[s]]
    /\ UNCHANGED admitted

\* A request that ends well leaves its session with a new time to live, even
\* if it has lapsed meanwhile.
Renew(r) ==
    LET s == admitted[r]
    IN  /\ s # NoId
        /\ life[s] \in {"open", "lapsed"}
        /\ \E l \in {"open", "lapsed"} : life' = [life EXCEPT ![s] = l]
        /\ admitted' = [admitted EXCEPT ![r] = NoId]

\* A request that closes its session may fail in doing so.
Close(s) ==
    /\ life[s] \in {"open", "lapsed"}
    /\ life' = [life EXCEPT ![s] = "closed"]
    /\ \/ UNCHANGED admitted
       \/ \E r \in Reqs : /\ admitted[r] = s
                         /\ admitted' = [admitted EXCEPT ![r] = NoId]

Admit(r, s) ==
    /\ admitted[r] = NoId
    /\ life[s] = "open"
    /\ admitted' = [admitted EXCEPT ![r] = s]
    /\ UNCHANGED life

\* The requests of R are answered, or dropped when the server stops.
Release(R) ==
    /\ admitted' = [r \in Reqs |-> IF r \in R THEN NoId ELSE admitted[r]]
    /\ UNCHANGED life

Next ==
    \/ \E s \in Ids : Open(s) \/ Close(s)
    \/ \E S \in SUBSET Ids : Lapse(S)
    \/ \E r \in Reqs : Renew(r) \/ \E s \in Ids : Admit(r, s)
    \/ \E R \in SUBSET Reqs : Release(R)

Spec == Init /\ [][Next]_vars

=============================================================================
