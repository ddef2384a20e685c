------------------------------- MODULE Proxy -------------------------------
(***************************************************************************)
(* The route handlers of the UI's server at work: requests of the browser  *)
(* that run side by side, the session each of them carries in its cookie,  *)
(* and the refresh of an access token that is about to expire              *)
(* (auth-callbacks.ts).                                                    *)
(*                                                                         *)
(* One slot serves the user, who makes any request of the UI; the others   *)
(* serve the poll of the Clusters page.  Auth.js, which decides whether a  *)
(* session that has changed is written to the cookie of the answer, and    *)
(* Keycloak are external, and may do either.                               *)
(***************************************************************************)
EXTENDS Routes, FiniteSets

CONSTANTS
    User,           \* the slot of the user's request
    Polls,          \* the slots of polls
    None,
    Life,           \* expires_in of an access token
    Skew,           \* the margin of jwtCallback: it is to cover the way from
                    \* there to the API's check of the token, and
    Ahead,          \* by how much the clock of the API is ahead
    MaxTime,        \* bound on the clock
    Lossy           \* whether the answer of Keycloak may be lost

ASSUME ProxyAssumption ==
    /\ User \notin Polls
    /\ Life \in Nat /\ Skew \in Nat /\ MaxTime \in Nat /\ Skew < Life
    /\ Ahead \in 0 .. Skew
    /\ Lossy \in BOOLEAN

Slots == Polls \cup {User}

VARIABLES
    now,            \* the clock
    cookie,         \* the session cookie of the browser: a token, or None
    keycloak,       \* the refresh token that Keycloak accepts
    reqs            \* the requests under way

\* History variable: a refresh token was exchanged while another request was
\* under way, or what it was exchanged for did not reach the cookie.
VARIABLE raced

vars == <<now, cookie, keycloak, reqs, raced>>

\* The JWT: expires_at, refresh_token (the how-many-th) and error.
Token == [expires_at : 0 .. MaxTime + Life, refresh_token : Nat, error : BOOLEAN]
Idle == [stage |-> "idle"]
Poll == CHOOSE q \in Fetches : q.to = "clusters.list" /\ q.verb = "GET"

Busy == {s \in Slots : reqs[s] # Idle}
At(s, stage) == reqs[s].stage = stage
Answered(s, status) == reqs' = [reqs EXCEPT ![s].stage = "done", ![s].status = status,
                                              ![s].since = 0]

-----------------------------------------------------------------------------
\* The middleware sends who has no session to the login; jwtCallback makes a
\* token of the account.
SignIn ==
    /\ cookie = None /\ Busy = {}
    /\ cookie' = [expires_at |-> now + Life, refresh_token |-> keycloak, error |-> FALSE]
    /\ UNCHANGED <<now, keycloak, reqs, raced>>

\* A request of the browser; one that no file serves is 404 at once.
Send(s, q) ==
    /\ At(s, "idle") /\ (s \in Polls => q = Poll)
    /\ reqs' = [reqs EXCEPT ![s] =
           [q |-> q, jwt |-> cookie, fresh |-> FALSE, since |-> 0, up |-> None,
            stage |-> IF FileCases(q.path) = {} THEN "done" ELSE "sent",
            status |-> IF FileCases(q.path) = {} THEN "unknown" ELSE "none"]]
    /\ UNCHANGED <<now, cookie, keycloak, raced>>

\* Mutant: the margin is left out.
ValidWithoutSkew(jwt) == now < jwt.expires_at

\* Whether jwtCallback takes a token for valid still.
Valid(jwt) == now + Skew < jwt.expires_at

\* auth(): no session is 401; the token is good, or is to be refreshed.
Authenticate(s) ==
    /\ At(s, "sent")
    /\ IF reqs[s].jwt = None THEN Answered(s, "signed_out")
       ELSE reqs' = [reqs EXCEPT ![s].since = now,
               ![s].stage = IF Valid(reqs[s].jwt) THEN "authed" ELSE "refresh"]
    /\ UNCHANGED <<now, cookie, keycloak, raced>>

\* Mutant: the refresh token of the answer is not kept.
RefreshedKeepingToken(jwt, token) == [jwt EXCEPT !.expires_at = now + Life, !.error = FALSE]

\* Mutant: the clock is read in milliseconds.
RefreshedMillis(jwt, token) == [expires_at |-> 1000 * now + Life, refresh_token |-> token, error |-> FALSE]

\* What refreshAccessToken makes of the answer of Keycloak.
Refreshed(jwt, token) == [expires_at |-> now + Life, refresh_token |-> token, error |-> FALSE]

\* refreshAccessToken: Keycloak may answer a new refresh token, which replaces
\* the old one; an error keeps the tokens and marks them.
Refresh(s) ==
    LET jwt == reqs[s].jwt
        next(token, fresh) == reqs' = [reqs EXCEPT ![s].stage = "authed", ![s].since = now,
                                                   ![s].jwt = token, ![s].fresh = fresh]
    IN
    /\ At(s, "refresh")
    /\ \/ /\ jwt.refresh_token = keycloak
          /\ keycloak' \in {keycloak, keycloak + 1}
          /\ \/ next(Refreshed(jwt, keycloak'), TRUE) /\ raced' = (raced \/ Busy # {s})
             \/ Lossy /\ next([jwt EXCEPT !.error = TRUE], FALSE) /\ raced' = TRUE
       \/ next([jwt EXCEPT !.error = TRUE], FALSE) /\ UNCHANGED <<keycloak, raced>>
    /\ UNCHANGED <<now, cookie>>

\* The handler: 404 and 400 are its own; else a function of api.ts is called.
Forward(s) ==
    LET q == reqs[s].q IN
    /\ At(s, "authed")
    /\ CASE Meets(q) = {} -> Answered(s, "unknown")
         [] \E x \in Meets(q) : ~(x.needs \subseteq q.fields) -> Answered(s, "invalid")
         [] OTHER -> \E x \in Meets(q) :
                        reqs' = [reqs EXCEPT ![s].stage = "up", ![s].up = Upstream(q, x)]
    /\ UNCHANGED <<now, cookie, keycloak, raced>>

\* The API: 401 for a token that has expired by its clock; else the handler's own status,
\* which asError and errResponse pass on.  fetch that fails is 500.
ServeApi(s) ==
    /\ At(s, "up")
    /\ \/ reqs[s].jwt.expires_at <= now + Ahead /\ Answered(s, "denied")
       \/ reqs[s].jwt.expires_at > now + Ahead /\ \E status \in {"ok", "refused"} : Answered(s, status)
       \/ Answered(s, "failed")
    /\ UNCHANGED <<now, cookie, keycloak, raced>>

\* The answer reaches the browser, perhaps with a new cookie.
Answer(s) ==
    /\ At(s, "done")
    /\ reqs' = [reqs EXCEPT ![s] = Idle]
    /\ \/ reqs[s].fresh /\ cookie' = reqs[s].jwt /\ UNCHANGED raced
       \/ UNCHANGED cookie /\ raced' = (raced \/ reqs[s].fresh)
    /\ UNCHANGED <<now, keycloak>>

\* Time passes; a request is no longer on its way to the API than the margin
\* leaves of the difference of the clocks.
Tick ==
    /\ now < MaxTime /\ now' = now + 1
    /\ \A s \in Busy : reqs[s].stage \in {"authed", "up"} => now' + Ahead <= reqs[s].since + Skew
    /\ UNCHANGED <<cookie, keycloak, reqs, raced>>

-----------------------------------------------------------------------------
Init ==
    /\ now = 0 /\ cookie = None /\ keycloak = 0 /\ raced = FALSE
    /\ reqs = [s \in Slots |-> Idle]

Next ==
    \/ SignIn \/ Tick
    \/ \E s \in Slots :
           \/ \E q \in Fetches : Send(s, q)
           \/ Authenticate(s) \/ Refresh(s) \/ Forward(s) \/ ServeApi(s) \/ Answer(s)

Spec == Init /\ [][Next]_vars

-----------------------------------------------------------------------------
(* Properties.                                                             *)

TypeOK ==
    /\ now \in 0 .. MaxTime /\ keycloak \in 0 .. MaxTime
    /\ cookie = None \/ cookie \in Token
    /\ raced \in BOOLEAN
    /\ \A s \in Busy : reqs[s].q \in Fetches /\ (reqs[s].jwt = None \/ reqs[s].jwt \in Token)

\* Each request of the UI comes to the one handler of the API it is meant for,
\* for the object it names and with all the fields that handler asks for; the
\* proxy never finds a request unknown or incomplete.  Two things are excepted:
\* the lists no file serves, and run, whose code no component sends (the
\* findings of empty_path and run_rejected).
HandledAsMeant ==
    \A s \in Busy :
        LET q == reqs[s].q IN
        /\ At(s, "up") =>
               /\ {r.handler : r \in Routed(reqs[s].up)} = {q.to}
               /\ reqs[s].up.path = q.path
               /\ \A r \in Routed(reqs[s].up) :
                      /\ q.to = "notebooks.run" \/ r.asks \subseteq reqs[s].up.fields
                      /\ r.reads \cap q.fields \subseteq reqs[s].up.fields
        /\ At(s, "done") /\ reqs[s].status \in {"unknown", "invalid"} => q \in Unserved

\* The API finds a token expired only if it could not be refreshed: the margin
\* of jwtCallback covers the way from there to the API's own check, and what
\* its clock is ahead.
DeniedUnrefreshed ==
    \A s \in Busy : At(s, "done") /\ reqs[s].status = "denied" => reqs[s].jwt.error

\* The session is not lost: while nothing is under way, the refresh token of the
\* cookie is the one Keycloak accepts, unless a refresh ran beside another
\* request, or its outcome was lost or not stored (refreshAccessToken).
SignedInUnlessRaced ==
    Busy = {} /\ cookie # None /\ ~raced => cookie.refresh_token = keycloak

\* notebooks/[...path]/route.ts:30: "[]  GET list, POST create", and
\* catalogs/[...path]/route.ts:17: "[] -> list catalogs".  The proxy serves
\* every request of a user who is signed in.
EveryFetchIsServed ==
    \A s \in Busy : At(s, "done") /\ reqs[s].jwt # None => reqs[s].status # "unknown"
=============================================================================
