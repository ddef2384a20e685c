----------------------------- MODULE ProxyProofs -----------------------------
(***************************************************************************)
(* Proofs about Proxy, for any number of polls, any life of a token, any    *)
(* margin shorter than it, and any ids and names in the paths.             *)
(*                                                                         *)
(* What becomes of a token is proved with the tables of Routes closed: it  *)
(* does not depend on which requests there are.  Which handler each        *)
(* request comes to is a fact of the tables, proved last; only forms of    *)
(* paths are compared, so that an id may be any value, the fixed segment   *)
(* of another path as well.                                                *)
(***************************************************************************)
EXTENDS Proxy, TLAPS

-----------------------------------------------------------------------------
(* Requests.                                                               *)

Stages == {"sent", "authed", "refresh", "up", "done"}
Answers == {"none", "unknown", "invalid", "signed_out", "denied", "ok", "refused", "failed"}
Upstreams == {None} \cup UNION {{Upstream(q, x) : x \in Meets(q)} : q \in Fetches}
Request == [q : Fetches, jwt : Token \cup {None}, fresh : BOOLEAN, since : 0 .. MaxTime,
            up : Upstreams, stage : Stages, status : Answers]

\* A token lives Life from when it was made, and the clock counts the refresh
\* tokens: it has a tick between two of them.
Made(jwt) ==
    /\ jwt \in Token
    /\ jwt.refresh_token + Life <= jwt.expires_at

\* What is known of a request at each stage: one that goes to be refreshed has
\* come too late to do without, and one on its way to the API has a token that
\* outlives the way, or could not be refreshed.
RequestOK(r, time) ==
    /\ r \in Request
    /\ r.jwt # None => Made(r.jwt)
    /\ r.fresh => r.jwt \in Token /\ ~r.jwt.error /\ r.stage \in {"authed", "up", "done"}
    /\ r.stage = "refresh" =>
           Made(r.jwt) /\ r.since <= time /\ r.jwt.expires_at <= r.since + Skew
    /\ r.stage \in {"authed", "up"} =>
           /\ r.jwt \in Token /\ r.since <= time /\ time + Ahead <= r.since + Skew
           /\ r.since + Skew < r.jwt.expires_at \/ r.jwt.error
    /\ r.stage = "done" /\ r.status = "denied" => r.jwt.error

ProxyInv ==
    /\ now \in 0 .. MaxTime /\ keycloak \in 0 .. now /\ raced \in BOOLEAN
    /\ cookie = None \/ Made(cookie)
    /\ reqs \in [Slots -> Request \cup {Idle}]
    /\ \A s \in Slots : reqs[s] = Idle \/ RequestOK(reqs[s], now)

\* While nothing has raced, one request at most has a new token, which is the one
\* Keycloak accepts; while none has, the cookie's is.
Fresh(s) == reqs[s] # Idle /\ reqs[s].fresh

SessionKept ==
    ~raced => /\ \A s \in Slots : Fresh(s) => reqs[s].jwt.refresh_token = keycloak
              /\ \A s, t \in Slots : Fresh(s) /\ Fresh(t) => s = t
              /\ cookie # None /\ (\A s \in Slots : ~Fresh(s)) => cookie.refresh_token = keycloak

LEMMA Bounds ==
    Life \in Nat /\ Skew \in Nat /\ MaxTime \in Nat /\ Ahead \in 0 .. Skew /\ Skew < Life
  BY ProxyAssumption

\* A request is not what an idle slot has.
LEMMA NotIdle ==
    /\ Idle.stage = "idle"
    /\ \A r : r \in Request => r # Idle
    /\ "idle" \notin Stages
  BY DEF Idle, Request, Stages

\* What the update of one request leaves of the invariant.
LEMMA RequestUpdate ==
    ASSUME ProxyInv, NEW s \in Slots, NEW r, r = Idle \/ RequestOK(r, now),
           reqs' = [reqs EXCEPT ![s] = r], now' = now
    PROVE  /\ reqs' \in [Slots -> Request \cup {Idle}]
           /\ reqs'[s] = r /\ \A t \in Slots \ {s} : reqs'[t] = reqs[t]
           /\ \A t \in Slots : reqs'[t] = Idle \/ RequestOK(reqs'[t], now')
  BY DEF ProxyInv, RequestOK

\* A step that leaves the session alone, and the tokens of a request as they were.
LEMMA SessionUntouched ==
    ASSUME SessionKept, NEW s \in Slots, \A t \in Slots \ {s} : reqs'[t] = reqs[t],
           Fresh(s)' => Fresh(s) /\ reqs'[s].jwt = reqs[s].jwt, Fresh(s) => Fresh(s)',
           UNCHANGED <<cookie, keycloak, raced>>
    PROVE  SessionKept'
  BY DEF SessionKept, Fresh

\* The answer to a request that is at hand is not yet given.
LEMMA Asked ==
    ASSUME ProxyInv, NEW s \in Slots, NEW stage \in Stages, At(s, stage)
    PROVE  /\ reqs[s] # Idle /\ RequestOK(reqs[s], now) /\ reqs[s] \in Request
           /\ reqs[s].stage = stage
  BY NotIdle DEF ProxyInv, At, RequestOK

\* What becomes of a request that is answered.
LEMMA IsAnswered ==
    ASSUME ProxyInv, NEW s \in Slots, NEW stage \in Stages, At(s, stage),
           NEW status \in Answers, Answered(s, status), now' = now,
           status = "denied" => reqs[s].jwt.error
    PROVE  /\ reqs' \in [Slots -> Request \cup {Idle}]
           /\ \A t \in Slots \ {s} : reqs'[t] = reqs[t]
           /\ \A t \in Slots : reqs'[t] = Idle \/ RequestOK(reqs'[t], now')
           /\ reqs'[s].jwt = reqs[s].jwt
           /\ Fresh(s)' <=> Fresh(s)
  <1> DEFINE r == reqs[s]
             new == [r EXCEPT !.stage = "done", !.status = status, !.since = 0]
  <1>1. r # Idle /\ RequestOK(r, now) /\ r \in Request
    BY Asked
  <1>2. reqs' = [reqs EXCEPT ![s] = new]
    BY DEF Answered, ProxyInv
  <1>3. /\ new \in Request /\ new.jwt = r.jwt /\ new.fresh = r.fresh
        /\ new.stage = "done" /\ new.status = status
    <2>1. 0 \in 0 .. MaxTime /\ "done" \in Stages
      BY Bounds DEF Stages
    <2> QED
      BY <1>1, <2>1 DEF Request
  <1> HIDE DEF new
  <1>4. RequestOK(new, now) /\ new # Idle
    BY <1>1, <1>3, NotIdle DEF RequestOK
  <1>5. /\ reqs' \in [Slots -> Request \cup {Idle}]
        /\ reqs'[s] = new /\ \A t \in Slots \ {s} : reqs'[t] = reqs[t]
        /\ \A t \in Slots : reqs'[t] = Idle \/ RequestOK(reqs'[t], now')
    BY <1>2, <1>4, RequestUpdate
  <1>6. Fresh(s)' <=> Fresh(s)
    BY <1>1, <1>3, <1>4, <1>5 DEF Fresh
  <1> QED
    BY <1>3, <1>5, <1>6

-----------------------------------------------------------------------------
(* Steps.                                                                  *)

LEMMA SignInKeeps ==
    ASSUME ProxyInv, SessionKept, SignIn
    PROVE  ProxyInv' /\ SessionKept'
  <1>1. Made(cookie')
    BY Bounds DEF SignIn, ProxyInv, Made, Token
  <1>2. ProxyInv'
    BY <1>1 DEF SignIn, ProxyInv
  <1>3. \A s \in Slots : ~Fresh(s) /\ ~Fresh(s)'
    BY DEF SignIn, Busy, Fresh
  <1> QED
    BY <1>2, <1>3 DEF SignIn, SessionKept

LEMMA SendKeeps ==
    ASSUME ProxyInv, SessionKept, NEW s \in Slots, NEW q \in Fetches, Send(s, q)
    PROVE  ProxyInv' /\ SessionKept'
  <1> DEFINE new == [q |-> q, jwt |-> cookie, fresh |-> FALSE, since |-> 0, up |-> None,
                     stage |-> IF FileCases(q.path) = {} THEN "done" ELSE "sent",
                     status |-> IF FileCases(q.path) = {} THEN "unknown" ELSE "none"]
  <1>1. reqs' = [reqs EXCEPT ![s] = new] /\ UNCHANGED <<now, cookie, keycloak, raced>>
    BY DEF Send
  <1>2. /\ new.jwt = cookie /\ new.fresh = FALSE /\ new.stage \in {"done", "sent"}
        /\ new.status # "denied"
    OBVIOUS
  <1>3. new \in Request
    <2>1. 0 \in 0 .. MaxTime /\ None \in Upstreams /\ cookie \in Token \cup {None}
      BY Bounds DEF Upstreams, ProxyInv, Made
    <2>2. new.stage \in Stages /\ new.status \in Answers
      BY DEF Stages, Answers
    <2> QED
      BY <2>1, <2>2 DEF Request
  <1> HIDE DEF new
  <1>4. RequestOK(new, now)
    BY <1>2, <1>3 DEF RequestOK, ProxyInv
  <1>5. /\ reqs' \in [Slots -> Request \cup {Idle}]
        /\ reqs'[s] = new /\ \A t \in Slots \ {s} : reqs'[t] = reqs[t]
        /\ \A t \in Slots : reqs'[t] = Idle \/ RequestOK(reqs'[t], now')
    BY <1>1, <1>4, RequestUpdate
  <1>6. ProxyInv'
    BY <1>1, <1>5 DEF ProxyInv
  <1>7. ~Fresh(s)'
    BY <1>2, <1>5 DEF Fresh
  <1>8. ~Fresh(s)
    <2>1. reqs[s] = Idle
      BY NotIdle DEF Send, At, ProxyInv, RequestOK, Request
    <2> QED
      BY <2>1 DEF Fresh
  <1>9. SessionKept'
    BY <1>1, <1>5, <1>7, <1>8, SessionUntouched
  <1> QED
    BY <1>6, <1>9

LEMMA AuthenticateKeeps ==
    ASSUME ProxyInv, SessionKept, NEW s \in Slots, Authenticate(s)
    PROVE  ProxyInv' /\ SessionKept'
  <1> DEFINE r == reqs[s]
  <1>1. r # Idle /\ RequestOK(r, now) /\ r \in Request /\ r.stage = "sent" /\ At(s, "sent")
    BY Asked DEF Authenticate, Stages
  <1>2. UNCHANGED <<now, cookie, keycloak, raced>>
    BY DEF Authenticate
  <1>3. CASE r.jwt = None /\ Answered(s, "signed_out")
    <2>1. "signed_out" \in Answers /\ "sent" \in Stages
      BY DEF Answers, Stages
    <2>2. /\ reqs' \in [Slots -> Request \cup {Idle}]
          /\ \A t \in Slots \ {s} : reqs'[t] = reqs[t]
          /\ \A t \in Slots : reqs'[t] = Idle \/ RequestOK(reqs'[t], now')
          /\ reqs'[s].jwt = r.jwt
          /\ Fresh(s)' <=> Fresh(s)
      BY <1>1, <1>2, <1>3, <2>1, IsAnswered
    <2> QED
      BY <1>2, <2>2, SessionUntouched DEF ProxyInv
  <1>4. ASSUME r.jwt # None, NEW stage \in {"authed", "refresh"},
               stage = IF Valid(r.jwt) THEN "authed" ELSE "refresh",
               reqs' = [reqs EXCEPT ![s].since = now, ![s].stage = stage]
        PROVE  ProxyInv' /\ SessionKept'
    <2> DEFINE new == [r EXCEPT !.since = now, !.stage = stage]
    <2>1. reqs' = [reqs EXCEPT ![s] = new]
      BY <1>4 DEF ProxyInv
    <2>2. /\ new \in Request /\ new.jwt = r.jwt /\ new.fresh = r.fresh
          /\ new.stage = stage /\ new.since = now
      <3>1. now \in 0 .. MaxTime /\ stage \in Stages
        BY <1>4 DEF ProxyInv, Stages
      <3> QED
        BY <1>1, <3>1 DEF Request
    <2> HIDE DEF new
    <2>3. RequestOK(new, now)
      <3>1. Made(r.jwt) /\ r.jwt \in Token /\ ~r.fresh
        BY <1>1, <1>4 DEF RequestOK, Made
      <3>2. r.jwt.expires_at \in Nat /\ now \in Nat
        BY <3>1, Bounds DEF Token, ProxyInv
      <3>3. CASE now + Skew < r.jwt.expires_at /\ stage = "authed"
        BY <2>2, <3>1, <3>2, <3>3, Bounds DEF RequestOK
      <3>4. CASE ~(now + Skew < r.jwt.expires_at) /\ stage = "refresh"
        BY <2>2, <3>1, <3>2, <3>4, Bounds DEF RequestOK
      <3> QED
        BY <1>4, <3>3, <3>4 DEF Valid
    <2>4. /\ reqs' \in [Slots -> Request \cup {Idle}]
          /\ reqs'[s] = new /\ \A t \in Slots \ {s} : reqs'[t] = reqs[t]
          /\ \A t \in Slots : reqs'[t] = Idle \/ RequestOK(reqs'[t], now')
      BY <1>2, <2>1, <2>3, RequestUpdate
    <2>5. Fresh(s)' <=> Fresh(s)
      BY <1>1, <2>2, <2>4, NotIdle DEF Fresh
    <2> QED
      BY <1>2, <2>2, <2>4, <2>5, SessionUntouched DEF ProxyInv
  <1> QED
    BY <1>3, <1>4 DEF Authenticate

\* The request goes on with a token that is new, or could not be refreshed.
LEMMA GoesOn ==
    ASSUME ProxyInv, NEW s \in Slots, At(s, "refresh"), NEW token, NEW fresh \in BOOLEAN,
           Made(token), now + Skew < token.expires_at \/ token.error, fresh => ~token.error,
           reqs' = [reqs EXCEPT ![s].stage = "authed", ![s].since = now,
                                ![s].jwt = token, ![s].fresh = fresh],
           now' = now
    PROVE  /\ reqs' \in [Slots -> Request \cup {Idle}]
           /\ \A t \in Slots \ {s} : reqs'[t] = reqs[t]
           /\ \A t \in Slots : reqs'[t] = Idle \/ RequestOK(reqs'[t], now')
           /\ reqs'[s].jwt = token
           /\ Fresh(s)' <=> fresh
  <1> DEFINE r == reqs[s]
             new == [r EXCEPT !.stage = "authed", !.since = now, !.jwt = token, !.fresh = fresh]
  <1>1. r \in Request
    BY Asked DEF Stages
  <1>2. reqs' = [reqs EXCEPT ![s] = new]
    BY DEF ProxyInv
  <1>3. /\ new \in Request /\ new.jwt = token /\ new.fresh = fresh
        /\ new.stage = "authed" /\ new.since = now
    <2>1. now \in 0 .. MaxTime /\ "authed" \in Stages /\ token \in Token
      BY DEF ProxyInv, Stages, Made
    <2> QED
      BY <1>1, <2>1 DEF Request
  <1> HIDE DEF new
  <1>4. RequestOK(new, now)
    <2>1. token \in Token /\ now \in Nat /\ now + Ahead <= now + Skew
      BY Bounds DEF Made, ProxyInv
    <2> QED
      BY <1>3, <2>1 DEF RequestOK
  <1>5. /\ reqs' \in [Slots -> Request \cup {Idle}]
        /\ reqs'[s] = new /\ \A t \in Slots \ {s} : reqs'[t] = reqs[t]
        /\ \A t \in Slots : reqs'[t] = Idle \/ RequestOK(reqs'[t], now')
    BY <1>2, <1>4, RequestUpdate
  <1>6. Fresh(s)' <=> fresh
    BY <1>3, <1>5, NotIdle DEF Fresh
  <1> QED
    BY <1>3, <1>5, <1>6

\* A token that is exchanged was made a tick ago or longer: it would not have come
\* to be refreshed else, as the margin is shorter than a token's life.
LEMMA TimeEnough ==
    ASSUME ProxyInv, NEW s \in Slots, At(s, "refresh"), reqs[s].jwt.refresh_token = keycloak
    PROVE  keycloak + 1 <= now
  <1> DEFINE r == reqs[s]
  <1>1. RequestOK(r, now) /\ r.stage = "refresh" /\ r \in Request
    BY Asked DEF Stages
  <1>2. /\ Made(r.jwt) /\ r.since <= now /\ r.jwt.expires_at <= r.since + Skew
        /\ r.since \in 0 .. MaxTime
    BY <1>1 DEF RequestOK, Request
  <1>3. r.jwt \in Token /\ r.jwt.refresh_token + Life <= r.jwt.expires_at
    BY <1>2 DEF Made
  <1>4. keycloak \in Nat /\ now \in Nat /\ r.jwt.expires_at \in Nat
    BY <1>3, Bounds DEF ProxyInv, Token
  <1> QED
    BY <1>2, <1>3, <1>4, Bounds

LEMMA RefreshKeeps ==
    ASSUME ProxyInv, SessionKept, NEW s \in Slots, Refresh(s)
    PROVE  ProxyInv' /\ SessionKept'
  <1> DEFINE jwt == reqs[s].jwt
             marked == [jwt EXCEPT !.error = TRUE]
             GoOn(token, fresh) ==
                 reqs' = [reqs EXCEPT ![s].stage = "authed", ![s].since = now,
                                      ![s].jwt = token, ![s].fresh = fresh]
  <1>1. At(s, "refresh") /\ UNCHANGED <<now, cookie>>
    BY DEF Refresh
  <1>2. Made(jwt) /\ jwt \in Token /\ ~Fresh(s)
    <2>1. RequestOK(reqs[s], now) /\ reqs[s].stage = "refresh"
      BY <1>1, Asked DEF Stages
    <2> QED
      BY <2>1 DEF RequestOK, Made, Fresh
  <1>3. Made(marked) /\ marked.error = TRUE
    BY <1>2 DEF Made, Token
  <1> HIDE DEF marked
  <1>4. CASE GoOn(marked, FALSE) /\ UNCHANGED <<keycloak, raced>>
    <2>1. /\ reqs' \in [Slots -> Request \cup {Idle}]
          /\ \A t \in Slots \ {s} : reqs'[t] = reqs[t]
          /\ \A t \in Slots : reqs'[t] = Idle \/ RequestOK(reqs'[t], now')
          /\ ~Fresh(s)'
      BY <1>1, <1>3, <1>4, GoesOn
    <2> QED
      BY <1>1, <1>2, <1>4, <2>1, SessionUntouched DEF ProxyInv
  <1>5. ASSUME jwt.refresh_token = keycloak, keycloak' \in {keycloak, keycloak + 1}
        PROVE  keycloak' \in 0 .. now /\ keycloak' \in Nat
    BY <1>1, <1>5, TimeEnough, Bounds DEF ProxyInv
  <1>6. CASE /\ jwt.refresh_token = keycloak /\ keycloak' \in {keycloak, keycloak + 1}
             /\ GoOn(marked, FALSE) /\ raced' = TRUE
    <2>1. /\ reqs' \in [Slots -> Request \cup {Idle}]
          /\ \A t \in Slots : reqs'[t] = Idle \/ RequestOK(reqs'[t], now')
      BY <1>1, <1>3, <1>6, GoesOn
    <2> QED
      BY <1>1, <1>5, <1>6, <2>1 DEF ProxyInv, SessionKept
  <1>7. CASE /\ jwt.refresh_token = keycloak /\ keycloak' \in {keycloak, keycloak + 1}
             /\ GoOn(Refreshed(jwt, keycloak'), TRUE) /\ raced' = (raced \/ Busy # {s})
    <2> DEFINE token == Refreshed(jwt, keycloak')
    <2>1. /\ Made(token) /\ now + Skew < token.expires_at /\ ~token.error
          /\ token.refresh_token = keycloak'
      BY <1>5, <1>7, Bounds DEF Refreshed, Made, Token, ProxyInv
    <2>2. GoOn(token, TRUE)
      BY <1>7
    <2> HIDE DEF token
    <2>3. /\ reqs' \in [Slots -> Request \cup {Idle}]
          /\ \A t \in Slots \ {s} : reqs'[t] = reqs[t]
          /\ \A t \in Slots : reqs'[t] = Idle \/ RequestOK(reqs'[t], now')
          /\ reqs'[s].jwt = token
          /\ Fresh(s)'
      BY <1>1, <2>1, <2>2, GoesOn
    <2>4. ProxyInv'
      BY <1>1, <1>5, <1>7, <2>3 DEF ProxyInv
    <2>5. ASSUME ~raced'
          PROVE  \A t \in Slots : Fresh(t)' => t = s
      <3>1. \A t \in Slots \ {s} : reqs[t] = Idle
        BY <1>7, <2>5 DEF Busy
      <3> QED
        BY <2>3, <3>1 DEF Fresh
    <2>6. SessionKept'
      BY <2>1, <2>3, <2>5 DEF SessionKept
    <2> QED
      BY <2>4, <2>6
  <1> QED
    BY <1>4, <1>6, <1>7 DEF Refresh, marked

LEMMA ForwardKeeps ==
    ASSUME ProxyInv, SessionKept, NEW s \in Slots, Forward(s)
    PROVE  ProxyInv' /\ SessionKept'
  <1> DEFINE r == reqs[s]
  <1>1. r # Idle /\ RequestOK(r, now) /\ r \in Request /\ r.stage = "authed" /\ At(s, "authed")
    BY Asked DEF Forward, Stages
  <1>2. UNCHANGED <<now, cookie, keycloak, raced>>
    BY DEF Forward
  <1>3. ASSUME NEW status \in {"unknown", "invalid"}, Answered(s, status)
        PROVE  ProxyInv' /\ SessionKept'
    <2>1. status \in Answers /\ "authed" \in Stages /\ status # "denied"
      BY <1>3 DEF Answers, Stages
    <2>2. /\ reqs' \in [Slots -> Request \cup {Idle}]
          /\ \A t \in Slots \ {s} : reqs'[t] = reqs[t]
          /\ \A t \in Slots : reqs'[t] = Idle \/ RequestOK(reqs'[t], now')
          /\ reqs'[s].jwt = r.jwt
          /\ Fresh(s)' <=> Fresh(s)
      BY <1>1, <1>2, <1>3, <2>1, IsAnswered
    <2> QED
      BY <1>2, <2>2, SessionUntouched DEF ProxyInv
  <1>4. ASSUME NEW x \in Meets(r.q), reqs' = [reqs EXCEPT ![s].stage = "up", ![s].up = Upstream(r.q, x)]
        PROVE  ProxyInv' /\ SessionKept'
    <2> DEFINE up == Upstream(r.q, x)
               new == [r EXCEPT !.stage = "up", !.up = up]
    <2>1. reqs' = [reqs EXCEPT ![s] = new]
      BY <1>4 DEF ProxyInv
    <2>2. /\ new \in Request /\ new.jwt = r.jwt /\ new.fresh = r.fresh
          /\ new.stage = "up" /\ new.since = r.since
      <3>1. r.q \in Fetches
        BY <1>1 DEF Request
      <3>2. up \in Upstreams /\ "up" \in Stages
        BY <1>4, <3>1 DEF Upstreams, Stages
      <3> HIDE DEF up
      <3> QED
        BY <1>1, <3>2 DEF Request
    <2> HIDE DEF new
    <2>3. RequestOK(new, now)
      BY <1>1, <2>2 DEF RequestOK
    <2>4. /\ reqs' \in [Slots -> Request \cup {Idle}]
          /\ reqs'[s] = new /\ \A t \in Slots \ {s} : reqs'[t] = reqs[t]
          /\ \A t \in Slots : reqs'[t] = Idle \/ RequestOK(reqs'[t], now')
      BY <1>2, <2>1, <2>3, RequestUpdate
    <2>5. Fresh(s)' <=> Fresh(s)
      BY <1>1, <2>2, <2>4, NotIdle DEF Fresh
    <2> QED
      BY <1>2, <2>2, <2>4, <2>5, SessionUntouched DEF ProxyInv
  <1>5. \/ Answered(s, "unknown") \/ Answered(s, "invalid")
        \/ \E x \in Meets(r.q) : reqs' = [reqs EXCEPT ![s].stage = "up", ![s].up = Upstream(r.q, x)]
    BY DEF Forward
  <1> QED
    BY <1>3, <1>4, <1>5

LEMMA ServeApiKeeps ==
    ASSUME ProxyInv, SessionKept, NEW s \in Slots, ServeApi(s)
    PROVE  ProxyInv' /\ SessionKept'
  <1> DEFINE r == reqs[s]
  <1>1. r # Idle /\ RequestOK(r, now) /\ r \in Request /\ r.stage = "up" /\ At(s, "up")
    BY Asked DEF ServeApi, Stages
  <1>2. UNCHANGED <<now, cookie, keycloak, raced>>
    BY DEF ServeApi
  <1>3. PICK status \in {"denied", "ok", "refused", "failed"} :
            Answered(s, status) /\ (status = "denied" => r.jwt.expires_at <= now + Ahead)
    BY DEF ServeApi
  <1>4. status = "denied" => r.jwt.error
    <2>1. /\ r.jwt \in Token /\ now + Ahead <= r.since + Skew /\ r.since \in 0 .. MaxTime
          /\ r.since + Skew < r.jwt.expires_at \/ r.jwt.error
      BY <1>1 DEF RequestOK, Request
    <2>2. now \in Nat /\ r.jwt.expires_at \in Nat /\ r.since \in Nat
      BY <2>1, Bounds DEF ProxyInv, Token
    <2>3. r.since + Skew < r.jwt.expires_at => ~(r.jwt.expires_at <= now + Ahead)
      BY <2>1, <2>2, Bounds
    <2> QED
      BY <1>3, <2>1, <2>3
  <1>5. status \in Answers /\ "up" \in Stages
    BY DEF Answers, Stages
  <1>6. /\ reqs' \in [Slots -> Request \cup {Idle}]
        /\ \A t \in Slots \ {s} : reqs'[t] = reqs[t]
        /\ \A t \in Slots : reqs'[t] = Idle \/ RequestOK(reqs'[t], now')
        /\ reqs'[s].jwt = r.jwt
        /\ Fresh(s)' <=> Fresh(s)
    BY <1>1, <1>2, <1>3, <1>4, <1>5, IsAnswered
  <1> QED
    BY <1>2, <1>6, SessionUntouched DEF ProxyInv

LEMMA AnswerKeeps ==
    ASSUME ProxyInv, SessionKept, NEW s \in Slots, Answer(s)
    PROVE  ProxyInv' /\ SessionKept'
  <1> DEFINE r == reqs[s]
  <1>1. r # Idle /\ RequestOK(r, now) /\ r \in Request
    BY Asked DEF Answer, Stages
  <1>2. UNCHANGED <<now, keycloak>> /\ reqs' = [reqs EXCEPT ![s] = Idle]
    BY DEF Answer
  <1>3. /\ reqs' \in [Slots -> Request \cup {Idle}]
        /\ reqs'[s] = Idle /\ \A t \in Slots \ {s} : reqs'[t] = reqs[t]
        /\ \A t \in Slots : reqs'[t] = Idle \/ RequestOK(reqs'[t], now')
    BY <1>2, RequestUpdate
  <1>4. ~Fresh(s)' /\ \A t \in Slots \ {s} : Fresh(t)' <=> Fresh(t)
    BY <1>3 DEF Fresh
  <1>5. CASE r.fresh /\ cookie' = r.jwt /\ UNCHANGED raced
    <2>1. Made(r.jwt) \/ r.jwt = None
      BY <1>1 DEF RequestOK
    <2>2. ProxyInv'
      BY <1>2, <1>3, <1>5, <2>1 DEF ProxyInv
    <2>3. Fresh(s)
      BY <1>1, <1>5 DEF Fresh
    <2> QED
      BY <1>2, <1>3, <1>4, <1>5, <2>2, <2>3 DEF SessionKept
  <1>6. CASE UNCHANGED cookie /\ raced' = (raced \/ r.fresh)
    <2>1. ProxyInv'
      BY <1>1, <1>2, <1>3, <1>6 DEF ProxyInv, Request
    <2>2. ~raced' => ~raced /\ ~Fresh(s)
      BY <1>6 DEF Fresh
    <2>3. ~raced' => \A t \in Slots : Fresh(t)' <=> Fresh(t)
      BY <1>4, <2>2
    <2> QED
      BY <1>2, <1>3, <1>4, <1>6, <2>1, <2>2, <2>3 DEF SessionKept
  <1> QED
    BY <1>5, <1>6 DEF Answer

LEMMA TickKeeps ==
    ASSUME ProxyInv, SessionKept, Tick
    PROVE  ProxyInv' /\ SessionKept'
  <1>1. /\ now < MaxTime /\ now' = now + 1 /\ UNCHANGED <<cookie, keycloak, reqs, raced>>
        /\ now \in Nat /\ keycloak \in 0 .. now
    BY Bounds DEF Tick, ProxyInv
  <1>2. now' \in 0 .. MaxTime /\ keycloak' \in 0 .. now'
    BY <1>1, Bounds
  <1>3. ASSUME NEW s \in Slots, reqs[s] # Idle
        PROVE  RequestOK(reqs[s], now')
    <2>1. RequestOK(reqs[s], now) /\ reqs[s].since \in 0 .. MaxTime
      BY <1>3 DEF ProxyInv, RequestOK, Request
    <2>2. reqs[s].stage \in {"authed", "up"} => now' + Ahead <= reqs[s].since + Skew
      BY <1>3 DEF Tick, Busy
    <2>3. reqs[s].since <= now => reqs[s].since <= now'
      BY <1>1, <2>1
    <2> QED
      BY <2>1, <2>2, <2>3 DEF RequestOK
  <1>4. ProxyInv'
    BY <1>1, <1>2, <1>3 DEF ProxyInv
  <1>5. SessionKept'
    BY <1>1 DEF SessionKept, Fresh
  <1> QED
    BY <1>4, <1>5

LEMMA ProxyKept ==
    ASSUME ProxyInv, SessionKept, [Next]_vars
    PROVE  ProxyInv' /\ SessionKept'
  <1>1. CASE UNCHANGED vars
    BY <1>1 DEF vars, ProxyInv, SessionKept, Fresh
  <1> QED
    BY <1>1, SignInKeeps, SendKeeps, AuthenticateKeeps, RefreshKeeps, ForwardKeeps,
       ServeApiKeeps, AnswerKeeps, TickKeeps DEF Next

LEMMA ProxyHolds == Spec => [](ProxyInv /\ SessionKept)
  <1>1. Init => ProxyInv /\ SessionKept
    <2> SUFFICES ASSUME Init PROVE ProxyInv /\ SessionKept
      OBVIOUS
    <2>1. \A s \in Slots : reqs[s] = Idle
      BY DEF Init
    <2>2. ProxyInv
      <3>1. now \in 0 .. MaxTime /\ keycloak \in 0 .. now
        BY Bounds DEF Init
      <3>2. reqs \in [Slots -> Request \cup {Idle}]
        BY DEF Init
      <3> QED
        BY <2>1, <3>1, <3>2 DEF Init, ProxyInv
    <2>3. SessionKept
      BY <2>1 DEF Init, SessionKept, Fresh
    <2> QED
      BY <2>2, <2>3
  <1>2. ProxyInv /\ SessionKept /\ [Next]_vars => (ProxyInv /\ SessionKept)'
    BY ProxyKept
  <1> QED
    BY <1>1, <1>2, PTL DEF Spec

-----------------------------------------------------------------------------
(* Paths and shapes: which path fits which shape.                          *)

\* A sequence.
Row(s) == Len(s) \in Nat /\ s = [i \in 1 .. Len(s) |-> s[i]]

\* The paths are sequences, of these lengths and kinds.
LEMMA Rows ==
    /\ \A k : Row(All(k)) /\ Len(All(k)) = 1 /\ All(k)[1] = k
    /\ \A k, i : Row(One(k, i)) /\ Len(One(k, i)) = 2 /\ One(k, i)[1] = k
    /\ \A k, i, a : Row(Of(k, i, a)) /\ Len(Of(k, i, a)) = 3 /\ Of(k, i, a)[1] = k
    /\ \A i, j : Row(Restore(i, j)) /\ Len(Restore(i, j)) = 5 /\ Restore(i, j)[1] = "notebooks"
    /\ \A i, j : Row(Tables(i, j)) /\ Len(Tables(i, j)) = 5 /\ Tables(i, j)[1] = "catalogs"
    /\ \A i, j, k : Row(Table(i, j, k)) /\ Len(Table(i, j, k)) = 6 /\ Table(i, j, k)[1] = "catalogs"
    /\ \A i, j, k : Row(Sample(i, j, k)) /\ Len(Sample(i, j, k)) = 7 /\ Sample(i, j, k)[1] = "catalogs"
    /\ \A i : Row(Roles(i)) /\ Len(Roles(i)) = 4 /\ Roles(i)[1] = "admin"
  BY DEF Row, All, One, Of, Restore, Tables, Table, Sample, Roles

\* A path fits a shape of its own form, if the fixed segments agree, and no other.
LEMMA FitsAll ==
    /\ \A k, j : Fits(All(k), All(j)) <=> j \in Places \cup {k}
    /\ \A k, j, u : ~Fits(All(k), One(j, u))
    /\ \A k, j, u, v : ~Fits(All(k), Of(j, u, v))
    /\ \A k, u, v : ~Fits(All(k), Restore(u, v)) /\ ~Fits(All(k), Tables(u, v))
    /\ \A k, u, v, w : ~Fits(All(k), Table(u, v, w)) /\ ~Fits(All(k), Sample(u, v, w))
    /\ \A k, u : ~Fits(All(k), Roles(u))
  BY DEF Fits, All, One, Of, Restore, Tables, Table, Sample, Roles

LEMMA FitsOne ==
    /\ \A k, a, j, u : Fits(One(k, a), One(j, u)) <=> j \in Places \cup {k} /\ u \in Places \cup {a}
    /\ \A k, a, j : ~Fits(One(k, a), All(j))
    /\ \A k, a, j, u, v : ~Fits(One(k, a), Of(j, u, v))
    /\ \A k, a, u, v : ~Fits(One(k, a), Restore(u, v)) /\ ~Fits(One(k, a), Tables(u, v))
    /\ \A k, a, u, v, w : ~Fits(One(k, a), Table(u, v, w)) /\ ~Fits(One(k, a), Sample(u, v, w))
    /\ \A k, a, u : ~Fits(One(k, a), Roles(u))
  BY DEF Fits, All, One, Of, Restore, Tables, Table, Sample, Roles

LEMMA FitsOf ==
    /\ \A k, a, b, j, u, v : Fits(Of(k, a, b), Of(j, u, v)) <=>
           j \in Places \cup {k} /\ u \in Places \cup {a} /\ v \in Places \cup {b}
    /\ \A k, a, b, j : ~Fits(Of(k, a, b), All(j))
    /\ \A k, a, b, j, u : ~Fits(Of(k, a, b), One(j, u))
    /\ \A k, a, b, u, v : ~Fits(Of(k, a, b), Restore(u, v)) /\ ~Fits(Of(k, a, b), Tables(u, v))
    /\ \A k, a, b, u, v, w : ~Fits(Of(k, a, b), Table(u, v, w)) /\ ~Fits(Of(k, a, b), Sample(u, v, w))
    /\ \A k, a, b, u : ~Fits(Of(k, a, b), Roles(u))
  BY DEF Fits, All, One, Of, Restore, Tables, Table, Sample, Roles

LEMMA FitsRestore ==
    /\ \A a, b, u, v : Fits(Restore(a, b), Restore(u, v)) <=>
           u \in Places \cup {a} /\ v \in Places \cup {b}
    /\ \A a, b, j : ~Fits(Restore(a, b), All(j))
    /\ \A a, b, j, u : ~Fits(Restore(a, b), One(j, u))
    /\ \A a, b, j, u, v : ~Fits(Restore(a, b), Of(j, u, v))
    /\ \A a, b, u, v : ~Fits(Restore(a, b), Tables(u, v))
    /\ \A a, b, u, v, w : ~Fits(Restore(a, b), Table(u, v, w)) /\ ~Fits(Restore(a, b), Sample(u, v, w))
    /\ \A a, b, u : ~Fits(Restore(a, b), Roles(u))
  <1>1. \A a, b, u, v : Fits(Restore(a, b), Restore(u, v)) <=>
            u \in Places \cup {a} /\ v \in Places \cup {b}
    BY DEF Fits, Restore
  <1>2. \A a, b, u, v : ~Fits(Restore(a, b), Tables(u, v))
    BY DEF Fits, Tables, Restore, Places
  <1>3. \A a, b, j, u, v :
            /\ ~Fits(Restore(a, b), All(j)) /\ ~Fits(Restore(a, b), One(j, u))
            /\ ~Fits(Restore(a, b), Of(j, u, v))
    BY DEF Fits, Restore, All, One, Of
  <1>4. \A a, b, u, v, w :
            /\ ~Fits(Restore(a, b), Table(u, v, w)) /\ ~Fits(Restore(a, b), Sample(u, v, w))
            /\ ~Fits(Restore(a, b), Roles(u))
    BY DEF Fits, Restore, Table, Sample, Roles
  <1> QED
    BY <1>1, <1>2, <1>3, <1>4

LEMMA FitsTables ==
    /\ \A a, b, u, v : Fits(Tables(a, b), Tables(u, v)) <=>
           u \in Places \cup {a} /\ v \in Places \cup {b}
    /\ \A a, b, j : ~Fits(Tables(a, b), All(j))
    /\ \A a, b, j, u : ~Fits(Tables(a, b), One(j, u))
    /\ \A a, b, j, u, v : ~Fits(Tables(a, b), Of(j, u, v))
    /\ \A a, b, u, v : ~Fits(Tables(a, b), Restore(u, v))
    /\ \A a, b, u, v, w : ~Fits(Tables(a, b), Table(u, v, w)) /\ ~Fits(Tables(a, b), Sample(u, v, w))
    /\ \A a, b, u : ~Fits(Tables(a, b), Roles(u))
  <1>1. \A a, b, u, v : Fits(Tables(a, b), Tables(u, v)) <=>
            u \in Places \cup {a} /\ v \in Places \cup {b}
    BY DEF Fits, Tables
  <1>2. \A a, b, u, v : ~Fits(Tables(a, b), Restore(u, v))
    BY DEF Fits, Tables, Restore, Places
  <1>3. \A a, b, j, u, v :
            /\ ~Fits(Tables(a, b), All(j)) /\ ~Fits(Tables(a, b), One(j, u))
            /\ ~Fits(Tables(a, b), Of(j, u, v))
    BY DEF Fits, Tables, All, One, Of
  <1>4. \A a, b, u, v, w :
            /\ ~Fits(Tables(a, b), Table(u, v, w)) /\ ~Fits(Tables(a, b), Sample(u, v, w))
            /\ ~Fits(Tables(a, b), Roles(u))
    BY DEF Fits, Tables, Table, Sample, Roles
  <1> QED
    BY <1>1, <1>2, <1>3, <1>4

LEMMA FitsTable ==
    /\ \A a, b, c, u, v, w : Fits(Table(a, b, c), Table(u, v, w)) <=>
           u \in Places \cup {a} /\ v \in Places \cup {b} /\ w \in Places \cup {c}
    /\ \A a, b, c, j : ~Fits(Table(a, b, c), All(j))
    /\ \A a, b, c, j, u : ~Fits(Table(a, b, c), One(j, u))
    /\ \A a, b, c, j, u, v : ~Fits(Table(a, b, c), Of(j, u, v))
    /\ \A a, b, c, u, v : ~Fits(Table(a, b, c), Restore(u, v)) /\ ~Fits(Table(a, b, c), Tables(u, v))
    /\ \A a, b, c, u, v, w : ~Fits(Table(a, b, c), Sample(u, v, w))
    /\ \A a, b, c, u : ~Fits(Table(a, b, c), Roles(u))
  BY DEF Fits, All, One, Of, Restore, Tables, Table, Sample, Roles

LEMMA FitsSample ==
    /\ \A a, b, c, u, v, w : Fits(Sample(a, b, c), Sample(u, v, w)) <=>
           u \in Places \cup {a} /\ v \in Places \cup {b} /\ w \in Places \cup {c}
    /\ \A a, b, c, j : ~Fits(Sample(a, b, c), All(j))
    /\ \A a, b, c, j, u : ~Fits(Sample(a, b, c), One(j, u))
    /\ \A a, b, c, j, u, v : ~Fits(Sample(a, b, c), Of(j, u, v))
    /\ \A a, b, c, u, v : ~Fits(Sample(a, b, c), Restore(u, v)) /\ ~Fits(Sample(a, b, c), Tables(u, v))
    /\ \A a, b, c, u, v, w : ~Fits(Sample(a, b, c), Table(u, v, w))
    /\ \A a, b, c, u : ~Fits(Sample(a, b, c), Roles(u))
  BY DEF Fits, All, One, Of, Restore, Tables, Table, Sample, Roles

LEMMA FitsRoles ==
    /\ \A a, u : Fits(Roles(a), Roles(u)) <=> u \in Places \cup {a}
    /\ \A a, j : ~Fits(Roles(a), All(j))
    /\ \A a, j, u : ~Fits(Roles(a), One(j, u))
    /\ \A a, j, u, v : ~Fits(Roles(a), Of(j, u, v))
    /\ \A a, u, v : ~Fits(Roles(a), Restore(u, v)) /\ ~Fits(Roles(a), Tables(u, v))
    /\ \A a, u, v, w : ~Fits(Roles(a), Table(u, v, w)) /\ ~Fits(Roles(a), Sample(u, v, w))
  BY DEF Fits, All, One, Of, Restore, Tables, Table, Sample, Roles

\* No argument has two places in a shape.
Distinct(shape) == \A i, j \in 1 .. Len(shape) : shape[i] = shape[j] /\ shape[i] \in Places => i = j
Plain(shape) == Row(shape) /\ Distinct(shape)

LEMMA Shapes ==
    /\ \A k : k \notin Places => Plain(All(k)) /\ Plain(One(k, "$1"))
    /\ \A k, a : k \notin Places /\ a \notin Places => Plain(One(k, a)) /\ Plain(Of(k, "$1", a))
    /\ Plain(Restore("$1", "$2")) /\ Plain(Tables("$1", "$2")) 
    /\ Plain(Table("$1", "$2", "$3")) /\ Plain(Sample("$1", "$2", "$3"))
    /\ Plain(Roles("$1"))
  <1>1. \A k : k \notin Places => Distinct(All(k)) /\ Distinct(One(k, "$1"))
    BY DEF Distinct, All, One, Places
  <1>2. \A k, a : k \notin Places /\ a \notin Places => Distinct(One(k, a)) /\ Distinct(Of(k, "$1", a))
    BY DEF Distinct, Of, One, Places
  <1>3. Distinct(Restore("$1", "$2")) /\ Distinct(Tables("$1", "$2"))
        /\ Distinct(Table("$1", "$2", "$3"))
    BY DEF Distinct, Restore, Tables, Table, Places
  <1>4. Distinct(Sample("$1", "$2", "$3")) /\ Distinct(Roles("$1"))
    BY DEF Distinct, Sample, Roles, Places
  <1> QED
    BY <1>1, <1>2, <1>3, <1>4, Rows DEF Plain

\* The arguments taken from a path by a shape that it fits make the path again.
LEMMA FillsBack ==
    ASSUME NEW path, NEW shape, Row(path), Row(shape), Fits(path, shape), Distinct(shape)
    PROVE  Fill(shape, Args(path, shape)) = path
  <1>1. DOMAIN shape = 1 .. Len(shape) /\ DOMAIN path = 1 .. Len(shape) /\ Len(path) = Len(shape)
    BY DEF Row, Fits
  <1>2. ASSUME NEW i \in 1 .. Len(shape), shape[i] \in Places
        PROVE  Args(path, shape)[shape[i]] = path[i]
    <2>1. (CHOOSE j \in DOMAIN shape : shape[j] = shape[i]) = i
      BY <1>1, <1>2 DEF Distinct
    <2> QED
      BY <1>1, <1>2, <2>1 DEF Args
  <1>3. ASSUME NEW i \in 1 .. Len(shape), shape[i] \notin Places
        PROVE  shape[i] = path[i]
    BY <1>1, <1>3 DEF Fits
  <1>4. Fill(shape, Args(path, shape)) = [i \in 1 .. Len(shape) |-> path[i]]
    BY <1>1, <1>2, <1>3 DEF Fill
  <1> QED
    BY <1>1, <1>4 DEF Row

-----------------------------------------------------------------------------
(* The files: which cases a request meets.                                  *)

\* What a file without stars serves, and a catch-all.
LEMMA ServesExact ==
    \A p, s, cs : Row(p) /\ Row(s) => (Serves(File(s, FALSE, cs), p) <=> Fits(p, s))
  BY DEF Row, Serves, File, Fits

LEMMA ServesMore ==
    \A p, k, cs : Row(p) /\ k \notin Places =>
        (Serves(File(One(k, "$1"), TRUE, cs), p) <=> Len(p) >= 2 /\ p[1] = k)
  <1> SUFFICES ASSUME NEW p, NEW k, NEW cs, Row(p), k \notin Places
               PROVE Serves(File(One(k, "$1"), TRUE, cs), p) <=> Len(p) >= 2 /\ p[1] = k
    OBVIOUS
  <1> DEFINE s == One(k, "$1")
  <1>1. Len(s) = 2 /\ s[1] = k /\ s[2] = "$1"
    BY DEF One
  <1>2. "$1" \in Places
    BY DEF Places
  <1> HIDE DEF s
  <1>3. Serves(File(s, TRUE, cs), p) <=> Len(p) >= 2 /\ \A i \in 1 .. 2 : s[i] \in Places \cup {p[i]}
    BY <1>1 DEF Serves, File
  <1>4. (\A i \in 1 .. 2 : s[i] \in Places \cup {p[i]}) <=>
            s[1] \in Places \cup {p[1]} /\ s[2] \in Places \cup {p[2]}
    OBVIOUS
  <1>5. Serves(File(s, TRUE, cs), p) <=> Len(p) >= 2 /\ p[1] = k
    BY <1>1, <1>2, <1>3, <1>4
  <1> QED
    BY <1>5 DEF s

LEMMA FilesAre ==
    /\ DOMAIN Files = 1 .. 8
    /\ Files[1] = File(All("clusters"), FALSE, Clusters)
    /\ Files[2] = File(One("clusters", "$1"), FALSE, Cluster)
    /\ Files[3] = File(Of("clusters", "$1", "permissions"), FALSE, ClusterPermissions)
    /\ Files[4] = File(Of("clusters", "$1", "$1"), FALSE, ClusterAction)
    /\ Files[5] = File(Of("notebooks", "$1", "export"), FALSE, NotebookExport)
    /\ Files[6] = File(One("notebooks", "$1"), TRUE, Notebooks)
    /\ Files[7] = File(One("catalogs", "$1"), TRUE, Catalogs)
    /\ Files[8] = File(One("admin", "$1"), TRUE, Admin)
  BY DEF Files

\* The first file that serves a path has its cases.
LEMMA FirstFile ==
    \A path : \A i \in 1 .. 8 :
        Serves(Files[i], path) /\ (\A j \in 1 .. i - 1 : ~Serves(Files[j], path))
            => FileCases(path) = Files[i].cases
  <1> SUFFICES ASSUME NEW path, NEW i \in 1 .. 8, Serves(Files[i], path),
                      \A j \in 1 .. i - 1 : ~Serves(Files[j], path)
               PROVE  FileCases(path) = Files[i].cases
    OBVIOUS
  <1> DEFINE fitting == {k \in DOMAIN Files : Serves(Files[k], path)}
  <1>1. DOMAIN Files = 1 .. 8
    BY FilesAre
  <1>2. i \in fitting /\ \A j \in fitting : j \in 1 .. 8 /\ i <= j
    BY <1>1
  <1> HIDE DEF fitting
  <1>3. (CHOOSE k \in fitting : \A j \in fitting : k <= j) = i
    <2>1. \A k \in fitting : (\A j \in fitting : k <= j) => k = i
      BY <1>2
    <2> QED
      BY <1>2, <2>1
  <1> QED
    BY <1>2, <1>3 DEF FileCases, fitting

\* What each file serves.
LEMMA Served ==
    \A p : Row(p) =>
        /\ Serves(Files[1], p) <=> Fits(p, All("clusters"))
        /\ Serves(Files[2], p) <=> Fits(p, One("clusters", "$1"))
        /\ Serves(Files[3], p) <=> Fits(p, Of("clusters", "$1", "permissions"))
        /\ Serves(Files[4], p) <=> Fits(p, Of("clusters", "$1", "$1"))
        /\ Serves(Files[5], p) <=> Fits(p, Of("notebooks", "$1", "export"))
        /\ Serves(Files[6], p) <=> Len(p) >= 2 /\ p[1] = "notebooks"
        /\ Serves(Files[7], p) <=> Len(p) >= 2 /\ p[1] = "catalogs"
        /\ Serves(Files[8], p) <=> Len(p) >= 2 /\ p[1] = "admin"
  <1> SUFFICES ASSUME NEW p, Row(p)
               PROVE  /\ Serves(Files[1], p) <=> Fits(p, All("clusters"))
                      /\ Serves(Files[2], p) <=> Fits(p, One("clusters", "$1"))
                      /\ Serves(Files[3], p) <=> Fits(p, Of("clusters", "$1", "permissions"))
                      /\ Serves(Files[4], p) <=> Fits(p, Of("clusters", "$1", "$1"))
                      /\ Serves(Files[5], p) <=> Fits(p, Of("notebooks", "$1", "export"))
                      /\ Serves(Files[6], p) <=> Len(p) >= 2 /\ p[1] = "notebooks"
                      /\ Serves(Files[7], p) <=> Len(p) >= 2 /\ p[1] = "catalogs"
                      /\ Serves(Files[8], p) <=> Len(p) >= 2 /\ p[1] = "admin"
    OBVIOUS
  <1>1. "notebooks" \notin Places /\ "catalogs" \notin Places /\ "admin" \notin Places
    BY DEF Places
  <1>2. /\ Row(All("clusters")) /\ Row(One("clusters", "$1")) /\ Row(Of("clusters", "$1", "permissions"))
        /\ Row(Of("clusters", "$1", "$1")) /\ Row(Of("notebooks", "$1", "export"))
    BY Rows
  <1>3. /\ Serves(Files[1], p) <=> Fits(p, All("clusters"))
        /\ Serves(Files[2], p) <=> Fits(p, One("clusters", "$1"))
        /\ Serves(Files[3], p) <=> Fits(p, Of("clusters", "$1", "permissions"))
        /\ Serves(Files[4], p) <=> Fits(p, Of("clusters", "$1", "$1"))
        /\ Serves(Files[5], p) <=> Fits(p, Of("notebooks", "$1", "export"))
    BY <1>2, FilesAre, ServesExact
  <1>4. /\ Serves(Files[6], p) <=> Len(p) >= 2 /\ p[1] = "notebooks"
        /\ Serves(Files[7], p) <=> Len(p) >= 2 /\ p[1] = "catalogs"
        /\ Serves(Files[8], p) <=> Len(p) >= 2 /\ p[1] = "admin"
    <2>1. \A k, cs : k \notin Places =>
              (Serves(File(One(k, "$1"), TRUE, cs), p) <=> Len(p) >= 2 /\ p[1] = k)
      BY ServesMore
    <2>2. /\ Files[6] = File(One("notebooks", "$1"), TRUE, Notebooks)
          /\ Files[7] = File(One("catalogs", "$1"), TRUE, Catalogs)
          /\ Files[8] = File(One("admin", "$1"), TRUE, Admin)
      BY FilesAre
    <2> QED
      BY <1>1, <2>1, <2>2
  <1> QED
    BY <1>3, <1>4

\* The cases by the first file that serves a path.
LEMMA CasesOfFile ==
    \A p :
        LET S(i) == Serves(Files[i], p) IN
        /\ S(1) => FileCases(p) = Clusters
        /\ ~S(1) /\ S(2) => FileCases(p) = Cluster
        /\ ~S(1) /\ ~S(2) /\ S(3) => FileCases(p) = ClusterPermissions
        /\ ~S(1) /\ ~S(2) /\ ~S(3) /\ S(4) => FileCases(p) = ClusterAction
        /\ ~S(1) /\ ~S(2) /\ ~S(3) /\ ~S(4) =>
               /\ S(5) => FileCases(p) = NotebookExport
               /\ ~S(5) /\ S(6) => FileCases(p) = Notebooks
               /\ ~S(5) /\ ~S(6) /\ S(7) => FileCases(p) = Catalogs
               /\ ~S(5) /\ ~S(6) /\ ~S(7) /\ S(8) => FileCases(p) = Admin
               /\ ~S(5) /\ ~S(6) /\ ~S(7) /\ ~S(8) => FileCases(p) = {}
  <1> TAKE p
  <1> DEFINE S(i) == Serves(Files[i], p)
  <1>1. (\A j \in 1 .. 8 : ~S(j)) => FileCases(p) = {}
    BY FilesAre DEF FileCases
  <1>2. \A i \in 1 .. 8 : S(i) /\ (\A j \in 1 .. i - 1 : ~S(j)) => FileCases(p) = Files[i].cases
    BY FirstFile
  <1>3. /\ Files[1].cases = Clusters /\ Files[2].cases = Cluster /\ Files[3].cases = ClusterPermissions
        /\ Files[4].cases = ClusterAction /\ Files[5].cases = NotebookExport
        /\ Files[6].cases = Notebooks /\ Files[7].cases = Catalogs /\ Files[8].cases = Admin
    BY FilesAre DEF File
  <1> HIDE DEF S
  <1>4. /\ S(1) => FileCases(p) = Clusters
        /\ ~S(1) /\ S(2) => FileCases(p) = Cluster
        /\ ~S(1) /\ ~S(2) /\ S(3) => FileCases(p) = ClusterPermissions
        /\ ~S(1) /\ ~S(2) /\ ~S(3) /\ S(4) => FileCases(p) = ClusterAction
    BY <1>2, <1>3
  <1>5. ~S(1) /\ ~S(2) /\ ~S(3) /\ ~S(4) =>
               /\ S(5) => FileCases(p) = NotebookExport
               /\ ~S(5) /\ S(6) => FileCases(p) = Notebooks
               /\ ~S(5) /\ ~S(6) /\ S(7) => FileCases(p) = Catalogs
               /\ ~S(5) /\ ~S(6) /\ ~S(7) /\ S(8) => FileCases(p) = Admin
               /\ ~S(5) /\ ~S(6) /\ ~S(7) /\ ~S(8) => FileCases(p) = {}
    BY <1>1, <1>2, <1>3
  <1> QED
    BY <1>4, <1>5 DEF S

\* The cases at each path; the lists of a catch-all have none.
LEMMA NoFile == \A k : "clusters" \notin Places \cup {k} => FileCases(All(k)) = {}
  <1> SUFFICES ASSUME NEW k, "clusters" \notin Places \cup {k} PROVE FileCases(All(k)) = {}
    OBVIOUS
  <1>1. Row(All(k)) /\ Len(All(k)) = 1
    BY Rows
  <1>2. \A i \in 1 .. 8 : ~Serves(Files[i], All(k))
    <2>1. /\ ~Fits(All(k), All("clusters")) /\ ~Fits(All(k), One("clusters", "$1"))
          /\ ~Fits(All(k), Of("clusters", "$1", "permissions"))
          /\ ~Fits(All(k), Of("clusters", "$1", "$1")) /\ ~Fits(All(k), Of("notebooks", "$1", "export"))
      BY FitsAll
    <2> DEFINE p == All(k)
    <2>3. Row(p) /\ ~(Len(p) >= 2)
      BY <1>1
    <2> HIDE DEF p
    <2>2. /\ ~Serves(Files[1], p) /\ ~Serves(Files[2], p) /\ ~Serves(Files[3], p) /\ ~Serves(Files[4], p)
          /\ ~Serves(Files[5], p) /\ ~Serves(Files[6], p) /\ ~Serves(Files[7], p) /\ ~Serves(Files[8], p)
      BY <2>1, <2>3, Served DEF p
    <2> QED
      BY <2>2 DEF p
  <1> QED
    BY <1>2, FilesAre DEF FileCases

LEMMA FilesOfClusters ==
    /\ FileCases(All("clusters")) = Clusters
    /\ \A i : FileCases(One("clusters", i)) = Cluster
    /\ \A i : FileCases(Of("clusters", i, "permissions")) = ClusterPermissions
    /\ \A i, a : a \notin Places \cup {"permissions"} => FileCases(Of("clusters", i, a)) = ClusterAction
  BY CasesOfFile, Served, FitsAll, FitsOne, FitsOf, Rows DEF Places

LEMMA FilesOfNotebooks ==
    /\ FileCases(All("notebooks")) = {}
    /\ \A i : FileCases(One("notebooks", i)) = Notebooks
    /\ \A i : FileCases(Of("notebooks", i, "export")) = NotebookExport
    /\ \A i, a : a \notin Places \cup {"export"} => FileCases(Of("notebooks", i, a)) = Notebooks
    /\ \A i, j : FileCases(Restore(i, j)) = Notebooks
  <1>1. FileCases(All("notebooks")) = {}
    BY NoFile DEF Places
  <1>2. \A i : FileCases(One("notebooks", i)) = Notebooks
    BY CasesOfFile, Served, FitsOne, Rows DEF Places
  <1>3. \A i : FileCases(Of("notebooks", i, "export")) = NotebookExport
    BY CasesOfFile, Served, FitsOf, Rows DEF Places
  <1>4. \A i, a : a \notin Places \cup {"export"} => FileCases(Of("notebooks", i, a)) = Notebooks
    BY CasesOfFile, Served, FitsOf, Rows DEF Places
  <1>5. \A i, j : FileCases(Restore(i, j)) = Notebooks
    BY CasesOfFile, Served, FitsRestore, Rows
  <1> QED
    BY <1>1, <1>2, <1>3, <1>4, <1>5

LEMMA FilesOfOthers ==
    /\ FileCases(All("catalogs")) = {}
    /\ \A i, a : FileCases(Of("catalogs", i, a)) = Catalogs
    /\ \A i, j : FileCases(Tables(i, j)) = Catalogs
    /\ \A i, j, k : FileCases(Table(i, j, k)) = Catalogs /\ FileCases(Sample(i, j, k)) = Catalogs
    /\ \A i : FileCases(One("admin", i)) = Admin /\ FileCases(Roles(i)) = Admin
  <1>1. FileCases(All("catalogs")) = {}
    BY NoFile DEF Places
  <1>2. \A i, a : FileCases(Of("catalogs", i, a)) = Catalogs
    BY CasesOfFile, Served, FitsOf, Rows DEF Places
  <1>3. \A i, j : FileCases(Tables(i, j)) = Catalogs
    BY CasesOfFile, Served, FitsTables, Rows
  <1>4. \A i, j, k : FileCases(Table(i, j, k)) = Catalogs
    BY CasesOfFile, Served, FitsTable, Rows
  <1>5. \A i, j, k : FileCases(Sample(i, j, k)) = Catalogs
    BY CasesOfFile, Served, FitsSample, Rows
  <1>6. \A i : FileCases(One("admin", i)) = Admin
    BY CasesOfFile, Served, FitsOne, Rows DEF Places
  <1>7. \A i : FileCases(Roles(i)) = Admin
    BY CasesOfFile, Served, FitsRoles, Rows
  <1> QED
    BY <1>1, <1>2, <1>3, <1>4, <1>5, <1>6, <1>7

-----------------------------------------------------------------------------
(* What is sent: the path and the verb of the request, and its fields.     *)

\* The function a case calls sends what the case is for.
Mirrors(x) == x.call # "clusterLifecycle" /\ Api[x.call] = Sends(x.verb, x.shape) /\ Plain(x.shape)

LEMMA MirrorsClusters == \A x \in Clusters \cup Cluster \cup ClusterPermissions : Mirrors(x)
  BY Shapes DEF Mirrors, Clusters, Cluster, ClusterPermissions, PermissionCases, Case, Places, Api

LEMMA MirrorsClusterAction ==
    \A x \in ClusterAction :
        /\ x.call # "clusterLifecycle" => Mirrors(x)
        /\ x.call = "clusterLifecycle" =>
               x.verb = "POST" /\ \E a : a \notin Places /\ x.shape = Of("clusters", "$1", a)
  BY Shapes DEF Mirrors, ClusterAction, Case, Places, Api

LEMMA MirrorsCatalogsAdmin == \A x \in Catalogs \cup Admin : Mirrors(x)
  BY Shapes DEF Mirrors, Catalogs, Admin, Case, Places, Api

LEMMA MirrorsNotebooks == \A x \in Notebooks \cup NotebookExport : Mirrors(x)
  BY Shapes DEF Mirrors, Notebooks, NotebookExport, PermissionCases, Case, Places, Api

\* Every case does, or starts, stops or restarts a cluster.
LEMMA EveryCase ==
    \A p : \A x \in FileCases(p) :
        Mirrors(x) \/ (x.call = "clusterLifecycle" /\ x.verb = "POST"
                       /\ \E a : a \notin Places /\ x.shape = Of("clusters", "$1", a))
  <1>1. \A p : FileCases(p) \in {Clusters, Cluster, ClusterPermissions, ClusterAction, NotebookExport,
                                 Notebooks, Catalogs, Admin, {}}
    BY CasesOfFile
  <1> QED
    BY <1>1, MirrorsClusters, MirrorsClusterAction, MirrorsCatalogsAdmin, MirrorsNotebooks

LEMMA SentMirrored ==
    ASSUME NEW q, Row(q.path), NEW x, x.verb = q.verb, Fits(q.path, x.shape), Mirrors(x)
    PROVE  Upstream(q, x).verb = q.verb /\ Upstream(q, x).path = q.path
  BY FillsBack DEF Upstream, Sends, Mirrors, Plain

\* clusterLifecycle puts the action in its path, which the case has as a fixed segment.
LEMMA SentLifecycle ==
    ASSUME NEW q, Row(q.path), NEW x, x.verb = q.verb, Fits(q.path, x.shape),
           NEW a, a \notin Places, x.shape = Of("clusters", "$1", a),
           x.call = "clusterLifecycle", x.verb = "POST"
    PROVE  Upstream(q, x).verb = q.verb /\ Upstream(q, x).path = q.path
  <1> DEFINE p == q.path
             args == [b \in {"$1", "$2"} |-> p[IF b = "$1" THEN 2 ELSE 3]]
  <1>1. p = Of("clusters", p[2], p[3])
    <2>1. Fits(p, Of("clusters", "$1", a))
      BY DEF Case
    <2>2. Len(p) = 3 /\ DOMAIN p = 1 .. 3 /\ p = [i \in 1 .. 3 |-> p[i]]
      BY <2>1, Rows DEF Fits, Row
    <2>3. "clusters" \notin Places /\ Of("clusters", "$1", a)[1] = "clusters"
      BY DEF Places, Of
    <2>4. p[1] = "clusters"
      BY <2>1, <2>2, <2>3 DEF Fits
    <2> QED
      BY <2>2, <2>4 DEF Of
  <1>2. Api["clusterLifecycle"] = Sends("POST", Of("clusters", "$1", "$2"))
    BY DEF Api
  <1>3. Fill(Of("clusters", "$1", "$2"), args) = Of("clusters", p[2], p[3])
    BY DEF Fill, Of, Places
  <1>4. Upstream(q, x).verb = "POST" /\ Upstream(q, x).path = Fill(Of("clusters", "$1", "$2"), args)
    BY <1>2 DEF Upstream, Case, Sends
  <1> QED
    BY <1>1, <1>3, <1>4 DEF Case

-----------------------------------------------------------------------------
(* Each fetch: the case it meets and the handler it comes to.              *)

\* The case finds all it needs, and hands on all there is.
HandedOn(q, x) == x.needs \subseteq q.fields /\ q.fields \subseteq x.needs \cup x.takes

\* The handler is the one meant, and is not refused a field, but for the code of run.
Meant(q, r) == r.handler = q.to /\ (q.to = "notebooks.run" \/ r.asks \subseteq q.fields)

Proper(q) ==
    /\ FileCases(q.path) # {} => Meets(q) # {}
    /\ \A x \in Meets(q) : HandedOn(q, x)
    /\ Routed(q) # {}
    /\ \A r \in Routed(q) : Meant(q, r)

LEMMA RouterParts ==
    /\ ClusterRoutes \subseteq Router /\ CatalogRoutes \subseteq Router
    /\ NotebookRoutes \subseteq Router /\ AdminRoutes \subseteq Router
    /\ ClusterGrants \subseteq Router
    /\ NotebookGrants \subseteq Router
  BY DEF Router

LEMMA ClusterFetches == \A q \in OfClusters : Proper(q)
  <1>1. \A q \in OfClusters : Meets(q) # {}
    <2>1. \A q \in OfClusters : \E x \in Clusters \cup Cluster \cup ClusterAction :
              x.verb = q.verb /\ Fits(q.path, x.shape)
      BY FitsAll, FitsOne, FitsOf DEF OfClusters, Fetch, Clusters, Cluster, ClusterAction, Case, Places
    <2>2. /\ \A x \in Clusters : x.shape = All("clusters")
          /\ \A x \in Cluster : x.shape = One("clusters", "$1")
          /\ \A x \in ClusterAction : \E a : x.shape = Of("clusters", "$1", a)
      BY DEF Clusters, Cluster, ClusterAction, Case
    <2>3. \A q \in OfClusters :
              /\ Fits(q.path, All("clusters")) => FileCases(q.path) = Clusters
              /\ Fits(q.path, One("clusters", "$1")) => FileCases(q.path) = Cluster
              /\ \A a : Fits(q.path, Of("clusters", "$1", a)) => FileCases(q.path) = ClusterAction
      BY FilesOfClusters, FitsAll, FitsOne, FitsOf DEF OfClusters, Fetch, Places
    <2> QED
      BY <2>1, <2>2, <2>3 DEF Meets
  <1>2. \A q \in OfClusters : \A x \in Meets(q) : HandedOn(q, x)
    BY FilesOfClusters, FitsAll, FitsOne, FitsOf
       DEF Meets, HandedOn, OfClusters, Fetch, Clusters, Cluster, ClusterAction, Case, Places
  <1>3. \A q \in OfClusters : Routed(q) # {}
    <2>1. \A q \in OfClusters : \E r \in ClusterRoutes : r.verb = q.verb /\ Fits(q.path, r.shape)
      BY FitsAll, FitsOne, FitsOf DEF OfClusters, Fetch, ClusterRoutes, Route, Places
    <2> QED
      BY <2>1, RouterParts DEF Routed
  <1>4. \A q \in OfClusters : \A r \in Routed(q) : Meant(q, r)
    BY FitsAll, FitsOne, FitsOf
       DEF Meant, Routed, OfClusters, Fetch, Router, ClusterRoutes, CatalogRoutes,
           NotebookRoutes, AdminRoutes, ClusterGrants, NotebookGrants, GrantRoutes, Route, Places
  <1> QED
    BY <1>1, <1>2, <1>3, <1>4 DEF Proper

LEMMA CatalogFetches == \A q \in OfCatalog : Proper(q)
  <1>1. \A q \in OfCatalog : FileCases(q.path) # {} => Meets(q) # {}
    <2>1. \A q \in OfCatalog : \/ FileCases(q.path) = {}
                               \/ FileCases(q.path) = Catalogs
      BY FilesOfOthers DEF OfCatalog, Fetch
    <2>2. \A q \in OfCatalog : \E x \in Catalogs : x.verb = q.verb /\ Fits(q.path, x.shape)
      BY FitsAll, FitsOf, FitsTables, FitsTable, FitsSample
         DEF OfCatalog, Fetch, Catalogs, Case, Places
    <2> QED
      BY <2>1, <2>2 DEF Meets
  <1>2. \A q \in OfCatalog : \A x \in Meets(q) : HandedOn(q, x)
    BY FilesOfOthers, FitsOf, FitsTables, FitsTable, FitsSample
       DEF Meets, HandedOn, OfCatalog, Fetch, Catalogs, Case, Places
  <1>3. \A q \in OfCatalog : Routed(q) # {}
    <2>1. \A q \in OfCatalog : \E r \in CatalogRoutes : r.verb = q.verb /\ Fits(q.path, r.shape)
      BY FitsAll, FitsOf, FitsTables, FitsTable, FitsSample
         DEF OfCatalog, Fetch, CatalogRoutes, Route, Places
    <2> QED
      BY <2>1, RouterParts DEF Routed
  <1>4. \A q \in OfCatalog : \A r \in Routed(q) : Meant(q, r)
    BY FitsAll, FitsOf, FitsTables, FitsTable, FitsSample
       DEF Meant, Routed, OfCatalog, Fetch, Router, ClusterRoutes, CatalogRoutes,
           NotebookRoutes, AdminRoutes, ClusterGrants, NotebookGrants, GrantRoutes, Route, Places
  <1> QED
    BY <1>1, <1>2, <1>3, <1>4 DEF Proper

LEMMA IdentityFetches == \A q \in OfIdentity : Proper(q)
  <1>1. \A q \in OfIdentity : Meets(q) # {}
    <2>1. \A q \in OfIdentity : FileCases(q.path) = Admin
      BY FilesOfOthers DEF OfIdentity, Fetch
    <2>2. \A q \in OfIdentity : \E x \in Admin : x.verb = q.verb /\ Fits(q.path, x.shape)
      BY FitsOne, FitsRoles DEF OfIdentity, Fetch, Admin, Case, Places
    <2> QED
      BY <2>1, <2>2 DEF Meets
  <1>2. \A q \in OfIdentity : \A x \in Meets(q) : HandedOn(q, x)
    BY FilesOfOthers, FitsOne, FitsRoles DEF Meets, HandedOn, OfIdentity, Fetch, Admin, Case, Places
  <1>3. \A q \in OfIdentity : Routed(q) # {}
    <2>1. \A q \in OfIdentity : \E r \in AdminRoutes : r.verb = q.verb /\ Fits(q.path, r.shape)
      BY FitsOne, FitsRoles DEF OfIdentity, Fetch, AdminRoutes, Route, Places
    <2> QED
      BY <2>1, RouterParts DEF Routed
  <1>4. \A q \in OfIdentity : \A r \in Routed(q) : Meant(q, r)
    BY FitsOne, FitsRoles
       DEF Meant, Routed, OfIdentity, Fetch, Router, ClusterRoutes, CatalogRoutes,
           NotebookRoutes, AdminRoutes, ClusterGrants, NotebookGrants, GrantRoutes, Route, Places
  <1> QED
    BY <1>1, <1>2, <1>3, <1>4 DEF Proper

LEMMA NotebookFetch == \A id : \A q \in OfNotebook(id) : Proper(q)
  <1>1. \A id : \A q \in OfNotebook(id) : Meets(q) # {}
    <2>1. \A id : \A q \in OfNotebook(id) :
              FileCases(q.path) =
                  IF q.path = Of("notebooks", id, "export") THEN NotebookExport ELSE Notebooks
      BY FilesOfNotebooks DEF OfNotebook, Fetch, Places
    <2>2. \A id : \A q \in OfNotebook(id) : q.path = Of("notebooks", id, "export") =>
              \E x \in NotebookExport : x.verb = q.verb /\ Fits(q.path, x.shape)
      BY FitsOf, FitsOne, FitsRestore DEF OfNotebook, Fetch, NotebookExport, Case, Places
    <2>3. \A id : \A q \in OfNotebook(id) : q.path # Of("notebooks", id, "export") =>
              \E x \in Notebooks : x.verb = q.verb /\ Fits(q.path, x.shape)
      <3>1. \A id : /\ Fits(One("notebooks", id), One("notebooks", "$1"))
                    /\ \A a : Fits(Of("notebooks", id, a), Of("notebooks", "$1", a))
                    /\ \A rev : Fits(Restore(id, rev), Restore("$1", "$2"))
        BY FitsOne, FitsOf, FitsRestore DEF Places
      <3>2. /\ Case("GET", One("notebooks", "$1"), "getNotebook", {}, {}) \in Notebooks
            /\ Case("PUT", One("notebooks", "$1"), "saveNotebook", {"content"}, {}) \in Notebooks
            /\ Case("DELETE", One("notebooks", "$1"), "trashNotebook", {}, {}) \in Notebooks
            /\ Case("GET", Of("notebooks", "$1", "revisions"), "listRevisions", {}, {}) \in Notebooks
            /\ Case("POST", Of("notebooks", "$1", "revisions"), "saveRevision", {}, {"message"})
                   \in Notebooks
            /\ Case("POST", Restore("$1", "$2"), "restoreRevision", {}, {}) \in Notebooks
            /\ Case("POST", Of("notebooks", "$1", "attach"), "attachNotebook", {"cluster_id"}, {})
                   \in Notebooks
            /\ Case("POST", Of("notebooks", "$1", "run"), "runCell", {}, {"cell_id"}) \in Notebooks
        BY DEF Notebooks
      <3>3. \A verb, shape, call, needs, takes :
                LET x == Case(verb, shape, call, needs, takes) IN x.verb = verb /\ x.shape = shape
        BY DEF Case
      <3> QED
        BY <3>1, <3>2, <3>3 DEF OfNotebook, Fetch
    <2> QED
      BY <2>1, <2>2, <2>3 DEF Meets
  <1>2. \A id : \A q \in OfNotebook(id) : \A x \in Meets(q) : HandedOn(q, x)
    BY FilesOfNotebooks, FitsOne, FitsOf, FitsRestore
       DEF Meets, HandedOn, OfNotebook, Fetch, Notebooks, NotebookExport, PermissionCases, Case, Places
  <1>3. \A id : \A q \in OfNotebook(id) : Routed(q) # {}
    <2>1. \A id : \A q \in OfNotebook(id) :
              \E r \in NotebookRoutes : r.verb = q.verb /\ Fits(q.path, r.shape)
      BY FitsOne, FitsOf, FitsRestore DEF OfNotebook, Fetch, NotebookRoutes, Route, Places
    <2> QED
      BY <2>1, RouterParts DEF Routed
  <1>4. \A id : \A q \in OfNotebook(id) : \A r \in Routed(q) : Meant(q, r)
    BY FitsOne, FitsOf, FitsRestore
       DEF Meant, Routed, OfNotebook, Fetch, Router, ClusterRoutes, CatalogRoutes,
           NotebookRoutes, AdminRoutes, ClusterGrants, NotebookGrants, GrantRoutes, Route, Places
  <1> QED
    BY <1>1, <1>2, <1>3, <1>4 DEF Proper

LEMMA NotebookFetches == \A q \in OfNotebooks : Proper(q)
  <1> DEFINE lists == {Fetch("notebooks.list", "GET", All("notebooks"), {}),
                    Fetch("notebooks.create", "POST", All("notebooks"), {"name", "path"})}
  <1>1. \A q \in lists : FileCases(q.path) = {} /\ Meets(q) = {}
    BY FilesOfNotebooks DEF Meets, Fetch
  <1>2. \A q \in lists : Routed(q) # {}
    <2>1. \A q \in lists : \E r \in NotebookRoutes : r.verb = q.verb /\ Fits(q.path, r.shape)
      BY FitsAll DEF Fetch, NotebookRoutes, Route, Places
    <2> QED
      BY <2>1, RouterParts DEF Routed
  <1>3. \A q \in lists : \A r \in Routed(q) : Meant(q, r)
    BY FitsAll
       DEF Meant, Routed, Fetch, Router, ClusterRoutes, CatalogRoutes,
           NotebookRoutes, AdminRoutes, ClusterGrants, NotebookGrants, GrantRoutes, Route, Places
  <1>4. OfNotebooks = lists \cup UNION {OfNotebook(id) : id \in Segments}
    BY DEF OfNotebooks
  <1> HIDE DEF lists
  <1>5. \A q \in lists : Proper(q)
    BY <1>1, <1>2, <1>3 DEF Proper
  <1> QED
    BY <1>4, <1>5, NotebookFetch

LEMMA GrantFetches == \A q \in OfClusterGrants \cup OfNotebookGrants : Proper(q)
  <1>1. \A q \in OfClusterGrants \cup OfNotebookGrants : Meets(q) # {}
    <2>1. /\ \A q \in OfClusterGrants : FileCases(q.path) = ClusterPermissions
          /\ \A q \in OfNotebookGrants : FileCases(q.path) = Notebooks
      BY FilesOfClusters, FilesOfNotebooks DEF OfClusterGrants, OfNotebookGrants, OfGrants, Fetch, Places
    <2>2. \A q \in OfClusterGrants :
              \E x \in ClusterPermissions : x.verb = q.verb /\ Fits(q.path, x.shape)
      BY FitsOf DEF OfClusterGrants, OfGrants, Fetch, ClusterPermissions, PermissionCases, Case, Places
    <2>3. \A q \in OfNotebookGrants :
              \E x \in Notebooks : x.verb = q.verb /\ Fits(q.path, x.shape)
      BY FitsOf DEF OfNotebookGrants, OfGrants, Fetch, Notebooks, PermissionCases, Case, Places
    <2> QED
      BY <2>1, <2>2, <2>3 DEF Meets
  <1>2. \A q \in OfClusterGrants \cup OfNotebookGrants : \A x \in Meets(q) : HandedOn(q, x)
    <2>1. \A q \in OfClusterGrants : \A x \in Meets(q) : HandedOn(q, x)
      BY FilesOfClusters, FitsOf
         DEF Meets, HandedOn, OfClusterGrants, OfGrants, Who, Fetch,
             ClusterPermissions, PermissionCases, Case, Places
    <2>2. \A q \in OfNotebookGrants : \A x \in Meets(q) : HandedOn(q, x)
      BY FilesOfNotebooks, FitsOf
         DEF Meets, HandedOn, OfNotebookGrants, OfGrants, Who, Fetch,
             Notebooks, PermissionCases, Case, Places
    <2> QED
      BY <2>1, <2>2
  <1>3. \A q \in OfClusterGrants \cup OfNotebookGrants : Routed(q) # {}
    <2>1. \A q \in OfClusterGrants : \E r \in ClusterGrants : r.verb = q.verb /\ Fits(q.path, r.shape)
      BY FitsOf DEF OfClusterGrants, OfGrants, Fetch, ClusterGrants, GrantRoutes, Route, Places
    <2>2. \A q \in OfNotebookGrants : \E r \in NotebookGrants : r.verb = q.verb /\ Fits(q.path, r.shape)
      BY FitsOf DEF OfNotebookGrants, OfGrants, Fetch, NotebookGrants, GrantRoutes, Route, Places
    <2> QED
      BY <2>1, <2>2, RouterParts DEF Routed
  <1>4. \A q \in OfClusterGrants \cup OfNotebookGrants : \A r \in Routed(q) : Meant(q, r)
    <2>1. \A q \in OfClusterGrants : \A r \in Routed(q) : Meant(q, r)
      BY FitsOf
         DEF Meant, Routed, OfClusterGrants, OfGrants, Fetch, Router, ClusterRoutes, CatalogRoutes,
             NotebookRoutes, AdminRoutes, ClusterGrants, NotebookGrants, GrantRoutes, Route, Places
    <2>2. \A q \in OfNotebookGrants : \A r \in Routed(q) : Meant(q, r)
      BY FitsOf
         DEF Meant, Routed, OfNotebookGrants, OfGrants, Fetch, Router, ClusterRoutes, CatalogRoutes,
             NotebookRoutes, AdminRoutes, ClusterGrants, NotebookGrants, GrantRoutes, Route, Places
    <2> QED
      BY <2>1, <2>2
  <1> QED
    BY <1>1, <1>2, <1>3, <1>4 DEF Proper

LEMMA FetchesProper == \A q \in Fetches : Proper(q)
  BY ClusterFetches, CatalogFetches, NotebookFetches, IdentityFetches, GrantFetches DEF Fetches

LEMMA FetchRows == \A q \in Fetches : Row(q.path)
  <1>1. \A q \in OfClusters : Row(q.path)
    BY Rows DEF OfClusters, Fetch
  <1>2. \A q \in OfCatalog : Row(q.path)
    BY Rows DEF OfCatalog, Fetch
  <1>3. \A id : \A q \in OfNotebook(id) : Row(q.path)
    BY Rows DEF OfNotebook, Fetch
  <1>4. \A q \in OfNotebooks : Row(q.path)
    BY <1>3, Rows DEF OfNotebooks, Fetch
  <1>5. \A q \in OfIdentity : Row(q.path)
    BY Rows DEF OfIdentity, Fetch
  <1>6. \A kind, list, grant, revoke : \A q \in OfGrants(kind, list, grant, revoke) : Row(q.path)
    BY Rows DEF OfGrants, Fetch
  <1> QED
    BY <1>1, <1>2, <1>4, <1>5, <1>6 DEF Fetches, OfClusterGrants, OfNotebookGrants

LEMMA SentOn ==
    ASSUME NEW q \in Fetches, NEW x \in Meets(q)
    PROVE  /\ Upstream(q, x).verb = q.verb /\ Upstream(q, x).path = q.path
           /\ q.fields \subseteq Upstream(q, x).fields
  <1>1. Row(q.path) /\ x \in FileCases(q.path) /\ x.verb = q.verb /\ Fits(q.path, x.shape)
    BY FetchRows DEF Meets
  <1>2. Upstream(q, x).verb = q.verb /\ Upstream(q, x).path = q.path
    BY <1>1, EveryCase, SentMirrored, SentLifecycle
  <1>3. q.fields \subseteq x.needs \cup x.takes
    BY FetchesProper DEF Proper, HandedOn
  <1>4. q.fields \subseteq Upstream(q, x).fields
    BY <1>3 DEF Upstream
  <1> QED
    BY <1>2, <1>4

\* HandledAsMeant for one request.
Delivered(q, up) ==
    /\ {r.handler : r \in Routed(up)} = {q.to}
    /\ up.path = q.path
    /\ \A r \in Routed(up) :
           /\ q.to = "notebooks.run" \/ r.asks \subseteq up.fields
           /\ r.reads \cap q.fields \subseteq up.fields

LEMMA FetchDelivered ==
    ASSUME NEW q \in Fetches, NEW x \in Meets(q)
    PROVE  Delivered(q, Upstream(q, x))
  <1> DEFINE up == Upstream(q, x)
  <1>1. up.verb = q.verb /\ up.path = q.path /\ q.fields \subseteq up.fields
    BY SentOn
  <1> HIDE DEF up
  <1>2. Routed(up) = Routed(q)
    BY <1>1 DEF Routed
  <1>3. Routed(q) # {} /\ \A r \in Routed(q) : Meant(q, r)
    BY FetchesProper DEF Proper
  <1>4. {r.handler : r \in Routed(q)} = {q.to}
    BY <1>3 DEF Meant
  <1>5. \A r \in Routed(q) : /\ q.to = "notebooks.run" \/ r.asks \subseteq up.fields
                             /\ r.reads \cap q.fields \subseteq up.fields
    BY <1>1, <1>3 DEF Meant
  <1>6. Delivered(q, up)
    BY <1>1, <1>2, <1>4, <1>5 DEF Delivered
  <1> QED
    BY <1>6 DEF up

-----------------------------------------------------------------------------
(* Requests at work.                                                       *)

\* A request on its way to the API is as the fetch meant it; one the proxy
\* refuses is one that no file serves.
Handled(r) ==
    /\ r.stage = "up" => Delivered(r.q, r.up)
    /\ r.stage = "done" /\ r.status \in {"unknown", "invalid"} => r.q \in Unserved

AllHandled == \A s \in Slots : reqs[s] # Idle => Handled(reqs[s])

\* A step of one slot is a step of its request.
LEMMA OneHandled ==
    ASSUME ProxyInv, AllHandled, NEW s \in Slots, NEW r, reqs' = [reqs EXCEPT ![s] = r],
           r = Idle \/ Handled(r)
    PROVE  AllHandled'
  BY DEF ProxyInv, AllHandled, Handled

\* A request that is answered, but as unknown or incomplete.
LEMMA AnswerHandled ==
    ASSUME ProxyInv, AllHandled, NEW s \in Slots, reqs[s] \in Request, NEW status, Answered(s, status),
           status \in {"unknown", "invalid"} => reqs[s].q \in Unserved
    PROVE  AllHandled'
  <1> DEFINE new == [reqs[s] EXCEPT !.stage = "done", !.status = status, !.since = 0]
  <1>1. reqs' = [reqs EXCEPT ![s] = new]
    BY DEF Answered, ProxyInv
  <1>2. new.stage = "done" /\ new.status = status /\ new.q = reqs[s].q
    BY DEF Request
  <1> HIDE DEF new
  <1>3. Handled(new)
    BY <1>2 DEF Handled
  <1> QED
    BY <1>1, <1>3, OneHandled

LEMMA SendHandled ==
    ASSUME ProxyInv, AllHandled, NEW s \in Slots, NEW q \in Fetches, Send(s, q)
    PROVE  AllHandled'
  <1> DEFINE new == [q |-> q, jwt |-> cookie, fresh |-> FALSE, since |-> 0, up |-> None,
                     stage |-> IF FileCases(q.path) = {} THEN "done" ELSE "sent",
                     status |-> IF FileCases(q.path) = {} THEN "unknown" ELSE "none"]
  <1>1. reqs' = [reqs EXCEPT ![s] = new]
    BY DEF Send
  <1>2. Handled(new)
    BY DEF Handled, Unserved
  <1> QED
    BY <1>1, <1>2, OneHandled

LEMMA AuthenticateHandled ==
    ASSUME ProxyInv, AllHandled, NEW s \in Slots, Authenticate(s)
    PROVE  AllHandled'
  <1>1. reqs[s] \in Request
    BY Asked DEF Authenticate, Stages
  <1>2. CASE Answered(s, "signed_out")
    BY <1>1, <1>2, AnswerHandled
  <1>3. ASSUME NEW stage \in {"authed", "refresh"},
               reqs' = [reqs EXCEPT ![s].since = now, ![s].stage = stage]
        PROVE  AllHandled'
    <2> DEFINE new == [reqs[s] EXCEPT !.since = now, !.stage = stage]
    <2>1. reqs' = [reqs EXCEPT ![s] = new]
      BY <1>3 DEF ProxyInv
    <2>2. new.stage \in {"authed", "refresh"}
      BY <1>1 DEF Request
    <2> HIDE DEF new
    <2>3. Handled(new)
      BY <2>2 DEF Handled
    <2> QED
      BY <2>1, <2>3, OneHandled
  <1> QED
    BY <1>2, <1>3 DEF Authenticate

LEMMA RefreshHandled ==
    ASSUME ProxyInv, AllHandled, NEW s \in Slots, Refresh(s)
    PROVE  AllHandled'
  <1>1. reqs[s] \in Request
    BY Asked DEF Refresh, Stages
  <1>2. ASSUME NEW token, NEW fresh,
               reqs' = [reqs EXCEPT ![s].stage = "authed", ![s].since = now,
                                    ![s].jwt = token, ![s].fresh = fresh]
        PROVE  AllHandled'
    <2> DEFINE new == [reqs[s] EXCEPT !.stage = "authed", !.since = now, !.jwt = token, !.fresh = fresh]
    <2>1. reqs' = [reqs EXCEPT ![s] = new]
      BY <1>2 DEF ProxyInv
    <2>2. new.stage = "authed"
      BY <1>1 DEF Request
    <2> HIDE DEF new
    <2>3. Handled(new)
      BY <2>2 DEF Handled
    <2> QED
      BY <2>1, <2>3, OneHandled
  <1> QED
    BY <1>2 DEF Refresh

\* The case a request meets finds all it needs, and sends it on as it was; where a
\* request meets none, there is no file.
LEMMA ForwardHandled ==
    ASSUME ProxyInv, AllHandled, NEW s \in Slots, Forward(s)
    PROVE  AllHandled'
  <1> DEFINE q == reqs[s].q
  <1>1. reqs[s] \in Request
    BY Asked DEF Forward, Stages
  <1>2. q \in Fetches
    BY <1>1 DEF Request
  <1>3. CASE Meets(q) = {} /\ Answered(s, "unknown")
    <2>1. q \in Unserved
      BY <1>2, <1>3, FetchesProper DEF Proper, Unserved
    <2> QED
      BY <1>1, <1>3, <2>1, AnswerHandled
  <1>4. ASSUME NEW x \in Meets(q), ~(x.needs \subseteq q.fields)
        PROVE  FALSE
    BY <1>2, <1>4, FetchesProper DEF Proper, HandedOn
  <1>5. ASSUME NEW x \in Meets(q), reqs' = [reqs EXCEPT ![s].stage = "up", ![s].up = Upstream(q, x)]
        PROVE  AllHandled'
    <2> DEFINE up == Upstream(q, x)
               new == [reqs[s] EXCEPT !.stage = "up", !.up = up]
    <2>1. Delivered(q, up)
      BY <1>2, FetchDelivered
    <2> HIDE DEF up
    <2>2. reqs' = [reqs EXCEPT ![s] = new]
      BY <1>5 DEF ProxyInv, up
    <2>3. new.stage = "up" /\ new.up = up /\ new.q = q
      BY <1>1 DEF Request
    <2> HIDE DEF new
    <2>4. Handled(new)
      BY <2>1, <2>3 DEF Handled
    <2> QED
      BY <2>2, <2>4, OneHandled
  <1>6. \/ Meets(q) = {} /\ Answered(s, "unknown")
        \/ \E x \in Meets(q) : ~(x.needs \subseteq q.fields)
        \/ \E x \in Meets(q) : reqs' = [reqs EXCEPT ![s].stage = "up", ![s].up = Upstream(q, x)]
    BY DEF Forward
  <1> QED
    BY <1>3, <1>4, <1>5, <1>6

LEMMA ServeApiHandled ==
    ASSUME ProxyInv, AllHandled, NEW s \in Slots, ServeApi(s)
    PROVE  AllHandled'
  <1>1. reqs[s] \in Request
    BY Asked DEF ServeApi, Stages
  <1>2. \E status \in {"denied", "ok", "refused", "failed"} : Answered(s, status)
    BY DEF ServeApi
  <1> QED
    BY <1>1, <1>2, AnswerHandled

LEMMA HandledKept ==
    ASSUME ProxyInv, AllHandled, [Next]_vars
    PROVE  AllHandled'
  <1>1. CASE UNCHANGED reqs
    BY <1>1 DEF AllHandled, Handled
  <1>2. ASSUME NEW s \in Slots, Answer(s)
        PROVE  AllHandled'
    BY <1>2, OneHandled DEF Answer
  <1> QED
    BY <1>1, <1>2, SendHandled, AuthenticateHandled, RefreshHandled, ForwardHandled, ServeApiHandled
       DEF Next, vars, SignIn, Tick

-----------------------------------------------------------------------------
(* Theorems.                                                               *)

\* The types; Keycloak is never asked for more new tokens than the clock counts.
THEOREM ProxyTyped == Spec => []TypeOK
  <1>1. ProxyInv => TypeOK
    BY Bounds DEF ProxyInv, TypeOK, Made, Busy, RequestOK, Request
  <1> QED
    BY <1>1, ProxyHolds, PTL

\* The API finds a token expired only if it could not be refreshed: whatever the
\* margin of jwtCallback is, it covers the way from there to the API's check, and
\* what the API's clock is ahead, if it is as long as both together (jwtCallback,
\* refreshAccessToken).
THEOREM DeniedOnlyUnrefreshed == Spec => []DeniedUnrefreshed
  <1>1. ProxyInv => DeniedUnrefreshed
    BY DEF ProxyInv, DeniedUnrefreshed, Busy, At, RequestOK
  <1> QED
    BY <1>1, ProxyHolds, PTL

\* While nothing is under way the refresh token of the cookie is the one Keycloak
\* accepts, unless a refresh ran beside another request, or its outcome was lost
\* or not stored (refreshAccessToken).
THEOREM SessionIsKept == Spec => []SignedInUnlessRaced
  <1>1. SessionKept => SignedInUnlessRaced
    BY DEF SessionKept, SignedInUnlessRaced, Busy, Fresh
  <1> QED
    BY <1>1, ProxyHolds, PTL

\* Every request of the UI comes to the one handler of the API it is meant for, at
\* the path it names and with the fields that handler asks for (but run's code),
\* and the proxy refuses only what no file serves: whatever the ids are, through
\* the files of app/api, api.ts and router.go.
THEOREM RequestsAreHandledAsMeant == Spec => []HandledAsMeant
  <1>1. Init => AllHandled
    BY DEF Init, AllHandled
  <1>2. ProxyInv /\ AllHandled /\ [Next]_vars => AllHandled'
    BY HandledKept
  <1>3. AllHandled => HandledAsMeant
    BY DEF AllHandled, Handled, Delivered, HandledAsMeant, Busy, At
  <1> QED
    BY <1>1, <1>2, <1>3, ProxyHolds, PTL DEF Spec
=============================================================================
