------------------------- MODULE ProtectedRouteProofs -------------------------
(***************************************************************************)
(* Proofs about bearer tokens and the protected route, for any number of   *)
(* requests and visits, any lifetime and any clock.                        *)
(***************************************************************************)
EXTENDS ProtectedRoute, AuthOutcomeProofs

USE RequestAssumption, ValueAssumption, BodyAssumption, ClockAssumption,
    HeaderAssumption

-----------------------------------------------------------------------------
(* The lifetime in ticks.                                                  *)

Lifetime == ExpireSeconds * Second

(***************************************************************************)
(* The end of a token, cut to a whole second.                              *)
(***************************************************************************)
Expiry(at) == Unix(at + Lifetime) * Second

(***************************************************************************)
(* Cutting takes off less than a second.                                   *)
(***************************************************************************)
LEMMA ExpiryIsCut ==
  ASSUME NEW at \in Int
  PROVE  /\ Expiry(at) \in Int /\ Lifetime \in Int
         /\ Expiry(at) <= at + Lifetime
         /\ at + Lifetime < Expiry(at) + Second
         /\ (ExpireSeconds - 1) * Second = Lifetime - Second
<1>1. Lifetime \in Int /\ (ExpireSeconds - 1) * Second = Lifetime - Second
  BY DEF Lifetime
<1>2. PICK x \in Int : x = at + Lifetime
  BY <1>1
<1>3. /\ (x \div Second) * Second <= x
      /\ x < (x \div Second) * Second + Second
      /\ (x \div Second) * Second \in Int
  BY <1>2
<1> QED
  BY <1>1, <1>2, <1>3 DEF Expiry, Unix

(***************************************************************************)
(* What a refusal says, and a welcome.                                     *)
(***************************************************************************)
LEMMA RefusalFacts ==
  /\ Refusal("missing bearer token").status = 401
  /\ Refusal("invalid token").status = 401
  BY DEF Refusal

(***************************************************************************)
(* What a welcome says.                                                    *)
(***************************************************************************)
LEMMA WelcomeFacts ==
  \A user : Welcome(user).status = 200 /\ Welcome(user).username = user
  BY DEF Welcome

-----------------------------------------------------------------------------
(* The invariant.                                                          *)

(***************************************************************************)
(* A token was made, not in the future, for a login: it names the user of  *)
(* the login, and its end counts from the making.                          *)
(***************************************************************************)
TokenInv ==
  /\ now \in Int
  /\ \A v \in Verifies :
       /\ issuedAt[v] \in Int
       /\ token[v] # None =>
            /\ Granted(v)
            /\ token[v] = [sub |-> body[v].username,
                           exp |-> Unix(issuedAt[v] + Lifetime)]

(***************************************************************************)
(* A visit that was welcomed carried such a token, in time; one that was   *)
(* refused although it carried one came too late.                          *)
(***************************************************************************)
Judged(m) ==
  /\ reply[m].status = 200 => visit[m].header \in Verifies
  /\ visit[m].header \in Verifies =>
       /\ Granted(visit[m].header)
       /\ reply[m].status = 200 =>
            /\ reply[m].username = body[visit[m].header].username
            /\ Age(m) < Lifetime
       /\ reply[m].status = 401 => Age(m) > Lifetime - Second

Replies == {Refusal(message) : message \in {"missing bearer token", "invalid token"}}
           \cup {Welcome(user) : user \in Usernames}

VisitInv ==
  /\ reply \in [Visits -> Replies \cup {None}]
  /\ visit \in [Visits -> [header : Headers, at : Int] \cup {None}]
  /\ \A m \in Visits : reply[m] # None => Judged(m)

RouteInv == Inv /\ OutcomeInv /\ TokenInv /\ VisitInv

-----------------------------------------------------------------------------
(* Each step preserves it.                                                 *)

(***************************************************************************)
(* A login stays what it is.                                               *)
(***************************************************************************)
LEMMA GrantStays ==
  ASSUME Inv, AnswerInv, [Next]_vars, NEW v \in Verifies, Granted(v)
  PROVE  Granted(v)' /\ body'[v] = body[v]
<1>1. Kept /\ v \in Requests /\ body[v] # None
  BY NextKeeps DEF Inv, HolderInv, Holds, Requests
<1> QED
  BY <1>1, ReasonFacts DEF Kept, Granted

(***************************************************************************)
(* A step of the core makes tokens for the logins it grants, and leaves    *)
(* those of earlier logins and the visits alone.                           *)
(***************************************************************************)
LEMMA ServeInv ==
  ASSUME RouteInv, Serve
  PROVE  RouteInv'
<1>1. Inv /\ OutcomeInv /\ AnswerInv /\ [Next]_vars /\ Inv' /\ OutcomeInv'
  BY NextInv, NextOutcome DEF RouteInv, Serve, OutcomeInv
<1>2. /\ UNCHANGED <<now, reply, visit>>
      /\ \A v \in Verifies :
           \/ /\ ~Granted(v) /\ Granted(v)'
              /\ token'[v] = CreateToken(body[v].username) /\ issuedAt'[v] = now
           \/ /\ Granted(v) \/ ~Granted(v)'
              /\ token'[v] = token[v] /\ issuedAt'[v] = issuedAt[v]
  BY DEF Serve
<1>3. TokenInv'
  <2> SUFFICES ASSUME NEW v \in Verifies
               PROVE  /\ issuedAt'[v] \in Int
                      /\ token'[v] # None =>
                           /\ Granted(v)'
                           /\ token'[v] = [sub |-> body'[v].username,
                                           exp |-> Unix(issuedAt'[v] + Lifetime)]
    BY <1>2 DEF RouteInv, TokenInv, Unix
  <2>1. CASE Granted(v)
    BY <1>1, <1>2, <2>1, GrantStays DEF RouteInv, TokenInv
  <2>2. CASE ~Granted(v) /\ Granted(v)'
    <3>1. TakeChallenge(v) \/ CheckProof(v)
      BY <1>1, <2>2, OutcomeSteps DEF Granted, Inv, Requests
    <3>2. body' = body
      BY <3>1 DEF TakeChallenge, CheckProof
    <3> QED
      BY <1>2, <2>2, <3>2 DEF CreateToken, Lifetime, RouteInv, TokenInv
  <2>3. CASE ~Granted(v) /\ ~Granted(v)'
    BY <1>2, <2>3 DEF RouteInv, TokenInv
  <2> QED
    BY <2>1, <2>2, <2>3
<1>4. VisitInv'
  <2> SUFFICES ASSUME NEW m \in Visits, reply[m] # None
               PROVE  Judged(m)'
    BY <1>2 DEF RouteInv, VisitInv
  <2>1. Judged(m)
    BY DEF RouteInv, VisitInv
  <2>2. CASE visit[m].header \notin Verifies
    BY <1>2, <2>1, <2>2 DEF Judged
  <2>3. CASE visit[m].header \in Verifies
    <3>1. PICK v \in Verifies : v = visit[m].header
      BY <2>3
    <3>2. Granted(v)
      BY <2>1, <3>1 DEF Judged
    <3>3. Granted(v)' /\ body'[v] = body[v] /\ issuedAt'[v] = issuedAt[v]
      BY <1>1, <1>2, <3>2, GrantStays
    <3>4. Age(m)' = Age(m)
      BY <1>2, <3>1, <3>3 DEF Age
    <3> QED
      BY <1>2, <2>1, <3>1, <3>3, <3>4 DEF Judged, Lifetime
  <2> QED
    BY <2>2, <2>3
<1> QED
  BY <1>1, <1>3, <1>4 DEF RouteInv

(***************************************************************************)
(* A visit is judged by the token it carries and the time it comes.        *)
(***************************************************************************)
LEMMA MeInv ==
  ASSUME RouteInv, NEW m \in Visits, NEW header \in Headers, Me(m, header)
  PROVE  RouteInv'
<1>1. UNCHANGED <<vars, now, token, issuedAt>>
  BY DEF Me
<1>2. Inv' /\ OutcomeInv' /\ \A v \in Verifies : Granted(v)' <=> Granted(v)
  BY <1>1, NextInv, NextOutcome DEF RouteInv, Granted, vars
<1>3. TokenInv'
  BY <1>1, <1>2 DEF RouteInv, TokenInv, vars
<1>4. ASSUME header \in Verifies
      PROVE  /\ Granted(header) /\ body[header].username \in Usernames
             /\ token[header] = [sub |-> body[header].username,
                                 exp |-> Unix(issuedAt[header] + Lifetime)]
             /\ issuedAt[header] \in Int
  <2>1. token[header] # None
    BY <1>4 DEF Me
  <2>2. /\ Granted(header) /\ issuedAt[header] \in Int
        /\ token[header] = [sub |-> body[header].username,
                            exp |-> Unix(issuedAt[header] + Lifetime)]
    BY <1>4, <2>1 DEF RouteInv, TokenInv
  <2>3. body[header].username \in Usernames
    BY <1>4, <2>2, HolderFacts DEF RouteInv
  <2> QED
    BY <2>2, <2>3
<1>5. /\ AuthMiddleware(header) \in Replies
      /\ reply'[m] = AuthMiddleware(header)
      /\ visit'[m] = [header |-> header, at |-> now]
      /\ \A n \in Visits : n # m => reply'[n] = reply[n] /\ visit'[n] = visit[n]
      /\ reply' \in [Visits -> Replies \cup {None}]
      /\ visit' \in [Visits -> [header : Headers, at : Int] \cup {None}]
  <2>1. header \in Verifies => token[header].sub \in Usernames
    BY <1>4
  <2>2. AuthMiddleware(header) \in Replies
    BY <2>1 DEF AuthMiddleware, ParseToken, Replies
  <2>3. now \in Int
    BY DEF RouteInv, TokenInv
  <2> QED
    BY <2>2, <2>3 DEF Me, RouteInv, VisitInv
<1>6. Judged(m)'
  <2>1. CASE header \notin Verifies
    <3>1. ParseToken(header) = None
      BY <2>1 DEF ParseToken
    <3>2. reply'[m] \in {Refusal("missing bearer token"), Refusal("invalid token")}
      BY <1>5, <3>1 DEF AuthMiddleware
    <3>3. reply'[m].status = 401
      BY <3>2, RefusalFacts
    <3> QED
      BY <1>5, <2>1, <3>3 DEF Judged
  <2>2. CASE header \in Verifies
    <3>1. PICK at \in Int : at = issuedAt[header]
      BY <1>4, <2>2
    <3>2. /\ Granted(header) /\ now \in Int
          /\ token[header].sub = body[header].username
          /\ token[header].exp * Second = Expiry(at)
      BY <1>4, <2>2, <3>1 DEF RouteInv, TokenInv, Expiry
    <3>3. body[header].username \in Usernames
      BY <1>4, <2>2
    <3>4. Age(m)' = now - at
      BY <1>1, <1>5, <3>1 DEF Age
    <3>5. InTime(token[header]) <=> now < Expiry(at)
      BY <3>2 DEF InTime
    <3>6. CASE now < Expiry(at)
      <4>1. reply'[m] = Welcome(body[header].username)
        BY <1>5, <2>2, <3>2, <3>3, <3>5, <3>6 DEF AuthMiddleware, ParseToken, NoToken
      <4>2. now - at < Lifetime
        BY <3>1, <3>2, <3>6, ExpiryIsCut
      <4>3. /\ reply'[m].status = 200
            /\ reply'[m].username = body'[header].username
        BY <1>1, <4>1, WelcomeFacts DEF vars
      <4>4. visit'[m].header = header /\ Granted(header)' /\ Lifetime' = Lifetime
        BY <1>2, <1>5, <2>2, <3>2 DEF Lifetime
      <4> QED
        BY <2>2, <3>4, <4>2, <4>3, <4>4 DEF Judged
    <3>7. CASE ~(now < Expiry(at))
      <4>1. reply'[m] = Refusal("invalid token")
        BY <1>5, <2>2, <3>5, <3>7 DEF AuthMiddleware, ParseToken, NoToken
      <4>2. now - at > Lifetime - Second
        BY <3>1, <3>2, <3>7, ExpiryIsCut
      <4>3. reply'[m].status = 401
        BY <4>1, RefusalFacts
      <4>4. visit'[m].header = header /\ Granted(header)' /\ Lifetime' = Lifetime
        BY <1>2, <1>5, <2>2, <3>2 DEF Lifetime
      <4> QED
        BY <2>2, <3>4, <4>2, <4>3, <4>4 DEF Judged
    <3> QED
      BY <3>6, <3>7
  <2> QED
    BY <2>1, <2>2
<1>7. ASSUME NEW n \in Visits, n # m, reply[n] # None
      PROVE  Judged(n)'
  <2>1. Judged(n)
    BY <1>7 DEF RouteInv, VisitInv
  <2> QED
    BY <1>1, <1>2, <1>5, <1>7, <2>1 DEF Judged, Age, vars, Lifetime
<1>8. VisitInv'
  BY <1>5, <1>6, <1>7 DEF VisitInv
<1> QED
  BY <1>2, <1>3, <1>8 DEF RouteInv

(***************************************************************************)
(* Time changes no token, and no answer that was given.                    *)
(***************************************************************************)
LEMMA TickInv ==
  ASSUME RouteInv, Tick
  PROVE  RouteInv'
<1>1. /\ UNCHANGED <<vars, token, reply, issuedAt, visit>>
      /\ now' = now + 1
  BY DEF Tick
<1>2. Inv' /\ OutcomeInv' /\ \A v \in Verifies : Granted(v)' <=> Granted(v)
  BY <1>1, NextInv, NextOutcome DEF RouteInv, Granted, vars
<1>3. TokenInv'
  BY <1>1, <1>2 DEF RouteInv, TokenInv, vars
<1>4. VisitInv'
  BY <1>1, <1>2 DEF RouteInv, VisitInv, Judged, Age, vars
<1> QED
  BY <1>2, <1>3, <1>4 DEF RouteInv

(***************************************************************************)
(* The invariant holds in every run.                                       *)
(***************************************************************************)
THEOREM RouteInvariance == RouteSpec => []RouteInv
<1>1. RouteInit => RouteInv
  <2> SUFFICES ASSUME RouteInit PROVE RouteInv
    OBVIOUS
  <2>1. Init
    BY DEF RouteInit
  <2>2. TokenInv
    BY DEF RouteInit, TokenInv
  <2>3. VisitInv
    BY DEF RouteInit, VisitInv
  <2> QED
    BY <2>1, <2>2, <2>3, InitInv, InitOutcome DEF RouteInv
<1>2. RouteInv /\ [RouteNext]_routeVars => RouteInv'
  <2> SUFFICES ASSUME RouteInv, [RouteNext]_routeVars PROVE RouteInv'
    OBVIOUS
  <2>1. CASE UNCHANGED routeVars
    <3>1. UNCHANGED vars /\ UNCHANGED tokens
      BY <2>1 DEF routeVars
    <3>2. Inv' /\ OutcomeInv' /\ \A v \in Verifies : Granted(v)' <=> Granted(v)
      BY <3>1, NextInv, NextOutcome DEF RouteInv, Granted, vars
    <3>3. TokenInv' /\ VisitInv'
      BY <3>1, <3>2 DEF RouteInv, TokenInv, VisitInv, Judged, Age, vars, tokens
    <3> QED
      BY <3>2, <3>3 DEF RouteInv
  <2> QED
    BY <2>1, ServeInv, MeInv, TickInv DEF RouteNext
<1> QED
  BY <1>1, <1>2, PTL DEF RouteSpec

(***************************************************************************)
(* Whoever the protected route takes for a user logged in as that user,    *)
(* less than the configured time ago.                                      *)
(***************************************************************************)
THEOREM AuthorizedLoggedIn == RouteSpec => []OnlyRecentLoginsAreAuthorized
<1>1. RouteInv => OnlyRecentLoginsAreAuthorized
  BY DEF RouteInv, VisitInv, Judged, Replied, OnlyRecentLoginsAreAuthorized,
         Lifetime, Inv, HolderInv, Holds
<1> QED
  BY <1>1, RouteInvariance, PTL

(***************************************************************************)
(* A login lasts, but for less than a second, as long as configured.       *)
(***************************************************************************)
THEOREM LoginsLast == RouteSpec => []TokenLivesItsTime
<1>1. RouteInv => TokenLivesItsTime
  <2>1. (ExpireSeconds - 1) * Second = Lifetime - Second
    BY ExpiryIsCut
  <2> QED
    BY <2>1 DEF RouteInv, VisitInv, Judged, Replied, TokenLivesItsTime
<1> QED
  BY <1>1, RouteInvariance, PTL

=============================================================================
