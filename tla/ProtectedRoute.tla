---------------------------- MODULE ProtectedRoute ----------------------------
(***************************************************************************)
(* Bearer tokens, composed with the authentication core that issues them:  *)
(* CreateToken and ParseToken (internal/auth/jwt.go) and GET /me behind    *)
(* AuthMiddleware.  The server keeps nothing: the token carries the user   *)
(* and its own end, so that it outlives a crash, and neither a second row  *)
(* of the username nor anything else can revoke it.                        *)
(*                                                                         *)
(* Time is in ticks, Second of them to a second, and a token counts whole  *)
(* seconds.  Nothing reads the clock before the first token is made: it    *)
(* starts at any phase of a second and stands still until then.            *)
(***************************************************************************)
EXTENDS AuthProperties

CONSTANTS
  Visits,          \* the requests to GET /me
  ExpireSeconds,   \* application.yaml: jwt.expire_seconds
  Second,          \* in ticks
  Horizon          \* bound: the last tick of the clock

ASSUME ClockAssumption ==
  /\ ExpireSeconds \in Int
  /\ Second \in Nat \ {0}
  /\ Horizon \in Nat

VARIABLES
  now,        \* the clock of the server
  token,      \* the token made for each verify request
  reply,      \* what each visit was answered
  (* History. *)
  issuedAt,   \* when each token was made
  visit       \* the Authorization header of each visit, and when it came

tokens == <<now, token, reply, issuedAt, visit>>
routeVars == <<vars, tokens>>

NoToken == {"no bearer", "not signed"}
Headers == Verifies \cup NoToken

ASSUME HeaderAssumption == NoToken \cap Verifies = {}

RouteInit ==
  /\ Init
  /\ now \in 0 .. Second - 1
  /\ token = [v \in Verifies |-> None]
  /\ reply = [m \in Visits |-> None]
  /\ issuedAt = [v \in Verifies |-> 0]
  /\ visit = [m \in Visits |-> None]

Unix(t) == t \div Second

(* Mutant: "* time.Second" forgotten, the configured number is in ticks.   *)
CreateTokenWithoutUnit(u) == [sub |-> u, exp |-> Unix(now + ExpireSeconds)]

CreateToken(u) ==
  [sub |-> u, exp |-> Unix(now + ExpireSeconds * Second)]

(* A step of the core; the one that accepts a proof also makes the token.  *)
Serve ==
  /\ Next
  /\ LET made == {v \in Verifies : ~Granted(v) /\ Granted(v)'} IN
     /\ token' = [v \in Verifies |->
                    IF v \in made THEN CreateToken(body[v].username)
                                  ELSE token[v]]
     /\ issuedAt' = [v \in Verifies |->
                       IF v \in made THEN now ELSE issuedAt[v]]
  /\ UNCHANGED <<now, reply, visit>>

(* Mutant: a token good for the second it ends in.                         *)
InTimeInclusive(t) == Unix(now) <= t.exp

(* The library's check of exp, without leeway, against the exact time.     *)
InTime(t) == now < t.exp * Second

(***************************************************************************)
(* The user of the token in a header, None for an error.  HS256 is ideal:  *)
(* a header the server did not sign does not parse.                        *)
(***************************************************************************)
ParseToken(header) ==
  IF header \in Verifies /\ InTime(token[header]) THEN token[header].sub
                                                 ELSE None

Refusal(message) == [status |-> 401, error |-> message]
Welcome(user)    == [status |-> 200, username |-> user]

AuthMiddleware(header) ==
  IF header = "no bearer" THEN Refusal("missing bearer token")
  ELSE IF ParseToken(header) = None THEN Refusal("invalid token")
  ELSE Welcome(ParseToken(header))

(* GET /me.  A client has a token once its verify request was answered.    *)
Me(m, header) ==
  /\ reply[m] = None
  /\ header \in Verifies => pc[header] = "done" /\ token[header] # None
  /\ visit' = [visit EXCEPT ![m] = [header |-> header, at |-> now]]
  /\ reply' = [reply EXCEPT ![m] = AuthMiddleware(header)]
  /\ UNCHANGED <<vars, now, token, issuedAt>>

Tick ==
  /\ now < Horizon
  /\ \E v \in Verifies : token[v] # None
  /\ now' = now + 1
  /\ UNCHANGED <<vars, token, reply, issuedAt, visit>>

RouteNext ==
  \/ Serve
  \/ \E m \in Visits, header \in Headers : Me(m, header)
  \/ Tick

RouteSpec == RouteInit /\ [][RouteNext]_routeVars

-----------------------------------------------------------------------------

Replied(m, status) == reply[m] # None /\ reply[m].status = status

Age(m) == visit[m].at - issuedAt[visit[m].header]

(***************************************************************************)
(* Whoever /me takes for a user logged in as that user, less than the      *)
(* configured time ago: the visit carries the token of a verify request    *)
(* that was accepted for the user, and that took a challenge issued to the *)
(* user (CreateToken, ParseToken, AuthMiddleware).                         *)
(***************************************************************************)
OnlyRecentLoginsAreAuthorized ==
  \A m \in Visits : Replied(m, 200) =>
    LET v == visit[m].header IN
    /\ v \in Verifies
    /\ Granted(v)
    /\ body[v].username = reply[m].username
    /\ consumer[body[v].challengeId] = v
    /\ body[body[v].challengeId].username = reply[m].username
    /\ Age(m) < ExpireSeconds * Second

(***************************************************************************)
(* A login lasts: a token the server made is not refused before it is      *)
(* ExpireSeconds - 1 seconds old.  The second that is missing is real, exp *)
(* is cut to a whole second and compared with the exact time.  A crash of  *)
(* the server changes nothing.                                             *)
(***************************************************************************)
TokenLivesItsTime ==
  \A m \in Visits :
    Replied(m, 401) /\ visit[m].header \in Verifies
      => Age(m) > (ExpireSeconds - 1) * Second

=============================================================================
