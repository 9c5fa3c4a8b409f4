-------------------------------- MODULE Api --------------------------------
(***************************************************************************)
(* One call of the shared client from the page that makes it to the page   *)
(* that reads its answer: the route that Nest finds, the two guards, the   *)
(* permission that the service asks for, the envelope.  Meanwhile the      *)
(* account behind the token may be changed by an administrator.            *)
(***************************************************************************)
EXTENDS ApiClient

CONSTANT MaxTurns         \* bound: changes of the account or of the token
ASSUME ApiAssumption == MaxTurns \in Nat

VARIABLES
  account,                \* members, member_roles and sessions: standing and staff roles
  token,                  \* what the page's storage holds, with the roles its claims name
  call,                   \* the call: method, step, the token it carries, the user the
                          \* guard set, how the last one ended; and history: whether
                          \* since it was made the account was ever entitled to it
  turns                   \* bound: changes so far
apiVars == <<account, token, call, turns>>

StaffRoles == {"ADMIN", "SUPPORT_AGENT", "MODERATOR"}
Standings == {"active", "suspended", "revoked"}
Account == [standing: Standings, roles: SUBSET StaffRoles]
Token == [kind: {"none", "good", "stale"}, roles: SUBSET StaffRoles]
NoMethod == Call("none", "NONE", <<>>, "nothing")
NoToken == [kind |-> "none", roles |-> {}]
NoUser == [known |-> FALSE, roles |-> {}]
Member(roles) == [known |-> TRUE, roles |-> roles]
Outcomes == {"none", "data", "NO_ROUTE", "UNAUTHENTICATED", "SESSION_REVOKED", "ACCOUNT_SUSPENDED",
             "FORBIDDEN", "FORBIDDEN BY SERVICE", "REFUSED", "SERVICE_UNAVAILABLE", "UNREADABLE"}

\* A request matches a route of its verb whose path has its segments, with
\* whatever stands in the place of a parameter.  The first route takes it.
Matches(route, method) ==
  /\ route.verb = method.verb
  /\ Len(route.path) = Len(method.path)
  /\ \A i \in 1..Len(route.path) : route.path[i] \in {Id, method.path[i]}
NoRoute == Own("NONE", <<>>, "nothing")
\* Mutant: where two routes match, the one declared last takes the request.
LastRouteOf ==
  [m \in Methods |->
     LET hits == {i \in DOMAIN Routes : Matches(Routes[i], m)}
     IN IF hits = {} THEN NoRoute ELSE Routes[CHOOSE i \in hits : \A j \in hits : i >= j]]

RouteOf ==
  [m \in Methods |->
     LET hits == {i \in DOMAIN Routes : Matches(Routes[i], m)}
     IN IF hits = {} THEN NoRoute ELSE Routes[CHOOSE i \in hits : \A j \in hits : i <= j]]

\* ROLE_PERMISSIONS; every account is a MEMBER too, which grants none of these.
Granted(role) ==
  CASE role = "SUPPORT_AGENT" -> {"admin:read", "admin:support"}
    [] role = "MODERATOR" -> {"admin:read", "admin:moderate"}
    [] role = "ADMIN" -> {"*"}
\* RolesGuard; assertAdminRole and its three siblings.
RolesAllow(route, roles) == route.roles # {} => ("ADMIN" \in roles \/ roles \cap route.roles # {})
ServiceAllows(route, roles) ==
  CASE route.asks = "nothing" -> TRUE
    [] route.asks = "ADMIN" -> "ADMIN" \in roles
    [] OTHER -> \E role \in roles : Granted(role) \cap {"*", route.asks} # {}

Authenticated(bearer, holder) == bearer.kind = "good" /\ holder.standing = "active"
\* History: what a call of the method with this token may do, judged by the account.
Entitled(method, bearer, holder) ==
  Authenticated(bearer, holder) /\ RolesAllow(RouteOf[method], holder.roles)

ApiInit ==
  /\ account \in [standing: {"active"}, roles: SUBSET StaffRoles]
  /\ token \in {[kind |-> k, roles |-> account.roles] : k \in {"none", "good"}}
  /\ call = [step |-> "idle", method |-> NoMethod, bearer |-> NoToken,
             user |-> NoUser, entitled |-> FALSE, outcome |-> "none"]
  /\ turns = 0

At(step) == call.step = step
Ends(outcome) ==
  call' = [step |-> "idle", method |-> NoMethod, bearer |-> NoToken, user |-> NoUser,
           entitled |-> FALSE, outcome |-> outcome]

\* request: the token in storage goes into the header.
MakeCall(m) ==
  /\ At("idle")
  /\ call' = [step |-> "sent", method |-> m, bearer |-> token, user |-> NoUser,
              entitled |-> Entitled(m, token, account), outcome |-> "none"]
  /\ UNCHANGED <<account, token, turns>>

\* authenticate: the session, its member and the member's roles, as they are now.
TokenRefusal ==
  IF call.bearer.kind # "good" THEN "UNAUTHENTICATED"
  ELSE IF account.standing = "revoked" THEN "SESSION_REVOKED" ELSE "ACCOUNT_SUSPENDED"
\* AuthGuard, then RolesGuard, where the member has these roles.  A public route
\* takes a leftover token or none.
GuardWith(roles) ==
  LET route == RouteOf[call.method]
      good == Authenticated(call.bearer, account)
  IN /\ At("sent")
     /\ IF route = NoRoute THEN Ends("NO_ROUTE")
        ELSE IF ~route.open /\ ~good THEN Ends(TokenRefusal)
        ELSE IF ~route.open /\ ~RolesAllow(route, roles) THEN Ends("FORBIDDEN")
        ELSE call' = [call EXCEPT !.step = "guarded",
                                  !.user = IF good THEN Member(roles) ELSE NoUser]
     /\ UNCHANGED <<account, token, turns>>
\* Mutant: the roles are taken from the claims.
TrustClaims == GuardWith(call.bearer.roles)

Guard == GuardWith(account.roles)

\* The pipe and the service: its own demand of the user the guard set, then its
\* work, which ends with what the route gives or with an error of its own.
Handle ==
  LET route == RouteOf[call.method]
  IN /\ At("guarded")
     /\ \E refused \in BOOLEAN :
          IF refused THEN Ends("REFUSED")
          ELSE IF ~ServiceAllows(route, call.user.roles) THEN Ends("FORBIDDEN BY SERVICE")
          ELSE call' = [call EXCEPT !.step = "answered"]
     /\ UNCHANGED <<account, token, turns>>

\* The answer is parsed by the schema of the method.
Receive ==
  /\ At("answered")
  /\ Ends(IF RouteOf[call.method].gives = call.method.reads THEN "data" ELSE "UNREADABLE")
  /\ UNCHANGED <<account, token, turns>>
\* Nothing comes back, or nothing that is an envelope.
LoseCall ==
  /\ ~At("idle") /\ Ends("SERVICE_UNAVAILABLE") /\ UNCHANGED <<account, token, turns>>

\* setRoles, setStatus and revokeSessions of users.service.ts, by somebody else.
ChangeAccount(holder) ==
  /\ turns < MaxTurns /\ turns' = turns + 1
  /\ account' = holder
  /\ call' = [call EXCEPT !.entitled = @ \/ (At("sent") /\ Entitled(call.method, call.bearer, holder))]
  /\ UNCHANGED token
GiveRoles(roles) == roles # account.roles /\ ChangeAccount([account EXCEPT !.roles = roles])
Suspend == account.standing # "suspended" /\ ChangeAccount([account EXCEPT !.standing = "suspended"])
Restore == account.standing = "suspended" /\ ChangeAccount([account EXCEPT !.standing = "active"])
RevokeSession == account.standing = "active" /\ ChangeAccount([account EXCEPT !.standing = "revoked"])

\* The token's time is up, wherever it is; a sign-out; a sign-in.
ExpireToken ==
  /\ turns < MaxTurns /\ turns' = turns + 1
  /\ token.kind = "good"
  /\ token' = [token EXCEPT !.kind = "stale"]
  /\ call' = [call EXCEPT !.bearer.kind = IF @ = "good" THEN "stale" ELSE @]
  /\ UNCHANGED account
DropToken ==
  /\ turns < MaxTurns /\ turns' = turns + 1
  /\ token.kind # "none" /\ token' = NoToken
  /\ UNCHANGED <<account, call>>
TakeToken ==
  /\ turns < MaxTurns /\ turns' = turns + 1
  /\ account.standing = "active"
  /\ token # [kind |-> "good", roles |-> account.roles]
  /\ token' = [kind |-> "good", roles |-> account.roles]
  /\ UNCHANGED <<account, call>>

ApiNext ==
  \/ \E m \in Methods : MakeCall(m)
  \/ Guard \/ Handle \/ Receive \/ LoseCall
  \/ \E roles \in SUBSET StaffRoles : GiveRoles(roles)
  \/ Suspend \/ Restore \/ RevokeSession
  \/ ExpireToken \/ DropToken \/ TakeToken
ApiSpec == ApiInit /\ [][ApiNext]_apiVars

-----------------------------------------------------------------------------
(* Every variable keeps its type. *)
ApiTypeOK ==
  /\ account \in Account /\ token \in Token /\ turns \in 0..MaxTurns
  /\ call \in [step: {"idle", "sent", "guarded", "answered"}, method: Methods \cup {NoMethod}, bearer: Token,
               user: [known: BOOLEAN, roles: SUBSET StaffRoles], entitled: BOOLEAN,
               outcome: Outcomes]

(* Client and server, written apart, agree on every call: a route takes it,    *)
(* the one whose parameters stand where the client puts its arguments and no   *)
(* other that is declared earlier (stories.controller.ts:85, 109); the client  *)
(* can read what that route gives; and nobody whom the roles of the route let  *)
(* in is turned away by the permission its service asks for                    *)
(* (roles.guard.ts:42, staff-auth.ts:6-28).                                    *)
CallsAreUnderstood ==
  /\ call.outcome \notin {"NO_ROUTE", "UNREADABLE", "FORBIDDEN BY SERVICE"}
  /\ At("guarded") => RouteOf[call.method].path = call.method.path

(* A handler runs for somebody who, at some time after the call was made, was  *)
(* signed in, active and in a role that the route demands, whatever the claims *)
(* of the token say (auth.guard.ts:59-89).                                     *)
RightsAreCurrent ==
  At("guarded") /\ ~RouteOf[call.method].open => call.entitled

(* Every call is understood, and runs for somebody who may make it             *)
(* (auth.guard.ts:18-91, client.ts:1580-1636).                                 *)
CallsAreRightful == CallsAreUnderstood /\ RightsAreCurrent
=============================================================================
