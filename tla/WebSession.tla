----------------------------- MODULE WebSession -----------------------------
(***************************************************************************)
(* The session of one browser: the pair of cookies it keeps, the requests  *)
(* its tabs make of the Next.js server, and what that server asks of Auth  *)
(* on their behalf, through the gateway.                                   *)
(*                                                                         *)
(* A tab's request carries the cookies the browser had when it was sent,   *)
(* and its response sets, clears or keeps those it has when the response   *)
(* arrives; requests of several tabs overlap, and prefetches and refreshes *)
(* of one page do too.  Cookies can be set by an action and by a route,    *)
(* and not while a page is rendered: there setting them throws.            *)
(*                                                                         *)
(* An access token and the refresh token it came with are one token here,  *)
(* and the access token expires first.  Other devices log in as the same   *)
(* users, and never present the browser's tokens.                          *)
(***************************************************************************)
EXTENDS AuthSessions

CONSTANTS Tab,     \* the requests of the browser; the others are devices'
          Kinds    \* what a tab asks of the server

ASSUME WebAssumption ==
    /\ Tab \subseteq Request
    /\ Kinds \subseteq {"render", "action", "login", "register", "logout", "refresh"}

VARIABLES jar,     \* the tokens of the browser's two cookies
          stale,   \* how many access tokens have expired
          page,    \* what each tab waits for
          excused, \* auxiliary: something the client cannot help happened
          session  \* auxiliary: until then, the token the browser should keep

webVars == <<jar, stale, page, excused, session>>
vars == <<authVars, webVars>>

Jar == [access : Nat, refresh : Nat]

NoJar == [access |-> NoToken, refresh |-> NoToken]

\* sent: the cookies of the request, as far as they are read.  set: those of
\* the response, if any.
Idle == [at |-> "idle", kind |-> "none", sent |-> NoJar, set |-> <<>>]

WebTypeOK ==
    /\ TypeOK
    /\ jar \in Jar /\ jar.access \in {NoToken, jar.refresh}
    /\ jar.refresh \in 0..Len(tokens)
    /\ stale \in expired..Len(tokens)
    /\ page \in [Tab -> [at : {"gateway", "auth", "respond"},
                         kind : Kinds \cup {"none"}, sent : Jar, set : Seq(Jar)] \cup {Idle}]
    /\ excused \in BOOLEAN
    /\ session \in 0..Len(tokens)

WebInit ==
    /\ Init
    /\ jar = NoJar
    /\ stale = 0
    /\ page = [p \in Tab |-> Idle]
    /\ excused = FALSE /\ session = NoToken

CanSetCookies(p) == page[p].kind # "render"

\* The server is done with the request of p and has these cookies to set.
Finish(p, cookies) ==
    page' = [page EXCEPT ![p] =
                [Idle EXCEPT !.at = "respond",
                             !.set = IF CanSetCookies(p) THEN cookies ELSE <<>>]]

Keep(p) == Finish(p, <<>>)

clearAuthCookies(p) == Finish(p, <<NoJar>>)

\* Mutant: the refresh cookie is given a maxAge of 0.
SetAccessCookie(p, t) == Finish(p, <<[access |-> t, refresh |-> NoToken]>>)

\* Mutant: the tokens of a refresh serve the retry and are forgotten.
SetNoCookies(p, t) == IF page[p].kind = "action" THEN Keep(p)
                      ELSE Finish(p, <<[access |-> t, refresh |-> t]>>)

setAuthCookies(p, t) == Finish(p, <<[access |-> t, refresh |-> t]>>)
-----------------------------------------------------------------------------
\* The cookies that the server reads: apiFetch both, the routes for a refresh
\* and for signing out the refresh token's, those for signing in neither.
CookiesOf(kind) ==
    CASE kind \in {"render", "action"}  -> jar
      [] kind \in {"refresh", "logout"} -> [jar EXCEPT !.access = NoToken]
      [] OTHER                          -> NoJar

ShouldKeep(t) == session' = IF excused' THEN NoToken ELSE t

\* A tab sends a request, with the cookies there are.  Who asks to sign out
\* gives the session up.
Ask(p, kind) ==
    /\ page[p].at = "idle"
    /\ kind \in Kinds
    /\ page' = [page EXCEPT ![p] = [at |-> "gateway", kind |-> kind,
                                    sent |-> CookiesOf(kind), set |-> <<>>]]
    /\ UNCHANGED <<authVars, jar, stale, excused>>
    /\ ShouldKeep(IF kind = "logout" THEN NoToken ELSE session)

\* The middleware lets no request for a page of the dashboard, nor an action
\* of one, through without an access cookie; the routes under /api are not its
\* concern.
Send(p, kind) ==
    /\ kind \in {"render", "action", "logout", "refresh"}
    /\ kind # "refresh" => jar.access # NoToken
    /\ Ask(p, kind)

\* onSubmit of the forms to sign in with.  The middleware leads away from
\* their pages who has an access cookie, but a tab that showed one before
\* another signed in can still submit it.
SubmitLogin(p) == Ask(p, "login")

SubmitRegister(p) == Ask(p, "register")

\* apiFetch: the gateway's guard accepts an access token until it expires,
\* whatever became of its session.  A call that fails, by any request but
\* logoutAction, throws, and the cookies are kept then too.
CallGateway(p) ==
    /\ page[p].at = "gateway" /\ page[p].kind # "logout"
    /\ Keep(p)
    /\ UNCHANGED <<authVars, jar, stale, excused, session>>

\* The browser's session is changed from two sides: another request is
\* about to change it, or did since p was sent with its refresh token.
Overlaps(p) ==
    \/ page[p].kind \notin {"login", "register"} /\ page[p].sent.refresh # jar.refresh
    \/ \E q \in Tab \ {p} : page[q].at = "auth" \/ page[q].set # <<>>

\* Auth is asked.  What it gives to a page being rendered is lost to the
\* browser.
AskAuth(p) ==
    /\ page' = [page EXCEPT ![p].at = "auth", ![p].sent = NoJar]
    /\ excused' = (excused \/ Overlaps(p) \/ ~CanSetCookies(p))
    /\ ShouldKeep(session)
    /\ UNCHANGED <<jar, stale>>

HasRefreshToken(p) == page[p].at = "gateway" /\ page[p].sent.refresh # NoToken

\* apiFetch was answered 401.  The call it makes again after that changes
\* nothing more.
TryRefresh(p) ==
    /\ HasRefreshToken(p)
    /\ page[p].kind \in {"render", "action"} /\ page[p].sent.access <= stale
    /\ BeginRefresh(p, page[p].sent.refresh)
    /\ AskAuth(p)

RefreshRoute(p) ==
    /\ HasRefreshToken(p) /\ page[p].kind = "refresh"
    /\ BeginRefresh(p, page[p].sent.refresh)
    /\ AskAuth(p)

LoginRoute(p) ==
    /\ page[p].at = "gateway" /\ page[p].kind = "login"
    /\ \E u \in User : BeginLogin(p, u)
    /\ AskAuth(p)

RegisterRoute(p) ==
    /\ page[p].at = "gateway" /\ page[p].kind = "register"
    /\ \E u \in User : BeginRegister(p, u)
    /\ AskAuth(p)

logoutAction(p) ==
    /\ HasRefreshToken(p) /\ page[p].kind = "logout"
    /\ BeginLogout(p, page[p].sent.refresh)
    /\ AskAuth(p)

\* Mutant: a failed refresh leaves the cookies alone.
KeepCookies(p) == IF page[p].kind = "logout" THEN clearAuthCookies(p) ELSE Keep(p)

\* An answer that is not a success, the gateway's 503 included: apiFetch
\* and logoutAction clear the cookies, the routes pass the error on.
Refused(p) ==
    IF page[p].kind \in {"action", "render", "logout"} THEN clearAuthCookies(p) ELSE Keep(p)

\* What is left of the session when Auth, or the way there, fails: apiFetch
\* signs the browser out.
AfterFailure(p) == IF page[p].kind = "action" THEN NoToken ELSE session

\* Auth is not asked: there is no refresh cookie, or it cannot be reached.
NotAsked(p) ==
    /\ page[p].at = "gateway"
    /\ page[p].kind \in {"render", "action"} => page[p].sent.access <= stale
    /\ Refused(p)
    /\ excused' = (excused \/ (Overlaps(p) /\ page[p].kind \in {"action", "logout"}))
    /\ ShouldKeep(AfterFailure(p))
    /\ UNCHANGED <<authVars, jar, stale>>

\* A statement of Auth's handler.  Its answer is read by the server; or it
\* is lost, and the call throws, which only logoutAction catches, or is an
\* error though the insert was done.  What is excused besides: a login that
\* fails at its insert, with the oldest session revoked already; and that the
\* refresh route, which no page uses, keeps the cookies of a failed refresh.
AuthStep(p) ==
    /\ page[p].at = "auth"
    /\ Advance(p) \/ Abort(p)
    /\ \/ /\ pc'[p] # "idle"
          /\ UNCHANGED <<page, excused>>
       \/ /\ pc'[p] = "idle"
          /\ Len(tokens') > Len(tokens)
          /\ setAuthCookies(p, Len(tokens'))
          /\ UNCHANGED excused
       \/ /\ pc'[p] = "idle"
          /\ Len(tokens') = Len(tokens)
          /\ Refused(p)
          /\ excused' = (excused \/ page[p].kind = "refresh"
                                 \/ (page[p].kind = "login" /\ pc[p] = "issue"))
       \/ /\ pc'[p] = "idle"
          /\ \/ Len(tokens') > Len(tokens) /\ Refused(p)
             \/ page[p].kind # "logout" /\ Keep(p)
          /\ excused' = TRUE
    /\ ShouldKeep(IF Abort(p) THEN AfterFailure(p) ELSE session)
    /\ UNCHANGED <<jar, stale>>

\* The response arrives, and the browser does what it says to its cookies.
Respond(p) ==
    /\ page[p].at = "respond"
    /\ page' = [page EXCEPT ![p] = Idle]
    /\ jar' = IF page[p].set = <<>> THEN jar ELSE page[p].set[1]
    /\ UNCHANGED <<authVars, stale, excused>>
    /\ ShouldKeep(IF page[p].set \in {<<>>, <<NoJar>>} THEN session
                                                      ELSE page[p].set[1].refresh)

\* The tab is closed, or its connection lost, before the response arrives.
Lose(p) ==
    /\ page[p].at = "respond"
    /\ page' = [page EXCEPT ![p] = Idle]
    /\ excused' = (excused \/ page[p].set # <<>>)
    /\ ShouldKeep(session)
    /\ UNCHANGED <<authVars, jar, stale>>

\* Another device logs in.  Its session may take the place of the browser's.
DeviceStep(r) ==
    /\ (\E u \in User : BeginLogin(r, u)) \/ Advance(r) \/ Abort(r)
    /\ excused' = (excused \/ pc[r] = "revokeOldest")
    /\ ShouldKeep(session)
    /\ UNCHANGED <<jar, stale, page>>

\* Time passes: an access token, a refresh token, or a cookie expires.
ExpireAccess ==
    /\ stale < Len(tokens)
    /\ stale' = stale + 1
    /\ UNCHANGED <<authVars, jar, page, excused, session>>

ExpireRefresh == expired < stale /\ Expire /\ UNCHANGED webVars

DropCookies ==
    /\ \/ /\ jar.access \in 1..stale
          /\ jar' = [jar EXCEPT !.access = NoToken]
       \/ /\ jar.refresh \in 1..expired
          /\ jar' = NoJar
    /\ UNCHANGED <<authVars, stale, page, excused, session>>

WebNext ==
    \/ \E p \in Tab :
          \/ \E kind \in Kinds : Send(p, kind)
          \/ SubmitLogin(p) \/ SubmitRegister(p)
          \/ CallGateway(p) \/ TryRefresh(p) \/ RefreshRoute(p) \/ LoginRoute(p)
          \/ RegisterRoute(p) \/ logoutAction(p) \/ NotAsked(p) \/ AuthStep(p)
          \/ Respond(p) \/ Lose(p)
    \/ \E r \in Request \ Tab : DeviceStep(r)
    \/ ExpireAccess \/ ExpireRefresh \/ DropCookies

WebSpec == WebInit /\ [][WebNext]_vars
-----------------------------------------------------------------------------
AtRest == \A p \in Tab : page[p].at = "idle"

\* While nothing is asked, a browser that changes its session from one side
\* at a time, and hears the answers, has the refresh cookie of the last login
\* or refresh, and the cookie it has is good, until the token expires; but
\* for the ways to lose a session that the code has: to sign out, a refresh
\* that fails in an action when Auth or the way there does, and another login
\* that takes the place of the session, or fails with it revoked.
SessionKept ==
    ~excused /\ AtRest =>
        /\ session > expired => jar.refresh = session
        /\ jar.refresh > expired => ~tokens[jar.refresh].revoked

\* Such a browser is never taken for a thief either: what it presents was
\* not exchanged before.
NotTakenForThief == ~excused => \A p \in Tab : pc[p] # "family"
=============================================================================
