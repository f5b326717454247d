------------------------------ MODULE WebProofs ------------------------------
(***************************************************************************)
(* Proofs about WebSession, for any tabs, devices, users, limit and bound. *)
(*                                                                         *)
(* The web server only asks of Auth what clients ask, so that every step   *)
(* of the browser's session is a step of AuthSessions or leaves it alone,  *)
(* and what is proved of Auth holds here.                                  *)
(*                                                                         *)
(* What is the browser's own is proved of one that is not excused: at most *)
(* one of its tabs is changing the session (LoneInv), and while none does  *)
(* the refresh cookie is a token that is not revoked.  A tab that starts   *)
(* to change it presents that token; nothing revokes it but the tab's own  *)
(* request; and the response brings a good one, or none.                   *)
(***************************************************************************)
EXTENDS WebSession, AuthProofs

Pair(t) == [access |-> t, refresh |-> t]

\* What a tab asks of the server, by what the server then asks of Auth.
Serves == [login    |-> {"login"},
           register |-> {"register"},
           logout   |-> {"logout"},
           refresh  |-> {"render", "action", "refresh"}]

\* A tab waits for Auth exactly while Auth works on its request.
TabInv(p) ==
    LET w == page[p] IN
    /\ w.sent.refresh \in 0..Len(tokens)
    /\ w.set = <<>> \/ \E t \in 0..Len(tokens) : w.set = <<Pair(t)>>
    /\ w.set # <<>> => w.at = "respond"
    /\ w.at = "auth" <=> pc[p] # "idle"
    /\ w.at = "auth" => w.kind \in Serves[call[p].op]

DeviceInv(r) == pc[r] # "idle" => call[r].op = "login"

PagesInv ==
    /\ TablesInv
    /\ WebTypeOK
    /\ \A p \in Tab : TabInv(p)
    /\ \A r \in Request \ Tab : DeviceInv(r)

\* What holds of a browser that changes its session from one side at a time.
Good(t) == t # NoToken => ~tokens[t].revoked

Pending(p) == page[p].set \notin {<<>>, <<NoJar>>}

Changing(p) == page[p].at = "auth" \/ page[p].set # <<>>

Quiet == \A p \in Tab : ~Changing(p)

\* What a tab that changes the session relies on: a login or a registration
\* leaves the cookies' token alone, but for a login about to insert the next,
\* and a refresh or a logout presents a good one.
ChangeInv(p) ==
    /\ page[p].at = "auth" => page[p].kind # "render"
    /\ page[p].at = "auth" /\ page[p].kind \in {"login", "register"} =>
          Good(jar.refresh) \/ (page[p].kind = "login" /\ pc[p] = "issue")
    /\ Pending(p) => Good(page[p].set[1].refresh)
    /\ pc[p] = "findToken" => Good(call[p].token)
    /\ pc[p] # "family"

LoneInv ==
    /\ \A p, q \in Tab : Changing(p) /\ Changing(q) => p = q
    /\ Quiet => Good(jar.refresh)
    /\ \A p \in Tab : ChangeInv(p)

WebInv == PagesInv /\ (~excused => LoneInv)
-----------------------------------------------------------------------------
\* One statement of Auth's handler, or its end, in the browser's terms.
LEMMA ServiceStep ==
    ASSUME TablesInv, NEW r \in Request, Advance(r) \/ Abort(r)
    PROVE  /\ pc[r] # "idle" /\ expired' = expired
           /\ \A q \in Request \ {r} : pc'[q] = pc[q] /\ call'[q] = call[q]
           /\ pc'[r] # "idle" => call'[r].op = call[r].op
           /\ pc'[r] # "findToken"
           /\ pc'[r] = "family" => /\ pc[r] = "findToken" /\ call[r].token # NoToken
                                   /\ tokens[call[r].token].revoked
           /\ Len(tokens) \in Nat /\ Len(tokens') \in Nat /\ Len(tokens) <= Len(tokens')
           /\ \A i \in 1..Len(tokens) : tokens'[i].revoked =>
                 \/ tokens[i].revoked
                 \/ pc[r] \in {"revokeOldest", "family", "revoke", "revokeExpired"}
           /\ Len(tokens') > Len(tokens) =>
                 pc[r] = "issue" /\ ~tokens'[Len(tokens')].revoked
           /\ pc[r] = "revokeOldest" => pc'[r] = "issue" \/ tokens' = tokens
<1>0. /\ pc \in [Request -> Busy \cup {"idle"}] /\ call \in [Request -> Call \cup {NoCall}]
      /\ Len(tokens) \in Nat /\ tokens \in Seq(Row) /\ DOMAIN tokens = 1..Len(tokens)
  BY DEF TablesInv, TypeOK
<1>1. CASE Refuse(r) /\ pc[r] # "idle"
  BY <1>0, <1>1 DEF Refuse, Answer, Goto
<1>2. ASSUME NEW label, Continue(r, label), pc[r] \notin {"idle", "revokeOldest"},
             label # "findToken",
             label = "family" => /\ pc[r] = "findToken" /\ call[r].token # NoToken
                                 /\ tokens[call[r].token].revoked
      PROVE  /\ pc[r] # "idle" /\ expired' = expired
             /\ \A q \in Request \ {r} : pc'[q] = pc[q] /\ call'[q] = call[q]
             /\ call'[r].op = call[r].op
             /\ pc'[r] # "findToken"
             /\ pc'[r] = "family" => /\ pc[r] = "findToken" /\ call[r].token # NoToken
                                     /\ tokens[call[r].token].revoked
             /\ tokens' = tokens /\ pc[r] # "revokeOldest"
  BY <1>0, <1>2 DEF Continue, Goto
<1>3. CASE FindUserByEmail(r) \/ CountActiveSessions(r)
  <2>1. pc[r] \in {"findUser", "count"}
        /\ \/ Refuse(r)
           \/ \E label \in {"createUser", "count", "oldest", "issue"} : Continue(r, label)
    BY <1>3 DEF FindUserByEmail, CountActiveSessions
  <2>2. QED
    BY <1>0, <1>1, <1>2, <2>1
<1>4. CASE CreateUser(r) /\ ~Refuse(r)
  BY <1>0, <1>4 DEF CreateUser, Goto
<1>5. CASE FindOldest(r)
  <2>1. CASE Continue(r, "issue")
    BY <1>0, <1>2, <1>5, <2>1 DEF FindOldest
  <2>2. CASE ~Continue(r, "issue")
    <3>1. PICK t : /\ pc' = [pc EXCEPT ![r] = "revokeOldest"]
                   /\ call' = [call EXCEPT ![r].token = t]
                   /\ UNCHANGED <<users, tokens, expired, crowded, ended, excess>>
      BY <1>5, <2>2 DEF FindOldest, Goto
    <3>2. call[r] \in Call /\ pc[r] = "oldest"
      BY <1>5 DEF FindOldest, TablesInv, RequestInv
    <3>3. call'[r].op = call[r].op
      BY <1>0, <3>1, <3>2 DEF Call
    <3>4. QED
      BY <1>0, <3>1, <3>2, <3>3
  <2>3. QED
    BY <2>1, <2>2
<1>6. CASE FindRefreshToken(r)
  <2>1. CASE Refuse(r)
    BY <1>1, <1>6, <2>1 DEF FindRefreshToken
  <2>2. CASE ~Refuse(r)
    <3>1. PICK label \in {"family", "revokeExpired", "revoke"} :
             Continue(r, label) /\ (label = "family" => tokens[call[r].token].revoked)
      BY <1>6, <2>2 DEF FindRefreshToken
    <3>2. pc[r] = "findToken" /\ call[r].token # NoToken
      BY <1>0, <1>6, <2>2 DEF FindRefreshToken, NoToken
    <3>3. QED
      BY <1>0, <1>2, <3>1, <3>2
  <2>3. QED
    BY <2>1, <2>2
<1>7. CASE RevokeOldest(r)
  <2>1. /\ pc[r] = "revokeOldest" /\ Revoke({call[r].token}) /\ expired' = expired
        /\ pc' = [pc EXCEPT ![r] = "issue"] /\ call' = call
    BY <1>7, RevokeOldestStep
  <2>2. Len(tokens') = Len(tokens)
    BY <2>1, RevokeGrows DEF TablesInv
  <2>3. QED
    BY <1>0, <2>1, <2>2
<1>8. CASE RevokeTokenFamily(r)
  <2>1. /\ pc[r] = "family" /\ Revoke(Family(tokens[call[r].token].family))
        /\ pc' = [pc EXCEPT ![r] = "idle"] /\ call' = [call EXCEPT ![r] = NoCall]
        /\ expired' = expired
    BY <1>8, RevokeFamilyStep
  <2>2. Len(tokens') = Len(tokens)
    BY <2>1, RevokeGrows DEF TablesInv
  <2>3. QED
    BY <1>0, <2>1, <2>2
<1>9. CASE RevokeRefreshToken(r)
  <2>1. /\ pc[r] \in {"revokeExpired", "revoke"} /\ Revoke({call[r].token})
        /\ expired' = expired
        /\ \/ pc' = [pc EXCEPT ![r] = "issue"] /\ call' = call
           \/ pc' = [pc EXCEPT ![r] = "idle"] /\ call' = [call EXCEPT ![r] = NoCall]
    BY <1>9, RevokeTokenStep
  <2>2. Len(tokens') = Len(tokens)
    BY <2>1, RevokeGrows DEF TablesInv
  <2>3. QED
    BY <1>0, <2>1, <2>2
<1>10. CASE IssueTokens(r)
  <2>1. /\ Len(tokens') = Len(tokens) + 1
        /\ tokens'[Len(tokens) + 1] = NewRow(r)
        /\ \A i \in 1..Len(tokens) : tokens'[i] = tokens[i]
    BY <1>10, IssueGrows
  <2>2. /\ pc[r] = "issue" /\ expired' = expired
        /\ pc' = [pc EXCEPT ![r] = "idle"] /\ call' = [call EXCEPT ![r] = NoCall]
    BY <1>10 DEF IssueTokens, Answer, Goto
  <2>3. NewRow(r).revoked = FALSE
    BY DEF NewRow
  <2>4. QED
    BY <1>0, <2>1, <2>2, <2>3
<1>11. QED
  BY <1>1, <1>3, <1>4, <1>5, <1>6, <1>7, <1>8, <1>9, <1>10 DEF Advance, Abort, CreateUser

\* What such a statement leaves of the token asked about, and how a request
\* ends that issued none.
LEMMA ServiceCall ==
    ASSUME TablesInv, NEW r \in Request, Advance(r) \/ Abort(r)
    PROVE  /\ pc'[r] # "idle" /\ call[r].op = "refresh" => call'[r].token = call[r].token
           /\ pc'[r] = "revokeExpired" => call'[r].token <= expired
           /\ pc[r] = "issue" => pc'[r] = "idle"
           /\ pc'[r] = "idle" /\ Len(tokens') = Len(tokens) =>
                 Abort(r) \/ pc[r] \in {"family", "revokeExpired"} \/ call[r].op = "logout"
<1>0. /\ pc \in [Request -> Busy \cup {"idle"}] /\ call \in [Request -> Call \cup {NoCall}]
      /\ Len(tokens) \in Nat
  BY DEF TablesInv, TypeOK
<1>1. CASE Refuse(r) /\ pc[r] # "idle"
  BY <1>0, <1>1 DEF Refuse, Answer, Goto, Abort
<1>2. ASSUME NEW label, Continue(r, label), pc[r] # "issue",
             label = "revokeExpired" => call[r].token <= expired, label # "idle"
      PROVE  /\ call'[r] = call[r] /\ pc'[r] # "idle" /\ pc[r] # "issue"
             /\ pc'[r] = "revokeExpired" => call'[r].token <= expired
  BY <1>0, <1>2 DEF Continue, Goto
<1>3. CASE FindUserByEmail(r) \/ CountActiveSessions(r)
  <2>1. pc[r] \in {"findUser", "count"}
        /\ \/ Refuse(r)
           \/ \E label \in {"createUser", "count", "oldest", "issue"} : Continue(r, label)
    BY <1>3 DEF FindUserByEmail, CountActiveSessions
  <2>2. QED
    BY <1>1, <1>2, <2>1
<1>4. CASE CreateUser(r) /\ ~Refuse(r)
  BY <1>0, <1>4 DEF CreateUser, Goto
<1>5. CASE FindOldest(r)
  <2>1. CASE Continue(r, "issue")
    BY <1>2, <1>5, <2>1 DEF FindOldest
  <2>2. CASE ~Continue(r, "issue")
    <3>1. pc' = [pc EXCEPT ![r] = "revokeOldest"] /\ pc[r] = "oldest"
      BY <1>5, <2>2 DEF FindOldest, Goto
    <3>2. call[r].op = "login"
      BY <3>1 DEF TablesInv, RequestInv
    <3>3. QED
      BY <1>0, <3>1, <3>2
  <2>3. QED
    BY <2>1, <2>2
<1>6. CASE FindRefreshToken(r) /\ ~Refuse(r)
  <2>1. PICK label \in {"family", "revokeExpired", "revoke"} :
           Continue(r, label) /\ (label = "revokeExpired" => call[r].token <= expired)
    BY <1>6 DEF FindRefreshToken
  <2>2. pc[r] = "findToken"
    BY <1>6 DEF FindRefreshToken
  <2>3. QED
    BY <1>2, <2>1, <2>2
<1>7. CASE RevokeOldest(r)
  BY <1>0, <1>7, RevokeOldestStep
<1>8. CASE RevokeTokenFamily(r)
  BY <1>0, <1>8, RevokeFamilyStep
<1>9. CASE RevokeRefreshToken(r)
  <2>1. /\ pc[r] \in {"revokeExpired", "revoke"} /\ call[r].op \in {"refresh", "logout"}
        /\ \/ pc' = [pc EXCEPT ![r] = "issue"] /\ call' = call
           \/ /\ pc' = [pc EXCEPT ![r] = "idle"]
              /\ pc[r] = "revoke" => call[r].op = "logout"
    BY <1>0, <1>9, RevokeTokenStep DEF RevokeRefreshToken, Goto, Answer
  <2>2. QED
    BY <1>0, <2>1
<1>10. CASE IssueTokens(r)
  <2>1. Len(tokens') = Len(tokens) + 1
    BY <1>10, IssueGrows
  <2>2. pc[r] = "issue" /\ pc' = [pc EXCEPT ![r] = "idle"]
    BY <1>10 DEF IssueTokens, Answer, Goto
  <2>3. QED
    BY <1>0, <2>1, <2>2
<1>11. QED
  BY <1>1, <1>3, <1>4, <1>5, <1>6, <1>7, <1>8, <1>9, <1>10
     DEF Advance, Abort, CreateUser, FindRefreshToken

\* The response a tab is left with.
LEMMA Finished ==
    ASSUME WebTypeOK, NEW p \in Tab, NEW cookies, Finish(p, cookies)
    PROVE  /\ page'[p].at = "respond" /\ page'[p].kind = "none" /\ page'[p].sent = NoJar
           /\ page'[p].set = IF page[p].kind = "render" THEN <<>> ELSE cookies
           /\ \A q \in Tab \ {p} : page'[q] = page[q]
           /\ page' = [page EXCEPT ![p] = page'[p]]
           /\ page'[p] = [at |-> "respond", kind |-> "none", sent |-> NoJar,
                          set |-> page'[p].set]
BY DEF WebTypeOK, Finish, CanSetCookies, Idle

PageRow == [at : {"gateway", "auth", "respond"},
            kind : Kinds \cup {"none"}, sent : Jar, set : Seq(Jar)] \cup {Idle}

\* Every page is one of PageRow again after a step that changes one tab's.
LEMMA PageTyped ==
    ASSUME WebTypeOK, NEW p \in Tab, NEW w \in PageRow, page' = [page EXCEPT ![p] = w]
    PROVE  /\ page' \in [Tab -> PageRow] /\ page'[p] = w
           /\ \A q \in Tab \ {p} : page'[q] = page[q]
BY DEF WebTypeOK, PageRow

LEMMA RespondRow ==
    ASSUME NEW n \in Nat, NEW set, set = <<>> \/ \E t \in 0..n : set = <<Pair(t)>>
    PROVE  [at |-> "respond", kind |-> "none", sent |-> NoJar, set |-> set] \in PageRow
<1>1. set \in Seq(Jar)
  <2>1. \A t \in 0..n : Pair(t) \in Jar
    BY DEF Pair, Jar
  <2>2. \A j \in Jar : <<j>> \in Seq(Jar)
    OBVIOUS
  <2>3. CASE set = <<>>
    BY <2>3
  <2>4. QED
    BY <2>1, <2>2, <2>3
<1>2. NoJar \in Jar
  BY DEF NoJar, Jar, NoToken
<1>3. QED
  BY <1>1, <1>2 DEF PageRow

LEMMA NoJarIsPair == NoJar = Pair(0) /\ NoToken = 0
BY DEF NoJar, Pair, NoToken
-----------------------------------------------------------------------------
\* The jar and the clock, the rest of WebTypeOK.
JarOK == /\ jar \in Jar /\ jar.access \in {NoToken, jar.refresh}
         /\ jar.refresh \in 0..Len(tokens)
         /\ stale \in expired..Len(tokens)
         /\ excused \in BOOLEAN /\ session \in 0..Len(tokens)

LEMMA WebTypes == WebTypeOK <=> TypeOK /\ JarOK /\ page \in [Tab -> PageRow]
BY DEF WebTypeOK, JarOK, PageRow

LEMMA TablesSame == TablesInv /\ UNCHANGED authVars => TablesInv'
BY NextKeepsTables

\* Steps that leave Auth alone, and the pages.
LEMMA StillPages ==
    ASSUME PagesInv, UNCHANGED <<authVars, page>>, JarOK'
    PROVE  PagesInv'
<1>1. TablesInv' /\ UNCHANGED <<tokens, pc, call>>
  BY TablesSame DEF PagesInv, authVars
<1>2. page \in [Tab -> PageRow]
  BY WebTypes DEF PagesInv
<1>3. WebTypeOK'
  BY <1>1, <1>2 DEF WebTypeOK, JarOK, PageRow, TablesInv
<1>4. \A p \in Tab : TabInv(p)'
  BY <1>1 DEF PagesInv, TabInv
<1>5. \A r \in Request \ Tab : DeviceInv(r)'
  BY <1>1 DEF PagesInv, DeviceInv
<1>6. QED
  BY <1>1, <1>3, <1>4, <1>5 DEF PagesInv

\* Steps of one tab that leave Auth alone.
LEMMA TabPages ==
    ASSUME PagesInv, UNCHANGED authVars, JarOK', NEW p \in Tab, NEW w \in PageRow,
           page' = [page EXCEPT ![p] = w], page[p].at # "auth", w.at # "auth",
           w.sent.refresh \in 0..Len(tokens),
           w.set = <<>> \/ (w.at = "respond" /\ \E t \in 0..Len(tokens) : w.set = <<Pair(t)>>)
    PROVE  PagesInv'
<1>1. TablesInv' /\ UNCHANGED <<tokens, pc, call>>
  BY TablesSame DEF PagesInv, authVars
<1>2. /\ page' \in [Tab -> PageRow] /\ page'[p] = w
      /\ \A q \in Tab \ {p} : page'[q] = page[q]
  BY PageTyped DEF PagesInv
<1>3. WebTypeOK'
  BY <1>1, <1>2 DEF WebTypeOK, JarOK, PageRow, TablesInv
<1>4. \A q \in Tab \ {p} : TabInv(q)'
  BY <1>1, <1>2 DEF PagesInv, TabInv
<1>5. TabInv(p)'
  <2>1. pc[p] = "idle"
    BY DEF PagesInv, TabInv
  <2>2. QED
    BY <1>1, <1>2, <2>1 DEF TabInv
<1>6. \A r \in Request \ Tab : DeviceInv(r)'
  BY <1>1 DEF PagesInv, DeviceInv
<1>7. QED
  BY <1>1, <1>3, <1>4, <1>5, <1>6 DEF PagesInv

LEMMA PagesFacts ==
    ASSUME PagesInv
    PROVE  /\ TablesInv /\ TypeOK /\ JarOK /\ page \in [Tab -> PageRow] /\ WebTypeOK
           /\ Len(tokens) \in Nat /\ tokens \in Seq(Row) /\ DOMAIN tokens = 1..Len(tokens)
           /\ expired \in 0..Len(tokens)
           /\ pc \in [Request -> Busy \cup {"idle"}]
           /\ call \in [Request -> Call \cup {NoCall}]
           /\ Tab \subseteq Request
<1>1. TablesInv /\ TypeOK /\ JarOK /\ page \in [Tab -> PageRow] /\ WebTypeOK
  BY WebTypes DEF PagesInv
<1>2. QED
  BY <1>1, WebAssumption DEF TypeOK

LEMMA AskKeepsPages ==
    ASSUME PagesInv, NEW p \in Tab, NEW kind \in Kinds, Ask(p, kind)
    PROVE  PagesInv'
<1> DEFINE w == [at |-> "gateway", kind |-> kind, sent |-> CookiesOf(kind), set |-> <<>>]
<1>1. /\ page[p].at # "auth" /\ page' = [page EXCEPT ![p] = w]
      /\ UNCHANGED <<authVars, jar, stale, excused>> /\ session' \in {session, NoToken}
  BY DEF Ask, ShouldKeep
<1>2. jar \in Jar /\ jar.refresh \in 0..Len(tokens) /\ JarOK'
  <2>1. JarOK /\ Len(tokens) \in Nat
    BY PagesFacts
  <2>2. QED
    BY <1>1, <2>1 DEF JarOK, authVars, NoToken
<1>3. CookiesOf(kind) \in Jar /\ CookiesOf(kind).refresh \in 0..Len(tokens)
  <2>1. NoJar \in Jar /\ NoJar.refresh \in 0..Len(tokens)
    BY PagesFacts DEF NoJar, Jar, NoToken
  <2>2. CookiesOf(kind) \in {jar, [jar EXCEPT !.access = NoToken], NoJar}
    BY DEF CookiesOf
  <2>3. /\ [jar EXCEPT !.access = NoToken] \in Jar
        /\ [jar EXCEPT !.access = NoToken].refresh \in 0..Len(tokens)
    BY <1>2 DEF Jar, NoToken
  <2>4. \A c \in {jar, [jar EXCEPT !.access = NoToken], NoJar} :
           c \in Jar /\ c.refresh \in 0..Len(tokens)
    BY <1>2, <2>1, <2>3
  <2>5. QED
    BY <2>2, <2>4
<1>4. w \in PageRow
  BY <1>3 DEF PageRow
<1>5. QED
  BY <1>1, <1>2, <1>3, <1>4, TabPages

\* The responses that bring no token.
LEMMA BringsNone ==
    ASSUME NEW p, Refused(p) \/ Keep(p) \/ clearAuthCookies(p)
    PROVE  \E cookies \in {<<>>, <<NoJar>>} : Finish(p, cookies)
BY DEF Refused, Keep, clearAuthCookies

LEMMA RestKeepPages ==
    ASSUME PagesInv, NEW p \in Tab,
           CallGateway(p) \/ NotAsked(p) \/ Respond(p) \/ Lose(p)
    PROVE  PagesInv'
<1>0. JarOK /\ Len(tokens) \in Nat /\ WebTypeOK /\ TabInv(p)
  BY PagesFacts DEF PagesInv
<1>1. CASE CallGateway(p) \/ NotAsked(p)
  <2>1. /\ page[p].at = "gateway" /\ UNCHANGED <<authVars, jar, stale>>
        /\ excused' \in BOOLEAN /\ session' \in {session, NoToken}
        /\ \E cookies \in {<<>>, <<NoJar>>} : Finish(p, cookies)
    BY <1>0, <1>1, BringsNone DEF CallGateway, NotAsked, ShouldKeep, AfterFailure, JarOK
  <2>2. PICK cookies \in {<<>>, <<NoJar>>} : Finish(p, cookies)
    BY <2>1
  <2>3. PICK set \in {<<>>, <<NoJar>>} :
           page' = [page EXCEPT ![p] = [at |-> "respond", kind |-> "none",
                                        sent |-> NoJar, set |-> set]]
    <3>1. page'[p].set \in {<<>>, <<NoJar>>}
      BY <1>0, <2>2, Finished
    <3>2. page' = [page EXCEPT ![p] = page'[p]]
      BY <1>0, <2>2, Finished
    <3>3. page'[p] = [at |-> "respond", kind |-> "none", sent |-> NoJar,
                      set |-> page'[p].set]
      BY <1>0, <2>2, Finished
    <3>4. QED
      BY <3>1, <3>2, <3>3
  <2> DEFINE w == [at |-> "respond", kind |-> "none", sent |-> NoJar, set |-> set]
  <2>4. set = <<>> \/ \E t \in 0..Len(tokens) : set = <<Pair(t)>>
    BY <1>0, NoJarIsPair
  <2>5. w \in PageRow
    BY <1>0, <2>4, RespondRow
  <2>6. NoJar.refresh \in 0..Len(tokens)
    BY <1>0 DEF NoJar, NoToken
  <2>7. JarOK'
    BY <1>0, <2>1 DEF JarOK, authVars, NoToken
  <2>8. QED
    BY <2>1, <2>3, <2>4, <2>5, <2>6, <2>7, TabPages
<1>2. CASE Respond(p) \/ Lose(p)
  <2>1. /\ page[p].at = "respond" /\ page' = [page EXCEPT ![p] = Idle]
        /\ UNCHANGED <<authVars, stale>> /\ excused' \in BOOLEAN
        /\ jar' = jar \/ (page[p].set # <<>> /\ jar' = page[p].set[1])
        /\ session' \in {session, NoToken} \/ (page[p].set # <<>> /\ session' = page[p].set[1].refresh)
    BY <1>0, <1>2 DEF Respond, Lose, JarOK, ShouldKeep
  <2>2. /\ jar' \in Jar /\ jar'.access \in {NoToken, jar'.refresh}
        /\ jar'.refresh \in 0..Len(tokens) /\ session' \in 0..Len(tokens)
    <3>1. page[p].set # <<>> =>
             /\ page[p].set[1] \in Jar
             /\ page[p].set[1].access = page[p].set[1].refresh
             /\ page[p].set[1].refresh \in 0..Len(tokens)
      <4>1. page[p].set # <<>> => \E t \in 0..Len(tokens) : page[p].set[1] = Pair(t)
        BY <1>0 DEF TabInv
      <4>2. \A t \in 0..Len(tokens) : /\ Pair(t) \in Jar /\ Pair(t).access = Pair(t).refresh
                                      /\ Pair(t).refresh \in 0..Len(tokens)
        BY <1>0 DEF Pair, Jar
      <4>3. QED
        BY <4>1, <4>2
    <3>2. jar' \in Jar /\ jar'.access \in {NoToken, jar'.refresh} /\ jar'.refresh \in 0..Len(tokens)
      BY <1>0, <2>1, <3>1 DEF JarOK
    <3>3. session' \in 0..Len(tokens)
      BY <1>0, <2>1, <3>1 DEF JarOK, NoToken
    <3>4. QED
      BY <3>2, <3>3
  <2>3. JarOK'
    BY <1>0, <2>1, <2>2 DEF JarOK, authVars
  <2>4. Idle \in PageRow /\ Idle.sent.refresh \in 0..Len(tokens) /\ Idle.set = <<>>
        /\ Idle.at = "idle"
    BY <1>0 DEF PageRow, Idle, NoJar, NoToken
  <2>5. QED
    BY <2>1, <2>3, <2>4, TabPages
<1>3. QED
  BY <1>1, <1>2

LEMMA ClockKeepsPages ==
    ASSUME PagesInv, ExpireAccess \/ DropCookies
    PROVE  PagesInv'
<1>0. JarOK /\ Len(tokens) \in Nat /\ expired \in 0..Len(tokens)
  BY PagesFacts
<1>1. CASE ExpireAccess
  <2>1. JarOK'
    BY <1>0, <1>1 DEF ExpireAccess, JarOK, authVars
  <2>2. QED
    BY <1>1, <2>1, StillPages DEF ExpireAccess
<1>2. CASE DropCookies
  <2>1. jar' \in Jar /\ jar'.access \in {NoToken, jar'.refresh} /\ jar'.refresh \in 0..Len(tokens)
    BY <1>0, <1>2 DEF DropCookies, JarOK, Jar, NoJar, NoToken
  <2>2. JarOK'
    BY <1>0, <1>2, <2>1 DEF DropCookies, JarOK, authVars
  <2>3. QED
    BY <1>2, <2>2, StillPages DEF DropCookies
<1>3. QED
  BY <1>1, <1>2

\* Auth is asked on behalf of a tab.
LEMMA AskAuthKeepsPages ==
    ASSUME PagesInv, NEW p \in Tab, page[p].at = "gateway", AskAuth(p), TablesInv',
           NEW op, NEW u, NEW t, NEW label \in Busy, Begin(p, op, u, t, label),
           page[p].kind \in Serves[op]
    PROVE  PagesInv'
<1>0. /\ WebTypeOK /\ JarOK /\ page \in [Tab -> PageRow] /\ Len(tokens) \in Nat
      /\ pc \in [Request -> Busy \cup {"idle"}] /\ Tab \subseteq Request
      /\ call \in [Request -> Call \cup {NoCall}]
  BY PagesFacts
<1> DEFINE w == [page[p] EXCEPT !.at = "auth", !.sent = NoJar]
<1>1. /\ pc[p] = "idle" /\ pc' = [pc EXCEPT ![p] = label]
      /\ call' = [call EXCEPT ![p] = [op |-> op, user |-> u, token |-> t]]
      /\ UNCHANGED <<tokens, expired>>
  BY DEF Begin, Goto
<1>2. /\ page' = [page EXCEPT ![p] = w] /\ UNCHANGED <<jar, stale>>
      /\ excused' \in BOOLEAN /\ session' \in 0..Len(tokens)
  <2>1. /\ page' = [page EXCEPT ![p] = w] /\ UNCHANGED <<jar, stale>>
        /\ excused' = (excused \/ Overlaps(p) \/ ~CanSetCookies(p))
        /\ session' \in {session, NoToken}
    BY <1>0 DEF AskAuth, WebTypeOK, ShouldKeep
  <2>2. excused \in BOOLEAN /\ session \in 0..Len(tokens)
    BY <1>0 DEF JarOK
  <2>3. excused' \in BOOLEAN
    BY <2>1, <2>2
  <2>4. session' \in 0..Len(tokens)
    BY <1>0, <2>1, <2>2 DEF NoToken
  <2>5. QED
    BY <2>1, <2>3, <2>4
<1>3. page[p] \in [at : {"gateway", "auth", "respond"}, kind : Kinds \cup {"none"},
                   sent : Jar, set : Seq(Jar)]
  BY <1>0 DEF PageRow, Idle
<1>4. w \in PageRow /\ w.at = "auth" /\ w.kind = page[p].kind /\ w.set = page[p].set
      /\ w.sent = NoJar
  BY <1>3 DEF PageRow, NoJar, Jar, NoToken
<1>5. /\ page' \in [Tab -> PageRow] /\ page'[p] = w
      /\ \A q \in Tab \ {p} : page'[q] = page[q]
  BY <1>0, <1>2, <1>4, PageTyped
<1>6. WebTypeOK'
  BY <1>0, <1>1, <1>2, <1>5 DEF WebTypeOK, JarOK, PageRow, TablesInv
<1>7. \A q \in Request \ {p} : pc'[q] = pc[q] /\ call'[q] = call[q]
  BY <1>0, <1>1
<1>8. \A q \in Tab \ {p} : TabInv(q)'
  BY <1>0, <1>1, <1>5, <1>7 DEF PagesInv, TabInv
<1>9. TabInv(p)'
  <2>1. pc'[p] = label /\ call'[p].op = op /\ label # "idle"
    BY <1>0, <1>1 DEF Busy
  <2>2. page[p].set = <<>>
    BY DEF PagesInv, TabInv
  <2>3. NoJar.refresh \in 0..Len(tokens)
    BY <1>0 DEF NoJar, NoToken
  <2>4. QED
    BY <1>1, <1>4, <1>5, <2>1, <2>2, <2>3 DEF TabInv
<1>10. \A r \in Request \ Tab : DeviceInv(r)'
  BY <1>7 DEF PagesInv, DeviceInv
<1>11. QED
  BY <1>6, <1>8, <1>9, <1>10 DEF PagesInv

\* Auth works on a tab's request, and answers it in the end.
LEMMA AuthStepKeepsPages ==
    ASSUME PagesInv, NEW p \in Tab, AuthStep(p), TablesInv'
    PROVE  PagesInv'
<1>0. /\ WebTypeOK /\ JarOK /\ page \in [Tab -> PageRow] /\ TablesInv
      /\ p \in Request /\ TabInv(p) /\ expired \in 0..Len(tokens)
  BY PagesFacts DEF PagesInv
<1>1. /\ pc[p] # "idle" /\ expired' = expired /\ page[p].at = "auth"
      /\ \A q \in Request \ {p} : pc'[q] = pc[q] /\ call'[q] = call[q]
      /\ pc'[p] # "idle" => call'[p].op = call[p].op
      /\ Len(tokens) \in Nat /\ Len(tokens') \in Nat /\ Len(tokens) <= Len(tokens')
  BY <1>0, ServiceStep DEF AuthStep
<1>2. 0..Len(tokens) \subseteq 0..Len(tokens') /\ expired' \in 0..Len(tokens')
  BY <1>0, <1>1
<1>3. JarOK'
  <2>1. excused' \in BOOLEAN
    <3>1. excused \in BOOLEAN
      BY <1>0 DEF JarOK
    <3>2. \/ excused' = excused \/ excused' = TRUE
          \/ excused' = (excused \/ page[p].kind = "refresh"
                                 \/ (page[p].kind = "login" /\ pc[p] = "issue"))
      BY DEF AuthStep
    <3>3. QED
      BY <3>1, <3>2
  <2>2. UNCHANGED <<jar, stale>>
    BY DEF AuthStep
  <2>3. session' \in {session, NoToken}
    BY DEF AuthStep, ShouldKeep, AfterFailure
  <2>4. session' \in 0..Len(tokens')
    BY <1>0, <1>1, <1>2, <2>3 DEF JarOK, NoToken
  <2>5. QED
    BY <1>0, <1>1, <1>2, <2>1, <2>2, <2>4 DEF JarOK
<1>4. \A r \in Request \ Tab : DeviceInv(r)'
  BY <1>1 DEF PagesInv, DeviceInv
<1>5. CASE page' = page /\ pc'[p] # "idle"
  <2>1. WebTypeOK'
    BY <1>0, <1>3, <1>5 DEF WebTypeOK, JarOK, PageRow, TablesInv
  <2>2. \A q \in Tab : TabInv(q)'
    BY <1>0, <1>1, <1>2, <1>5, PagesFacts DEF PagesInv, TabInv
  <2>3. QED
    BY <1>4, <2>1, <2>2 DEF PagesInv
<1>6. ASSUME pc'[p] = "idle", NEW t \in 0..Len(tokens'), NEW set \in {<<>>, <<Pair(t)>>},
             page' = [page EXCEPT ![p] = [at |-> "respond", kind |-> "none",
                                          sent |-> NoJar, set |-> set]]
      PROVE  PagesInv'
  <2> DEFINE w == [at |-> "respond", kind |-> "none", sent |-> NoJar, set |-> set]
  <2>1. w \in PageRow
    BY <1>1, RespondRow
  <2>2. /\ page' \in [Tab -> PageRow] /\ page'[p] = w
        /\ \A q \in Tab \ {p} : page'[q] = page[q]
    BY <1>0, <1>6, <2>1, PageTyped
  <2>3. WebTypeOK'
    BY <1>0, <1>3, <2>2 DEF WebTypeOK, JarOK, PageRow, TablesInv
  <2>4. TabInv(p)'
    BY <1>1, <1>6, <2>2 DEF TabInv, NoJar, NoToken
  <2>5. \A q \in Tab \ {p} : TabInv(q)'
    BY <1>0, <1>1, <1>2, <2>2, PagesFacts DEF PagesInv, TabInv
  <2>6. QED
    BY <1>4, <2>3, <2>4, <2>5 DEF PagesInv
<1>7. ASSUME pc'[p] = "idle", NEW t \in 0..Len(tokens'), Finish(p, <<>>) \/ Finish(p, <<Pair(t)>>)
      PROVE  PagesInv'
  <2>1. PICK set : set = page'[p].set
    OBVIOUS
  <2>2. set \in {<<>>, <<Pair(t)>>}
    BY <1>0, <1>7, <2>1, Finished
  <2>3. page' = [page EXCEPT ![p] = page'[p]]
    BY <1>0, <1>7, Finished
  <2>4. page'[p] = [at |-> "respond", kind |-> "none", sent |-> NoJar, set |-> set]
    BY <1>0, <1>7, <2>1, Finished
  <2>5. QED
    BY <1>6, <1>7, <2>2, <2>3, <2>4
<1>8. CASE pc'[p] = "idle"
  <2>1. \/ setAuthCookies(p, Len(tokens'))
        \/ Refused(p) \/ Keep(p) \/ clearAuthCookies(p)
    BY <1>8 DEF AuthStep
  <2>2. CASE setAuthCookies(p, Len(tokens'))
    <3>1. PICK t \in 0..Len(tokens') : t = Len(tokens')
      BY <1>1
    <3>2. Finish(p, <<Pair(t)>>)
      BY <2>2, <3>1 DEF setAuthCookies, Pair
    <3>3. QED
      BY <1>7, <1>8, <3>2
  <2>3. CASE Refused(p) \/ Keep(p) \/ clearAuthCookies(p)
    <3>1. Finish(p, <<>>) \/ Finish(p, <<Pair(0)>>)
      BY <2>3, BringsNone, NoJarIsPair
    <3>2. 0 \in 0..Len(tokens')
      BY <1>1
    <3>3. QED
      BY <1>7, <1>8, <3>1, <3>2
  <2>4. QED
    BY <2>1, <2>2, <2>3
<1>9. QED
  BY <1>5, <1>8 DEF AuthStep

LEMMA DeviceKeepsPages ==
    ASSUME PagesInv, NEW r \in Request \ Tab, DeviceStep(r), TablesInv'
    PROVE  PagesInv'
<1>0. /\ WebTypeOK /\ JarOK /\ page \in [Tab -> PageRow] /\ TablesInv
      /\ Tab \subseteq Request /\ expired \in 0..Len(tokens) /\ Len(tokens) \in Nat
      /\ pc \in [Request -> Busy \cup {"idle"}]
      /\ call \in [Request -> Call \cup {NoCall}]
  BY PagesFacts
<1>1. /\ \A q \in Request \ {r} : pc'[q] = pc[q] /\ call'[q] = call[q]
      /\ Len(tokens') \in Nat /\ Len(tokens) <= Len(tokens') /\ expired' = expired
      /\ DeviceInv(r)'
  <2>1. CASE \E u \in User : BeginLogin(r, u)
    <3>1. PICK u \in User : BeginLogin(r, u)
      BY <2>1
    <3>2. /\ pc' = [pc EXCEPT ![r] = "findUser"] /\ tokens' = tokens /\ expired' = expired
          /\ call' = [call EXCEPT ![r] = [op |-> "login", user |-> u, token |-> NoToken]]
      BY <3>1 DEF BeginLogin, Begin, Goto
    <3>3. QED
      BY <1>0, <3>2 DEF DeviceInv
  <2>2. CASE Advance(r) \/ Abort(r)
    BY <1>0, <2>2, ServiceStep DEF PagesInv, DeviceInv
  <2>3. QED
    BY <2>1, <2>2 DEF DeviceStep
<1>2. UNCHANGED <<jar, stale, page>> /\ excused' \in BOOLEAN /\ session' \in 0..Len(tokens)
  BY <1>0 DEF DeviceStep, JarOK, ShouldKeep, NoToken
<1>3. 0..Len(tokens) \subseteq 0..Len(tokens') /\ expired' \in 0..Len(tokens')
  BY <1>0, <1>1
<1>4. JarOK'
  BY <1>0, <1>1, <1>2, <1>3 DEF JarOK
<1>5. WebTypeOK'
  BY <1>0, <1>2, <1>4 DEF WebTypeOK, JarOK, PageRow, TablesInv
<1>6. \A p \in Tab : TabInv(p)'
  BY <1>0, <1>1, <1>2, <1>3 DEF PagesInv, TabInv
<1>7. \A q \in Request \ Tab : DeviceInv(q)'
  BY <1>1 DEF PagesInv, DeviceInv
<1>8. QED
  BY <1>5, <1>6, <1>7 DEF PagesInv

LEMMA ExpiryKeepsPages ==
    ASSUME PagesInv, ExpireRefresh, TablesInv'
    PROVE  PagesInv'
<1>0. /\ WebTypeOK /\ JarOK /\ page \in [Tab -> PageRow]
      /\ expired \in 0..Len(tokens) /\ Len(tokens) \in Nat
  BY PagesFacts
<1>1. /\ UNCHANGED <<tokens, pc, call, jar, stale, page, excused, session>>
      /\ expired' = expired + 1 /\ expired < stale
  BY DEF ExpireRefresh, Expire, webVars
<1>2. JarOK'
  BY <1>0, <1>1 DEF JarOK
<1>3. WebTypeOK'
  BY <1>0, <1>1, <1>2 DEF WebTypeOK, JarOK, PageRow, TablesInv
<1>4. \A p \in Tab : TabInv(p)'
  BY <1>1 DEF PagesInv, TabInv
<1>5. \A r \in Request \ Tab : DeviceInv(r)'
  BY <1>1 DEF PagesInv, DeviceInv
<1>6. QED
  BY <1>3, <1>4, <1>5 DEF PagesInv

\* What the web server and the devices ask of Auth, clients may ask.
LEMMA WebUsesAuth == PagesInv /\ [WebNext]_vars => [Next]_authVars
<1> SUFFICES ASSUME PagesInv, [WebNext]_vars
             PROVE  [Next]_authVars
  OBVIOUS
<1>1. Tab \subseteq Request /\ JarOK
  BY PagesFacts
<1>2. CASE UNCHANGED vars
  BY <1>2 DEF vars
<1>3. ASSUME NEW p \in Tab, TryRefresh(p) \/ RefreshRoute(p) \/ logoutAction(p)
      PROVE  Next
  <2>1. page[p].sent.refresh \in 0..Len(tokens)
    BY DEF PagesInv, TabInv
  <2>2. BeginRefresh(p, page[p].sent.refresh) \/ BeginLogout(p, page[p].sent.refresh)
    BY <1>3 DEF TryRefresh, RefreshRoute, logoutAction
  <2>3. QED
    BY <1>1, <2>1, <2>2 DEF Next
<1>4. ASSUME NEW p \in Tab, LoginRoute(p) \/ RegisterRoute(p) \/ AuthStep(p)
      PROVE  Next
  BY <1>1, <1>4 DEF LoginRoute, RegisterRoute, AuthStep, Next
<1>5. ASSUME NEW r \in Request \ Tab, DeviceStep(r)
      PROVE  Next
  BY <1>5 DEF DeviceStep, Next
<1>6. CASE ExpireRefresh
  BY <1>6 DEF ExpireRefresh, Next
<1>7. ASSUME NEW p \in Tab,
             \/ \E kind \in Kinds : Send(p, kind)
             \/ SubmitLogin(p) \/ SubmitRegister(p)
             \/ CallGateway(p) \/ NotAsked(p)
             \/ Respond(p) \/ Lose(p)
      PROVE  UNCHANGED authVars
  BY <1>7 DEF Send, SubmitLogin, SubmitRegister, Ask, CallGateway, NotAsked,
                Respond, Lose
<1>8. CASE ExpireAccess \/ DropCookies
  BY <1>8 DEF ExpireAccess, DropCookies
<1>9. QED
  BY <1>2, <1>3, <1>4, <1>5, <1>6, <1>7, <1>8 DEF WebNext

LEMMA AsksKeepPages ==
    ASSUME PagesInv, NEW p \in Tab, TablesInv',
           \/ TryRefresh(p) \/ RefreshRoute(p) \/ LoginRoute(p) \/ RegisterRoute(p)
           \/ logoutAction(p)
    PROVE  PagesInv'
<1>1. page[p].at = "gateway" /\ AskAuth(p)
  BY DEF TryRefresh, RefreshRoute, LoginRoute, RegisterRoute, logoutAction, HasRefreshToken
<1>2. /\ "findUser" \in Busy /\ "findToken" \in Busy
      /\ Serves["login"] = {"login"} /\ Serves["register"] = {"register"}
      /\ Serves["logout"] = {"logout"} /\ Serves["refresh"] = {"render", "action", "refresh"}
  BY DEF Busy, Serves
<1>3. CASE TryRefresh(p) \/ RefreshRoute(p)
  <2>1. page[p].kind \in Serves["refresh"] /\ BeginRefresh(p, page[p].sent.refresh)
    BY <1>2, <1>3 DEF TryRefresh, RefreshRoute
  <2>2. PICK u, t : Begin(p, "refresh", u, t, "findToken")
    BY <2>1 DEF BeginRefresh
  <2>3. QED
    BY <1>1, <1>2, <2>1, <2>2, AskAuthKeepsPages
<1>4. CASE LoginRoute(p)
  <2>1. PICK u \in User : BeginLogin(p, u)
    BY <1>4 DEF LoginRoute
  <2>2. PICK t : Begin(p, "login", u, t, "findUser")
    BY <2>1 DEF BeginLogin
  <2>3. page[p].kind \in Serves["login"]
    BY <1>2, <1>4 DEF LoginRoute
  <2>4. QED
    BY <1>1, <1>2, <2>2, <2>3, AskAuthKeepsPages
<1>5. CASE RegisterRoute(p)
  <2>1. PICK u \in User : BeginRegister(p, u)
    BY <1>5 DEF RegisterRoute
  <2>2. PICK t : Begin(p, "register", u, t, "findUser")
    BY <2>1 DEF BeginRegister
  <2>3. page[p].kind \in Serves["register"]
    BY <1>2, <1>5 DEF RegisterRoute
  <2>4. QED
    BY <1>1, <1>2, <2>2, <2>3, AskAuthKeepsPages
<1>6. CASE logoutAction(p)
  <2>1. page[p].kind \in Serves["logout"] /\ BeginLogout(p, page[p].sent.refresh)
    BY <1>2, <1>6 DEF logoutAction
  <2>2. PICK u, t : Begin(p, "logout", u, t, "findToken")
    BY <2>1 DEF BeginLogout
  <2>3. QED
    BY <1>1, <1>2, <2>1, <2>2, AskAuthKeepsPages
<1>7. QED
  BY <1>3, <1>4, <1>5, <1>6

LEMMA WebKeepsPages == PagesInv /\ [WebNext]_vars => PagesInv'
<1> SUFFICES ASSUME PagesInv, [WebNext]_vars
             PROVE  PagesInv'
  OBVIOUS
<1>1. TablesInv'
  BY WebUsesAuth, NextKeepsTables DEF PagesInv
<1>2. CASE UNCHANGED vars
  <2>1. UNCHANGED <<authVars, page>> /\ UNCHANGED <<jar, stale, excused, session, tokens, expired>>
    BY <1>2 DEF vars, webVars, authVars
  <2>2. JarOK'
    BY <2>1, PagesFacts DEF JarOK
  <2>3. QED
    BY <2>1, <2>2, StillPages
<1>3. ASSUME NEW p \in Tab,
             \/ \E kind \in Kinds : Send(p, kind)
             \/ SubmitLogin(p) \/ SubmitRegister(p)
      PROVE  PagesInv'
  <2>1. PICK kind \in Kinds : Ask(p, kind)
    BY <1>3 DEF Send, SubmitLogin, SubmitRegister, Ask
  <2>2. QED
    BY <2>1, AskKeepsPages
<1>4. ASSUME NEW p \in Tab,
             CallGateway(p) \/ NotAsked(p) \/ AuthStep(p) \/ Respond(p) \/ Lose(p)
      PROVE  PagesInv'
  BY <1>1, <1>4, RestKeepPages, AuthStepKeepsPages
<1>5. QED
  BY <1>1, <1>2, <1>3, <1>4, AsksKeepPages, DeviceKeepsPages, ExpiryKeepsPages,
     ClockKeepsPages DEF WebNext

LEMMA InitPages == WebInit => PagesInv
<1> SUFFICES ASSUME WebInit
             PROVE  PagesInv
  OBVIOUS
<1>1. TablesInv /\ Len(tokens) = 0 /\ expired = 0
  BY InitTables DEF WebInit, Init
<1>2. /\ Idle \in PageRow /\ Idle.at = "idle" /\ Idle.set = <<>> /\ Idle.sent = NoJar
      /\ NoJar \in Jar /\ NoJar.access = 0 /\ NoJar.refresh = 0
  BY DEF PageRow, Idle, NoJar, Jar, NoToken
<1>3. /\ jar = NoJar /\ stale = 0 /\ page = [p \in Tab |-> Idle] /\ excused = FALSE
      /\ session = 0
      /\ pc = [r \in Request |-> "idle"]
  BY DEF WebInit, Init, NoToken
<1>4. WebTypeOK
  <2>1. JarOK
    <3>1. jar \in Jar /\ jar.access \in {NoToken, jar.refresh} /\ jar.refresh \in 0..Len(tokens)
      BY <1>1, <1>2, <1>3
    <3>2. stale \in expired..Len(tokens)
      BY <1>1, <1>3
    <3>3. excused \in BOOLEAN
      BY <1>3
    <3>4. session \in 0..Len(tokens)
      BY <1>1, <1>3
    <3>5. QED
      BY <3>1, <3>2, <3>3, <3>4 DEF JarOK
  <2>2. page \in [Tab -> PageRow]
    BY <1>2, <1>3
  <2>3. QED
    BY <1>1, <2>1, <2>2, WebTypes DEF TablesInv
<1>5. \A p \in Tab : TabInv(p)
  BY <1>1, <1>2, <1>3, WebAssumption DEF TabInv
<1>6. \A r \in Request \ Tab : DeviceInv(r)
  BY <1>3 DEF DeviceInv
<1>7. QED
  BY <1>1, <1>4, <1>5, <1>6 DEF PagesInv

\* The browser, its pages and its responses keep their types.
THEOREM WebTypeCorrect == WebSpec => []WebTypeOK
<1>1. PagesInv => WebTypeOK
  BY DEF PagesInv
<1>2. QED
  BY <1>1, InitPages, WebKeepsPages, PTL DEF WebSpec

\* A browser and its devices are clients of Auth like any others: what is
\* proved of Auth holds of the sessions of a browser.
THEOREM WebImplementsAuth == WebSpec => Spec
<1>1. WebInit => Init
  BY DEF WebInit
<1>2. QED
  BY <1>1, InitPages, WebKeepsPages, WebUsesAuth, PTL DEF WebSpec, Spec
-----------------------------------------------------------------------------
\* Tokens that are there stay as good as they are.
GoodStays ==
    /\ Len(tokens) \in Nat
    /\ \A t \in 0..Len(tokens) : Good(t) => Good(t)'

LEMMA SameTokensGood ==
    ASSUME PagesInv, tokens' = tokens
    PROVE  GoodStays
BY PagesFacts DEF GoodStays, Good

LEMMA PendingToken ==
    ASSUME PagesInv, NEW p \in Tab, Pending(p)
    PROVE  /\ page[p].set # <<>> /\ page[p].at = "respond" /\ pc[p] = "idle"
           /\ page[p].set[1].refresh \in 0..Len(tokens)
<1>1. TabInv(p) /\ page[p].set # <<>>
  BY DEF PagesInv, Pending
<1>2. PICK t \in 0..Len(tokens) : page[p].set = <<Pair(t)>>
  BY <1>1 DEF TabInv
<1>3. page[p].set[1].refresh = t
  BY <1>2 DEF Pair
<1>4. QED
  BY <1>1, <1>3 DEF TabInv

\* What the invariant of one tab asks for when its request does not move.
LEMMA ChangeStays ==
    ASSUME PagesInv, GoodStays, NEW p \in Tab, ChangeInv(p), page'[p] = page[p],
           pc'[p] = pc[p], call'[p] = call[p], Good(jar.refresh) => Good(jar.refresh)'
    PROVE  ChangeInv(p)'
<1>1. Pending(p) => page[p].set[1].refresh \in 0..Len(tokens)
  BY PendingToken
<1>2. Pending(p)' <=> Pending(p)
  BY DEF Pending
<1>3. Pending(p) => Good(page[p].set[1].refresh)'
  <2>1. SUFFICES ASSUME Pending(p)
                 PROVE  Good(page[p].set[1].refresh)'
    OBVIOUS
  <2>2. PICK t \in 0..Len(tokens) : t = page[p].set[1].refresh
    BY <1>1, <2>1
  <2>3. Good(t)'
    BY <2>1, <2>2 DEF ChangeInv, GoodStays
  <2>4. QED
    BY <2>2, <2>3 DEF Good
<1>4. pc[p] = "findToken" => Good(call[p].token)'
  <2>1. SUFFICES ASSUME pc[p] = "findToken"
                 PROVE  Good(call[p].token)'
    OBVIOUS
  <2>2. p \in Request
    BY PagesFacts
  <2>3. call[p].token \in 0..Len(tokens)
    BY <2>1, <2>2 DEF PagesInv, TablesInv, RequestInv
  <2>4. PICK t \in 0..Len(tokens) : t = call[p].token
    BY <2>3
  <2>5. Good(t)'
    BY <2>1, <2>4 DEF ChangeInv, GoodStays
  <2>6. QED
    BY <2>4, <2>5 DEF Good
<1>5. page'[p].at = "auth" /\ page'[p].kind \in {"login", "register"} =>
         Good(jar.refresh)' \/ (page'[p].kind = "login" /\ pc'[p] = "issue")
  BY DEF ChangeInv
<1>6. Pending(p)' => Good(page[p].set[1].refresh)'
  BY <1>2, <1>3
<1>7. pc'[p] = "findToken" => Good(call[p].token)'
  BY <1>4
<1>8. QED
  BY <1>5, <1>6, <1>7 DEF ChangeInv

\* A tab that is not changing the session has nothing to rely on.
LEMMA UnchangingInv ==
    ASSUME PagesInv, NEW p \in Tab, ~Changing(p)
    PROVE  pc[p] = "idle" /\ page[p].at # "auth" /\ page[p].set = <<>> /\ ~Pending(p)
BY DEF PagesInv, TabInv, Changing, Pending

\* Steps of other than the tabs.
LEMMA NoTabMoves ==
    ASSUME PagesInv, LoneInv, GoodStays, Good(jar.refresh) => Good(jar.refresh)',
           page' = page, \A p \in Tab : pc'[p] = pc[p] /\ call'[p] = call[p]
    PROVE  LoneInv'
<1>1. \A p \in Tab : ChangeInv(p)'
  BY ChangeStays DEF LoneInv
<1>2. \A p \in Tab : Changing(p)' <=> Changing(p)
  BY DEF Changing
<1>3. Quiet' <=> Quiet
  BY <1>2 DEF Quiet
<1>4. QED
  BY <1>1, <1>2, <1>3 DEF LoneInv

\* Steps that make no tab start to change the session.
LEMMA TabMoves ==
    ASSUME PagesInv, LoneInv, GoodStays, Good(jar.refresh) => Good(jar.refresh)',
           NEW p \in Tab,
           \A q \in Tab \ {p} : page'[q] = page[q] /\ pc'[q] = pc[q] /\ call'[q] = call[q],
           page'[p].at # "auth", page'[p].set = <<>>, pc'[p] = "idle",
           Quiet' => Good(jar.refresh)'
    PROVE  LoneInv'
<1>1. ~Changing(p)' /\ ChangeInv(p)'
  BY DEF Changing, Pending, ChangeInv
<1>2. \A q \in Tab \ {p} : ChangeInv(q)' /\ (Changing(q)' <=> Changing(q))
  BY ChangeStays DEF LoneInv, Changing
<1>3. QED
  BY <1>1, <1>2 DEF LoneInv

\* Steps of the tab that changes the session, or starts to while none does.
LEMMA ChangerMoves ==
    ASSUME PagesInv, LoneInv, NEW p \in Tab,
           \A q \in Tab \ {p} : ~Changing(q),
           \A q \in Tab \ {p} : page'[q] = page[q] /\ pc'[q] = pc[q] /\ call'[q] = call[q],
           Quiet' => Good(jar.refresh)', ChangeInv(p)'
    PROVE  LoneInv'
<1>1. \A q \in Tab \ {p} : /\ pc'[q] = "idle" /\ page'[q].at # "auth" /\ ~Pending(q)'
                           /\ ~Changing(q)'
  <2>1. \A q \in Tab \ {p} : pc[q] = "idle" /\ page[q].at # "auth" /\ ~Pending(q)
    BY UnchangingInv
  <2>2. QED
    BY <2>1 DEF Pending, Changing
<1>2. \A q \in Tab \ {p} : ChangeInv(q)'
  BY <1>1 DEF ChangeInv
<1>3. QED
  BY <1>1, <1>2 DEF LoneInv

LEMMA AskKeepsLone ==
    ASSUME PagesInv, LoneInv, NEW p \in Tab, NEW kind, Ask(p, kind)
    PROVE  LoneInv'
<1>0. WebTypeOK /\ TabInv(p)
  BY PagesFacts DEF PagesInv
<1>1. /\ page[p].at = "idle" /\ page'[p].at = "gateway" /\ page'[p].set = <<>>
      /\ \A q \in Tab \ {p} : page'[q] = page[q]
      /\ UNCHANGED <<tokens, pc, call, jar>>
  BY <1>0 DEF Ask, WebTypeOK, authVars
<1>2. pc[p] = "idle" /\ page[p].set = <<>>
  BY <1>0, <1>1 DEF TabInv
<1>3. Quiet' => Quiet
  BY <1>1, <1>2 DEF Quiet, Changing
<1>4. Good(jar.refresh) => Good(jar.refresh)'
  BY <1>1 DEF Good
<1>5. GoodStays
  BY <1>1, SameTokensGood
<1>6. QED
  BY <1>1, <1>2, <1>3, <1>4, <1>5, TabMoves DEF LoneInv

LEMMA RestKeepLone ==
    ASSUME PagesInv, LoneInv, ~excused', NEW p \in Tab,
           CallGateway(p) \/ NotAsked(p) \/ Respond(p) \/ Lose(p)
    PROVE  LoneInv'
<1>0. WebTypeOK /\ TabInv(p)
  BY PagesFacts DEF PagesInv
<1>1. UNCHANGED <<tokens, pc, call>> /\ page[p].at \in {"gateway", "respond"}
  BY DEF CallGateway, NotAsked, Respond, Lose, authVars
<1>2. pc[p] = "idle" /\ GoodStays
  BY <1>0, <1>1, SameTokensGood DEF TabInv
<1>3. CASE CallGateway(p) \/ NotAsked(p)
  <2>1. page[p].at = "gateway" /\ jar' = jar /\ page[p].set = <<>>
    BY <1>0, <1>3 DEF CallGateway, NotAsked, TabInv
  <2>2. PICK cookies \in {<<>>, <<NoJar>>} :
           /\ Finish(p, cookies)
           /\ cookies # <<>> /\ page[p].kind # "render" => ~Overlaps(p)
    <3>1. CASE CallGateway(p)
      BY <3>1 DEF CallGateway, Keep
    <3>2. CASE NotAsked(p)
      BY <3>2 DEF NotAsked, Refused, Keep, clearAuthCookies
    <3>3. QED
      BY <1>3, <3>1, <3>2
  <2>3. /\ page'[p].at = "respond"
        /\ page'[p].set = IF page[p].kind = "render" THEN <<>> ELSE cookies
        /\ \A q \in Tab \ {p} : page'[q] = page[q]
    BY <1>0, <2>2, Finished
  <2>4. Good(jar.refresh) => Good(jar.refresh)'
    BY <1>1, <2>1 DEF Good
  <2>5. CASE page'[p].set = <<>>
    <3>1. Quiet' => Quiet
      BY <2>1, <2>3, <2>5 DEF Quiet, Changing
    <3>2. QED
      BY <1>1, <1>2, <2>3, <2>4, <2>5, <3>1, TabMoves DEF LoneInv
  <2>6. CASE page'[p].set # <<>>
    <3>1. ~Overlaps(p) /\ page'[p].set = <<NoJar>>
      BY <2>2, <2>3, <2>6
    <3>2. \A q \in Tab \ {p} : ~Changing(q)
      BY <3>1 DEF Overlaps, Changing
    <3>3. ChangeInv(p)' /\ ~Quiet'
      BY <1>1, <1>2, <2>3, <2>6, <3>1 DEF ChangeInv, Pending, Quiet, Changing
    <3>4. QED
      BY <1>1, <2>3, <3>2, <3>3, ChangerMoves
  <2>7. QED
    BY <2>5, <2>6
<1>4. CASE Respond(p) \/ Lose(p)
  <2>1. page'[p] = Idle /\ \A q \in Tab \ {p} : page'[q] = page[q]
    BY <1>0, <1>4 DEF Respond, Lose, WebTypeOK
  <2>2. page'[p].at # "auth" /\ page'[p].set = <<>>
    BY <2>1 DEF Idle
  <2>3. CASE page[p].set = <<>>
    <3>1. jar' = jar
      BY <1>4, <2>3 DEF Respond, Lose
    <3>2. Quiet' => Quiet
      BY <1>4, <2>1, <2>3 DEF Quiet, Changing, Respond, Lose
    <3>3. Good(jar.refresh) => Good(jar.refresh)'
      BY <1>1, <3>1 DEF Good
    <3>4. QED
      BY <1>1, <1>2, <2>1, <2>2, <3>2, <3>3, TabMoves DEF LoneInv
  <2>4. CASE page[p].set # <<>>
    <3>1. jar' = page[p].set[1]
      BY <1>4, <2>4 DEF Respond, Lose
    <3>2. CASE page[p].set = <<NoJar>>
      <4>1. jar' = NoJar
        BY <3>1, <3>2
      <4>2. Good(jar.refresh)'
        BY <4>1 DEF Good, NoJar
      <4>3. QED
        BY <1>1, <1>2, <2>1, <2>2, <4>2, TabMoves
    <3>3. CASE page[p].set # <<NoJar>>
      <4>1. Pending(p)
        BY <2>4, <3>3 DEF Pending
      <4>2. Good(page[p].set[1].refresh)
        BY <4>1 DEF LoneInv, ChangeInv
      <4>3. Good(jar.refresh)'
        BY <1>1, <3>1, <4>2 DEF Good
      <4>4. QED
        BY <1>1, <1>2, <2>1, <2>2, <4>3, TabMoves
    <3>4. QED
      BY <3>2, <3>3
  <2>5. QED
    BY <2>3, <2>4
<1>5. QED
  BY <1>3, <1>4

LEMMA ClockKeepsLone ==
    ASSUME PagesInv, LoneInv,
           ExpireAccess \/ ExpireRefresh \/ DropCookies \/ UNCHANGED vars
    PROVE  LoneInv'
<1>1. UNCHANGED <<tokens, pc, call, page>> /\ (jar' = jar \/ jar'.refresh \in {jar.refresh, NoToken})
  <2>1. JarOK
    BY PagesFacts
  <2>2. CASE DropCookies
    BY <2>1, <2>2 DEF DropCookies, JarOK, Jar, NoJar, authVars
  <2>3. QED
    BY <2>2 DEF ExpireAccess, ExpireRefresh, Expire, vars, authVars, webVars
<1>2. Good(jar.refresh) => Good(jar.refresh)'
  BY <1>1 DEF Good
<1>3. QED
  BY <1>1, <1>2, SameTokensGood, NoTabMoves

LEMMA DeviceKeepsLone ==
    ASSUME PagesInv, LoneInv, ~excused', NEW r \in Request \ Tab, DeviceStep(r)
    PROVE  LoneInv'
<1>0. TablesInv /\ JarOK /\ Tab \subseteq Request /\ UNCHANGED <<jar, page>>
      /\ pc[r] # "revokeOldest"
  BY PagesFacts DEF DeviceStep
<1>1. GoodStays /\ \A q \in Tab : pc'[q] = pc[q] /\ call'[q] = call[q]
  <2>1. CASE \E u \in User : BeginLogin(r, u)
    <3>1. tokens' = tokens
      BY <2>1 DEF BeginLogin, Begin
    <3>2. \A q \in Tab : pc'[q] = pc[q] /\ call'[q] = call[q]
      BY <1>0, <2>1, PagesFacts DEF BeginLogin, Begin, Goto
    <3>3. QED
      BY <3>1, <3>2, SameTokensGood
  <2>2. CASE Advance(r) \/ Abort(r)
    <3>1. pc[r] \notin {"revokeOldest", "family", "revoke", "revokeExpired"}
      BY <1>0, <2>2, ServiceStep DEF PagesInv, DeviceInv, TablesInv, RequestInv
    <3>2. /\ \A i \in 1..Len(tokens) : tokens'[i].revoked => tokens[i].revoked
          /\ Len(tokens) \in Nat
          /\ \A q \in Request \ {r} : pc'[q] = pc[q] /\ call'[q] = call[q]
      BY <1>0, <2>2, <3>1, ServiceStep
    <3>3. QED
      BY <1>0, <3>2 DEF GoodStays, Good, NoToken
  <2>3. QED
    BY <2>1, <2>2 DEF DeviceStep
<1>2. Good(jar.refresh) => Good(jar.refresh)'
  <2>1. PICK t \in 0..Len(tokens) : t = jar.refresh
    BY <1>0 DEF JarOK
  <2>2. Good(t) => Good(t)'
    BY <1>1 DEF GoodStays
  <2>3. QED
    BY <1>0, <2>1, <2>2 DEF Good
<1>3. QED
  BY <1>0, <1>1, <1>2, NoTabMoves

\* A tab starts to change the session: with the token of the cookies, which
\* no other tab is about to change, did change, or has a response to change.
LEMMA AskAuthKeepsLone ==
    ASSUME PagesInv, LoneInv, ~excused', NEW p \in Tab, page[p].at = "gateway", AskAuth(p),
           NEW op, NEW u, NEW t, NEW label, Begin(p, op, u, t, label),
           \/ label = "findUser"
           \/ /\ label = "findToken" /\ t = page[p].sent.refresh
              /\ page[p].kind \notin {"login", "register"}
    PROVE  LoneInv'
<1>0. WebTypeOK /\ TabInv(p) /\ Tab \subseteq Request
      /\ pc \in [Request -> Busy \cup {"idle"}]
      /\ call \in [Request -> Call \cup {NoCall}]
  BY PagesFacts DEF PagesInv
<1>1. page[p].set = <<>>
  BY <1>0 DEF TabInv
<1>2. /\ page[p].kind # "render"
      /\ label = "findToken" => page[p].sent.refresh = jar.refresh
      /\ \A q \in Tab \ {p} : page[q].at # "auth" /\ page[q].set = <<>>
  BY DEF AskAuth, Overlaps, CanSetCookies
<1>3. Quiet /\ \A q \in Tab \ {p} : ~Changing(q)
  BY <1>1, <1>2 DEF Quiet, Changing
<1>4. Good(jar.refresh)
  BY <1>3 DEF LoneInv
<1>5. /\ UNCHANGED <<tokens, jar>>
      /\ pc' = [pc EXCEPT ![p] = label]
      /\ call' = [call EXCEPT ![p] = [op |-> op, user |-> u, token |-> t]]
      /\ page' = [page EXCEPT ![p] = [page[p] EXCEPT !.at = "auth", !.sent = NoJar]]
  BY DEF Begin, Goto, AskAuth
<1>6. \A q \in Tab \ {p} : page'[q] = page[q] /\ pc'[q] = pc[q] /\ call'[q] = call[q]
  BY <1>0, <1>5 DEF WebTypeOK
<1>7. /\ pc'[p] = label /\ call'[p].token = t
      /\ page'[p] = [page[p] EXCEPT !.at = "auth", !.sent = NoJar]
  BY <1>0, <1>5 DEF WebTypeOK
<1>8. page'[p].at = "auth" /\ page'[p].kind = page[p].kind /\ page'[p].set = <<>>
  <2>1. page[p] \in [at : {"gateway", "auth", "respond"}, kind : Kinds \cup {"none"},
                     sent : Jar, set : Seq(Jar)]
    BY <1>0 DEF WebTypeOK, Idle
  <2>2. QED
    BY <1>1, <1>7, <2>1
<1>9. Good(jar.refresh)'
  BY <1>4, <1>5 DEF Good
<1>10. ~Pending(p)'
  BY <1>8 DEF Pending
<1>11. pc'[p] = "findToken" => Good(call[p].token)'
  <2>1. pc'[p] = "findToken" => call'[p].token = jar.refresh
    BY <1>2, <1>7
  <2>2. QED
    BY <1>4, <1>5, <2>1 DEF Good
<1>12. ChangeInv(p)'
  BY <1>2, <1>7, <1>8, <1>9, <1>10, <1>11 DEF ChangeInv
<1>13. ~Quiet'
  BY <1>8 DEF Quiet, Changing
<1>14. QED
  BY <1>3, <1>6, <1>12, <1>13, ChangerMoves

LEMMA AsksKeepLone ==
    ASSUME PagesInv, LoneInv, ~excused', NEW p \in Tab,
           \/ TryRefresh(p) \/ RefreshRoute(p) \/ LoginRoute(p) \/ RegisterRoute(p)
           \/ logoutAction(p)
    PROVE  LoneInv'
<1>1. page[p].at = "gateway" /\ AskAuth(p)
  BY DEF TryRefresh, RefreshRoute, LoginRoute, RegisterRoute, logoutAction, HasRefreshToken
<1>2. CASE TryRefresh(p) \/ RefreshRoute(p) \/ logoutAction(p)
  <2>1. PICK op, u : Begin(p, op, u, page[p].sent.refresh, "findToken")
    BY <1>2 DEF TryRefresh, RefreshRoute, logoutAction, BeginRefresh, BeginLogout
  <2>2. PICK t : t = page[p].sent.refresh
    OBVIOUS
  <2>3. Begin(p, op, u, t, "findToken")
    BY <2>1, <2>2
  <2>4. page[p].kind \notin {"login", "register"}
    BY <1>2 DEF TryRefresh, RefreshRoute, logoutAction
  <2>5. QED
    BY <1>1, <2>2, <2>3, <2>4, AskAuthKeepsLone
<1>3. CASE LoginRoute(p) \/ RegisterRoute(p)
  <2>1. PICK op, u, t : Begin(p, op, u, t, "findUser")
    BY <1>3 DEF LoginRoute, RegisterRoute, BeginLogin, BeginRegister
  <2>2. QED
    BY <1>1, <2>1, AskAuthKeepsLone
<1>4. QED
  BY <1>2, <1>3

\* Auth works for the one tab that changes the session.
LEMMA AuthStepKeepsLone ==
    ASSUME PagesInv, LoneInv, ~excused, ~excused', NEW p \in Tab, AuthStep(p)
    PROVE  LoneInv'
<1>0. /\ WebTypeOK /\ TablesInv /\ TabInv(p) /\ JarOK /\ p \in Request /\ ChangeInv(p)
      /\ page[p].at = "auth"
  BY PagesFacts DEF PagesInv, LoneInv, AuthStep
<1>1. /\ pc[p] # "idle"
      /\ \A q \in Request \ {p} : pc'[q] = pc[q] /\ call'[q] = call[q]
      /\ pc'[p] # "findToken"
      /\ pc'[p] = "family" => /\ pc[p] = "findToken" /\ call[p].token # NoToken
                              /\ tokens[call[p].token].revoked
      /\ Len(tokens) \in Nat /\ Len(tokens') \in Nat /\ Len(tokens) <= Len(tokens')
      /\ \A i \in 1..Len(tokens) : tokens'[i].revoked =>
            \/ tokens[i].revoked
            \/ pc[p] \in {"revokeOldest", "family", "revoke", "revokeExpired"}
      /\ Len(tokens') > Len(tokens) => ~tokens'[Len(tokens')].revoked
      /\ pc[p] = "revokeOldest" => pc'[p] = "issue" \/ tokens' = tokens
  BY <1>0, ServiceStep DEF AuthStep
<1>2. pc'[p] # "family"
  BY <1>0, <1>1 DEF ChangeInv, Good
<1>3. \A q \in Tab \ {p} : ~Changing(q)
  BY <1>0 DEF LoneInv, Changing
<1>4. Tab \subseteq Request /\ UNCHANGED <<jar, stale>>
  BY PagesFacts DEF AuthStep
<1>5. page[p].set = <<>> /\ page[p].kind # "render" /\ page[p].kind \in Serves[call[p].op]
  BY <1>0 DEF TabInv, ChangeInv
<1>6. pc[p] = "issue" => pc'[p] = "idle"
  BY <1>0, ServiceCall DEF AuthStep
<1>7. ASSUME page[p].kind \in {"login", "register"},
             ~(page[p].kind = "login" /\ pc[p] = "issue"),
             ~(page[p].kind = "login" /\ pc'[p] = "issue")
      PROVE  Good(jar.refresh)'
  <2>1. RequestInv(p) /\ call[p] \in Call /\ call[p].op \in Ops
    BY <1>0, <1>1 DEF TablesInv, RequestInv, Call
  <2>2. call[p].op \in {"login", "register"} /\ (call[p].op = "login" <=> page[p].kind = "login")
    <3>1. call[p].op \in {"register", "login", "refresh", "logout"}
      BY <2>1, AuthAssumption
    <3>2. /\ Serves["refresh"] = {"render", "action", "refresh"} /\ Serves["logout"] = {"logout"}
          /\ Serves["login"] = {"login"} /\ Serves["register"] = {"register"}
      BY DEF Serves
    <3>3. QED
      BY <1>5, <1>7, <3>1, <3>2
  <2>3. pc[p] \notin {"family", "revoke", "revokeExpired"}
    BY <1>1, <2>1, <2>2 DEF RequestInv
  <2>4. pc[p] = "revokeOldest" => tokens' = tokens
    BY <1>1, <1>7, <2>1, <2>2 DEF RequestInv
  <2>5. \A i \in 1..Len(tokens) : tokens'[i].revoked => tokens[i].revoked
    BY <1>1, <2>3, <2>4
  <2>6. Good(jar.refresh)
    BY <1>0, <1>7 DEF ChangeInv
  <2>7. jar.refresh \in 0..Len(tokens)
    BY <1>0 DEF JarOK
  <2>8. QED
    BY <1>1, <1>4, <2>5, <2>6, <2>7 DEF Good, NoToken
<1>8. CASE pc'[p] # "idle" /\ page' = page
  <2>1. ~Quiet' /\ ~Pending(p)'
    BY <1>0, <1>5, <1>8 DEF Quiet, Changing, Pending
  <2>2. ChangeInv(p)'
    BY <1>1, <1>2, <1>5, <1>6, <1>7, <1>8, <2>1 DEF ChangeInv
  <2>3. QED
    BY <1>1, <1>3, <1>4, <1>8, <2>1, <2>2, ChangerMoves
<1>9. CASE pc'[p] = "idle" /\ Len(tokens') > Len(tokens) /\ setAuthCookies(p, Len(tokens'))
  <2>1. PICK n \in Nat : n = Len(tokens') /\ n > 0 /\ ~tokens'[n].revoked
    BY <1>1, <1>9
  <2>2. Finish(p, <<Pair(n)>>)
    BY <1>9, <2>1 DEF setAuthCookies, Pair
  <2>3. /\ page'[p].at = "respond" /\ page'[p].set = <<Pair(n)>>
        /\ \A q \in Tab \ {p} : page'[q] = page[q]
    BY <1>0, <1>5, <2>2, Finished
  <2>4. page'[p].set[1].refresh = n
    BY <2>3 DEF Pair
  <2>5. Good(page[p].set[1].refresh)'
    BY <2>1, <2>4 DEF Good
  <2>6. ChangeInv(p)'
    BY <1>9, <2>3, <2>5 DEF ChangeInv
  <2>7. ~Quiet'
    BY <2>3 DEF Quiet, Changing
  <2>8. QED
    BY <1>1, <1>3, <1>4, <2>3, <2>6, <2>7, ChangerMoves
<1>10. CASE /\ pc'[p] = "idle" /\ Refused(p) /\ page[p].kind # "refresh"
             /\ ~(page[p].kind = "login" /\ pc[p] = "issue")
  <2>1. PICK cookies \in {<<>>, <<NoJar>>} :
           /\ Finish(p, cookies)
           /\ page[p].kind \notin {"login", "register"} => cookies = <<NoJar>>
    <3>1. call[p].op \in {"register", "login", "refresh", "logout"}
      BY <1>0, <1>1, AuthAssumption DEF TablesInv, RequestInv, Call
    <3>2. page[p].kind \in {"action", "logout", "login", "register"}
      BY <1>5, <1>10, <3>1 DEF Serves
    <3>3. QED
      BY <1>10, <3>2 DEF Refused, clearAuthCookies, Keep
  <2>2. /\ page'[p].at = "respond" /\ page'[p].set = cookies
        /\ \A q \in Tab \ {p} : page'[q] = page[q]
    BY <1>0, <1>5, <2>1, Finished
  <2>3. ChangeInv(p)'
    BY <1>10, <2>2 DEF ChangeInv, Pending
  <2>4. Quiet' => Good(jar.refresh)'
    BY <1>7, <1>10, <2>1, <2>2 DEF Quiet, Changing
  <2>5. QED
    BY <1>1, <1>3, <1>4, <2>2, <2>3, <2>4, ChangerMoves
<1>11. QED
  BY <1>8, <1>9, <1>10 DEF AuthStep

\* What happened to a browser stays so.
LEMMA ExcusedStays == [WebNext]_vars /\ excused => excused'
BY DEF WebNext, vars, webVars, Send, SubmitLogin, SubmitRegister, Ask, CallGateway,
   TryRefresh, RefreshRoute, LoginRoute, RegisterRoute, logoutAction, AskAuth, NotAsked, AuthStep,
   Respond, Lose, DeviceStep, ExpireAccess, ExpireRefresh, DropCookies

LEMMA WebKeepsLone ==
    ASSUME WebInv, [WebNext]_vars, ~excused'
    PROVE  LoneInv'
<1>1. ~excused
  BY ExcusedStays
<1>2. PagesInv /\ LoneInv
  BY <1>1 DEF WebInv
<1>3. ASSUME NEW p \in Tab,
             \/ \E kind \in Kinds : Send(p, kind)
             \/ SubmitLogin(p) \/ SubmitRegister(p)
      PROVE  LoneInv'
  BY <1>2, <1>3, AskKeepsLone DEF Send, SubmitLogin, SubmitRegister
<1>4. QED
  BY <1>1, <1>2, <1>3, RestKeepLone, AsksKeepLone, AuthStepKeepsLone, DeviceKeepsLone,
     ClockKeepsLone DEF WebNext

LEMMA InitWeb == WebInit => WebInv
<1> SUFFICES ASSUME WebInit
             PROVE  WebInv
  OBVIOUS
<1>1. \A p \in Tab : page[p].at = "idle" /\ page[p].set = <<>> /\ pc[p] = "idle"
  BY WebAssumption DEF WebInit, Init, Idle
<1>2. \A p \in Tab : ~Changing(p) /\ ChangeInv(p)
  BY <1>1 DEF Changing, Pending, ChangeInv
<1>3. Good(jar.refresh)
  BY DEF WebInit, NoJar, Good
<1>4. QED
  BY <1>2, <1>3, InitPages DEF WebInv, LoneInv

THEOREM WebInvariance == WebSpec => []WebInv
<1>1. WebInv /\ [WebNext]_vars => WebInv'
  BY WebKeepsPages, WebKeepsLone DEF WebInv
<1>2. QED
  BY <1>1, InitWeb, PTL DEF WebSpec

\* What such a browser presents was not exchanged before.
THEOREM WebNotTakenForThief == WebSpec => []NotTakenForThief
<1>1. WebInv => NotTakenForThief
  BY DEF WebInv, LoneInv, ChangeInv, NotTakenForThief
<1>2. QED
  BY <1>1, WebInvariance, PTL
-----------------------------------------------------------------------------
\* The session that the browser should keep: while nothing is asked, its
\* cookie is there.
Held == session > expired => jar.refresh = session

\* A refresh presents the session's token, a logout has given it up; cookies
\* are cleared of no session, and set to a token that no request was sent
\* with.
HeldTab(p) ==
    LET w == page[p] IN
    /\ w.at = "auth" => Held
    /\ w.at = "auth" /\ call[p].op = "refresh" /\ session > expired => call[p].token = session
    /\ w.at = "auth" /\ w.kind = "logout" => session = NoToken
    /\ pc[p] = "revokeExpired" => call[p].token <= expired
    /\ w.at = "gateway" /\ w.kind = "logout" =>
          /\ w.sent.refresh # NoToken
          /\ session = NoToken \/ w.sent.refresh # jar.refresh
    /\ w.set = <<NoJar>> => ~(session > expired)
    /\ Pending(p) => /\ jar.refresh # w.set[1].refresh
                     /\ \A q \in Tab : page[q].sent.refresh # w.set[1].refresh

HeldInv ==
    /\ Quiet => Held
    /\ \A p \in Tab : HeldTab(p)

KeptInv == WebInv /\ (~excused => HeldInv)

LEMMA HeldFacts ==
    ASSUME PagesInv
    PROVE  /\ session \in Nat /\ expired \in Nat /\ jar.refresh \in 0..Len(tokens)
           /\ Len(tokens) \in Nat /\ ~(NoToken > expired) /\ NoToken = 0
           /\ \A p \in Tab : page[p].sent.refresh \in 0..Len(tokens)
           /\ \A p \in Tab : Pending(p) => page[p].set[1].refresh # NoToken
<1>1. /\ session \in 0..Len(tokens) /\ jar.refresh \in 0..Len(tokens)
      /\ Len(tokens) \in Nat /\ expired \in 0..Len(tokens)
  BY PagesFacts DEF JarOK
<1>2. \A p \in Tab : page[p].sent.refresh \in 0..Len(tokens)
  BY DEF PagesInv, TabInv
<1>3. ASSUME NEW p \in Tab, Pending(p)
      PROVE  page[p].set[1].refresh # NoToken
  <2>1. PICK t \in 0..Len(tokens) : page[p].set = <<Pair(t)>>
    BY <1>3 DEF PagesInv, TabInv, Pending
  <2>2. t # 0
    BY <1>3, <2>1, NoJarIsPair DEF Pending
  <2>3. page[p].set[1].refresh = t
    BY <2>1 DEF Pair
  <2>4. QED
    BY <2>2, <2>3, NoJarIsPair
<1>4. QED
  BY <1>1, <1>2, <1>3 DEF NoToken

\* What holds of a tab that does not move, when the session is left alone or
\* given up and the cookies stay.
LEMMA HeldStays ==
    ASSUME PagesInv, session' \in {session, NoToken}, jar'.refresh = jar.refresh,
           expired' \in Nat, expired <= expired',
           \A p \in Tab : page'[p].sent.refresh \in {page[p].sent.refresh, jar.refresh, NoToken}
    PROVE  /\ ~(session > expired) => ~(session' > expired')
           /\ Held => Held'
           /\ \A q \in Tab : HeldTab(q) /\ page'[q] = page[q] /\ pc'[q] = pc[q]
                             /\ call'[q] = call[q] => HeldTab(q)'
<1>1. session \in Nat /\ expired \in Nat /\ NoToken = 0
  BY HeldFacts
<1>2. session' > expired' => session' = session /\ session > expired
  BY <1>1
<1>3. Held => Held'
  BY <1>2 DEF Held
<1>4. ASSUME NEW q \in Tab, HeldTab(q), page'[q] = page[q], pc'[q] = pc[q], call'[q] = call[q]
      PROVE  HeldTab(q)'
  <2>1. pc[q] = "revokeExpired" => call[q].token <= expired'
    <3>1. SUFFICES ASSUME pc[q] = "revokeExpired"
                   PROVE  call[q].token <= expired'
      OBVIOUS
    <3>2. call[q].token \in 0..Len(tokens) /\ Len(tokens) \in Nat
      BY <3>1, PagesFacts DEF TablesInv, RequestInv
    <3>3. call[q].token <= expired
      BY <1>4, <3>1 DEF HeldTab
    <3>4. QED
      BY <1>1, <3>2, <3>3
  <2>2. Pending(q)' <=> Pending(q)
    BY <1>4 DEF Pending
  <2>3. Pending(q) => /\ jar'.refresh # page[q].set[1].refresh
                      /\ \A p \in Tab : page'[p].sent.refresh # page[q].set[1].refresh
    BY <1>4, HeldFacts DEF HeldTab
  <2>4. page[q].at = "gateway" /\ page[q].kind = "logout" =>
           /\ page[q].sent.refresh # NoToken
           /\ session' = NoToken \/ page[q].sent.refresh # jar'.refresh
    BY <1>4 DEF HeldTab
  <2>5. page[q].at = "auth" => Held'
    BY <1>3, <1>4 DEF HeldTab
  <2>6. page[q].at = "auth" /\ call[q].op = "refresh" /\ session' > expired' =>
           call[q].token = session'
    BY <1>2, <1>4 DEF HeldTab
  <2>7. page[q].at = "auth" /\ page[q].kind = "logout" => session' = NoToken
    BY <1>4 DEF HeldTab
  <2>8. page[q].set = <<NoJar>> => ~(session' > expired')
    BY <1>2, <1>4 DEF HeldTab
  <2>9. QED
    BY <1>4, <2>1, <2>2, <2>3, <2>4, <2>5, <2>6, <2>7, <2>8 DEF HeldTab
<1>5. QED
  BY <1>2, <1>3, <1>4

\* What holds of a tab that does not change the session, whatever another
\* does to it.
LEMMA HeldWaits ==
    ASSUME PagesInv, NEW q \in Tab, ~Changing(q), HeldTab(q),
           page'[q] = page[q], pc'[q] = pc[q],
           page[q].at = "gateway" /\ page[q].kind = "logout" =>
              session' = NoToken \/ page[q].sent.refresh # jar'.refresh
    PROVE  HeldTab(q)'
<1>1. pc[q] = "idle" /\ page[q].at # "auth" /\ page[q].set = <<>> /\ ~Pending(q)
  BY UnchangingInv
<1>2. ~Pending(q)'
  BY <1>1 DEF Pending
<1>3. QED
  BY <1>1, <1>2 DEF HeldTab

\* A tab that is done, or sends a request, and has not changed the session.
LEMMA HeldPlain ==
    ASSUME NEW p \in Tab, page'[p].at # "auth", page'[p].set = <<>>, pc'[p] = "idle",
           page'[p].at = "gateway" /\ page'[p].kind = "logout" =>
              page'[p].sent.refresh # NoToken /\ session' = NoToken
    PROVE  HeldTab(p)'
<1>1. ~Pending(p)'
  BY DEF Pending
<1>2. QED
  BY <1>1 DEF HeldTab

LEMMA AskKeepsHeld ==
    ASSUME PagesInv, HeldInv, ~excused', NEW p \in Tab, NEW kind, Ask(p, kind),
           kind = "logout" => jar.refresh # NoToken
    PROVE  HeldInv'
<1>0. WebTypeOK /\ TabInv(p) /\ expired \in Nat
  BY PagesFacts, HeldFacts DEF PagesInv
<1>1. /\ page[p].at = "idle" /\ page'[p].at = "gateway" /\ page'[p].set = <<>>
      /\ page'[p].kind = kind /\ page'[p].sent = CookiesOf(kind)
      /\ \A q \in Tab \ {p} : page'[q] = page[q]
      /\ UNCHANGED <<expired, pc, call, jar>>
      /\ session' = IF kind = "logout" THEN NoToken ELSE session
  BY <1>0 DEF Ask, ShouldKeep, WebTypeOK, authVars
<1>2. pc[p] = "idle" /\ page[p].set = <<>>
  BY <1>0, <1>1 DEF TabInv
<1>3. /\ CookiesOf(kind).refresh \in {jar.refresh, NoToken}
      /\ kind = "logout" => CookiesOf(kind).refresh = jar.refresh
  BY <1>0 DEF CookiesOf, NoJar, WebTypeOK, Jar
<1>4. /\ Held => Held'
      /\ \A q \in Tab \ {p} : HeldTab(q)'
  BY <1>0, <1>1, <1>3, HeldStays DEF HeldInv
<1>5. HeldTab(p)'
  BY <1>1, <1>2, <1>3, HeldPlain
<1>6. Quiet' => Quiet
  BY <1>1, <1>2 DEF Quiet, Changing
<1>7. QED
  BY <1>4, <1>5, <1>6 DEF HeldInv

\* Steps of a tab that leave the cookies alone, and the session.
LEMMA DoneKeepsHeld ==
    ASSUME PagesInv, HeldInv, NEW p \in Tab, page[p].at # "auth", page[p].set = <<>>,
           UNCHANGED <<expired, pc, call, jar, session>>,
           \A q \in Tab \ {p} : page'[q] = page[q],
           page'[p].at \notin {"auth", "gateway"}, page'[p].set = <<>>, page'[p].sent = NoJar
    PROVE  HeldInv'
<1>1. TabInv(p) /\ expired \in Nat
  BY HeldFacts DEF PagesInv
<1>2. pc'[p] = "idle" /\ page'[p].sent.refresh = NoToken
  BY <1>1 DEF TabInv, NoJar
<1>3. HeldTab(p)'
  BY <1>2, HeldPlain
<1>4. /\ Held => Held'
      /\ \A q \in Tab \ {p} : HeldTab(q)'
  BY <1>1, <1>2, HeldStays DEF HeldInv
<1>5. Quiet' => Quiet
  BY DEF Quiet, Changing
<1>6. QED
  BY <1>3, <1>4, <1>5 DEF HeldInv

\* A tab whose cookies are to be cleared, while no other changes them.
LEMMA ClearKeepsHeld ==
    ASSUME PagesInv, HeldInv, NEW p \in Tab, \A q \in Tab \ {p} : ~Changing(q),
           jar' = jar, session' \in {session, NoToken}, ~(session' > expired'),
           \A q \in Tab \ {p} : page'[q] = page[q] /\ pc'[q] = pc[q],
           page'[p].at = "respond", page'[p].set = <<NoJar>>, pc'[p] = "idle"
    PROVE  HeldInv'
<1>1. \A q \in Tab \ {p} : HeldTab(q)'
  BY HeldWaits DEF HeldInv, HeldTab
<1>2. HeldTab(p)'
  BY DEF HeldTab, Pending
<1>3. ~Quiet'
  <2>1. page'[p].set # <<>>
    BY SMT
  <2>2. QED
    BY <2>1 DEF Quiet, Changing
<1>4. QED
  BY <1>1, <1>2, <1>3 DEF HeldInv

LEMMA GatewayKeepsHeld ==
    ASSUME PagesInv, HeldInv, ~excused', NEW p \in Tab, CallGateway(p) \/ NotAsked(p)
    PROVE  HeldInv'
<1>0. WebTypeOK /\ TabInv(p) /\ ~(NoToken > expired)
  BY PagesFacts, HeldFacts DEF PagesInv
<1>1. /\ page[p].at = "gateway" /\ page[p].set = <<>> /\ pc[p] = "idle"
      /\ UNCHANGED <<expired, pc, call, jar>>
  BY <1>0 DEF CallGateway, NotAsked, TabInv, authVars
<1>2. PICK cookies \in {<<>>, <<NoJar>>} :
         /\ Finish(p, cookies)
         /\ cookies = <<>> => session' = session
         /\ cookies # <<>> /\ page[p].kind = "render" => session' = session
         /\ cookies # <<>> /\ page[p].kind # "render" =>
               ~Overlaps(p) /\ (session' = NoToken \/ (page[p].kind = "logout" /\ session' = session))
  <2>1. CASE CallGateway(p)
    BY <2>1 DEF CallGateway, Keep
  <2>2. CASE NotAsked(p)
    BY <2>2 DEF NotAsked, Refused, Keep, clearAuthCookies, ShouldKeep, AfterFailure
  <2>3. QED
    BY <2>1, <2>2
<1>3. /\ page'[p].at = "respond" /\ page'[p].sent = NoJar
      /\ page'[p].set = IF page[p].kind = "render" THEN <<>> ELSE cookies
      /\ \A q \in Tab \ {p} : page'[q] = page[q]
  BY <1>0, <1>2, Finished
<1>4. CASE cookies = <<>> \/ page[p].kind = "render"
  BY <1>1, <1>2, <1>3, <1>4, DoneKeepsHeld
<1>5. CASE cookies # <<>> /\ page[p].kind # "render"
  <2>1. ~Overlaps(p) /\ page'[p].set = <<NoJar>>
    BY <1>2, <1>3, <1>5
  <2>2. \A q \in Tab \ {p} : ~Changing(q)
    BY <2>1 DEF Overlaps, Changing
  <2>3. session' = NoToken
    <3>1. page[p].kind = "logout" => session = NoToken
      BY <1>1, <2>1 DEF HeldInv, HeldTab, Overlaps
    <3>2. QED
      BY <1>2, <1>5, <3>1
  <2>4. QED
    BY <1>0, <1>1, <1>3, <2>1, <2>2, <2>3, ClearKeepsHeld
<1>6. QED
  BY <1>4, <1>5

LEMMA ResponseKeepsHeld ==
    ASSUME PagesInv, LoneInv, HeldInv, ~excused', NEW p \in Tab, Respond(p) \/ Lose(p)
    PROVE  HeldInv'
<1>0. WebTypeOK /\ TabInv(p) /\ expired \in Nat /\ ~(NoToken > expired)
  BY PagesFacts, HeldFacts DEF PagesInv
<1>1. /\ page[p].at = "respond" /\ page'[p] = Idle /\ pc[p] = "idle"
      /\ \A q \in Tab \ {p} : page'[q] = page[q]
      /\ UNCHANGED <<expired, pc, call>>
  BY <1>0 DEF Respond, Lose, TabInv, WebTypeOK, authVars
<1>2. page'[p].at = "idle" /\ page'[p].set = <<>> /\ page'[p].sent = NoJar
  BY <1>1 DEF Idle
<1>3. CASE page[p].set = <<>>
  <2>1. jar' = jar /\ session' = session
    BY <1>3 DEF Respond, Lose, ShouldKeep
  <2>2. QED
    BY <1>1, <1>2, <1>3, <2>1, DoneKeepsHeld
<1>4. CASE page[p].set # <<>>
  <2>1. /\ jar' = page[p].set[1]
        /\ session' = IF page[p].set = <<NoJar>> THEN session ELSE page[p].set[1].refresh
    BY <1>4 DEF Respond, Lose, ShouldKeep
  <2>2. \A q \in Tab \ {p} : ~Changing(q) /\ pc'[q] = pc[q]
    BY <1>1, <1>4 DEF LoneInv, Changing
  <2>3. HeldTab(p)'
    BY <1>1, <1>2, HeldPlain
  <2>4. CASE page[p].set = <<NoJar>>
    <3>1. ~(session' > expired') /\ jar'.refresh = NoToken
      BY <1>1, <2>1, <2>4 DEF HeldInv, HeldTab, NoJar
    <3>2. \A q \in Tab \ {p} : HeldTab(q)'
      BY <1>1, <2>2, <3>1, HeldWaits DEF HeldInv, HeldTab
    <3>3. QED
      BY <2>3, <3>1, <3>2 DEF HeldInv, Held
  <2>5. CASE page[p].set # <<NoJar>>
    <3>1. Pending(p) /\ jar'.refresh = session'
      BY <1>4, <2>1, <2>5 DEF Pending
    <3>2. \A q \in Tab : page[q].sent.refresh # jar'.refresh
      BY <2>1, <3>1 DEF HeldInv, HeldTab
    <3>3. \A q \in Tab \ {p} : HeldTab(q)'
      BY <1>1, <2>2, <3>2, HeldWaits DEF HeldInv
    <3>4. QED
      BY <2>3, <3>1, <3>3 DEF HeldInv, Held
  <2>6. QED
    BY <2>4, <2>5
<1>5. QED
  BY <1>3, <1>4

LEMMA ClockKeepsHeld ==
    ASSUME PagesInv, HeldInv,
           ExpireAccess \/ ExpireRefresh \/ DropCookies \/ UNCHANGED vars
    PROVE  HeldInv'
<1>0. /\ expired \in Nat /\ session \in Nat /\ JarOK /\ NoToken = 0
      /\ jar.refresh \in 0..Len(tokens) /\ Len(tokens) \in Nat
  BY HeldFacts, PagesFacts
<1>1. CASE jar'.refresh = jar.refresh /\ expired' \in Nat /\ expired <= expired'
           /\ UNCHANGED <<pc, call, page, session>>
  <2>1. (Held => Held') /\ \A q \in Tab : HeldTab(q)'
    BY <1>1, HeldStays DEF HeldInv
  <2>2. Quiet' <=> Quiet
    BY <1>1 DEF Quiet, Changing
  <2>3. QED
    BY <2>1, <2>2 DEF HeldInv
<1>2. CASE ExpireAccess \/ ExpireRefresh \/ UNCHANGED vars
  BY <1>0, <1>1, <1>2 DEF ExpireAccess, ExpireRefresh, Expire, vars, authVars, webVars
<1>3. CASE DropCookies
  <2>1. UNCHANGED <<expired, pc, call, page, session>>
    BY <1>3 DEF DropCookies, authVars
  <2>2. CASE jar' = [jar EXCEPT !.access = NoToken]
    BY <1>0, <1>1, <2>1, <2>2 DEF JarOK, Jar
  <2>3. CASE jar.refresh \in 1..expired /\ jar' = NoJar
    <3>1. jar'.refresh = 0
      BY <2>3 DEF NoJar, NoToken
    <3>2. Held => ~(session > expired)
      BY <1>0, <2>3 DEF Held
    <3>3. (Held => Held') /\ (Quiet' <=> Quiet)
      BY <2>1, <3>2 DEF Held, Quiet, Changing
    <3>4. ASSUME NEW q \in Tab PROVE HeldTab(q)'
      <4>1. HeldTab(q) /\ (Pending(q)' <=> Pending(q))
        BY <2>1 DEF HeldInv, Pending
      <4>2. Pending(q) => page[q].set[1].refresh # 0
        BY HeldFacts
      <4>3. QED
        BY <1>0, <2>1, <3>1, <3>3, <4>1, <4>2 DEF HeldTab
    <3>5. QED
      BY <3>3, <3>4 DEF HeldInv
  <2>4. QED
    BY <1>3, <2>2, <2>3 DEF DropCookies
<1>4. QED
  BY <1>2, <1>3

LEMMA DeviceKeepsHeld ==
    ASSUME PagesInv, HeldInv, ~excused', NEW r \in Request \ Tab, DeviceStep(r)
    PROVE  HeldInv'
<1>0. TablesInv /\ Tab \subseteq Request /\ expired \in Nat
  BY PagesFacts, HeldFacts
<1>1. UNCHANGED <<jar, page, session>>
  BY DEF DeviceStep, ShouldKeep
<1>2. /\ \A q \in Tab : pc'[q] = pc[q] /\ call'[q] = call[q]
      /\ expired' = expired
  <2>1. CASE \E u \in User : BeginLogin(r, u)
    BY <1>0, <2>1, PagesFacts DEF BeginLogin, Begin, Goto
  <2>2. CASE Advance(r) \/ Abort(r)
    BY <1>0, <2>2, ServiceStep
  <2>3. QED
    BY <2>1, <2>2 DEF DeviceStep
<1>3. (Held => Held') /\ \A q \in Tab : HeldTab(q)'
  BY <1>0, <1>1, <1>2, HeldStays DEF HeldInv
<1>4. Quiet' <=> Quiet
  BY <1>1 DEF Quiet, Changing
<1>5. QED
  BY <1>3, <1>4 DEF HeldInv

LEMMA AskAuthKeepsHeld ==
    ASSUME PagesInv, HeldInv, ~excused', NEW p \in Tab, page[p].at = "gateway", AskAuth(p),
           NEW op, NEW u, NEW t, NEW label \in {"findUser", "findToken"},
           Begin(p, op, u, t, label),
           op = "refresh" \/ page[p].kind = "logout" =>
              t = page[p].sent.refresh /\ page[p].kind \notin {"login", "register"}
    PROVE  HeldInv'
<1>0. WebTypeOK /\ TabInv(p) /\ Tab \subseteq Request
      /\ pc \in [Request -> Busy \cup {"idle"}]
      /\ call \in [Request -> Call \cup {NoCall}]
  BY PagesFacts DEF PagesInv
<1>1. /\ page[p].set = <<>>
      /\ \A q \in Tab \ {p} : page[q].at # "auth" /\ page[q].set = <<>>
      /\ page[p].kind \notin {"login", "register"} => page[p].sent.refresh = jar.refresh
  BY <1>0 DEF AskAuth, Overlaps, TabInv
<1>2. Quiet /\ Held
  BY <1>1 DEF Quiet, Changing, HeldInv
<1>3. /\ UNCHANGED <<jar, session, expired>>
      /\ pc' = [pc EXCEPT ![p] = label]
      /\ call' = [call EXCEPT ![p] = [op |-> op, user |-> u, token |-> t]]
      /\ page' = [page EXCEPT ![p] = [page[p] EXCEPT !.at = "auth", !.sent = NoJar]]
  BY DEF Begin, Goto, AskAuth, ShouldKeep
<1>4. \A q \in Tab \ {p} : page'[q] = page[q] /\ pc'[q] = pc[q] /\ ~Changing(q)
  BY <1>0, <1>1, <1>3 DEF WebTypeOK, Changing
<1>5. /\ pc'[p] = label /\ call'[p].token = t /\ call'[p].op = op
      /\ page'[p].at = "auth" /\ page'[p].kind = page[p].kind /\ page'[p].set = <<>>
  <2>1. page[p] \in [at : {"gateway", "auth", "respond"}, kind : Kinds \cup {"none"},
                     sent : Jar, set : Seq(Jar)]
    BY <1>0 DEF WebTypeOK, Idle
  <2>2. QED
    BY <1>0, <1>1, <1>3, <2>1 DEF WebTypeOK
<1>6. page[p].kind = "logout" => session = NoToken
  BY <1>1 DEF HeldInv, HeldTab
<1>7. HeldTab(p)'
  <2>1. Held' /\ ~Pending(p)'
    BY <1>2, <1>3, <1>5 DEF Held, Pending
  <2>2. op = "refresh" /\ session > expired => t = session
    BY <1>1, <1>2 DEF Held
  <2>3. QED
    BY <1>3, <1>5, <1>6, <2>1, <2>2 DEF HeldTab
<1>8. \A q \in Tab \ {p} : HeldTab(q)'
  BY <1>3, <1>4, HeldWaits DEF HeldInv, HeldTab
<1>9. ~Quiet'
  BY <1>5 DEF Quiet, Changing
<1>10. QED
  BY <1>7, <1>8, <1>9 DEF HeldInv

LEMMA AsksKeepHeld ==
    ASSUME PagesInv, HeldInv, ~excused', NEW p \in Tab,
           \/ TryRefresh(p) \/ RefreshRoute(p) \/ LoginRoute(p) \/ RegisterRoute(p)
           \/ logoutAction(p)
    PROVE  HeldInv'
<1>1. page[p].at = "gateway" /\ AskAuth(p)
  BY DEF TryRefresh, RefreshRoute, LoginRoute, RegisterRoute, logoutAction, HasRefreshToken
<1>2. CASE TryRefresh(p) \/ RefreshRoute(p) \/ logoutAction(p)
  <2>1. PICK op, u : Begin(p, op, u, page[p].sent.refresh, "findToken")
    BY <1>2 DEF TryRefresh, RefreshRoute, logoutAction, BeginRefresh, BeginLogout
  <2>2. PICK t : t = page[p].sent.refresh
    OBVIOUS
  <2>3. Begin(p, op, u, t, "findToken")
    BY <2>1, <2>2
  <2>4. page[p].kind \notin {"login", "register"}
    BY <1>2 DEF TryRefresh, RefreshRoute, logoutAction
  <2>5. QED
    BY <1>1, <2>2, <2>3, <2>4, AskAuthKeepsHeld
<1>3. CASE LoginRoute(p) \/ RegisterRoute(p)
  <2>1. PICK op, u, t : op \in {"login", "register"} /\ Begin(p, op, u, t, "findUser")
    BY <1>3 DEF LoginRoute, RegisterRoute, BeginLogin, BeginRegister
  <2>2. page[p].kind # "logout"
    BY <1>3 DEF LoginRoute, RegisterRoute
  <2>3. QED
    BY <1>1, <2>1, <2>2, AskAuthKeepsHeld
<1>4. QED
  BY <1>2, <1>3

LEMMA AuthStepKeepsHeld ==
    ASSUME PagesInv, LoneInv, HeldInv, ~excused', NEW p \in Tab, AuthStep(p)
    PROVE  HeldInv'
<1>0. /\ WebTypeOK /\ TablesInv /\ TabInv(p) /\ p \in Request /\ ChangeInv(p) /\ HeldTab(p)
      /\ page[p].at = "auth" /\ page[p].set = <<>> /\ Tab \subseteq Request
  BY PagesFacts DEF PagesInv, LoneInv, HeldInv, AuthStep, TabInv
<1>1. /\ pc[p] # "idle" /\ expired' = expired
      /\ \A q \in Request \ {p} : pc'[q] = pc[q] /\ call'[q] = call[q]
      /\ pc'[p] # "idle" => call'[p].op = call[p].op
      /\ Len(tokens) \in Nat /\ Len(tokens') \in Nat /\ Len(tokens) <= Len(tokens')
      /\ Len(tokens') > Len(tokens) => pc[p] = "issue"
  BY <1>0, ServiceStep DEF AuthStep
<1>2. /\ pc'[p] # "idle" /\ call[p].op = "refresh" => call'[p].token = call[p].token
      /\ pc'[p] = "revokeExpired" => call'[p].token <= expired
      /\ pc'[p] = "idle" /\ Len(tokens') = Len(tokens) =>
            Abort(p) \/ pc[p] \in {"family", "revokeExpired"} \/ call[p].op = "logout"
  BY <1>0, ServiceCall DEF AuthStep
<1>3. /\ jar' = jar /\ session' \in {session, NoToken}
      /\ session' = IF Abort(p) THEN AfterFailure(p) ELSE session
  BY DEF AuthStep, ShouldKeep, AfterFailure
<1>4. /\ session \in Nat /\ expired \in Nat /\ NoToken = 0 /\ jar.refresh \in 0..Len(tokens)
      /\ \A q \in Tab : page[q].sent.refresh \in 0..Len(tokens)
  BY HeldFacts
<1>5. \A q \in Tab \ {p} : ~Changing(q)
  BY <1>0 DEF LoneInv, Changing
<1>6. Held'
  BY <1>0, <1>1, <1>3, <1>4 DEF HeldTab, Held
<1>7. ASSUME \A q \in Tab \ {p} : page'[q] = page[q]
      PROVE  \A q \in Tab \ {p} : HeldTab(q)'
  BY <1>0, <1>1, <1>3, <1>5, <1>7, HeldWaits DEF HeldInv, HeldTab
<1>8. page[p].kind \in Serves[call[p].op] /\ page[p].kind # "render"
      /\ call[p].op \in {"register", "login", "refresh", "logout"}
  <2>1. RequestInv(p)
    BY <1>0 DEF TablesInv
  <2>2. QED
    BY <1>0, <1>1, <2>1, AuthAssumption DEF TabInv, ChangeInv, RequestInv, Call
<1>9. /\ page[p].kind = "logout" <=> call[p].op = "logout"
      /\ page[p].kind \in {"action", "refresh"} => call[p].op = "refresh"
      /\ page[p].kind \in {"action", "refresh", "logout", "login", "register"}
  BY <1>8 DEF Serves
<1>10. CASE pc'[p] # "idle" /\ page' = page
  <2>1. ~Pending(p)' /\ ~Quiet'
    BY <1>0, <1>10 DEF Pending, Quiet, Changing
  <2>2. session' > expired' => session' = session /\ session > expired
    BY <1>1, <1>3, <1>4
  <2>3. HeldTab(p)'
    BY <1>0, <1>1, <1>2, <1>3, <1>6, <1>10, <2>1, <2>2 DEF HeldTab
  <2>4. QED
    BY <1>7, <1>10, <2>1, <2>3 DEF HeldInv
<1>11. CASE pc'[p] = "idle" /\ Len(tokens') > Len(tokens) /\ setAuthCookies(p, Len(tokens'))
  <2>1. PICK n \in Nat : n = Len(tokens') /\ n > Len(tokens)
    BY <1>1, <1>11
  <2>2. Finish(p, <<Pair(n)>>)
    BY <1>11, <2>1 DEF setAuthCookies, Pair
  <2>3. /\ page'[p].at = "respond" /\ page'[p].set = <<Pair(n)>> /\ page'[p].sent = NoJar
        /\ \A q \in Tab \ {p} : page'[q] = page[q]
    BY <1>0, <1>8, <2>2, Finished
  <2>4. page'[p].set[1].refresh = n /\ page'[p].sent.refresh = 0
    BY <2>3 DEF Pair, NoJar, NoToken
  <2>5. /\ jar'.refresh # n
        /\ \A q \in Tab : page'[q].sent.refresh # n
    BY <1>1, <1>3, <1>4, <2>1, <2>3, <2>4
  <2>6. page'[p].set # <<NoJar>> /\ ~Quiet'
    <3>1. <<NoJar>>[1].refresh = 0
      BY DEF NoJar, NoToken
    <3>2. page'[p].set # <<NoJar>>
      BY <1>1, <2>1, <2>4, <3>1
    <3>3. page'[p].set # <<>>
      BY <2>3
    <3>4. QED
      BY <3>2, <3>3 DEF Quiet, Changing
  <2>7. HeldTab(p)'
    BY <1>11, <2>3, <2>4, <2>5, <2>6 DEF HeldTab
  <2>8. QED
    BY <1>7, <2>3, <2>6, <2>7 DEF HeldInv
<1>12. CASE /\ pc'[p] = "idle" /\ Len(tokens') = Len(tokens) /\ Refused(p)
            /\ page[p].kind # "refresh"
  <2>1. CASE page[p].kind \in {"login", "register"}
    <3>1. Finish(p, <<>>)
      BY <1>12, <2>1 DEF Refused, Keep
    <3>2. /\ page'[p].at = "respond" /\ page'[p].set = <<>>
          /\ \A q \in Tab \ {p} : page'[q] = page[q]
      BY <1>0, <1>8, <3>1, Finished
    <3>3. HeldTab(p)'
      BY <1>12, <3>2, HeldPlain
    <3>4. QED
      BY <1>6, <1>7, <3>2, <3>3 DEF HeldInv
  <2>2. CASE page[p].kind \in {"action", "logout"}
    <3>1. Finish(p, <<NoJar>>)
      BY <1>12, <2>2 DEF Refused, clearAuthCookies
    <3>2. /\ page'[p].at = "respond" /\ page'[p].set = <<NoJar>>
          /\ \A q \in Tab \ {p} : page'[q] = page[q]
      BY <1>0, <1>8, <3>1, Finished
    <3>3. ~(session' > expired')
      <4>1. CASE page[p].kind = "logout"
        BY <1>0, <1>1, <1>3, <1>4, <4>1 DEF HeldTab
      <4>2. CASE page[p].kind = "action" /\ Abort(p)
        BY <1>1, <1>3, <1>4, <4>2 DEF AfterFailure
      <4>3. CASE page[p].kind = "action" /\ ~Abort(p)
        <5>1. pc[p] = "revokeExpired" /\ call[p].op = "refresh"
          BY <1>0, <1>2, <1>9, <1>12, <4>3 DEF ChangeInv
        <5>2. call[p].token <= expired /\ (session > expired => call[p].token = session)
          BY <1>0, <5>1 DEF HeldTab
        <5>3. QED
          BY <1>1, <1>3, <1>4, <5>2
      <4>4. QED
        BY <2>2, <4>1, <4>2, <4>3
    <3>4. QED
      BY <1>0, <1>1, <1>3, <1>5, <1>12, <3>2, <3>3, ClearKeepsHeld
  <2>3. QED
    BY <1>9, <1>12, <2>1, <2>2
<1>13. QED
  BY <1>10, <1>11, <1>12 DEF AuthStep

LEMMA WebKeepsKept == KeptInv /\ [WebNext]_vars => KeptInv'
<1> SUFFICES ASSUME KeptInv, [WebNext]_vars, ~excused'
             PROVE  HeldInv'
  BY WebKeepsPages, WebKeepsLone DEF KeptInv, WebInv
<1>1. ~excused
  BY ExcusedStays
<1>2. PagesInv /\ LoneInv /\ HeldInv
  BY <1>1 DEF KeptInv, WebInv
<1>3. ASSUME NEW p \in Tab,
             \/ \E kind \in Kinds : Send(p, kind)
             \/ SubmitLogin(p) \/ SubmitRegister(p)
      PROVE  HeldInv'
  <2>1. PICK kind : Ask(p, kind) /\ (kind = "logout" => jar.access # NoToken)
    BY <1>3 DEF Send, SubmitLogin, SubmitRegister
  <2>2. jar.access \in {NoToken, jar.refresh}
    BY <1>2, PagesFacts DEF JarOK
  <2>3. QED
    BY <1>2, <2>1, <2>2, AskKeepsHeld
<1>4. QED
  BY <1>2, <1>3, GatewayKeepsHeld, ResponseKeepsHeld, AsksKeepHeld, AuthStepKeepsHeld,
     DeviceKeepsHeld, ClockKeepsHeld DEF WebNext

LEMMA InitKept == WebInit => KeptInv
<1> SUFFICES ASSUME WebInit
             PROVE  HeldInv
  BY InitWeb DEF KeptInv
<1>1. \A p \in Tab : page[p].at = "idle" /\ page[p].set = <<>> /\ pc[p] = "idle"
  BY WebAssumption DEF WebInit, Init, Idle
<1>2. session = 0 /\ expired = 0 /\ ~(session > expired)
  BY DEF WebInit, Init, NoToken
<1>3. QED
  BY <1>1, <1>2 DEF HeldInv, HeldTab, Held, Pending

\* While nothing is asked, a browser that is not excused has the refresh
\* cookie of its last login or refresh until that expires, unless it signed
\* out or Auth, or the way there, failed a refresh; and the cookie it has is
\* good until it expires.
THEOREM WebSessionKept == WebSpec => []SessionKept
<1>1. ASSUME KeptInv
      PROVE  SessionKept
  <2>1. SUFFICES ASSUME ~excused, AtRest
                 PROVE  /\ session > expired => jar.refresh = session
                        /\ jar.refresh > expired => ~tokens[jar.refresh].revoked
    BY DEF SessionKept
  <2>2. LoneInv /\ PagesInv /\ HeldInv
    BY <1>1, <2>1 DEF KeptInv, WebInv
  <2>3. Quiet
    BY <2>1, <2>2 DEF AtRest, PagesInv, TabInv, Quiet, Changing
  <2>4. jar.refresh > expired => jar.refresh # NoToken
    BY <2>2, HeldFacts
  <2>5. QED
    BY <2>2, <2>3, <2>4 DEF LoneInv, Good, HeldInv, Held
<1>2. QED
  BY <1>1, InitKept, WebKeepsKept, PTL DEF WebSpec

\* What is proved of Auth's clients, of a browser and its devices.
THEOREM WebKeepsAuth ==
    WebSpec => [](RotatedIsDead /\ OneLivePerFamily /\ EndedStaysEnded /\ SessionLimit)
BY WebImplementsAuth, AuthRotatedIsDead, AuthOneLivePerFamily, AuthEndedStaysEnded,
   AuthSessionLimit, PTL
=============================================================================
