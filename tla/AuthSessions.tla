---------------------------- MODULE AuthSessions ----------------------------
(***************************************************************************)
(* The Auth service: registration, login, the rotation of refresh tokens   *)
(* with the detection of their reuse, logout, and the limit of sessions.   *)
(*                                                                         *)
(* A request runs its handler one database statement at a time; nothing    *)
(* holds two statements together, no transaction and no lock, but for      *)
(* revokeOldestSession, whose transaction at READ COMMITTED orders nothing *)
(* either.  Requests interleave at every await.                            *)
(*                                                                         *)
(* The rows of refresh_tokens stand in the order of their creation, and a  *)
(* token is named by its place there.  All live equally long, so that they *)
(* expire in that order.  The family of a token is named by its first      *)
(* token; its device, which goes with the family, is left out.             *)
(***************************************************************************)
EXTENDS Integers, Sequences, FiniteSets

CONSTANTS User,        \* e-mail addresses, and the users who have them
          NoUser,
          Request,     \* requests in progress at a time
          Ops,         \* what clients ask
          MaxSessions, \* MAX_SESSIONS
          MaxTokens    \* bound: no request begins that could exceed it

ASSUME AuthAssumption ==
    /\ NoUser \notin User
    /\ IsFiniteSet(Request)
    /\ Ops \subseteq {"register", "login", "refresh", "logout"}
    /\ MaxSessions \in Nat \ {0}
    /\ MaxTokens \in Nat

VARIABLES users,    \* the rows of users
          tokens,   \* the rows of refresh_tokens
          expired,  \* how many of them have expired
          pc,       \* the statement each request runs next
          call,     \* what each request works on
          crowded,  \* auxiliary: users two requests of whom ran at once
          ended,    \* auxiliary: families revoked for reuse, or logged out
          excess    \* auxiliary: tokens of sessions let in above the limit

authVars == <<users, tokens, expired, pc, call, crowded, ended, excess>>

NoToken == 0

\* family and parent, the token it was given for, are tokens.
Row == [user : User, family : Nat \ {0}, parent : Nat, revoked : BOOLEAN]

Call == [op : Ops, user : User \cup {NoUser}, token : Nat]

NoCall == <<>>

Busy == {"findUser", "createUser", "count", "oldest", "revokeOldest", "findToken",
         "family", "revokeExpired", "revoke", "issue"}

\* The rows satisfy the foreign keys of the schema.
TypeOK ==
    /\ users \subseteq User
    /\ tokens \in Seq(Row)
    /\ \A i \in DOMAIN tokens : /\ tokens[i].user \in users
                                /\ tokens[i].family \in 1..i
                                /\ tokens[i].parent \in 0..(i - 1)
    /\ expired \in 0..Len(tokens)
    /\ pc \in [Request -> Busy \cup {"idle"}]
    /\ call \in [Request -> Call \cup {NoCall}]
    /\ crowded \subseteq User
    /\ ended \subseteq 1..Len(tokens)
    /\ excess \subseteq 1..Len(tokens)

Init ==
    /\ users = {}
    /\ tokens = <<>>
    /\ expired = 0
    /\ pc = [r \in Request |-> "idle"]
    /\ call = [r \in Request |-> NoCall]
    /\ crowded = {} /\ ended = {} /\ excess = {}

Family(f) == {i \in DOMAIN tokens : tokens[i].family = f}

Unrevoked(u) == {i \in DOMAIN tokens : tokens[i].user = u /\ ~tokens[i].revoked}

Active(u) == {i \in Unrevoked(u) : i > expired}

-----------------------------------------------------------------------------
Goto(r, label) == pc' = [pc EXCEPT ![r] = label]

\* The handler answers, with the token issueTokens made, or with 204 or an
\* error.
Answer(r) == Goto(r, "idle") /\ call' = [call EXCEPT ![r] = NoCall]

Refuse(r) == Answer(r) /\ UNCHANGED <<users, tokens, expired, crowded, ended, excess>>

Continue(r, label) ==
    /\ Goto(r, label)
    /\ UNCHANGED <<users, tokens, expired, call, crowded, ended, excess>>

\* A request arrives.  crowded takes note of the users with another one.
Begin(r, op, u, t, label) ==
    /\ pc[r] = "idle"
    /\ op \in Ops
    /\ Goto(r, label)
    /\ call' = [call EXCEPT ![r] = [op |-> op, user |-> u, token |-> t]]
    /\ crowded' = crowded \cup {v \in User : v = u /\ \E q \in Request :
                                                pc[q] # "idle" /\ call[q].user = v}
    /\ UNCHANGED <<users, tokens, expired, ended, excess>>

\* Bound: the rows the requests in progress may still insert.
Room == Len(tokens) + Cardinality({r \in Request : pc[r] # "idle"}) < MaxTokens

BeginRegister(r, u) == Room /\ Begin(r, "register", u, NoToken, "findUser")

\* A login, with the right password or not.
BeginLogin(r, u) == Room /\ Begin(r, "login", u, NoToken, "findUser")

UserOf(t) == IF t \in DOMAIN tokens THEN tokens[t].user ELSE NoUser

\* t is NoToken when the client presents something Auth never issued.
BeginRefresh(r, t) == Room /\ Begin(r, "refresh", UserOf(t), t, "findToken")

BeginLogout(r, t) == Begin(r, "logout", UserOf(t), t, "findToken")
-----------------------------------------------------------------------------
\* findUserByEmail.  A registered user's password may still be the wrong one.
FindUserByEmail(r) ==
    /\ pc[r] = "findUser"
    /\ \/ /\ call[r].op = "register"
          /\ IF call[r].user \in users THEN Refuse(r)
                                       ELSE Continue(r, "createUser")
       \/ /\ call[r].op = "login"
          /\ Refuse(r)
       \/ /\ call[r].op = "login"
          /\ call[r].user \in users
          /\ Continue(r, "count")

\* createUser: e-mail addresses are unique, so one of two racing inserts
\* fails, with an error that is not about the address.
CreateUser(r) ==
    /\ pc[r] = "createUser"
    /\ \/ /\ call[r].user \in users
          /\ Refuse(r)
       \/ /\ call[r].user \notin users
          /\ users' = users \cup {call[r].user}
          /\ Goto(r, "issue")
          /\ UNCHANGED <<tokens, expired, call, crowded, ended, excess>>

\* Mutant: one session too many.
CountActiveSessionsStrictly(r) ==
    /\ pc[r] = "count"
    /\ Continue(r, IF Cardinality(Active(call[r].user)) > MaxSessions
                   THEN "oldest" ELSE "issue")

CountActiveSessions(r) ==
    /\ pc[r] = "count"
    /\ Continue(r, IF Cardinality(Active(call[r].user)) >= MaxSessions
                   THEN "oldest" ELSE "issue")

\* revokeOldestSession: the oldest unrevoked token, be it expired, if any.
FindOldest(r) ==
    LET live == Unrevoked(call[r].user) IN
    /\ pc[r] = "oldest"
    /\ \/ live = {} /\ Continue(r, "issue")
       \/ \E t \in live :
             /\ \A i \in live : t <= i
             /\ Goto(r, "revokeOldest")
             /\ call' = [call EXCEPT ![r].token = t]
             /\ UNCHANGED <<users, tokens, expired, crowded, ended, excess>>

Revoke(ids) ==
    tokens' = [i \in DOMAIN tokens |-> [tokens[i] EXCEPT !.revoked = @ \/ i \in ids]]

\* excess takes note of an expired token, revoked in place of a live one.
RevokeOldest(r) ==
    LET t == call[r].token IN
    /\ pc[r] = "revokeOldest"
    /\ Revoke({t})
    /\ Goto(r, "issue")
    /\ excess' = excess \cup {i \in {t} : i <= expired}
    /\ UNCHANGED <<users, expired, call, crowded, ended>>

\* Mutant: a refresh does not look at isRevoked.
FindUnexpiredToken(r) ==
    LET t == call[r].token IN
    /\ pc[r] = "findToken"
    /\ IF t \notin DOMAIN tokens THEN Refuse(r) ELSE Continue(r, "revoke")

\* Mutant: a refresh does not revoke the token it replaces.
FindTokenToKeep(r) ==
    LET t == call[r].token IN
    /\ pc[r] = "findToken"
    /\ IF t \notin DOMAIN tokens THEN Refuse(r) ELSE Continue(r, "issue")

\* findRefreshTokenByHash, in refresh and in logout.
FindRefreshToken(r) ==
    LET t == call[r].token IN
    /\ pc[r] = "findToken"
    /\ \/ /\ t \notin DOMAIN tokens
          /\ Refuse(r)
       \/ /\ t \in DOMAIN tokens
          /\ tokens[t].revoked
          /\ IF call[r].op = "refresh" THEN Continue(r, "family") ELSE Refuse(r)
       \/ /\ t \in DOMAIN tokens
          /\ ~tokens[t].revoked
          /\ IF call[r].op = "refresh" /\ t <= expired
             THEN Continue(r, "revokeExpired")
             ELSE Continue(r, "revoke")

\* Mutant: reuse revokes the token presented, which is revoked already.
RevokeTokenAgain(r) ==
    /\ pc[r] = "family"
    /\ Revoke({call[r].token})
    /\ ended' = ended \cup {tokens[call[r].token].family}
    /\ Answer(r)
    /\ UNCHANGED <<users, expired, crowded, excess>>

RevokeTokenFamily(r) ==
    LET f == tokens[call[r].token].family IN
    /\ pc[r] = "family"
    /\ Revoke(Family(f))
    /\ ended' = ended \cup {f}
    /\ Answer(r)
    /\ UNCHANGED <<users, expired, crowded, excess>>

\* revokeRefreshToken: of an expired token, of the one a refresh replaces,
\* or of the one that logs out.
RevokeRefreshToken(r) ==
    LET t == call[r].token IN
    /\ pc[r] \in {"revokeExpired", "revoke"}
    /\ Revoke({t})
    /\ \/ /\ pc[r] = "revokeExpired"
          /\ Answer(r)
          /\ UNCHANGED ended
       \/ /\ pc[r] = "revoke" /\ call[r].op = "refresh"
          /\ Goto(r, "issue")
          /\ UNCHANGED <<call, ended>>
       \/ /\ pc[r] = "revoke" /\ call[r].op = "logout"
          /\ ended' = ended \cup {tokens[t].family}
          /\ Answer(r)
    /\ UNCHANGED <<users, expired, crowded, excess>>

\* issueTokens: in the family of the token refreshed, or in a new one.  What
\* takes the place of a token in excess is in excess.
NewRow(r) ==
    LET t == call[r].token
        refresh == call[r].op = "refresh"
    IN  [user |-> call[r].user,
         family |-> IF refresh THEN tokens[t].family ELSE Len(tokens) + 1,
         parent |-> IF refresh THEN t ELSE NoToken,
         revoked |-> FALSE]

IssueTokens(r) ==
    /\ pc[r] = "issue"
    /\ tokens' = Append(tokens, NewRow(r))
    /\ excess' = excess \cup {i \in {Len(tokens) + 1} : call[r].token \in excess}
    /\ Answer(r)
    /\ UNCHANGED <<users, expired, crowded, ended>>

\* A statement fails, having been done or not, or the process stops; what
\* was done before stays done.
Abort(r) == pc[r] # "idle" /\ Refuse(r)

\* Time passes.
Expire ==
    /\ expired < Len(tokens)
    /\ expired' = expired + 1
    /\ UNCHANGED <<users, tokens, pc, call, crowded, ended, excess>>

Advance(r) ==
    \/ FindUserByEmail(r) \/ CreateUser(r) \/ CountActiveSessions(r) \/ FindOldest(r)
    \/ RevokeOldest(r) \/ FindRefreshToken(r) \/ RevokeTokenFamily(r)
    \/ RevokeRefreshToken(r) \/ IssueTokens(r)

Next ==
    \/ \E r \in Request :
          \/ \E u \in User : BeginRegister(r, u) \/ BeginLogin(r, u)
          \/ \E t \in 0..Len(tokens) : BeginRefresh(r, t) \/ BeginLogout(r, t)
          \/ Advance(r)
          \/ Abort(r)
    \/ Expire

Spec == Init /\ [][Next]_authVars
-----------------------------------------------------------------------------
\* A refresh token that was exchanged is dead, whatever raced the exchange
\* or cut it short: revokeRefreshToken comes before the insert.
RotatedIsDead ==
    \A i \in DOMAIN tokens :
        tokens[i].parent # NoToken => tokens[tokens[i].parent].revoked

\* Nothing makes two refreshes with one token exclude each other.  But the
\* session of a client that waits for its answers has one live token, though
\* each of its requests may have been cut short at any statement.
OneLivePerFamily ==
    \A u \in User \ crowded : \A i, j \in Unrevoked(u) :
        tokens[i].family = tokens[j].family => i = j

\* A session that such a client ended, or whose token was used twice, never
\* has a live token again.
EndedStaysEnded ==
    \A u \in User \ crowded : \A i \in Unrevoked(u) : tokens[i].family \notin ended

\* Such a user has at most MAX_SESSIONS sessions beside those in excess: let
\* in when an expired token was revoked in place of a live one, as the limit
\* counts unexpired sessions and revokes the oldest, expired or not; and what
\* took the place of such a one, by a refresh or as the oldest.
SessionLimit ==
    \A u \in User \ crowded : Cardinality(Active(u) \ excess) <= MaxSessions

\* docs/architecture.md: when a refresh token is reused, the entire device's
\* token family is invalidated.  A refresh in progress revives it.
ReuseEndsFamily == \A f \in ended : \A i \in Family(f) : tokens[i].revoked
=============================================================================
