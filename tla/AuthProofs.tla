----------------------------- MODULE AuthProofs -----------------------------
(***************************************************************************)
(* Proofs about AuthSessions, for any users, requests, limit and bound.    *)
(*                                                                         *)
(* Rows of refresh_tokens are only ever added, and marked as revoked: what *)
(* a request has learned of its token's user and family stays true, and    *)
(* so does that the token is revoked (Grows).  That is enough for the      *)
(* tables and for RotatedIsDead.  What a request has learned of a token    *)
(* that is not revoked lasts only while no other request of the user runs, *)
(* so that the rest holds of the users who are not crowded (SessionInv).   *)
(***************************************************************************)
EXTENDS AuthSessions, FiniteSetTheorems, TLAPS

\* What a request in progress has established, by the statement it is at.
RequestInv(r) ==
    LET c == call[r] IN
    pc[r] # "idle" =>
        /\ c \in Call
        /\ c.token \in 0..Len(tokens)
        /\ pc[r] = "findUser" => c.op \in {"register", "login"} /\ c.user \in User
        /\ pc[r] = "createUser" => c.op = "register" /\ c.user \in User
        /\ pc[r] \in {"count", "oldest", "revokeOldest"} => c.op = "login" /\ c.user \in users
        /\ pc[r] = "revokeOldest" => c.token # 0 /\ tokens[c.token].user = c.user
        /\ pc[r] \in {"findToken", "family", "revokeExpired", "revoke"} =>
              /\ c.op \in {"refresh", "logout"}
              /\ c.token # 0 => tokens[c.token].user = c.user
        /\ pc[r] \in {"family", "revokeExpired", "revoke"} => c.token # 0
        /\ pc[r] = "issue" =>
              /\ c.op \in {"register", "login", "refresh"}
              /\ c.user \in users
              /\ c.op = "refresh" => /\ c.token # 0
                                     /\ tokens[c.token].user = c.user
                                     /\ tokens[c.token].revoked

\* A family is one user's.
FamilyInv == \A i \in 1..Len(tokens) : tokens[tokens[i].family].user = tokens[i].user

TablesInv == TypeOK /\ FamilyInv /\ RotatedIsDead /\ \A r \in Request : RequestInv(r)

\* The tables change as they always do.
Grows ==
    /\ users \subseteq users'
    /\ tokens' \in Seq(Row)
    /\ Len(tokens) <= Len(tokens')
    /\ \A i \in 1..Len(tokens) : /\ tokens'[i].user = tokens[i].user
                                 /\ tokens'[i].family = tokens[i].family
                                 /\ tokens'[i].parent = tokens[i].parent
                                 /\ tokens[i].revoked => tokens'[i].revoked

LEMMA RowOf ==
    ASSUME TypeOK, NEW i \in 1..Len(tokens)
    PROVE  /\ tokens[i] \in Row
           /\ i \in DOMAIN tokens
           /\ tokens[i].user \in users
           /\ tokens[i].family \in 1..i
           /\ tokens[i].parent \in 0..(i - 1)
BY DEF TypeOK

LEMMA RevokeGrows ==
    ASSUME TypeOK, NEW ids, Revoke(ids)
    PROVE  /\ tokens' \in Seq(Row)
           /\ Len(tokens') = Len(tokens)
           /\ \A i \in 1..Len(tokens) :
                 /\ tokens'[i] \in Row
                 /\ tokens'[i].user = tokens[i].user
                 /\ tokens'[i].family = tokens[i].family
                 /\ tokens'[i].parent = tokens[i].parent
                 /\ tokens'[i].revoked <=> tokens[i].revoked \/ i \in ids
<1>1. Len(tokens) \in Nat /\ DOMAIN tokens = 1..Len(tokens)
  BY DEF TypeOK
<1>2. \A i \in 1..Len(tokens) : tokens[i] \in Row
  BY DEF TypeOK
<1>3. tokens' = [i \in 1..Len(tokens) |->
                    [tokens[i] EXCEPT !.revoked = tokens[i].revoked \/ i \in ids]]
  BY <1>1 DEF Revoke
<1>4. \A i \in 1..Len(tokens) :
         /\ tokens'[i] \in Row
         /\ tokens'[i].user = tokens[i].user
         /\ tokens'[i].family = tokens[i].family
         /\ tokens'[i].parent = tokens[i].parent
         /\ tokens'[i].revoked <=> tokens[i].revoked \/ i \in ids
  BY <1>2, <1>3 DEF Row
<1>5. tokens' \in [1..Len(tokens) -> Row]
  BY <1>3, <1>4
<1>6. tokens' \in Seq(Row) /\ Len(tokens') = Len(tokens)
  BY <1>1, <1>5
<1>7. QED
  BY <1>4, <1>6

\* A request that does not move keeps what it has established.
LEMMA GrowsKeepsRequest ==
    ASSUME TypeOK, Grows, NEW q \in Request, RequestInv(q),
           pc'[q] = pc[q], call'[q] = call[q]
    PROVE  RequestInv(q)'
<1>1. CASE pc[q] = "idle"
  BY <1>1 DEF RequestInv
<1>2. CASE pc[q] # "idle"
  <2>1. Len(tokens) \in Nat /\ Len(tokens') \in Nat /\ Len(tokens) <= Len(tokens')
    BY DEF TypeOK, Grows
  <2>2. call[q].token # 0 => call[q].token \in 1..Len(tokens)
    BY <1>2, <2>1 DEF RequestInv
  <2>3. call[q].token # 0 =>
           /\ tokens'[call[q].token].user = tokens[call[q].token].user
           /\ tokens[call[q].token].revoked => tokens'[call[q].token].revoked
    BY <2>2 DEF Grows
  <2>4. users \subseteq users'
    BY DEF Grows
  <2>5. QED
    BY <1>2, <2>1, <2>3, <2>4 DEF RequestInv
<1>3. QED
  BY <1>1, <1>2

LEMMA SameTokensGrow ==
    ASSUME TypeOK, users \subseteq users', tokens' = tokens
    PROVE  Grows
BY DEF TypeOK, Grows

\* What Grows leaves of FamilyInv, of RotatedIsDead and of the typing of
\* the rows, when no row is added.
LEMMA SameLengthKeepsTables ==
    ASSUME TypeOK, FamilyInv, RotatedIsDead, Grows, Len(tokens') = Len(tokens)
    PROVE  /\ FamilyInv' /\ RotatedIsDead'
           /\ \A i \in DOMAIN tokens' : /\ tokens'[i].user \in users'
                                        /\ tokens'[i].family \in 1..i
                                        /\ tokens'[i].parent \in 0..(i - 1)
<1>1. Len(tokens) \in Nat /\ DOMAIN tokens = 1..Len(tokens) /\ DOMAIN tokens' = 1..Len(tokens)
  BY DEF TypeOK, Grows
<1>2. ASSUME NEW i \in 1..Len(tokens)
      PROVE  /\ tokens'[i].user \in users'
             /\ tokens'[i].family \in 1..i
             /\ tokens'[i].parent \in 0..(i - 1)
             /\ tokens'[tokens'[i].family].user = tokens'[i].user
             /\ tokens'[i].parent # NoToken => tokens'[tokens'[i].parent].revoked
  <2>1. /\ tokens[i].user \in users
        /\ tokens[i].family \in 1..i
        /\ tokens[i].parent \in 0..(i - 1)
    BY RowOf
  <2>2. /\ tokens[i].family \in 1..Len(tokens)
        /\ tokens[i].parent # 0 => tokens[i].parent \in 1..Len(tokens)
    BY <1>1, <2>1
  <2>3. /\ tokens'[i].user = tokens[i].user
        /\ tokens'[i].family = tokens[i].family
        /\ tokens'[i].parent = tokens[i].parent
    BY DEF Grows
  <2>4. tokens'[tokens[i].family].user = tokens[tokens[i].family].user
    BY <2>2 DEF Grows
  <2>5. tokens[i].parent # 0 => tokens'[tokens[i].parent].revoked
    BY <1>1, <2>2 DEF Grows, RotatedIsDead, NoToken
  <2>6. tokens[tokens[i].family].user = tokens[i].user
    BY DEF FamilyInv
  <2>7. users \subseteq users'
    BY DEF Grows
  <2>8. QED
    BY <2>1, <2>3, <2>4, <2>5, <2>6, <2>7 DEF NoToken
<1>3. QED
  BY <1>1, <1>2 DEF FamilyInv, RotatedIsDead

\* Steps that add no row: what is left to show of them is what they do to
\* the request that moves.
LEMMA MoveKeepsTables ==
    ASSUME TablesInv, Grows, Len(tokens') = Len(tokens), NEW r \in Request,
           users' \in SUBSET User,
           NEW label \in Busy \cup {"idle"}, pc' = [pc EXCEPT ![r] = label],
           NEW c \in Call \cup {NoCall}, call' = [call EXCEPT ![r] = c],
           expired' \in 0..Len(tokens), crowded' \in SUBSET User,
           ended' \in SUBSET (1..Len(tokens)), excess' \in SUBSET (1..Len(tokens)),
           RequestInv(r)'
    PROVE  TablesInv'
<1>1. ASSUME NEW q \in Request, q # r
      PROVE  RequestInv(q)'
  <2>1. pc'[q] = pc[q] /\ call'[q] = call[q]
    BY <1>1 DEF TablesInv, TypeOK
  <2>2. QED
    BY <2>1, GrowsKeepsRequest DEF TablesInv
<1>2. FamilyInv' /\ RotatedIsDead'
  BY SameLengthKeepsTables DEF TablesInv
<1>3. pc' \in [Request -> Busy \cup {"idle"}] /\ call' \in [Request -> Call \cup {NoCall}]
  BY DEF TablesInv, TypeOK
<1>4. tokens' \in Seq(Row)
  BY DEF Grows
<1>5. \A i \in DOMAIN tokens' : /\ tokens'[i].user \in users'
                                /\ tokens'[i].family \in 1..i
                                /\ tokens'[i].parent \in 0..(i - 1)
  BY SameLengthKeepsTables DEF TablesInv
<1>6. TypeOK'
  BY <1>3, <1>4, <1>5 DEF TypeOK
<1>7. QED
  BY <1>1, <1>2, <1>6 DEF TablesInv

\* An answer, or a step to another statement, that changes no table.
LEMMA RefuseKeepsTables ==
    ASSUME TablesInv, NEW r \in Request, Refuse(r)
    PROVE  TablesInv'
<1>1. Grows
  BY SameTokensGrow DEF Refuse, TablesInv
<1>2. RequestInv(r)'
  BY DEF TablesInv, TypeOK, Refuse, Answer, Goto, RequestInv
<1>3. /\ pc' = [pc EXCEPT ![r] = "idle"] /\ call' = [call EXCEPT ![r] = NoCall]
      /\ UNCHANGED <<users, tokens, expired, crowded, ended, excess>>
  BY DEF Refuse, Answer, Goto
<1>4. QED
  BY <1>1, <1>2, <1>3, MoveKeepsTables DEF TablesInv, TypeOK

LEMMA ContinueKeepsTables ==
    ASSUME TablesInv, NEW r \in Request, NEW label \in Busy, Continue(r, label),
           RequestInv(r)'
    PROVE  TablesInv'
<1>1. Grows
  BY SameTokensGrow DEF Continue, TablesInv
<1>2. call \in [Request -> Call \cup {NoCall}]
  BY DEF TablesInv, TypeOK
<1>3. call[r] \in Call \cup {NoCall} /\ call' = [call EXCEPT ![r] = call[r]]
  BY <1>2 DEF Continue
<1>4. pc' = [pc EXCEPT ![r] = label]
  BY DEF Continue, Goto
<1>5. QED
  BY <1>1, <1>3, <1>4, MoveKeepsTables DEF TablesInv, TypeOK, Continue

LEMMA BeginKeepsTables ==
    ASSUME TablesInv, NEW r \in Request, NEW op, NEW t \in 0..Len(tokens),
           NEW u \in User \cup {NoUser}, NEW label \in {"findUser", "findToken"},
           Begin(r, op, u, t, label),
           label = "findUser" => op \in {"register", "login"} /\ u \in User,
           label = "findToken" => op \in {"refresh", "logout"} /\ (t # 0 => tokens[t].user = u)
    PROVE  TablesInv'
<1> DEFINE c == [op |-> op, user |-> u, token |-> t]
<1>1. Grows
  BY SameTokensGrow DEF Begin, TablesInv
<1>2. Len(tokens) \in Nat
  BY DEF TablesInv, TypeOK
<1>3. c \in Call
  BY <1>2 DEF Begin, Call
<1>4. pc' = [pc EXCEPT ![r] = label] /\ call' = [call EXCEPT ![r] = c]
  BY DEF Begin, Goto
<1>5. label \in Busy
  BY DEF Busy
<1>6. RequestInv(r)'
  <2>1. pc'[r] = label /\ call'[r] = c
    BY <1>4 DEF TablesInv, TypeOK
  <2>2. tokens' = tokens /\ users' = users
    BY DEF Begin
  <2>3. QED
    BY <1>3, <2>1, <2>2 DEF RequestInv
<1>7. crowded' \in SUBSET User
  BY DEF Begin, TablesInv, TypeOK
<1>8. QED
  BY <1>1, <1>3, <1>4, <1>5, <1>6, <1>7, MoveKeepsTables DEF TablesInv, TypeOK, Begin

LEMMA FindUserKeepsTables ==
    ASSUME TablesInv, NEW r \in Request, FindUserByEmail(r)
    PROVE  TablesInv'
<1>1. CASE Refuse(r)
  BY <1>1, RefuseKeepsTables
<1>2. ASSUME NEW label \in {"createUser", "count"}, Continue(r, label),
             label = "createUser" => call[r].op = "register",
             label = "count" => call[r].op = "login" /\ call[r].user \in users
      PROVE  TablesInv'
  <2>1. RequestInv(r)'
    BY <1>2 DEF FindUserByEmail, Continue, Goto, TablesInv, TypeOK, RequestInv
  <2>2. label \in Busy
    BY DEF Busy
  <2>3. QED
    BY <1>2, <2>1, <2>2, ContinueKeepsTables
<1>3. QED
  BY <1>1, <1>2 DEF FindUserByEmail

LEMMA CreateUserKeepsTables ==
    ASSUME TablesInv, NEW r \in Request, CreateUser(r)
    PROVE  TablesInv'
<1>1. CASE Refuse(r)
  BY <1>1, RefuseKeepsTables
<1>2. CASE ~Refuse(r)
  <2>1. /\ users' = users \cup {call[r].user}
        /\ pc' = [pc EXCEPT ![r] = "issue"]
        /\ UNCHANGED <<tokens, expired, call, crowded, ended, excess>>
    BY <1>2 DEF CreateUser, Goto
  <2>2. /\ pc[r] = "createUser" /\ call[r].op = "register" /\ call[r].user \in User
        /\ call[r] \in Call /\ call[r].token \in 0..Len(tokens)
    BY DEF CreateUser, TablesInv, RequestInv
  <2>3. Grows
    BY <2>1, SameTokensGrow DEF TablesInv
  <2>4. RequestInv(r)'
    BY <2>1, <2>2 DEF TablesInv, TypeOK, RequestInv
  <2>5. users' \in SUBSET User
    BY <2>1, <2>2 DEF TablesInv, TypeOK
  <2>6. call' = [call EXCEPT ![r] = call[r]]
    BY <2>1 DEF TablesInv, TypeOK
  <2>7. QED
    BY <2>1, <2>2, <2>3, <2>4, <2>5, <2>6, MoveKeepsTables DEF TablesInv, TypeOK, Busy
<1>3. QED
  BY <1>1, <1>2

LEMMA CountKeepsTables ==
    ASSUME TablesInv, NEW r \in Request, CountActiveSessions(r)
    PROVE  TablesInv'
<1>1. PICK label \in {"oldest", "issue"} : Continue(r, label)
  BY DEF CountActiveSessions
<1>2. RequestInv(r)'
  BY <1>1 DEF CountActiveSessions, Continue, Goto, TablesInv, TypeOK, RequestInv
<1>3. QED
  BY <1>1, <1>2, ContinueKeepsTables DEF Busy

LEMMA FindOldestKeepsTables ==
    ASSUME TablesInv, NEW r \in Request, FindOldest(r)
    PROVE  TablesInv'
<1>1. CASE Continue(r, "issue")
  <2>1. RequestInv(r)'
    BY <1>1 DEF FindOldest, Continue, Goto, TablesInv, TypeOK, RequestInv
  <2>2. QED
    BY <1>1, <2>1, ContinueKeepsTables DEF Busy
<1>2. CASE ~Continue(r, "issue")
  <2>1. PICK t \in Unrevoked(call[r].user) :
           /\ pc' = [pc EXCEPT ![r] = "revokeOldest"]
           /\ call' = [call EXCEPT ![r].token = t]
           /\ UNCHANGED <<users, tokens, expired, crowded, ended, excess>>
    BY <1>2 DEF FindOldest, Goto
  <2>2. Len(tokens) \in Nat /\ DOMAIN tokens = 1..Len(tokens)
    BY DEF TablesInv, TypeOK
  <2>3. t \in 1..Len(tokens) /\ tokens[t].user = call[r].user
    BY <2>2 DEF Unrevoked
  <2>4. /\ pc[r] = "oldest" /\ call[r].op = "login" /\ call[r].user \in users
        /\ call[r] \in Call
    BY DEF FindOldest, TablesInv, RequestInv
  <2>5. [call[r] EXCEPT !.token = t] \in Call
    BY <2>2, <2>3, <2>4 DEF Call
  <2>6. call' = [call EXCEPT ![r] = [call[r] EXCEPT !.token = t]]
    BY <2>1
  <2>7. Grows
    BY <2>1, SameTokensGrow DEF TablesInv
  <2>8. RequestInv(r)'
    <3>1. pc'[r] = "revokeOldest" /\ call'[r] = [call[r] EXCEPT !.token = t]
      BY <2>1, <2>6 DEF TablesInv, TypeOK
    <3>2. call'[r].op = "login" /\ call'[r].user = call[r].user /\ call'[r].token = t
      BY <2>4, <3>1 DEF Call
    <3>3. QED
      BY <2>1, <2>2, <2>3, <2>4, <2>5, <3>1, <3>2 DEF RequestInv
  <2>9. QED
    BY <2>1, <2>5, <2>6, <2>7, <2>8, MoveKeepsTables DEF TablesInv, TypeOK, Busy
<1>3. QED
  BY <1>1, <1>2

LEMMA FindTokenKeepsTables ==
    ASSUME TablesInv, NEW r \in Request, FindRefreshToken(r)
    PROVE  TablesInv'
<1>1. CASE Refuse(r)
  BY <1>1, RefuseKeepsTables
<1>2. CASE ~Refuse(r)
  <2>1. PICK label \in {"family", "revokeExpired", "revoke"} : Continue(r, label)
    BY <1>2 DEF FindRefreshToken
  <2>2. call[r].token \in DOMAIN tokens
    BY <1>2 DEF FindRefreshToken
  <2>3. call[r].token # 0
    BY <2>2 DEF TablesInv, TypeOK
  <2>4. RequestInv(r)'
    BY <2>1, <2>3 DEF FindRefreshToken, Continue, Goto, TablesInv, TypeOK, RequestInv
  <2>5. QED
    BY <2>1, <2>4, ContinueKeepsTables DEF Busy
<1>3. QED
  BY <1>1, <1>2

\* The statements that revoke.
LEMMA RevokeKeepsTables ==
    ASSUME TablesInv, NEW r \in Request, NEW ids, Revoke(ids),
           NEW label \in {"idle", "issue"}, pc' = [pc EXCEPT ![r] = label],
           NEW c \in Call \cup {NoCall}, call' = [call EXCEPT ![r] = c],
           UNCHANGED <<users, expired, crowded>>,
           ended' \in SUBSET (1..Len(tokens)), excess' \in SUBSET (1..Len(tokens)),
           label = "issue" => /\ c = call[r] /\ pc[r] \in {"revokeOldest", "revoke"}
                              /\ c.op # "logout"
                              /\ c.op = "refresh" => c.token \in ids
    PROVE  TablesInv'
<1>1. Len(tokens) \in Nat /\ Len(tokens') = Len(tokens)
  BY RevokeGrows DEF TablesInv, TypeOK
<1>2. Grows
  BY <1>1, RevokeGrows DEF Grows, TablesInv
<1>3. RequestInv(r)'
  <2>1. pc'[r] = label /\ call'[r] = c
    BY DEF TablesInv, TypeOK
  <2>2. CASE label = "idle"
    BY <2>1, <2>2 DEF RequestInv
  <2>3. CASE label = "issue"
    <3>1. RequestInv(r) /\ c = call[r] /\ pc[r] \in {"revokeOldest", "revoke"}
      BY <2>3 DEF TablesInv
    <3>2. c \in Call /\ c.token \in 0..Len(tokens) /\ c.op \in {"login", "refresh"}
      BY <2>3, <3>1 DEF RequestInv
    <3>3. c.op = "refresh" => pc[r] = "revoke"
      BY <3>1 DEF RequestInv
    <3>4. c.op = "refresh" => /\ c.token \in 1..Len(tokens)
                              /\ tokens[c.token].user = c.user
      BY <1>1, <3>1, <3>2, <3>3 DEF RequestInv
    <3>5. c.op = "refresh" => /\ tokens'[c.token].user = c.user
                              /\ tokens'[c.token].revoked
      BY <2>3, <3>4, RevokeGrows DEF TablesInv
    <3>6. c.user \in users
      BY <3>1, <3>2, <3>4, RowOf DEF RequestInv, TablesInv
    <3>7. QED
      BY <1>1, <2>1, <2>3, <3>2, <3>4, <3>5, <3>6 DEF RequestInv
  <2>4. QED
    BY <2>2, <2>3
<1>4. QED
  BY <1>1, <1>2, <1>3, MoveKeepsTables DEF TablesInv, TypeOK, Busy

\* What each of them does, in the terms of the lemma above.
LEMMA RevokeOldestStep ==
    ASSUME TablesInv, NEW r \in Request, RevokeOldest(r)
    PROVE  /\ pc[r] = "revokeOldest"
           /\ call[r] \in Call /\ call[r].op = "login"
           /\ call[r].token \in 1..Len(tokens)
           /\ tokens[call[r].token].user = call[r].user
           /\ Revoke({call[r].token})
           /\ pc' = [pc EXCEPT ![r] = "issue"]
           /\ call' = [call EXCEPT ![r] = call[r]]
           /\ UNCHANGED <<users, expired, call, crowded, ended>>
           /\ excess' = excess \cup {i \in {call[r].token} : i <= expired}
BY DEF RevokeOldest, Goto, TablesInv, TypeOK, RequestInv

LEMMA RevokeFamilyStep ==
    ASSUME TablesInv, NEW r \in Request, RevokeTokenFamily(r)
    PROVE  /\ pc[r] = "family"
           /\ call[r].token \in 1..Len(tokens)
           /\ tokens[call[r].token].user = call[r].user
           /\ Revoke(Family(tokens[call[r].token].family))
           /\ pc' = [pc EXCEPT ![r] = "idle"]
           /\ call' = [call EXCEPT ![r] = NoCall]
           /\ UNCHANGED <<users, expired, crowded, excess>>
           /\ ended' = ended \cup {tokens[call[r].token].family}
BY DEF RevokeTokenFamily, Answer, Goto, TablesInv, TypeOK, RequestInv

LEMMA RevokeTokenStep ==
    ASSUME TablesInv, NEW r \in Request, RevokeRefreshToken(r)
    PROVE  /\ pc[r] \in {"revokeExpired", "revoke"}
           /\ call[r] \in Call /\ call[r].op \in {"refresh", "logout"}
           /\ call[r].token \in 1..Len(tokens)
           /\ tokens[call[r].token].user = call[r].user
           /\ Revoke({call[r].token})
           /\ UNCHANGED <<users, expired, crowded, excess>>
           /\ \/ /\ pc[r] = "revoke" /\ call[r].op = "refresh"
                 /\ pc' = [pc EXCEPT ![r] = "issue"]
                 /\ call' = [call EXCEPT ![r] = call[r]]
                 /\ UNCHANGED <<call, ended>>
              \/ /\ pc' = [pc EXCEPT ![r] = "idle"]
                 /\ call' = [call EXCEPT ![r] = NoCall]
                 /\ \/ UNCHANGED ended
                    \/ /\ pc[r] = "revoke" /\ call[r].op = "logout"
                       /\ ended' = ended \cup {tokens[call[r].token].family}
<1>1. pc[r] \in {"revokeExpired", "revoke"} /\ Revoke({call[r].token})
  BY DEF RevokeRefreshToken
<1>2. /\ call[r] \in Call /\ call[r].op \in {"refresh", "logout"}
      /\ call[r].token \in 1..Len(tokens)
      /\ tokens[call[r].token].user = call[r].user
  BY <1>1 DEF TablesInv, TypeOK, RequestInv
<1>3. call \in [Request -> Call \cup {NoCall}]
  BY DEF TablesInv, TypeOK
<1>4. call = [call EXCEPT ![r] = call[r]]
  BY <1>3
<1>5. QED
  BY <1>1, <1>2, <1>4 DEF RevokeRefreshToken, Answer, Goto

LEMMA FamilyInRange ==
    ASSUME TypeOK, NEW i \in 1..Len(tokens)
    PROVE  tokens[i].family \in 1..Len(tokens)
BY RowOf DEF TypeOK

LEMMA RevocationsKeepTables ==
    ASSUME TablesInv, NEW r \in Request,
           RevokeOldest(r) \/ RevokeTokenFamily(r) \/ RevokeRefreshToken(r)
    PROVE  TablesInv'
<1>0. /\ ended \in SUBSET (1..Len(tokens)) /\ excess \in SUBSET (1..Len(tokens))
      /\ TypeOK
  BY DEF TablesInv, TypeOK
<1>1. CASE RevokeOldest(r)
  <2>1. excess' \in SUBSET (1..Len(tokens))
    BY <1>0, <1>1, RevokeOldestStep
  <2>2. QED
    BY <1>0, <1>1, <2>1, RevokeOldestStep, RevokeKeepsTables
<1>2. CASE RevokeTokenFamily(r)
  <2>1. tokens[call[r].token].family \in 1..Len(tokens)
    BY <1>0, <1>2, RevokeFamilyStep, FamilyInRange
  <2>2. ended' = ended \cup {tokens[call[r].token].family}
    BY <1>2, RevokeFamilyStep
  <2>3. ended' \in SUBSET (1..Len(tokens))
    BY <1>0, <2>1, <2>2
  <2>4. QED
    BY <1>0, <1>2, <2>3, RevokeFamilyStep, RevokeKeepsTables
<1>3. CASE RevokeRefreshToken(r)
  <2>1. tokens[call[r].token].family \in 1..Len(tokens)
    BY <1>0, <1>3, RevokeTokenStep, FamilyInRange
  <2>2. ended' \in SUBSET (1..Len(tokens))
    <3>1. ended' = ended \/ ended' = ended \cup {tokens[call[r].token].family}
      BY <1>3, RevokeTokenStep
    <3>2. QED
      BY <1>0, <2>1, <3>1
  <2>3. Revoke({call[r].token}) /\ UNCHANGED <<users, expired, crowded, excess>> /\ call[r] \in Call
    BY <1>3, RevokeTokenStep
  <2>4. CASE /\ pc[r] = "revoke" /\ call[r].op = "refresh"
             /\ pc' = [pc EXCEPT ![r] = "issue"]
             /\ call' = [call EXCEPT ![r] = call[r]]
    BY <1>0, <2>2, <2>3, <2>4, RevokeKeepsTables
  <2>5. CASE pc' = [pc EXCEPT ![r] = "idle"] /\ call' = [call EXCEPT ![r] = NoCall]
    BY <1>0, <2>2, <2>3, <2>5, RevokeKeepsTables
  <2>6. QED
    BY <1>3, <2>4, <2>5, RevokeTokenStep
<1>4. QED
  BY <1>1, <1>2, <1>3

\* issueTokens adds one row.
LEMMA IssueGrows ==
    ASSUME TablesInv, NEW r \in Request, IssueTokens(r)
    PROVE  /\ Grows
           /\ Len(tokens') = Len(tokens) + 1
           /\ tokens'[Len(tokens) + 1] = NewRow(r)
           /\ \A i \in 1..Len(tokens) : tokens'[i] = tokens[i]
           /\ NewRow(r) \in Row
           /\ NewRow(r).user \in users
           /\ NewRow(r).family \in 1..(Len(tokens) + 1)
           /\ NewRow(r).parent \in 0..Len(tokens)
<1>1. tokens \in Seq(Row) /\ Len(tokens) \in Nat
  BY DEF TablesInv, TypeOK
<1>2. pc[r] = "issue" /\ tokens' = Append(tokens, NewRow(r)) /\ users' = users
  BY DEF IssueTokens
<1>3. /\ call[r] \in Call /\ call[r].user \in users
      /\ call[r].op = "refresh" => call[r].token \in 1..Len(tokens)
  BY <1>1, <1>2 DEF TablesInv, RequestInv
<1>4. call[r].user \in User
  BY <1>3 DEF TablesInv, TypeOK
<1>5. call[r].op = "refresh" => tokens[call[r].token].family \in 1..Len(tokens)
  BY <1>3, FamilyInRange DEF TablesInv
<1>6. /\ NewRow(r).user \in users
      /\ NewRow(r).family \in 1..(Len(tokens) + 1)
      /\ NewRow(r).parent \in 0..Len(tokens)
  BY <1>1, <1>3, <1>5 DEF NewRow, NoToken
<1>7. NewRow(r) \in Row
  BY <1>1, <1>3, <1>4, <1>5 DEF NewRow, NoToken, Row
<1>8. /\ tokens' \in Seq(Row)
      /\ Len(tokens') = Len(tokens) + 1
      /\ tokens'[Len(tokens) + 1] = NewRow(r)
      /\ \A i \in 1..Len(tokens) : tokens'[i] = tokens[i]
  BY <1>1, <1>2, <1>7
<1>9. QED
  BY <1>1, <1>2, <1>6, <1>7, <1>8 DEF Grows

LEMMA IssueKeepsTables ==
    ASSUME TablesInv, NEW r \in Request, IssueTokens(r)
    PROVE  TablesInv'
<1> DEFINE n == Len(tokens) + 1
<1>1. /\ Grows
      /\ Len(tokens') = n
      /\ tokens'[n] = NewRow(r)
      /\ \A i \in 1..Len(tokens) : tokens'[i] = tokens[i]
      /\ NewRow(r) \in Row
      /\ NewRow(r).user \in users
      /\ NewRow(r).family \in 1..n
      /\ NewRow(r).parent \in 0..Len(tokens)
  BY IssueGrows
<1>2. /\ pc' = [pc EXCEPT ![r] = "idle"]
      /\ call' = [call EXCEPT ![r] = NoCall]
      /\ UNCHANGED <<users, expired, crowded, ended>>
      /\ excess' = excess \cup {i \in {n} : call[r].token \in excess}
  BY DEF IssueTokens, Answer, Goto
<1>3. Len(tokens) \in Nat /\ DOMAIN tokens' = 1..n /\ tokens' \in Seq(Row)
  BY <1>1 DEF TablesInv, TypeOK, Grows
<1>4. \A q \in Request : RequestInv(q)'
  <2>1. RequestInv(r)'
    BY <1>2 DEF TablesInv, TypeOK, RequestInv
  <2>2. ASSUME NEW q \in Request, q # r
        PROVE  pc'[q] = pc[q] /\ call'[q] = call[q]
    BY <1>2, <2>2 DEF TablesInv, TypeOK
  <2>3. QED
    BY <1>1, <2>1, <2>2, GrowsKeepsRequest DEF TablesInv
<1>5. \A i \in 1..n : /\ tokens'[i].user \in users'
                      /\ tokens'[i].family \in 1..i
                      /\ tokens'[i].parent \in 0..(i - 1)
  <2>1. ASSUME NEW i \in 1..Len(tokens)
        PROVE  /\ tokens'[i].user \in users'
               /\ tokens'[i].family \in 1..i
               /\ tokens'[i].parent \in 0..(i - 1)
    BY <1>1, <1>2, <2>1, RowOf DEF TablesInv
  <2>2. n - 1 = Len(tokens)
    BY <1>3
  <2>3. QED
    BY <1>1, <1>2, <1>3, <2>1, <2>2
<1>6. FamilyInv'
  <2>1. ASSUME NEW i \in 1..Len(tokens)
        PROVE  tokens'[tokens'[i].family].user = tokens'[i].user
    <3>1. tokens[i].family \in 1..Len(tokens)
      BY FamilyInRange DEF TablesInv
    <3>2. QED
      BY <1>1, <3>1 DEF TablesInv, FamilyInv
  <2>2. tokens'[tokens'[n].family].user = tokens'[n].user
    <3>1. CASE call[r].op = "refresh"
      <4>1. call[r].token \in 1..Len(tokens) /\ tokens[call[r].token].user = call[r].user
        BY <1>3, <3>1 DEF IssueTokens, TablesInv, RequestInv
      <4>2. tokens[call[r].token].family \in 1..Len(tokens)
        BY <4>1, FamilyInRange DEF TablesInv
      <4>3. NewRow(r).family = tokens[call[r].token].family /\ NewRow(r).user = call[r].user
        BY <3>1 DEF NewRow
      <4>4. QED
        BY <1>1, <4>1, <4>2, <4>3 DEF TablesInv, FamilyInv
    <3>2. CASE call[r].op # "refresh"
      BY <1>1, <3>2 DEF NewRow
    <3>3. QED
      BY <3>1, <3>2
  <2>3. QED
    BY <1>1, <1>3, <2>1, <2>2 DEF FamilyInv
<1>7. RotatedIsDead'
  <2>1. ASSUME NEW i \in 1..Len(tokens), tokens'[i].parent # 0
        PROVE  tokens'[tokens'[i].parent].revoked
    <3>1. tokens[i].parent \in 1..Len(tokens) /\ i \in DOMAIN tokens
      BY <1>1, <1>3, <2>1, RowOf DEF TablesInv
    <3>2. QED
      BY <1>1, <2>1, <3>1 DEF TablesInv, RotatedIsDead, NoToken
  <2>2. tokens'[n].parent # 0 => tokens'[tokens'[n].parent].revoked
    <3>1. call[r].op = "refresh" => call[r].token \in 1..Len(tokens) /\ tokens[call[r].token].revoked
      BY <1>3 DEF IssueTokens, TablesInv, RequestInv
    <3>2. NewRow(r).parent # 0 => call[r].op = "refresh" /\ NewRow(r).parent = call[r].token
      BY DEF NewRow, NoToken
    <3>3. QED
      BY <1>1, <3>1, <3>2
  <2>3. QED
    BY <1>3, <2>1, <2>2 DEF RotatedIsDead, NoToken
<1>8. TypeOK'
  <2>1. pc' \in [Request -> Busy \cup {"idle"}] /\ call' \in [Request -> Call \cup {NoCall}]
    BY <1>2 DEF TablesInv, TypeOK
  <2>2. /\ expired' \in 0..Len(tokens') /\ ended' \subseteq 1..Len(tokens')
        /\ excess' \subseteq 1..Len(tokens')
    <3>1. /\ expired \in 0..Len(tokens) /\ ended \subseteq 1..Len(tokens)
          /\ excess \subseteq 1..Len(tokens)
      BY DEF TablesInv, TypeOK
    <3>2. excess' \subseteq excess \cup {n}
      BY <1>2
    <3>3. Len(tokens') = Len(tokens) + 1 /\ Len(tokens) \in Nat /\ n = Len(tokens) + 1
      BY <1>1, <1>3
    <3>4. excess' \subseteq 1..Len(tokens')
      BY <3>1, <3>2, <3>3
    <3>5. QED
      BY <1>2, <3>1, <3>3, <3>4
  <2>3. users' \subseteq User /\ crowded' \subseteq User
    BY <1>2 DEF TablesInv, TypeOK
  <2>4. QED
    BY <1>3, <1>5, <2>1, <2>2, <2>3 DEF TypeOK
<1>9. QED
  BY <1>4, <1>6, <1>7, <1>8 DEF TablesInv

LEMMA ExpireKeepsTables == TablesInv /\ Expire => TablesInv'
<1> SUFFICES ASSUME TablesInv, Expire PROVE TablesInv'
  OBVIOUS
<1>1. UNCHANGED <<users, tokens, pc, call, crowded, ended, excess>> /\ expired' = expired + 1
  BY DEF Expire
<1>2. expired' \in 0..Len(tokens')
  BY <1>1 DEF Expire, TablesInv, TypeOK
<1>3. TypeOK'
  BY <1>1, <1>2 DEF TablesInv, TypeOK
<1>4. FamilyInv' /\ RotatedIsDead'
  BY <1>1 DEF TablesInv, FamilyInv, RotatedIsDead
<1>5. \A r \in Request : RequestInv(r)'
  BY <1>1 DEF TablesInv, RequestInv
<1>6. QED
  BY <1>3, <1>4, <1>5 DEF TablesInv

LEMMA BeginningsKeepTables ==
    ASSUME TablesInv, NEW r \in Request,
           \/ \E u \in User : BeginRegister(r, u) \/ BeginLogin(r, u)
           \/ \E t \in 0..Len(tokens) : BeginRefresh(r, t) \/ BeginLogout(r, t)
    PROVE  TablesInv'
<1>1. ASSUME NEW u \in User, BeginRegister(r, u) \/ BeginLogin(r, u)
      PROVE  TablesInv'
  <2>1. Len(tokens) \in Nat /\ NoToken = 0
    BY DEF TablesInv, TypeOK, NoToken
  <2>2. PICK op \in {"register", "login"} : Begin(r, op, u, 0, "findUser")
    BY <1>1, <2>1 DEF BeginRegister, BeginLogin
  <2>3. QED
    BY <2>1, <2>2, BeginKeepsTables
<1>2. ASSUME NEW t \in 0..Len(tokens), BeginRefresh(r, t) \/ BeginLogout(r, t)
      PROVE  TablesInv'
  <2>1. Len(tokens) \in Nat /\ DOMAIN tokens = 1..Len(tokens)
    BY DEF TablesInv, TypeOK
  <2>2. PICK op \in {"refresh", "logout"} : Begin(r, op, UserOf(t), t, "findToken")
    BY <1>2 DEF BeginRefresh, BeginLogout
  <2>3. t # 0 => UserOf(t) = tokens[t].user
    BY <2>1 DEF UserOf
  <2>4. UserOf(t) \in User \cup {NoUser}
    BY <2>1, RowOf DEF UserOf, Row, TablesInv
  <2>5. QED
    BY <2>2, <2>3, <2>4, BeginKeepsTables
<1>3. QED
  BY <1>1, <1>2

LEMMA NextKeepsTables == TablesInv /\ [Next]_authVars => TablesInv'
<1> SUFFICES ASSUME TablesInv, [Next]_authVars PROVE TablesInv'
  OBVIOUS
<1>1. ASSUME NEW r \in Request, Advance(r) \/ Abort(r)
      PROVE  TablesInv'
  BY <1>1, FindUserKeepsTables, CreateUserKeepsTables, CountKeepsTables,
     FindOldestKeepsTables, FindTokenKeepsTables, RevocationsKeepTables,
     IssueKeepsTables, RefuseKeepsTables DEF Advance, Abort
<1>2. CASE UNCHANGED authVars
  BY <1>2 DEF authVars, TablesInv, TypeOK, FamilyInv, RotatedIsDead, RequestInv
<1>3. QED
  BY <1>1, <1>2, BeginningsKeepTables, ExpireKeepsTables DEF Next

LEMMA InitTables == Init => TablesInv
<1> SUFFICES ASSUME Init PROVE TablesInv
  OBVIOUS
<1>1. tokens = <<>> /\ DOMAIN tokens = {} /\ Len(tokens) = 0 /\ tokens \in Seq(Row)
  BY DEF Init
<1>2. TypeOK
  BY <1>1 DEF Init, TypeOK
<1>3. FamilyInv /\ RotatedIsDead
  BY <1>1 DEF FamilyInv, RotatedIsDead
<1>4. QED
  BY <1>2, <1>3 DEF Init, TablesInv, RequestInv

\* The tables keep their types and their foreign keys.
THEOREM AuthTypeCorrect == Spec => []TypeOK
<1>1. TablesInv => TypeOK
  BY DEF TablesInv
<1>2. QED
  BY <1>1, InitTables, NextKeepsTables, PTL DEF Spec

\* A refresh token that was exchanged is dead.
THEOREM AuthRotatedIsDead == Spec => []RotatedIsDead
<1>1. TablesInv => RotatedIsDead
  BY DEF TablesInv
<1>2. QED
  BY <1>1, InitTables, NextKeepsTables, PTL DEF Spec
-----------------------------------------------------------------------------
\* What else holds while a user's requests do not overlap.
Alone(u) ==
    \A q, r \in Request :
        pc[q] # "idle" /\ pc[r] # "idle" /\ call[q].user = u /\ call[r].user = u => q = r

OneLive(u) == \A i, j \in Unrevoked(u) : tokens[i].family = tokens[j].family => i = j

NoneEnded(u) == \A i \in Unrevoked(u) : tokens[i].family \notin ended

\* A request has seen its token live, or has revoked the one live token of
\* a family that goes on.
Learned(u, r) ==
    LET t == call[r].token IN
    pc[r] # "idle" /\ call[r].user = u =>
        /\ pc[r] = "revoke" => ~tokens[t].revoked
        /\ pc[r] = "issue" /\ call[r].op = "refresh" =>
              /\ tokens[t].family \notin ended
              /\ \A i \in Unrevoked(u) : tokens[i].family # tokens[t].family

SessionInv(u) ==
    Alone(u) /\ OneLive(u) /\ NoneEnded(u) /\ \A r \in Request : Learned(u, r)

AuthInv == TablesInv /\ \A u \in User \ crowded : SessionInv(u)

\* Only r moves, and it neither begins nor changes its user.
Moves(r) ==
    /\ \A q \in Request \ {r} : pc'[q] = pc[q] /\ call'[q] = call[q]
    /\ pc'[r] # "idle" => pc[r] # "idle" /\ call'[r].user = call[r].user

LEMMA MovesKeepsAlone ==
    ASSUME NEW r \in Request, Moves(r), NEW u, Alone(u)
    PROVE  Alone(u)'
<1> SUFFICES ASSUME NEW p \in Request, NEW q \in Request,
                    pc'[p] # "idle", pc'[q] # "idle", call'[p].user = u, call'[q].user = u
             PROVE  p = q
  BY DEF Alone
<1>1. pc[p] # "idle" /\ call[p].user = u
  BY DEF Moves
<1>2. pc[q] # "idle" /\ call[q].user = u
  BY DEF Moves
<1>3. QED
  BY <1>1, <1>2 DEF Alone

\* Steps that leave the tokens alone.
LEMMA QuietKeepsSession ==
    ASSUME NEW u, SessionInv(u), tokens' = tokens, ended' = ended,
           NEW r \in Request, Alone(u)', Learned(u, r)',
           \A q \in Request \ {r} : pc'[q] = pc[q] /\ call'[q] = call[q]
    PROVE  SessionInv(u)'
<1>1. OneLive(u)' /\ NoneEnded(u)'
  BY DEF SessionInv, OneLive, NoneEnded, Unrevoked
<1>2. \A q \in Request \ {r} : Learned(u, q)'
  BY DEF SessionInv, Learned, Unrevoked
<1>3. QED
  BY <1>1, <1>2 DEF SessionInv

LEMMA RefuseKeepsSession ==
    ASSUME TablesInv, NEW u, SessionInv(u), NEW r \in Request, Refuse(r)
    PROVE  SessionInv(u)'
<1>1. Moves(r) /\ pc'[r] = "idle" /\ tokens' = tokens /\ ended' = ended
  BY DEF Refuse, Answer, Goto, Moves, TablesInv, TypeOK
<1>2. Learned(u, r)'
  BY <1>1 DEF Learned
<1>3. QED
  BY <1>1, <1>2, MovesKeepsAlone, QuietKeepsSession DEF Moves, SessionInv

LEMMA ContinueKeepsSession ==
    ASSUME TablesInv, NEW u, SessionInv(u), NEW r \in Request, NEW label,
           Continue(r, label), pc[r] # "idle", call[r] \in Call,
           label = "revoke" => ~tokens[call[r].token].revoked,
           label = "issue" => call[r].op # "refresh"
    PROVE  SessionInv(u)'
<1>1. /\ Moves(r) /\ pc'[r] = label /\ call'[r] = call[r]
      /\ tokens' = tokens /\ ended' = ended
  BY DEF Continue, Goto, Moves, TablesInv, TypeOK
<1>2. Learned(u, r)'
  BY <1>1 DEF Learned
<1>3. QED
  BY <1>1, <1>2, MovesKeepsAlone, QuietKeepsSession DEF Moves, SessionInv

LEMMA BeginKeepsSession ==
    ASSUME TablesInv, NEW u \in User, u \notin crowded', SessionInv(u), NEW r \in Request,
           NEW op, NEW v, NEW t, NEW label \in {"findUser", "findToken"},
           Begin(r, op, v, t, label)
    PROVE  SessionInv(u)'
<1>1. /\ pc' = [pc EXCEPT ![r] = label]
      /\ call' = [call EXCEPT ![r] = [op |-> op, user |-> v, token |-> t]]
      /\ tokens' = tokens /\ ended' = ended /\ pc[r] = "idle"
  BY DEF Begin, Goto
<1>2. v = u => \A q \in Request : pc[q] = "idle" \/ call[q].user # u
  BY DEF Begin
<1>3. /\ pc'[r] = label /\ call'[r].user = v
      /\ \A q \in Request \ {r} : pc'[q] = pc[q] /\ call'[q] = call[q]
  BY <1>1 DEF TablesInv, TypeOK
<1>4. Alone(u)'
  BY <1>2, <1>3 DEF SessionInv, Alone
<1>5. Learned(u, r)'
  BY <1>3 DEF Learned
<1>6. QED
  BY <1>1, <1>3, <1>4, <1>5, QuietKeepsSession

\* The statements that only read, and the creation of a user.
LEMMA ReadsKeepSession ==
    ASSUME TablesInv, NEW u, SessionInv(u), NEW r \in Request,
           \/ FindUserByEmail(r) \/ CreateUser(r) \/ CountActiveSessions(r)
           \/ FindOldest(r) \/ FindRefreshToken(r)
    PROVE  SessionInv(u)'
<1>0. pc[r] # "idle" /\ call[r] \in Call
  BY DEF FindUserByEmail, CreateUser, CountActiveSessions, FindOldest, FindRefreshToken,
         TablesInv, RequestInv
<1>1. CASE Refuse(r)
  BY <1>1, RefuseKeepsSession
<1>2. CASE FindUserByEmail(r) /\ ~Refuse(r)
  <2>1. PICK label \in {"createUser", "count"} : Continue(r, label)
    BY <1>2 DEF FindUserByEmail
  <2>2. QED
    BY <1>0, <2>1, ContinueKeepsSession
<1>3. CASE CreateUser(r) /\ ~Refuse(r)
  <2>1. /\ pc' = [pc EXCEPT ![r] = "issue"] /\ call' = call
        /\ tokens' = tokens /\ ended' = ended
    BY <1>3 DEF CreateUser, Goto
  <2>2. call[r].op = "register"
    BY <1>3 DEF CreateUser, TablesInv, RequestInv
  <2>3. Moves(r) /\ pc'[r] = "issue"
    BY <1>0, <2>1 DEF Moves, TablesInv, TypeOK
  <2>4. Learned(u, r)'
    BY <2>1, <2>2, <2>3 DEF Learned
  <2>5. QED
    BY <2>1, <2>3, <2>4, MovesKeepsAlone, QuietKeepsSession DEF Moves, SessionInv
<1>4. CASE CountActiveSessions(r)
  <2>1. PICK label \in {"oldest", "issue"} : Continue(r, label)
    BY <1>4 DEF CountActiveSessions
  <2>2. call[r].op # "refresh"
    BY <1>4 DEF CountActiveSessions, TablesInv, RequestInv
  <2>3. QED
    BY <1>0, <2>1, <2>2, ContinueKeepsSession
<1>5. CASE FindOldest(r) /\ ~Continue(r, "issue")
  <2>1. PICK t : /\ pc' = [pc EXCEPT ![r] = "revokeOldest"]
                 /\ call' = [call EXCEPT ![r].token = t]
                 /\ tokens' = tokens /\ ended' = ended
    BY <1>5 DEF FindOldest, Goto
  <2>2. pc'[r] = "revokeOldest" /\ call'[r] = [call[r] EXCEPT !.token = t]
    BY <2>1 DEF TablesInv, TypeOK
  <2>3. call'[r].user = call[r].user
    BY <1>0, <2>2 DEF Call
  <2>4. \A q \in Request \ {r} : pc'[q] = pc[q] /\ call'[q] = call[q]
    BY <2>1 DEF TablesInv, TypeOK
  <2>5. Moves(r)
    BY <1>0, <2>3, <2>4 DEF Moves
  <2>6. Learned(u, r)'
    BY <2>2 DEF Learned
  <2>7. QED
    BY <2>1, <2>4, <2>5, <2>6, MovesKeepsAlone, QuietKeepsSession DEF SessionInv
<1>6. CASE FindOldest(r) /\ Continue(r, "issue")
  <2>1. call[r].op # "refresh"
    BY <1>6 DEF FindOldest, TablesInv, RequestInv
  <2>2. QED
    BY <1>0, <1>6, <2>1, ContinueKeepsSession
<1>7. CASE FindRefreshToken(r) /\ ~Refuse(r)
  <2>1. PICK label \in {"family", "revokeExpired", "revoke"} :
           /\ Continue(r, label)
           /\ label = "revoke" => ~tokens[call[r].token].revoked
    BY <1>7 DEF FindRefreshToken
  <2>2. QED
    BY <1>0, <2>1, ContinueKeepsSession
<1>8. QED
  BY <1>1, <1>2, <1>3, <1>4, <1>5, <1>6, <1>7

LEMMA ExpireKeepsSession ==
    ASSUME NEW u, SessionInv(u), Expire
    PROVE  SessionInv(u)'
BY DEF Expire, SessionInv, Alone, OneLive, NoneEnded, Learned, Unrevoked

\* A token of a user is of a family of that user.
LEMMA FamilyOfUser ==
    ASSUME TablesInv, NEW i \in 1..Len(tokens)
    PROVE  /\ tokens[i].family \in 1..Len(tokens)
           /\ tokens[tokens[i].family].user = tokens[i].user
BY FamilyInRange DEF TablesInv, FamilyInv

\* What a request relies on is about a token, and its family, of its user.
LEMMA LearnedOfToken ==
    ASSUME TablesInv, NEW q \in Request,
           pc[q] = "revoke" \/ (pc[q] = "issue" /\ call[q].op = "refresh")
    PROVE  /\ call[q].token \in 1..Len(tokens)
           /\ tokens[call[q].token].user = call[q].user
           /\ tokens[call[q].token].family \in 1..Len(tokens)
           /\ tokens[tokens[call[q].token].family].user = call[q].user
<1>1. call[q].token \in 1..Len(tokens) /\ tokens[call[q].token].user = call[q].user
  BY DEF TablesInv, TypeOK, RequestInv
<1>2. QED
  BY <1>1, FamilyOfUser

\* A request revokes tokens of its user, and may end a family of them: the
\* one whose live token, if any, it revokes.
LEMMA RevokeKeepsSession ==
    ASSUME TablesInv, NEW u, SessionInv(u), NEW r \in Request, pc[r] # "idle", Moves(r),
           NEW ids, Revoke(ids),
           \A i \in 1..Len(tokens) : i \in ids => tokens[i].user = call[r].user,
           NEW f \in 1..Len(tokens), tokens[f].user = call[r].user,
           ended' \in {ended, ended \cup {f}},
           call[r].user = u /\ ended' # ended =>
              \A i \in Unrevoked(u) : tokens[i].family = f => i \in ids,
           Learned(u, r)'
    PROVE  SessionInv(u)'
<1>1. /\ Len(tokens) \in Nat /\ DOMAIN tokens = 1..Len(tokens)
      /\ DOMAIN tokens' = 1..Len(tokens)
  BY RevokeGrows DEF TablesInv, TypeOK
<1>2. \A i \in 1..Len(tokens) :
         /\ tokens'[i].user = tokens[i].user
         /\ tokens'[i].family = tokens[i].family
         /\ tokens'[i].revoked <=> tokens[i].revoked \/ i \in ids
  BY RevokeGrows DEF TablesInv
<1>3. Unrevoked(u) \subseteq 1..Len(tokens) /\ Unrevoked(u)' = Unrevoked(u) \ ids
  BY <1>1, <1>2 DEF Unrevoked
<1>4. OneLive(u)'
  <2>1. \A i \in Unrevoked(u) : tokens'[i].family = tokens[i].family
    BY <1>2, <1>3
  <2>2. QED
    BY <1>3, <2>1 DEF SessionInv, OneLive
<1>5. NoneEnded(u)'
  <2>1. SUFFICES ASSUME NEW i \in Unrevoked(u), i \notin ids
                 PROVE  tokens[i].family \notin ended'
    BY <1>2, <1>3 DEF NoneEnded
  <2>2. tokens[i].family \notin ended
    BY DEF SessionInv, NoneEnded
  <2>3. ASSUME tokens[i].family = f PROVE ended' = ended
    <3>1. tokens[i].user = u /\ tokens[f].user = u
      BY <1>3, <2>3, FamilyOfUser DEF Unrevoked
    <3>2. QED
      BY <2>1, <2>3, <3>1
  <2>4. QED
    BY <2>2, <2>3
<1>6. ASSUME NEW q \in Request, q # r
      PROVE  Learned(u, q)'
  <2>1. SUFFICES ASSUME pc[q] # "idle", call[q].user = u,
                        pc[q] = "revoke" \/ (pc[q] = "issue" /\ call[q].op = "refresh")
                 PROVE  Learned(u, q)'
    BY <1>6 DEF Moves, Learned
  <2>2. pc'[q] = pc[q] /\ call'[q] = call[q]
    BY <1>6 DEF Moves
  <2>3. call[r].user # u
    BY <1>6, <2>1 DEF SessionInv, Alone
  <2>4. /\ call[q].token \in 1..Len(tokens)
        /\ tokens[call[q].token].user = u
        /\ tokens[tokens[call[q].token].family].user = u
    BY <2>1, LearnedOfToken
  <2>5. call[q].token \notin ids /\ tokens[call[q].token].family # f
    BY <2>3, <2>4
  <2>6. /\ tokens'[call[q].token].family = tokens[call[q].token].family
        /\ tokens'[call[q].token].revoked <=> tokens[call[q].token].revoked
    BY <1>2, <2>4, <2>5
  <2>7. \A i \in Unrevoked(u)' : i \in Unrevoked(u) /\ tokens'[i].family = tokens[i].family
    BY <1>2, <1>3
  <2>8. QED
    BY <2>1, <2>2, <2>5, <2>6, <2>7 DEF SessionInv, Learned
<1>7. Alone(u)'
  BY MovesKeepsAlone DEF SessionInv
<1>8. QED
  BY <1>4, <1>5, <1>6, <1>7 DEF SessionInv

LEMMA RevocationsKeepSession ==
    ASSUME TablesInv, NEW u, SessionInv(u), NEW r \in Request,
           RevokeOldest(r) \/ RevokeTokenFamily(r) \/ RevokeRefreshToken(r)
    PROVE  SessionInv(u)'
<1> DEFINE t == call[r].token
           f == tokens[t].family
<1>1. pc[r] # "idle" /\ t \in 1..Len(tokens) /\ tokens[t].user = call[r].user
  BY RevokeOldestStep, RevokeFamilyStep, RevokeTokenStep
<1>2. f \in 1..Len(tokens) /\ tokens[f].user = call[r].user
  BY <1>1, FamilyOfUser
<1>3. pc \in [Request -> Busy \cup {"idle"}] /\ call \in [Request -> Call \cup {NoCall}]
  BY DEF TablesInv, TypeOK
<1>4. DOMAIN tokens = 1..Len(tokens)
  BY DEF TablesInv, TypeOK
<1>5. CASE RevokeOldest(r)
  <2>1. /\ pc' = [pc EXCEPT ![r] = "issue"] /\ call' = call /\ ended' = ended
        /\ Revoke({t}) /\ call[r].op = "login"
    BY <1>5, RevokeOldestStep
  <2>2. Moves(r) /\ Learned(u, r)'
    BY <1>1, <1>3, <2>1 DEF Moves, Learned
  <2>3. \A i \in 1..Len(tokens) : i \in {t} => tokens[i].user = call[r].user
    BY <1>1
  <2>4. QED
    BY <1>1, <1>2, <2>1, <2>2, <2>3, RevokeKeepsSession
<1>6. CASE RevokeTokenFamily(r)
  <2>1. /\ pc' = [pc EXCEPT ![r] = "idle"] /\ call' = [call EXCEPT ![r] = NoCall]
        /\ ended' = ended \cup {f} /\ Revoke(Family(f))
    BY <1>6, RevokeFamilyStep
  <2>2. Moves(r) /\ Learned(u, r)'
    BY <1>1, <1>3, <2>1 DEF Moves, Learned
  <2>3. \A i \in 1..Len(tokens) : i \in Family(f) => tokens[i].user = call[r].user
    BY <1>2, FamilyOfUser DEF Family
  <2>4. \A i \in Unrevoked(u) : tokens[i].family = f => i \in Family(f)
    BY DEF Unrevoked, Family
  <2>5. QED
    BY <1>1, <1>2, <2>1, <2>2, <2>3, <2>4, RevokeKeepsSession
<1>7. CASE RevokeRefreshToken(r)
  <2>1. Revoke({t}) /\ call[r] \in Call /\ pc[r] \in {"revokeExpired", "revoke"}
    BY <1>7, RevokeTokenStep
  <2>2. \A i \in 1..Len(tokens) : i \in {t} => tokens[i].user = call[r].user
    BY <1>1
  <2>3. pc[r] = "revoke" /\ call[r].user = u => t \in Unrevoked(u)
    BY <1>1, <1>4 DEF SessionInv, Learned, Unrevoked
  <2>4. pc[r] = "revoke" /\ call[r].user = u =>
           \A i \in Unrevoked(u) : tokens[i].family = f => i \in {t}
    BY <2>3 DEF SessionInv, OneLive
  <2>5. CASE /\ pc[r] = "revoke" /\ call[r].op = "refresh"
             /\ pc' = [pc EXCEPT ![r] = "issue"]
             /\ UNCHANGED <<call, ended>>
    <3>1. Moves(r) /\ pc'[r] = "issue" /\ call'[r] = call[r] /\ ended' = ended
      BY <1>1, <1>3, <2>5 DEF Moves
    <3>2. Learned(u, r)'
      <4>1. SUFFICES ASSUME call[r].user = u
                     PROVE  /\ tokens'[t].family \notin ended
                            /\ \A i \in Unrevoked(u)' : tokens'[i].family # tokens'[t].family
        BY <3>1 DEF Learned
      <4>2. /\ DOMAIN tokens' = 1..Len(tokens)
            /\ \A i \in 1..Len(tokens) :
                  /\ tokens'[i].user = tokens[i].user
                  /\ tokens'[i].family = tokens[i].family
                  /\ tokens'[i].revoked <=> tokens[i].revoked \/ i \in {t}
        BY <2>1, RevokeGrows DEF TablesInv
      <4>3. f \notin ended
        BY <2>3, <2>5, <4>1 DEF SessionInv, NoneEnded
      <4>4. \A i \in Unrevoked(u)' : i \in Unrevoked(u) /\ i # t /\ tokens'[i].family = tokens[i].family
        BY <1>4, <4>2 DEF Unrevoked
      <4>5. QED
        BY <1>1, <2>4, <2>5, <4>1, <4>2, <4>3, <4>4
    <3>3. QED
      BY <1>1, <1>2, <2>1, <2>2, <3>1, <3>2, RevokeKeepsSession
  <2>6. CASE /\ pc' = [pc EXCEPT ![r] = "idle"]
             /\ call' = [call EXCEPT ![r] = NoCall]
             /\ \/ UNCHANGED ended
                \/ pc[r] = "revoke" /\ ended' = ended \cup {f}
    <3>1. Moves(r) /\ Learned(u, r)'
      BY <1>1, <1>3, <2>6 DEF Moves, Learned
    <3>2. QED
      BY <1>1, <1>2, <2>1, <2>2, <2>4, <2>6, <3>1, RevokeKeepsSession
  <2>7. QED
    BY <1>7, <2>5, <2>6, RevokeTokenStep
<1>8. QED
  BY <1>5, <1>6, <1>7

LEMMA IssueKeepsSession ==
    ASSUME TablesInv, NEW u, SessionInv(u), NEW r \in Request, IssueTokens(r)
    PROVE  SessionInv(u)'
<1> DEFINE n == Len(tokens) + 1
           new == NewRow(r)
<1>1. /\ Len(tokens') = n
      /\ tokens'[n] = new
      /\ \A i \in 1..Len(tokens) : tokens'[i] = tokens[i]
      /\ tokens' \in Seq(Row)
  BY IssueGrows DEF Grows
<1>2. Len(tokens) \in Nat /\ DOMAIN tokens = 1..Len(tokens) /\ DOMAIN tokens' = 1..n
  BY <1>1 DEF TablesInv, TypeOK
<1>3. /\ pc[r] = "issue" /\ ended' = ended
      /\ pc' = [pc EXCEPT ![r] = "idle"] /\ call' = [call EXCEPT ![r] = NoCall]
  BY DEF IssueTokens, Answer, Goto
<1>4. Moves(r) /\ pc'[r] = "idle" /\ pc[r] # "idle"
  BY <1>3 DEF Moves, TablesInv, TypeOK
<1>5. Alone(u)' /\ Learned(u, r)'
  BY <1>4, MovesKeepsAlone DEF SessionInv, Learned
<1>6. new.user = call[r].user /\ new.revoked = FALSE
  BY DEF NewRow
<1>7. CASE call[r].user # u
  <2>1. Unrevoked(u)' = Unrevoked(u)
    BY <1>1, <1>2, <1>6, <1>7 DEF Unrevoked
  <2>2. \A i \in Unrevoked(u) : tokens'[i] = tokens[i]
    BY <1>1, <1>2 DEF Unrevoked
  <2>3. OneLive(u)' /\ NoneEnded(u)'
    BY <1>3, <2>1, <2>2 DEF SessionInv, OneLive, NoneEnded
  <2>4. ASSUME NEW q \in Request, q # r
        PROVE  Learned(u, q)'
    <3>1. SUFFICES ASSUME pc[q] # "idle", call[q].user = u,
                          pc[q] = "revoke" \/ (pc[q] = "issue" /\ call[q].op = "refresh")
                   PROVE  Learned(u, q)'
      BY <1>4, <2>4 DEF Moves, Learned
    <3>2. pc'[q] = pc[q] /\ call'[q] = call[q]
      BY <1>4, <2>4 DEF Moves
    <3>3. tokens'[call[q].token] = tokens[call[q].token]
      BY <1>1, <3>1, LearnedOfToken
    <3>4. QED
      BY <1>3, <2>1, <2>2, <3>1, <3>2, <3>3 DEF SessionInv, Learned
  <2>5. QED
    BY <1>5, <2>3, <2>4 DEF SessionInv
<1>8. CASE call[r].user = u
  <2>1. ASSUME NEW q \in Request, q # r
        PROVE  Learned(u, q)'
    <3>1. pc[q] = "idle" \/ call[q].user # u
      BY <1>4, <1>8, <2>1 DEF SessionInv, Alone
    <3>2. QED
      BY <1>4, <2>1, <3>1 DEF Moves, Learned
  <2>2. Unrevoked(u)' = Unrevoked(u) \cup {n}
    BY <1>1, <1>2, <1>6, <1>8 DEF Unrevoked
  <2>3. \A i \in Unrevoked(u) : i \in 1..Len(tokens) /\ tokens'[i] = tokens[i]
    BY <1>1, <1>2 DEF Unrevoked
  <2>4. new.family \notin ended /\ \A i \in Unrevoked(u) : tokens[i].family # new.family
    <3>1. CASE call[r].op = "refresh"
      <4>1. new.family = tokens[call[r].token].family
        BY <3>1 DEF NewRow
      <4>2. QED
        BY <1>3, <1>4, <1>8, <3>1, <4>1 DEF SessionInv, Learned
    <3>2. CASE call[r].op # "refresh"
      <4>1. new.family = n
        BY <3>2 DEF NewRow
      <4>2. n \notin 1..Len(tokens)
        BY <1>2
      <4>3. ended \subseteq 1..Len(tokens)
        BY DEF TablesInv, TypeOK
      <4>4. \A i \in Unrevoked(u) : tokens[i].family \in 1..Len(tokens)
        BY <2>3, FamilyOfUser
      <4>5. QED
        BY <4>1, <4>2, <4>3, <4>4
    <3>3. QED
      BY <3>1, <3>2
  <2>5. OneLive(u)'
    BY <1>1, <2>2, <2>3, <2>4 DEF SessionInv, OneLive
  <2>6. NoneEnded(u)'
    BY <1>1, <1>3, <2>2, <2>3, <2>4 DEF SessionInv, NoneEnded
  <2>7. QED
    BY <1>5, <2>1, <2>5, <2>6 DEF SessionInv
<1>9. QED
  BY <1>7, <1>8

LEMMA NextKeepsSession ==
    ASSUME TablesInv, Next, NEW u \in User, u \notin crowded', SessionInv(u)
    PROVE  SessionInv(u)'
<1>1. ASSUME NEW r \in Request, NEW v \in User, BeginRegister(r, v) \/ BeginLogin(r, v)
      PROVE  SessionInv(u)'
  <2>1. PICK op : Begin(r, op, v, NoToken, "findUser")
    BY <1>1 DEF BeginRegister, BeginLogin
  <2>2. QED
    BY <2>1, BeginKeepsSession
<1>2. ASSUME NEW r \in Request, NEW t, BeginRefresh(r, t) \/ BeginLogout(r, t)
      PROVE  SessionInv(u)'
  <2>1. PICK op : Begin(r, op, UserOf(t), t, "findToken")
    BY <1>2 DEF BeginRefresh, BeginLogout
  <2>2. QED
    BY <2>1, BeginKeepsSession
<1>3. ASSUME NEW r \in Request, Advance(r) \/ Abort(r)
      PROVE  SessionInv(u)'
  BY <1>3, ReadsKeepSession, RevocationsKeepSession, IssueKeepsSession, RefuseKeepsSession
     DEF Advance, Abort
<1>4. QED
  BY <1>1, <1>2, <1>3, ExpireKeepsSession DEF Next

\* Once crowded, a user stays so.
LEMMA CrowdedGrows == Next => crowded \subseteq crowded'
BY DEF Next, BeginRegister, BeginLogin, BeginRefresh, BeginLogout, Begin, Advance, Abort,
       FindUserByEmail, CreateUser, CountActiveSessions, FindOldest, RevokeOldest,
       FindRefreshToken, RevokeTokenFamily, RevokeRefreshToken, IssueTokens, Refuse,
       Continue, Expire

LEMMA NextKeepsAuth == AuthInv /\ [Next]_authVars => AuthInv'
<1> SUFFICES ASSUME AuthInv, [Next]_authVars PROVE AuthInv'
  OBVIOUS
<1>1. TablesInv'
  BY NextKeepsTables DEF AuthInv
<1>2. CASE Next
  <2>1. \A u \in User \ crowded' : SessionInv(u)'
    BY <1>2, CrowdedGrows, NextKeepsSession DEF AuthInv
  <2>2. QED
    BY <1>1, <2>1 DEF AuthInv
<1>3. CASE UNCHANGED authVars
  <2>1. \A u \in User \ crowded' : SessionInv(u)'
    BY <1>3 DEF AuthInv, authVars, SessionInv, Alone, OneLive, NoneEnded, Learned, Unrevoked
  <2>2. QED
    BY <1>1, <2>1 DEF AuthInv
<1>4. QED
  BY <1>2, <1>3

LEMMA InitAuth == Init => AuthInv
BY InitTables DEF Init, AuthInv, SessionInv, Alone, OneLive, NoneEnded, Learned, Unrevoked

\* The session of a client that waits for its answers has one live token.
THEOREM AuthOneLivePerFamily == Spec => []OneLivePerFamily
<1>1. AuthInv => OneLivePerFamily
  BY DEF AuthInv, SessionInv, OneLive, OneLivePerFamily
<1>2. QED
  BY <1>1, InitAuth, NextKeepsAuth, PTL DEF Spec

\* A session such a client ended never has a live token again.
THEOREM AuthEndedStaysEnded == Spec => []EndedStaysEnded
<1>1. AuthInv => EndedStaysEnded
  BY DEF AuthInv, SessionInv, NoneEnded, EndedStaysEnded
<1>2. QED
  BY <1>1, InitAuth, NextKeepsAuth, PTL DEF Spec
-----------------------------------------------------------------------------
\* The limit of sessions.  What a login has counted, and the token it is to
\* revoke, stay as they were while it is its user's only request.
Counted(u) == Active(u) \ excess

Fits(S) == Cardinality(S) + 1 <= MaxSessions

\* A request about to issue a token has made room for it, or takes the place
\* of a session in excess.
RoomMade(u, r) ==
    LET t == call[r].token IN
    pc[r] # "idle" /\ call[r].user = u =>
        /\ pc[r] = "issue" => t \in excess \/ Fits(Counted(u))
        /\ pc[r] = "revoke" /\ call[r].op = "refresh" =>
              t \in excess \/ Fits(Counted(u) \ {t})
        /\ pc[r] = "revokeOldest" => ~tokens[t].revoked

LimitInv(u) ==
    /\ Cardinality(Counted(u)) <= MaxSessions
    /\ \A r \in Request : RoomMade(u, r)

LEMMA LimitSets ==
    ASSUME TablesInv, NEW u
    PROVE  /\ IsFiniteSet(Active(u)) /\ Cardinality(Active(u)) \in Nat
           /\ IsFiniteSet(Counted(u)) /\ Cardinality(Counted(u)) \in Nat
           /\ Active(u) \subseteq (expired + 1)..Len(tokens)
           /\ Len(tokens) \in Nat /\ expired \in 0..Len(tokens)
           /\ DOMAIN tokens = 1..Len(tokens)
           /\ MaxSessions \in Nat \ {0}
<1>1. Len(tokens) \in Nat /\ expired \in 0..Len(tokens) /\ DOMAIN tokens = 1..Len(tokens)
  BY DEF TablesInv, TypeOK
<1>2. Active(u) \subseteq (expired + 1)..Len(tokens) /\ Counted(u) \subseteq Active(u)
  BY <1>1 DEF Active, Unrevoked, Counted
<1>3. IsFiniteSet((expired + 1)..Len(tokens))
  BY <1>1, FS_Interval
<1>4. IsFiniteSet(Active(u)) /\ IsFiniteSet(Counted(u))
  BY <1>2, <1>3, FS_Subset
<1>5. QED
  BY <1>1, <1>2, <1>4, FS_CardinalityType, AuthAssumption

\* Fewer sessions fit where the present ones do.
LEMMA FewerFit ==
    ASSUME NEW S, NEW T, IsFiniteSet(S), T \subseteq S
    PROVE  /\ Fits(S) => Fits(T)
           /\ Cardinality(S) <= MaxSessions => Cardinality(T) <= MaxSessions
<1>1. Cardinality(S) \in Nat /\ Cardinality(T) \in Nat /\ Cardinality(T) <= Cardinality(S)
  BY FS_Subset, FS_CardinalityType
<1>2. MaxSessions \in Nat
  BY AuthAssumption
<1>3. QED
  BY <1>1, <1>2 DEF Fits

\* Where one of the sessions within the limit ends, another fits.
LEMMA EndedMakesRoom ==
    ASSUME TablesInv, NEW u, LimitInv(u), NEW t \in Active(u)
    PROVE  t \in excess \/ Fits(Counted(u) \ {t})
<1>1. CASE t \notin excess
  <2>1. t \in Counted(u)
    BY <1>1 DEF Counted
  <2>2. Cardinality(Counted(u) \ {t}) = Cardinality(Counted(u)) - 1
    BY <2>1, LimitSets, FS_RemoveElement
  <2>3. Cardinality(Counted(u)) \in Nat /\ MaxSessions \in Nat
    BY LimitSets
  <2>4. QED
    BY <2>2, <2>3 DEF LimitInv, Fits
<1>2. QED
  BY <1>1

\* Steps that leave the tokens alone.
LEMMA QuietKeepsLimit ==
    ASSUME NEW u, LimitInv(u), tokens' = tokens, expired' = expired, excess' = excess,
           NEW r \in Request, RoomMade(u, r)',
           \A q \in Request \ {r} : pc'[q] = pc[q] /\ call'[q] = call[q]
    PROVE  LimitInv(u)'
<1>1. Counted(u)' = Counted(u)
  BY DEF Active, Unrevoked, Counted
<1>2. \A q \in Request \ {r} : RoomMade(u, q)'
  BY <1>1 DEF LimitInv, RoomMade, Fits
<1>3. QED
  BY <1>1, <1>2 DEF LimitInv

LEMMA RefuseKeepsLimit ==
    ASSUME TablesInv, NEW u, LimitInv(u), NEW r \in Request, Refuse(r)
    PROVE  LimitInv(u)'
<1>1. /\ tokens' = tokens /\ expired' = expired /\ excess' = excess
      /\ pc'[r] = "idle"
      /\ \A q \in Request \ {r} : pc'[q] = pc[q] /\ call'[q] = call[q]
  BY DEF Refuse, Answer, Goto, TablesInv, TypeOK
<1>2. QED
  BY <1>1, QuietKeepsLimit DEF RoomMade

LEMMA BeginKeepsLimit ==
    ASSUME TablesInv, NEW u, LimitInv(u), NEW r \in Request, NEW op, NEW v, NEW t,
           NEW label \in {"findUser", "findToken"}, Begin(r, op, v, t, label)
    PROVE  LimitInv(u)'
<1>1. /\ tokens' = tokens /\ expired' = expired /\ excess' = excess
      /\ pc'[r] = label
      /\ \A q \in Request \ {r} : pc'[q] = pc[q] /\ call'[q] = call[q]
  BY DEF Begin, Goto, TablesInv, TypeOK
<1>2. QED
  BY <1>1, QuietKeepsLimit DEF RoomMade

LEMMA ContinueKeepsLimit ==
    ASSUME TablesInv, NEW u, LimitInv(u), NEW r \in Request, NEW label,
           Continue(r, label), label # "revokeOldest",
           label = "issue" /\ call[r].user = u => Fits(Counted(u)),
           label = "revoke" /\ call[r].op = "refresh" /\ call[r].user = u =>
              call[r].token \in excess \/ Fits(Counted(u) \ {call[r].token})
    PROVE  LimitInv(u)'
<1>1. /\ tokens' = tokens /\ expired' = expired /\ excess' = excess /\ call' = call
      /\ pc'[r] = label
      /\ \A q \in Request \ {r} : pc'[q] = pc[q] /\ call'[q] = call[q]
  BY DEF Continue, Goto, TablesInv, TypeOK
<1>2. Counted(u)' = Counted(u)
  BY <1>1 DEF Active, Unrevoked, Counted
<1>3. RoomMade(u, r)'
  BY <1>1, <1>2 DEF RoomMade, Fits
<1>4. QED
  BY <1>1, <1>3, QuietKeepsLimit

LEMMA NoneActive ==
    ASSUME TablesInv, NEW u, Active(u) = {}
    PROVE  Fits(Counted(u)) /\ Cardinality(Counted(u)) <= MaxSessions
<1>1. Counted(u) = {} /\ MaxSessions \in Nat \ {0}
  BY LimitSets DEF Counted
<1>2. Cardinality(Counted(u)) = 0
  BY <1>1, FS_EmptySet
<1>3. QED
  BY <1>1, <1>2 DEF Fits

LEMMA ReadsKeepLimit ==
    ASSUME TablesInv, NEW u, LimitInv(u), NEW r \in Request,
           \/ FindUserByEmail(r) \/ CreateUser(r) \/ CountActiveSessions(r)
           \/ FindOldest(r) \/ FindRefreshToken(r)
    PROVE  LimitInv(u)'
<1>1. CASE Refuse(r)
  BY <1>1, RefuseKeepsLimit
<1>2. CASE FindUserByEmail(r) /\ ~Refuse(r)
  <2>1. PICK label \in {"createUser", "count"} : Continue(r, label)
    BY <1>2 DEF FindUserByEmail
  <2>2. QED
    BY <2>1, ContinueKeepsLimit
<1>3. CASE CreateUser(r) /\ ~Refuse(r)
  <2>1. /\ tokens' = tokens /\ expired' = expired /\ excess' = excess /\ call' = call
        /\ pc'[r] = "issue"
        /\ \A q \in Request \ {r} : pc'[q] = pc[q] /\ call'[q] = call[q]
        /\ call[r].user \notin users
    BY <1>3 DEF CreateUser, Goto, TablesInv, TypeOK
  <2>2. call[r].user = u => Active(u) = {}
    BY <2>1, RowOf, LimitSets DEF Active, Unrevoked, TablesInv
  <2>3. call[r].user = u => Fits(Counted(u))
    BY <2>2, NoneActive
  <2>4. Counted(u)' = Counted(u)
    BY <2>1 DEF Active, Unrevoked, Counted
  <2>5. RoomMade(u, r)'
    BY <2>1, <2>3, <2>4 DEF RoomMade, Fits
  <2>6. QED
    BY <2>1, <2>5, QuietKeepsLimit
<1>4. CASE CountActiveSessions(r)
  <2>1. CASE Cardinality(Active(call[r].user)) >= MaxSessions
    BY <1>4, <2>1, ContinueKeepsLimit DEF CountActiveSessions
  <2>2. CASE ~(Cardinality(Active(call[r].user)) >= MaxSessions)
    <3>1. Continue(r, "issue")
      BY <1>4, <2>2 DEF CountActiveSessions
    <3>2. call[r].user = u => Fits(Active(u))
      BY <2>2, LimitSets DEF Fits
    <3>3. Counted(u) \subseteq Active(u) /\ IsFiniteSet(Active(u))
      BY LimitSets DEF Counted
    <3>4. call[r].user = u => Fits(Counted(u))
      BY <3>2, <3>3, FewerFit
    <3>5. QED
      BY <3>1, <3>4, ContinueKeepsLimit
  <2>3. QED
    BY <2>1, <2>2
<1>5. CASE FindOldest(r)
  <2>1. CASE Unrevoked(call[r].user) = {} /\ Continue(r, "issue")
    <3>1. call[r].user = u => Active(u) = {}
      BY <2>1 DEF Active
    <3>2. QED
      BY <2>1, <3>1, NoneActive, ContinueKeepsLimit
  <2>2. CASE \E t \in Unrevoked(call[r].user) :
                /\ Goto(r, "revokeOldest")
                /\ call' = [call EXCEPT ![r].token = t]
                /\ UNCHANGED <<users, tokens, expired, crowded, ended, excess>>
    <3>1. PICK t \in Unrevoked(call[r].user) :
                /\ Goto(r, "revokeOldest")
                /\ call' = [call EXCEPT ![r].token = t]
                /\ UNCHANGED <<users, tokens, expired, crowded, ended, excess>>
      BY <2>2
    <3>2. call[r] \in Call
      BY <1>5 DEF FindOldest, TablesInv, RequestInv
    <3>3. pc'[r] = "revokeOldest" /\ call'[r].token = t
      BY <3>1, <3>2 DEF Goto, TablesInv, TypeOK, Call
    <3>4. ~tokens[t].revoked
      BY DEF Unrevoked
    <3>5. RoomMade(u, r)'
      BY <3>1, <3>3, <3>4 DEF RoomMade
    <3>6. \A q \in Request \ {r} : pc'[q] = pc[q] /\ call'[q] = call[q]
      BY <3>1 DEF Goto, TablesInv, TypeOK
    <3>7. QED
      BY <3>1, <3>5, <3>6, QuietKeepsLimit
  <2>3. QED
    BY <1>5, <2>1, <2>2 DEF FindOldest
<1>6. CASE FindRefreshToken(r) /\ ~Refuse(r)
  <2>1. PICK label \in {"family", "revokeExpired", "revoke"} :
           /\ Continue(r, label)
           /\ label = "revoke" /\ call[r].op = "refresh" =>
                 /\ call[r].token \in DOMAIN tokens /\ ~tokens[call[r].token].revoked
                 /\ ~(call[r].token <= expired)
    BY <1>6 DEF FindRefreshToken
  <2>2. CASE label = "revoke" /\ call[r].op = "refresh" /\ call[r].user = u
    <3>1. pc[r] = "findToken" /\ Len(tokens) \in Nat /\ expired \in Nat
      BY <1>6, LimitSets DEF FindRefreshToken
    <3>2. call[r].token \in 1..Len(tokens) /\ tokens[call[r].token].user = u
      BY <2>1, <2>2, <3>1, LimitSets DEF TablesInv, RequestInv
    <3>3. call[r].token \in Active(u)
      BY <2>1, <2>2, <3>1, <3>2 DEF Active, Unrevoked
    <3>4. call[r].token \in excess \/ Fits(Counted(u) \ {call[r].token})
      BY <3>3, EndedMakesRoom
    <3>5. QED
      BY <2>1, <2>2, <3>4, ContinueKeepsLimit
  <2>3. CASE ~(label = "revoke" /\ call[r].op = "refresh" /\ call[r].user = u)
    BY <2>1, <2>3, ContinueKeepsLimit
  <2>4. QED
    BY <2>2, <2>3
<1>7. QED
  BY <1>1, <1>2, <1>3, <1>4, <1>5, <1>6

\* A request revokes tokens of its user, and has made room if it goes on to
\* issue one.
LEMMA RevokeKeepsLimit ==
    ASSUME TablesInv, NEW u, Alone(u), LimitInv(u), NEW r \in Request,
           pc[r] # "idle", NEW ids, Revoke(ids), expired' = expired,
           excess \subseteq excess',
           \A i \in 1..Len(tokens) : i \in ids => tokens[i].user = call[r].user,
           \A q \in Request \ {r} : pc'[q] = pc[q] /\ call'[q] = call[q],
           pc'[r] \in {"idle", "issue"},
           pc'[r] = "issue" /\ call'[r].user = u =>
              call'[r].token \in excess' \/ Fits(Counted(u) \ ids)
    PROVE  LimitInv(u)'
<1>1. /\ DOMAIN tokens' = 1..Len(tokens)
      /\ \A i \in 1..Len(tokens) :
            /\ tokens'[i].user = tokens[i].user
            /\ tokens'[i].revoked <=> tokens[i].revoked \/ i \in ids
  BY RevokeGrows DEF TablesInv
<1>2. Len(tokens) \in Nat /\ expired \in 0..Len(tokens) /\ DOMAIN tokens = 1..Len(tokens)
  BY LimitSets
<1>3. Counted(u)' \subseteq Counted(u) \ ids /\ IsFiniteSet(Counted(u))
  BY <1>1, <1>2, LimitSets DEF Active, Unrevoked, Counted
<1>4. /\ Cardinality(Counted(u)') <= MaxSessions
      /\ Fits(Counted(u)) => Fits(Counted(u)')
      /\ Fits(Counted(u) \ ids) => Fits(Counted(u)')
  <2>1. Counted(u)' \subseteq Counted(u) /\ IsFiniteSet(Counted(u) \ ids)
    BY <1>3, FS_Subset
  <2>2. QED
    BY <1>3, <2>1, FewerFit DEF LimitInv
<1>5. ASSUME NEW q \in Request
      PROVE  RoomMade(u, q)'
  <2>1. CASE q = r
    BY <1>4, <2>1 DEF RoomMade, Fits
  <2>2. CASE q # r /\ pc[q] # "idle" /\ call[q].user = u
    <3>1. pc'[q] = pc[q] /\ call'[q] = call[q] /\ call[r].user # u
      BY <2>2 DEF Alone
    <3>2. pc[q] = "issue" => call[q].token \in excess' \/ Fits(Counted(u)')
      BY <1>4, <2>2 DEF LimitInv, RoomMade
    <3>3. pc[q] = "revoke" /\ call[q].op = "refresh" =>
             call[q].token \in excess' \/ Fits(Counted(u)' \ {call[q].token})
      <4>1. /\ Counted(u)' \ {call[q].token} \subseteq Counted(u) \ {call[q].token}
            /\ IsFiniteSet(Counted(u) \ {call[q].token})
        BY <1>3, FS_Subset
      <4>2. Fits(Counted(u) \ {call[q].token}) => Fits(Counted(u)' \ {call[q].token})
        BY <4>1, FewerFit
      <4>3. QED
        BY <2>2, <4>2 DEF LimitInv, RoomMade
    <3>4. pc[q] = "revokeOldest" => /\ call[q].token \in 1..Len(tokens)
                                    /\ tokens[call[q].token].user = u
                                    /\ ~tokens[call[q].token].revoked
      <4>1. pc[q] = "revokeOldest" => /\ call[q].token \in 1..Len(tokens)
                                      /\ tokens[call[q].token].user = u
        BY <1>2, <2>2 DEF TablesInv, RequestInv
      <4>2. pc[q] = "revokeOldest" => ~tokens[call[q].token].revoked
        BY <2>2 DEF LimitInv, RoomMade
      <4>3. QED
        BY <4>1, <4>2
    <3>5. pc[q] = "revokeOldest" => ~tokens'[call[q].token].revoked
      BY <1>1, <3>1, <3>4
    <3>6. QED
      BY <3>1, <3>2, <3>3, <3>5 DEF RoomMade, Fits
  <2>3. CASE q # r /\ ~(pc[q] # "idle" /\ call[q].user = u)
    BY <2>3 DEF RoomMade
  <2>4. QED
    BY <2>1, <2>2, <2>3
<1>6. QED
  BY <1>4, <1>5 DEF LimitInv

LEMMA RevocationsKeepLimit ==
    ASSUME TablesInv, NEW u, SessionInv(u), LimitInv(u), NEW r \in Request,
           RevokeOldest(r) \/ RevokeTokenFamily(r) \/ RevokeRefreshToken(r)
    PROVE  LimitInv(u)'
<1> DEFINE t == call[r].token
           f == tokens[t].family
<1>0. pc \in [Request -> Busy \cup {"idle"}] /\ call \in [Request -> Call \cup {NoCall}]
  BY DEF TablesInv, TypeOK
<1>1. /\ pc[r] # "idle" /\ t \in 1..Len(tokens) /\ tokens[t].user = call[r].user
      /\ expired' = expired /\ Alone(u) /\ excess \subseteq excess'
  BY RevokeOldestStep, RevokeFamilyStep, RevokeTokenStep DEF SessionInv
<1>2. \A i \in 1..Len(tokens) : i \in {t} => tokens[i].user = call[r].user
  BY <1>1
<1>3. CASE RevokeOldest(r)
  <2>1. /\ pc'[r] = "issue" /\ call' = call /\ Revoke({t}) /\ pc[r] = "revokeOldest"
        /\ excess' = excess \cup {i \in {t} : i <= expired}
        /\ \A q \in Request \ {r} : pc'[q] = pc[q] /\ call'[q] = call[q]
    BY <1>0, <1>3, RevokeOldestStep
  <2>2. ASSUME call[r].user = u
        PROVE  t \in excess' \/ Fits(Counted(u) \ {t})
    <3>1. ~tokens[t].revoked
      BY <1>1, <2>1, <2>2 DEF LimitInv, RoomMade
    <3>2. CASE t > expired
      <4>1. t \in Active(u)
        BY <1>1, <2>2, <3>1, <3>2, LimitSets DEF Active, Unrevoked
      <4>2. QED
        BY <2>1, <4>1, EndedMakesRoom
    <3>3. CASE ~(t > expired)
      BY <1>1, <2>1, <3>3, LimitSets
    <3>4. QED
      BY <3>2, <3>3
  <2>3. QED
    BY <1>1, <1>2, <2>1, <2>2, RevokeKeepsLimit
<1>4. CASE RevokeTokenFamily(r)
  <2>1. /\ pc'[r] = "idle" /\ Revoke(Family(f))
        /\ \A q \in Request \ {r} : pc'[q] = pc[q] /\ call'[q] = call[q]
    BY <1>0, <1>4, RevokeFamilyStep
  <2>2. tokens[f].user = call[r].user
    BY <1>1, FamilyOfUser
  <2>3. \A i \in 1..Len(tokens) : i \in Family(f) => tokens[i].user = call[r].user
    BY <2>2, FamilyOfUser DEF Family
  <2>4. QED
    BY <1>1, <2>1, <2>3, RevokeKeepsLimit
<1>5. CASE RevokeRefreshToken(r)
  <2>1. Revoke({t}) /\ excess' = excess
    BY <1>5, RevokeTokenStep
  <2>2. \A q \in Request \ {r} : pc'[q] = pc[q] /\ call'[q] = call[q]
    <3>1. /\ \/ pc' = [pc EXCEPT ![r] = "issue"]
             \/ pc' = [pc EXCEPT ![r] = "idle"]
          /\ \/ call' = [call EXCEPT ![r] = call[r]]
             \/ call' = [call EXCEPT ![r] = NoCall]
      BY <1>5, RevokeTokenStep
    <3>2. QED
      BY <1>0, <3>1
  <2>3. CASE pc[r] = "revoke" /\ call[r].op = "refresh" /\ pc'[r] = "issue" /\ call'[r] = call[r]
    <3>1. call[r].user = u => t \in excess \/ Fits(Counted(u) \ {t})
      BY <1>1, <2>3 DEF LimitInv, RoomMade
    <3>2. QED
      BY <1>1, <1>2, <2>1, <2>2, <2>3, <3>1, RevokeKeepsLimit
  <2>4. CASE pc'[r] = "idle"
    BY <1>1, <1>2, <2>1, <2>2, <2>4, RevokeKeepsLimit
  <2>5. QED
    BY <1>0, <1>5, <2>3, <2>4, RevokeTokenStep
<1>6. QED
  BY <1>3, <1>4, <1>5

LEMMA IssueKeepsLimit ==
    ASSUME TablesInv, NEW u, Alone(u), LimitInv(u), NEW r \in Request, IssueTokens(r)
    PROVE  LimitInv(u)'
<1> DEFINE n == Len(tokens) + 1
<1>1. /\ Len(tokens') = n /\ DOMAIN tokens' = 1..n
      /\ tokens'[n].user = call[r].user /\ ~tokens'[n].revoked
      /\ \A i \in 1..Len(tokens) : tokens'[i] = tokens[i]
  <2>1. /\ Len(tokens') = n /\ tokens' \in Seq(Row) /\ tokens'[n] = NewRow(r)
        /\ \A i \in 1..Len(tokens) : tokens'[i] = tokens[i]
    BY IssueGrows DEF Grows
  <2>2. QED
    BY <2>1 DEF NewRow
<1>2. /\ IsFiniteSet(Counted(u)) /\ Cardinality(Counted(u)) \in Nat /\ MaxSessions \in Nat
      /\ Len(tokens) \in Nat /\ expired \in 0..Len(tokens)
      /\ DOMAIN tokens = 1..Len(tokens)
  BY LimitSets
<1>3. /\ pc[r] = "issue" /\ pc'[r] = "idle" /\ expired' = expired
      /\ excess' = excess \cup {i \in {n} : call[r].token \in excess}
      /\ \A q \in Request \ {r} : pc'[q] = pc[q] /\ call'[q] = call[q]
  BY DEF IssueTokens, Answer, Goto, TablesInv, TypeOK
<1>4. CASE call[r].user = u
  <2>1. Active(u)' = Active(u) \cup {n}
    BY <1>1, <1>2, <1>3, <1>4 DEF Active, Unrevoked
  <2>2. Cardinality(Counted(u)') <= MaxSessions
    <3>1. CASE call[r].token \in excess
      <4>1. Counted(u)' \subseteq Counted(u)
        BY <1>3, <2>1, <3>1 DEF Counted
      <4>2. QED
        BY <1>2, <4>1, FewerFit DEF LimitInv
    <3>2. CASE Fits(Counted(u))
      <4>1. Counted(u)' \subseteq Counted(u) \cup {n}
        BY <1>3, <2>1 DEF Counted
      <4>2. /\ IsFiniteSet(Counted(u) \cup {n})
            /\ Cardinality(Counted(u) \cup {n}) \in
                  {Cardinality(Counted(u)), Cardinality(Counted(u)) + 1}
        BY <1>2, FS_AddElement
      <4>3. Cardinality(Counted(u) \cup {n}) <= MaxSessions
        BY <1>2, <3>2, <4>2 DEF Fits
      <4>4. QED
        BY <4>1, <4>2, <4>3, FewerFit
    <3>3. QED
      BY <1>3, <1>4, <3>1, <3>2 DEF LimitInv, RoomMade
  <2>3. \A q \in Request : RoomMade(u, q)'
    BY <1>3, <1>4 DEF RoomMade, Alone
  <2>4. QED
    BY <2>2, <2>3 DEF LimitInv
<1>5. CASE call[r].user # u
  <2>1. Active(u)' = Active(u) /\ n \notin Active(u)
    BY <1>1, <1>2, <1>3, <1>5 DEF Active, Unrevoked
  <2>2. Counted(u)' = Counted(u)
    BY <1>3, <2>1 DEF Counted
  <2>3. ASSUME NEW q \in Request
        PROVE  RoomMade(u, q)'
    <3>1. CASE q = r
      BY <1>3, <3>1 DEF RoomMade
    <3>2. CASE q # r
      <4>1. pc[q] = "revokeOldest" => call[q].token \in 1..Len(tokens)
        BY <1>2 DEF TablesInv, RequestInv
      <4>2. QED
        BY <1>1, <1>3, <2>2, <3>2, <4>1 DEF LimitInv, RoomMade, Fits
    <3>3. QED
      BY <3>1, <3>2
  <2>4. QED
    BY <2>2, <2>3 DEF LimitInv
<1>6. QED
  BY <1>4, <1>5

LEMMA ExpireKeepsLimit ==
    ASSUME TablesInv, NEW u, LimitInv(u), Expire
    PROVE  LimitInv(u)'
<1>1. UNCHANGED <<tokens, pc, call, excess>> /\ expired' = expired + 1
  BY DEF Expire
<1>2. expired \in Nat /\ DOMAIN tokens \subseteq Nat /\ IsFiniteSet(Counted(u))
  BY LimitSets
<1>3. Counted(u)' \subseteq Counted(u)
  BY <1>1, <1>2 DEF Active, Unrevoked, Counted
<1>4. \A t : /\ Counted(u)' \ {t} \subseteq Counted(u) \ {t}
             /\ IsFiniteSet(Counted(u) \ {t})
  BY <1>2, <1>3, FS_Subset
<1>5. /\ Cardinality(Counted(u)') <= MaxSessions
      /\ Fits(Counted(u)) => Fits(Counted(u)')
  BY <1>2, <1>3, FewerFit DEF LimitInv
<1>6. \A t : Fits(Counted(u) \ {t}) => Fits(Counted(u)' \ {t})
  BY <1>4, FewerFit
<1>7. QED
  BY <1>1, <1>5, <1>6 DEF LimitInv, RoomMade, Fits

LEMMA NextKeepsLimit ==
    ASSUME TablesInv, Next, NEW u, SessionInv(u), LimitInv(u)
    PROVE  LimitInv(u)'
<1>1. ASSUME NEW r \in Request, NEW v \in User, BeginRegister(r, v) \/ BeginLogin(r, v)
      PROVE  LimitInv(u)'
  BY <1>1, BeginKeepsLimit DEF BeginRegister, BeginLogin
<1>2. ASSUME NEW r \in Request, NEW t, BeginRefresh(r, t) \/ BeginLogout(r, t)
      PROVE  LimitInv(u)'
  BY <1>2, BeginKeepsLimit DEF BeginRefresh, BeginLogout
<1>3. ASSUME NEW r \in Request, Advance(r) \/ Abort(r)
      PROVE  LimitInv(u)'
  BY <1>3, ReadsKeepLimit, RevocationsKeepLimit, IssueKeepsLimit, RefuseKeepsLimit
     DEF Advance, Abort, SessionInv
<1>4. QED
  BY <1>1, <1>2, <1>3, ExpireKeepsLimit DEF Next

LimitsInv == AuthInv /\ \A u \in User \ crowded : LimitInv(u)

LEMMA NextKeepsLimits == LimitsInv /\ [Next]_authVars => LimitsInv'
<1> SUFFICES ASSUME LimitsInv, [Next]_authVars PROVE LimitsInv'
  OBVIOUS
<1>1. AuthInv'
  BY NextKeepsAuth DEF LimitsInv
<1>2. CASE Next
  <2>1. \A u \in User \ crowded' : LimitInv(u)'
    BY <1>2, CrowdedGrows, NextKeepsLimit DEF LimitsInv, AuthInv
  <2>2. QED
    BY <1>1, <2>1 DEF LimitsInv
<1>3. CASE UNCHANGED authVars
  <2>1. \A u \in User \ crowded' : LimitInv(u)'
    BY <1>3 DEF LimitsInv, authVars, LimitInv, RoomMade, Fits, Active, Unrevoked, Counted
  <2>2. QED
    BY <1>1, <2>1 DEF LimitsInv
<1>4. QED
  BY <1>2, <1>3

LEMMA InitLimits == Init => LimitsInv
<1> SUFFICES ASSUME Init PROVE LimitsInv
  OBVIOUS
<1>1. AuthInv /\ TablesInv
  BY InitAuth, InitTables
<1>2. ASSUME NEW u \in User PROVE LimitInv(u)
  <2>1. Active(u) = {}
    BY DEF Init, Active, Unrevoked
  <2>2. Cardinality(Counted(u)) <= MaxSessions
    BY <1>1, <2>1, NoneActive
  <2>3. QED
    BY <2>2 DEF LimitInv, RoomMade, Init
<1>3. QED
  BY <1>1, <1>2 DEF LimitsInv

\* A user whose requests do not overlap has at most MAX_SESSIONS sessions
\* beside those in excess: let in when an expired token was revoked in place
\* of a live one, or taking the place of such a session.
THEOREM AuthSessionLimit == Spec => []SessionLimit
<1>1. LimitsInv => SessionLimit
  BY DEF LimitsInv, LimitInv, Counted, SessionLimit
<1>2. QED
  BY <1>1, InitLimits, NextKeepsLimits, PTL DEF Spec
=============================================================================
