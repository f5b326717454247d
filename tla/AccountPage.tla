---------------------------- MODULE AccountPage ----------------------------
(***************************************************************************)
(* The pages of accounts.  One shows an account: its status and its        *)
(* balance, rendered on the server from two reads, its ledger, which a     *)
(* query of its own fetches, and the forms through which its owner moves   *)
(* money and closes it.  One lists the accounts of its viewer, a card for  *)
(* each.  Others move money meanwhile, and all share the connections of    *)
(* Accounts.                                                               *)
(*                                                                         *)
(* The router of a page does one thing at a time: what is waiting to be    *)
(* fetched begins when the call before it has been answered, and a form's  *)
(* call when nothing is waiting.                                           *)
(***************************************************************************)
EXTENDS Accounts

CONSTANTS Page,      \* tabs that are kept open
          AccountOf, \* the account each shows, when not the list
          Viewer     \* who is signed in there

ASSUME PageAssumption ==
    /\ AccountOf \in [Page -> Account]
    /\ Viewer \in [Page -> User]

VARIABLES header,   \* the status and the rows whose sum each page shows
          cards,    \* the accounts it lists, being read or shown
          table,    \* the ledger each page shows, or has cached
          todo,     \* what it is to fetch again
          reading,  \* what it is fetching, and what was read so far
          waits,    \* the request its forms wait for
          told      \* auxiliary: rows there were when last it was told "Done!"

pageVars == <<header, cards, table, todo, reading, waits, told>>

Fetch == {"render", "list", "ledger"}

Header == [state : {"NONE", "ACTIVE", "CLOSED", "ERROR"}, rows : Seq(Row)]
Table == [state : {"NONE", "SHOWN", "ERROR"}, rows : Seq(Row)]
Card == [at : {"none", "asked", "read", "shown"},
         state : {"NONE", "ACTIVE", "CLOSED"}, rows : Seq(Row)]
Reading == [task : {"none", "balance", "account", "list", "ledger"},
            state : {"NONE", "ACTIVE", "CLOSED"}, rows : Seq(Row)]

Nothing == [state |-> "NONE", rows |-> <<>>]
NoCard == [at |-> "none", state |-> "NONE", rows |-> <<>>]
NoCards == [a \in Account |-> NoCard]
NotReading == [task |-> "none", state |-> "NONE", rows |-> <<>>]

PageTypeOK ==
    /\ TypeOK
    /\ header \in [Page -> Header] /\ cards \in [Page -> [Account -> Card]]
    /\ table \in [Page -> Table]
    /\ todo \in [Page -> SUBSET Fetch]
    /\ reading \in [Page -> Reading]
    /\ waits \in [Page -> Request \cup {NoRequest}]
    /\ told \in [Page -> Nat]

PageInit ==
    /\ Init
    /\ header = [p \in Page |-> Nothing] /\ cards = [p \in Page |-> NoCards]
    /\ table = [p \in Page |-> Nothing]
    /\ todo = [p \in Page |-> {}]
    /\ reading = [p \in Page |-> NotReading]
    /\ waits = [p \in Page |-> NoRequest]
    /\ told = [p \in Page |-> 0]
-----------------------------------------------------------------------------
Free(p) == reading[p] = NotReading /\ waits[p] = NoRequest

Shown(p) == header[p].state \in {"ACTIVE", "CLOSED"}

\* The page is navigated to, by a card of the list or otherwise.
Visit(p) ==
    /\ header[p] = Nothing /\ todo[p] = {} /\ Free(p)
    /\ todo' = [todo EXCEPT ![p] = {"render"}]
    /\ cards' = [cards EXCEPT ![p] = NoCards]
    /\ UNCHANGED <<header, table, reading, waits, told>>

\* The list is; the ledger of the page that is left stays in the cache.
VisitList(p) ==
    /\ todo[p] = {} /\ Free(p)
    /\ todo' = [todo EXCEPT ![p] = {"list"}]
    /\ header' = [header EXCEPT ![p] = Nothing]
    /\ cards' = [cards EXCEPT ![p] = NoCards]
    /\ UNCHANGED <<vars, table, reading, waits, told>>

\* An account is its creator's.
createAccount(p) == Owner[AccountOf[p]] = Viewer[p] /\ CreateAccount(AccountOf[p])

\* onSubmit of the form for a new account leads to its page.
OpenAccount(p) == createAccount(p) /\ Visit(p)

\* The error page replaces all others, and is left by loading it again.
Reload(p) ==
    /\ header[p].state = "ERROR" /\ Free(p)
    /\ header' = [header EXCEPT ![p] = Nothing]
    /\ table' = [table EXCEPT ![p] = Nothing]
    /\ todo' = [todo EXCEPT ![p] = {"render"}]
    /\ UNCHANGED <<vars, cards, reading, waits, told>>

ShowError(p) == header' = [header EXCEPT ![p] = [state |-> "ERROR", rows |-> <<>>]]

getOwnedAccount(p) ==
    LET a == AccountOf[p] IN
    \/ /\ status[a] # "NONE" /\ Owner[a] = Viewer[p]
       /\ reading' = [reading EXCEPT ![p] =
                         [task |-> "balance", state |-> status[a], rows |-> <<>>]]
       /\ UNCHANGED header
    \/ /\ status[a] = "NONE" \/ Owner[a] # Viewer[p]
       /\ ShowError(p)
       /\ UNCHANGED reading

\* getAccount finds the account, and refuses strangers.
RenderAccount(p) ==
    /\ "render" \in todo[p] /\ Free(p)
    /\ FreeConnection
    /\ getOwnedAccount(p)
    /\ todo' = [todo EXCEPT ![p] = @ \ {"render"}]
    /\ UNCHANGED <<vars, cards, table, waits, told>>

\* Then it adds up the rows.
getBalance(p) ==
    /\ reading[p].task = "balance"
    /\ FreeConnection
    /\ reading' = [reading EXCEPT ![p].task = "account", ![p].rows = ledger[AccountOf[p]]]
    /\ UNCHANGED <<vars, header, cards, table, todo, waits, told>>

\* The table is mounted with the page, and fetches the ledger.
ShowAccount(p) ==
    /\ reading[p].task = "account"
    /\ header' = [header EXCEPT ![p] = [state |-> reading[p].state, rows |-> reading[p].rows]]
    /\ todo' = [todo EXCEPT ![p] = IF Shown(p) THEN @ ELSE @ \cup {"ledger"}]
    /\ reading' = [reading EXCEPT ![p] = NotReading]
    /\ UNCHANGED <<vars, cards, table, waits, told>>

findAccountsByUserId(u) == {a \in Account : status[a] # "NONE" /\ Owner[a] = u}

\* listAccounts finds the accounts.
RenderList(p) ==
    /\ "list" \in todo[p] /\ Free(p)
    /\ FreeConnection
    /\ cards' = [cards EXCEPT ![p] =
                    [a \in Account |->
                        IF a \in findAccountsByUserId(Viewer[p])
                        THEN [at |-> "asked", state |-> status[a], rows |-> <<>>]
                        ELSE NoCard]]
    /\ reading' = [reading EXCEPT ![p] = [NotReading EXCEPT !.task = "list"]]
    /\ todo' = [todo EXCEPT ![p] = @ \ {"list"}]
    /\ UNCHANGED <<vars, header, table, waits, told>>

\* Then it adds up the rows of each, in any order.
listAccounts(p, a) ==
    /\ cards[p][a].at = "asked"
    /\ FreeConnection
    /\ cards' = [cards EXCEPT ![p][a] =
                    [at |-> "read", state |-> cards[p][a].state, rows |-> ledger[a]]]
    /\ UNCHANGED <<vars, header, table, todo, reading, waits, told>>

ShowList(p) ==
    /\ reading[p].task = "list"
    /\ \A a \in Account : cards[p][a].at # "asked"
    /\ cards' = [cards EXCEPT ![p] =
                    [a \in Account |->
                        IF cards[p][a].at = "read"
                        THEN [at |-> "shown", state |-> cards[p][a].state,
                              rows |-> cards[p][a].rows]
                        ELSE NoCard]]
    /\ reading' = [reading EXCEPT ![p] = NotReading]
    /\ UNCHANGED <<vars, header, table, todo, waits, told>>

\* A call fails: apiFetch throws while the page is rendered.
RenderFails(p) ==
    /\ reading[p].task \in {"balance", "account", "list"}
    /\ ShowError(p)
    /\ cards' = [cards EXCEPT ![p] = NoCards]
    /\ reading' = [reading EXCEPT ![p] = NotReading]
    /\ UNCHANGED <<vars, table, todo, waits, told>>

findLedgerEntries(p) ==
    reading' = [reading EXCEPT ![p] =
                   [task |-> "ledger", state |-> "NONE", rows |-> ledger[AccountOf[p]]]]

\* getLedger, for the query of the table.
GetLedger(p) ==
    /\ "ledger" \in todo[p] /\ "render" \notin todo[p] /\ Free(p)
    /\ FreeConnection
    /\ findLedgerEntries(p)
    /\ todo' = [todo EXCEPT ![p] = @ \ {"ledger"}]
    /\ UNCHANGED <<vars, header, cards, table, waits, told>>

ShowLedger(p) ==
    /\ reading[p].task = "ledger"
    /\ table' = [table EXCEPT ![p] = [state |-> "SHOWN", rows |-> reading[p].rows]]
    /\ reading' = [reading EXCEPT ![p] = NotReading]
    /\ UNCHANGED <<vars, header, cards, todo, waits, told>>

\* The query has failed, retries and all: the page says so.
LedgerFails(p) ==
    /\ reading[p].task = "ledger"
    /\ table' = [table EXCEPT ![p].state = "ERROR"]
    /\ reading' = [reading EXCEPT ![p] = NotReading]
    /\ UNCHANGED <<vars, header, cards, todo, waits, told>>

\* The guard of Accounts finds the access token unsound or expired when
\* something is to be fetched, and nothing is read.
Unauthorized(p) ==
    /\ Free(p)
    /\ \/ /\ \E task \in {"render", "list"} \cap todo[p] :
                todo' = [todo EXCEPT ![p] = @ \ {task}]
          /\ ShowError(p)
          /\ UNCHANGED table
       \/ /\ "ledger" \in todo[p] /\ "render" \notin todo[p]
          /\ todo' = [todo EXCEPT ![p] = @ \ {"ledger"}]
          /\ table' = [table EXCEPT ![p].state = "ERROR"]
          /\ UNCHANGED header
    /\ UNCHANGED <<vars, cards, reading, waits, told>>

\* The page regains the focus: the query is stale as soon as it is answered.
Refocus(p) ==
    /\ Shown(p) /\ table[p].state # "NONE" /\ reading[p].task # "ledger"
    /\ todo' = [todo EXCEPT ![p] = @ \cup {"ledger"}]
    /\ UNCHANGED <<vars, header, cards, table, reading, waits, told>>
-----------------------------------------------------------------------------
\* The form lets no amount through that is not positive.
AmountSchema(c) == c.op = "close" \/ c.amount > 0

\* What an active account's page offers its viewer.
PageCalls(p) ==
    {c \in Calls : /\ c.op \in {"deposit", "withdraw", "close"} /\ AmountSchema(c)
                   /\ c.user = Viewer[p] /\ c.account = AccountOf[p]}

Submit(p, r, c) ==
    /\ header[p].state = "ACTIVE" /\ todo[p] = {} /\ Free(p)
    /\ c \in PageCalls(p)
    /\ Receive(r, c)
    /\ waits' = [waits EXCEPT ![p] = r]
    /\ UNCHANGED <<header, cards, table, todo, reading, told>>

\* Mutant: only the ledger is fetched again.
InvalidateQueries(p) ==
    /\ todo' = [todo EXCEPT ![p] = @ \cup {"ledger"}]
    /\ told' = [told EXCEPT ![p] = Len(ledger[AccountOf[p]])]

\* The form for an amount says "Done!", and has everything fetched again.
AmountDone(p) ==
    /\ todo' = [todo EXCEPT ![p] = @ \cup {"render", "ledger"}]
    /\ told' = [told EXCEPT ![p] = Len(ledger[AccountOf[p]])]

CloseDone(p) ==
    /\ todo' = [todo EXCEPT ![p] = @ \cup {"render"}]
    /\ UNCHANGED told

\* A refusal is shown in the form, or as a toast.
Hear(p) ==
    LET r == waits[p] IN
    /\ r # NoRequest
    /\ pc[r] = "done"
    /\ \/ reply[r] = "OK" /\ call[r].op # "close" /\ AmountDone(p)
       \/ reply[r] = "OK" /\ call[r].op = "close" /\ CloseDone(p)
       \/ reply[r] # "OK" /\ UNCHANGED <<todo, told>>
    /\ waits' = [waits EXCEPT ![p] = NoRequest]
    /\ UNCHANGED <<vars, header, cards, table, reading>>

\* The gateway gives up on a call that is still served, or served.
Unavailable(p) ==
    /\ waits[p] # NoRequest
    /\ waits' = [waits EXCEPT ![p] = NoRequest]
    /\ UNCHANGED <<vars, header, cards, table, todo, reading, told>>

PageStep(p) ==
    \/ RenderAccount(p) \/ getBalance(p) \/ ShowAccount(p)
    \/ RenderList(p) \/ (\E a \in Account : listAccounts(p, a)) \/ ShowList(p)
    \/ GetLedger(p) \/ ShowLedger(p) \/ Hear(p)

PageNext ==
    \/ Next /\ UNCHANGED pageVars
    \/ \E p \in Page :
          \/ PageStep(p) \/ RenderFails(p) \/ LedgerFails(p) \/ Unauthorized(p)
          \/ Unavailable(p)
          \/ Visit(p) /\ UNCHANGED vars
          \/ VisitList(p) \/ OpenAccount(p) \/ Reload(p) \/ Refocus(p)
          \/ \E r \in Request, c \in Calls : Submit(p, r, c)

\* The requests are served, and the browser goes on with what it waits for.
PageSpec ==
    /\ PageInit /\ [][PageNext]_<<vars, pageVars>>
    /\ \A r \in Request : WF_vars((Advance(r) \/ Abort(r)) /\ UNCHANGED pageVars)
    /\ \A p \in Page : WF_<<vars, pageVars>>(PageStep(p))
-----------------------------------------------------------------------------
\* A page, or a card, that says CLOSED shows the account's last balance: it
\* is not fetched again, and the status is read before the rows are.
ClosedBalanceIsFinal ==
    LET Final(a, rows) == /\ status[a] = "CLOSED"
                          /\ ComputeBalance(rows) = ComputeBalance(ledger[a])
    IN  \A p \in Page :
            /\ header[p].state = "CLOSED" => Final(AccountOf[p], header[p].rows)
            /\ \A a \in Account : cards[p][a].at = "shown" /\ cards[p][a].state = "CLOSED" =>
                  Final(a, cards[p][a].rows)

\* A page that was told its amount was entered comes to show it, in balance,
\* ledger and list, and does not go back: whatever it shows is no older,
\* unless it says that it could not load it.
OwnEntriesShown ==
    \A p \in Page, n \in 1..Cardinality(Request) :
        told[p] = n ~> [](LET card == cards[p][AccountOf[p]] IN
                          /\ Shown(p) => Len(header[p].rows) >= n
                          /\ card.at = "shown" => Len(card.rows) >= n
                          /\ table[p].state = "SHOWN" => Len(table[p].rows) >= n)
=============================================================================
