---------------------------- MODULE TransferStatus ----------------------------
(***************************************************************************)
(* What the owner sees of transfers while the saga runs, in one tab for    *)
(* each watched transfer: the list of transfers, rendered once a visit,    *)
(* and the page of the transfer.  The page is rendered with the state of   *)
(* the row, then asks for it again and again until the state is a terminal *)
(* one.  The query client keeps what it heard when the tab goes back to    *)
(* the list, shows that first when the page is opened again, asks once     *)
(* more whenever the page is opened or regains the focus, and never has    *)
(* two calls for one transfer under way.                                   *)
(***************************************************************************)
EXTENDS TransferSaga

CONSTANT Watched  \* the transfers that are looked at

ASSUME StatusAssumption == Watched \subseteq Transfer

VARIABLES open,    \* the transfers whose page is open; the other tabs list them
          listed,  \* the state in each list, NONE if it was not there
          shown,   \* the state the query client holds for each page, or NONE
          read     \* what getTransfer read for each page, until it is heard

pageVars == <<open, listed, shown, read>>

PageInit ==
    /\ Init
    /\ open = {}
    /\ listed = [t \in Watched |-> "NONE"]
    /\ shown = [t \in Watched |-> "NONE"]
    /\ read = [t \in Watched |-> "NONE"]

isTransferTerminal(state) == state \in Terminal
-----------------------------------------------------------------------------
(* The list.                                                               *)

\* findTransfersByUserId reads all rows in one statement.
listTransfers(t) == listed' = [listed EXCEPT ![t] = saga[t]]

\* The tab goes to the list, or renders it anew.  It does not leave a page
\* that it waits for.
VisitList(t) ==
    /\ t \in open => shown[t] # "NONE"
    /\ open' = open \ {t}
    /\ listTransfers(t)
    /\ UNCHANGED <<vars, shown, read>>

\* The query client forgets what no page has shown for a while.
Forget(t) ==
    /\ t \notin open /\ read[t] = "NONE"
    /\ shown' = [shown EXCEPT ![t] = "NONE"]
    /\ UNCHANGED <<vars, open, listed, read>>
-----------------------------------------------------------------------------
(* The page.                                                               *)

\* GET /transfers/:id reads the row.
getTransfer(t) ==
    /\ saga[t] # "NONE"
    /\ read' = [read EXCEPT ![t] = saga[t]]

\* The form leads here, or a card of the list.  A call that is still under
\* way is not made twice.
OpenPage(t) ==
    /\ t \notin open
    /\ open' = open \cup {t}
    /\ IF read[t] = "NONE" THEN getTransfer(t) ELSE UNCHANGED read
    /\ UNCHANGED <<vars, listed, shown>>

AskAgain(t) ==
    /\ t \in open /\ read[t] = "NONE"
    /\ getTransfer(t)
    /\ UNCHANGED <<vars, open, listed, shown>>

\* Mutant: the page asks again only while it shows INITIATED.
PollWhileInitiated(t) == shown[t] \in {"NONE", "INITIATED"} /\ AskAgain(t)

\* refetchInterval; or the page could not be rendered and is loaded again.
Poll(t) == ~isTransferTerminal(shown[t]) /\ AskAgain(t)

\* The query is stale as soon as it is answered.
Refocus(t) == shown[t] # "NONE" /\ AskAgain(t)

Show(t) ==
    /\ read[t] # "NONE"
    /\ shown' = [shown EXCEPT ![t] = read[t]]
    /\ read' = [read EXCEPT ![t] = "NONE"]
    /\ UNCHANGED <<vars, open, listed>>

\* The call fails: the page says so, and the query client keeps its data.
Miss(t) ==
    /\ read[t] # "NONE"
    /\ read' = [read EXCEPT ![t] = "NONE"]
    /\ UNCHANGED <<vars, open, listed, shown>>

PageNext ==
    \/ Next /\ UNCHANGED pageVars
    \/ \E t \in Watched :
          \/ VisitList(t) \/ Forget(t) \/ OpenPage(t)
          \/ Poll(t) \/ Refocus(t) \/ Show(t) \/ Miss(t)

\* An open page keeps the focus, and its calls do not fail for ever.
PageSpec ==
    /\ PageInit /\ [][PageNext]_<<vars, pageVars>>
    /\ \A w \in Worker : WF_vars(Advance(w) /\ UNCHANGED pageVars)
    /\ \A t \in Watched : /\ WF_<<vars, pageVars>>(Poll(t))
                          /\ SF_<<vars, pageVars>>(Show(t))
-----------------------------------------------------------------------------
\* A page that stays open comes to hold the outcome of its transfer, and does
\* not go back on it: it stops asking in time, and not too early, though it
\* may have begun with what an earlier visit left in the cache.
OutcomeShown ==
    \A t \in Watched :
        <>[](t \in open) => <>[](isTransferTerminal(shown[t]) /\ shown[t] = saga[t])

\* How far a transfer has come.
Progress ==
    [NONE |-> 0, INITIATED |-> 1, DEBIT_PENDING |-> 2, DEBIT_COMPLETE |-> 3,
     CREDIT_PENDING |-> 4, COMPENSATING |-> 5, FAILED |-> 6, COMPLETED |-> 6, COMPENSATED |-> 6]

\* Who watches a transfer sees it go forward only, and no outcome replaced by
\* another, whether they reload the list or stay on the page: answers are not
\* heard out of order, and a worker that stopped is not followed by one that
\* begins again.
NeverBackwards ==
    [][\A t \in Watched :
          /\ listed'[t] # listed[t] => Progress[listed'[t]] > Progress[listed[t]]
          /\ shown'[t] \notin {shown[t], "NONE"} => Progress[shown'[t]] > Progress[shown[t]]]_pageVars
=============================================================================
