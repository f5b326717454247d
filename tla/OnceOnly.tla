------------------------------ MODULE OnceOnly ------------------------------
(***************************************************************************)
(* What the Transfers service promises of an Idempotency-Key: the requests *)
(* that carry it are decided once, by one transfer or by a refusal, until  *)
(* the key is forgotten; and an answer is that decision, about the body it *)
(* was made for, or says that there is none to give.  IdempotencyKeys      *)
(* implements this with a claim in Redis and a stored result.              *)
(***************************************************************************)
EXTENDS Naturals

CONSTANTS Key, Body, Request,
          Open,   \* no decision
          Doubt   \* what an answer may say without one

VARIABLES outcome,  \* what was decided of each key
          made,     \* how many transfers were inserted
          answer    \* what each request is answered, and about which key

vars == <<outcome, made, answer>>

Init ==
    /\ outcome = [k \in Key |-> Open]
    /\ made = 0
    /\ \A r \in Request : answer[r].code \in Doubt

Decide(k, b, code, row) ==
    /\ outcome[k] = Open
    /\ outcome' = [outcome EXCEPT ![k] = [body |-> b, code |-> code, row |-> row]]

Transfer(k, b) == made' = made + 1 /\ Decide(k, b, "created", made')

Refuse(k, b) == Decide(k, b, "rejected", 0) /\ UNCHANGED made

Forget(k) ==
    /\ outcome' = [outcome EXCEPT ![k] = Open]
    /\ UNCHANGED made

Answers ==
    \A r \in Request :
        \/ answer'[r] = answer[r]
        \/ answer'[r].code \in Doubt
        \/ outcome'[answer'[r].key] = [body |-> answer'[r].body,
                                       code |-> answer'[r].code,
                                       row |-> answer'[r].row]

Next ==
    /\ \/ \E k \in Key : \/ \E b \in Body : Transfer(k, b) \/ Refuse(k, b)
                         \/ Forget(k)
       \/ UNCHANGED <<outcome, made>>
    /\ Answers

Spec == Init /\ [][Next]_vars
=============================================================================
