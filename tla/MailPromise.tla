---------------------------- MODULE MailPromise ----------------------------
(***************************************************************************)
(* What a mailer that accepted a message promises for every recipient: one *)
(* verdict, a copy handed over or the sender told, which nothing done      *)
(* later contradicts; and until then the message stays where the next      *)
(* queue runner finds it.                                                  *)
(***************************************************************************)
EXTENDS Naturals

CONSTANT Rcpt

VARIABLES
    delivered,  \* delivered[r]: how often the message was handed over for r
    told,       \* recipients the sender was told about
    kept        \* recipients listed in an envelope of the spool

vars == <<delivered, told, kept>>

Owed == {r \in Rcpt : delivered[r] = 0} \ told

Init == delivered = [r \in Rcpt |-> 0] /\ told = {} /\ kept = Rcpt

\* Some recipients that are still owed one get their verdict; those that are
\* owed one after that are kept, others may be.
Step ==
    \E S, T, K \in SUBSET Rcpt :
        /\ S \union T \subseteq Owed
        /\ S \cap T = {}
        /\ Owed \ (S \union T) \subseteq K
        /\ delivered' = [r \in Rcpt |-> IF r \in S THEN 1 ELSE delivered[r]]
        /\ told' = told \union T
        /\ kept' = K

Spec == Init /\ [][Step]_vars
=============================================================================
