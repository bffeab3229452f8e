------------------------------ MODULE MCMoney ------------------------------
(* The ledger, the bank reader and the payment notices side by side: each   *)
(* behaviour narrows to one of them and to the cases it is about, so the    *)
(* state spaces add up instead of multiplying.                              *)
EXTENDS Ledger, BankLink, PaymentNotices, TLC

VARIABLES
    narrow,  \* what this behaviour is about
    turns    \* organiser's edits and connects so far

EitherMember == Permutations(Members)
FirstOwner == CHOOSE u \in Owners : TRUE

LedgerCases == {"member", "week"}
BankCases == {"owners", "payments", "pots"}
NoticeCases == {"receipts", "link"}

MoneyInit ==
    /\ LedgerInit /\ BankInit /\ NoticesInit
    /\ turns = 0
    /\ narrow \in LedgerCases \cup BankCases \cup NoticeCases
    /\ narrow = "member" => fee = 1 /\ Cardinality(active) =< 1
    /\ narrow \notin LedgerCases => active = {} /\ fee = 1
    /\ narrow \notin BankCases => link

LedgerStep ==
    /\ narrow \in LedgerCases
    /\ LedgerNext
    /\ narrow = "member" => /\ Cardinality(active' \cup former') =< 1 /\ edits' = 0
                            /\ \A m \in Members : repaying'[m] < 2
    /\ narrow = "week" => /\ clock'[2] = "ahead" /\ label'[2] = "absent"
                          /\ \A m \in Members : credit'[m] < 2 /\ repaying'[m] = 0
    /\ UNCHANGED <<bankVars, noticesVars, turns>>

BankStep ==
    /\ narrow \in BankCases
    /\ BankNext
    /\ narrow = "owners" => (made' = made /\ link' = link /\ now' < 2)
    /\ narrow # "owners" => reader'.user \in {Nobody, FirstOwner}
    /\ narrow = "payments" => \A x \in TopUps : made'[x] = Never
    /\ turns' = IF narrow # "owners"
                   /\ (link' # link \/ approved \ approved' # {} \/ (conn'.state /\ ~conn.state))
                THEN turns + 1 ELSE turns
    /\ narrow = "pots" => (now' < 3 /\ turns' < 2)
    /\ turns' =< 2
    /\ UNCHANGED <<ledgerVars, noticesVars>>

NoticesStep ==
    /\ narrow \in NoticeCases
    /\ NoticesNext
    /\ narrow = "receipts" => (account' = account)
    /\ narrow = "link" => (receipt' = receipt)
    /\ UNCHANGED <<ledgerVars, bankVars, turns>>

MoneyNext == (LedgerStep \/ BankStep \/ NoticesStep) /\ UNCHANGED narrow
MoneySpec == MoneyInit /\ [][MoneyNext]_<<ledgerVars, bankVars, noticesVars, narrow, turns>>
=============================================================================
