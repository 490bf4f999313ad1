---------------------------- MODULE TokenLedger ----------------------------
(***************************************************************************)
(* What the token suite promises about where tokens are.  Tokens come into   *)
(* being by Issue and end by Redeem; in between they move by a permit or by   *)
(* Seize.  A permit is granted for one amount and for two balances as they    *)
(* are; it moves that amount once, if both balances are as they were, or is   *)
(* replaced.  A halt stops everything but the use of permits granted before.  *)
(***************************************************************************)
EXTENDS Integers

CONSTANTS
    Accounts,   \* accounts that hold tokens
    Limit       \* the largest amount there is

VARIABLES
    balance,    \* account -> amount
    total,      \* tokens in existence
    permits,    \* <<source, destination>> -> [amount, from, to], or None
    halted      \* nothing is granted, issued, redeemed or seized

Routes == {r \in Accounts \X Accounts : r[1] # r[2]}
None == [amount |-> -1]
Amount == 0..Limit

Init ==
    /\ balance = [a \in Accounts |-> 0]
    /\ total = 0
    /\ permits = [r \in Routes |-> None]
    /\ halted = FALSE

Moved(r, n) == [balance EXCEPT ![r[1]] = @ - n, ![r[2]] = @ + n]

Grant(r, n) ==
    /\ ~halted
    /\ n <= balance[r[1]]
    /\ permits' = [permits EXCEPT ![r] =
                     [amount |-> n, from |-> balance[r[1]], to |-> balance[r[2]]]]
    /\ UNCHANGED <<balance, total, halted>>

Use(r) ==
    /\ permits[r] # None
    /\ permits[r] = [amount |-> permits[r].amount, from |-> balance[r[1]], to |-> balance[r[2]]]
    /\ balance' = Moved(r, permits[r].amount)
    /\ permits' = [permits EXCEPT ![r] = None]
    /\ UNCHANGED <<total, halted>>

Issue(a, n) ==
    /\ ~halted
    /\ total + n <= Limit
    /\ balance' = [balance EXCEPT ![a] = @ + n]
    /\ total' = total + n
    /\ UNCHANGED <<permits, halted>>

Redeem(a, n) ==
    /\ ~halted
    /\ n <= balance[a]
    /\ balance' = [balance EXCEPT ![a] = @ - n]
    /\ total' = total - n
    /\ UNCHANGED <<permits, halted>>

Seize(r, n) ==
    /\ ~halted
    /\ n <= balance[r[1]]
    /\ balance' = Moved(r, n)
    /\ UNCHANGED <<total, permits, halted>>

Other == UNCHANGED <<balance, total, permits>>

Next ==
    \/ \E r \in Routes : Use(r) \/ \E n \in Amount : Grant(r, n) \/ Seize(r, n)
    \/ \E a \in Accounts, n \in Amount : Issue(a, n) \/ Redeem(a, n)
    \/ Other

Spec == Init /\ [][Next]_<<balance, total, permits, halted>>
=============================================================================
