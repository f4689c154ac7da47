---------------------------- MODULE PrepaidWallet ----------------------------
(***************************************************************************)
(* What the credit account promises about purchased credits, with no lots, *)
(* no included allowance, no ledger and no clock: a prepaid balance that   *)
(* requests hold and spend.  A request opens once and closes once; a hold, *)
(* a payment or a withdrawal never touches what the others hold.           *)
(*                                                                         *)
(* Any open requests X may be dropped, uncharged, together with any step:  *)
(* a request may be given up at any time by whoever comes next.            *)
(***************************************************************************)
EXTENDS Integers

CONSTANTS
  Clients,   \* the requests, any finite set
  Sum(_)     \* the sum of a function to numbers

VARIABLES
  balance,   \* prepaid credits
  phase,     \* a request is new, open or closed
  held,      \* credits an open request holds
  spent      \* credits a closed request was charged

wallet == <<balance, phase, held, spent>>

Open == {c \in Clients : phase[c] = "open"}

HeldBy(A) == Sum([c \in A |-> held[c]])

Init ==
  /\ balance = 0
  /\ phase = [c \in Clients |-> "new"]
  /\ held = [c \in Clients |-> 0]
  /\ spent = [c \in Clients |-> 0]

(* The requests of X close without a charge.                               *)
PhaseAfter(X, c)  == IF c \in X THEN "closed" ELSE phase[c]
HeldAfter(X, c)   == IF c \in X THEN 0 ELSE held[c]
Dropped(X) ==
  /\ phase' = [c \in Clients |-> PhaseAfter(X, c)]
  /\ held' = [c \in Clients |-> HeldAfter(X, c)]

Drop(X) == Dropped(X) /\ UNCHANGED <<balance, spent>>

Hold(X, r, n) ==
  /\ phase[r] = "new"
  /\ HeldBy(Open \ X) + n <= balance
  /\ phase' = [c \in Clients |-> IF c = r THEN "open" ELSE PhaseAfter(X, c)]
  /\ held' = [c \in Clients |-> IF c = r THEN n ELSE HeldAfter(X, c)]
  /\ UNCHANGED <<balance, spent>>

Close(X, r, n) ==
  /\ r \in Open \ X
  /\ HeldBy(Open \ (X \cup {r})) + n <= balance
  /\ Dropped(X \cup {r})
  /\ balance' = balance - n
  /\ spent' = [spent EXCEPT ![r] = n]

Deposit(X) ==
  /\ Dropped(X)
  /\ balance' \in Nat /\ balance' >= balance
  /\ UNCHANGED spent

Withdraw(X, n) ==
  /\ HeldBy(Open \ X) + n <= balance
  /\ Dropped(X)
  /\ balance' = balance - n
  /\ UNCHANGED spent

Next ==
  \E X \in SUBSET Open :
    \/ Drop(X)
    \/ \E r \in Clients, n \in 0..balance : Hold(X, r, n) \/ Close(X, r, n)
    \/ Deposit(X)
    \/ \E n \in 0..balance : Withdraw(X, n)

Spec == Init /\ [][Next]_wallet
=============================================================================
