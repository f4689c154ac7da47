----------------------------- MODULE CreditMath -----------------------------
(***************************************************************************)
(* Arithmetic shared by the credit modules: the truncated subtraction the  *)
(* service writes as max(a - b, 0), sums over reservations or purchase     *)
(* lots, and the oldest-lot-first split of an amount of credits.           *)
(*                                                                         *)
(* A sum is the number of credits counted one by one, the cardinality of   *)
(* the set of pairs <<holder, k>> with k in 1..f[holder].  This form needs *)
(* no recursion, so CreditLedger_proofs can prove its laws.                *)
(***************************************************************************)
EXTENDS Integers, FiniteSets

Least(a, b) == IF a <= b THEN a ELSE b

(* max(a - b, 0) *)
Monus(a, b) == IF a > b THEN a - b ELSE 0

(* The individual credits counted by f, a function to natural numbers. *)
Credits(f) == UNION {{x} \X (1..f[x]) : x \in DOMAIN f}

Total(f) == Cardinality(Credits(f))

(* What oldest-first distribution takes from each lot when `need` credits *)
(* are taken from lots offering `avail`; lots are numbered by age.        *)
OldestFirst(need, avail) ==
  [l \in DOMAIN avail |->
     Least(avail[l],
           Monus(need, Total([k \in {j \in DOMAIN avail : j < l} |-> avail[k]])))]
=============================================================================
