------------------------ MODULE ChatRequests_proofs ------------------------
(***************************************************************************)
(* Theorems of ChatRequests, for every number of executions, requests and  *)
(* turns: one execution per request id, a hold for as long as the provider *)
(* may be called and none after, the books of the credit account, and a    *)
(* charge of what was metered and no more.                                 *)
(***************************************************************************)
EXTENDS ChatRequests, CreditLedger_proofs

Places == AtProvider \cup {"new", "ready", "final", "paid", "ended", "cancelled", "refused", "crashed"}

(* An execution that acquired its request, and one that holds its credits.  *)
Owner(x)   == pc[x] \notin {"new", "refused"}
Holding(x) == pc[x] \in AtProvider \cup {"ready", "final"}

ChatShape ==
  /\ pc \in [Executions -> Places]
  /\ request \in [Executions -> Requests \cup {NoRequest}]
  /\ callers \in [Requests -> SUBSET Executions]
  /\ aged \subseteq Requests

(* The owner of a request is unique, its request has a reservation, and an  *)
(* old reservation is not one that an execution holds.                      *)
Ownership ==
  /\ \A x \in Executions :
       Owner(x) => request[x] \in Requests /\ status[request[x]] # "none"
  /\ \A x, y \in Executions : Owner(x) /\ Owner(y) /\ request[x] = request[y] => x = y
  /\ \A r \in Requests : \A x \in callers[r] : Owner(x) /\ request[x] = r
  /\ \A r \in aged : status[r] # "none"
  /\ \A x \in Executions : Holding(x) => request[x] \notin aged

ChatInv ==
  /\ ChatShape
  /\ Ownership
  /\ HeldWhileRunning
  /\ EndedHoldsNothing

-----------------------------------------------------------------------------
(* What the ledger's operations do to the reservations' statuses.          *)

(* Reservations outside `but` stay as they are, or were old and expire.     *)
StatusMoves(but) ==
  /\ aged' = aged
  /\ \A q \in Requests :
       \/ status'[q] = status[q]
       \/ q \in but
       \/ q \in aged /\ status[q] = "reserved" /\ status'[q] = "expired"

(* Committing the expiry moves no reservation but the old ones.             *)
LEMMA ExpiryMoves == CommitExpiry => StatusMoves({})
BY DEF CommitExpiry, ReleaseStaleReservations, ExpireOnly, StatusExpired, Stale,
       StatusMoves, ledger

(* A claim gives its request a live reservation.                            *)
LEMMA ClaimMoves ==
  ASSUME NEW r \in Requests, NEW e, ClaimCreditReservation(r, e, FALSE)
  PROVE  StatusMoves({r}) /\ status[r] = "none" /\ status'[r] = "reserved"
BY DEF ClaimCreditReservation, StatusWith, Stale, StatusMoves

(* A release or a settlement ends its request's reservation.                *)
LEMMA EndMoves ==
  ASSUME NEW r \in Requests, NEW n,
         ReservationReleased(r) \/ ReservationSettled(r, n)
  PROVE  /\ StatusMoves({r})
         /\ status[r] # "none" => status'[r] \notin {"none", "reserved"}
<1>1. CASE ReleaseReservation(r)
  BY <1>1 DEF ReleaseReservation, ReleaseTransaction, StatusWith, Stale, StatusMoves
<1>2. CASE SettleReservation(r, n)
  <2>1. PICK s : s = SettledStatus(n, Charge(r, n,
            IncludedReservedWithout(Stale({r})) - reserved_included[r],
            PurchasedReservedWithout(Stale({r})) - reserved_purchased[r]).unfunded)
    OBVIOUS
  <2>2. status' = StatusWith(Stale({r}), r, s) /\ aged' = aged
    BY <1>2, <2>1 DEF SettleReservation, SettleTransaction
  <2>3. s \notin {"none", "reserved"}
    BY <2>1 DEF SettledStatus
  <2> QED BY <2>2, <2>3 DEF StatusWith, Stale, StatusMoves
<1>3. CASE status[r] # "reserved" /\ UNCHANGED ledger
  BY <1>3 DEF ledger, StatusMoves
<1> QED BY <1>1, <1>2, <1>3 DEF ReservationReleased, ReservationSettled

-----------------------------------------------------------------------------
(* The shapes of a step.                                                   *)

(* A step that leaves the ledger alone and keeps a holder holding.          *)
LEMMA KeepsHolding ==
  ASSUME ChatInv, NEW x \in Executions, Holding(x), NEW p \in AtProvider \cup {"ready", "final"},
         Goto(x, p), UNCHANGED <<ledger, request>>,
         \/ UNCHANGED callers
         \/ callers' = [callers EXCEPT ![request[x]] = @ \cup {x}]
  PROVE  ChatInv'
<1>1. /\ pc' = [pc EXCEPT ![x] = p] /\ pc \in [Executions -> Places]
      /\ request' = request /\ status' = status /\ aged' = aged
      /\ p \in Places /\ p \notin {"new", "refused", "paid", "ended", "cancelled", "crashed"}
      /\ pc[x] \notin {"new", "refused", "paid", "ended", "cancelled", "crashed"}
      /\ request[x] \in Requests
  BY DEF ChatInv, ChatShape, Ownership, Goto, Holding, Owner, Places, AtProvider, ledger
<1>2. \A y \in Executions : (Owner(y) <=> Owner(y)') /\ (Holding(y) <=> Holding(y)')
  BY <1>1 DEF Owner, Holding
<1>3. ChatShape'
  BY <1>1 DEF ChatInv, ChatShape
<1>4. \A r \in Requests : \A y \in callers'[r] : Owner(y) /\ request[y] = r
  BY <1>1 DEF ChatInv, ChatShape, Ownership, Owner
<1>5. Ownership'
  BY <1>1, <1>2, <1>3, <1>4 DEF ChatInv, ChatShape, Ownership
<1>6. HeldWhileRunning'
  BY <1>1, <1>2 DEF ChatInv, HeldWhileRunning, Holding
<1>7. EndedHoldsNothing'
  BY <1>1 DEF ChatInv, EndedHoldsNothing
<1> QED BY <1>3, <1>5, <1>6, <1>7 DEF ChatInv

(* A step that ends its execution's reservation.                            *)
LEMMA EndsExecution ==
  ASSUME ChatInv, NEW x \in Executions, Holding(x), NEW p \in {"paid", "ended", "cancelled"},
         Goto(x, p), UNCHANGED <<request, callers>>, NEW n,
         ReservationReleased(request[x]) \/ ReservationSettled(request[x], n)
  PROVE  ChatInv'
<1>1. /\ pc' = [pc EXCEPT ![x] = p] /\ pc \in [Executions -> Places]
      /\ request' = request /\ callers' = callers
      /\ p \in Places /\ p \notin {"new", "refused"}
      /\ pc[x] \notin {"new", "refused"}
      /\ request[x] \in Requests /\ status[request[x]] # "none"
  BY DEF ChatInv, ChatShape, Ownership, Goto, Holding, Owner, Places, AtProvider
<1>2. StatusMoves({request[x]}) /\ status'[request[x]] \notin {"none", "reserved"}
  BY <1>1, EndMoves
<1>3. \A y \in Executions : (Owner(y) <=> Owner(y)') /\ (Holding(y)' => Holding(y) /\ y # x)
  BY <1>1 DEF Owner, Holding, AtProvider
<1>4. aged' = aged /\ \A q \in Requests : status[q] # "none" => status'[q] # "none"
  BY <1>2 DEF StatusMoves
<1>5. ChatShape'
  BY <1>1, <1>4 DEF ChatInv, ChatShape
<1>6. Ownership'
  BY <1>1, <1>3, <1>4, <1>5 DEF ChatInv, ChatShape, Ownership
<1>7. ASSUME NEW y \in Executions, Holding(y)' PROVE status'[request[y]] = "reserved"
  <2>1. /\ Holding(y) /\ y # x /\ Owner(y) /\ Owner(x)
        /\ request[y] \in Requests /\ request[y] \notin aged
    BY <1>1, <1>3, <1>7 DEF ChatInv, Ownership, Owner, Holding, AtProvider
  <2>2. request[y] # request[x]
    BY <2>1 DEF ChatInv, Ownership
  <2>3. status[request[y]] = "reserved"
    BY <2>1 DEF ChatInv, HeldWhileRunning, Holding
  <2> QED BY <1>2, <2>1, <2>2, <2>3 DEF StatusMoves
<1>8. HeldWhileRunning'
  BY <1>1, <1>7 DEF HeldWhileRunning, Holding
<1>9. ASSUME NEW y \in Executions, pc'[y] \in {"paid", "ended", "cancelled"}
      PROVE  status'[request[y]] # "reserved"
  <2>1. CASE y = x
    BY <1>2, <2>1
  <2>2. CASE y # x
    <3>1. pc[y] \in {"paid", "ended", "cancelled"} /\ request[y] \in Requests
      BY <1>1, <1>9, <2>2 DEF ChatInv, Ownership, Owner
    <3>2. status[request[y]] # "reserved"
      BY <3>1 DEF ChatInv, EndedHoldsNothing
    <3> QED BY <1>2, <3>1, <3>2 DEF StatusMoves
  <2> QED BY <2>1, <2>2
<1>10. EndedHoldsNothing'
  BY <1>1, <1>9 DEF EndedHoldsNothing
<1> QED BY <1>5, <1>6, <1>8, <1>10 DEF ChatInv

(* A step after which no execution holds that did not, and only old         *)
(* reservations may have moved.                                             *)
LEMMA HoldsNoMore ==
  ASSUME ChatInv, StatusMoves({}), pc' \in [Executions -> Places],
         request' \in [Executions -> Requests \cup {NoRequest}], UNCHANGED callers,
         \A y \in Executions :
           /\ Owner(y) <=> Owner(y)'
           /\ Owner(y) => request'[y] = request[y]
           /\ Holding(y)' => Holding(y)
           /\ pc'[y] \in {"paid", "ended", "cancelled"} => pc[y] \in {"paid", "ended", "cancelled"}
  PROVE  ChatInv'
<1>1. /\ aged' = aged /\ callers' = callers
      /\ \A q \in Requests : status[q] # "none" => status'[q] # "none"
      /\ \A q \in Requests : status'[q] = "reserved" => status[q] = "reserved"
      /\ \A q \in Requests \ aged : status'[q] = status[q]
  BY DEF StatusMoves
<1>2. ChatShape'
  BY <1>1 DEF ChatInv, ChatShape
<1>3. \A y \in Executions : Holding(y) => Owner(y)
  BY DEF Holding, Owner, AtProvider
<1>4. \A y \in Executions : Owner(y) => request[y] \in Requests
  BY DEF ChatInv, Ownership
<1>5. Ownership'
  BY <1>1, <1>2, <1>3, <1>4 DEF ChatInv, ChatShape, Ownership
<1>6. HeldWhileRunning'
  <2> SUFFICES ASSUME NEW y \in Executions, Holding(y)'
               PROVE  status'[request'[y]] = "reserved"
    BY DEF HeldWhileRunning, Holding
  <2>1. /\ Holding(y) /\ request'[y] = request[y] /\ request[y] \in Requests
        /\ request[y] \notin aged
    BY <1>3, <1>4 DEF ChatInv, Ownership
  <2>2. status[request[y]] = "reserved"
    BY <2>1 DEF ChatInv, HeldWhileRunning, Holding
  <2> QED BY <1>1, <2>1, <2>2
<1>7. EndedHoldsNothing'
  <2> SUFFICES ASSUME NEW y \in Executions, pc'[y] \in {"paid", "ended", "cancelled"}
               PROVE  status'[request'[y]] # "reserved"
    BY DEF EndedHoldsNothing
  <2>1. pc[y] \in {"paid", "ended", "cancelled"} /\ Owner(y)
    BY DEF Owner
  <2>2. request'[y] = request[y] /\ request[y] \in Requests
    BY <1>4, <2>1
  <2>3. status[request[y]] # "reserved"
    BY <2>1 DEF ChatInv, EndedHoldsNothing
  <2> QED BY <1>1, <2>2, <2>3
<1> QED BY <1>2, <1>5, <1>6, <1>7 DEF ChatInv

-----------------------------------------------------------------------------
(* One lemma per kind of step.                                             *)

(* A start refuses its execution or makes it the owner of a new request.    *)
LEMMA StartKeeps ==
  ASSUME ChatInv, NEW x \in Executions, NEW r \in Requests, Start(x, r)
  PROVE  ChatInv'
<1>1. /\ pc[x] = "new" /\ pc \in [Executions -> Places]
      /\ request \in [Executions -> Requests \cup {NoRequest}]
      /\ request' = [request EXCEPT ![x] = r] /\ callers' = callers
  BY DEF ChatInv, ChatShape, Start
<1>2. ASSUME CommitExpiry, Goto(x, "refused") PROVE ChatInv'
  <2>1. StatusMoves({})
    BY <1>2, ExpiryMoves
  <2>2. pc' = [pc EXCEPT ![x] = "refused"]
    BY <1>2 DEF Goto
  <2>3. pc' \in [Executions -> Places]
    BY <1>1, <2>2 DEF Places
  <2>4. \A y \in Executions :
           /\ Owner(y) <=> Owner(y)'
           /\ Owner(y) => request'[y] = request[y]
           /\ Holding(y)' => Holding(y)
           /\ pc'[y] \in {"paid", "ended", "cancelled"} => pc[y] \in {"paid", "ended", "cancelled"}
    BY <1>1, <2>2 DEF Owner, Holding, AtProvider
  <2>5. request' \in [Executions -> Requests \cup {NoRequest}]
    BY <1>1
  <2> QED BY <1>1, <2>1, <2>3, <2>4, <2>5, HoldsNoMore
<1>3. ASSUME Acquire(x, r) PROVE ChatInv'
  <2>1. pc' = [pc EXCEPT ![x] = "ready"]
    BY <1>3 DEF Acquire, Goto
  <2>2. StatusMoves({r}) /\ status[r] = "none" /\ status'[r] = "reserved"
    BY <1>3, ClaimMoves DEF Acquire
  <2>3. \A y \in Executions \ {x} :
          /\ Owner(y) <=> Owner(y)'
          /\ Holding(y) <=> Holding(y)'
          /\ request'[y] = request[y] /\ pc'[y] = pc[y]
          /\ Owner(y) => request[y] \in Requests \ {r}
    BY <1>1, <2>1, <2>2 DEF ChatInv, Ownership, Owner, Holding
  <2>4. /\ Owner(x)' /\ Holding(x)' /\ ~Owner(x) /\ request'[x] = r /\ pc'[x] = "ready"
        /\ r \notin aged
    BY <1>1, <2>1, <2>2 DEF ChatInv, Ownership, Owner, Holding
  <2>5. /\ aged' = aged
        /\ \A q \in Requests : status[q] # "none" => status'[q] # "none"
        /\ \A q \in Requests \ {r} : status'[q] = "reserved" => status[q] = "reserved"
        /\ \A q \in Requests \ {r} : q \notin aged => status'[q] = status[q]
    BY <2>2 DEF StatusMoves
  <2>6. ChatShape'
    BY <1>1, <2>1, <2>5 DEF ChatInv, ChatShape, Places
  <2>7. \A y \in Executions : Holding(y) => Owner(y)
    BY DEF Holding, Owner, AtProvider
  <2>8. Ownership'
    <3>1. \A y \in Executions :
            Owner(y)' => request'[y] \in Requests /\ status'[request'[y]] # "none"
      BY <2>2, <2>3, <2>4, <2>5 DEF ChatInv, Ownership
    <3>2. \A y, z \in Executions : Owner(y)' /\ Owner(z)' /\ request'[y] = request'[z] => y = z
      BY <2>3, <2>4 DEF ChatInv, Ownership
    <3>3. \A q \in Requests : \A y \in callers'[q] : Owner(y)' /\ request'[y] = q
      BY <1>1, <2>3, <2>4 DEF ChatInv, ChatShape, Ownership
    <3>4. \A q \in aged' : status'[q] # "none"
      BY <2>5 DEF ChatInv, ChatShape, Ownership
    <3>5. \A y \in Executions : Holding(y)' => request'[y] \notin aged'
      BY <2>3, <2>4, <2>5 DEF ChatInv, Ownership
    <3> QED BY <3>1, <3>2, <3>3, <3>4, <3>5 DEF Ownership
  <2>9. HeldWhileRunning'
    <3> SUFFICES ASSUME NEW y \in Executions, Holding(y)'
                 PROVE  status'[request'[y]] = "reserved"
      BY DEF HeldWhileRunning, Holding
    <3>1. CASE y = x
      BY <2>2, <2>4, <3>1
    <3>2. CASE y # x
      <4>1. Holding(y) /\ request'[y] = request[y] /\ request[y] \in Requests \ {r}
        BY <2>3, <2>7, <3>2
      <4>2. request[y] \notin aged
        BY <4>1 DEF ChatInv, Ownership
      <4>3. status[request[y]] = "reserved"
        BY <4>1 DEF ChatInv, HeldWhileRunning, Holding
      <4> QED BY <2>5, <4>1, <4>2, <4>3
    <3> QED BY <3>1, <3>2
  <2>10. EndedHoldsNothing'
    <3> SUFFICES ASSUME NEW y \in Executions, pc'[y] \in {"paid", "ended", "cancelled"}
                 PROVE  status'[request'[y]] # "reserved"
      BY DEF EndedHoldsNothing
    <3>1. y # x
      BY <2>4
    <3>2. pc[y] \in {"paid", "ended", "cancelled"} /\ Owner(y)
      BY <2>3, <3>1 DEF Owner
    <3>3. request'[y] = request[y] /\ request[y] \in Requests \ {r}
      BY <2>3, <3>1, <3>2
    <3>4. status[request[y]] # "reserved"
      BY <3>2 DEF ChatInv, EndedHoldsNothing
    <3> QED BY <2>5, <3>3, <3>4
  <2> QED BY <2>6, <2>8, <2>9, <2>10 DEF ChatInv
<1> QED BY <1>2, <1>3 DEF Start, Conflict, OverQuota

(* Every step of a running execution keeps the invariant.                   *)
LEMMA StepKeeps ==
  ASSUME ChatInv, NEW x \in Executions, Step(x)
  PROVE  ChatInv'
<1>1. CASE Call(x)
  BY <1>1, KeepsHolding DEF Call, Holding, AtProvider
<1>2. CASE GiveUp(x)
  BY <1>2, KeepsHolding DEF GiveUp, Holding
<1>3. ASSUME NEW c, Answer(x, c) PROVE ChatInv'
  BY <1>3, KeepsHolding DEF Answer, Holding
<1>4. ASSUME NEW c, Fallback(x, c) PROVE ChatInv'
  BY <1>4, KeepsHolding DEF Fallback, Holding, AtProvider
<1>5. CASE Pay(x)
  BY <1>5, EndsExecution DEF Pay, SettleFinal, Holding
<1>6. ASSUME NEW c, ProviderError(x, c) PROVE ChatInv'
  BY <1>6, EndsExecution DEF ProviderError, SettleKnown, Raise, Holding
<1>7. ASSUME NEW c, Abort(x, c) PROVE ChatInv'
  BY <1>7, EndsExecution DEF Abort, EndOnAbort, SettleKnown, Raise, Holding
<1>8. CASE CancelledInLoop(x)
  BY <1>8, EndsExecution DEF CancelledInLoop, Holding
<1>9. CASE CancelledInChunks(x)
  BY <1>9, EndsExecution DEF CancelledInChunks, Holding
<1>10. CASE Persist(x)
  <2>1. /\ pc[x] = "paid" /\ pc' = [pc EXCEPT ![x] = "ended"]
        /\ UNCHANGED <<ledger, request, callers>>
        /\ pc \in [Executions -> Places]
    BY <1>10 DEF Persist, Goto, ChatInv, ChatShape
  <2>2. StatusMoves({})
    BY <2>1 DEF StatusMoves, ledger
  <2>3. pc' \in [Executions -> Places]
    BY <2>1 DEF Places
  <2>4. request' \in [Executions -> Requests \cup {NoRequest}]
    BY <2>1 DEF ChatInv, ChatShape
  <2>5. \A y \in Executions :
           /\ Owner(y) <=> Owner(y)'
           /\ Owner(y) => request'[y] = request[y]
           /\ Holding(y)' => Holding(y)
           /\ pc'[y] \in {"paid", "ended", "cancelled"} => pc[y] \in {"paid", "ended", "cancelled"}
    BY <2>1 DEF Owner, Holding, AtProvider
  <2> QED BY <2>1, <2>2, <2>3, <2>4, <2>5, HoldsNoMore
<1> QED BY <1>1, <1>2, <1>3, <1>4, <1>5, <1>6, <1>7, <1>8, <1>9, <1>10 DEF Step

(* A crash ends every execution and no reservation.                         *)
LEMMA CrashKeeps ==
  ASSUME ChatInv, Crash
  PROVE  ChatInv'
<1>1. /\ pc' = [x \in Executions |-> IF Running(x) THEN "crashed" ELSE pc[x]]
      /\ UNCHANGED <<ledger, request, callers>>
      /\ pc \in [Executions -> Places]
  BY DEF Crash, ChatInv, ChatShape
<1>2. StatusMoves({})
  BY <1>1 DEF StatusMoves, ledger
<1>3. pc' \in [Executions -> Places]
  BY <1>1 DEF Places
<1>4. request' \in [Executions -> Requests \cup {NoRequest}]
  BY <1>1 DEF ChatInv, ChatShape
<1>5. \A y \in Executions :
         /\ Owner(y) <=> Owner(y)'
         /\ Owner(y) => request'[y] = request[y]
         /\ Holding(y)' => Holding(y)
         /\ pc'[y] \in {"paid", "ended", "cancelled"} => pc[y] \in {"paid", "ended", "cancelled"}
  BY <1>1 DEF Owner, Holding, Running, AtProvider
<1> QED BY <1>1, <1>2, <1>3, <1>4, <1>5, HoldsNoMore

(* Time passes for the reservations no execution holds.                     *)
LEMMA AgingKeeps ==
  ASSUME ChatInv, NEW r \in Requests, ReservationAges(r)
  PROVE  ChatInv'
<1>1. /\ status[r] = "reserved" /\ status' = status /\ aged' = aged \cup {r}
      /\ UNCHANGED <<pc, request, callers>>
      /\ \A x \in Executions : Holding(x) => request[x] # r
  BY DEF ReservationAges, TtlElapses, chat, Holding, Running
<1>2. \A y \in Executions : (Owner(y) <=> Owner(y)') /\ (Holding(y) <=> Holding(y)')
  BY <1>1 DEF Owner, Holding
<1>3. ChatShape' /\ Ownership'
  BY <1>1, <1>2 DEF ChatInv, ChatShape, Ownership
<1>4. HeldWhileRunning' /\ EndedHoldsNothing'
  BY <1>1 DEF ChatInv, HeldWhileRunning, EndedHoldsNothing
<1> QED BY <1>3, <1>4 DEF ChatInv

(* A later operation ends old reservations only.                            *)
LEMMA LaterKeeps ==
  ASSUME ChatInv, CommitExpiry, UNCHANGED chat
  PROVE  ChatInv'
<1>1. StatusMoves({})
  BY ExpiryMoves
<1>2. UNCHANGED <<pc, request, callers>>
  BY DEF chat
<1>3. /\ pc' \in [Executions -> Places]
      /\ request' \in [Executions -> Requests \cup {NoRequest}]
  BY <1>2 DEF ChatInv, ChatShape
<1>4. \A y \in Executions :
         /\ Owner(y) <=> Owner(y)'
         /\ Owner(y) => request'[y] = request[y]
         /\ Holding(y)' => Holding(y)
         /\ pc'[y] \in {"paid", "ended", "cancelled"} => pc[y] \in {"paid", "ended", "cancelled"}
  BY <1>2 DEF Owner, Holding
<1> QED BY <1>1, <1>2, <1>3, <1>4, HoldsNoMore

-----------------------------------------------------------------------------
(* The invariant and its theorems.                                         *)

(* Before the first request the invariant holds.                            *)
LEMMA InitChatInv == InitChat => ChatInv
<1> SUFFICES ASSUME InitChat PROVE ChatInv
  OBVIOUS
<1>1. /\ pc = [x \in Executions |-> "new"] /\ aged = {}
      /\ request = [x \in Executions |-> NoRequest]
      /\ callers = [r \in Requests |-> {}]
  BY DEF InitChat, Init
<1> QED BY <1>1 DEF ChatInv, ChatShape, Ownership, HeldWhileRunning, EndedHoldsNothing,
                    Owner, Holding, Places, AtProvider

(* Every step preserves it.                                                 *)
LEMMA NextChatInv == ChatInv /\ [NextChat]_all => ChatInv'
<1> SUFFICES ASSUME ChatInv, [NextChat]_all PROVE ChatInv'
  OBVIOUS
<1>1. CASE \E x \in Executions, r \in Requests : Start(x, r)
  BY <1>1, StartKeeps
<1>2. CASE \E x \in Executions : Step(x)
  BY <1>2, StepKeeps
<1>3. CASE Crash
  BY <1>3, CrashKeeps
<1>4. CASE \E r \in Requests : ReservationAges(r)
  BY <1>4, AgingKeeps
<1>5. CASE LaterOperation
  BY <1>5, LaterKeeps DEF LaterOperation, CommitExpiry
<1>6. CASE UNCHANGED all
  <2>1. UNCHANGED <<pc, request, callers, status, aged>>
    BY <1>6 DEF all, chat, ledger
  <2> QED BY <2>1 DEF ChatInv, ChatShape, Ownership, HeldWhileRunning, EndedHoldsNothing,
                      Owner, Holding
<1> QED BY <1>1, <1>2, <1>3, <1>4, <1>5, <1>6 DEF NextChat

(* The inductive invariant of the executions. *)
THEOREM ChatInvariance == SpecChat => []ChatInv
BY InitChatInv, NextChatInv, PTL DEF SpecChat

(* The credits of a request are held as long as its execution may call the  *)
(* provider: what send and stream rely on between claim and settlement.     *)
THEOREM AlwaysHeldWhileRunning == SpecChat => []HeldWhileRunning
BY ChatInvariance, PTL DEF ChatInv

(* An execution that ends by an answer, an error, a deadline or a           *)
(* disconnection never leaves its reservation behind.                       *)
THEOREM AlwaysEndedHoldsNothing == SpecChat => []EndedHoldsNothing
BY ChatInvariance, PTL DEF ChatInv

(* A request id reaches the provider in one execution only: the claim       *)
(* refuses every duplicate and every retry.                                 *)
THEOREM AlwaysOneExecution == SpecChat => []OneExecutionPerRequest
<1>1. ChatInv => OneExecutionPerRequest
  <2> SUFFICES ASSUME ChatInv, NEW r \in Requests PROVE Cardinality(callers[r]) <= 1
    BY DEF OneExecutionPerRequest
  <2>1. \A x, y \in callers[r] : x = y
    BY DEF ChatInv, ChatShape, Ownership
  <2>2. CASE callers[r] = {}
    BY <2>2, FS_EmptySet
  <2>3. CASE callers[r] # {}
    <3>1. PICK x : callers[r] = {x}
      BY <2>1, <2>3
    <3>2. Cardinality({x}) = 1
      BY FS_Singleton
    <3> QED BY <3>1, <3>2
  <2> QED BY <2>2, <2>3
<1> QED BY <1>1, ChatInvariance, PTL

-----------------------------------------------------------------------------
(* The books of the account, kept by the executions.                       *)

BooksInv ==
  /\ Books
  /\ ChatInv
  /\ known \in [Executions -> Nat]

(* An operation of an execution on its request keeps the books.             *)
LEMMA EndKeepsBooks ==
  ASSUME Books, NEW r \in Requests, NEW n \in Nat,
         ReservationReleased(r) \/ ReservationSettled(r, n)
  PROVE  Books'
<1>1. CASE ReleaseReservation(r)
  BY <1>1, ReleaseInv
<1>2. CASE SettleReservation(r, n)
  BY <1>2, SettleInv
<1>3. CASE UNCHANGED ledger
  <2>1. UNCHANGED <<balanceVars, status, holdVars, chargeVars, lotVars, ledgerVars>>
        /\ UNCHANGED <<limit, aged>>
    BY <1>3 DEF ledger
  <2>2. limit' \in Limits /\ aged' \subseteq Requests
    BY <2>1 DEF Books, TypeOK
  <2> QED BY <2>1, <2>2, SameBooks
<1> QED BY <1>1, <1>2, <1>3 DEF ReservationReleased, ReservationSettled

(* A step that leaves the ledger alone keeps the books.                     *)
LEMMA IdleKeepsBooks ==
  ASSUME Books, UNCHANGED ledger
  PROVE  Books'
<1>1. UNCHANGED <<balanceVars, status, holdVars, chargeVars, lotVars, ledgerVars>>
      /\ UNCHANGED <<limit, aged>>
  BY DEF ledger
<1>2. limit' \in Limits /\ aged' \subseteq Requests
  BY <1>1 DEF Books, TypeOK
<1> QED BY <1>1, <1>2, SameBooks

(* Committing the expiry keeps the books.                                   *)
LEMMA ExpiryKeepsBooks ==
  ASSUME Books, CommitExpiry
  PROVE  Books'
BY ReleaseStaleInv, IdleKeepsBooks DEF CommitExpiry

(* A step of an execution keeps the books.                                  *)
LEMMA StepKeepsBooks ==
  ASSUME BooksInv, NEW x \in Executions, Step(x)
  PROVE  Books' /\ known' \in [Executions -> Nat]
<1>1. /\ Books /\ known \in [Executions -> Nat] /\ MaxCredits \in Nat
      /\ pc[x] \notin {"new", "refused"} => request[x] \in Requests
  BY LedgerAssumption DEF BooksInv, ChatInv, Ownership, Owner
<1>2. CASE Call(x) \/ GiveUp(x) \/ Persist(x)
  BY <1>1, <1>2, IdleKeepsBooks DEF Call, GiveUp, Persist
<1>3. ASSUME NEW c \in Nat, Answer(x, c) \/ Fallback(x, c)
      PROVE  Books' /\ known' \in [Executions -> Nat]
  BY <1>1, <1>3, IdleKeepsBooks DEF Answer, Fallback, Know
<1>4. CASE Pay(x)
  BY <1>1, <1>4, EndKeepsBooks DEF Pay, SettleFinal
<1>5. ASSUME NEW c \in Nat, ProviderError(x, c) \/ Abort(x, c)
      PROVE  Books' /\ known' \in [Executions -> Nat]
  <2>1. /\ request[x] \in Requests /\ KnownOnError(x, c) \in Nat
        /\ known' = [known EXCEPT ![x] = KnownOnError(x, c)]
    BY <1>1, <1>5 DEF ProviderError, Abort, Raise, KnownOnError, AtProvider
  <2>2. \/ ReservationReleased(request[x])
        \/ ReservationSettled(request[x], KnownOnError(x, c))
    BY <1>5 DEF ProviderError, Abort, EndOnAbort, SettleKnown
  <2>3. Books'
    BY <1>1, <2>1, <2>2, EndKeepsBooks
  <2>4. known' \in [Executions -> Nat]
    BY <1>1, <2>1
  <2> QED BY <2>3, <2>4
<1>6. CASE CancelledInLoop(x) \/ CancelledInChunks(x)
  <2>1. request[x] \in Requests /\ known[x] \in Nat /\ known' = known
    BY <1>1, <1>6 DEF CancelledInLoop, CancelledInChunks
  <2>2. ReservationReleased(request[x]) \/ ReservationSettled(request[x], known[x])
    BY <1>6 DEF CancelledInLoop, CancelledInChunks
  <2> QED BY <1>1, <2>1, <2>2, EndKeepsBooks
<1>7. \A c \in 0..MaxCredits : c \in Nat
  BY <1>1
<1>8. \A c \in 1..MaxCredits : c \in Nat
  BY <1>1
<1> QED BY <1>2, <1>3, <1>4, <1>5, <1>6, <1>7, <1>8 DEF Step

(* Every step keeps the books.                                              *)
LEMMA NextKeepsBooks == BooksInv /\ [NextChat]_all => BooksInv'
<1> SUFFICES ASSUME BooksInv, [NextChat]_all
             PROVE  Books' /\ known' \in [Executions -> Nat]
  BY NextChatInv DEF BooksInv
<1>1. CASE \E x \in Executions, r \in Requests : Start(x, r)
  <2>1. PICK x \in Executions, r \in Requests : Start(x, r)
    BY <1>1
  <2>2. known' = known
    BY <2>1 DEF Start
  <2>3. CASE Acquire(x, r)
    <3>1. PICK e \in 1..MaxCredits : ClaimCreditReservation(r, e, FALSE)
      BY <2>3 DEF Acquire
    <3>2. e \in Nat
      BY <3>1, LedgerAssumption
    <3> QED BY <2>2, <3>1, <3>2, ClaimInv DEF BooksInv
  <2>4. CASE CommitExpiry
    BY <2>2, <2>4, ExpiryKeepsBooks DEF BooksInv
  <2> QED BY <2>1, <2>3, <2>4 DEF Start, Conflict, OverQuota
<1>2. CASE \E x \in Executions : Step(x)
  BY <1>2, StepKeepsBooks
<1>3. CASE Crash
  BY <1>3, IdleKeepsBooks DEF Crash, BooksInv
<1>4. CASE \E r \in Requests : ReservationAges(r)
  <2>1. PICK r \in Requests : ReservationAges(r)
    BY <1>4
  <2>2. /\ UNCHANGED <<balanceVars, status, holdVars, chargeVars, lotVars, ledgerVars>>
        /\ limit' = limit /\ aged' = aged \cup {r} /\ known' = known
    BY <2>1 DEF ReservationAges, TtlElapses, chat
  <2>3. limit' \in Limits /\ aged' \subseteq Requests
    BY <2>2 DEF BooksInv, Books, TypeOK
  <2> QED BY <2>2, <2>3, SameBooks DEF BooksInv
<1>5. CASE LaterOperation
  BY <1>5, ReleaseStaleInv DEF LaterOperation, chat, BooksInv
<1>6. CASE UNCHANGED all
  BY <1>6, IdleKeepsBooks DEF all, chat, BooksInv
<1> QED BY <1>1, <1>2, <1>3, <1>4, <1>5, <1>6 DEF NextChat

(* The executions, with their deadlines, disconnections, crashes and        *)
(* retries, keep the reserved counters equal to what live reservations hold.*)
THEOREM ChatHoldsMatch == SpecChat => []HoldsMatchReservations
<1>1. InitChat => BooksInv
  BY InitChatInv, InitInv DEF InitChat, BooksInv, IInv
<1>2. BooksInv => HoldsMatchReservations
  BY DEF BooksInv, Books
<1> QED BY <1>1, <1>2, NextKeepsBooks, PTL DEF SpecChat

-----------------------------------------------------------------------------
(* What a request is charged, and what its provider calls were metered.    *)

(* The provider is metered for an execution only when it called it, and     *)
(* what was metered is what the settlement will know of.                    *)
MeterInv ==
  /\ known = metered
  /\ metered \in [Executions -> Nat]
  /\ \A x \in Executions : ~Owner(x) => metered[x] = 0
  /\ \A x \in Executions : Owner(x) /\ x \notin callers[request[x]] => metered[x] = 0
  /\ \A x \in Executions : pc[x] \in AtProvider => x \in callers[request[x]]

(* A request without an owner, or with one that holds, was not charged yet; *)
(* no owner's request is charged more than its calls cost, and one that was *)
(* paid, or a send that ended, is charged all of it.                        *)
ChargeInv ==
  /\ \A r \in Requests :
       (\A x \in Executions : Owner(x) => request[x] # r) => Charged(r) = 0
  /\ \A x \in Executions : Holding(x) => Charged(request[x]) = 0
  /\ \A x \in Executions : Owner(x) => Charged(request[x]) <= metered[x]
  /\ \A x \in Executions :
       limit # Unlimited /\ (pc[x] = "paid" \/ (pc[x] = "ended" /\ kind[x] = "send"))
         => Charged(request[x]) = metered[x]

(* An answer was persisted by an execution that has ended since, paid for.  *)
AnswerInv ==
  \A r \in Requests : answers[r] # 0 =>
    /\ answers[r] = 1
    /\ \E x \in Executions :
         /\ pc[x] = "ended" /\ request[x] = r
         /\ limit # Unlimited => Charged(r) = metered[x]

PaidInv ==
  /\ BooksInv
  /\ MeterInv
  /\ ChargeInv
  /\ AnswerInv
  /\ answers \in [Requests -> Nat]

(* Requests outside `but` keep their charge, and the limit stays.           *)
ChargesKept(but) ==
  /\ limit' = limit
  /\ \A q \in Requests \ but : Charged(q)' = Charged(q)

(* A claim, an expiry and a release charge nothing.                         *)
LEMMA NothingCharged ==
  ASSUME \/ UNCHANGED ledger
         \/ CommitExpiry
         \/ \E r \in Requests : ReservationReleased(r)
         \/ \E r \in Requests : TtlElapses(r)
         \/ \E r \in Requests, e \in 1..MaxCredits : ClaimCreditReservation(r, e, FALSE)
  PROVE  ChargesKept({})
<1>1. UNCHANGED chargeVars /\ limit' = limit
  BY DEF ledger, CommitExpiry, ReleaseStaleReservations, ReservationReleased,
         ReleaseReservation, ReleaseTransaction, TtlElapses, ClaimCreditReservation
<1> QED BY <1>1 DEF chargeVars, ChargesKept, Charged

(* The parts of a charge are the whole of it, unless nothing is charged.    *)
LEMMA ChargeExact ==
  ASSUME TypeOK, NEW r \in Requests, NEW actual \in Nat, NEW ir \in Nat, NEW pr \in Nat,
         pr + reserved_purchased[r] <= purchased_balance
  PROVE  LET c == Charge(r, actual, ir, pr)
         IN c.included + c.purchased + c.unfunded = IF limit = Unlimited THEN 0 ELSE actual
<1>1. CASE limit = Unlimited
  BY <1>1 DEF Charge
<1>2. CASE limit # Unlimited
  <2> DEFINE hi == Least(actual, reserved_included[r])
             hp == Least(actual - hi, reserved_purchased[r])
             ei == Least(actual - hi - hp, IncludedAvailable(ir + hi))
             ep == Least(actual - hi - hp - ei, PurchasedAvailable(pr + hp))
  <2>1. /\ Charge(r, actual, ir, pr).included = hi + ei
        /\ Charge(r, actual, ir, pr).purchased = hp + ep
        /\ Charge(r, actual, ir, pr).unfunded = actual - hi - hp - ei - ep
    BY <1>2 DEF Charge
  <2>2. /\ reserved_included[r] \in Nat /\ reserved_purchased[r] \in Nat
        /\ monthly_used \in Nat /\ purchased_balance \in Nat /\ limit \in Nat
    BY <1>2, LedgerAssumption DEF TypeOK
  <2>3. hi \in Int
    BY <2>2 DEF Least
  <2>4. hp \in Int
    <3> HIDE DEF hi
    <3> QED BY <2>2, <2>3 DEF Least
  <2>5. ei \in Int
    <3> HIDE DEF hi, hp
    <3> QED BY <2>2, <2>3, <2>4 DEF Least, IncludedAvailable, Monus
  <2>6. ep \in Int
    <3> HIDE DEF hi, hp, ei
    <3> QED BY <2>2, <2>3, <2>4, <2>5 DEF Least, PurchasedAvailable, Monus
  <2> HIDE DEF hi, hp, ei, ep
  <2> QED BY <1>2, <2>1, <2>3, <2>4, <2>5, <2>6
<1> QED BY <1>1, <1>2

(* A settlement charges its request just what it is told, if there is a     *)
(* limit, and no other request.                                             *)
LEMMA SettleCharges ==
  ASSUME Books, NEW r \in Requests, NEW n \in Nat, SettleReservation(r, n)
  PROVE  /\ ChargesKept({r})
         /\ Charged(r)' = IF limit = Unlimited THEN 0 ELSE n
<1> DEFINE X  == Stale({r})
           ir == IncludedReservedWithout(X) - reserved_included[r]
           pr == PurchasedReservedWithout(X) - reserved_purchased[r]
           c  == Charge(r, n, ir, pr)
<1>1. /\ settled_included' = [settled_included EXCEPT ![r] = c.included]
      /\ settled_purchased' = [settled_purchased EXCEPT ![r] = c.purchased]
      /\ unfunded_credits' = [unfunded_credits EXCEPT ![r] = c.unfunded]
      /\ limit' = limit
  BY DEF SettleReservation, SettleTransaction
<1>2. TypeOK /\ X \in SUBSET Live /\ r \in Live \ X
  BY StaleIsLive DEF Books, SettleReservation, Live
<1> HIDE DEF X
<1>3. /\ purchased_reserved = pr + reserved_purchased[r] + PurchasedHeld(X)
      /\ PurchasedHeld(X) \in Nat /\ reserved_purchased[r] \in Nat
      /\ ir \in Nat /\ pr \in Nat
  BY <1>2, HoldOfMember
<1> HIDE DEF ir, pr
<1>4. pr + reserved_purchased[r] <= purchased_balance
  <2>1. purchased_reserved <= purchased_balance /\ purchased_balance \in Nat
    BY DEF Books, ReservedIsCovered, TypeOK
  <2> QED BY <1>3, <2>1
<1>5. c.included + c.purchased + c.unfunded = IF limit = Unlimited THEN 0 ELSE n
  BY <1>2, <1>3, <1>4, ChargeExact
<1> HIDE DEF c
<1>6. /\ settled_included \in [Requests -> Nat] /\ settled_purchased \in [Requests -> Nat]
      /\ unfunded_credits \in [Requests -> Nat]
  BY <1>2 DEF TypeOK
<1>7. Charged(r)' = c.included + c.purchased + c.unfunded
  BY <1>1, <1>6 DEF Charged
<1>8. \A q \in Requests \ {r} : Charged(q)' = Charged(q)
  BY <1>1, <1>6 DEF Charged
<1> QED BY <1>1, <1>5, <1>7, <1>8 DEF ChargesKept

(* What executions do when no request is charged.                           *)
LEMMA NoChargeStep ==
  ASSUME PaidInv, ChargesKept({}), UNCHANGED answers,
         pc \in [Executions -> Places], metered' \in [Executions -> Nat],
         \A y \in Executions :
           /\ Owner(y) <=> Owner(y)'
           /\ Owner(y) => request'[y] = request[y]
           /\ Holding(y)' => Holding(y)
           /\ metered[y] <= metered'[y]
           /\ pc'[y] \in {"paid", "ended"} => pc[y] = pc'[y] /\ kind'[y] = kind[y]
           /\ pc[y] \in {"paid", "ended"} => metered'[y] = metered[y]
           /\ pc[y] = "ended" => pc'[y] = "ended"
  PROVE  ChargeInv' /\ AnswerInv'
<1>1. /\ limit' = limit /\ \A q \in Requests : Charged(q)' = Charged(q)
      /\ \A q \in Requests : Charged(q) \in Nat
      /\ answers' = answers
      /\ metered \in [Executions -> Nat]
  BY DEF ChargesKept, PaidInv, BooksInv, Books, TypeOK, Charged, MeterInv
<1>2. \A y \in Executions : /\ Holding(y) => Owner(y)
                            /\ pc[y] \in {"paid", "ended"} => Owner(y)
                            /\ Owner(y) => request[y] \in Requests
                            /\ metered[y] \in Nat /\ metered'[y] \in Nat
  BY <1>1 DEF Holding, Owner, AtProvider, PaidInv, BooksInv, ChatInv, Ownership
<1>3. \A r \in Requests :
        (\A x \in Executions : Owner(x)' => request'[x] # r) => Charged(r)' = 0
  BY <1>1 DEF PaidInv, ChargeInv
<1>4. \A x \in Executions : Holding(x)' => Charged(request[x])' = 0
  <2> SUFFICES ASSUME NEW x \in Executions, Holding(x)' PROVE Charged(request[x])' = 0
    OBVIOUS
  <2>1. Holding(x) /\ request'[x] = request[x] /\ request[x] \in Requests
    BY <1>2
  <2>2. Charged(request[x]) = 0
    BY <2>1 DEF PaidInv, ChargeInv
  <2> QED BY <1>1, <2>1, <2>2
<1>5. \A x \in Executions : Owner(x)' => Charged(request[x])' <= metered'[x]
  <2> SUFFICES ASSUME NEW x \in Executions, Owner(x)'
               PROVE  Charged(request[x])' <= metered'[x]
    OBVIOUS
  <2>1. Owner(x) /\ request'[x] = request[x] /\ request[x] \in Requests
    BY <1>2
  <2>2. Charged(request[x]) <= metered[x] /\ metered[x] <= metered'[x]
    BY <2>1 DEF PaidInv, ChargeInv
  <2>3. Charged(request[x])' = Charged(request[x]) /\ Charged(request[x]) \in Nat
    BY <1>1, <2>1
  <2> QED BY <1>2, <2>2, <2>3
<1>6. \A x \in Executions :
       limit' # Unlimited /\ (pc'[x] = "paid" \/ (pc'[x] = "ended" /\ kind'[x] = "send"))
         => Charged(request[x])' = metered'[x]
  <2> SUFFICES ASSUME NEW x \in Executions, limit' # Unlimited,
                      pc'[x] = "paid" \/ (pc'[x] = "ended" /\ kind'[x] = "send")
               PROVE  Charged(request[x])' = metered'[x]
    OBVIOUS
  <2>1. /\ pc[x] = "paid" \/ (pc[x] = "ended" /\ kind[x] = "send")
        /\ metered'[x] = metered[x]
        /\ Owner(x) /\ request'[x] = request[x] /\ request[x] \in Requests
    BY <1>2
  <2>2. Charged(request[x]) = metered[x]
    BY <1>1, <2>1 DEF PaidInv, ChargeInv
  <2> QED BY <1>1, <2>1, <2>2
<1>7. AnswerInv'
  <2> SUFFICES ASSUME NEW r \in Requests, answers[r] # 0
               PROVE  /\ answers[r] = 1
                      /\ \E x \in Executions :
                           /\ pc'[x] = "ended" /\ request'[x] = r
                           /\ limit # Unlimited => Charged(r) = metered'[x]
    BY <1>1 DEF AnswerInv
  <2>1. answers[r] = 1
    BY DEF PaidInv, AnswerInv
  <2>2. PICK x \in Executions :
           /\ pc[x] = "ended" /\ request[x] = r
           /\ limit # Unlimited => Charged(r) = metered[x]
    BY DEF PaidInv, AnswerInv
  <2>3. pc'[x] = "ended" /\ request'[x] = r /\ metered'[x] = metered[x]
    BY <1>2, <2>2
  <2> QED BY <2>1, <2>2, <2>3
<1> QED BY <1>3, <1>4, <1>5, <1>6, <1>7 DEF ChargeInv

(* An execution that held ends, and its request is charged at most m, or m  *)
(* if it was paid or a send.                                                *)
LEMMA ChargedAtEnd ==
  ASSUME PaidInv, NEW x \in Executions, Holding(x), NEW p \in {"paid", "ended", "cancelled"},
         Goto(x, p), UNCHANGED <<request, kind, answers>>,
         NEW m \in Nat, metered[x] <= m, metered' = [metered EXCEPT ![x] = m],
         ChargesKept({request[x]}), Charged(request[x])' <= m,
         limit # Unlimited /\ (p = "paid" \/ (p = "ended" /\ kind[x] = "send"))
           => Charged(request[x])' = m
  PROVE  ChargeInv' /\ AnswerInv'
<1>1. /\ pc' = [pc EXCEPT ![x] = p] /\ pc \in [Executions -> Places]
      /\ request' = request /\ kind' = kind /\ answers' = answers /\ limit' = limit
      /\ metered \in [Executions -> Nat]
      /\ p \notin {"new", "refused", "ready", "final", "calling", "fallback"}
      /\ \A q \in Requests \ {request[x]} : Charged(q)' = Charged(q)
  BY DEF Goto, PaidInv, BooksInv, ChatInv, ChatShape, MeterInv, ChargesKept
<1>2. /\ Owner(x) /\ Owner(x)' /\ ~Holding(x)' /\ pc'[x] = p /\ metered'[x] = m
      /\ request[x] \in Requests /\ pc[x] # "ended"
  BY <1>1 DEF Holding, Owner, AtProvider, PaidInv, BooksInv, ChatInv, Ownership
<1>3. ASSUME NEW y \in Executions \ {x}
      PROVE  /\ pc'[y] = pc[y] /\ metered'[y] = metered[y]
             /\ (Owner(y) <=> Owner(y)') /\ (Holding(y) <=> Holding(y)')
             /\ Owner(y) => /\ request[y] \in Requests
                            /\ request[y] # request[x]
                            /\ Charged(request[y])' = Charged(request[y])
  <2>1. pc'[y] = pc[y] /\ metered'[y] = metered[y]
    BY <1>1
  <2>2. Owner(y) => request[y] \in Requests /\ request[y] # request[x]
    BY <1>2 DEF PaidInv, BooksInv, ChatInv, Ownership
  <2> QED BY <1>1, <2>1, <2>2 DEF Owner, Holding
<1>4. \A y \in Executions : Holding(y) \/ pc[y] \in {"paid", "ended"} => Owner(y)
  BY DEF Holding, Owner, AtProvider
<1>5. \A r \in Requests :
        (\A y \in Executions : Owner(y)' => request[y] # r) => Charged(r)' = 0
  BY <1>1, <1>2, <1>3 DEF PaidInv, ChargeInv
<1>6. \A y \in Executions : Holding(y)' => Charged(request[y])' = 0
  BY <1>2, <1>3, <1>4 DEF PaidInv, ChargeInv
<1>7. \A y \in Executions : Owner(y)' => Charged(request[y])' <= metered'[y]
  BY <1>2, <1>3 DEF PaidInv, ChargeInv
<1>8. \A y \in Executions :
       limit # Unlimited /\ (pc'[y] = "paid" \/ (pc'[y] = "ended" /\ kind[y] = "send"))
         => Charged(request[y])' = metered'[y]
  <2> SUFFICES ASSUME NEW y \in Executions, limit # Unlimited,
                      pc'[y] = "paid" \/ (pc'[y] = "ended" /\ kind[y] = "send")
               PROVE  Charged(request[y])' = metered'[y]
    OBVIOUS
  <2>1. CASE y = x
    BY <1>2, <2>1
  <2>2. CASE y # x
    BY <1>3, <1>4, <2>2 DEF PaidInv, ChargeInv
  <2> QED BY <2>1, <2>2
<1>9. ASSUME NEW r \in Requests, answers[r] # 0
      PROVE  /\ answers[r] = 1
             /\ \E y \in Executions :
                  /\ pc'[y] = "ended" /\ request[y] = r
                  /\ limit # Unlimited => Charged(r)' = metered'[y]
  <2>1. PICK y \in Executions :
           /\ answers[r] = 1
           /\ pc[y] = "ended" /\ request[y] = r
           /\ limit # Unlimited => Charged(r) = metered[y]
    BY <1>9 DEF PaidInv, AnswerInv
  <2>2. y # x
    BY <1>2, <2>1
  <2> QED BY <1>3, <1>4, <2>1, <2>2
<1>10. ChargeInv'
  BY <1>1, <1>5, <1>6, <1>7, <1>8 DEF ChargeInv
<1>11. AnswerInv'
  BY <1>1, <1>9 DEF AnswerInv
<1> QED BY <1>10, <1>11

(* An execution that owns its request is metered c credits more, at the     *)
(* provider or not at all.                                                  *)
LEMMA MeterStep ==
  ASSUME PaidInv, NEW x \in Executions, Owner(x), Owner(x)', NEW p \in Places, Goto(x, p),
         NEW c \in Nat, c = 0 \/ pc[x] \in AtProvider,
         metered' = [metered EXCEPT ![x] = metered[x] + c],
         known' = [known EXCEPT ![x] = known[x] + c],
         UNCHANGED request,
         \/ UNCHANGED callers /\ (p \in AtProvider => pc[x] \in AtProvider)
         \/ callers' = [callers EXCEPT ![request[x]] = @ \cup {x}]
  PROVE  MeterInv'
<1>1. /\ pc' = [pc EXCEPT ![x] = p] /\ pc \in [Executions -> Places]
      /\ request' = request
      /\ callers \in [Requests -> SUBSET Executions]
      /\ known = metered /\ metered \in [Executions -> Nat]
      /\ \A y \in Executions : pc[y] \in AtProvider => y \in callers[request[y]]
      /\ \A y \in Executions : ~Owner(y) => metered[y] = 0
      /\ \A y \in Executions : Owner(y) /\ y \notin callers[request[y]] => metered[y] = 0
      /\ request[x] \in Requests
  BY DEF Goto, PaidInv, BooksInv, ChatInv, ChatShape, Ownership, MeterInv
<1>2. known' = metered' /\ metered' \in [Executions -> Nat]
  BY <1>1
<1>3. \A y \in Executions : Owner(y) => request[y] \in Requests
  BY DEF PaidInv, BooksInv, ChatInv, Ownership
<1>4. \A y \in Executions : pc[y] \in AtProvider => Owner(y)
  BY DEF AtProvider, Owner
<1>5. \A y \in Executions \ {x} :
        pc'[y] = pc[y] /\ metered'[y] = metered[y] /\ (Owner(y) <=> Owner(y)')
  BY <1>1 DEF Owner
<1>6. \A r \in Requests : \A y \in callers[r] : y \in callers'[r]
  BY <1>1
<1>7. pc'[x] = p /\ metered'[x] = metered[x] + c
  BY <1>1
<1>8. \A y \in Executions : ~Owner(y)' => metered'[y] = 0
  BY <1>1, <1>5
<1>9. ASSUME NEW y \in Executions, Owner(y)', y \notin callers'[request'[y]]
      PROVE  metered'[y] = 0
  <2>1. Owner(y) /\ y \notin callers[request[y]]
    BY <1>1, <1>3, <1>5, <1>6, <1>9
  <2>2. CASE y = x
    <3>1. pc[x] \notin AtProvider /\ metered[x] = 0
      BY <1>1, <2>1, <2>2
    <3> QED BY <1>7, <2>2, <3>1
  <2>3. CASE y # x
    BY <1>1, <1>5, <2>1, <2>3
  <2> QED BY <2>2, <2>3
<1>10. ASSUME NEW y \in Executions, pc'[y] \in AtProvider PROVE y \in callers'[request'[y]]
  <2>1. CASE y = x
    BY <1>1, <1>6, <1>7, <1>10, <2>1
  <2>2. CASE y # x
    BY <1>1, <1>3, <1>4, <1>5, <1>6, <1>10, <2>2
  <2> QED BY <2>1, <2>2
<1> QED BY <1>2, <1>8, <1>9, <1>10 DEF MeterInv

(* A step that ends no execution and charges nothing.                       *)
LEMMA GoesOn ==
  ASSUME PaidInv, NEW x \in Executions, Holding(x), NEW p \in AtProvider \cup {"ready", "final"},
         Goto(x, p), UNCHANGED <<ledger, request, kind, answers>>,
         NEW c \in Nat, metered' = [metered EXCEPT ![x] = metered[x] + c]
  PROVE  ChargeInv' /\ AnswerInv'
<1>1. /\ pc' = [pc EXCEPT ![x] = p] /\ pc \in [Executions -> Places]
      /\ request' = request /\ kind' = kind /\ answers' = answers
      /\ metered \in [Executions -> Nat]
      /\ p \notin {"new", "refused", "paid", "ended"}
      /\ pc[x] \notin {"new", "refused", "paid", "ended"}
  BY DEF Goto, PaidInv, BooksInv, ChatInv, ChatShape, MeterInv, AtProvider, Holding
<1>2. ChargesKept({})
  BY NothingCharged
<1>3. metered' \in [Executions -> Nat]
  BY <1>1
<1>4. \A y \in Executions :
         /\ Owner(y) <=> Owner(y)'
         /\ Owner(y) => request'[y] = request[y]
         /\ Holding(y)' => Holding(y)
         /\ metered[y] <= metered'[y]
         /\ pc'[y] \in {"paid", "ended"} => pc[y] = pc'[y] /\ kind'[y] = kind[y]
         /\ pc[y] \in {"paid", "ended"} => metered'[y] = metered[y]
         /\ pc[y] = "ended" => pc'[y] = "ended"
  BY <1>1 DEF Owner, Holding
<1> QED BY <1>1, <1>2, <1>3, <1>4, NoChargeStep

(* The end of an execution charges its request what the code knows of, n,   *)
(* or releases it.                                                          *)
LEMMA EndCharges ==
  ASSUME PaidInv, NEW x \in Executions, Holding(x), NEW n \in Nat, UNCHANGED request
  PROVE  /\ ReservationSettled(request[x], n) =>
              /\ ChargesKept({request[x]})
              /\ Charged(request[x])' = IF limit = Unlimited THEN 0 ELSE n
         /\ ReservationReleased(request[x]) =>
              /\ ChargesKept({request[x]})
              /\ Charged(request[x])' = 0
<1>1. /\ request[x] \in Requests /\ status[request[x]] = "reserved"
      /\ Charged(request[x]) = 0 /\ Books
  BY DEF PaidInv, BooksInv, ChatInv, Ownership, HeldWhileRunning, Holding, Owner,
         AtProvider, ChargeInv
<1>2. PICK r \in Requests : r = request[x]
  BY <1>1
<1>3. ASSUME ReservationSettled(request[x], n)
      PROVE  ChargesKept({r}) /\ Charged(r)' = IF limit = Unlimited THEN 0 ELSE n
  <2>1. SettleReservation(r, n)
    BY <1>1, <1>2, <1>3 DEF ReservationSettled
  <2> QED BY <1>1, <2>1, SettleCharges
<1>4. ASSUME ReservationReleased(request[x])
      PROVE  ChargesKept({r}) /\ Charged(r)' = 0
  <2>1. ReservationReleased(r)
    BY <1>2, <1>4
  <2>2. ChargesKept({})
    BY <2>1, NothingCharged
  <2>3. Charged(r) = 0
    BY <1>1, <1>2
  <2> QED BY <2>2, <2>3 DEF ChargesKept
<1> QED BY <1>2, <1>3, <1>4

-----------------------------------------------------------------------------
(* Each step keeps the account of charges and costs.                       *)

(* The three parts of the invariant that a step may disturb.                *)
ChargesOK == MeterInv /\ ChargeInv /\ AnswerInv /\ answers \in [Requests -> Nat]

(* A start that is refused, or that acquires a request nobody owned.        *)
LEMMA StartCharges ==
  ASSUME PaidInv, NEW x \in Executions, NEW r \in Requests, Start(x, r)
  PROVE  ChargesOK'
<1>1. /\ pc[x] = "new" /\ pc \in [Executions -> Places]
      /\ request \in [Executions -> Requests \cup {NoRequest}]
      /\ request' = [request EXCEPT ![x] = r]
      /\ UNCHANGED <<kind, known, metered, callers, answers>>
      /\ metered \in [Executions -> Nat] /\ answers \in [Requests -> Nat]
      /\ metered[x] = 0
  BY DEF PaidInv, BooksInv, ChatInv, ChatShape, Start, MeterInv, Owner
<1>2. \A y \in Executions \ {x} : request'[y] = request[y]
  BY <1>1
<1>3. ASSUME CommitExpiry, Goto(x, "refused") PROVE ChargesOK'
  <2>1. pc' = [pc EXCEPT ![x] = "refused"]
    BY <1>3 DEF Goto
  <2>2. \A y \in Executions :
           /\ Owner(y) <=> Owner(y)'
           /\ Owner(y) => request'[y] = request[y]
           /\ Holding(y)' => Holding(y)
           /\ metered[y] <= metered'[y]
           /\ pc'[y] \in {"paid", "ended"} => pc[y] = pc'[y] /\ kind'[y] = kind[y]
           /\ pc[y] \in {"paid", "ended"} => metered'[y] = metered[y]
           /\ pc[y] = "ended" => pc'[y] = "ended"
           /\ pc'[y] \in AtProvider => pc[y] \in AtProvider /\ request'[y] = request[y]
    BY <1>1, <2>1 DEF Owner, Holding, AtProvider
  <2>3. ChargesKept({})
    BY <1>3, NothingCharged
  <2>4. ChargeInv' /\ AnswerInv'
    BY <1>1, <2>2, <2>3, NoChargeStep
  <2>5. MeterInv'
    BY <1>1, <2>2 DEF PaidInv, MeterInv
  <2> QED BY <1>1, <2>4, <2>5 DEF ChargesOK
<1>4. ASSUME Acquire(x, r) PROVE ChargesOK'
  <2>1. pc' = [pc EXCEPT ![x] = "ready"] /\ status[r] = "none"
    BY <1>4 DEF Acquire, Goto, ClaimCreditReservation
  <2>2. ChargesKept({})
    BY <1>4, NothingCharged DEF Acquire
  <2>3. /\ \A q \in Requests : Charged(q)' = Charged(q)
        /\ limit' = limit /\ answers' = answers /\ kind' = kind
    BY <1>1, <2>2 DEF ChargesKept
  <2>4. \A y \in Executions \ {x} :
          /\ pc'[y] = pc[y] /\ request'[y] = request[y] /\ metered'[y] = metered[y]
          /\ (Owner(y) <=> Owner(y)') /\ (Holding(y) <=> Holding(y)')
          /\ Owner(y) => request[y] \in Requests /\ request[y] # r
    BY <1>1, <1>2, <2>1 DEF Owner, Holding, PaidInv, BooksInv, ChatInv, Ownership
  <2>5. ~Owner(x) /\ Owner(x)' /\ request'[x] = r /\ metered'[x] = 0 /\ pc'[x] = "ready"
    BY <1>1, <2>1 DEF Owner
  <2>6. Charged(r) = 0
    <3>1. \A y \in Executions : Owner(y) => request[y] # r
      BY <2>4, <2>5
    <3> QED BY <3>1 DEF PaidInv, ChargeInv
  <2>7. \A y \in Executions : Holding(y) \/ pc[y] \in {"paid", "ended"} => Owner(y)
    BY DEF Holding, Owner, AtProvider
  <2>8. MeterInv'
    <3>1. \A y \in Executions : pc'[y] \in AtProvider => y \in callers'[request'[y]]
      BY <1>1, <2>4, <2>5 DEF PaidInv, MeterInv, AtProvider
    <3>2. \A y \in Executions : ~Owner(y)' => metered'[y] = 0
      BY <2>4, <2>5 DEF PaidInv, MeterInv
    <3>3. \A y \in Executions : Owner(y)' /\ y \notin callers'[request'[y]] => metered'[y] = 0
      BY <1>1, <2>4, <2>5 DEF PaidInv, MeterInv
    <3> QED BY <1>1, <3>1, <3>2, <3>3 DEF PaidInv, MeterInv
  <2>9. \A q \in Requests :
          (\A y \in Executions : Owner(y)' => request'[y] # q) => Charged(q)' = 0
    BY <2>3, <2>4, <2>5 DEF PaidInv, ChargeInv
  <2>10. ASSUME NEW y \in Executions, Owner(y)'
         PROVE  /\ Holding(y)' => Charged(request[y])' = 0
                /\ Charged(request[y])' <= metered'[y]
                /\ limit' # Unlimited
                     /\ (pc'[y] = "paid" \/ (pc'[y] = "ended" /\ kind'[y] = "send"))
                     => Charged(request[y])' = metered'[y]
    <3>1. CASE y = x
      <4>1. Charged(request[x])' = 0
        BY <2>3, <2>5, <2>6
      <4> QED BY <2>5, <3>1, <4>1
    <3>2. CASE y # x
      <4>1. Owner(y) /\ request'[y] = request[y] /\ request[y] \in Requests
        BY <2>4, <2>10, <3>2
      <4>2. Charged(request[y])' = Charged(request[y])
        BY <2>3, <4>1
      <4> QED BY <2>3, <2>4, <3>2, <4>1, <4>2 DEF PaidInv, ChargeInv
    <3> QED BY <3>1, <3>2
  <2>11. \A y \in Executions : Holding(y)' \/ pc'[y] \in {"paid", "ended"} => Owner(y)'
    BY <2>4, <2>5, <2>7
  <2>12. ChargeInv'
    BY <2>9, <2>10, <2>11 DEF ChargeInv
  <2>13. ASSUME NEW q \in Requests, answers[q] # 0
         PROVE  /\ answers[q] = 1
                /\ \E y \in Executions :
                     /\ pc'[y] = "ended" /\ request'[y] = q
                     /\ limit # Unlimited => Charged(q)' = metered'[y]
    <3>1. PICK y \in Executions :
             /\ answers[q] = 1
             /\ pc[y] = "ended" /\ request[y] = q
             /\ limit # Unlimited => Charged(q) = metered[y]
      BY <2>13 DEF PaidInv, AnswerInv
    <3>2. y # x
      BY <1>1, <3>1
    <3> QED BY <2>3, <2>4, <3>1, <3>2
  <2>14. AnswerInv'
    BY <2>3, <2>13 DEF AnswerInv
  <2> QED BY <1>1, <2>8, <2>12, <2>14 DEF ChargesOK
<1> QED BY <1>3, <1>4 DEF Start, Conflict, OverQuota

(* An execution that goes on: it calls, hears, or gives up.                 *)
LEMMA GoingOnCharges ==
  ASSUME PaidInv, NEW x \in Executions, NEW c \in Nat,
         Call(x) \/ GiveUp(x) \/ Answer(x, c) \/ Fallback(x, c)
  PROVE  ChargesOK'
<1>1. /\ known \in [Executions -> Nat] /\ metered \in [Executions -> Nat]
      /\ answers \in [Requests -> Nat]
      /\ pc \in [Executions -> Places]
  BY DEF PaidInv, BooksInv, ChatInv, ChatShape, MeterInv
<1>2. Holding(x) /\ Owner(x)
  BY DEF Call, GiveUp, Answer, Fallback, Holding, Owner, AtProvider
<1>3. PICK p \in AtProvider \cup {"ready", "final"}, d \in Nat :
         /\ Goto(x, p) /\ UNCHANGED <<ledger, request, kind, answers>>
         /\ d = 0 \/ pc[x] \in AtProvider
         /\ metered' = [metered EXCEPT ![x] = metered[x] + d]
         /\ known' = [known EXCEPT ![x] = known[x] + d]
         /\ \/ UNCHANGED callers /\ (p \in AtProvider => pc[x] \in AtProvider)
            \/ callers' = [callers EXCEPT ![request[x]] = @ \cup {x}]
  <2>0. /\ metered = [metered EXCEPT ![x] = metered[x] + 0]
        /\ known = [known EXCEPT ![x] = known[x] + 0]
    BY <1>1
  <2>1. CASE Call(x)
    BY <2>0, <2>1 DEF Call, AtProvider
  <2>2. CASE GiveUp(x)
    BY <2>0, <2>2 DEF GiveUp, AtProvider
  <2>3. CASE Answer(x, c)
    BY <2>3 DEF Answer, Meter, Know, AtProvider
  <2>4. CASE Fallback(x, c)
    BY <2>4 DEF Fallback, Meter, Know, AtProvider
  <2> QED BY <2>1, <2>2, <2>3, <2>4
<1>4. ChargeInv' /\ AnswerInv'
  BY <1>2, <1>3, GoesOn
<1>5. p \in Places /\ Owner(x)'
  BY <1>1, <1>3 DEF Places, Owner, Goto, AtProvider
<1>6. MeterInv'
  BY <1>2, <1>3, <1>5, MeterStep
<1> QED BY <1>1, <1>3, <1>4, <1>6 DEF ChargesOK

(* An execution that ends, by its success, an error, a deadline or a        *)
(* disconnection, at the cost of d credits more.                            *)
LEMMA EndingCharges ==
  ASSUME PaidInv, NEW x \in Executions, NEW c \in Nat,
         \/ Pay(x) \/ ProviderError(x, c) \/ Abort(x, c)
         \/ CancelledInLoop(x) \/ CancelledInChunks(x)
  PROVE  ChargesOK'
<1>1. /\ known \in [Executions -> Nat] /\ metered \in [Executions -> Nat]
      /\ known = metered /\ answers \in [Requests -> Nat]
      /\ pc \in [Executions -> Places]
  BY DEF PaidInv, BooksInv, ChatInv, ChatShape, MeterInv
<1>2. Holding(x) /\ Owner(x)
  BY DEF Pay, ProviderError, Abort, CancelledInLoop, CancelledInChunks, Holding, Owner, AtProvider
<1>3. PICK p \in {"paid", "ended", "cancelled"}, d \in Nat :
         /\ Goto(x, p) /\ UNCHANGED <<request, kind, answers, callers>>
         /\ d = 0 \/ pc[x] \in AtProvider
         /\ metered' = [metered EXCEPT ![x] = metered[x] + d]
         /\ known' = [known EXCEPT ![x] = known[x] + d]
         /\ \/ ReservationSettled(request[x], known[x] + d)
            \/ /\ ReservationReleased(request[x])
               /\ p = "paid" \/ (p = "ended" /\ kind[x] = "send") => known[x] + d = 0
  <2>0. /\ metered = [metered EXCEPT ![x] = metered[x] + 0]
        /\ known = [known EXCEPT ![x] = known[x] + 0]
        /\ known[x] \in Nat /\ known[x] + 0 = known[x]
    BY <1>1
  <2>1. CASE Pay(x)
    BY <2>0, <2>1 DEF Pay, SettleFinal
  <2>2. CASE ProviderError(x, c)
    <3>1. \/ ReservationSettled(request[x], known[x] + c)
          \/ ReservationReleased(request[x]) /\ ~(known[x] + c > 0)
      BY <2>2 DEF ProviderError, SettleKnown, KnownOnError
    <3>2. ~(known[x] + c > 0) => known[x] + c = 0
      BY <2>0
    <3> QED BY <2>2, <3>1, <3>2 DEF ProviderError, Raise, Meter, KnownOnError
  <2>3. CASE Abort(x, c)
    <3>1. \/ ReservationSettled(request[x], known[x] + c)
          \/ ReservationReleased(request[x]) /\ (kind[x] = "send" => ~(known[x] + c > 0))
      BY <2>3 DEF Abort, EndOnAbort, SettleKnown, KnownOnError
    <3>2. ~(known[x] + c > 0) => known[x] + c = 0
      BY <2>0
    <3>3. c = 0 \/ pc[x] \in AtProvider
      BY <2>3 DEF Abort
    <3> QED BY <2>3, <3>1, <3>2, <3>3 DEF Abort, Raise, Meter, KnownOnError
  <2>4. CASE CancelledInLoop(x)
    BY <2>0, <2>4 DEF CancelledInLoop
  <2>5. CASE CancelledInChunks(x)
    BY <2>0, <2>5 DEF CancelledInChunks
  <2> QED BY <2>1, <2>2, <2>3, <2>4, <2>5
<1>4. PICK m \in Nat : m = known[x] + d
  BY <1>1
<1>5. metered[x] <= m /\ metered' = [metered EXCEPT ![x] = m]
  BY <1>1, <1>3, <1>4
<1>6. /\ ChargesKept({request[x]}) /\ Charged(request[x])' <= m
      /\ limit # Unlimited /\ (p = "paid" \/ (p = "ended" /\ kind[x] = "send"))
           => Charged(request[x])' = m
  <2>1. CASE ReservationSettled(request[x], m)
    <3>1. /\ ChargesKept({request[x]})
          /\ Charged(request[x])' = IF limit = Unlimited THEN 0 ELSE m
      BY <1>2, <1>3, <2>1, EndCharges
    <3> QED BY <3>1
  <2>2. CASE /\ ReservationReleased(request[x])
             /\ p = "paid" \/ (p = "ended" /\ kind[x] = "send") => m = 0
    <3>1. ChargesKept({request[x]}) /\ Charged(request[x])' = 0
      BY <1>2, <1>3, <2>2, EndCharges
    <3> QED BY <2>2, <3>1
  <2> QED BY <1>3, <1>4, <2>1, <2>2
<1>7. ChargeInv' /\ AnswerInv'
  BY <1>2, <1>3, <1>5, <1>6, ChargedAtEnd
<1>8. p \in Places /\ Owner(x)' /\ p \notin AtProvider
  BY <1>1, <1>3 DEF Places, Owner, Goto, AtProvider
<1>9. MeterInv'
  BY <1>2, <1>3, <1>8, MeterStep
<1> QED BY <1>1, <1>3, <1>7, <1>9 DEF ChargesOK

(* The answer is persisted, once, by the execution that was paid.           *)
LEMMA PersistCharges ==
  ASSUME PaidInv, NEW x \in Executions, Persist(x)
  PROVE  ChargesOK'
<1>1. /\ pc[x] = "paid" /\ pc' = [pc EXCEPT ![x] = "ended"]
      /\ pc \in [Executions -> Places] /\ answers \in [Requests -> Nat]
      /\ metered \in [Executions -> Nat]
      /\ UNCHANGED <<ledger, request, kind, known, metered, callers>>
      /\ Owner(x) /\ request[x] \in Requests
  BY DEF Persist, Goto, PaidInv, BooksInv, ChatInv, ChatShape, Ownership, MeterInv, Owner
<1>2. answers' = [answers EXCEPT ![request[x]] = @ + 1] \/ answers' = answers
  BY DEF Persist
<1>3. \A q \in Requests : Charged(q)' = Charged(q)
  <2>1. ChargesKept({})
    BY <1>1, NothingCharged
  <2> QED BY <2>1 DEF ChargesKept
<1>4. limit' = limit
  BY <1>1 DEF ledger
<1>5. \A y \in Executions :
        /\ (Owner(y) <=> Owner(y)') /\ (Holding(y) <=> Holding(y)')
        /\ Owner(y) => request[y] \in Requests
        /\ y # x => pc'[y] = pc[y]
        /\ Holding(y) \/ pc[y] \in {"paid", "ended"} => Owner(y)
  BY <1>1 DEF Owner, Holding, AtProvider, PaidInv, BooksInv, ChatInv, Ownership
<1>6. pc'[x] = "ended"
  BY <1>1
<1>7. limit # Unlimited => Charged(request[x]) = metered[x]
  BY <1>1 DEF PaidInv, ChargeInv
<1>8. answers[request[x]] = 0
  <2> SUFFICES ASSUME answers[request[x]] # 0 PROVE FALSE
    OBVIOUS
  <2>1. PICK y \in Executions : pc[y] = "ended" /\ request[y] = request[x]
    BY <1>1 DEF PaidInv, AnswerInv
  <2>2. Owner(y) /\ y # x
    BY <1>1, <2>1 DEF Owner
  <2> QED BY <1>1, <2>1, <2>2 DEF PaidInv, BooksInv, ChatInv, Ownership
<1>9. answers' \in [Requests -> Nat]
  BY <1>1, <1>2
<1>10. MeterInv'
  <2>1. \A y \in Executions : pc'[y] \in AtProvider => pc[y] \in AtProvider
    BY <1>5, <1>6 DEF AtProvider
  <2> QED BY <1>1, <1>5, <2>1 DEF PaidInv, MeterInv
<1>11. \A r \in Requests :
         (\A y \in Executions : Owner(y)' => request'[y] # r) => Charged(r)' = 0
  BY <1>1, <1>3, <1>5 DEF PaidInv, ChargeInv
<1>12. \A y \in Executions : Owner(y) => Charged(request[y])' = Charged(request[y])
  BY <1>1, <1>3, <1>5
<1>13. /\ \A y \in Executions : Holding(y)' => Charged(request[y])' = 0
       /\ \A y \in Executions : Owner(y)' => Charged(request[y])' <= metered'[y]
  BY <1>1, <1>5, <1>12 DEF PaidInv, ChargeInv
<1>14. \A y \in Executions :
        limit' # Unlimited /\ (pc'[y] = "paid" \/ (pc'[y] = "ended" /\ kind'[y] = "send"))
          => Charged(request[y])' = metered'[y]
  BY <1>1, <1>4, <1>5, <1>6, <1>7, <1>12 DEF PaidInv, ChargeInv
<1>15. ChargeInv'
  BY <1>11, <1>13, <1>14 DEF ChargeInv
<1>16. ASSUME NEW r \in Requests, answers'[r] # 0
       PROVE  /\ answers'[r] = 1
              /\ \E y \in Executions :
                   /\ pc'[y] = "ended" /\ request'[y] = r
                   /\ limit # Unlimited => Charged(r)' = metered'[y]
  <2>1. CASE r = request[x] /\ answers' = [answers EXCEPT ![request[x]] = @ + 1]
    <3>1. answers'[r] = 1
      BY <1>1, <1>8, <2>1
    <3>2. limit # Unlimited => Charged(r)' = metered'[x]
      BY <1>1, <1>3, <1>7, <2>1
    <3> QED BY <1>1, <1>6, <2>1, <3>1, <3>2
  <2>2. CASE r # request[x] \/ answers' = answers
    <3>1. answers'[r] = answers[r]
      BY <1>1, <1>2, <2>2
    <3>2. PICK y \in Executions :
             /\ answers[r] = 1
             /\ pc[y] = "ended" /\ request[y] = r
             /\ limit # Unlimited => Charged(r) = metered[y]
      BY <1>16, <3>1 DEF PaidInv, AnswerInv
    <3>3. pc'[y] = "ended"
      BY <1>1, <1>5, <3>2
    <3> QED BY <1>1, <1>3, <3>1, <3>2, <3>3
  <2> QED BY <1>2, <2>1, <2>2
<1>17. AnswerInv'
  BY <1>4, <1>16 DEF AnswerInv
<1> QED BY <1>9, <1>10, <1>15, <1>17 DEF ChargesOK

(* A step that moves no execution on, and charges nothing.                  *)
LEMMA OthersCharge ==
  ASSUME PaidInv, ChargesKept({}), UNCHANGED <<request, kind, known, metered, callers, answers>>,
         \/ UNCHANGED pc
         \/ pc' = [x \in Executions |-> IF Running(x) THEN "crashed" ELSE pc[x]]
  PROVE  ChargesOK'
<1>1. /\ pc \in [Executions -> Places] /\ metered \in [Executions -> Nat]
      /\ answers \in [Requests -> Nat]
  BY DEF PaidInv, BooksInv, ChatInv, ChatShape, MeterInv
<1>2. \A y \in Executions : pc'[y] = pc[y] \/ (Running(y) /\ pc'[y] = "crashed")
  OBVIOUS
<1>3. \A y \in Executions :
        /\ Owner(y) <=> Owner(y)'
        /\ Holding(y)' => Holding(y)
        /\ pc'[y] \in {"paid", "ended"} => pc[y] = pc'[y]
        /\ pc[y] = "ended" => pc'[y] = "ended"
        /\ pc'[y] \in AtProvider => pc[y] \in AtProvider
  BY <1>1, <1>2 DEF Owner, Holding, Running, AtProvider
<1>4. ChargeInv' /\ AnswerInv'
  BY <1>1, <1>3, NoChargeStep
<1>5. MeterInv'
  BY <1>3 DEF PaidInv, MeterInv
<1> QED BY <1>1, <1>4, <1>5 DEF ChargesOK

(* Before the first request nothing is charged, metered or answered.        *)
LEMMA InitPaidInv == InitChat => PaidInv
<1> SUFFICES ASSUME InitChat PROVE PaidInv
  OBVIOUS
<1>1. /\ known = [x \in Executions |-> 0] /\ metered = [x \in Executions |-> 0]
      /\ answers = [r \in Requests |-> 0] /\ pc = [x \in Executions |-> "new"]
  BY DEF InitChat
<1>2. BooksInv
  BY <1>1, InitChatInv, InitInv DEF InitChat, BooksInv, IInv
<1>3. \A r \in Requests : Charged(r) = 0
  BY DEF InitChat, Init, Zero, Charged
<1>4. \A x \in Executions : ~Owner(x) /\ ~Holding(x)
  BY <1>1 DEF Owner, Holding, AtProvider
<1>5. MeterInv /\ ChargeInv /\ AnswerInv
  BY <1>1, <1>3, <1>4 DEF MeterInv, ChargeInv, AnswerInv, AtProvider
<1> QED BY <1>1, <1>2, <1>5 DEF PaidInv

(* Every step keeps the account of charges and costs.                       *)
LEMMA NextPaidInv == PaidInv /\ [NextChat]_all => PaidInv'
<1> SUFFICES ASSUME PaidInv, [NextChat]_all PROVE ChargesOK'
  BY NextKeepsBooks DEF PaidInv, ChargesOK
<1>1. CASE \E x \in Executions, r \in Requests : Start(x, r)
  BY <1>1, StartCharges
<1>2. CASE \E x \in Executions : Step(x)
  <2>1. \A c \in 0..MaxCredits : c \in Nat
    BY LedgerAssumption
  <2>2. \A c \in 1..MaxCredits : c \in Nat
    BY LedgerAssumption
  <2>3. 0 \in Nat
    OBVIOUS
  <2> QED BY <1>2, <2>1, <2>2, <2>3, GoingOnCharges, EndingCharges, PersistCharges DEF Step
<1>3. CASE Crash
  <2>1. ChargesKept({})
    BY <1>3, NothingCharged DEF Crash
  <2> QED BY <1>3, <2>1, OthersCharge DEF Crash
<1>4. CASE \E r \in Requests : ReservationAges(r)
  <2>1. ChargesKept({}) /\ UNCHANGED chat
    BY <1>4, NothingCharged DEF ReservationAges
  <2> QED BY <2>1, OthersCharge DEF chat
<1>5. CASE LaterOperation
  <2>1. ChargesKept({}) /\ UNCHANGED chat
    BY <1>5, NothingCharged DEF LaterOperation, CommitExpiry
  <2> QED BY <2>1, OthersCharge DEF chat
<1>6. CASE UNCHANGED all
  <2>1. ChargesKept({}) /\ UNCHANGED chat
    BY <1>6, NothingCharged DEF all
  <2> QED BY <2>1, OthersCharge DEF chat
<1> QED BY <1>1, <1>2, <1>3, <1>4, <1>5, <1>6 DEF NextChat

(* The inductive invariant of the charges. *)
THEOREM PaidInvariance == SpecChat => []PaidInv
BY InitPaidInv, NextPaidInv, PTL DEF SpecChat

(* The owner of a request is the only one metered for it.                   *)
LEMMA MeteredByOwner ==
  ASSUME PaidInv, NEW x \in Executions, Owner(x)
  PROVE  MeteredFor(request[x]) = metered[x]
<1>1. /\ request[x] \in Requests /\ metered[x] \in Nat
      /\ callers[request[x]] \subseteq {x}
      /\ x \notin callers[request[x]] => metered[x] = 0
  BY DEF PaidInv, BooksInv, ChatInv, ChatShape, Ownership, MeterInv
<1>2. CASE callers[request[x]] = {x}
  <2>1. MeteredFor(request[x]) = Total([y \in {x} |-> metered[x]])
    BY <1>2 DEF MeteredFor
  <2> QED BY <1>1, <2>1, TotalSingle
<1>3. CASE callers[request[x]] = {}
  <2>1. MeteredFor(request[x]) = Total([y \in {} |-> 0])
    BY <1>3 DEF MeteredFor
  <2> QED BY <1>1, <1>3, <2>1, TotalZero
<1> QED BY <1>1, <1>2, <1>3

(* A request is charged at most what the provider metered for it, and a     *)
(* send that ended all of it: the settlement uses what the code knows, and  *)
(* an exception's attempts are added before.                                *)
THEOREM AlwaysChargedAsMetered == SpecChat => []ChargedAsMetered
<1>1. PaidInv => ChargedAsMetered
  <2> SUFFICES ASSUME PaidInv PROVE ChargedAsMetered
    OBVIOUS
  <2>1. ASSUME NEW r \in Requests PROVE Charged(r) <= MeteredFor(r)
    <3>1. CASE \E x \in Executions : Owner(x) /\ request[x] = r
      <4>1. PICK x \in Executions : Owner(x) /\ request[x] = r
        BY <3>1
      <4>2. MeteredFor(r) = metered[x]
        BY <4>1, MeteredByOwner
      <4> QED BY <4>1, <4>2 DEF PaidInv, ChargeInv
    <3>2. CASE \A x \in Executions : Owner(x) => request[x] # r
      <4>1. callers[r] = {}
        BY <3>2 DEF PaidInv, BooksInv, ChatInv, ChatShape, Ownership
      <4>2. MeteredFor(r) = Total([y \in {} |-> 0])
        BY <4>1 DEF MeteredFor
      <4>3. MeteredFor(r) = 0
        BY <4>2, TotalZero
      <4>4. Charged(r) = 0
        BY <3>2 DEF PaidInv, ChargeInv
      <4> QED BY <4>3, <4>4
    <3> QED BY <3>1, <3>2
  <2> QED BY <2>1 DEF ChargedAsMetered, PaidInv, ChargeInv
<1> QED BY <1>1, PaidInvariance, PTL

(* An answer is persisted at most once for a request, and only after all    *)
(* its provider calls cost was charged.                                     *)
THEOREM AlwaysAnswersArePaid == SpecChat => []AnswersArePaid
<1>1. PaidInv => AnswersArePaid
  <2> SUFFICES ASSUME PaidInv, NEW r \in Requests
               PROVE  /\ answers[r] <= 1
                      /\ limit # Unlimited /\ answers[r] = 1 => Charged(r) = MeteredFor(r)
    BY DEF AnswersArePaid
  <2>1. answers[r] <= 1
    BY DEF PaidInv, AnswerInv
  <2>2. ASSUME answers[r] = 1, limit # Unlimited PROVE Charged(r) = MeteredFor(r)
    <3>1. PICK x \in Executions :
             pc[x] = "ended" /\ request[x] = r /\ Charged(r) = metered[x]
      BY <2>2 DEF PaidInv, AnswerInv
    <3>2. MeteredFor(r) = metered[x]
      BY <3>1, MeteredByOwner DEF Owner
    <3> QED BY <3>1, <3>2
  <2> QED BY <2>1, <2>2
<1> QED BY <1>1, PaidInvariance, PTL
=============================================================================
