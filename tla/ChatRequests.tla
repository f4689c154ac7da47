---------------------------- MODULE ChatRequests ----------------------------
(***************************************************************************)
(* One AI request from its claim to its answer: ChatService.send and       *)
(* ChatService.stream (backend/app/ai/chat/chat_service.py) with the tool  *)
(* loop of ToolOrchestrator (backend/app/ai/chat/orchestrator.py), on top  *)
(* of the credit account of CreditLedger.                                  *)
(*                                                                         *)
(* An execution is one run of send or stream for a request id; the same id *)
(* is executed again by a client that retries or sends twice.  Executions  *)
(* interleave at their awaits, at the provider, in the tools and, for a    *)
(* stream, at every chunk; there a deadline, a disconnection or a provider *)
(* error ends them, and the whole process may crash anywhere.              *)
(***************************************************************************)
EXTENDS CreditLedger

CONSTANTS
  Executions,   \* runs of send or stream
  Kinds,        \* which of the two
  MaxTurns,     \* provider calls of one execution (MAX_TOOL_ITERATIONS)
  NoRequest     \* an execution not started

ASSUME ChatAssumption ==
  /\ Kinds \subseteq {"send", "stream"}
  /\ MaxTurns \in Nat \ {0}
  /\ NoRequest \notin Requests

VARIABLES
  pc,         \* where the execution stands
  request,    \* its request id
  kind,
  turns,      \* provider calls made
  known,      \* credits of the attempts the code has been told of
  metered,    \* credits the provider has metered
  callers,    \* executions that called the provider for a request
  answers     \* assistant messages persisted for a request

chat == <<pc, request, kind, turns, known, metered, callers, answers>>
all  == <<ledger, chat>>

InitChat ==
  /\ Init
  /\ pc = [x \in Executions |-> "new"]
  /\ request = [x \in Executions |-> NoRequest]
  /\ kind \in [Executions -> Kinds]
  /\ turns = [x \in Executions |-> 0]
  /\ known = [x \in Executions |-> 0]
  /\ metered = [x \in Executions |-> 0]
  /\ callers = [r \in Requests |-> {}]
  /\ answers = [r \in Requests |-> 0]

AtProvider == {"calling", "fallback"}
Running(x) == pc[x] \in AtProvider \cup {"ready", "final", "paid"}

Goto(x, place) == pc' = [pc EXCEPT ![x] = place]

-----------------------------------------------------------------------------
(* Before the provider: the quota check and the balance, which commit the  *)
(* expiry of stale reservations, then the claim.                           *)

Acquire(x, r) ==
  /\ \E e \in 1..MaxCredits : ClaimCreditReservation(r, e, FALSE)
  /\ Goto(x, "ready")

CommitExpiry ==
  \/ ReleaseStaleReservations
  \/ Stale({}) = {} /\ UNCHANGED ledger

JoinExisting(x, r) ==   \* mutant
  /\ status[r] # "none"
  /\ CommitExpiry
  /\ Goto(x, IF status'[r] = "reserved" THEN "ready" ELSE "refused")

ConflictReleases(x, r) ==   \* mutant
  /\ status[r] # "none"
  /\ IF status[r] = "reserved" THEN ReleaseTransaction(r) ELSE UNCHANGED ledger
  /\ Goto(x, "refused")

(* AIRequestConflictError: the id has a reservation, whatever its status.   *)
Conflict(x, r) ==
  /\ status[r] # "none"
  /\ CommitExpiry
  /\ Goto(x, "refused")

(* AIQuotaExceededError.                                                    *)
OverQuota(x, r) ==
  /\ \E e \in 1..MaxCredits : ~CanHold(Stale({}), e, FALSE)
  /\ CommitExpiry
  /\ Goto(x, "refused")

Start(x, r) ==
  /\ pc[x] = "new"
  /\ request' = [request EXCEPT ![x] = r]
  /\ Acquire(x, r) \/ Conflict(x, r) \/ OverQuota(x, r)
  /\ UNCHANGED <<kind, turns, known, metered, callers, answers>>

-----------------------------------------------------------------------------
(* The tool loop.  An attempt the provider reports costs a credit or more. *)

CallsLeft(x)   == turns[x] < MaxTurns

Call(x) ==
  /\ pc[x] = "ready"
  /\ CallsLeft(x)
  /\ turns' = [turns EXCEPT ![x] = @ + 1]
  /\ callers' = [callers EXCEPT ![request[x]] = @ \cup {x}]
  /\ Goto(x, "calling")
  /\ UNCHANGED <<ledger, request, kind, known, metered, answers>>

Meter(x, c) == metered' = [metered EXCEPT ![x] = @ + c]
Know(x, c)  == known' = [known EXCEPT ![x] = @ + c]

(* The provider answers, with tool calls to run or with the final result.   *)
Answer(x, c) ==
  /\ pc[x] \in AtProvider
  /\ Meter(x, c) /\ Know(x, c)
  /\ \/ Goto(x, "final")
     \/ pc[x] = "calling" /\ Goto(x, "ready")
  /\ UNCHANGED <<ledger, request, kind, turns, callers, answers>>

(* The call with tools fails and the loop calls the provider without.       *)
Fallback(x, c) ==
  /\ pc[x] = "calling"
  /\ Meter(x, c) /\ Know(x, c)
  /\ Goto(x, "fallback")
  /\ UNCHANGED <<ledger, request, kind, turns, callers, answers>>

(* After the last iteration the result is an apology.                       *)
GiveUp(x) ==
  /\ pc[x] = "ready" /\ turns[x] = MaxTurns
  /\ Goto(x, "final")
  /\ UNCHANGED <<ledger, request, kind, turns, known, metered, callers, answers>>

-----------------------------------------------------------------------------
(* The ways an execution ends.                                             *)

ReservationSettled(r, n) ==
  SettleReservation(r, n) \/ (status[r] # "reserved" /\ UNCHANGED ledger)
ReservationReleased(r) ==
  ReleaseReservation(r) \/ (status[r] # "reserved" /\ UNCHANGED ledger)

(* What an exception's attempts, added to those of the loop, come to; an    *)
(* attempt in both counts once.                                             *)
KnownOnError(x, c) == known[x] + c

SettleKnown(x, n) ==
  IF n > 0 THEN ReservationSettled(request[x], n) ELSE ReservationReleased(request[x])

(* An exception that carries c credits of attempts the loop did not count.  *)
Raise(x, c) ==
  /\ Meter(x, c)
  /\ known' = [known EXCEPT ![x] = KnownOnError(x, c)]
  /\ Goto(x, "ended")
  /\ UNCHANGED <<request, kind, turns, callers, answers>>

(* except LLMProviderError, in send and in stream.                          *)
ProviderError(x, c) ==
  /\ pc[x] \in AtProvider
  /\ SettleKnown(x, KnownOnError(x, c))
  /\ Raise(x, c)

ReleaseOnAbort(x, c) == ReservationReleased(request[x])   \* mutant
LeaveOnAbort(x, c)   == UNCHANGED ledger                  \* mutant
(* except BaseException: send settles the attempts it knows of, stream      *)
(* releases.                                                                *)
EndOnAbort(x, c) ==
  IF kind[x] = "send"
  THEN SettleKnown(x, KnownOnError(x, c))
  ELSE ReservationReleased(request[x])

(* The deadline of send or the disconnection of a stream's client, at an    *)
(* await; only a stream has one once the result is final.                   *)
Abort(x, c) ==
  /\ \/ pc[x] \in AtProvider
     \/ c = 0 /\ pc[x] = "ready"
     \/ c = 0 /\ pc[x] = "final" /\ kind[x] = "stream"
  /\ EndOnAbort(x, c)
  /\ Raise(x, c)

(* stream asks is_cancelled before a call or a tool: the cancelled result   *)
(* carries the loop's attempts and stream reads none of them.               *)
CancelledInLoop(x) ==
  /\ kind[x] = "stream" /\ pc[x] = "ready"
  /\ ReservationReleased(request[x])
  /\ Goto(x, "cancelled")
  /\ UNCHANGED <<request, kind, turns, known, metered, callers, answers>>

(* ... or between two chunks: charged, but no answer is persisted.          *)
CancelledInChunks(x) ==
  /\ kind[x] = "stream" /\ pc[x] = "final"
  /\ ReservationSettled(request[x], known[x])
  /\ Goto(x, "ended")
  /\ UNCHANGED <<request, kind, turns, known, metered, callers, answers>>

ReleaseFinal(x) == ReservationReleased(request[x])   \* mutant
SettleFinal(x)  == ReservationSettled(request[x], known[x])

(* Success: the settlement, then, in another transaction, the answer; a     *)
(* stream persists no empty one.                                            *)
Pay(x) ==
  /\ pc[x] = "final"
  /\ SettleFinal(x)
  /\ Goto(x, "paid")
  /\ UNCHANGED <<request, kind, turns, known, metered, callers, answers>>

Persist(x) ==
  /\ pc[x] = "paid"
  /\ \/ answers' = [answers EXCEPT ![request[x]] = @ + 1]
     \/ kind[x] = "stream" /\ UNCHANGED answers
  /\ Goto(x, "ended")
  /\ UNCHANGED <<ledger, request, kind, turns, known, metered, callers>>

-----------------------------------------------------------------------------
(* The process, the clock, and the other users of the account.             *)

Crash ==
  /\ \E x \in Executions : Running(x)
  /\ pc' = [x \in Executions |-> IF Running(x) THEN "crashed" ELSE pc[x]]
  /\ UNCHANGED <<ledger, request, kind, turns, known, metered, callers, answers>>

(* The TTL, a day, is longer than any execution.                            *)
ReservationAges(r) ==
  /\ \A x \in Executions : Running(x) => request[x] # r
  /\ TtlElapses(r)
  /\ UNCHANGED chat

LaterOperation == ReleaseStaleReservations /\ UNCHANGED chat

Step(x) ==
  \/ Call(x) \/ GiveUp(x) \/ Pay(x) \/ Persist(x)
  \/ \E c \in 1..MaxCredits : Answer(x, c)
  \/ \E c \in 0..MaxCredits : Fallback(x, c) \/ ProviderError(x, c) \/ Abort(x, c)
  \/ CancelledInLoop(x) \/ CancelledInChunks(x)

NextChat ==
  \/ \E x \in Executions, r \in Requests : Start(x, r)
  \/ \E x \in Executions : Step(x)
  \/ Crash
  \/ \E r \in Requests : ReservationAges(r)
  \/ LaterOperation

SpecChat == InitChat /\ [][NextChat]_all

(* The event loop runs every execution, the provider and the tools answer   *)
(* or time out, time passes, and the company goes on using its account.     *)
FairSpecChat ==
  /\ SpecChat
  /\ \A x \in Executions : WF_all(Step(x))
  /\ \A r \in Requests : WF_all(ReservationAges(r))
  /\ WF_all(LaterOperation)
-----------------------------------------------------------------------------
(* Properties.                                                             *)

Charged(r) == settled_included[r] + settled_purchased[r] + unfunded_credits[r]
MeteredFor(r) == Total([x \in callers[r] |-> metered[x]])

(* The columns and the executions have their types. *)
ChatTypeOK ==
  /\ TypeOK
  /\ pc \in [Executions -> AtProvider \cup {"new", "ready", "final", "paid", "ended",
                                         "cancelled", "refused", "crashed"}]
  /\ request \in [Executions -> Requests \cup {NoRequest}]
  /\ turns \in [Executions -> 0..MaxTurns]
  /\ known \in [Executions -> Nat] /\ metered \in [Executions -> Nat]
  /\ callers \in [Requests -> SUBSET Executions]

(* A request id reaches the provider in one execution only, whatever        *)
(* retries, duplicates, crashes, expiries and refusals there are.           *)
OneExecutionPerRequest == \A r \in Requests : Cardinality(callers[r]) <= 1

(* While an execution may still call the provider, its credits are held: no *)
(* duplicate, no expiry and no other request ends its reservation.          *)
HeldWhileRunning ==
  \A x \in Executions :
    pc[x] \in AtProvider \cup {"ready", "final"} => status[request[x]] = "reserved"

(* However an execution ends, but by a crash, it leaves no hold behind.     *)
EndedHoldsNothing ==
  \A x \in Executions : pc[x] \in {"paid", "ended", "cancelled"} => status[request[x]] # "reserved"

(* A request is never charged more than its provider calls were metered,    *)
(* and under a limit a send that ends, other than by a crash, is charged    *)
(* just that (or it is recorded as unfunded), whichever attempts an         *)
(* exception or the deadline hid from the code that settles.                *)
ChargedAsMetered ==
  /\ \A r \in Requests : Charged(r) <= MeteredFor(r)
  /\ \A x \in Executions :
       limit # Unlimited /\ pc[x] = "ended" /\ kind[x] = "send"
         => Charged(request[x]) = metered[x]

(* An answer is persisted at most once for a request, and all that the      *)
(* provider metered for one that is was charged or recorded as unfunded,    *)
(* unless the plan has no limit, when nothing is.                           *)
AnswersArePaid ==
  \A r \in Requests :
    /\ answers[r] <= 1
    /\ limit # Unlimited /\ answers[r] = 1 => Charged(r) = MeteredFor(r)

(* A stream its client leaves is released without a charge for the reason   *)
(* cancelled_without_metered_cost: the provider metered nothing.            *)
CancelledWithoutMeteredCost ==
  \A x \in Executions : pc[x] = "cancelled" => metered[x] = 0

(* No hold is leaked: a reservation ends, by its execution or, after a      *)
(* crash, by the expiry that a later operation carries out.                 *)
HoldsEnd == \A r \in Requests : []<>(status[r] # "reserved")
=============================================================================
