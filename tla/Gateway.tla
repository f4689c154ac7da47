------------------------------- MODULE Gateway -------------------------------
(***************************************************************************)
(* AvenqoAIGateway (backend/app/ai/llm/gateway.py): calls that retry a     *)
(* candidate and fail over to the next, and the circuit breaker they share *)
(* (circuit_breaker.py).  The calls of the process interleave at the       *)
(* provider, between the chunks of a stream and while a retry waits.       *)
(***************************************************************************)
EXTENDS Naturals, FiniteSets, Sequences

CONSTANTS
  Calls,       \* calls of the gateway
  Kinds,       \* "run", an operation of _run, or "stream", stream_events
  Providers,   \* candidates
  Threshold,   \* failure_threshold
  MaxRetries   \* max_retries of every candidate

ASSUME GatewayAssumption ==
  /\ Kinds \subseteq {"run", "stream"}
  /\ IsFiniteSet(Providers) /\ Providers # {}
  /\ Threshold \in Nat \ {0} /\ MaxRetries \in Nat

Ranking == {o \in [1..Cardinality(Providers) -> Providers] :
              \A i, j \in DOMAIN o : o[i] = o[j] => i = j}

VARIABLES
  pc,        \* where a call stands
  kind,
  order,     \* the candidates as the router ranked them for the call
  turn,      \* the place in order of the candidate it is at
  retry,     \* retry_index
  emitted,   \* the attempt in progress has emitted content
  made,      \* attempts begun
  attempts,  \* attempts recorded: the candidate and whether it succeeded
  reported,  \* what the call's result or exception carries of them
  texts,     \* attempts whose content the caller has received
  failures,  \* consecutive_failures of a candidate
  circuit,   \* "closed", "open", or "cooled": open for cooldown_seconds
  streak     \* its failures since its last success, resets apart

call    == <<pc, kind, order, turn, retry, emitted, made, attempts, reported, texts>>
breaker == <<failures, circuit, streak>>
vars    == <<call, breaker>>

Init ==
  /\ pc = [c \in Calls |-> "new"]
  /\ kind \in [Calls -> Kinds]
  /\ order \in [Calls -> Ranking]
  /\ turn = [c \in Calls |-> 1]
  /\ retry = [c \in Calls |-> 0]
  /\ emitted = [c \in Calls |-> FALSE]
  /\ made = [c \in Calls |-> 0]
  /\ attempts = [c \in Calls |-> <<>>]
  /\ reported = [c \in Calls |-> 0]
  /\ texts = [c \in Calls |-> {}]
  /\ failures = [p \in Providers |-> 0]
  /\ circuit = [p \in Providers |-> "closed"]
  /\ streak = [p \in Providers |-> 0]

Candidate(c) == order[c][turn[c]]
Goto(c, place) == pc' = [pc EXCEPT ![c] = place]

-----------------------------------------------------------------------------
(* The circuit breaker.                                                    *)

CooldownElapses(p) ==
  /\ circuit[p] = "open"
  /\ circuit' = [circuit EXCEPT ![p] = "cooled"]
  /\ UNCHANGED <<call, failures, streak>>

(* is_open of a cooled circuit closes it and forgets its failures.          *)
AskOpen(p) ==
  IF circuit[p] = "cooled"
  THEN /\ circuit' = [circuit EXCEPT ![p] = "closed"]
       /\ failures' = [failures EXCEPT ![p] = 0]
       /\ UNCHANGED streak
  ELSE UNCHANGED breaker

SuccessKeepsCount(p) ==   \* mutant
  /\ circuit' = [circuit EXCEPT ![p] = "closed"]
  /\ streak' = [streak EXCEPT ![p] = 0]
  /\ UNCHANGED failures
RecordSuccess(p) ==
  /\ circuit' = [circuit EXCEPT ![p] = "closed"]
  /\ failures' = [failures EXCEPT ![p] = 0]
  /\ streak' = [streak EXCEPT ![p] = 0]

(* record_failure; a circuit that is open keeps its time.                   *)
AtMost(n, bound) == IF n < bound THEN n ELSE bound
RecordFailure(p) ==
  /\ failures' = [failures EXCEPT ![p] = AtMost(@ + 1, Threshold)]
  /\ streak' = [streak EXCEPT ![p] = AtMost(@ + 1, Threshold)]
  /\ circuit' = [circuit EXCEPT ![p] =
                   IF failures'[p] = Threshold /\ @ = "closed" THEN "open" ELSE @]

-----------------------------------------------------------------------------
(* A call moves through its candidates.                                    *)

Begin(c) ==
  /\ pc[c] = "new"
  /\ Goto(c, "choosing")
  /\ UNCHANGED <<kind, order, turn, retry, emitted, made, attempts, reported, texts, breaker>>

Choosing(c) == pc[c] = "choosing" /\ turn[c] \in DOMAIN order[c]

SkipInPlace(c) ==   \* mutant
  Choosing(c) /\ circuit[Candidate(c)] = "open" /\ UNCHANGED vars
Skip(c) ==
  /\ Choosing(c) /\ circuit[Candidate(c)] = "open"
  /\ turn' = [turn EXCEPT ![c] = @ + 1]
  /\ UNCHANGED <<pc, kind, order, retry, emitted, made, attempts, reported, texts, breaker>>

Attempt(c) ==
  /\ made' = [made EXCEPT ![c] = @ + 1]
  /\ emitted' = [emitted EXCEPT ![c] = FALSE]
  /\ Goto(c, "calling")

Try(c) ==
  /\ Choosing(c) /\ circuit[Candidate(c)] # "open"
  /\ AskOpen(Candidate(c))
  /\ retry' = [retry EXCEPT ![c] = 0]
  /\ Attempt(c)
  /\ UNCHANGED <<kind, order, turn, attempts, reported, texts>>

(* After the delay the attempt is made without asking the breaker again.    *)
Retry(c) ==
  /\ pc[c] = "waiting"
  /\ retry' = [retry EXCEPT ![c] = @ + 1]
  /\ Attempt(c)
  /\ UNCHANGED <<kind, order, turn, attempts, reported, texts, breaker>>

Record(c, ok) ==
  attempts' = [attempts EXCEPT ![c] = Append(@, <<Candidate(c), ok>>)]

(* The attempts reach the caller, with the result or with the exception.    *)
Report(c, n) == reported' = [reported EXCEPT ![c] = n]

Emit(c) ==
  /\ pc[c] = "calling" /\ kind[c] = "stream"
  /\ emitted' = [emitted EXCEPT ![c] = TRUE]
  /\ texts' = [texts EXCEPT ![c] = @ \cup {made[c]}]
  /\ UNCHANGED <<pc, kind, order, turn, retry, made, attempts, reported, breaker>>

Succeed(c) ==
  /\ pc[c] = "calling"
  /\ RecordSuccess(Candidate(c))
  /\ Record(c, TRUE)
  /\ Report(c, Len(attempts[c]) + 1)
  /\ texts' = [texts EXCEPT ![c] = @ \cup {made[c]}]
  /\ Goto(c, "done")
  /\ UNCHANGED <<kind, order, turn, retry, emitted, made>>

(* What the caller learns of the attempts recorded when an exception of     *)
(* another kind passes: only _run has except BaseException.                 *)
KnownOnEscape(c) == IF kind[c] = "run" THEN Len(attempts[c]) ELSE 0

(* The usage of the answer or of the failure, or its price, is refused once *)
(* the breaker has it: a ValueError, and the attempt is not recorded.       *)
Unpriced(c) ==
  /\ pc[c] = "calling"
  /\ RecordSuccess(Candidate(c)) \/ RecordFailure(Candidate(c))
  /\ Report(c, KnownOnEscape(c))
  /\ Goto(c, "unpriced")
  /\ UNCHANGED <<kind, order, turn, retry, emitted, made, attempts, texts>>

(* ToolCallingUnsupportedError, before anything is sent: _run ends.         *)
Unsupported(c) ==
  /\ pc[c] = "calling" /\ kind[c] = "run"
  /\ Report(c, KnownOnEscape(c))
  /\ Goto(c, "unsupported")
  /\ UNCHANGED <<kind, order, turn, retry, emitted, made, attempts, texts, breaker>>

RaiseUnlessEligible(c, eligible) == ~eligible   \* mutant
(* A stream that has emitted content never falls back.                      *)
MustRaise(c, eligible) == emitted[c] \/ ~eligible

RetriesLeft(c) == retry[c] < MaxRetries

ForgetEarlier(c) == 1                         \* mutant
KnownOnRaise(c) == Len(attempts[c]) + 1

(* except LLMProviderError, whose category decides.                         *)
Fail(c) ==
  /\ pc[c] = "calling"
  /\ RecordFailure(Candidate(c))
  /\ Record(c, FALSE)
  /\ \/ /\ \E eligible \in BOOLEAN : MustRaise(c, eligible)
        /\ Report(c, KnownOnRaise(c))
        /\ Goto(c, "raised")
        /\ UNCHANGED turn
     \/ /\ ~MustRaise(c, TRUE) /\ RetriesLeft(c)
        /\ Goto(c, "waiting")
        /\ UNCHANGED <<turn, reported>>
     \/ /\ ~MustRaise(c, TRUE)
        /\ turn' = [turn EXCEPT ![c] = @ + 1]
        /\ Goto(c, "choosing")
        /\ UNCHANGED reported
  /\ UNCHANGED <<kind, order, retry, emitted, made, texts>>

(* AIProvidersUnavailableError: no candidate is left.                       *)
Unavailable(c) ==
  /\ pc[c] = "choosing" /\ turn[c] \notin DOMAIN order[c]
  /\ Report(c, Len(attempts[c]))
  /\ Goto(c, "unavailable")
  /\ UNCHANGED <<kind, order, turn, retry, emitted, made, attempts, texts, breaker>>

(* A deadline or a disconnection, at the provider or during a delay.        *)
Cancel(c) ==
  /\ \/ pc[c] = "calling" /\ Goto(c, "interrupted")
     \/ pc[c] = "waiting" /\ Goto(c, "cancelled")
  /\ Report(c, KnownOnEscape(c))
  /\ UNCHANGED <<kind, order, turn, retry, emitted, made, attempts, texts, breaker>>

Step(c) ==
  \/ Begin(c) \/ Skip(c) \/ Try(c) \/ Retry(c) \/ Emit(c) \/ Succeed(c)
  \/ Unpriced(c) \/ Unsupported(c) \/ Fail(c) \/ Unavailable(c) \/ Cancel(c)

Next == (\E c \in Calls : Step(c)) \/ \E p \in Providers : CooldownElapses(p)

Spec == Init /\ [][Next]_vars

(* The event loop runs every call and a provider answers or times out.      *)
FairSpec ==
  /\ Spec
  /\ \A c \in Calls :
       /\ WF_vars(Begin(c) \/ Skip(c) \/ Try(c) \/ Retry(c) \/ Unavailable(c))
       /\ WF_vars(Succeed(c) \/ Unpriced(c) \/ Unsupported(c) \/ Fail(c))
-----------------------------------------------------------------------------
(* Properties.                                                             *)

Escaped == {"unpriced", "unsupported", "interrupted"}
Ends    == {"done", "raised", "unavailable", "cancelled"} \cup Escaped
Places  == {"new", "choosing", "calling", "waiting"} \cup Ends
Ended(c) == pc[c] \in Ends
MostAttempts == Cardinality(Providers) * (MaxRetries + 1)

(* The calls and the breaker have their types, and a call makes no more     *)
(* attempts than its candidates and their retries allow.                    *)
GatewayTypeOK ==
  /\ pc \in [Calls -> Places] /\ kind \in [Calls -> Kinds] /\ order \in [Calls -> Ranking]
  /\ turn \in [Calls -> 1..(Cardinality(Providers) + 1)]
  /\ retry \in [Calls -> 0..MaxRetries] /\ emitted \in [Calls -> BOOLEAN]
  /\ made \in [Calls -> 0..MostAttempts] /\ reported \in [Calls -> 0..MostAttempts]
  /\ \A c \in Calls : Len(attempts[c]) <= made[c] /\ texts[c] \subseteq 1..MostAttempts
  /\ failures \in [Providers -> 0..Threshold] /\ streak \in [Providers -> 0..Threshold]
  /\ circuit \in [Providers -> {"closed", "open", "cooled"}]

(* What a caller receives comes from one attempt: no retry or failover adds *)
(* to the text of another.                                                  *)
OneVoice == \A c \in Calls : Cardinality(texts[c]) <= 1

(* Every attempt a call made, with its cost, is in its result or exception, *)
(* however many candidates and retries it took.  Excepted are the last one, *)
(* when it is refused as unpriced or unsupported or is interrupted at the   *)
(* provider, and all those of a stream that is unpriced or cancelled.       *)
AttemptsReported ==
  \A c \in Calls :
    /\ pc[c] \in {"done", "raised", "unavailable"} => reported[c] = made[c]
    /\ kind[c] = "run" /\ pc[c] = "cancelled" => reported[c] = made[c]
    /\ kind[c] = "run" /\ pc[c] \in Escaped => reported[c] = made[c] - 1

(* A circuit is open for the candidate's own consecutive failures only,     *)
(* whatever the calls in parallel: "Après failure_threshold échecs          *)
(* consécutifs pour un fournisseur".                                        *)
OpensAfterStreak == \A p \in Providers : circuit[p] = "open" => streak[p] = Threshold

(* Every call ends, with a result or an exception.                          *)
CallsEnd == \A c \in Calls : []<>(pc[c] = "new" \/ Ended(c))
=============================================================================
