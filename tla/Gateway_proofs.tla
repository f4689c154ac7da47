---------------------------- MODULE Gateway_proofs ----------------------------
(***************************************************************************)
(* Theorems of Gateway, for any number of calls, candidates and retries    *)
(* and any threshold.                                                      *)
(***************************************************************************)
EXTENDS Gateway, FiniteSetTheorems, TLAPS

(* The types the arguments need, and that a call at a provider stands at one *)
(* of its candidates.                                                       *)
CallShape ==
  /\ pc \in [Calls -> Places] /\ kind \in [Calls -> Kinds] /\ emitted \in [Calls -> BOOLEAN]
  /\ made \in [Calls -> Nat] /\ reported \in [Calls -> Nat]
  /\ texts \in [Calls -> SUBSET Nat]
  /\ attempts \in [Calls -> Seq(Providers \X BOOLEAN)]
  /\ order \in [Calls -> Ranking] /\ turn \in [Calls -> Nat]
  /\ \A c \in Calls : pc[c] \in {"calling", "waiting"} => Candidate(c) \in Providers

(* Content received comes from the attempt in progress, which is marked, or *)
(* from the last attempt of a call that ended: none is left behind by an    *)
(* attempt that is retried or failed over.                                  *)
TextOfOneAttempt ==
  \A c \in Calls :
    /\ texts[c] \subseteq {made[c]}
    /\ pc[c] \in {"new", "choosing", "waiting"} => texts[c] = {}
    /\ pc[c] = "calling" /\ texts[c] # {} => emitted[c]

(* A call has recorded every attempt it made but the one at the provider,   *)
(* or the last, when an exception of another kind ended it.                 *)
AllRecorded ==
  \A c \in Calls :
    made[c] = Len(attempts[c]) + IF pc[c] \in {"calling"} \cup Escaped THEN 1 ELSE 0

CallInv == CallShape /\ TextOfOneAttempt /\ AllRecorded /\ AttemptsReported

(* A candidate's count never exceeds its streak, which an open circuit has  *)
(* kept at the threshold.                                                   *)
BreakerInv ==
  /\ failures \in [Providers -> 0..Threshold]
  /\ streak \in [Providers -> 0..Threshold]
  /\ circuit \in [Providers -> {"closed", "open", "cooled"}]
  /\ \A p \in Providers : failures[p] <= streak[p]
  /\ OpensAfterStreak

-----------------------------------------------------------------------------
(* The candidate a call chooses is one of the providers.                   *)
LEMMA Chosen ==
  ASSUME CallShape, NEW c \in Calls, Choosing(c)
  PROVE  Candidate(c) \in Providers
<1>1. order[c] \in [1..Cardinality(Providers) -> Providers]
  BY DEF CallShape, Ranking
<1>2. turn[c] \in 1..Cardinality(Providers)
  BY <1>1 DEF Choosing
<1>3. QED
  BY <1>1, <1>2 DEF Candidate

LEMMA CountsStayCounts ==
  ASSUME NEW f \in [Calls -> Nat], NEW c \in Calls, NEW n \in Nat
  PROVE  [f EXCEPT ![c] = n] \in [Calls -> Nat]
OBVIOUS

(* A step of a call keeps the types.                                       *)
LEMMA ShapeKept ==
  ASSUME CallShape, NEW c \in Calls, Step(c)
  PROVE  CallShape'
<1> USE DEF CallShape, Goto, Places, Ends, Escaped, Candidate
<1>1. CASE Begin(c)
  BY <1>1 DEF Begin
<1>2. CASE Skip(c)
  BY <1>2 DEF Skip, Choosing
<1>3. CASE Try(c)
  BY <1>3, Chosen DEF Try, Choosing, Attempt
<1>4. CASE Retry(c)
  BY <1>4 DEF Retry, Attempt
<1>5. CASE Emit(c)
  BY <1>5 DEF Emit
<1>6. ASSUME NEW ok \in BOOLEAN, Record(c, ok), pc[c] = "calling"
      PROVE  /\ attempts' \in [Calls -> Seq(Providers \X BOOLEAN)]
             /\ Len(attempts[c]) \in Nat
  BY <1>6 DEF Record
<1>7. CASE Succeed(c)
  <2>1. attempts' \in [Calls -> Seq(Providers \X BOOLEAN)] /\ Len(attempts[c]) \in Nat
    BY <1>7, <1>6 DEF Succeed
  <2>2. reported' \in [Calls -> Nat]
    BY <1>7, <2>1 DEF Succeed, Report
  <2>3. texts' \in [Calls -> SUBSET Nat]
    BY <1>7 DEF Succeed
  <2>4. QED
    BY <1>7, <2>1, <2>2, <2>3 DEF Succeed
<1>8. CASE Unpriced(c) \/ Unsupported(c)
  <2>1. KnownOnEscape(c) \in Nat
    BY DEF KnownOnEscape
  <2>2. reported' \in [Calls -> Nat]
    BY <1>8, <2>1, CountsStayCounts DEF Unpriced, Unsupported, Report
  <2>3. QED
    BY <1>8, <2>2 DEF Unpriced, Unsupported
<1>9. CASE Fail(c)
  <2>1. attempts' \in [Calls -> Seq(Providers \X BOOLEAN)] /\ Len(attempts[c]) \in Nat
    BY <1>9, <1>6 DEF Fail
  <2>2. reported' \in [Calls -> Nat]
    <3>1. UNCHANGED reported \/ reported' = [reported EXCEPT ![c] = Len(attempts[c]) + 1]
      BY <1>9 DEF Fail, Report, KnownOnRaise
    <3>2. Len(attempts[c]) + 1 \in Nat
      BY <2>1
    <3>3. QED
      BY <3>1, <3>2, CountsStayCounts
  <2>3. turn' \in [Calls -> Nat]
    <3>1. UNCHANGED turn \/ turn' = [turn EXCEPT ![c] = @ + 1]
      BY <1>9 DEF Fail
    <3>2. turn \in [Calls -> Nat] /\ turn[c] + 1 \in Nat
      OBVIOUS
    <3>3. QED
      BY <3>1, <3>2, CountsStayCounts
  <2>4. QED
    BY <1>9, <2>1, <2>2, <2>3 DEF Fail
<1>10. CASE Unavailable(c) \/ Cancel(c)
  <2>1. Len(attempts[c]) \in Nat /\ KnownOnEscape(c) \in Nat
    BY DEF KnownOnEscape
  <2>2. reported' \in [Calls -> Nat]
    BY <1>10, <2>1, CountsStayCounts DEF Unavailable, Cancel, Report
  <2>3. QED
    BY <1>10, <2>2 DEF Unavailable, Cancel
<1>11. QED
  BY <1>1, <1>2, <1>3, <1>4, <1>5, <1>7, <1>8, <1>9, <1>10, Step(c) DEF Step

(* A step of a call keeps the text one attempt's.                          *)
LEMMA TextKept ==
  ASSUME CallShape, TextOfOneAttempt, NEW c \in Calls, Step(c)
  PROVE  TextOfOneAttempt'
<1> USE DEF CallShape, TextOfOneAttempt, Goto
<1>1. CASE Begin(c) \/ Skip(c)
  BY <1>1 DEF Begin, Skip, Choosing
<1>2. CASE Try(c) \/ Retry(c)
  BY <1>2 DEF Try, Retry, Choosing, Attempt
<1>3. CASE Emit(c) \/ Succeed(c)
  <2>1. texts'[c] \subseteq {made[c]} /\ \A d \in Calls \ {c} : texts'[d] = texts[d]
    <3>1. texts' = [texts EXCEPT ![c] = @ \cup {made[c]}]
      BY <1>3 DEF Emit, Succeed
    <3>2. QED
      BY <3>1
  <2>2. QED
    BY <1>3, <2>1 DEF Emit, Succeed
<1>4. CASE Unpriced(c) \/ Unsupported(c) \/ Unavailable(c) \/ Cancel(c)
  BY <1>4 DEF Unpriced, Unsupported, Unavailable, Cancel
<1>5. CASE Fail(c)
  BY <1>5 DEF Fail, MustRaise
<1>6. QED
  BY <1>1, <1>2, <1>3, <1>4, <1>5, Step(c) DEF Step

(* What an action records or reports, it records or reports of one call.    *)
LEMMA RecordsOne ==
  ASSUME CallShape, NEW c \in Calls, NEW ok \in BOOLEAN, Record(c, ok), pc[c] = "calling"
  PROVE  /\ Len(attempts'[c]) = Len(attempts[c]) + 1
         /\ \A d \in Calls \ {c} : attempts'[d] = attempts[d]
BY DEF CallShape, Record

(* A step of a call records the attempt that ends.                          *)
LEMMA RecordKept ==
  ASSUME CallShape, AllRecorded, NEW c \in Calls, Step(c)
  PROVE  AllRecorded'
<1> DEFINE Pending(at) == IF at \in {"calling"} \cup Escaped THEN 1 ELSE 0
           Old(d) == made[d] = Len(attempts[d]) + Pending(pc[d])
<1>0. /\ \A d \in Calls : Old(d) /\ made[d] \in Nat /\ Len(attempts[d]) \in Nat
      /\ pc \in [Calls -> Places] /\ made \in [Calls -> Nat]
  BY DEF AllRecorded, CallShape
<1>1. CASE Begin(c) \/ Skip(c) \/ Emit(c)
  BY <1>0, <1>1 DEF AllRecorded, Goto, Escaped, Begin, Skip, Choosing, Emit
<1>2. CASE Try(c) \/ Retry(c)
  <2>1. /\ made' = [made EXCEPT ![c] = @ + 1] /\ pc' = [pc EXCEPT ![c] = "calling"]
        /\ UNCHANGED attempts /\ pc[c] \in {"choosing", "waiting"}
    BY <1>2 DEF Try, Retry, Choosing, Attempt, Goto
  <2>2. made'[c] = Len(attempts'[c]) + Pending(pc'[c])
    <3>1. made[c] = Len(attempts[c])
      <4>1. pc[c] \notin {"calling"} \cup Escaped
        BY <2>1 DEF Escaped
      <4>2. made[c] = Len(attempts[c]) + Pending(pc[c]) /\ Len(attempts[c]) \in Nat
        BY <1>0
      <4>3. QED
        BY <4>1, <4>2
    <3>2. made'[c] = made[c] + 1 /\ pc'[c] = "calling" /\ attempts'[c] = attempts[c]
      BY <1>0, <2>1
    <3>3. QED
      BY <3>1, <3>2
  <2>3. ASSUME NEW d \in Calls \ {c} PROVE made'[d] = Len(attempts'[d]) + Pending(pc'[d])
    <3>1. made'[d] = made[d] /\ pc'[d] = pc[d] /\ attempts'[d] = attempts[d]
      BY <1>0, <2>1
    <3>2. QED
      BY <1>0, <3>1
  <2>4. QED
    BY <2>2, <2>3 DEF AllRecorded
<1>3. CASE Succeed(c) \/ Fail(c)
  <2>1. /\ pc[c] = "calling" /\ UNCHANGED made
        /\ \E to \in Places \ ({"calling"} \cup Escaped) : pc' = [pc EXCEPT ![c] = to]
        /\ Record(c, TRUE) \/ Record(c, FALSE)
    BY <1>3 DEF Succeed, Fail, Goto, Places, Ends, Escaped
  <2>2. /\ Len(attempts'[c]) = Len(attempts[c]) + 1
        /\ \A d \in Calls \ {c} : attempts'[d] = attempts[d]
    BY <2>1, RecordsOne
  <2>3. made'[c] = Len(attempts'[c]) + Pending(pc'[c])
    <3>1. made[c] = Len(attempts[c]) + 1 /\ made'[c] = made[c]
      BY <1>0, <2>1
    <3>2. pc'[c] \notin {"calling"} \cup Escaped
      BY <1>0, <2>1
    <3>3. QED
      BY <1>0, <2>2, <3>1, <3>2
  <2>4. ASSUME NEW d \in Calls \ {c} PROVE made'[d] = Len(attempts'[d]) + Pending(pc'[d])
    <3>1. made'[d] = made[d] /\ pc'[d] = pc[d] /\ attempts'[d] = attempts[d]
      BY <1>0, <2>1, <2>2
    <3>2. QED
      BY <1>0, <3>1
  <2>5. QED
    BY <2>3, <2>4 DEF AllRecorded
<1>4. CASE Unpriced(c) \/ Unsupported(c) \/ Unavailable(c) \/ Cancel(c)
  BY <1>0, <1>4
     DEF AllRecorded, Goto, Escaped, Unpriced, Unsupported, Unavailable, Cancel
<1>6. QED
  BY <1>1, <1>2, <1>3, <1>4, Step(c) DEF Step

(* A step of a call keeps its report complete.                             *)
LEMMA ReportKept ==
  ASSUME CallShape, AllRecorded, AttemptsReported, NEW c \in Calls, Step(c)
  PROVE  AttemptsReported'
<1> USE DEF CallShape, AllRecorded, AttemptsReported, Escaped, Goto
<1>1. CASE Begin(c) \/ Skip(c) \/ Emit(c)
  BY <1>1 DEF Begin, Skip, Choosing, Emit
<1>2. CASE Try(c) \/ Retry(c)
  BY <1>2 DEF Try, Retry, Choosing, Attempt
<1>3. CASE Succeed(c)
  BY <1>3 DEF Succeed, Report
<1>4. CASE Fail(c)
  BY <1>4 DEF Fail, Report, KnownOnRaise
<1>5. CASE Unpriced(c) \/ Unsupported(c)
  BY <1>5 DEF Unpriced, Unsupported, Report, KnownOnEscape
<1>6. CASE Unavailable(c)
  BY <1>6 DEF Unavailable, Report
<1>7. CASE Cancel(c)
  BY <1>7 DEF Cancel, Report, KnownOnEscape
<1>8. QED
  BY <1>1, <1>2, <1>3, <1>4, <1>5, <1>6, <1>7, Step(c) DEF Step

-----------------------------------------------------------------------------
(* The breaker: what a candidate's count and circuit become.               *)
LEMMA BreakerKept ==
  ASSUME BreakerInv, NEW p \in Providers,
         AskOpen(p) \/ RecordSuccess(p) \/ RecordFailure(p) \/ CooldownElapses(p)
  PROVE  BreakerInv'
<1> USE GatewayAssumption DEF BreakerInv, OpensAfterStreak
<1>1. CASE AskOpen(p)
  BY <1>1 DEF AskOpen, breaker
<1>2. CASE RecordSuccess(p)
  BY <1>2 DEF RecordSuccess
<1>3. CASE RecordFailure(p)
  <2>1. /\ failures' = [failures EXCEPT ![p] = AtMost(failures[p] + 1, Threshold)]
        /\ streak' = [streak EXCEPT ![p] = AtMost(streak[p] + 1, Threshold)]
        /\ circuit' = [circuit EXCEPT ![p] =
                         IF failures'[p] = Threshold /\ circuit[p] = "closed" THEN "open"
                         ELSE circuit[p]]
    BY <1>3 DEF RecordFailure
  <2>2. /\ AtMost(failures[p] + 1, Threshold) \in 0..Threshold
        /\ AtMost(streak[p] + 1, Threshold) \in 0..Threshold
        /\ AtMost(failures[p] + 1, Threshold) <= AtMost(streak[p] + 1, Threshold)
        /\ streak[p] = Threshold => AtMost(streak[p] + 1, Threshold) = Threshold
    BY DEF AtMost
  <2>3. circuit'[p] = "open" => streak'[p] = Threshold
    BY <2>1, <2>2
  <2>4. QED
    BY <2>1, <2>2, <2>3
<1>4. CASE CooldownElapses(p)
  BY <1>4 DEF CooldownElapses
<1>5. QED
  BY <1>1, <1>2, <1>3, <1>4

(* A step of a call does to the breaker one of these things, or none.      *)
LEMMA BreakerMoves ==
  ASSUME CallShape, NEW c \in Calls, Step(c)
  PROVE  \/ UNCHANGED breaker
         \/ \E p \in Providers : AskOpen(p) \/ RecordSuccess(p) \/ RecordFailure(p)
<1>1. pc[c] = "calling" => Candidate(c) \in Providers
  BY DEF CallShape
<1>2. CASE Try(c)
  BY <1>2, Chosen DEF Try
<1>3. CASE Succeed(c) \/ Unpriced(c) \/ Fail(c)
  BY <1>1, <1>3 DEF Succeed, Unpriced, Fail
<1>4. CASE \/ Begin(c) \/ Skip(c) \/ Retry(c) \/ Emit(c) \/ Unsupported(c)
           \/ Unavailable(c) \/ Cancel(c)
  BY <1>4 DEF Begin, Skip, Retry, Emit, Unsupported, Unavailable, Cancel
<1>5. QED
  BY <1>2, <1>3, <1>4, Step(c) DEF Step

LEMMA CallsTyped == Spec => [](CallInv /\ BreakerInv)
<1>1. Init => CallInv /\ BreakerInv
  <2>1. ASSUME Init PROVE CallShape
    BY <2>1 DEF Init, CallShape, Places
  <2>2. ASSUME Init PROVE TextOfOneAttempt /\ AllRecorded /\ AttemptsReported
    BY <2>2 DEF Init, TextOfOneAttempt, AllRecorded, AttemptsReported, Escaped
  <2>3. ASSUME Init PROVE BreakerInv
    BY <2>3, GatewayAssumption DEF Init, BreakerInv, OpensAfterStreak
  <2>4. QED
    BY <2>1, <2>2, <2>3 DEF CallInv
<1>2. ASSUME CallInv, BreakerInv, [Next]_vars
      PROVE  CallInv' /\ BreakerInv'
  <2>1. CASE UNCHANGED vars
    <3>1. CallInv'
      BY <1>2, <2>1 DEF CallInv, CallShape, TextOfOneAttempt, AllRecorded,
                        AttemptsReported, Candidate, vars, call, breaker
    <3>2. BreakerInv'
      BY <1>2, <2>1 DEF BreakerInv, OpensAfterStreak, vars, breaker
    <3>3. QED
      BY <3>1, <3>2
  <2>2. ASSUME NEW c \in Calls, Step(c)
        PROVE  CallInv' /\ BreakerInv'
    <3>1. CallInv'
      BY <1>2, <2>2, ShapeKept, TextKept, RecordKept, ReportKept DEF CallInv
    <3>2. CASE UNCHANGED breaker
      BY <1>2, <3>1, <3>2 DEF BreakerInv, OpensAfterStreak, breaker
    <3>3. CASE \E p \in Providers : AskOpen(p) \/ RecordSuccess(p) \/ RecordFailure(p)
      BY <1>2, <3>1, <3>3, BreakerKept
    <3>4. QED
      BY <1>2, <2>2, <3>2, <3>3, BreakerMoves DEF CallInv
  <2>3. ASSUME NEW p \in Providers, CooldownElapses(p)
        PROVE  CallInv' /\ BreakerInv'
    <3>1. CallInv'
      BY <1>2, <2>3 DEF CallInv, CallShape, TextOfOneAttempt, AllRecorded,
                        AttemptsReported, Candidate, CooldownElapses, call
    <3>2. BreakerInv'
      BY <1>2, <2>3, BreakerKept
    <3>3. QED
      BY <3>1, <3>2
  <2>4. QED
    BY <1>2, <2>1, <2>2, <2>3 DEF Next
<1>3. QED
  BY <1>1, <1>2, PTL DEF Spec

-----------------------------------------------------------------------------
(* The text a caller receives is of one attempt, however many candidates   *)
(* and retries a call has (the emitted test of stream_events).             *)
THEOREM OneVoiceAlways == Spec => []OneVoice
<1>1. ASSUME CallInv PROVE OneVoice
  <2>1. ASSUME NEW c \in Calls PROVE Cardinality(texts[c]) <= 1
    <3>1. texts[c] = {} \/ texts[c] = {made[c]}
      BY <1>1 DEF CallInv, TextOfOneAttempt
    <3>2. Cardinality({}) = 0 /\ Cardinality({made[c]}) = 1
      BY FS_EmptySet, FS_Singleton
    <3>3. QED
      BY <3>1, <3>2
  <2>2. QED
    BY <2>1 DEF OneVoice
<1>2. QED
  BY <1>1, CallsTyped, PTL

(* A call that ended has reported every attempt it made, the last excepted *)
(* when it was unpriced, unsupported or interrupted (_run, and             *)
(* stream_events unless it is cancelled or unpriced).                      *)
THEOREM EveryAttemptReported == Spec => []AttemptsReported
<1>1. CallInv => AttemptsReported
  BY DEF CallInv
<1>2. QED
  BY <1>1, CallsTyped, PTL

(* A circuit opens for its own candidate's consecutive failures, whatever  *)
(* the calls in parallel do (record_failure, record_success, is_open).     *)
THEOREM OpenOnlyAfterStreak == Spec => []OpensAfterStreak
<1>1. BreakerInv => OpensAfterStreak
  BY DEF BreakerInv
<1>2. QED
  BY <1>1, CallsTyped, PTL
=============================================================================
