------------------------ MODULE CircuitBreakerProofs ------------------------
(***************************************************************************)
(* Proofs about CircuitBreaker, for every set of providers, every window   *)
(* and every configuration that Config::validate accepts.  IInv is the     *)
(* inductive invariant: a circuit is only known to be healthy because the  *)
(* windows are what the last evaluation saw, and a wait is only bounded    *)
(* because the backoff it was computed from was.                           *)
(***************************************************************************)
EXTENDS CircuitBreaker, FiniteSetTheorems, TLAPS

IInv == TypeOK /\ ClosedIsHealthy /\ FailuresAreRequests /\ BackoffBounded

-----------------------------------------------------------------------------
(* The backoff arithmetic.                                                 *)

\* Multiplying by a fraction that is at least one and truncating to whole
\* seconds never makes a TTL shorter.
LEMMA TruncationGrows ==
  ASSUME NEW b \in Nat, NEW n \in Nat, NEW d \in Nat \ {0}, n >= d
  PROVE  (b * n) \div d \in Nat /\ b <= (b * n) \div d
<1> DEFINE q == (b * n) \div d
<1>1. b * n \in Nat
  OBVIOUS
<1>2. q \in Int /\ d * q <= b * n /\ b * n < d * (q + 1)
  <2> DEFINE m == b * n
  <2>1. m \in Nat
    BY <1>1
  <2> HIDE DEF m
  <2>2. m \div d \in Int /\ d * (m \div d) <= m /\ m < d * ((m \div d) + 1)
    BY <2>1
  <2> QED
    BY <2>2 DEF m
<1> HIDE DEF q
<1>3. b * d <= b * n
  OBVIOUS
<1>4. d * b < d * (q + 1)
  BY <1>1, <1>2, <1>3
<1>5. b < q + 1
  BY <1>2, <1>4
<1>6. q \in Nat /\ b <= q
  BY <1>2, <1>5
<1> QED
  BY <1>6 DEF q

\* NextTtl lies between the previous backoff and max_ttl_secs.
LEMMA NextTtlBounds ==
  ASSUME NEW b \in Nat, b <= MaxTtl
  PROVE  NextTtl(b) \in Nat /\ b <= NextTtl(b) /\ NextTtl(b) <= MaxTtl
<1> DEFINE base == IF b = 0 THEN 1 ELSE b
<1> DEFINE grown == (base * BackoffNum) \div BackoffDen
<1>1. base \in Nat /\ b <= base
  OBVIOUS
<1> HIDE DEF base
<1>2. grown \in Nat /\ base <= grown
  BY <1>1, TruncationGrows, ConfigAssumption
<1>3. NextTtl(b) = IF grown <= MaxTtl THEN grown ELSE MaxTtl
  BY DEF NextTtl, base
<1> HIDE DEF grown
<1> QED
  BY <1>1, <1>2, <1>3, ConfigAssumption

-----------------------------------------------------------------------------
(* record_result, decomposed once for every proof below.                   *)

\* What a recorded result does: it either recovers the circuit and clears its
\* windows, or judges the circuit on windows that hold the new sample.
LEMMA RecordResultCases ==
  ASSUME TypeOK, FailuresAreRequests, NEW p \in Providers, NEW result \in CallResult,
         RecordResult(p, result)
  PROVE  \/ Recover(p, result)
         \/ \E total \in SUBSET Slots, failed \in SUBSET Slots, new \in Slots :
              /\ failed \subseteq total
              /\ \/ JudgeClosed(p, result, failed, total)
                 \/ Reopen(p, result)
                 \/ Ignore(p)
              /\ totalRequests' = [totalRequests EXCEPT ![p] = total]
              /\ failures' = [failures EXCEPT ![p] = failed]
              /\ age' = [age EXCEPT ![p][new] = 0]
<1> DEFINE kept == Prune(p, totalRequests[p])
           new == CHOOSE s \in Slots : s \notin kept
           total == kept \cup {new}
           failed == Prune(p, failures[p])
                       \cup IF result = "Success" THEN {} ELSE {new}
<1>1. kept \subseteq Slots /\ Prune(p, failures[p]) \subseteq kept
  BY DEF TypeOK, FailuresAreRequests, Prune
<1>2. Slots \ kept # {}
  BY DEF RecordResult
<1>3. new \in Slots
  BY <1>2
<1>4. \/ Recover(p, result)
      \/ /\ \/ JudgeClosed(p, result, failed, total)
            \/ Reopen(p, result)
            \/ Ignore(p)
         /\ totalRequests' = [totalRequests EXCEPT ![p] = total]
         /\ failures' = [failures EXCEPT ![p] = failed]
         /\ age' = [age EXCEPT ![p][new] = 0]
  BY DEF RecordResult
<1> HIDE DEF kept, new
<1>5. total \in SUBSET Slots /\ failed \in SUBSET Slots /\ failed \subseteq total
  BY <1>1, <1>3
<1> HIDE DEF total, failed
<1> QED
  BY <1>3, <1>4, <1>5

\* The three ways a result leaves the status of its circuit, when it does not
\* recover: unchanged, opened for the first TTL, or reopened for a longer one.
LEMMA JudgementCases ==
  ASSUME TypeOK, NEW p \in Providers, NEW result, NEW failed, NEW total,
         \/ JudgeClosed(p, result, failed, total)
         \/ Reopen(p, result)
         \/ Ignore(p)
  PROVE  \/ /\ UNCHANGED status
            /\ circuit[p] = "Closed" => ~ExceedsThreshold(failed, total)
         \/ circuit[p] = "Closed" /\ Open(p, OpenTtl)
         \/ circuit[p] = "HalfOpen" /\ Open(p, NextTtl(currentBackoff[p]))
BY DEF JudgeClosed, Reopen, Ignore

\* Empty windows exceed no threshold, not even with min_requests_in_window = 0.
LEMMA EmptyIsHealthy == ~ExceedsThreshold({}, {})
BY FS_EmptySet, ConfigAssumption DEF ExceedsThreshold

-----------------------------------------------------------------------------
LEMMA InitIInv == Init => IInv
<1> SUFFICES ASSUME Init PROVE IInv
  OBVIOUS
<1>1. TypeOK
  BY ConfigAssumption DEF Init, TypeOK, CircuitState
<1>2. ClosedIsHealthy
  BY EmptyIsHealthy DEF Init, ClosedIsHealthy
<1>3. FailuresAreRequests /\ BackoffBounded
  BY ConfigAssumption DEF Init, FailuresAreRequests, BackoffBounded
<1> QED
  BY <1>1, <1>2, <1>3 DEF IInv

LEMMA IsAvailableIInv ==
  ASSUME IInv, NEW p \in Providers, IsAvailable(p)
  PROVE  IInv'
<1>1. TypeOK'
  BY DEF IInv, TypeOK, IsAvailable, CircuitState, windows
<1>2. \A q \in Providers : circuit'[q] = "Closed" => circuit[q] = "Closed"
  BY DEF IInv, TypeOK, IsAvailable
<1>3. ClosedIsHealthy'
  BY <1>2 DEF IInv, ClosedIsHealthy, IsAvailable, windows, ExceedsThreshold
<1>4. FailuresAreRequests' /\ BackoffBounded'
  BY DEF IInv, FailuresAreRequests, BackoffBounded, IsAvailable, windows
<1> QED
  BY <1>1, <1>3, <1>4 DEF IInv

\* An age grows by a second and stops at the window's duration.
LEMMA AgeStaysInRange ==
  ASSUME NEW a \in 0..WindowDuration
  PROVE  (IF a = WindowDuration THEN WindowDuration ELSE a + 1) \in 0..WindowDuration
BY ConfigAssumption

LEMMA TickIInv ==
  ASSUME IInv, Tick
  PROVE  IInv'
<1>1. TypeOK'
  <2> USE DEF IInv, TypeOK
  <2>1. openFor' \in [Providers -> Nat]
    <3>1. \A p \in Providers : (IF openFor[p] = 0 THEN 0 ELSE openFor[p] - 1) \in Nat
      OBVIOUS
    <3> QED
      BY <3>1, Zenon DEF Tick
  <2>2. age' \in [Providers -> [Slots -> 0..WindowDuration]]
    <3>1. \A p \in Providers : \A s \in Slots :
            (IF age[p][s] = WindowDuration THEN WindowDuration ELSE age[p][s] + 1)
              \in 0..WindowDuration
      <4>1. \A p \in Providers : \A s \in Slots : age[p][s] \in 0..WindowDuration
        OBVIOUS
      <4> QED
        BY <4>1, AgeStaysInRange, Zenon
    <3> QED
      BY <3>1, Zenon DEF Tick
  <2> QED
    BY <2>1, <2>2 DEF IInv, TypeOK, Tick
<1>2. ClosedIsHealthy' /\ FailuresAreRequests'
  BY DEF IInv, ClosedIsHealthy, FailuresAreRequests, Tick, ExceedsThreshold
<1>3. BackoffBounded'
  BY DEF IInv, TypeOK, BackoffBounded, Tick
<1> QED
  BY <1>1, <1>2, <1>3 DEF IInv

LEMMA RecoverIInv ==
  ASSUME IInv, NEW p \in Providers, NEW result \in CallResult, Recover(p, result)
  PROVE  IInv'
<1>1. TypeOK'
  BY ConfigAssumption DEF IInv, TypeOK, Recover, CircuitState
<1>2. ASSUME NEW q \in Providers, circuit'[q] = "Closed"
      PROVE  ~ExceedsThreshold(failures'[q], totalRequests'[q])
  <2>1. CASE q = p
    BY <2>1, EmptyIsHealthy DEF IInv, TypeOK, Recover
  <2>2. CASE q # p
    BY <1>2, <2>2 DEF IInv, TypeOK, ClosedIsHealthy, Recover
  <2> QED
    BY <2>1, <2>2
<1>3. ClosedIsHealthy'
  BY <1>2 DEF ClosedIsHealthy, ExceedsThreshold
<1>4. FailuresAreRequests'
  BY DEF IInv, TypeOK, FailuresAreRequests, Recover
<1>5. BackoffBounded'
  BY ConfigAssumption DEF IInv, TypeOK, BackoffBounded, Recover
<1> QED
  BY <1>1, <1>3, <1>4, <1>5 DEF IInv

LEMMA RecordIInv ==
  ASSUME IInv, NEW p \in Providers, NEW result \in CallResult, RecordResult(p, result)
  PROVE  IInv'
<1>1. CASE Recover(p, result)
  BY <1>1, RecoverIInv
<1>2. ASSUME NEW total \in SUBSET Slots, NEW failed \in SUBSET Slots, NEW new \in Slots,
             failed \subseteq total,
             \/ JudgeClosed(p, result, failed, total)
             \/ Reopen(p, result)
             \/ Ignore(p),
             totalRequests' = [totalRequests EXCEPT ![p] = total],
             failures' = [failures EXCEPT ![p] = failed],
             age' = [age EXCEPT ![p][new] = 0]
      PROVE  IInv'
  <2> USE DEF IInv
  <2>1. PICK ttl \in {OpenTtl, NextTtl(currentBackoff[p])} :
          \/ /\ UNCHANGED status
             /\ circuit[p] = "Closed" => ~ExceedsThreshold(failed, total)
          \/ Open(p, ttl)
    BY <1>2, JudgementCases
  <2>2. ttl \in Nat /\ OpenTtl <= ttl /\ ttl <= MaxTtl
    BY NextTtlBounds, ConfigAssumption DEF TypeOK, BackoffBounded
  <2>3. age' \in [Providers -> [Slots -> 0..WindowDuration]]
    BY <1>2, ConfigAssumption DEF TypeOK
  <2>4. TypeOK'
    BY <1>2, <2>1, <2>2, <2>3 DEF TypeOK, status, Open, CircuitState
  <2>5. ASSUME NEW q \in Providers, circuit'[q] = "Closed"
        PROVE  ~ExceedsThreshold(failures'[q], totalRequests'[q])
    <3>1. CASE q = p
      BY <1>2, <2>1, <2>5, <3>1 DEF TypeOK, status, Open
    <3>2. CASE q # p
      BY <1>2, <2>1, <2>5, <3>2 DEF TypeOK, ClosedIsHealthy, status, Open
    <3> QED
      BY <3>1, <3>2
  <2>6. ClosedIsHealthy'
    BY <2>5 DEF ClosedIsHealthy, ExceedsThreshold
  <2>7. FailuresAreRequests'
    BY <1>2 DEF TypeOK, FailuresAreRequests
  <2>8. BackoffBounded'
    BY <2>1, <2>2 DEF TypeOK, BackoffBounded, status, Open
  <2> QED
    BY <2>4, <2>6, <2>7, <2>8
<1>3. TypeOK /\ FailuresAreRequests
  BY DEF IInv
<1> QED
  BY <1>1, <1>2, <1>3, RecordResultCases, SMTT(30)

LEMMA NextIInv == IInv /\ [Next]_vars => IInv'
<1> SUFFICES ASSUME IInv, [Next]_vars PROVE IInv'
  OBVIOUS
<1>1. ASSUME NEW p \in Providers, IsAvailable(p) PROVE IInv'
  BY <1>1, IsAvailableIInv
<1>2. ASSUME NEW p \in Providers, NEW result \in CallResult, RecordResult(p, result)
      PROVE  IInv'
  BY <1>2, RecordIInv
<1>3. CASE Tick
  BY <1>3, TickIInv
<1>4. CASE UNCHANGED vars
  BY <1>4 DEF vars, IInv, TypeOK, ClosedIsHealthy, FailuresAreRequests,
              BackoffBounded, ExceedsThreshold
<1> QED
  BY <1>1, <1>2, <1>3, <1>4 DEF Next

\* The inductive invariant holds in every state of the breaker.
THEOREM Invariance == Spec => []IInv
BY InitIInv, NextIInv, PTL DEF Spec

\* Every variable keeps its type: windows hold slots, waits are whole seconds.
THEOREM TypeCorrect == Spec => []TypeOK
<1>1. IInv => TypeOK
  BY DEF IInv
<1> QED
  BY <1>1, Invariance, PTL

\* No circuit is ever closed over a window that exceeds the threshold.
THEOREM ClosedHealth == Spec => []ClosedIsHealthy
<1>1. IInv => ClosedIsHealthy
  BY DEF IInv
<1> QED
  BY <1>1, Invariance, PTL

\* Failures are always among the requests they are measured against.
THEOREM WindowsAgree == Spec => []FailuresAreRequests
<1>1. IInv => FailuresAreRequests
  BY DEF IInv
<1> QED
  BY <1>1, Invariance, PTL

\* Waits are bounded by max_ttl_secs whatever the backoff factor.
THEOREM BackoffBound == Spec => []BackoffBounded
<1>1. IInv => BackoffBounded
  BY DEF IInv
<1> QED
  BY <1>1, Invariance, PTL

-----------------------------------------------------------------------------
(* What opens a circuit.                                                   *)

\* Right after a result is recorded, both windows hold young samples only.
LEMMA RecordedSamplesAreYoung ==
  ASSUME TypeOK, NEW p \in Providers, NEW result \in CallResult,
         RecordResult(p, result), circuit[p] = "Closed", circuit'[p] = "Open",
         result # "RateLimited"
  PROVE  /\ ExceedsThreshold(failures'[p], totalRequests'[p])
         /\ \A s \in totalRequests'[p] : age'[p][s] < WindowDuration
         /\ \A s \in failures'[p] : age'[p][s] < WindowDuration
<1> DEFINE kept == Prune(p, totalRequests[p])
           keptFailed == Prune(p, failures[p])
           new == CHOOSE s \in Slots : s \notin kept
           total == kept \cup {new}
           failed == keptFailed \cup IF result = "Success" THEN {} ELSE {new}
<1>1. ~Recover(p, result) /\ ~Reopen(p, result) /\ ~Ignore(p)
  BY DEF Recover, Reopen, Ignore
<1>2. /\ Slots \ kept # {}
      /\ JudgeClosed(p, result, failed, total)
      /\ totalRequests' = [totalRequests EXCEPT ![p] = total]
      /\ failures' = [failures EXCEPT ![p] = failed]
      /\ age' = [age EXCEPT ![p][new] = 0]
  BY <1>1 DEF RecordResult
<1>3. new \in Slots
  BY <1>2
<1>4. /\ kept \subseteq Slots /\ keptFailed \subseteq Slots
      /\ \A s \in kept \cup keptFailed : age[p][s] < WindowDuration
  BY DEF TypeOK, Prune
<1> HIDE DEF kept, keptFailed, new
<1>5. \A s \in Slots : age'[p][s] = IF s = new THEN 0 ELSE age[p][s]
  BY <1>2, <1>3 DEF TypeOK
<1>6. \A s \in kept \cup keptFailed \cup {new} : age'[p][s] < WindowDuration
  BY <1>3, <1>4, <1>5, ConfigAssumption
<1>7. totalRequests'[p] = total /\ failures'[p] = failed
  BY <1>2 DEF TypeOK
<1>8. ExceedsThreshold(failed, total)
  BY <1>2 DEF JudgeClosed, status
<1> QED
  BY <1>6, <1>7, <1>8

\* Only a 429, or enough failures younger than the window, open a closed
\* circuit.
THEOREM OpensOnEvidence == Spec => OpensOnlyOnEvidence
<1> DEFINE Evidence ==
      \A p \in Providers, result \in CallResult \ {"RateLimited"} :
        RecordResult(p, result) /\ circuit[p] = "Closed" /\ circuit'[p] = "Open" =>
          LET young(w) == Cardinality({s \in w : age'[p][s] < WindowDuration})
          IN /\ young(totalRequests'[p]) >= MinRequests
             /\ young(failures'[p]) * 100 > FailureThreshold * young(totalRequests'[p])
<1>1. TypeOK => Evidence
  <2> SUFFICES ASSUME TypeOK, NEW p \in Providers,
                      NEW result \in CallResult \ {"RateLimited"},
                      RecordResult(p, result), circuit[p] = "Closed", circuit'[p] = "Open"
               PROVE  LET young(w) == Cardinality({s \in w : age'[p][s] < WindowDuration})
                      IN /\ young(totalRequests'[p]) >= MinRequests
                         /\ young(failures'[p]) * 100
                              > FailureThreshold * young(totalRequests'[p])
    OBVIOUS
  <2>1. /\ ExceedsThreshold(failures'[p], totalRequests'[p])
        /\ \A s \in totalRequests'[p] : age'[p][s] < WindowDuration
        /\ \A s \in failures'[p] : age'[p][s] < WindowDuration
    BY RecordedSamplesAreYoung
  <2>2. /\ {s \in totalRequests'[p] : age'[p][s] < WindowDuration} = totalRequests'[p]
        /\ {s \in failures'[p] : age'[p][s] < WindowDuration} = failures'[p]
    BY <2>1
  <2> QED
    BY <2>1, <2>2 DEF ExceedsThreshold
<1>2. [][Evidence]_vars <=> OpensOnlyOnEvidence
  BY DEF OpensOnlyOnEvidence
<1> HIDE DEF Evidence
<1> QED
  BY <1>1, <1>2, TypeCorrect, PTL DEF Spec

-----------------------------------------------------------------------------
(* The breaker implements the gate.                                        *)

LEMMA StepKeepsGate ==
  ASSUME IInv, [Next]_vars
  PROVE  [Gate!GateNext]_(Gate!gateVars)
<1> USE DEF Gate!gateVars
<1>1. ASSUME NEW p \in Providers, IsAvailable(p)
      PROVE  [Gate!GateNext]_(Gate!gateVars)
  <2>1. CASE circuit[p] = "Open" /\ openFor[p] = 0
    <3>1. Gate!Trial(p)
      BY <1>1, <2>1 DEF IsAvailable, Gate!Trial
    <3> QED
      BY <3>1 DEF Gate!GateNext
  <2>2. CASE ~(circuit[p] = "Open" /\ openFor[p] = 0)
    BY <1>1, <2>2 DEF IsAvailable, IInv, TypeOK
  <2> QED
    BY <2>1, <2>2
<1>2. ASSUME NEW p \in Providers, NEW result \in CallResult, RecordResult(p, result)
      PROVE  [Gate!GateNext]_(Gate!gateVars)
  <2>1. CASE Recover(p, result)
    <3>1. Gate!Accept(p)
      BY <2>1 DEF Recover, Gate!Accept
    <3> QED
      BY <3>1 DEF Gate!GateNext
  <2>2. CASE UNCHANGED status
    BY <2>2 DEF status
  <2>3. CASE circuit[p] = "Closed" /\ Open(p, OpenTtl)
    <3>1. Gate!FirstCutOff(p)
      BY <2>3 DEF Open, Gate!FirstCutOff, Gate!CutOff
    <3> QED
      BY <3>1 DEF Gate!GateNext
  <2>4. CASE circuit[p] = "HalfOpen" /\ Open(p, NextTtl(currentBackoff[p]))
    <3>1. NextTtl(currentBackoff[p]) \in currentBackoff[p]..MaxTtl
      BY NextTtlBounds, ConfigAssumption DEF IInv, TypeOK, BackoffBounded
    <3>2. Gate!FailedTrial(p)
      BY <2>4, <3>1 DEF Open, Gate!FailedTrial, Gate!CutOff
    <3> QED
      BY <3>2 DEF Gate!GateNext
  <2>5. TypeOK /\ FailuresAreRequests
    BY DEF IInv
  <2> QED
    BY <1>2, <2>1, <2>2, <2>3, <2>4, <2>5, RecordResultCases, JudgementCases
<1>3. CASE Tick
  <2>1. Gate!PassTime
    BY <1>3 DEF Tick, Gate!PassTime
  <2> QED
    BY <2>1 DEF Gate!GateNext
<1>4. CASE UNCHANGED vars
  BY <1>4 DEF vars
<1> QED
  BY <1>1, <1>2, <1>3, <1>4 DEF Next

\* The breaker keeps every promise of ProviderGate: waits are neither cut short
\* nor extended, grow from one failed probe to the next, and only a probe ends
\* them.
THEOREM GateKept == Spec => KeepsGate
<1>1. Init => Gate!GateInit
  BY DEF Init, Gate!GateInit
<1>2. IInv /\ [Next]_vars => [Gate!GateNext]_(Gate!gateVars)
  BY StepKeepsGate
<1>3. KeepsGate <=> Gate!GateSpec
  BY DEF KeepsGate
<1> QED
  BY <1>1, <1>2, <1>3, Invariance, PTL DEF Spec, Gate!GateSpec
=============================================================================
