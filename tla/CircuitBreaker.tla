--------------------------- MODULE CircuitBreaker ---------------------------
(***************************************************************************)
(* LocalCircuitBreaker of src/src/circuit_breaker.rs: one circuit per      *)
(* provider, decided from two sliding windows of recorded results, opened  *)
(* with an exponentially growing TTL and probed again when that expires.   *)
(*                                                                         *)
(* is_available and record_result each hold the write lock from their      *)
(* first to their last statement, so each is one action.                   *)
(*                                                                         *)
(* Instants are kept relative to the present, in seconds: `until` is the   *)
(* time left (openFor), a sample is known by its age.  Ages stop at        *)
(* WindowDuration: from there on every record_result prunes the sample, so *)
(* older samples are indistinguishable.  A Vec<Instant> is a set of slots: *)
(* the code never reads the order of the samples, only their number.  The  *)
(* sample a result pushes on both Vecs occupies the same slot in both.     *)
(***************************************************************************)
EXTENDS Integers, FiniteSets

CONSTANTS Providers,          \* provider names, the keys of `states`
          Slots,              \* places for samples: the bound on a window's length
          WindowDuration,     \* window_duration_secs
          MinRequests,        \* min_requests_in_window
          FailureThreshold,   \* failure_threshold_percent
          OpenTtl,            \* open_ttl_secs
          MaxTtl,             \* max_ttl_secs
          BackoffNum,         \* backoff_factor, as the fraction
          BackoffDen          \*   BackoffNum / BackoffDen

\* What Config::validate accepts.
ASSUME ConfigAssumption ==
  /\ WindowDuration \in Nat \ {0}
  /\ MinRequests \in Nat
  /\ FailureThreshold \in 1..100
  /\ OpenTtl \in Nat \ {0}
  /\ MaxTtl \in Nat /\ MaxTtl >= OpenTtl
  /\ BackoffNum \in Nat \ {0} /\ BackoffDen \in Nat \ {0}
  /\ BackoffNum >= BackoffDen

VARIABLES circuit,          \* CircuitState of each provider
          openFor,          \* seconds until `until`, 0 once it has passed
          currentBackoff,   \* current_backoff; Open's backoff_ttl always equals it
          totalRequests,    \* slots of the samples in total_requests
          failures,         \* slots of the samples in failures
          age               \* seconds since the sample in a slot was recorded

vars == <<circuit, openFor, currentBackoff, totalRequests, failures, age>>
status == <<circuit, openFor, currentBackoff>>
windows == <<totalRequests, failures, age>>

CircuitState == {"Closed", "Open", "HalfOpen"}
CallResult == {"Success", "Failure", "RateLimited", "Timeout"}

TypeOK ==
  /\ circuit \in [Providers -> CircuitState]
  /\ openFor \in [Providers -> Nat]
  /\ currentBackoff \in [Providers -> Nat]
  /\ totalRequests \in [Providers -> SUBSET Slots]
  /\ failures \in [Providers -> SUBSET Slots]
  /\ age \in [Providers -> [Slots -> 0..WindowDuration]]

-----------------------------------------------------------------------------
\* A provider without an entry behaves as ProviderState::new: the entry that
\* both operations insert on first use is there from the start.
Init ==
  /\ circuit = [p \in Providers |-> "Closed"]
  /\ openFor = [p \in Providers |-> 0]
  /\ currentBackoff = [p \in Providers |-> OpenTtl]
  /\ totalRequests = [p \in Providers |-> {}]
  /\ failures = [p \in Providers |-> {}]
  /\ age = [p \in Providers |-> [s \in Slots |-> WindowDuration]]

\* Fault: the cutoff is never strictly before a sample, so nothing is pruned.
PruneInclusive(p, samples) == {s \in samples : age[p][s] <= WindowDuration}

\* prune_window: `retain(|t| *t > now - window)`.
Prune(p, samples) == {s \in samples : age[p][s] < WindowDuration}

\* The answer is_available gives.
Available(p) == circuit[p] = "Open" => openFor[p] = 0

\* Fault: the answer is given but the transition is not stored.
IsAvailableReadOnly(p) == p \in Providers /\ UNCHANGED vars

\* is_available: an expired Open turns HalfOpen, whoever asks.
IsAvailable(p) ==
  /\ circuit' = [circuit EXCEPT ![p] =
                   IF @ = "Open" /\ openFor[p] = 0 THEN "HalfOpen" ELSE @]
  /\ UNCHANGED <<openFor, currentBackoff, windows>>

\* The window is full enough and its failure rate strictly above the threshold.
ExceedsThreshold(failed, total) ==
  /\ Cardinality(total) >= MinRequests
  /\ Cardinality(failed) * 100 > FailureThreshold * Cardinality(total)

\* Fault: the cap of max_ttl_secs is forgotten.
NextTtlUncapped(backoff) ==
  ((IF backoff = 0 THEN 1 ELSE backoff) * BackoffNum) \div BackoffDen

\* The TTL of a re-opening: whole seconds, truncated, capped.
NextTtl(backoff) ==
  LET base == IF backoff = 0 THEN 1 ELSE backoff
      grown == (base * BackoffNum) \div BackoffDen
  IN IF grown <= MaxTtl THEN grown ELSE MaxTtl

Open(p, ttl) ==
  /\ circuit' = [circuit EXCEPT ![p] = "Open"]
  /\ openFor' = [openFor EXCEPT ![p] = ttl]
  /\ currentBackoff' = [currentBackoff EXCEPT ![p] = ttl]

\* Fault: the threshold is evaluated for failures only.
JudgeFailuresOnly(p, result, failed, total) ==
  /\ circuit[p] = "Closed"
  /\ IF result = "RateLimited" \/ (result # "Success" /\ ExceedsThreshold(failed, total))
       THEN Open(p, OpenTtl)
       ELSE UNCHANGED status

\* record_result in state Closed: a 429 opens at once, anything else when the
\* window it has just entered exceeds the threshold (a success as well).
JudgeClosed(p, result, failed, total) ==
  /\ circuit[p] = "Closed"
  /\ IF result = "RateLimited" \/ ExceedsThreshold(failed, total)
       THEN Open(p, OpenTtl)
       ELSE UNCHANGED status

\* record_result in state HalfOpen, for anything but a success.
Reopen(p, result) ==
  /\ circuit[p] = "HalfOpen" /\ result # "Success"
  /\ Open(p, NextTtl(currentBackoff[p]))

\* Fault: a late result re-arms the TTL.
RearmOpen(p) == circuit[p] = "Open" /\ Open(p, currentBackoff[p])

\* record_result in state Open: the result only enters the windows.
Ignore(p) == circuit[p] = "Open" /\ UNCHANGED status

\* Fault: only one of the two windows is cleared.
RecoverRequestsOnly(p, result) ==
  /\ circuit[p] = "HalfOpen" /\ result = "Success"
  /\ circuit' = [circuit EXCEPT ![p] = "Closed"]
  /\ currentBackoff' = [currentBackoff EXCEPT ![p] = OpenTtl]
  /\ totalRequests' = [totalRequests EXCEPT ![p] = {}]
  /\ UNCHANGED <<openFor, failures, age>>

\* record_result in state HalfOpen, for a success: both windows are cleared.
Recover(p, result) ==
  /\ circuit[p] = "HalfOpen" /\ result = "Success"
  /\ circuit' = [circuit EXCEPT ![p] = "Closed"]
  /\ currentBackoff' = [currentBackoff EXCEPT ![p] = OpenTtl]
  /\ totalRequests' = [totalRequests EXCEPT ![p] = {}]
  /\ failures' = [failures EXCEPT ![p] = {}]
  /\ age' = [age EXCEPT ![p] = [s \in Slots |-> WindowDuration]]
  /\ UNCHANGED openFor

\* record_result.  The sample takes any free slot; a window of as many samples
\* as Slots takes no more (the bound of the model: the Vec has none).
RecordResult(p, result) ==
  LET kept == Prune(p, totalRequests[p])
      new == CHOOSE s \in Slots : s \notin kept
      total == kept \cup {new}
      failed == Prune(p, failures[p]) \cup IF result = "Success" THEN {} ELSE {new}
  IN /\ Slots \ kept # {}
     /\ \/ Recover(p, result)
        \/ /\ \/ JudgeClosed(p, result, failed, total)
              \/ Reopen(p, result)
              \/ Ignore(p)
           /\ totalRequests' = [totalRequests EXCEPT ![p] = total]
           /\ failures' = [failures EXCEPT ![p] = failed]
           /\ age' = [age EXCEPT ![p][new] = 0]

\* Fault: the time left runs on below zero.
TickPastDeadline ==
  /\ openFor' = [p \in Providers |-> openFor[p] - 1]
  /\ age' = [p \in Providers |-> [s \in Slots |->
               IF age[p][s] = WindowDuration THEN WindowDuration ELSE age[p][s] + 1]]
  /\ UNCHANGED <<circuit, currentBackoff, totalRequests, failures>>

\* One second of Instant::now(), which every provider shares.
Tick ==
  /\ openFor' = [p \in Providers |-> IF openFor[p] = 0 THEN 0 ELSE openFor[p] - 1]
  /\ age' = [p \in Providers |-> [s \in Slots |->
               IF age[p][s] = WindowDuration THEN WindowDuration ELSE age[p][s] + 1]]
  /\ UNCHANGED <<circuit, currentBackoff, totalRequests, failures>>

Next ==
  \/ \E p \in Providers : IsAvailable(p)
  \/ \E p \in Providers, result \in CallResult : RecordResult(p, result)
  \/ Tick

Spec == Init /\ [][Next]_vars

\* The clock advances, results keep coming in and every provider keeps being
\* asked for: what traffic does to the breaker.
Fairness ==
  /\ WF_vars(Tick)
  /\ \A p \in Providers : WF_vars(IsAvailable(p))

FairSpec == Spec /\ Fairness

-----------------------------------------------------------------------------
(* Properties.                                                             *)

\* A closed circuit is never one whose window already exceeds the threshold:
\* no result slips by the evaluation, and recovery leaves no failure behind
\* without the requests it is measured against.
ClosedIsHealthy ==
  \A p \in Providers :
    circuit[p] = "Closed" => ~ExceedsThreshold(failures[p], totalRequests[p])

\* Every sample that counts as a failure counts as a request, so a rate is
\* never above 100%, however the two windows are pruned, refilled and cleared.
FailuresAreRequests ==
  \A p \in Providers : failures[p] \subseteq totalRequests[p]

\* The backoff stays between open_ttl_secs and max_ttl_secs over any number of
\* failed probes, no provider is cut off for longer than that, and none that is
\* not open still has a wait running.
BackoffBounded ==
  \A p \in Providers :
    /\ OpenTtl <= currentBackoff[p] /\ currentBackoff[p] <= MaxTtl
    /\ openFor[p] <= currentBackoff[p]
    /\ circuit[p] # "Open" => openFor[p] = 0

\* A result other than a 429 opens a closed circuit only on the evidence of the
\* samples younger than the window: enough of them, too many failed.  What
\* happened before the window never opens it.
OpensOnlyOnEvidence ==
  [][\A p \in Providers, result \in CallResult \ {"RateLimited"} :
       RecordResult(p, result) /\ circuit[p] = "Closed" /\ circuit'[p] = "Open" =>
         LET young(w) == Cardinality({s \in w : age'[p][s] < WindowDuration})
         IN /\ young(totalRequests'[p]) >= MinRequests
            /\ young(failures'[p]) * 100 > FailureThreshold * young(totalRequests'[p])
    ]_vars

Gate == INSTANCE ProviderGate
          WITH phase <- circuit, left <- openFor, wait <- currentBackoff

\* The breaker implements the gate: whatever the windows hold and in whatever
\* order checks and late results come, a wait is never cut short or extended,
\* never shrinks from one failed probe to the next, and only a probe ends it.
KeepsGate == Gate!GateSpec

\* An open circuit is eventually probed, whatever late results arrive in the
\* meantime: they never push `until` back.
OpenIsProbed == \A p \in Providers : circuit[p] = "Open" ~> circuit[p] = "HalfOpen"

\* A provider that from some time on only answers well, and goes on answering,
\* ends up closed for good: old failures can re-open it for a while, never
\* again and again.
HealsForGood ==
  \A p \in Providers :
    /\ <>[][\A result \in CallResult \ {"Success"} : ~RecordResult(p, result)]_vars
    /\ []<><<RecordResult(p, "Success")>>_vars
    => <>[](circuit[p] = "Closed")
=============================================================================
