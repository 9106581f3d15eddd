----------------------------- MODULE LlmAdapter -----------------------------
(***************************************************************************)
(* The LLM adapter of crates/milona-adapter as milona-presenter wires it:  *)
(*                                                                         *)
(*   BudgetedLlmProvider<RetryingLlmProvider<MockLlmProvider>>             *)
(*                                                                         *)
(* Concurrent tasks (one per request being served) share the provider, its *)
(* call counter and the per-tenant usage map.  The budget is read under    *)
(* one lock and charged under another; between the two the task calls the  *)
(* provider and, after a failure, sleeps for the backoff of retry.rs.      *)
(* A task can be interrupted between any two locked sections, and can be   *)
(* dropped (its client gone) only where it is suspended, in the sleep.     *)
(***************************************************************************)
EXTENDS Integers, FiniteSets, FiniteSetsExt

CONSTANTS
  Tasks,            \* the requests that can be in progress together
  Tenants,
  PerTenantBudget,  \* budgets set by with_tenant_budget: a partial map
  DefaultBudget,    \* the budget of every other tenant
  Spends,           \* what one answer may cost (input_tokens + output_tokens)
  MaxSpend,         \* an upper bound of Spends
  Configs,          \* how the stack is built, and which methods its callers use
  LongestSleep,     \* the longest Duration there is
  Scale,            \* what each multiplier makes of each Duration
  CallCap,          \* call_count is not distinguished above this bound
  ConsumedCap       \* bound on what unmetered callers consume of a tenant

ASSUME TasksAssumption == IsFiniteSet(Tasks)

ASSUME BudgetAssumption ==
  /\ DOMAIN PerTenantBudget \subseteq Tenants
  /\ \A t \in DOMAIN PerTenantBudget : PerTenantBudget[t] \in Nat
  /\ DefaultBudget \in Nat

ASSUME ProviderAssumption ==
  /\ MaxSpend \in Nat
  /\ Spends \subseteq 0..MaxSpend
  /\ CallCap \in Nat
  /\ ConsumedCap \in Nat

(* A product that no Duration can hold: from_secs_f64 panics on it.        *)
Beyond == LongestSleep + 1

(* A multiplier is any f64, which stands here for the function it is:      *)
(* Scale[m] takes a Duration d to from_secs_f64((d.as_secs_f64() * m)      *)
(* .max(0.0)), rounded to the Durations there are.  Rounding keeps the     *)
(* order, max(0.0) makes the zero function of a negative multiplier and of *)
(* NaN, and zero stays zero (an infinite multiplier makes NaN of it, and   *)
(* max(0.0) zero).                                                         *)
ASSUME ScaleAssumption ==
  /\ LongestSleep \in Nat
  /\ \A m \in DOMAIN Scale :
       /\ Scale[m] \in [0..LongestSleep -> 0..Beyond]
       /\ Scale[m][0] = 0
       /\ \A a, b \in 0..LongestSleep : a <= b => Scale[m][a] <= Scale[m][b]

(* `failures` is the argument of FailNTimesThenSucceed.                    *)
ASSUME ConfigAssumption ==
  \A cfg \in Configs :
    /\ cfg.behavior \in {"AlwaysSucceed", "FailNTimesThenSucceed", "AlwaysFail"}
    /\ cfg.failures \in Nat /\ CallCap > cfg.failures
    /\ cfg.max_attempts \in Nat
    /\ cfg.initial_backoff \in 0..LongestSleep
    /\ cfg.backoff_multiplier \in DOMAIN Scale
    /\ cfg.max_backoff \in 0..LongestSleep
    /\ cfg.entry_points \subseteq {"complete", "complete_for_tenant"}

VARIABLES
  config,      \* what the stack was built with; never changes
  pc,          \* where each task is in its completion call
  tenant,      \* the tenant the task's request belongs to
  entry,       \* the method the task called
  attempt,     \* the loop variable of retry.rs
  backoff,     \* its current backoff
  spent,       \* the cost of an answer that is not charged yet
  usage,       \* BudgetedLlmProvider.usage
  call_count,  \* MockLlmProvider.call_count, up to CallCap
  consumed,    \* history: what the provider has produced for each tenant
  calls        \* history: provider calls made by the task's current request

vars == <<config, pc, tenant, entry, attempt, backoff, spent,
          usage, call_count, consumed, calls>>

MaxAttempts == config.max_attempts
InitialBackoff == config.initial_backoff
BackoffMultiplier == config.backoff_multiplier
MaxBackoff == config.max_backoff
Behavior == config.behavior
Failures == config.failures
EntryPoints == config.entry_points

Resting == {"idle", "ok", "exceeded", "failed", "panicked"}
Working == {"check", "call", "sleep", "charge"}

Smaller(a, b) == IF a < b THEN a ELSE b

Goto(c, label) == pc' = [pc EXCEPT ![c] = label]

-----------------------------------------------------------------------------
(* BudgetedLlmProvider: the tenant's limit and the admission test.         *)

budget_for(t) ==
  IF t \in DOMAIN PerTenantBudget THEN PerTenantBudget[t] ELSE DefaultBudget

\* Mutants: `>` for `>=`; the per-tenant override forgotten.
HasBudgetLeft_Inclusive(t) == usage[t] <= budget_for(t)
HasBudgetLeft_NoOverride(t) == usage[t] < DefaultBudget

HasBudgetLeft(t) == usage[t] < budget_for(t)

\* Mutant: the entry replaced instead of added to.
UsageAfter_Insert(used, s) == s

(* `*entry += spent`.                                                      *)
UsageAfter(used, s) == used + s

(* The requests of a tenant that are past the budget check (or went round  *)
(* it) and have not been charged: each may still raise the usage.          *)
InFlight(t) == {c \in Tasks : tenant[c] = t /\ pc[c] \in {"call", "sleep", "charge"}}

-----------------------------------------------------------------------------
(* RetryingLlmProvider: the attempts and their backoff.                    *)

\* Mutants: `1..max_attempts`; a loop that tests its bound at the end.
AttemptsLeft_Exclusive(a) == a < MaxAttempts
AttemptsLeft_DoWhile(a) == TRUE

AttemptsLeft(a) == a <= MaxAttempts

\* Mutant: one sleep, and one more round of the loop, after the last failure.
RetryAfter_Inclusive(a) == a <= MaxAttempts

RetryAfter(a) == a < MaxAttempts

(* Duration b multiplied by m; what is out of range stays out of range.    *)
Product(m, b) == IF b = Beyond THEN Beyond ELSE Scale[m][b]

Scaled(b) == Product(BackoffMultiplier, b)

\* Mutant: the cap applied before the multiplication.
NextBackoff_CapFirst(b) == Scaled(Smaller(b, MaxBackoff))

NextBackoff(b) == Smaller(Scaled(b), MaxBackoff)

-----------------------------------------------------------------------------
(* MockLlmProvider: which of its calls fail.                               *)

ShouldFail(call_number) ==
  \/ Behavior = "AlwaysFail"
  \/ Behavior = "FailNTimesThenSucceed" /\ call_number <= Failures

CallNumber == Smaller(call_count + 1, CallCap)

-----------------------------------------------------------------------------
Init ==
  /\ config \in Configs
  /\ pc = [c \in Tasks |-> "idle"]
  /\ tenant \in [Tasks -> Tenants]
  /\ entry \in [Tasks -> EntryPoints]
  /\ attempt = [c \in Tasks |-> 1]
  /\ backoff = [c \in Tasks |-> InitialBackoff]
  /\ spent = [c \in Tasks |-> 0]
  /\ usage = [t \in Tenants |-> 0]
  /\ call_count = 0
  /\ consumed = [t \in Tenants |-> 0]
  /\ calls = [c \in Tasks |-> 0]

(* A request arrives for tenant t and calls one of the two entry points.   *)
(* `complete` forwards to the retry wrapper at once: no budget is read.    *)
Start(c) ==
  /\ pc[c] \in Resting
  /\ \E t \in Tenants, e \in EntryPoints :
       /\ e = "complete" => consumed[t] < ConsumedCap
       /\ tenant' = [tenant EXCEPT ![c] = t]
       /\ entry' = [entry EXCEPT ![c] = e]
       /\ Goto(c, IF e = "complete" THEN "call" ELSE "check")
  /\ attempt' = [attempt EXCEPT ![c] = 1]
  /\ backoff' = [backoff EXCEPT ![c] = InitialBackoff]
  /\ calls' = [calls EXCEPT ![c] = 0]
  /\ UNCHANGED <<spent, usage, call_count, consumed>>

(* complete_for_tenant, first locked section: admitted or Exceeded.        *)
CheckBudget(c) ==
  /\ pc[c] = "check"
  /\ Goto(c, IF HasBudgetLeft(tenant[c]) THEN "call" ELSE "exceeded")
  /\ UNCHANGED <<tenant, entry, attempt, backoff, spent,
                 usage, call_count, consumed, calls>>

(* An attempt the provider answers.  A metered request still has to be     *)
(* charged; an unmetered one is done.                                      *)
AttemptSucceeds(c) ==
  /\ pc[c] = "call"
  /\ AttemptsLeft(attempt[c])
  /\ ~ShouldFail(CallNumber)
  /\ call_count' = CallNumber
  /\ calls' = [calls EXCEPT ![c] = @ + 1]
  /\ \E s \in Spends :
       /\ consumed' = [consumed EXCEPT ![tenant[c]] = @ + s]
       /\ spent' = [spent EXCEPT ![c] =
                      IF entry[c] = "complete_for_tenant" THEN s ELSE 0]
  /\ Goto(c, IF entry[c] = "complete_for_tenant" THEN "charge" ELSE "ok")
  /\ UNCHANGED <<tenant, entry, attempt, backoff, usage>>

(* An attempt that fails: sleep when another one is left and the backoff   *)
(* is not zero, go on at once when it is zero (its multiple is zero as     *)
(* well), give up after the last.                                          *)
AttemptFails(c) ==
  /\ pc[c] = "call"
  /\ AttemptsLeft(attempt[c])
  /\ ShouldFail(CallNumber)
  /\ call_count' = CallNumber
  /\ calls' = [calls EXCEPT ![c] = @ + 1]
  /\ \/ /\ RetryAfter(attempt[c]) /\ backoff[c] # 0
        /\ Goto(c, "sleep")
        /\ UNCHANGED <<attempt, backoff>>
     \/ /\ RetryAfter(attempt[c]) /\ backoff[c] = 0
        /\ attempt' = [attempt EXCEPT ![c] = @ + 1]
        /\ backoff' = [backoff EXCEPT ![c] = NextBackoff(@)]
        /\ UNCHANGED pc
     \/ /\ ~RetryAfter(attempt[c])
        /\ Goto(c, "failed")
        /\ UNCHANGED <<attempt, backoff>>
  /\ UNCHANGED <<tenant, entry, spent, usage, consumed>>

(* max_attempts = 0: the loop body never runs and the call fails with "no  *)
(* recorded error".                                                        *)
NoAttempt(c) ==
  /\ pc[c] = "call"
  /\ ~AttemptsLeft(attempt[c])
  /\ Goto(c, "failed")
  /\ UNCHANGED <<tenant, entry, attempt, backoff, spent,
                 usage, call_count, consumed, calls>>

\* Mutant: `while !backoff.is_zero()` for `if` around the sleep.
Wake_UntilZero(c) ==
  /\ pc[c] = "sleep"
  /\ backoff' = [backoff EXCEPT ![c] = NextBackoff(@)]
  /\ Goto(c, IF NextBackoff(backoff[c]) = 0 THEN "call" ELSE "sleep")
  /\ UNCHANGED <<tenant, entry, attempt, spent, usage, call_count, consumed, calls>>

Wake(c) ==
  /\ pc[c] = "sleep"
  /\ Scaled(backoff[c]) # Beyond
  /\ attempt' = [attempt EXCEPT ![c] = @ + 1]
  /\ backoff' = [backoff EXCEPT ![c] = NextBackoff(@)]
  /\ Goto(c, "call")
  /\ UNCHANGED <<tenant, entry, spent, usage, call_count, consumed, calls>>

(* from_secs_f64 comes before the cap: a product it cannot represent       *)
(* panics and ends the request, with no lock held and nothing charged.     *)
BackoffOverflows(c) ==
  /\ pc[c] = "sleep"
  /\ Scaled(backoff[c]) = Beyond
  /\ Goto(c, "panicked")
  /\ UNCHANGED <<tenant, entry, attempt, backoff, spent,
                 usage, call_count, consumed, calls>>

(* The client disconnects and the server drops the handler's future; only  *)
(* a suspended future can be dropped, and the sleep is where it suspends.  *)
Drop(c) ==
  /\ pc[c] = "sleep"
  /\ Goto(c, "idle")
  /\ UNCHANGED <<tenant, entry, attempt, backoff, spent,
                 usage, call_count, consumed, calls>>

(* complete_for_tenant, second locked section.                             *)
Charge(c) ==
  /\ pc[c] = "charge"
  /\ usage' = [usage EXCEPT ![tenant[c]] = UsageAfter(@, spent[c])]
  /\ spent' = [spent EXCEPT ![c] = 0]
  /\ Goto(c, "ok")
  /\ UNCHANGED <<tenant, entry, attempt, backoff, call_count, consumed, calls>>

Step(c) ==
  \/ CheckBudget(c)
  \/ AttemptSucceeds(c)
  \/ AttemptFails(c)
  \/ NoAttempt(c)
  \/ Wake(c)
  \/ BackoffOverflows(c)
  \/ Charge(c)

Next ==
  /\ \E c \in Tasks : Start(c) \/ Step(c) \/ Drop(c)
  /\ UNCHANGED config

Spec == Init /\ [][Next]_vars

(* The runtime polls every task that is ready and fires every timer, so a  *)
(* started call keeps taking steps; nothing makes a client send a request  *)
(* or disconnect.                                                          *)
FairSpec == Spec /\ \A c \in Tasks : WF_vars(Step(c) /\ UNCHANGED config)

-----------------------------------------------------------------------------
(* Correctness.                                                            *)

(* Every variable has its type; the loop counter and the calls of a        *)
(* request never pass max_attempts (retry.rs:68).                          *)
TypeOK ==
  /\ config \in Configs
  /\ pc \in [Tasks -> Resting \cup Working]
  /\ tenant \in [Tasks -> Tenants]
  /\ entry \in [Tasks -> EntryPoints]
  /\ attempt \in [Tasks -> 1..(MaxAttempts + 1)]
  /\ \A c \in Tasks : attempt[c] <= MaxAttempts \/ attempt[c] = 1
  /\ backoff \in [Tasks -> 0..LongestSleep]
  /\ spent \in [Tasks -> 0..MaxSpend]
  /\ usage \in [Tenants -> Nat]
  /\ call_count \in 0..CallCap
  /\ consumed \in [Tenants -> Nat]
  /\ calls \in [Tasks -> 0..MaxAttempts]

(* The requests of t that were admitted by the budget and not yet charged. *)
Admitted(t) == {c \in InFlight(t) : entry[c] = "complete_for_tenant"}

(* The check and the charge of complete_for_tenant are two locked sections *)
(* with the provider call between them (budget.rs:113-130), so requests    *)
(* that arrive together are all admitted on the same usage.  How far that  *)
(* race can take a tenant past its limit: one answer for each request that *)
(* can be in progress, no more, and never past zero for a tenant without   *)
(* any budget.                                                             *)
OvershootBound ==
  \A t \in Tenants :
    IF budget_for(t) = 0
    THEN usage[t] = 0
    ELSE usage[t] <= budget_for(t) - 1 + MaxSpend * Cardinality(Tasks)

(* Nothing the provider produced for a metered request is lost or charged  *)
(* twice (budget.rs:125-130): it is in the tenant's usage, or it is the    *)
(* answer of a request that is about to charge it.                         *)
ConsumptionAccounted ==
  EntryPoints = {"complete_for_tenant"} =>
    \A t \in Tenants :
      consumed[t] = usage[t] + MapThenSumSet(LAMBDA c : spent[c], Admitted(t))

(* A tenant is refused (budget.rs:116) only when the provider really has   *)
(* produced its whole budget for it: neither another tenant's requests nor *)
(* failed attempts and retries use it up.                                  *)
RejectedOnlyWhenSpent ==
  \A c \in Tasks :
    pc[c] = "exceeded" => consumed[tenant[c]] >= budget_for(tenant[c])

SpentTenantStaysOut ==
  \A t \in Tenants :
    consumed[t] >= budget_for(t) /\ InFlight(t) = {} => InFlight(t)' = {}

(* Once a tenant has consumed its budget and its requests in progress have *)
(* settled, no request of that tenant is on its way to the provider again, *)
(* while the callers use complete_for_tenant (budget.rs:63-67) ...         *)
DoorStaysShut ==
  [][EntryPoints = {"complete_for_tenant"} => SpentTenantStaysOut]_vars

(* ... and, as genai_loop.rs:60-62 says of the application's turns,        *)
(* whichever method they use.                                              *)
EveryDoorStaysShut == [][SpentTenantStaysOut]_vars

(* What a finished request has cost the provider (retry.rs:68-94): a       *)
(* failure is reported after exactly max_attempts calls, an answer after   *)
(* at least one and at most max_attempts, a refusal after none; a panic    *)
(* of the backoff comes after a failed attempt that is not the last.       *)
AttemptLedger ==
  \A c \in Tasks :
    /\ pc[c] = "failed" => calls[c] = MaxAttempts
    /\ pc[c] = "ok" => calls[c] \in 1..MaxAttempts
    /\ pc[c] \in {"check", "exceeded"} => calls[c] = 0
    /\ pc[c] \in {"sleep", "panicked"} =>
         calls[c] = attempt[c] /\ attempt[c] < MaxAttempts

(* b multiplied by m, k times, as a function that a proof can unfold.      *)
Multiplied(m, b, k) ==
  LET P[j \in 0..k] == IF j = 0 THEN b ELSE Product(m, P[j - 1])
  IN  P[k]

(* The backoff before the attempt after the k-th failure.                  *)
Scheduled(k) ==
  IF k = 1
  THEN InitialBackoff
  ELSE IF Scaled(MaxBackoff) >= MaxBackoff
       THEN Smaller(Multiplied(BackoffMultiplier, InitialBackoff, k - 1), MaxBackoff)
       ELSE Multiplied(BackoffMultiplier, NextBackoff(InitialBackoff), k - 2)

(* The sleep after the k-th failure (retry.rs:65, 79-86) is the initial    *)
(* backoff, uncapped, and then initial * multiplier^(k-1) up to the cap,   *)
(* whatever is capped on the way there; but a multiplier that shrinks the  *)
(* cap goes on shrinking from the cap itself, once the first product has   *)
(* been cut down to it.                                                    *)
BackoffSchedule ==
  \A c \in Tasks : pc[c] = "sleep" => backoff[c] = Scheduled(attempt[c])

(* Some backoff the loop can reach is out of range when it is multiplied.  *)
Overflows == Scaled(InitialBackoff) = Beyond \/ Scaled(MaxBackoff) = Beyond

(* An outage of fewer failures than max_attempts is ridden out by every    *)
(* request (mock.rs:19-21, retry.rs:48-50), also when several requests     *)
(* meet it together and share the provider's counter; only a backoff that  *)
(* is out of range, the initial one or the cap, can break a request off.   *)
OutageRiddenOut ==
  Behavior = "FailNTimesThenSucceed" /\ Failures < MaxAttempts =>
    \A c \in Tasks : pc[c] # "failed" /\ (pc[c] = "panicked" => Overflows)

(* Every request is answered, refused, failed, dropped, or broken off by   *)
(* its backoff: no outage makes the retry loop run for ever (retry.rs:68). *)
CallsTerminate == \A c \in Tasks : pc[c] \in Working ~> pc[c] \in Resting
=============================================================================
