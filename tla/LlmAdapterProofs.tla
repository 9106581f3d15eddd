------------------------- MODULE LlmAdapterProofs -------------------------
(***************************************************************************)
(* Proofs about LlmAdapter, for every number of concurrent requests, every *)
(* budget and every retry configuration.                                   *)
(***************************************************************************)
EXTENDS LlmAdapter, OperatorLemmas

USE DEF Resting, Working

(* The configuration has its types, and no step changes it.                *)
LEMMA ConfigTypes ==
  ASSUME config \in Configs
  PROVE  /\ MaxAttempts \in Nat /\ Failures \in Nat /\ CallCap > Failures
         /\ LongestSleep \in Nat
         /\ InitialBackoff \in 0..LongestSleep /\ MaxBackoff \in 0..LongestSleep
         /\ EntryPoints \subseteq {"complete", "complete_for_tenant"}
  BY ConfigAssumption, ScaleAssumption
  DEF MaxAttempts, Failures, InitialBackoff, MaxBackoff, EntryPoints

(* Multiplying keeps the order of the backoffs, and zero; the next backoff *)
(* is a Duration no longer than the cap.                                   *)
LEMMA ScaledTypes ==
  ASSUME config \in Configs
  PROVE  /\ Beyond \in Nat /\ 0..Beyond = (0..LongestSleep) \cup {Beyond}
         /\ Beyond \notin 0..LongestSleep
         /\ \A a \in 0..Beyond : Scaled(a) \in 0..Beyond
         /\ Scaled(0) = 0
         /\ \A a, b \in 0..Beyond : a <= b => Scaled(a) <= Scaled(b)
         /\ \A a \in 0..Beyond : NextBackoff(a) \in 0..MaxBackoff
<1>1. LongestSleep \in Nat /\ MaxBackoff \in 0..LongestSleep
  BY ConfigTypes
<1>2. BackoffMultiplier \in DOMAIN Scale
  BY ConfigAssumption DEF BackoffMultiplier
<1> DEFINE s == Scale[BackoffMultiplier]
<1>3. /\ s \in [0..LongestSleep -> 0..Beyond] /\ s[0] = 0
      /\ \A a, b \in 0..LongestSleep : a <= b => s[a] <= s[b]
  BY <1>2, ScaleAssumption
<1> HIDE DEF s
<1>4. /\ Beyond \in Nat /\ 0..Beyond = (0..LongestSleep) \cup {Beyond}
      /\ Beyond \notin 0..LongestSleep /\ 0 \in 0..LongestSleep /\ Beyond \in 0..Beyond
  BY <1>1 DEF Beyond
<1>5. Scaled(Beyond) = Beyond /\ \A a \in 0..LongestSleep : Scaled(a) = s[a]
  BY <1>4 DEF Scaled, Product, s
<1>6. \A a \in 0..Beyond : Scaled(a) \in 0..Beyond
  BY <1>3, <1>4, <1>5
<1>7. ASSUME NEW a \in 0..Beyond, NEW b \in 0..Beyond, a <= b
      PROVE  Scaled(a) <= Scaled(b)
  <2>1. CASE b = Beyond
    BY <2>1, <1>4, <1>5, <1>6
  <2>2. CASE b # Beyond
    <3>1. a \in 0..LongestSleep /\ b \in 0..LongestSleep
      BY <2>2, <1>7, <1>1 DEF Beyond
    <3> QED BY <3>1, <1>3, <1>5, <1>7
  <2> QED BY <2>1, <2>2
<1>8. \A a \in 0..Beyond : NextBackoff(a) \in 0..MaxBackoff
  BY <1>1, <1>4, <1>6 DEF NextBackoff, Smaller
<1> QED BY <1>3, <1>4, <1>5, <1>6, <1>7, <1>8

LEMMA ConfigKept ==
  ASSUME [Next]_vars
  PROVE  /\ config' = config /\ MaxAttempts' = MaxAttempts
         /\ Behavior' = Behavior /\ Failures' = Failures
         /\ EntryPoints' = EntryPoints
  BY DEF Next, vars, MaxAttempts, Behavior, Failures, EntryPoints

(* What ties the calls a request has made to its place in the retry loop.  *)
LedgerInv ==
  /\ \A c \in Tasks :
       /\ pc[c] = "check" => attempt[c] = 1
       /\ pc[c] = "call" => calls[c] = attempt[c] - 1
       /\ pc[c] = "charge" => calls[c] \in 1..MaxAttempts
  /\ AttemptLedger

(***************************************************************************)
(* TypeOK is not inductive alone: that an attempt keeps `calls` within     *)
(* max_attempts needs the ledger, so both are proved together.             *)
(***************************************************************************)
LEMMA LedgerInit == Init => TypeOK /\ LedgerInv
<1> SUFFICES ASSUME Init PROVE TypeOK /\ LedgerInv
  OBVIOUS
<1>1. config \in Configs
  BY DEF Init
<1> QED
  BY <1>1, ConfigTypes, BudgetAssumption, ProviderAssumption
  DEF Init, TypeOK, LedgerInv, AttemptLedger

LEMMA LedgerStep ==
  ASSUME TypeOK, LedgerInv, [Next]_vars
  PROVE  TypeOK' /\ LedgerInv'
<1>0. /\ MaxAttempts \in Nat /\ Failures \in Nat /\ CallCap > Failures
      /\ LongestSleep \in Nat
      /\ InitialBackoff \in 0..LongestSleep /\ MaxBackoff \in 0..LongestSleep
      /\ config' = config /\ MaxAttempts' = MaxAttempts
      /\ Behavior' = Behavior /\ Failures' = Failures
      /\ EntryPoints \subseteq {"complete", "complete_for_tenant"}
      /\ EntryPoints' = EntryPoints
  BY ConfigTypes, ConfigKept DEF TypeOK
<1>10. \A c \in Tasks : NextBackoff(backoff[c]) \in 0..LongestSleep
  BY <1>0, ScaledTypes DEF TypeOK
<1> USE <1>0, BudgetAssumption, ProviderAssumption
        DEF TypeOK, LedgerInv, AttemptLedger
<1>1. CASE UNCHANGED vars
  BY <1>1 DEF vars
<1>2. ASSUME NEW c \in Tasks, Start(c) PROVE TypeOK' /\ LedgerInv'
  <2>1. TypeOK'
    BY <1>2 DEF Start, Goto
  <2>2. LedgerInv'
    BY <1>2 DEF Start, Goto
  <2> QED BY <2>1, <2>2
<1>3. ASSUME NEW c \in Tasks, CheckBudget(c) PROVE TypeOK' /\ LedgerInv'
  <2>1. PICK label \in {"call", "exceeded"} : Goto(c, label)
    BY <1>3 DEF CheckBudget
  <2> QED BY <1>3, <2>1 DEF CheckBudget, Goto
<1>4. ASSUME NEW c \in Tasks, AttemptSucceeds(c) PROVE TypeOK' /\ LedgerInv'
  <2>1. TypeOK'
    BY <1>4 DEF AttemptSucceeds, Goto, AttemptsLeft, CallNumber, Smaller
  <2>2. LedgerInv'
    BY <1>4 DEF AttemptSucceeds, Goto, AttemptsLeft, CallNumber, Smaller
  <2> QED BY <2>1, <2>2
<1>5. ASSUME NEW c \in Tasks, AttemptFails(c) PROVE TypeOK' /\ LedgerInv'
  <2>1. backoff' \in [Tasks -> 0..LongestSleep]
    BY <1>5, <1>10 DEF AttemptFails
  <2>2. TypeOK'
    <3>1. /\ call_count' \in 0..CallCap
          /\ calls' \in [Tasks -> 0..MaxAttempts]
      BY <1>5 DEF AttemptFails, AttemptsLeft, CallNumber, Smaller
    <3>2. /\ pc' \in [Tasks -> Resting \cup Working]
          /\ attempt' \in [Tasks -> 1..(MaxAttempts + 1)]
      BY <1>5 DEF AttemptFails, Goto, RetryAfter
    <3>3. \A d \in Tasks : attempt'[d] <= MaxAttempts \/ attempt'[d] = 1
      BY <1>5 DEF AttemptFails, RetryAfter
    <3> QED BY <1>5, <2>1, <3>1, <3>2, <3>3 DEF AttemptFails
  <2>3. LedgerInv'
    BY <1>5 DEF AttemptFails, Goto, AttemptsLeft, RetryAfter, CallNumber, Smaller
  <2> QED BY <2>2, <2>3
<1>6. ASSUME NEW c \in Tasks, NoAttempt(c) PROVE TypeOK' /\ LedgerInv'
  <2>1. TypeOK'
    BY <1>6 DEF NoAttempt, Goto, AttemptsLeft
  <2>2. LedgerInv'
    BY <1>6 DEF NoAttempt, Goto, AttemptsLeft
  <2> QED BY <2>1, <2>2
<1>7. ASSUME NEW c \in Tasks, Wake(c) PROVE TypeOK' /\ LedgerInv'
  <2>1. TypeOK'
    BY <1>7, <1>10 DEF Wake, Goto
  <2>2. LedgerInv'
    BY <1>7 DEF Wake, Goto
  <2> QED BY <2>1, <2>2
<1>8. ASSUME NEW c \in Tasks, Drop(c) \/ BackoffOverflows(c) PROVE TypeOK' /\ LedgerInv'
  <2>1. TypeOK'
    BY <1>8 DEF Drop, BackoffOverflows, Goto
  <2>2. LedgerInv'
    BY <1>8 DEF Drop, BackoffOverflows, Goto
  <2> QED BY <2>1, <2>2
<1>9. ASSUME NEW c \in Tasks, Charge(c) PROVE TypeOK' /\ LedgerInv'
  <2>1. TypeOK'
    BY <1>9 DEF Charge, Goto, UsageAfter
  <2>2. LedgerInv'
    BY <1>9 DEF Charge, Goto, UsageAfter
  <2> QED BY <2>1, <2>2
<1> QED
  BY <1>1, <1>2, <1>3, <1>4, <1>5, <1>6, <1>7, <1>8, <1>9 DEF Next, Step

(***************************************************************************)
(* TypeOK holds in every reachable state (all variables of LlmAdapter).    *)
(***************************************************************************)
THEOREM TypeCorrect == Spec => []TypeOK
<1>1. Init => TypeOK /\ LedgerInv
  BY LedgerInit
<1>2. TypeOK /\ LedgerInv /\ [Next]_vars => TypeOK' /\ LedgerInv'
  BY LedgerStep
<1> QED
  BY <1>1, <1>2, PTL DEF Spec

LEMMA LedgerAlways == Spec => [](TypeOK /\ LedgerInv)
  BY LedgerInit, LedgerStep, PTL DEF Spec

(***************************************************************************)
(* A finished request has cost the provider exactly what its outcome says: *)
(* max_attempts calls when it failed, one to max_attempts when it was      *)
(* answered, none when it was refused (retry.rs:68-94, budget.rs:113-123). *)
(***************************************************************************)
THEOREM AttemptsAreLedgered == Spec => []AttemptLedger
<1>1. LedgerInv => AttemptLedger
  BY DEF LedgerInv
<1> QED
  BY <1>1, LedgerAlways, PTL

-----------------------------------------------------------------------------
(* The backoffs a request can have: the initial one, and the capped ones.  *)
BackoffReached ==
  \A c \in Tasks : backoff[c] = InitialBackoff \/ backoff[c] \in 0..MaxBackoff

LEMMA ReachedStep ==
  ASSUME TypeOK, BackoffReached, [Next]_vars
  PROVE  BackoffReached'
<1>1. InitialBackoff' = InitialBackoff /\ MaxBackoff' = MaxBackoff
  BY ConfigKept DEF InitialBackoff, MaxBackoff
<1>2. \A c \in Tasks : NextBackoff(backoff[c]) \in 0..MaxBackoff
  BY ScaledTypes DEF TypeOK
<1>3. ASSUME NEW c \in Tasks,
             \/ backoff' = backoff
             \/ backoff' = [backoff EXCEPT ![c] = InitialBackoff]
             \/ backoff' = [backoff EXCEPT ![c] = NextBackoff(@)]
      PROVE  BackoffReached'
  BY <1>1, <1>2, <1>3 DEF BackoffReached, TypeOK
<1>4. CASE UNCHANGED vars
  BY <1>1, <1>4 DEF vars, BackoffReached
<1>5. ASSUME NEW c \in Tasks, Start(c) \/ Step(c) \/ Drop(c) PROVE BackoffReached'
  <2>1. \/ backoff' = backoff
        \/ backoff' = [backoff EXCEPT ![c] = InitialBackoff]
        \/ backoff' = [backoff EXCEPT ![c] = NextBackoff(@)]
    BY <1>5 DEF Start, Step, Drop, CheckBudget, AttemptSucceeds, AttemptFails, NoAttempt,
                Wake, BackoffOverflows, Charge
  <2> QED BY <2>1, <1>3
<1> QED BY <1>4, <1>5 DEF Next

(***************************************************************************)
(* Riding out an outage.  The failures a request has met so far are among  *)
(* those the shared counter has counted, unless the outage is over; a last *)
(* attempt that fails would therefore need max_attempts counted failures.  *)
(***************************************************************************)
FailuresSeen(n) == call_count > Failures \/ n <= call_count

OutageSeen ==
  Behavior = "FailNTimesThenSucceed" =>
    \A c \in Tasks :
      /\ pc[c] \in {"check", "call"} => FailuresSeen(attempt[c] - 1)
      /\ pc[c] = "sleep" => FailuresSeen(attempt[c])

OutageInv == OutageSeen /\ BackoffReached

(* A backoff that gets out of range when it is multiplied is the initial   *)
(* one, or it is below a cap that does so as well.                         *)
LEMMA OverflowReached ==
  ASSUME TypeOK, BackoffReached, NEW c \in Tasks, Scaled(backoff[c]) = Beyond
  PROVE  Overflows
<1>1. CASE backoff[c] = InitialBackoff
  BY <1>1 DEF Overflows
<1>2. CASE backoff[c] \in 0..MaxBackoff
  <2>1. MaxBackoff \in 0..Beyond /\ backoff[c] \in 0..Beyond /\ backoff[c] <= MaxBackoff
    BY <1>2, ConfigTypes DEF TypeOK, Beyond
  <2>2. Scaled(backoff[c]) <= Scaled(MaxBackoff) /\ Scaled(MaxBackoff) \in 0..Beyond
        /\ Beyond \in Nat
    BY <2>1, ScaledTypes DEF TypeOK
  <2>3. Scaled(MaxBackoff) = Beyond
    BY <2>2
  <2> QED BY <2>3 DEF Overflows
<1> QED BY <1>1, <1>2 DEF BackoffReached

LEMMA OutageStep ==
  ASSUME TypeOK, TypeOK', LedgerInv, OutageInv, OutageRiddenOut, [Next]_vars
  PROVE  OutageInv' /\ OutageRiddenOut'
<1>0. /\ MaxAttempts \in Nat /\ Failures \in Nat /\ CallCap > Failures
      /\ LongestSleep \in Nat
      /\ InitialBackoff \in 0..LongestSleep /\ MaxBackoff \in 0..LongestSleep
      /\ config' = config /\ MaxAttempts' = MaxAttempts
      /\ Behavior' = Behavior /\ Failures' = Failures
      /\ EntryPoints \subseteq {"complete", "complete_for_tenant"}
      /\ EntryPoints' = EntryPoints
  BY ConfigTypes, ConfigKept DEF TypeOK
<1>10. /\ OutageSeen /\ BackoffReached' /\ (Overflows => Overflows')
       /\ \A c \in Tasks : Scaled(backoff[c]) = Beyond => Overflows
  <2>1. Overflows' = Overflows
    BY <1>0 DEF Overflows, Scaled, Product, InitialBackoff, BackoffMultiplier, MaxBackoff
  <2> QED BY <2>1, ReachedStep, OverflowReached DEF OutageInv
<1> USE <1>0, <1>10, BudgetAssumption, ProviderAssumption
        DEF TypeOK, OutageSeen, OutageRiddenOut, FailuresSeen
<1>1. CASE UNCHANGED vars
  <2>1. pc' = pc /\ attempt' = attempt /\ call_count' = call_count
    BY <1>1 DEF vars
  <2>2. OutageSeen'
    BY <2>1
  <2>3. OutageRiddenOut'
    BY <2>1
  <2> QED BY <2>2, <2>3 DEF OutageInv
<1>2. ASSUME NEW c \in Tasks, Start(c) PROVE OutageSeen' /\ OutageRiddenOut'
  BY <1>2 DEF Start, Goto
<1>3. ASSUME NEW c \in Tasks, CheckBudget(c) PROVE OutageSeen' /\ OutageRiddenOut'
  <2>1. PICK label \in {"call", "exceeded"} : Goto(c, label)
    BY <1>3 DEF CheckBudget
  <2> QED BY <1>3, <2>1 DEF CheckBudget, Goto
<1>4. ASSUME NEW c \in Tasks, AttemptSucceeds(c) PROVE OutageSeen' /\ OutageRiddenOut'
  <2>1. PICK label \in {"charge", "ok"} : Goto(c, label)
    BY <1>4 DEF AttemptSucceeds
  <2>2. call_count' >= call_count
    BY <1>4 DEF AttemptSucceeds, CallNumber, Smaller
  <2> QED BY <1>4, <2>1, <2>2 DEF AttemptSucceeds, Goto
<1>5. ASSUME NEW c \in Tasks, AttemptFails(c) PROVE OutageSeen' /\ OutageRiddenOut'
  <2>1. SUFFICES ASSUME Behavior = "FailNTimesThenSucceed"
                 PROVE  OutageSeen' /\ OutageRiddenOut'
    OBVIOUS
  <2>2. /\ call_count' = call_count + 1
        /\ call_count' <= Failures
        /\ attempt[c] <= call_count'
    BY <1>5, <2>1 DEF AttemptFails, ShouldFail, CallNumber, Smaller
  <2>3. OutageSeen'
    BY <1>5, <2>2 DEF AttemptFails, Goto
  <2>4. Failures < MaxAttempts => RetryAfter(attempt[c])
    BY <2>2 DEF RetryAfter
  <2>5. OutageRiddenOut'
    BY <1>5, <2>4 DEF AttemptFails, Goto
  <2> QED BY <2>3, <2>5
<1>6. ASSUME NEW c \in Tasks, NoAttempt(c) PROVE OutageSeen' /\ OutageRiddenOut'
  <2>1. MaxAttempts = 0
    BY <1>6 DEF NoAttempt, AttemptsLeft
  <2> QED BY <1>6, <2>1 DEF NoAttempt, Goto
<1>7. ASSUME NEW c \in Tasks, Wake(c) PROVE OutageSeen' /\ OutageRiddenOut'
  BY <1>7 DEF Wake, Goto
<1>8. ASSUME NEW c \in Tasks, Drop(c) \/ BackoffOverflows(c)
      PROVE  OutageSeen' /\ OutageRiddenOut'
  BY <1>8 DEF Drop, BackoffOverflows, Goto
<1>9. ASSUME NEW c \in Tasks, Charge(c) PROVE OutageSeen' /\ OutageRiddenOut'
  BY <1>9 DEF Charge, Goto
<1> QED
  BY <1>1, <1>2, <1>3, <1>4, <1>5, <1>6, <1>7, <1>8, <1>9
  DEF Next, Step, OutageInv

(***************************************************************************)
(* With fewer failures than max_attempts no request fails, however many    *)
(* requests share the failing provider (mock.rs:63-76, retry.rs:68-94).    *)
(***************************************************************************)
THEOREM OutageIsRiddenOut == Spec => []OutageRiddenOut
<1>1. Init => OutageInv /\ OutageRiddenOut
  BY DEF Init, OutageInv, OutageSeen, OutageRiddenOut, FailuresSeen, BackoffReached
<1>2. /\ TypeOK /\ LedgerInv /\ (TypeOK /\ LedgerInv)'
      /\ OutageInv /\ OutageRiddenOut /\ [Next]_vars
      => OutageInv' /\ OutageRiddenOut'
  BY OutageStep
<1> QED
  BY <1>1, <1>2, LedgerAlways, PTL DEF Spec

-----------------------------------------------------------------------------
(***************************************************************************)
(* The overshoot bound.  usage[t] alone is not inductive: the requests     *)
(* already admitted will raise it whatever the limit says.  UsageInv       *)
(* charges each of them its worst case in advance.                         *)
(***************************************************************************)
UsageInv ==
  /\ \A c \in Tasks : pc[c] \in {"check", "charge"} => entry[c] = "complete_for_tenant"
  /\ \A t \in Tenants :
       IF budget_for(t) = 0
       THEN usage[t] = 0 /\ Admitted(t) = {}
       ELSE usage[t] + MaxSpend * Cardinality(Admitted(t))
              <= budget_for(t) - 1 + MaxSpend * Cardinality(Tasks)

LEMMA BudgetType == \A t \in Tenants : budget_for(t) \in Nat
  BY BudgetAssumption DEF budget_for

LEMMA ScaleType ==
  ASSUME NEW s \in Nat, NEW a \in Nat
  PROVE  s * a \in Nat /\ s * 0 = 0
  OBVIOUS

LEMMA ScaleMonotone ==
  ASSUME NEW s \in Nat, NEW a \in Nat, NEW b \in Nat, a <= b
  PROVE  s * a <= s * b
  OBVIOUS

LEMMA ScaleSuccessor ==
  ASSUME NEW s \in Nat, NEW a \in Nat
  PROVE  s * (a + 1) = s * a + s
  OBVIOUS

LEMMA TaskSets ==
  ASSUME NEW A \in SUBSET Tasks
  PROVE  /\ IsFiniteSet(A)
         /\ Cardinality(A) \in Nat
         /\ Cardinality(Tasks) \in Nat
         /\ Cardinality(A) <= Cardinality(Tasks)
         /\ \A B \in SUBSET A : Cardinality(B) \in Nat /\ Cardinality(B) <= Cardinality(A)
         /\ \A c \in Tasks \ A : /\ Cardinality(A \cup {c}) = Cardinality(A) + 1
                                 /\ Cardinality(A) + 1 <= Cardinality(Tasks)
         /\ \A c \in A : Cardinality(A) = Cardinality(A \ {c}) + 1
<1>1. \A B \in SUBSET Tasks : /\ IsFiniteSet(B) /\ Cardinality(B) \in Nat
                              /\ Cardinality(B) <= Cardinality(Tasks)
  BY TasksAssumption, FS_Subset, FS_CardinalityType
<1>2. \A B \in SUBSET A : Cardinality(B) <= Cardinality(A)
  BY <1>1, FS_Subset
<1>3. ASSUME NEW c \in Tasks \ A
      PROVE  /\ Cardinality(A \cup {c}) = Cardinality(A) + 1
             /\ Cardinality(A) + 1 <= Cardinality(Tasks)
  <2>1. Cardinality(A \cup {c}) = Cardinality(A) + 1
    BY <1>1, FS_AddElement
  <2>2. Cardinality(A \cup {c}) <= Cardinality(Tasks)
    BY <1>1
  <2> QED BY <2>1, <2>2
<1>4. ASSUME NEW c \in A PROVE Cardinality(A) = Cardinality(A \ {c}) + 1
  BY <1>1, FS_RemoveElement
<1> QED
  BY <1>1, <1>2, <1>3, <1>4, TasksAssumption, FS_CardinalityType

LEMMA AdmittedTasks == \A t \in Tenants : Admitted(t) \in SUBSET Tasks
  BY DEF Admitted, InFlight

LEMMA AdmittedTasksNext ==
  ASSUME TypeOK'
  PROVE  \A t \in Tenants : Admitted(t)' \in SUBSET Tasks
  BY DEF Admitted, InFlight

(* A step that admits nobody and charges nothing keeps the bound.          *)
LEMMA UsageKept ==
  ASSUME TypeOK, TypeOK', UsageInv, usage' = usage,
         NEW t \in Tenants, Admitted(t)' \subseteq Admitted(t)
  PROVE  IF budget_for(t) = 0
         THEN usage'[t] = 0 /\ Admitted(t)' = {}
         ELSE usage'[t] + MaxSpend * Cardinality(Admitted(t)')
                <= budget_for(t) - 1 + MaxSpend * Cardinality(Tasks)
<1> DEFINE a == Cardinality(Admitted(t))
           b == Cardinality(Admitted(t)')
           n == Cardinality(Tasks)
<1>1. /\ a \in Nat /\ b \in Nat /\ n \in Nat /\ b <= a
  BY AdmittedTasks, TaskSets
<1>2. MaxSpend * b <= MaxSpend * a
  BY <1>1, ScaleMonotone, ProviderAssumption
<1>3. /\ usage[t] \in Nat /\ budget_for(t) \in Nat
      /\ MaxSpend * a \in Nat /\ MaxSpend * b \in Nat /\ MaxSpend * n \in Nat
  BY <1>1, BudgetType, ProviderAssumption DEF TypeOK
<1>4. CASE budget_for(t) = 0
  BY <1>4 DEF UsageInv
<1>5. CASE budget_for(t) # 0
  <2>1. usage[t] + MaxSpend * a <= budget_for(t) - 1 + MaxSpend * n
    BY <1>5 DEF UsageInv
  <2> HIDE DEF a, b, n
  <2>2. usage'[t] + MaxSpend * b <= budget_for(t) - 1 + MaxSpend * n
    BY <2>1, <1>2, <1>3
  <2> QED BY <2>2, <1>5 DEF a, b, n
<1> QED BY <1>4, <1>5

LEMMA UsageStep ==
  ASSUME TypeOK, TypeOK', UsageInv, [Next]_vars
  PROVE  UsageInv'
<1> DEFINE Metered == \A c \in Tasks : pc[c] \in {"check", "charge"} => entry[c] = "complete_for_tenant"
           Bound(t) == IF budget_for(t) = 0
                       THEN usage[t] = 0 /\ Admitted(t) = {}
                       ELSE usage[t] + MaxSpend * Cardinality(Admitted(t))
                              <= budget_for(t) - 1 + MaxSpend * Cardinality(Tasks)
<1>a. ASSUME usage' = usage, \A t \in Tenants : Admitted(t)' \subseteq Admitted(t)
      PROVE  \A t \in Tenants : Bound(t)'
  BY <1>a, UsageKept
<1>b. ASSUME Metered', \A t \in Tenants : Bound(t)' PROVE UsageInv'
  BY <1>b DEF UsageInv
<1>1. CASE UNCHANGED vars
  BY <1>1, <1>a, <1>b DEF vars, UsageInv, Admitted, InFlight
<1>2. ASSUME NEW c \in Tasks, Start(c) PROVE UsageInv'
  <2>1. Metered'
    BY <1>2, ConfigTypes DEF Start, Goto, UsageInv, TypeOK
  <2>2. \A t \in Tenants : Admitted(t)' \subseteq Admitted(t)
    BY <1>2, ConfigTypes DEF Start, Goto, Admitted, InFlight, TypeOK
  <2> QED BY <2>1, <2>2, <1>2, <1>a, <1>b DEF Start
<1>3. ASSUME NEW c \in Tasks, CheckBudget(c) PROVE UsageInv'
  <2>1. PICK label \in {"call", "exceeded"} :
          /\ Goto(c, label)
          /\ label = "call" => HasBudgetLeft(tenant[c])
    BY <1>3 DEF CheckBudget
  <2>2. Metered'
    BY <1>3, <2>1 DEF CheckBudget, Goto, UsageInv, TypeOK
  <2>3. CASE label = "exceeded"
    BY <2>1, <2>2, <2>3, <1>3, <1>a, <1>b DEF CheckBudget, Goto, Admitted, InFlight, TypeOK
  <2>4. CASE label = "call"
    <3>1. ASSUME NEW t \in Tenants, t # tenant[c] PROVE Bound(t)'
      <4>1. Admitted(t)' \subseteq Admitted(t)
        BY <1>3, <2>1, <3>1 DEF CheckBudget, Goto, Admitted, InFlight, TypeOK
      <4> QED BY <4>1, <1>3, UsageKept DEF CheckBudget
    <3>2. ASSUME NEW t \in Tenants, t = tenant[c] PROVE Bound(t)'
      <4>1. usage[t] < budget_for(t) /\ usage'[t] = usage[t]
        BY <1>3, <2>1, <2>4, <3>2 DEF CheckBudget, HasBudgetLeft
      <4>2. c \notin Admitted(t) /\ Admitted(t)' = Admitted(t) \cup {c}
        BY <1>3, <2>1, <2>4, <3>2 DEF CheckBudget, Goto, Admitted, InFlight, TypeOK, UsageInv
      <4> DEFINE a == Cardinality(Admitted(t))
                 n == Cardinality(Tasks)
      <4>3. /\ a \in Nat /\ n \in Nat /\ a + 1 <= n
            /\ Cardinality(Admitted(t)') = a + 1
        BY <4>2, AdmittedTasks, TaskSets
      <4>4. MaxSpend * (a + 1) <= MaxSpend * n
        BY <4>3, ScaleMonotone, ProviderAssumption
      <4>5. /\ usage[t] \in Nat /\ budget_for(t) \in Nat
            /\ MaxSpend * (a + 1) \in Nat /\ MaxSpend * n \in Nat
        BY <4>3, BudgetType, ProviderAssumption DEF TypeOK
      <4> HIDE DEF a, n
      <4>6. /\ budget_for(t) # 0
            /\ usage'[t] + MaxSpend * (a + 1) <= budget_for(t) - 1 + MaxSpend * n
        BY <4>1, <4>4, <4>5
      <4> QED BY <4>3, <4>6 DEF a, n
    <3> QED BY <3>1, <3>2, <2>2, <1>b
  <2> QED BY <2>1, <2>3, <2>4
<1>4. ASSUME NEW c \in Tasks, AttemptSucceeds(c) PROVE UsageInv'
  <2>1. Metered'
    BY <1>4 DEF AttemptSucceeds, Goto, UsageInv, TypeOK
  <2>2. \A t \in Tenants : Admitted(t)' \subseteq Admitted(t)
    BY <1>4 DEF AttemptSucceeds, Goto, Admitted, InFlight, TypeOK
  <2> QED BY <2>1, <2>2, <1>4, <1>a, <1>b DEF AttemptSucceeds
<1>5. ASSUME NEW c \in Tasks, AttemptFails(c) PROVE UsageInv'
  <2>1. Metered'
    BY <1>5 DEF AttemptFails, Goto, UsageInv, TypeOK
  <2>2. \A t \in Tenants : Admitted(t)' \subseteq Admitted(t)
    BY <1>5 DEF AttemptFails, Goto, Admitted, InFlight, TypeOK
  <2> QED BY <2>1, <2>2, <1>5, <1>a, <1>b DEF AttemptFails
<1>6. ASSUME NEW c \in Tasks, NoAttempt(c) PROVE UsageInv'
  <2>1. Metered'
    BY <1>6 DEF NoAttempt, Goto, UsageInv, TypeOK
  <2>2. \A t \in Tenants : Admitted(t)' \subseteq Admitted(t)
    BY <1>6 DEF NoAttempt, Goto, Admitted, InFlight, TypeOK
  <2> QED BY <2>1, <2>2, <1>6, <1>a, <1>b DEF NoAttempt
<1>7. ASSUME NEW c \in Tasks, Wake(c) PROVE UsageInv'
  <2>1. Metered'
    BY <1>7 DEF Wake, Goto, UsageInv, TypeOK
  <2>2. \A t \in Tenants : Admitted(t)' \subseteq Admitted(t)
    BY <1>7 DEF Wake, Goto, Admitted, InFlight, TypeOK
  <2> QED BY <2>1, <2>2, <1>7, <1>a, <1>b DEF Wake
<1>8. ASSUME NEW c \in Tasks, Drop(c) \/ BackoffOverflows(c) PROVE UsageInv'
  <2>1. Metered'
    BY <1>8 DEF Drop, BackoffOverflows, Goto, UsageInv, TypeOK
  <2>2. \A t \in Tenants : Admitted(t)' \subseteq Admitted(t)
    BY <1>8 DEF Drop, BackoffOverflows, Goto, Admitted, InFlight, TypeOK
  <2> QED BY <2>1, <2>2, <1>8, <1>a, <1>b DEF Drop, BackoffOverflows
<1>9. ASSUME NEW c \in Tasks, Charge(c) PROVE UsageInv'
  <2>1. Metered'
    BY <1>9 DEF Charge, Goto, UsageInv, TypeOK
  <2>2. ASSUME NEW t \in Tenants, t # tenant[c] PROVE Bound(t)'
    <3>1. Admitted(t)' = Admitted(t) /\ usage'[t] = usage[t]
      BY <1>9, <2>2 DEF Charge, Goto, Admitted, InFlight, TypeOK
    <3> QED BY <3>1 DEF UsageInv
  <2>3. ASSUME NEW t \in Tenants, t = tenant[c] PROVE Bound(t)'
    <3>1. c \in Admitted(t) /\ Admitted(t)' = Admitted(t) \ {c}
      BY <1>9, <2>3 DEF Charge, Goto, Admitted, InFlight, TypeOK, UsageInv
    <3>2. /\ usage[t] \in Nat /\ spent[c] \in 0..MaxSpend /\ budget_for(t) \in Nat
          /\ usage'[t] = usage[t] + spent[c]
      BY <1>9, <2>3, BudgetType DEF Charge, UsageAfter, TypeOK
    <3> DEFINE b == Cardinality(Admitted(t)')
               n == Cardinality(Tasks)
    <3>3. /\ b \in Nat /\ n \in Nat
          /\ Cardinality(Admitted(t)) = b + 1
      BY <3>1, AdmittedTasks, TaskSets
    <3>4. /\ budget_for(t) # 0
          /\ usage[t] + MaxSpend * (b + 1) <= budget_for(t) - 1 + MaxSpend * n
      BY <3>1, <3>3 DEF UsageInv
    <3>5. MaxSpend * (b + 1) = MaxSpend * b + MaxSpend
      BY <3>3, ScaleSuccessor, ProviderAssumption
    <3>6. MaxSpend \in Nat /\ MaxSpend * b \in Nat /\ MaxSpend * n \in Nat
      BY <3>3, ProviderAssumption
    <3> HIDE DEF b, n
    <3>7. usage'[t] + MaxSpend * b <= budget_for(t) - 1 + MaxSpend * n
      BY <3>2, <3>4, <3>5, <3>6
    <3> QED BY <3>4, <3>7 DEF b, n
  <2> QED BY <2>1, <2>2, <2>3, <1>b
<1> QED
  BY <1>1, <1>2, <1>3, <1>4, <1>5, <1>6, <1>7, <1>8, <1>9 DEF Next, Step

(***************************************************************************)
(* However many requests race between the budget check and the charge      *)
(* (budget.rs:113-130), a tenant is never charged more than its limit less *)
(* one plus one answer per concurrent request.                             *)
(***************************************************************************)
THEOREM OvershootIsBounded == Spec => []OvershootBound
<1>1. Init => UsageInv
  <2> SUFFICES ASSUME Init PROVE UsageInv
    OBVIOUS
  <2>1. \A t \in Tenants : Admitted(t) = {}
    BY DEF Init, Admitted, InFlight
  <2>2. Cardinality({}) = 0 /\ Cardinality(Tasks) \in Nat
    BY FS_EmptySet, FS_CardinalityType, TasksAssumption
  <2>3. MaxSpend * 0 = 0 /\ MaxSpend * Cardinality(Tasks) \in Nat
    BY <2>2, ScaleType, ProviderAssumption
  <2> DEFINE y == MaxSpend * Cardinality(Tasks)
  <2>4. ASSUME NEW t \in Tenants, budget_for(t) # 0
        PROVE  usage[t] + MaxSpend * Cardinality(Admitted(t)) <= budget_for(t) - 1 + y
    <3>1. MaxSpend * Cardinality(Admitted(t)) = 0 /\ usage[t] = 0
      BY <2>1, <2>2, <2>3 DEF Init
    <3> HIDE DEF y
    <3>2. 0 <= budget_for(t) - 1 + y
      BY <2>3, <2>4, BudgetType DEF y
    <3> QED BY <3>1, <3>2
  <2>5. \A t \in Tenants : usage[t] = 0
    BY DEF Init
  <2>6. \A c \in Tasks : pc[c] = "idle"
    BY DEF Init
  <2> QED BY <2>1, <2>4, <2>5, <2>6 DEF UsageInv
<1>2. TypeOK /\ TypeOK' /\ UsageInv /\ [Next]_vars => UsageInv'
  BY UsageStep
<1>3. TypeOK /\ UsageInv => OvershootBound
  <2> SUFFICES ASSUME TypeOK, UsageInv, NEW t \in Tenants, budget_for(t) # 0
               PROVE  usage[t] <= budget_for(t) - 1 + MaxSpend * Cardinality(Tasks)
    BY DEF OvershootBound, UsageInv
  <2> DEFINE x == MaxSpend * Cardinality(Admitted(t))
             y == MaxSpend * Cardinality(Tasks)
  <2>1. Cardinality(Admitted(t)) \in Nat /\ Cardinality(Tasks) \in Nat
    BY AdmittedTasks, TaskSets
  <2>2. x \in Nat /\ y \in Nat
    BY <2>1, ProviderAssumption
  <2>3. usage[t] + x <= budget_for(t) - 1 + y
    BY DEF UsageInv
  <2>4. usage[t] \in Nat /\ budget_for(t) \in Nat
    BY BudgetType DEF TypeOK
  <2> HIDE DEF x, y
  <2>5. usage[t] <= budget_for(t) - 1 + y
    BY <2>2, <2>3, <2>4
  <2> QED BY <2>5 DEF y
<1> QED
  BY <1>1, <1>2, <1>3, TypeCorrect, PTL DEF Spec
-----------------------------------------------------------------------------
(***************************************************************************)
(* The account of what the provider produced.  An answer not yet charged   *)
(* is in `spent` of one admitted request, so the sum over the admitted     *)
(* requests is what usage is behind; unmetered answers only add to it.     *)
(***************************************************************************)
Owed(t) == SetSum(spent, Admitted(t))

AccountInv ==
  /\ \A c \in Tasks :
       /\ pc[c] # "charge" => spent[c] = 0
       /\ pc[c] \in {"check", "charge"} => entry[c] = "complete_for_tenant"
  /\ \A t \in Tenants :
       /\ consumed[t] >= usage[t] + Owed(t)
       /\ EntryPoints = {"complete_for_tenant"} => consumed[t] = usage[t] + Owed(t)

(* The tasks other than c are where they were.                             *)
OnlyTask(c) ==
  \A d \in Tasks \ {c} :
    pc'[d] = pc[d] /\ tenant'[d] = tenant[d] /\ entry'[d] = entry[d] /\ spent'[d] = spent[d]

(* What task c itself owes tenant t, and what the others owe.              *)
OwedBy(c, t) == IF c \in Admitted(t) THEN spent[c] ELSE 0

OwedByOthers(c, t) == SetSum(spent, Admitted(t) \ {c})

LEMMA OwedSplit ==
  ASSUME TypeOK, NEW c \in Tasks, NEW t \in Tenants
  PROVE  /\ OwedByOthers(c, t) \in Nat
         /\ Owed(t) = OwedByOthers(c, t) + OwedBy(c, t)
<1>1. IsFiniteSet(Admitted(t)) /\ IsFiniteSet(Admitted(t) \ {c})
  BY AdmittedTasks, TaskSets
<1>2. \A x \in Admitted(t) : spent[x] \in Nat
  BY AdmittedTasks, ProviderAssumption DEF TypeOK
<1>3. \A x \in Admitted(t) \ {c} : spent[x] \in Nat
  BY <1>2
<1>4. SetSum(spent, Admitted(t) \ {c}) \in Nat
  BY <1>1, <1>3, SumRemove
<1>5. CASE c \in Admitted(t)
  <2>1. SetSum(spent, Admitted(t)) = spent[c] + SetSum(spent, Admitted(t) \ {c})
    BY <1>1, <1>2, <1>5, SumRemove
  <2> QED BY <2>1, <1>2, <1>4, <1>5 DEF Owed, OwedBy, OwedByOthers
<1>6. CASE c \notin Admitted(t)
  <2>1. Admitted(t) \ {c} = Admitted(t)
    BY <1>6
  <2> QED BY <2>1, <1>4, <1>6 DEF Owed, OwedBy, OwedByOthers
<1> QED BY <1>5, <1>6

LEMMA OwedSplitNext ==
  ASSUME TypeOK', NEW c \in Tasks, NEW t \in Tenants
  PROVE  /\ OwedByOthers(c, t)' \in Nat
         /\ Owed(t)' = OwedByOthers(c, t)' + OwedBy(c, t)'
<1>1. IsFiniteSet(Admitted(t)') /\ IsFiniteSet(Admitted(t)' \ {c})
  BY AdmittedTasksNext, TaskSets
<1>2. \A x \in Admitted(t)' : spent'[x] \in Nat
  BY AdmittedTasksNext, ProviderAssumption DEF TypeOK
<1>3. \A x \in Admitted(t)' \ {c} : spent'[x] \in Nat
  BY <1>2
<1>4. SetSum(spent', Admitted(t)' \ {c}) \in Nat
  BY <1>1, <1>3, SumRemove
<1>5. CASE c \in Admitted(t)'
  <2>1. SetSum(spent', Admitted(t)') = spent'[c] + SetSum(spent', Admitted(t)' \ {c})
    BY <1>1, <1>2, <1>5, SumRemove
  <2> QED BY <2>1, <1>2, <1>4, <1>5 DEF Owed, OwedBy, OwedByOthers
<1>6. CASE c \notin Admitted(t)'
  <2>1. Admitted(t)' \ {c} = Admitted(t)'
    BY <1>6
  <2> QED BY <2>1, <1>4, <1>6 DEF Owed, OwedBy, OwedByOthers
<1> QED BY <1>5, <1>6

LEMMA OthersKept ==
  ASSUME NEW c \in Tasks, NEW t \in Tenants, OnlyTask(c)
  PROVE  OwedByOthers(c, t)' = OwedByOthers(c, t)
<1>1. Admitted(t)' \ {c} = Admitted(t) \ {c}
  BY DEF OnlyTask, Admitted, InFlight
<1>2. IsFiniteSet(Admitted(t) \ {c})
  BY AdmittedTasks, TaskSets
<1>3. \A x \in Admitted(t) \ {c} : spent'[x] = spent[x]
  BY AdmittedTasks DEF OnlyTask
<1>4. SetSum(spent', Admitted(t) \ {c}) = SetSum(spent, Admitted(t) \ {c})
  BY <1>2, <1>3, SumAgrees
<1> QED BY <1>1, <1>4 DEF OwedByOthers

(* A step of task c keeps the account when it adds to usage and to what c  *)
(* owes no more than to consumed, and for metered callers exactly as much. *)
LEMMA AccountKept ==
  ASSUME TypeOK, TypeOK', AccountInv, NEW c \in Tasks, OnlyTask(c), NEW t \in Tenants,
         NEW a \in Nat, consumed'[t] = consumed[t] + a,
         usage'[t] + OwedBy(c, t)' <= usage[t] + OwedBy(c, t) + a,
         EntryPoints = {"complete_for_tenant"} =>
           usage'[t] + OwedBy(c, t)' = usage[t] + OwedBy(c, t) + a
  PROVE  /\ consumed'[t] >= usage'[t] + Owed(t)'
         /\ EntryPoints = {"complete_for_tenant"} => consumed'[t] = usage'[t] + Owed(t)'
<1>1. /\ Owed(t) = OwedByOthers(c, t) + OwedBy(c, t)
      /\ Owed(t)' = OwedByOthers(c, t) + OwedBy(c, t)'
      /\ OwedByOthers(c, t) \in Nat
  BY OwedSplit, OwedSplitNext, OthersKept
<1>2. /\ consumed[t] \in Nat /\ usage[t] \in Nat /\ usage'[t] \in Nat
  BY DEF TypeOK
<1>3. OwedBy(c, t) \in Nat /\ OwedBy(c, t)' \in Nat
  BY ProviderAssumption DEF OwedBy, TypeOK
<1>4. /\ consumed[t] >= usage[t] + Owed(t)
      /\ EntryPoints = {"complete_for_tenant"} => consumed[t] = usage[t] + Owed(t)
  BY DEF AccountInv
<1> QED BY <1>1, <1>2, <1>3, <1>4

LEMMA AccountStep ==
  ASSUME TypeOK, TypeOK', AccountInv, [Next]_vars
  PROVE  AccountInv'
<1> DEFINE Settled(c) == /\ pc[c] # "charge" => spent[c] = 0
                         /\ pc[c] \in {"check", "charge"} => entry[c] = "complete_for_tenant"
           Books(t) == /\ consumed[t] >= usage[t] + Owed(t)
                       /\ EntryPoints = {"complete_for_tenant"}
                            => consumed[t] = usage[t] + Owed(t)
<1>0. EntryPoints' = EntryPoints /\ EntryPoints \subseteq {"complete", "complete_for_tenant"}
  BY ConfigKept, ConfigTypes DEF TypeOK
<1>a. ASSUME NEW c \in Tasks, OnlyTask(c), Settled(c)', \A t \in Tenants : Books(t)'
      PROVE  AccountInv'
  <2>1. \A d \in Tasks : Settled(d)'
    BY <1>a DEF OnlyTask, AccountInv
  <2> QED BY <1>a, <2>1 DEF AccountInv
(* Steps of c that charge nothing and are answered nothing.                *)
<1>b. ASSUME NEW c \in Tasks, OnlyTask(c), Settled(c)', spent'[c] = spent[c],
             pc[c] # "charge", usage' = usage, consumed' = consumed
      PROVE  AccountInv'
  <2> SUFFICES ASSUME NEW t \in Tenants PROVE Books(t)'
    BY <1>a, <1>b
  <2>1. OwedBy(c, t) = 0 /\ OwedBy(c, t)' = 0
    BY <1>b DEF OwedBy, AccountInv
  <2>2. consumed[t] \in Nat /\ usage[t] \in Nat
    BY DEF TypeOK
  <2>3. /\ consumed'[t] = consumed[t] + 0
        /\ usage'[t] + OwedBy(c, t)' = usage[t] + OwedBy(c, t) + 0
        /\ usage'[t] + OwedBy(c, t)' <= usage[t] + OwedBy(c, t) + 0
    BY <1>b, <2>1, <2>2
  <2> QED BY <1>b, <1>0, <2>3, AccountKept
<1> HIDE DEF Settled, Books
<1>1. CASE UNCHANGED vars
  BY <1>1, <1>0 DEF vars, AccountInv, Owed, Admitted, InFlight
<1>2. ASSUME NEW c \in Tasks, Start(c) PROVE AccountInv'
  <2>1. OnlyTask(c) /\ usage' = usage /\ consumed' = consumed /\ spent' = spent
    BY <1>2 DEF Start, Goto, OnlyTask, TypeOK
  <2>2. Settled(c)' /\ pc[c] # "charge"
    BY <1>2, <1>0 DEF Start, Goto, AccountInv, TypeOK, Settled
  <2> QED BY <2>1, <2>2, <1>b
<1>3. ASSUME NEW c \in Tasks, CheckBudget(c) PROVE AccountInv'
  <2>0. PICK label \in {"call", "exceeded"} : Goto(c, label)
    BY <1>3 DEF CheckBudget
  <2>1. OnlyTask(c) /\ usage' = usage /\ consumed' = consumed /\ spent' = spent
    BY <1>3, <2>0 DEF CheckBudget, Goto, OnlyTask, TypeOK
  <2>2. Settled(c)' /\ pc[c] # "charge"
    BY <1>3, <2>0 DEF CheckBudget, Goto, AccountInv, TypeOK, Settled
  <2> QED BY <2>1, <2>2, <1>b
<1>4. ASSUME NEW c \in Tasks, AttemptSucceeds(c) PROVE AccountInv'
  <2>1. PICK s \in Spends :
          /\ consumed' = [consumed EXCEPT ![tenant[c]] = @ + s]
          /\ spent' = [spent EXCEPT ![c] =
                         IF entry[c] = "complete_for_tenant" THEN s ELSE 0]
    BY <1>4 DEF AttemptSucceeds
  <2>2. /\ pc[c] = "call" /\ usage' = usage /\ tenant' = tenant /\ entry' = entry
        /\ pc' = [pc EXCEPT ![c] =
                    IF entry[c] = "complete_for_tenant" THEN "charge" ELSE "ok"]
    BY <1>4 DEF AttemptSucceeds, Goto
  <2>3. OnlyTask(c) /\ spent[c] = 0
    BY <2>1, <2>2 DEF OnlyTask, TypeOK, AccountInv
  <2>4. Settled(c)'
    BY <2>1, <2>2 DEF Settled, TypeOK
  <2>5. s \in Nat
    BY ProviderAssumption
  <2>6. ASSUME NEW t \in Tenants PROVE Books(t)'
    <3>0. consumed[t] \in Nat /\ usage[t] \in Nat
      BY DEF TypeOK
    <3>1. OwedBy(c, t) = 0
      BY <2>3 DEF OwedBy
    <3>2. CASE t # tenant[c]
      <4>1. c \notin Admitted(t)' /\ consumed'[t] = consumed[t] + 0
        BY <2>1, <2>2, <3>2, <3>0 DEF Admitted, InFlight, TypeOK
      <4>2. OwedBy(c, t)' = 0
        BY <4>1 DEF OwedBy
      <4>3. /\ usage'[t] + OwedBy(c, t)' = usage[t] + OwedBy(c, t) + 0
            /\ usage'[t] + OwedBy(c, t)' <= usage[t] + OwedBy(c, t) + 0
        BY <2>2, <3>0, <3>1, <4>2
      <4> QED BY <2>3, <1>0, <4>1, <4>3, AccountKept DEF Books
    <3>3. CASE t = tenant[c] /\ entry[c] = "complete_for_tenant"
      <4>1. /\ c \in Admitted(t)' /\ consumed'[t] = consumed[t] + s /\ spent'[c] = s
        BY <2>1, <2>2, <3>3 DEF Admitted, InFlight, TypeOK
      <4>2. OwedBy(c, t)' = s
        BY <4>1 DEF OwedBy
      <4>3. /\ usage'[t] + OwedBy(c, t)' = usage[t] + OwedBy(c, t) + s
            /\ usage'[t] + OwedBy(c, t)' <= usage[t] + OwedBy(c, t) + s
        BY <2>2, <2>5, <3>0, <3>1, <4>2
      <4> QED BY <2>3, <2>5, <1>0, <4>1, <4>3, AccountKept DEF Books
    <3>4. CASE t = tenant[c] /\ entry[c] # "complete_for_tenant"
      <4>1. c \notin Admitted(t)' /\ consumed'[t] = consumed[t] + s
        BY <2>1, <2>2, <3>4 DEF Admitted, InFlight, TypeOK
      <4>2. OwedBy(c, t)' = 0 /\ EntryPoints # {"complete_for_tenant"}
        BY <4>1, <3>4 DEF OwedBy, TypeOK
      <4>3. usage'[t] + OwedBy(c, t)' <= usage[t] + OwedBy(c, t) + s
        BY <2>2, <2>5, <3>0, <3>1, <4>2
      <4> QED BY <2>3, <2>5, <1>0, <4>1, <4>2, <4>3, AccountKept DEF Books
    <3> QED BY <3>2, <3>3, <3>4
  <2> QED BY <2>3, <2>4, <2>6, <1>a
<1>5. ASSUME NEW c \in Tasks, AttemptFails(c) PROVE AccountInv'
  <2>1. OnlyTask(c) /\ usage' = usage /\ consumed' = consumed /\ spent' = spent
    BY <1>5 DEF AttemptFails, Goto, OnlyTask, TypeOK
  <2>2. Settled(c)' /\ pc[c] # "charge"
    BY <1>5 DEF AttemptFails, Goto, AccountInv, TypeOK, Settled
  <2> QED BY <2>1, <2>2, <1>b
<1>6. ASSUME NEW c \in Tasks, NoAttempt(c) PROVE AccountInv'
  <2>1. OnlyTask(c) /\ usage' = usage /\ consumed' = consumed /\ spent' = spent
    BY <1>6 DEF NoAttempt, Goto, OnlyTask, TypeOK
  <2>2. Settled(c)' /\ pc[c] # "charge"
    BY <1>6 DEF NoAttempt, Goto, AccountInv, TypeOK, Settled
  <2> QED BY <2>1, <2>2, <1>b
<1>7. ASSUME NEW c \in Tasks, Wake(c) PROVE AccountInv'
  <2>1. OnlyTask(c) /\ usage' = usage /\ consumed' = consumed /\ spent' = spent
    BY <1>7 DEF Wake, Goto, OnlyTask, TypeOK
  <2>2. Settled(c)' /\ pc[c] # "charge"
    BY <1>7 DEF Wake, Goto, AccountInv, TypeOK, Settled
  <2> QED BY <2>1, <2>2, <1>b
<1>8. ASSUME NEW c \in Tasks, Drop(c) \/ BackoffOverflows(c) PROVE AccountInv'
  <2>1. OnlyTask(c) /\ usage' = usage /\ consumed' = consumed /\ spent' = spent
    BY <1>8 DEF Drop, BackoffOverflows, Goto, OnlyTask, TypeOK
  <2>2. Settled(c)' /\ pc[c] # "charge"
    BY <1>8 DEF Drop, BackoffOverflows, Goto, AccountInv, TypeOK, Settled
  <2> QED BY <2>1, <2>2, <1>b
<1>9. ASSUME NEW c \in Tasks, Charge(c) PROVE AccountInv'
  <2>1. /\ pc[c] = "charge" /\ consumed' = consumed /\ tenant' = tenant /\ entry' = entry
        /\ usage' = [usage EXCEPT ![tenant[c]] = @ + spent[c]]
        /\ spent' = [spent EXCEPT ![c] = 0] /\ pc' = [pc EXCEPT ![c] = "ok"]
    BY <1>9 DEF Charge, UsageAfter, Goto
  <2>2. OnlyTask(c)
    BY <2>1 DEF OnlyTask, TypeOK
  <2>3. Settled(c)' /\ spent'[c] = 0
    BY <2>1 DEF Settled, TypeOK
  <2>4. ASSUME NEW t \in Tenants PROVE Books(t)'
    <3>0. consumed[t] \in Nat /\ usage[t] \in Nat /\ spent[c] \in Nat
      BY ProviderAssumption DEF TypeOK
    <3>1. OwedBy(c, t)' = 0
      BY <2>3 DEF OwedBy
    <3>2. usage'[t] = usage[t] + OwedBy(c, t)
      <4>1. c \in Admitted(t) <=> t = tenant[c]
        BY <2>1 DEF Admitted, InFlight, AccountInv
      <4> QED BY <2>1, <3>0, <4>1 DEF OwedBy, TypeOK
    <3>3. OwedBy(c, t) \in Nat
      BY <3>0 DEF OwedBy
    <3>4. /\ consumed'[t] = consumed[t] + 0
          /\ usage'[t] + OwedBy(c, t)' = usage[t] + OwedBy(c, t) + 0
          /\ usage'[t] + OwedBy(c, t)' <= usage[t] + OwedBy(c, t) + 0
      BY <2>1, <3>0, <3>1, <3>2, <3>3
    <3> QED BY <2>2, <1>0, <3>4, AccountKept DEF Books
  <2> QED BY <2>2, <2>3, <2>4, <1>a
<1> QED
  BY <1>1, <1>2, <1>3, <1>4, <1>5, <1>6, <1>7, <1>8, <1>9 DEF Next, Step

LEMMA AccountInit == Init => AccountInv
<1> SUFFICES ASSUME Init PROVE AccountInv
  OBVIOUS
<1>1. \A t \in Tenants : Owed(t) = 0
  <2> SUFFICES ASSUME NEW t \in Tenants PROVE Owed(t) = 0
    OBVIOUS
  <2>1. Admitted(t) = {} /\ IsFiniteSet({})
    BY FS_EmptySet DEF Init, Admitted, InFlight
  <2> QED BY <2>1, SumUnfolds DEF Owed
<1>2. /\ \A c \in Tasks : pc[c] = "idle" /\ spent[c] = 0
      /\ \A t \in Tenants : usage[t] = 0 /\ consumed[t] = 0
  BY DEF Init
<1> QED BY <1>1, <1>2 DEF AccountInv

LEMMA AccountAlways == Spec => [](TypeOK /\ AccountInv)
<1>1. TypeOK /\ TypeOK' /\ AccountInv /\ [Next]_vars => AccountInv'
  BY AccountStep
<1> QED
  BY <1>1, AccountInit, TypeCorrect, PTL DEF Spec

(***************************************************************************)
(* Every answer the provider gave a metered request is in its tenant's     *)
(* usage or with a request that is about to charge it: the two locked      *)
(* sections of budget.rs:113-130 lose nothing and charge nothing twice.    *)
(***************************************************************************)
THEOREM ConsumptionIsAccounted == Spec => []ConsumptionAccounted
<1>1. AccountInv => ConsumptionAccounted
  BY DEF AccountInv, ConsumptionAccounted, Owed, SetSum
<1> QED
  BY <1>1, AccountAlways, PTL

-----------------------------------------------------------------------------
LEMMA UsageConsumed ==
  ASSUME TypeOK, AccountInv, NEW t \in Tenants
  PROVE  usage[t] <= consumed[t]
<1>1. Owed(t) \in Nat
  <2>1. IsFiniteSet(Admitted(t))
    BY AdmittedTasks, TaskSets
  <2>2. \A x \in Admitted(t) : spent[x] \in Nat
    BY AdmittedTasks, ProviderAssumption DEF TypeOK
  <2> QED BY <2>1, <2>2, SumRemove DEF Owed
<1> QED BY <1>1 DEF AccountInv, TypeOK

LEMMA ConsumedGrows ==
  ASSUME TypeOK, [Next]_vars, NEW t \in Tenants
  PROVE  consumed[t] <= consumed'[t]
<1>1. consumed[t] \in Nat
  BY DEF TypeOK
<1>2. ASSUME NEW c \in Tasks, AttemptSucceeds(c) PROVE consumed[t] <= consumed'[t]
  <2>1. PICK s \in Spends : consumed' = [consumed EXCEPT ![tenant[c]] = @ + s]
    BY <1>2 DEF AttemptSucceeds
  <2>2. s \in Nat
    BY ProviderAssumption
  <2> QED BY <1>1, <2>1, <2>2 DEF TypeOK
<1>3. CASE consumed' = consumed
  BY <1>1, <1>3
<1> QED
  BY <1>2, <1>3 DEF Next, Step, vars, Start, CheckBudget, AttemptFails, NoAttempt, Wake,
                    BackoffOverflows, Drop, Charge

LEMMA RejectedStep ==
  ASSUME TypeOK, TypeOK', AccountInv, RejectedOnlyWhenSpent, [Next]_vars
  PROVE  RejectedOnlyWhenSpent'
<1> SUFFICES ASSUME NEW c \in Tasks, pc'[c] = "exceeded"
             PROVE  consumed'[tenant'[c]] >= budget_for(tenant'[c])
  BY DEF RejectedOnlyWhenSpent, budget_for
<1>1. CASE pc[c] = "exceeded"
  <2>1. tenant'[c] = tenant[c]
    <3>1. ASSUME NEW d \in Tasks, Start(d) PROVE tenant'[c] = tenant[c]
      BY <3>1, <1>1 DEF Start, Goto, TypeOK
    <3> QED
      BY <3>1 DEF Next, Step, vars, CheckBudget, AttemptSucceeds, AttemptFails, NoAttempt,
                  Wake, BackoffOverflows, Drop, Charge
  <2>2. consumed[tenant[c]] >= budget_for(tenant[c]) /\ tenant[c] \in Tenants
    BY <1>1 DEF RejectedOnlyWhenSpent, TypeOK
  <2>3. consumed[tenant[c]] <= consumed'[tenant[c]]
    BY <2>2, ConsumedGrows
  <2>4. /\ consumed[tenant[c]] \in Nat /\ budget_for(tenant[c]) \in Nat
        /\ consumed'[tenant[c]] \in Nat
    BY <2>2, BudgetType DEF TypeOK
  <2> QED BY <2>1, <2>2, <2>3, <2>4
<1>2. CASE pc[c] # "exceeded"
  <2>1. CheckBudget(c)
    <3>1. ASSUME NEW d \in Tasks, Start(d) \/ Step(d) \/ Drop(d) PROVE d = c /\ CheckBudget(d)
      <4>1. ~Start(d)
        BY <1>2 DEF Start, Goto, TypeOK
      <4>2. ~AttemptSucceeds(d) /\ ~NoAttempt(d)
        BY <1>2 DEF AttemptSucceeds, NoAttempt, Goto, TypeOK
      <4>3. ~AttemptFails(d)
        BY <1>2 DEF AttemptFails, Goto, TypeOK
      <4>4. ~Wake(d) /\ ~BackoffOverflows(d) /\ ~Drop(d) /\ ~Charge(d)
        BY <1>2 DEF Wake, BackoffOverflows, Drop, Charge, Goto, TypeOK
      <4>5. CheckBudget(d)
        BY <3>1, <4>1, <4>2, <4>3, <4>4 DEF Step
      <4>6. d = c
        BY <1>2, <4>5 DEF CheckBudget, Goto, TypeOK
      <4> QED BY <4>5, <4>6
    <3>2. ~UNCHANGED vars
      BY <1>2 DEF vars
    <3> QED BY <3>1, <3>2 DEF Next
  <2>2. ~HasBudgetLeft(tenant[c]) /\ tenant' = tenant /\ consumed' = consumed
    BY <2>1 DEF CheckBudget, Goto, TypeOK
  <2>3. tenant[c] \in Tenants
    BY DEF TypeOK
  <2>4. /\ usage[tenant[c]] <= consumed[tenant[c]] /\ usage[tenant[c]] \in Nat
        /\ consumed[tenant[c]] \in Nat /\ budget_for(tenant[c]) \in Nat
    BY <2>3, UsageConsumed, BudgetType DEF TypeOK
  <2> QED BY <2>2, <2>4 DEF HasBudgetLeft
<1> QED BY <1>1, <1>2

(***************************************************************************)
(* A refusal for want of budget (budget.rs:116) means that the provider    *)
(* has produced the tenant's whole budget, whatever other tenants,         *)
(* retries, failures and unmetered callers did.                            *)
(***************************************************************************)
THEOREM RejectionsAreEarned == Spec => []RejectedOnlyWhenSpent
<1>1. Init => RejectedOnlyWhenSpent
  BY DEF Init, RejectedOnlyWhenSpent
<1>2. TypeOK /\ TypeOK' /\ AccountInv /\ RejectedOnlyWhenSpent /\ [Next]_vars
      => RejectedOnlyWhenSpent'
  BY RejectedStep
<1> QED
  BY <1>1, <1>2, AccountAlways, PTL DEF Spec

LEMMA DoorStep ==
  ASSUME TypeOK, AccountInv, [Next]_vars, EntryPoints = {"complete_for_tenant"}
  PROVE  SpentTenantStaysOut
<1> SUFFICES ASSUME NEW t \in Tenants, consumed[t] >= budget_for(t), InFlight(t) = {},
                    NEW d \in Tasks, d \in InFlight(t)'
             PROVE  FALSE
  BY DEF SpentTenantStaysOut, InFlight
<1>1. usage[t] >= budget_for(t) /\ usage[t] \in Nat /\ budget_for(t) \in Nat
  <2>1. Admitted(t) = {} /\ IsFiniteSet({})
    BY FS_EmptySet DEF Admitted
  <2>2. Owed(t) = 0
    BY <2>1, SumUnfolds DEF Owed
  <2> QED BY <2>2, BudgetType DEF AccountInv, TypeOK
<1>2. /\ pc'[d] \in {"call", "sleep", "charge"} /\ tenant'[d] = t
      /\ ~(pc[d] \in {"call", "sleep", "charge"} /\ tenant[d] = t)
  BY DEF InFlight
<1>3. ASSUME NEW c \in Tasks, Start(c) PROVE FALSE
  <2>1. pc' = [pc EXCEPT ![c] = "check"]
    BY <1>3 DEF Start, Goto
  <2> QED BY <1>2, <1>3, <2>1 DEF Start, TypeOK
<1>4. ASSUME NEW c \in Tasks, CheckBudget(c) PROVE FALSE
  <2>1. tenant' = tenant /\ (pc'[d] = pc[d] \/ (c = d /\ HasBudgetLeft(tenant[d])))
    BY <1>4, <1>2 DEF CheckBudget, Goto, TypeOK
  <2> QED BY <1>1, <1>2, <2>1 DEF HasBudgetLeft
<1>5. ASSUME NEW c \in Tasks,
             \/ AttemptSucceeds(c) \/ AttemptFails(c) \/ NoAttempt(c)
             \/ Wake(c) \/ BackoffOverflows(c) \/ Drop(c) \/ Charge(c)
      PROVE  FALSE
  <2>1. tenant' = tenant /\ pc[c] \in {"call", "sleep", "charge"}
    BY <1>5 DEF AttemptSucceeds, AttemptFails, NoAttempt, Wake, BackoffOverflows, Drop, Charge
  <2>2. d # c => pc'[d] = pc[d]
    BY <1>5 DEF AttemptSucceeds, AttemptFails, NoAttempt, Wake, BackoffOverflows, Drop,
                Charge, Goto, TypeOK
  <2> QED BY <1>2, <2>1, <2>2
<1>6. ~UNCHANGED vars
  BY <1>2 DEF vars
<1> QED BY <1>3, <1>4, <1>5, <1>6 DEF Next, Step

(***************************************************************************)
(* While callers use complete_for_tenant, a tenant that has consumed its   *)
(* budget and has nothing in progress never gets a request past the check  *)
(* again (budget.rs:63-67, 113-123).                                       *)
(***************************************************************************)
THEOREM SpentTenantsStayOut == Spec => DoorStaysShut
<1>1. TypeOK /\ AccountInv /\ [Next]_vars
      => [EntryPoints = {"complete_for_tenant"} => SpentTenantStaysOut]_vars
  BY DoorStep
<1> QED
  BY <1>1, AccountAlways, PTL DEF Spec, DoorStaysShut

-----------------------------------------------------------------------------
(***************************************************************************)
(* The backoff.  The loop multiplies and caps step by step, the schedule   *)
(* caps the whole product once; they agree because multiplying keeps the   *)
(* order: when the cap does not shrink, a value above it stays above it,   *)
(* and when it does, no value below it ever reaches it again.              *)
(***************************************************************************)
(* The equation of the function that Multiplied defines.                        *)
Products(g, m, b, k) == g = [j \in 0..k |-> IF j = 0 THEN b ELSE Product(m, g[j - 1])]

LEMMA ProductsValues ==
  ASSUME NEW g, NEW m, NEW b, NEW k \in Nat
  PROVE  Products(g, m, b, k) <=>
           /\ g = [j \in 0..k |-> g[j]]
           /\ g[0] = b
           /\ \A j \in 0..k : j # 0 => g[j] = Product(m, g[j - 1])
BY DEF Products

LEMMA ProductsExist ==
  ASSUME NEW m, NEW b
  PROVE  \A k \in Nat : \E g : Products(g, m, b, k)
<1> DEFINE S == {k \in Nat : \E g : Products(g, m, b, k)}
<1>1. 0 \in S
  <2> DEFINE g == [j \in 0..0 |-> b]
  <2>1. g = [j \in 0..0 |-> g[j]] /\ g[0] = b /\ \A j \in 0..0 : j = 0
    OBVIOUS
  <2> HIDE DEF g
  <2>2. Products(g, m, b, 0)
    BY <2>1, ProductsValues
  <2> QED BY <2>2
<1>2. ASSUME NEW k \in Nat, k \in S PROVE k + 1 \in S
  <2>1. PICK g : Products(g, m, b, k)
    BY <1>2
  <2>2. g[0] = b /\ \A j \in 0..k : j # 0 => g[j] = Product(m, g[j - 1])
    BY <2>1, ProductsValues
  <2> DEFINE h == [j \in 0..(k + 1) |-> IF j = k + 1 THEN Product(m, g[k]) ELSE g[j]]
  <2>3. h = [j \in 0..(k + 1) |-> h[j]] /\ h[0] = b
    BY <2>2
  <2>4. ASSUME NEW j \in 0..(k + 1), j # 0 PROVE h[j] = Product(m, h[j - 1])
    <3>1. CASE j = k + 1
      <4>1. j - 1 = k /\ k \in 0..(k + 1) /\ k # k + 1
        BY <3>1
      <4> QED BY <3>1, <4>1
    <3>2. CASE j # k + 1
      <4>1. j \in 0..k /\ j - 1 \in 0..(k + 1) /\ j - 1 # k + 1
        BY <2>4, <3>2
      <4> QED BY <2>2, <2>4, <3>2, <4>1
    <3> QED BY <3>1, <3>2
  <2> HIDE DEF h
  <2>5. Products(h, m, b, k + 1)
    <3>1. k + 1 \in Nat
      OBVIOUS
    <3> QED BY <2>3, <2>4, <3>1, ProductsValues
  <2> QED BY <2>5
<1> HIDE DEF S
<1>3. Nat \subseteq S
  BY <1>1, <1>2, SetInduction
<1> QED BY <1>3 DEF S

LEMMA ProductsAgree ==
  ASSUME NEW m, NEW b, NEW k \in Nat, NEW g, NEW h, Products(g, m, b, k), Products(h, m, b, k + 1)
  PROVE  g[k] = h[k]
<1> DEFINE S == {j \in Nat : j <= k => g[j] = h[j]}
<1>1. /\ g[0] = b /\ \A j \in 0..k : j # 0 => g[j] = Product(m, g[j - 1])
      /\ h[0] = b /\ \A j \in 0..(k + 1) : j # 0 => h[j] = Product(m, h[j - 1])
  <2>1. k + 1 \in Nat
    OBVIOUS
  <2> QED BY <2>1, ProductsValues
<1>2. 0 \in S
  BY <1>1
<1>3. ASSUME NEW j \in Nat, j \in S PROVE j + 1 \in S
  <2> SUFFICES ASSUME j + 1 <= k PROVE g[j + 1] = h[j + 1]
    OBVIOUS
  <2>1. g[j] = h[j] /\ j + 1 \in 0..k /\ j + 1 \in 0..(k + 1) /\ j + 1 # 0
        /\ (j + 1) - 1 = j
    BY <1>3
  <2> QED BY <1>1, <2>1
<1> HIDE DEF S
<1>4. Nat \subseteq S
  BY <1>2, <1>3, SetInduction
<1> QED BY <1>4 DEF S

LEMMA MultipliedIsTabled ==
  ASSUME NEW m, NEW b, NEW k \in Nat
  PROVE  \E g : Products(g, m, b, k) /\ Multiplied(m, b, k) = g[k]
<1>1. Multiplied(m, b, k) = (CHOOSE g : Products(g, m, b, k))[k]
  BY DEF Multiplied, Products
<1>2. \E g : Products(g, m, b, k)
  BY ProductsExist
<1> QED BY <1>1, <1>2

LEMMA MultipliedZero == ASSUME NEW m, NEW b PROVE Multiplied(m, b, 0) = b
<1>1. PICK g : Products(g, m, b, 0) /\ Multiplied(m, b, 0) = g[0]
  BY MultipliedIsTabled
<1> QED BY <1>1, ProductsValues

LEMMA MultipliedNext ==
  ASSUME NEW m, NEW b, NEW k \in Nat
  PROVE  Multiplied(m, b, k + 1) = Product(m, Multiplied(m, b, k))
<1>1. PICK g : Products(g, m, b, k) /\ Multiplied(m, b, k) = g[k]
  BY MultipliedIsTabled
<1>2. PICK h : Products(h, m, b, k + 1) /\ Multiplied(m, b, k + 1) = h[k + 1]
  BY MultipliedIsTabled
<1>3. g[k] = h[k]
  BY <1>1, <1>2, ProductsAgree
<1>4. h[k + 1] = Product(m, h[(k + 1) - 1])
  <2>1. k + 1 \in Nat /\ k + 1 \in 0..(k + 1) /\ k + 1 # 0
    OBVIOUS
  <2> QED BY <1>2, <2>1, ProductsValues
<1>5. (k + 1) - 1 = k
  OBVIOUS
<1> QED BY <1>1, <1>2, <1>3, <1>4, <1>5

LEMMA ScaledNext ==
  ASSUME NEW b, NEW k \in Nat
  PROVE  Multiplied(BackoffMultiplier, b, k + 1) = Scaled(Multiplied(BackoffMultiplier, b, k))
  BY MultipliedNext DEF Scaled

LEMMA MultipliedType ==
  ASSUME config \in Configs, NEW b \in 0..Beyond
  PROVE  \A k \in Nat : Multiplied(BackoffMultiplier, b, k) \in 0..Beyond
<1> DEFINE S == {k \in Nat : Multiplied(BackoffMultiplier, b, k) \in 0..Beyond}
<1>1. 0 \in S
  BY MultipliedZero
<1>2. ASSUME NEW k \in Nat, k \in S PROVE k + 1 \in S
  BY <1>2, ScaledNext, ScaledTypes
<1> HIDE DEF S
<1>3. Nat \subseteq S
  BY <1>1, <1>2, SetInduction
<1> QED BY <1>3 DEF S

(* With a cap that does not shrink, capping before the multiplication and  *)
(* after it is capping after it.                                           *)
LEMMA CapOnce ==
  ASSUME config \in Configs, Scaled(MaxBackoff) >= MaxBackoff, NEW x \in 0..Beyond
  PROVE  NextBackoff(Smaller(x, MaxBackoff)) = NextBackoff(x)
<1>1. MaxBackoff \in 0..Beyond
  BY ConfigTypes DEF Beyond
<1>2. Beyond \in Nat /\ Scaled(x) \in 0..Beyond /\ Scaled(MaxBackoff) \in 0..Beyond
      /\ (MaxBackoff <= x => Scaled(MaxBackoff) <= Scaled(x))
  BY <1>1, ScaledTypes
<1>3. CASE x < MaxBackoff
  BY <1>3 DEF Smaller
<1>4. CASE ~(x < MaxBackoff)
  <2>1. MaxBackoff <= x
    BY <1>1, <1>2, <1>4
  <2>2. Smaller(x, MaxBackoff) = MaxBackoff
    BY <1>4 DEF Smaller
  <2>3. Scaled(x) >= MaxBackoff
    BY <1>1, <1>2, <2>1
  <2>4. Smaller(Scaled(x), MaxBackoff) = MaxBackoff
    BY <1>1, <1>2, <2>3 DEF Smaller
  <2>5. Smaller(Scaled(MaxBackoff), MaxBackoff) = MaxBackoff
    BY <1>1, <1>2 DEF Smaller
  <2> QED BY <2>2, <2>4, <2>5 DEF NextBackoff
<1> QED BY <1>3, <1>4

(* With a cap that shrinks, a capped backoff is multiplied uncapped.       *)
LEMMA CapUnreached ==
  ASSUME config \in Configs, ~(Scaled(MaxBackoff) >= MaxBackoff), NEW x \in 0..MaxBackoff
  PROVE  NextBackoff(x) = Scaled(x) /\ Scaled(x) \in 0..MaxBackoff
<1>1. MaxBackoff \in 0..Beyond /\ x \in 0..Beyond /\ x <= MaxBackoff
  BY ConfigTypes DEF Beyond
<1>2. Beyond \in Nat /\ Scaled(x) \in 0..Beyond /\ Scaled(MaxBackoff) \in 0..Beyond
      /\ Scaled(x) <= Scaled(MaxBackoff)
  BY <1>1, ScaledTypes
<1>3. Scaled(x) < MaxBackoff
  BY <1>1, <1>2
<1> QED BY <1>1, <1>2, <1>3 DEF NextBackoff, Smaller

LEMMA CapNeverReached ==
  ASSUME config \in Configs, ~(Scaled(MaxBackoff) >= MaxBackoff), NEW b \in 0..MaxBackoff
  PROVE  \A k \in Nat : Multiplied(BackoffMultiplier, b, k) \in 0..MaxBackoff
<1> DEFINE S == {k \in Nat : Multiplied(BackoffMultiplier, b, k) \in 0..MaxBackoff}
<1>1. 0 \in S
  BY MultipliedZero
<1>2. ASSUME NEW k \in Nat, k \in S PROVE k + 1 \in S
  BY <1>2, ScaledNext, CapUnreached
<1> HIDE DEF S
<1>3. Nat \subseteq S
  BY <1>1, <1>2, SetInduction
<1> QED BY <1>3 DEF S

LEMMA ScheduleNext ==
  ASSUME config \in Configs, NEW k \in Nat \ {0}
  PROVE  NextBackoff(Scheduled(k)) = Scheduled(k + 1)
<1> DEFINE Times(b, j) == Multiplied(BackoffMultiplier, b, j)
           i == InitialBackoff
<1>0. i \in 0..Beyond /\ MaxBackoff \in 0..LongestSleep
  BY ConfigTypes DEF Beyond
<1>1. /\ k - 1 \in Nat /\ (k - 1) + 1 = k /\ (k + 1) - 1 = k /\ (k + 1) - 2 = k - 1
      /\ k + 1 # 1
  OBVIOUS
<1>2. CASE Scaled(MaxBackoff) >= MaxBackoff
  <2>1. Times(i, k) = Scaled(Times(i, k - 1)) /\ Times(i, k - 1) \in 0..Beyond
    <3>1. Times(i, (k - 1) + 1) = Scaled(Times(i, k - 1))
      BY <1>1, ScaledNext
    <3> QED BY <1>0, <1>1, <3>1, MultipliedType
  <2>2. Scheduled(k + 1) = NextBackoff(Times(i, k - 1))
    BY <1>1, <1>2, <2>1 DEF Scheduled, NextBackoff
  <2>3. CASE k = 1
    <3>1. Times(i, k - 1) = i
      BY <2>3, MultipliedZero
    <3> QED BY <2>2, <2>3, <3>1 DEF Scheduled
  <2>4. CASE k # 1
    <3>1. Scheduled(k) = Smaller(Times(i, k - 1), MaxBackoff)
      BY <1>2, <2>4 DEF Scheduled
    <3> QED BY <1>2, <2>1, <2>2, <3>1, CapOnce
  <2> QED BY <2>3, <2>4
<1>3. CASE ~(Scaled(MaxBackoff) >= MaxBackoff)
  <2>1. NextBackoff(i) \in 0..MaxBackoff
    BY <1>0, ScaledTypes
  <2>2. Scheduled(k + 1) = Times(NextBackoff(i), k - 1)
    BY <1>1, <1>3 DEF Scheduled
  <2>3. CASE k = 1
    <3>1. Times(NextBackoff(i), k - 1) = NextBackoff(i)
      BY <2>3, MultipliedZero
    <3> QED BY <2>2, <2>3, <3>1 DEF Scheduled
  <2>4. CASE k # 1
    <3>1. k - 2 \in Nat /\ (k - 2) + 1 = k - 1
      BY <2>4
    <3>2. Times(NextBackoff(i), k - 2) \in 0..MaxBackoff
      BY <1>3, <2>1, <3>1, CapNeverReached
    <3>3. Times(NextBackoff(i), (k - 2) + 1) = Scaled(Times(NextBackoff(i), k - 2))
      BY <3>1, ScaledNext
    <3>4. Scheduled(k) = Times(NextBackoff(i), k - 2)
      BY <1>3, <2>4 DEF Scheduled
    <3> QED BY <1>3, <2>2, <3>1, <3>2, <3>3, <3>4, CapUnreached
  <2> QED BY <2>3, <2>4
<1> QED BY <1>2, <1>3

(* A request that is about to make an attempt has that attempt's backoff.  *)
BackoffInv ==
  \A c \in Tasks :
    /\ pc[c] \in {"check", "call", "sleep"} => backoff[c] = Scheduled(attempt[c])
    /\ pc[c] = "check" => attempt[c] = 1

LEMMA BackoffStep ==
  ASSUME TypeOK, TypeOK', BackoffInv, [Next]_vars
  PROVE  BackoffInv'
<1> DEFINE Timed(c) == /\ pc[c] \in {"check", "call", "sleep"}
                            => backoff[c] = Scheduled(attempt[c])
                       /\ pc[c] = "check" => attempt[c] = 1
<1>0. /\ config \in Configs
      /\ \A c \in Tasks : attempt[c] \in Nat \ {0} /\ attempt'[c] \in Nat
      /\ InitialBackoff' = InitialBackoff
  BY ConfigTypes, ConfigKept DEF TypeOK, InitialBackoff
<1>a. ASSUME NEW k \in Nat PROVE Scheduled(k)' = Scheduled(k)
  BY ConfigKept DEF Scheduled, NextBackoff, Scaled, InitialBackoff, BackoffMultiplier, MaxBackoff
<1>b. ASSUME NEW c \in Tasks, Timed(c)',
             \A d \in Tasks \ {c} :
               pc'[d] = pc[d] /\ attempt'[d] = attempt[d] /\ backoff'[d] = backoff[d]
      PROVE  BackoffInv'
  <2> SUFFICES ASSUME NEW d \in Tasks, d # c PROVE Timed(d)'
    BY <1>b DEF BackoffInv
  <2>1. Scheduled(attempt[d])' = Scheduled(attempt'[d])
    BY <1>0, <1>a DEF Scheduled, NextBackoff, Scaled, InitialBackoff, BackoffMultiplier, MaxBackoff
  <2>2. Timed(d) /\ pc'[d] = pc[d] /\ attempt'[d] = attempt[d] /\ backoff'[d] = backoff[d]
    BY <1>b DEF BackoffInv
  <2> QED BY <2>1, <2>2
(* A step to a resting state, or one that keeps the attempt.               *)
<1>c. ASSUME NEW c \in Tasks, attempt' = attempt, backoff' = backoff,
             pc'[c] \in {"check", "call", "sleep"} => pc[c] \in {"check", "call", "sleep"},
             pc'[c] # "check"
      PROVE  Timed(c)'
  <2>1. Scheduled(attempt[c])' = Scheduled(attempt'[c])
    BY <1>0, <1>a DEF Scheduled, NextBackoff, Scaled, InitialBackoff, BackoffMultiplier, MaxBackoff
  <2> QED BY <1>c, <2>1 DEF BackoffInv
(* The next attempt, with the next backoff.                                *)
<1>d. ASSUME NEW c \in Tasks, pc[c] \in {"call", "sleep"}, pc'[c] = "call",
             attempt'[c] = attempt[c] + 1, backoff'[c] = NextBackoff(backoff[c])
      PROVE  Timed(c)'
  <2>1. backoff[c] = Scheduled(attempt[c])
    BY <1>d DEF BackoffInv
  <2>2. NextBackoff(Scheduled(attempt[c])) = Scheduled(attempt[c] + 1)
    BY <1>0, ScheduleNext
  <2>3. Scheduled(attempt[c])' = Scheduled(attempt'[c])
    BY <1>0, <1>a DEF Scheduled, NextBackoff, Scaled, InitialBackoff, BackoffMultiplier, MaxBackoff
  <2> QED BY <1>d, <2>1, <2>2, <2>3
<1> HIDE DEF Timed
<1>1. CASE UNCHANGED vars
  <2> SUFFICES ASSUME NEW c \in Tasks PROVE BackoffInv'
    BY DEF BackoffInv
  <2>1. Timed(c)'
    <3>1. Timed(c)
      BY DEF BackoffInv, Timed
    <3>2. Scheduled(attempt[c])' = Scheduled(attempt[c])
      BY <1>1 DEF vars, Scheduled, NextBackoff, Scaled, InitialBackoff, BackoffMultiplier,
                     MaxBackoff
    <3> QED BY <1>1, <3>1, <3>2 DEF Timed, vars
  <2> QED BY <1>1, <2>1, <1>b DEF vars
<1>2. ASSUME NEW c \in Tasks, Start(c) PROVE BackoffInv'
  <2>1. /\ attempt'[c] = 1 /\ backoff'[c] = InitialBackoff
        /\ \A d \in Tasks \ {c} :
             pc'[d] = pc[d] /\ attempt'[d] = attempt[d] /\ backoff'[d] = backoff[d]
    BY <1>2 DEF Start, Goto, TypeOK
  <2>2. Timed(c)'
    BY <2>1, <1>0 DEF Timed, Scheduled
  <2> QED BY <2>1, <2>2, <1>b
<1>3. ASSUME NEW c \in Tasks, CheckBudget(c) PROVE BackoffInv'
  <2>0. PICK label \in {"call", "exceeded"} : Goto(c, label)
    BY <1>3 DEF CheckBudget
  <2>1. /\ pc[c] = "check" /\ pc'[c] # "check" /\ attempt' = attempt /\ backoff' = backoff
        /\ \A d \in Tasks \ {c} : pc'[d] = pc[d]
    BY <1>3, <2>0 DEF CheckBudget, Goto, TypeOK
  <2>2. Timed(c)'
    BY <2>1, <1>c
  <2> QED BY <2>1, <2>2, <1>b
<1>4. ASSUME NEW c \in Tasks, AttemptSucceeds(c) PROVE BackoffInv'
  <2>1. /\ pc[c] = "call" /\ pc'[c] # "check" /\ attempt' = attempt /\ backoff' = backoff
        /\ \A d \in Tasks \ {c} : pc'[d] = pc[d]
    BY <1>4 DEF AttemptSucceeds, Goto, TypeOK
  <2>2. Timed(c)'
    BY <2>1, <1>c
  <2> QED BY <2>1, <2>2, <1>b
<1>5. ASSUME NEW c \in Tasks, AttemptFails(c) PROVE BackoffInv'
  <2>1. /\ pc[c] = "call"
        /\ \A d \in Tasks \ {c} :
             pc'[d] = pc[d] /\ attempt'[d] = attempt[d] /\ backoff'[d] = backoff[d]
    BY <1>5 DEF AttemptFails, Goto, TypeOK
  <2>2. \/ attempt' = attempt /\ backoff' = backoff /\ pc'[c] # "check"
        \/ /\ pc'[c] = "call" /\ attempt'[c] = attempt[c] + 1
           /\ backoff'[c] = NextBackoff(backoff[c])
    BY <1>5 DEF AttemptFails, Goto, TypeOK
  <2>3. Timed(c)'
    BY <2>1, <2>2, <1>c, <1>d
  <2> QED BY <2>1, <2>3, <1>b
<1>6. ASSUME NEW c \in Tasks, NoAttempt(c) \/ BackoffOverflows(c) \/ Drop(c) \/ Charge(c)
      PROVE  BackoffInv'
  <2>1. /\ pc'[c] \in {"failed", "panicked", "idle", "ok"} /\ attempt' = attempt /\ backoff' = backoff
        /\ \A d \in Tasks \ {c} : pc'[d] = pc[d]
    BY <1>6 DEF NoAttempt, BackoffOverflows, Drop, Charge, Goto, TypeOK
  <2>2. Timed(c)'
    BY <2>1 DEF Timed
  <2> QED BY <2>1, <2>2, <1>b
<1>7. ASSUME NEW c \in Tasks, Wake(c) PROVE BackoffInv'
  <2>1. /\ pc[c] = "sleep" /\ pc'[c] = "call" /\ attempt'[c] = attempt[c] + 1
        /\ backoff'[c] = NextBackoff(backoff[c])
        /\ \A d \in Tasks \ {c} :
             pc'[d] = pc[d] /\ attempt'[d] = attempt[d] /\ backoff'[d] = backoff[d]
    BY <1>7 DEF Wake, Goto, TypeOK
  <2>2. Timed(c)'
    BY <2>1, <1>d
  <2> QED BY <2>1, <2>2, <1>b
<1> QED
  BY <1>1, <1>2, <1>3, <1>4, <1>5, <1>6, <1>7 DEF Next, Step

(***************************************************************************)
(* Between two attempts a request sleeps the initial backoff, then its     *)
(* multiples up to the cap, for every multiplier: with one that shrinks    *)
(* the cap the multiples go on from the first that the cap has cut down    *)
(* (retry.rs:65-94).                                                       *)
(***************************************************************************)
THEOREM BackoffIsScheduled == Spec => []BackoffSchedule
<1>1. Init => BackoffInv
  BY DEF Init, BackoffInv
<1>2. TypeOK /\ TypeOK' /\ BackoffInv /\ [Next]_vars => BackoffInv'
  BY BackoffStep
<1>3. BackoffInv => BackoffSchedule
  BY DEF BackoffInv, BackoffSchedule
<1> QED
  BY <1>1, <1>2, <1>3, TypeCorrect, PTL DEF Spec

-----------------------------------------------------------------------------
(* A call ends.  What is left of it, counted in its own steps: two for    *)
(* each attempt that is left, the check, and the charge (retry.rs:68-94).  *)
StepsLeft(c) ==
  CASE pc[c] = "check"  -> 2 * MaxAttempts + 3
    [] pc[c] = "call"   -> 2 * (MaxAttempts - attempt[c]) + 4
    [] pc[c] = "sleep"  -> 2 * (MaxAttempts - attempt[c]) + 3
    [] pc[c] = "charge" -> 1
    [] OTHER            -> 0

LEMMA StepsLeftBound ==
  ASSUME TypeOK, LedgerInv, NEW c \in Tasks
  PROVE  /\ StepsLeft(c) \in 0..(2 * MaxAttempts + 3)
         /\ StepsLeft(c) = 0 <=> pc[c] \in Resting
<1>1. MaxAttempts \in Nat /\ attempt[c] \in 1..(MaxAttempts + 1)
      /\ pc[c] \in Resting \cup Working
  BY ConfigTypes DEF TypeOK
<1>2. pc[c] = "sleep" => attempt[c] < MaxAttempts
  BY DEF LedgerInv, AttemptLedger
<1>3. CASE pc[c] = "check"
  BY <1>1, <1>3 DEF StepsLeft
<1>4. CASE pc[c] = "call"
  <2>1. StepsLeft(c) = 2 * (MaxAttempts - attempt[c]) + 4
    BY <1>4 DEF StepsLeft
  <2> QED BY <1>1, <1>4, <2>1
<1>5. CASE pc[c] = "sleep"
  <2>1. StepsLeft(c) = 2 * (MaxAttempts - attempt[c]) + 3
    BY <1>5 DEF StepsLeft
  <2> QED BY <1>1, <1>2, <1>5, <2>1
<1>6. CASE pc[c] = "charge"
  BY <1>1, <1>6 DEF StepsLeft
<1>7. CASE pc[c] \in Resting
  BY <1>1, <1>7 DEF StepsLeft
<1> QED BY <1>1, <1>3, <1>4, <1>5, <1>6, <1>7

(* A call in progress has between one and 2 * MaxAttempts + 3 steps left,  *)
(* and a call that rests has none.                                         *)
CallBounded ==
  \A c \in Tasks : /\ StepsLeft(c) \in 0..(2 * MaxAttempts + 3)
                   /\ StepsLeft(c) = 0 <=> pc[c] \in Resting

(* A step of the call brings it nearer to its end, and no step of another  *)
(* task, whatever it does to the shared budget and the provider's counter, *)
(* takes it back.                                                          *)
StepAdvances ==
  \A c \in Tasks :
    /\ Step(c) => StepsLeft(c)' < StepsLeft(c)
    /\ pc[c] \in Working => StepsLeft(c)' <= StepsLeft(c)

LEMMA OwnStepAdvances ==
  ASSUME TypeOK, LedgerInv, [Next]_vars, NEW c \in Tasks, Step(c)
  PROVE  StepsLeft(c)' \in Int /\ StepsLeft(c)' < StepsLeft(c)
<1>1. /\ MaxAttempts \in Nat /\ attempt[c] \in 1..(MaxAttempts + 1)
      /\ c \in DOMAIN pc /\ c \in DOMAIN attempt
      /\ MaxAttempts' = MaxAttempts
  BY ConfigTypes, ConfigKept DEF TypeOK
<1>2. pc[c] = "sleep" => attempt[c] < MaxAttempts
  BY DEF LedgerInv, AttemptLedger
<1>9. pc[c] = "check" => attempt[c] = 1
  BY DEF LedgerInv
<1>3. CASE CheckBudget(c)
  <2>1. PICK label \in {"call", "exceeded"} : Goto(c, label)
    BY <1>3 DEF CheckBudget
  <2>2. pc'[c] = label /\ attempt'[c] = attempt[c] /\ pc[c] = "check"
    BY <1>1, <1>3, <2>1 DEF CheckBudget, Goto
  <2> QED BY <1>1, <1>9, <2>2 DEF StepsLeft
<1>4. CASE AttemptSucceeds(c)
  <2>1. pc'[c] \in {"charge", "ok"} /\ pc[c] = "call" /\ attempt[c] <= MaxAttempts
    BY <1>1, <1>4 DEF AttemptSucceeds, AttemptsLeft, Goto
  <2> QED BY <1>1, <2>1 DEF StepsLeft
<1>5. CASE AttemptFails(c)
  <2>1. /\ pc[c] = "call" /\ attempt[c] <= MaxAttempts
        /\ \/ pc'[c] = "sleep" /\ attempt'[c] = attempt[c]
           \/ pc'[c] = "call" /\ attempt'[c] = attempt[c] + 1
           \/ pc'[c] = "failed"
    BY <1>1, <1>5 DEF AttemptFails, AttemptsLeft, Goto
  <2> QED BY <1>1, <2>1 DEF StepsLeft
<1>6. CASE NoAttempt(c)
  <2>1. pc[c] = "call" /\ pc'[c] = "failed"
    BY <1>1, <1>6 DEF NoAttempt, Goto
  <2> QED BY <1>1, <2>1 DEF StepsLeft
<1>7. CASE Wake(c)
  <2>1. pc[c] = "sleep" /\ pc'[c] = "call" /\ attempt'[c] = attempt[c] + 1
    BY <1>1, <1>7 DEF Wake, Goto
  <2> QED BY <1>1, <1>2, <2>1 DEF StepsLeft
<1>8. CASE Charge(c)
  <2>1. pc[c] = "charge" /\ pc'[c] = "ok"
    BY <1>1, <1>8 DEF Charge, Goto
  <2> QED BY <1>1, <2>1 DEF StepsLeft
<1>10. CASE BackoffOverflows(c)
  <2>1. pc[c] = "sleep" /\ pc'[c] = "panicked"
    BY <1>1, <1>10 DEF BackoffOverflows, Goto
  <2> QED BY <1>1, <1>2, <2>1 DEF StepsLeft
<1> QED BY <1>3, <1>4, <1>5, <1>6, <1>7, <1>8, <1>10 DEF Step

(* A step of one task leaves every other task where it is.                 *)
LEMMA OthersStand ==
  ASSUME TypeOK, NEW d \in Tasks, NEW c \in Tasks \ {d}, Start(d) \/ Step(d) \/ Drop(d)
  PROVE  pc'[c] = pc[c] /\ attempt'[c] = attempt[c]
<1>1. pc \in [Tasks -> Resting \cup Working] /\ attempt \in [Tasks -> 1..(MaxAttempts + 1)]
  BY DEF TypeOK
<1>2. pc' = pc \/ \E label : Goto(d, label)
  BY DEF Start, Step, Drop, CheckBudget, AttemptSucceeds, AttemptFails, NoAttempt, Wake,
         BackoffOverflows, Charge
<1>3. attempt' = attempt \/ \E n : attempt' = [attempt EXCEPT ![d] = n]
  BY DEF Start, Step, Drop, CheckBudget, AttemptSucceeds, AttemptFails, NoAttempt, Wake,
         BackoffOverflows, Charge
<1>4. pc'[c] = pc[c]
  BY <1>1, <1>2 DEF Goto
<1>5. attempt'[c] = attempt[c]
  BY <1>1, <1>3
<1> QED BY <1>4, <1>5

LEMMA CallAdvances ==
  ASSUME TypeOK, LedgerInv, [Next]_vars
  PROVE  StepAdvances
<1>1. ASSUME NEW c \in Tasks, Step(c) PROVE StepsLeft(c)' < StepsLeft(c)
  BY <1>1, OwnStepAdvances
<1>2. ASSUME NEW c \in Tasks, pc[c] \in Working PROVE StepsLeft(c)' <= StepsLeft(c)
  <2>0. MaxAttempts' = MaxAttempts /\ StepsLeft(c) \in Nat
    BY ConfigKept, StepsLeftBound
  <2>1. ASSUME pc'[c] = pc[c], attempt'[c] = attempt[c] PROVE StepsLeft(c)' <= StepsLeft(c)
    <3>1. StepsLeft(c)' = StepsLeft(c)
      BY <2>0, <2>1 DEF StepsLeft
    <3> QED BY <2>0, <3>1
  <2>2. CASE UNCHANGED vars
    BY <2>1, <2>2 DEF vars
  <2>3. ASSUME NEW d \in Tasks, Start(d) \/ Step(d) \/ Drop(d)
        PROVE  StepsLeft(c)' <= StepsLeft(c)
    <3>1. CASE c # d
      BY <2>1, <2>3, <3>1, OthersStand
    <3>2. CASE c = d /\ Start(d)
      BY <1>2, <3>2 DEF Start
    <3>3. CASE c = d /\ Step(d)
      <4>1. StepsLeft(c)' \in Int /\ StepsLeft(c)' < StepsLeft(c)
        BY <3>3, OwnStepAdvances
      <4> QED BY <2>0, <4>1
    <3>4. CASE c = d /\ Drop(d)
      <4>1. pc'[c] = "idle"
        BY <3>4 DEF Drop, Goto, TypeOK
      <4>2. StepsLeft(c)' = 0
        BY <4>1 DEF StepsLeft
      <4> QED BY <4>2, <2>0
    <3> QED BY <2>3, <3>1, <3>2, <3>3, <3>4
  <2> QED BY <2>2, <2>3 DEF Next
<1> QED BY <1>1, <1>2 DEF StepAdvances

(***************************************************************************)
(* A call makes at most 2 * max_attempts + 3 steps of its own from its     *)
(* budget check to its end, for every configuration and whatever the       *)
(* other calls do: no configuration makes the retry loop run for ever, and *)
(* no step of another call sends one back (retry.rs:68-94).  That the      *)
(* steps are taken is the fairness of the runtime, which TLC adds in       *)
(* CallsTerminate.                                                         *)
(***************************************************************************)
THEOREM CallsAreBounded == Spec => []CallBounded /\ [][StepAdvances]_vars
<1>1. TypeOK /\ LedgerInv => CallBounded
  BY StepsLeftBound DEF CallBounded
<1>2. TypeOK /\ LedgerInv /\ [Next]_vars => [StepAdvances]_vars
  BY CallAdvances
<1> QED BY <1>1, <1>2, LedgerAlways, PTL DEF Spec
=============================================================================
