---------------------------- MODULE RateLimiter ----------------------------
(***************************************************************************)
(* The rate limiter of crates/milona-presenter/src/rate_limit.rs: one      *)
(* shared limiter with a quota for every "tenant:subject" pair, checked    *)
(* once for each authenticated request.  The limiter itself is the         *)
(* governor crate's GCRA, modelled from the quota the code gives it and    *)
(* from what rate_limit.rs:26-28 and its tests say of it: a check reads    *)
(* and replaces one timestamp per key in one atomic step.                  *)
(***************************************************************************)
EXTENDS Integers, Sequences

CONSTANTS
  ApiKeys,
  TenantOf, SubjectOf,  \* the ApiKeyDirectory: the identity behind each key
  RequestsPerMinute,    \* RateLimiterConfig.requests_per_minute
  Minute,               \* a minute in clock ticks
  MaxTime               \* bound on the clock

Bigger(a, b) == IF a < b THEN b ELSE a

\* Mutant: one request more than configured.
Burst_OneMore == RequestsPerMinute + 1

(* `requests_per_minute.max(1)`: both the burst and the divisor.           *)
Burst == Bigger(RequestsPerMinute, 1)

ASSUME QuotaAssumption ==
  /\ RequestsPerMinute \in Nat
  /\ Minute \in Nat /\ Minute >= Burst
  /\ MaxTime \in Nat

ASSUME DirectoryAssumption ==
  DOMAIN TenantOf = ApiKeys /\ DOMAIN SubjectOf = ApiKeys

(* format!("{}:{}", tenant_id, subject); a tenant id is a UUID, without a  *)
(* colon, so the text determines the pair.                                 *)
LimiterKey(a) == <<TenantOf[a], SubjectOf[a]>>

LimiterKeys == {LimiterKey(a) : a \in ApiKeys}

\* Mutant: one cell a minute, however large the quota.
Interval_PerMinute == Minute

(* Quota::per_minute: the time in which one cell is replenished.           *)
Interval == Minute \div Burst

ASSUME IntervalAssumption == Interval \in Nat \ {0}

Tolerance == Interval * (Burst - 1)

VARIABLES
  now,     \* the limiter's clock
  tat,     \* the theoretical arrival time of each key; 0 for a key not seen,
           \* which every clock reading treats as it treats a new key
  mark,    \* history: where an observer's window starts, for each key
  count,   \* history: requests admitted in that window
  admissions \* history: when each request was admitted

vars == <<now, tat, mark, count, admissions>>

Init ==
  /\ now = 0
  /\ tat = [k \in LimiterKeys |-> 0]
  /\ mark = [k \in LimiterKeys |-> 0]
  /\ count = [k \in LimiterKeys |-> 0]
  /\ admissions = [k \in LimiterKeys |-> <<>>]

Conforms(k) == now >= tat[k] - Tolerance

NextTat(k) == Bigger(tat[k], now) + Interval

(* check_key answers Ok and the request goes on to the handler.            *)
admit(a) ==
  LET k == LimiterKey(a) IN
  /\ Conforms(k)
  /\ tat' = [tat EXCEPT ![k] = NextTat(k)]
  /\ count' = [count EXCEPT ![k] = @ + 1]
  /\ admissions' = [admissions EXCEPT ![k] = Append(@, now)]
  /\ UNCHANGED <<now, mark>>

(* check_key answers Err: 429, and the limiter's state is unchanged.       *)
reject(a) ==
  /\ ~Conforms(LimiterKey(a))
  /\ UNCHANGED vars

Tick ==
  /\ now < MaxTime
  /\ now' = now + 1
  /\ UNCHANGED <<tat, mark, count, admissions>>

(* An observer starts to count key k's admissions; not a step of the code. *)
Observe(k) ==
  /\ mark' = [mark EXCEPT ![k] = now]
  /\ count' = [count EXCEPT ![k] = 0]
  /\ UNCHANGED <<now, tat, admissions>>

Next ==
  \/ \E a \in ApiKeys : admit(a) \/ reject(a)
  \/ Tick
  \/ \E k \in LimiterKeys : Observe(k)

Spec == Init /\ [][Next]_vars

-----------------------------------------------------------------------------
(* Correctness.                                                            *)

(* The quota as it is configured and documented (rate_limit.rs:26-28), and *)
(* the time in which one request of it is replenished.                     *)
Quota == Bigger(RequestsPerMinute, 1)
Cell == Minute \div Quota

(* Every variable has its type, and no timestamp is further ahead of the   *)
(* clock than a whole burst: what a flood of requests can book.            *)
TypeOK ==
  /\ now \in 0..MaxTime
  /\ tat \in [LimiterKeys -> Nat]
  /\ \A k \in LimiterKeys : tat[k] <= now + Quota * Cell
  /\ mark \in [LimiterKeys -> 0..MaxTime]
  /\ count \in [LimiterKeys -> Nat]
  /\ admissions \in [LimiterKeys -> Seq(0..MaxTime)]

(* A whole quota of key k's requests was admitted in the last minute: the  *)
(* first of the latest Quota ones is no older.                             *)
Spent(k) ==
  LET times == admissions[k]
  IN Len(times) >= Quota /\ times[Len(times) - Quota + 1] > now - Minute

(* No window is overbooked (rate_limit.rs:26-28, 51-54): between any two   *)
(* moments a key is admitted at most a burst more often than cells         *)
(* were replenished, whenever the window starts and however the requests   *)
(* bunch, also across the minutes' boundaries and after an idle time.      *)
WindowBound ==
  \A k \in LimiterKeys : count[k] * Cell <= (now - mark[k]) + Quota * Cell
=============================================================================
