-------------------------- MODULE QueryRouteProofs --------------------------
(***************************************************************************)
(* Proofs about RateLimiter, for every quota, directory of API keys and    *)
(* length of the run, and about QueryRoute, which composes it with the     *)
(* startup, for every set of environments, requests in progress, keys and  *)
(* tenants.                                                                *)
(***************************************************************************)
EXTENDS QueryRoute, TLAPS

-----------------------------------------------------------------------------
(* The limiter.                                                            *)

(***************************************************************************)
(* WindowBound is not inductive: how often a key was admitted says nothing *)
(* of its timestamp.  CreditInv ties them: each admission in the window    *)
(* has moved the timestamp at least one interval beyond the window's start.*)
(***************************************************************************)
CreditInv ==
  \A k \in LimiterKeys :
    /\ mark[k] <= now
    /\ count[k] = 0 \/ mark[k] + count[k] * Interval <= tat[k]

LEMMA QuotaArithmetic ==
  /\ Burst \in Nat /\ Burst >= 1
  /\ Interval \in Nat /\ Burst * Interval \in Nat
  /\ Tolerance = Burst * Interval - Interval
  /\ Interval <= Burst * Interval
<1>1. Burst \in Nat /\ Burst >= 1
  BY QuotaAssumption DEF Burst, Bigger
<1>2. Interval \in Nat
  BY IntervalAssumption
<1>3. ASSUME NEW b \in Nat, NEW i \in Nat, b >= 1
      PROVE  b * i \in Nat /\ i * (b - 1) = b * i - i /\ i <= b * i
  BY <1>3
<1> QED BY <1>1, <1>2, <1>3 DEF Tolerance

(* The limiter is built with the quota that is configured.                 *)
LEMMA SameQuota == Quota = Burst /\ Cell = Interval
  BY DEF Quota, Cell, Burst, Interval

LEMMA Multiples ==
  ASSUME NEW m \in Nat, NEW i \in Nat
  PROVE  m * i \in Nat /\ (m + 1) * i = m * i + i /\ 0 * i = 0 /\ 1 * i = i
  OBVIOUS

LEMMA KeyOfApi == \A a \in ApiKeys : LimiterKey(a) \in LimiterKeys
  BY DEF LimiterKeys

LEMMA LimiterStep ==
  ASSUME TypeOK, CreditInv, [Next]_vars
  PROVE  TypeOK' /\ CreditInv'
<1> DEFINE Ahead == Quota * Cell
<1>a. Ahead \in Nat /\ Interval \in Nat /\ Interval <= Ahead /\ Tolerance = Ahead - Interval
  BY QuotaArithmetic, SameQuota
<1>b. \A k \in LimiterKeys : tat[k] <= now + Ahead
  BY DEF TypeOK
<1>c. MaxTime \in Nat
  BY QuotaAssumption
<1> HIDE DEF Ahead
<1>1. CASE UNCHANGED vars
  BY <1>1 DEF vars, TypeOK, CreditInv
<1>2. ASSUME NEW a \in ApiKeys, admit(a) PROVE TypeOK' /\ CreditInv'
  <2> DEFINE k == LimiterKey(a)
  <2>1. k \in LimiterKeys
    BY KeyOfApi
  <2>2. /\ now >= tat[k] - Tolerance /\ now' = now /\ mark' = mark
        /\ tat' = [tat EXCEPT ![k] = NextTat(k)]
        /\ count' = [count EXCEPT ![k] = @ + 1]
        /\ admissions' = [admissions EXCEPT ![k] = Append(@, now)]
    BY <1>2 DEF admit, Conforms
  <2> HIDE DEF k
  <2>3. now \in Nat /\ tat[k] \in Nat /\ count[k] \in Nat /\ mark[k] \in Nat
    BY <2>1, <1>c DEF TypeOK
  <2>4. /\ NextTat(k) \in Nat
        /\ NextTat(k) >= tat[k] + Interval
        /\ NextTat(k) >= now + Interval
        /\ NextTat(k) <= now + Ahead
    BY <2>2, <2>3, <1>a DEF NextTat, Bigger
  <2>5. \A j \in LimiterKeys : tat'[j] <= now' + Ahead
    BY <2>1, <2>2, <2>4, <1>b DEF TypeOK
  <2>6. TypeOK'
    <3>1. admissions' \in [LimiterKeys -> Seq(0..MaxTime)]
      <4>1. admissions \in [LimiterKeys -> Seq(0..MaxTime)] /\ now \in 0..MaxTime
        BY DEF TypeOK
      <4>2. Append(admissions[k], now) \in Seq(0..MaxTime)
        BY <2>1, <4>1
      <4> QED BY <2>1, <2>2, <4>1, <4>2
    <3> QED BY <2>1, <2>2, <2>4, <2>5, <3>1 DEF TypeOK, Ahead
  <2>7. mark[k] + (count[k] + 1) * Interval <= NextTat(k)
    <3>1. (count[k] + 1) * Interval = count[k] * Interval + Interval /\ count[k] * Interval \in Nat
      BY <2>3, <1>a, Multiples
    <3>2. CASE count[k] = 0
      <4>1. count[k] * Interval = 0
        BY <3>2, <1>a, Multiples
      <4> QED BY <4>1, <3>1, <2>1, <2>3, <2>4, <1>a DEF CreditInv
    <3>3. CASE count[k] # 0
      <4>1. mark[k] + count[k] * Interval <= tat[k]
        BY <3>3, <2>1 DEF CreditInv
      <4> QED BY <4>1, <3>1, <2>3, <2>4, <1>a
    <3> QED BY <3>2, <3>3
  <2>8. CreditInv'
    BY <2>1, <2>2, <2>7 DEF CreditInv, TypeOK
  <2> QED BY <2>6, <2>8
<1>3. ASSUME NEW a \in ApiKeys, reject(a) PROVE TypeOK' /\ CreditInv'
  BY <1>3 DEF reject, vars, TypeOK, CreditInv
<1>4. CASE Tick
  <2>1. /\ now' = now + 1 /\ now < MaxTime /\ tat' = tat /\ mark' = mark /\ count' = count
        /\ admissions' = admissions
    BY <1>4 DEF Tick
  <2>2. now \in 0..MaxTime /\ \A k \in LimiterKeys : tat[k] \in Nat /\ mark[k] \in 0..MaxTime
    BY DEF TypeOK
  <2>3. \A k \in LimiterKeys : tat'[k] <= now' + Ahead
    BY <2>1, <2>2, <1>a, <1>b
  <2>4. TypeOK'
    BY <2>1, <2>2, <2>3, <1>c DEF TypeOK, Ahead
  <2>5. CreditInv'
    BY <2>1, <2>2 DEF CreditInv
  <2> QED BY <2>4, <2>5
<1>5. ASSUME NEW k \in LimiterKeys, Observe(k) PROVE TypeOK' /\ CreditInv'
  BY <1>5 DEF Observe, TypeOK, CreditInv
<1> QED
  BY <1>1, <1>2, <1>3, <1>4, <1>5 DEF Next

LEMMA LimiterInductive == Spec => [](TypeOK /\ CreditInv)
<1>1. Init => TypeOK /\ CreditInv
  <2>1. Quota * Cell \in Nat /\ MaxTime \in Nat
    BY QuotaArithmetic, QuotaAssumption, SameQuota
  <2> QED BY <2>1 DEF Init, TypeOK, CreditInv
<1>2. TypeOK /\ CreditInv /\ [Next]_vars => TypeOK' /\ CreditInv'
  BY LimiterStep
<1> QED
  BY <1>1, <1>2, PTL DEF Spec

(***************************************************************************)
(* A flood of requests never books more than one burst ahead of the clock  *)
(* (the state of rate_limit.rs:59-63).                                     *)
(***************************************************************************)
THEOREM TypeCorrect == Spec => []TypeOK
<1>1. TypeOK /\ CreditInv => TypeOK
  OBVIOUS
<1> QED
  BY <1>1, LimiterInductive, PTL

(***************************************************************************)
(* The quota of rate_limit.rs:51-54 holds for every key in every window of *)
(* time, for every requests_per_minute.                                    *)
(***************************************************************************)
THEOREM QuotaHolds == Spec => []WindowBound
<1>1. TypeOK /\ CreditInv => WindowBound
  <2> SUFFICES ASSUME TypeOK, CreditInv, NEW k \in LimiterKeys
               PROVE  count[k] * Interval <= (now - mark[k]) + Burst * Interval
    BY SameQuota DEF WindowBound
  <2> DEFINE used == count[k] * Interval
             quota == Burst * Interval
  <2>1. /\ quota \in Nat /\ now \in Nat /\ mark[k] \in Nat /\ count[k] \in Nat
        /\ tat[k] <= now + quota /\ tat[k] \in Nat /\ mark[k] <= now
    BY QuotaArithmetic, QuotaAssumption, SameQuota DEF TypeOK, CreditInv
  <2>2. used \in Nat /\ (count[k] = 0 => used = 0)
    BY <2>1, QuotaArithmetic, Multiples
  <2>3. count[k] = 0 \/ mark[k] + used <= tat[k]
    BY DEF CreditInv
  <2> HIDE DEF used, quota
  <2>4. used <= (now - mark[k]) + quota
    BY <2>1, <2>2, <2>3
  <2> QED BY <2>4 DEF used, quota
<1> QED
  BY <1>1, LimiterInductive, PTL

(***************************************************************************)
(* That a refusal is earned needs to know how the admissions are spread:   *)
(* PaceInv bounds a key's timestamp from each of its admissions, by a      *)
(* minute after it, or by now, and an interval for every later one.        *)
(***************************************************************************)
Later(times, j) == Len(times) - j

PaceInv ==
  \A k \in LimiterKeys :
    /\ tat[k] <= now + Len(admissions[k]) * Interval
    /\ \A j \in 1..Len(admissions[k]) :
         tat[k] <= Bigger(now, admissions[k][j] + Minute) + Later(admissions[k], j) * Interval

LEMMA BiggerArithmetic ==
  ASSUME NEW x \in Nat, NEW y \in Nat, NEW z \in Nat, NEW extra \in Nat, NEW i \in Nat,
         NEW v \in Nat, v <= Bigger(x, y) + extra
  PROVE  /\ x <= z => v <= Bigger(z, y) + extra
         /\ Bigger(v, x) + i <= Bigger(x, y) + (extra + i)
BY DEF Bigger

LEMMA BurstFitsInAMinute == Burst * Interval <= Minute
<1>1. ASSUME NEW m \in Nat, NEW b \in Nat, b >= 1
      PROVE  b * (m \div b) <= m
  BY <1>1
<1> QED BY <1>1, QuotaArithmetic, QuotaAssumption DEF Interval

LEMMA TimesAreNatural ==
  ASSUME TypeOK, NEW k \in LimiterKeys
  PROVE  /\ admissions[k] \in Seq(Nat) /\ Len(admissions[k]) \in Nat
         /\ \A j \in 1..Len(admissions[k]) :
              admissions[k][j] \in Nat /\ Later(admissions[k], j) \in Nat
<1>1. ASSUME NEW S \in SUBSET Nat, NEW s \in Seq(S)
      PROVE  /\ s \in Seq(Nat) /\ Len(s) \in Nat
             /\ \A j \in 1..Len(s) : s[j] \in Nat /\ Later(s, j) \in Nat
  <2>1. Len(s) \in Nat /\ \A j \in 1..Len(s) : s[j] \in S
    OBVIOUS
  <2>2. s \in Seq(Nat)
    <3>1. s = [j \in 1..Len(s) |-> s[j]]
      OBVIOUS
    <3>2. \A j \in 1..Len(s) : s[j] \in Nat
      BY <2>1
    <3> QED BY <2>1, <3>1, <3>2
  <2> QED BY <2>1, <2>2 DEF Later
<1>2. admissions[k] \in Seq(0..MaxTime)
  BY DEF TypeOK
<1>3. 0..MaxTime \in SUBSET Nat
  BY QuotaAssumption
<1> QED BY <1>1, <1>2, <1>3

LEMMA PaceStep ==
  ASSUME TypeOK, PaceInv, [Next]_vars
  PROVE  PaceInv'
<1>a. /\ Interval \in Nat /\ Interval >= 1 /\ Tolerance \in Nat /\ Tolerance + Interval <= Minute
      /\ Minute \in Nat /\ MaxTime \in Nat
  BY QuotaArithmetic, BurstFitsInAMinute, QuotaAssumption, IntervalAssumption
<1>b. /\ now \in Nat
      /\ \A k \in LimiterKeys : /\ tat[k] \in Nat /\ admissions[k] \in Seq(Nat)
                                 /\ Len(admissions[k]) \in Nat
  BY <1>a, TimesAreNatural DEF TypeOK
<1>1. ASSUME UNCHANGED <<tat, admissions>>, now' \in Nat, now <= now'
      PROVE  PaceInv'
  <2> SUFFICES ASSUME NEW k \in LimiterKeys
               PROVE  /\ tat[k] <= now' + Len(admissions[k]) * Interval
                      /\ \A j \in 1..Len(admissions[k]) :
                           tat[k] <= Bigger(now', admissions[k][j] + Minute)
                                       + Later(admissions[k], j) * Interval
    BY <1>1 DEF PaceInv
  <2>1. Len(admissions[k]) * Interval \in Nat
    BY <1>a, <1>b, Multiples
  <2>2. tat[k] <= now' + Len(admissions[k]) * Interval
    BY <2>1, <1>1, <1>a, <1>b DEF PaceInv
  <2>3. ASSUME NEW j \in 1..Len(admissions[k])
        PROVE  tat[k] <= Bigger(now', admissions[k][j] + Minute)
                           + Later(admissions[k], j) * Interval
    <3>1. Later(admissions[k], j) \in Nat /\ admissions[k][j] \in Nat
      BY TimesAreNatural
    <3>2. Later(admissions[k], j) * Interval \in Nat
      BY <3>1, <1>a, Multiples
    <3>3. tat[k] <= Bigger(now, admissions[k][j] + Minute) + Later(admissions[k], j) * Interval
      BY DEF PaceInv
    <3> DEFINE extra == Later(admissions[k], j) * Interval
    <3>4. admissions[k][j] + Minute \in Nat /\ tat[k] \in Nat
      BY <3>1, <1>a, <1>b
    <3> HIDE DEF extra
    <3>5. extra \in Nat /\ tat[k] <= Bigger(now, admissions[k][j] + Minute) + extra
      BY <3>2, <3>3 DEF extra
    <3>6. tat[k] <= Bigger(now', admissions[k][j] + Minute) + extra
      BY <3>4, <3>5, <1>1, <1>a, <1>b, BiggerArithmetic
    <3> QED BY <3>6 DEF extra
  <2> QED BY <2>2, <2>3
<1>2. ASSUME NEW a \in ApiKeys, admit(a) PROVE PaceInv'
  <2> DEFINE k == LimiterKey(a)
             times == admissions[k]
             length == Len(times)
  <2>1. k \in LimiterKeys
    BY KeyOfApi
  <2>2. /\ now >= tat[k] - Tolerance /\ now' = now
        /\ tat' = [tat EXCEPT ![k] = NextTat(k)]
        /\ admissions' = [admissions EXCEPT ![k] = Append(times, now)]
    BY <1>2 DEF admit, Conforms
  <2>3. ASSUME NEW m \in LimiterKeys, m # k
        PROVE  tat'[m] = tat[m] /\ admissions'[m] = admissions[m]
    BY <2>2, <2>3 DEF TypeOK
  <2>4. tat'[k] = NextTat(k) /\ admissions'[k] = Append(times, now)
    BY <2>1, <2>2 DEF TypeOK
  <2> HIDE DEF k
  <2>5. /\ length \in Nat /\ times \in Seq(Nat) /\ tat[k] \in Nat
    BY <2>1, <1>b
  <2>6. /\ Len(Append(times, now)) = length + 1
        /\ \A j \in 1..length : Append(times, now)[j] = times[j]
        /\ Append(times, now)[length + 1] = now
    BY <2>5, <1>b
  <2>7. /\ tat[k] <= now + length * Interval
        /\ \A j \in 1..length :
             tat[k] <= Bigger(now, times[j] + Minute) + Later(times, j) * Interval
    BY <2>1 DEF PaceInv
  <2> HIDE DEF times, length
  <2>8. NextTat(k) <= now + (length + 1) * Interval
    <3>1. (length + 1) * Interval = length * Interval + Interval /\ length * Interval \in Nat
      BY <2>5, <1>a, Multiples
    <3> QED BY <3>1, <2>5, <2>7, <1>a, <1>b DEF NextTat, Bigger
  <2>9. ASSUME NEW j \in 1..(length + 1)
        PROVE  NextTat(k) <= Bigger(now, Append(times, now)[j] + Minute)
                               + Later(Append(times, now), j) * Interval
    <3>1. CASE j = length + 1
      <4>1. Later(Append(times, now), j) * Interval = 0
        BY <3>1, <2>5, <2>6, <1>a, Multiples DEF Later
      <4>2. Append(times, now)[j] = now
        BY <3>1, <2>6
      <4>3. NextTat(k) <= now + Minute
        BY <2>2, <2>5, <1>a, <1>b DEF NextTat, Bigger
      <4> QED BY <4>1, <4>2, <4>3, <1>a, <1>b DEF Bigger
    <3>2. CASE j # length + 1
      <4> DEFINE rest == Later(times, j)
      <4>1. j \in 1..length /\ rest \in Nat /\ times[j] \in Nat
        BY <3>2, <2>5 DEF Later, length
      <4>2. Later(Append(times, now), j) = rest + 1 /\ Append(times, now)[j] = times[j]
        BY <4>1, <2>5, <2>6 DEF Later, length
      <4>3. tat[k] <= Bigger(now, times[j] + Minute) + rest * Interval
        BY <4>1, <2>7
      <4> HIDE DEF rest
      <4>4. (rest + 1) * Interval = rest * Interval + Interval /\ rest * Interval \in Nat
        BY <4>1, <1>a, Multiples
      <4>5. NextTat(k) <= Bigger(now, times[j] + Minute) + (rest * Interval + Interval)
        <5> DEFINE extra == rest * Interval
        <5> HIDE DEF extra
        <5>1. extra \in Nat /\ tat[k] <= Bigger(now, times[j] + Minute) + extra
              /\ times[j] + Minute \in Nat
          BY <4>1, <4>3, <4>4, <1>a DEF extra
        <5>2. Bigger(tat[k], now) + Interval <= Bigger(now, times[j] + Minute) + (extra + Interval)
          BY <5>1, <2>5, <1>a, <1>b, BiggerArithmetic
        <5> QED BY <5>2 DEF NextTat, extra
      <4> QED BY <4>2, <4>4, <4>5
    <3> QED BY <3>1, <3>2
  <2>10. /\ tat'[k] <= now' + Len(admissions'[k]) * Interval
         /\ \A j \in 1..Len(admissions'[k]) :
              tat'[k] <= Bigger(now', admissions'[k][j] + Minute)
                           + Later(admissions'[k], j) * Interval
    BY <2>2, <2>4, <2>6, <2>8, <2>9
  <2>11. ASSUME NEW m \in LimiterKeys, m # k
         PROVE  /\ tat'[m] <= now' + Len(admissions'[m]) * Interval
                /\ \A j \in 1..Len(admissions'[m]) :
                     tat'[m] <= Bigger(now', admissions'[m][j] + Minute)
                                  + Later(admissions'[m], j) * Interval
    BY <2>2, <2>3, <2>11 DEF PaceInv
  <2> QED BY <2>10, <2>11 DEF PaceInv
<1>3. ASSUME NEW a \in ApiKeys, reject(a) PROVE PaceInv'
  BY <1>1, <1>3, <1>b DEF reject, vars
<1>4. CASE Tick
  BY <1>1, <1>4, <1>b DEF Tick
<1>5. ASSUME NEW k \in LimiterKeys, Observe(k) PROVE PaceInv'
  BY <1>1, <1>5, <1>b DEF Observe
<1>6. CASE UNCHANGED vars
  BY <1>1, <1>6, <1>b DEF vars
<1> QED
  BY <1>2, <1>3, <1>4, <1>5, <1>6 DEF Next

LEMMA PaceInductive == Spec => [](TypeOK /\ PaceInv)
<1>1. Init => PaceInv
  <2>1. 0 * Interval = 0
    BY QuotaArithmetic, Multiples
  <2> QED BY <2>1 DEF Init, PaceInv
<1>2. TypeOK /\ PaceInv /\ [Next]_vars => PaceInv'
  BY PaceStep
<1> QED
  BY <1>1, <1>2, TypeCorrect, PTL DEF Spec

(* Who is refused has been admitted a whole quota in the last minute.      *)
LEMMA RefusedIsSpent ==
  ASSUME TypeOK, PaceInv, NEW k \in LimiterKeys, ~Conforms(k)
  PROVE  Spent(k)
<1> DEFINE times == admissions[k]
<1>1. /\ now \in Nat /\ tat[k] \in Nat /\ times \in Seq(Nat) /\ Len(times) \in Nat
      /\ Burst \in Nat /\ Burst >= 1 /\ Interval \in Nat /\ Interval >= 1 /\ Minute \in Nat
  <2>1. now \in Nat /\ tat[k] \in Nat
    BY QuotaAssumption DEF TypeOK
  <2>2. times \in Seq(Nat) /\ Len(times) \in Nat
    BY TimesAreNatural
  <2>3. Burst \in Nat /\ Burst >= 1 /\ Interval \in Nat /\ Interval >= 1 /\ Minute \in Nat
    BY QuotaArithmetic, QuotaAssumption, IntervalAssumption
  <2> HIDE DEF times
  <2> QED BY <2>1, <2>2, <2>3
<1>2. tat[k] > now + (Burst - 1) * Interval
  <2>1. Tolerance = Interval * (Burst - 1) /\ Tolerance \in Nat
    BY QuotaArithmetic DEF Tolerance
  <2>2. Interval * (Burst - 1) = (Burst - 1) * Interval
    BY <1>1
  <2>3. tat[k] > now + Tolerance
    BY <2>1, <1>1 DEF Conforms
  <2> QED BY <2>1, <2>2, <2>3
<1>3. /\ tat[k] <= now + Len(times) * Interval
      /\ \A j \in 1..Len(times) :
           tat[k] <= Bigger(now, times[j] + Minute) + Later(times, j) * Interval
  BY DEF PaceInv
<1> HIDE DEF times
<1>4. Len(times) >= Burst
  <2> SUFFICES ASSUME Len(times) <= Burst - 1 PROVE FALSE
    BY <1>1
  <2>1. ASSUME NEW m \in Nat, NEW n \in Nat, NEW i \in Nat, m <= n
        PROVE  m * i <= n * i /\ m * i \in Nat /\ n * i \in Nat
    BY <2>1
  <2>2. Burst - 1 \in Nat
    BY <1>1
  <2>3. Len(times) * Interval <= (Burst - 1) * Interval
        /\ Len(times) * Interval \in Nat /\ (Burst - 1) * Interval \in Nat
    BY <2>1, <2>2, <1>1
  <2> QED BY <2>3, <1>1, <1>2, <1>3
<1>5. times[Len(times) - Burst + 1] > now - Minute
  <2> DEFINE j == Len(times) - Burst + 1
  <2>1. j \in 1..Len(times) /\ times[j] \in Nat /\ Later(times, j) = Burst - 1
    BY <1>1, <1>4 DEF Later
  <2>2. tat[k] <= Bigger(now, times[j] + Minute) + (Burst - 1) * Interval
    BY <2>1, <1>3
  <2> HIDE DEF j
  <2> DEFINE extra == (Burst - 1) * Interval
             t == times[j]
  <2>3. /\ now \in Nat /\ tat[k] \in Nat /\ Minute \in Nat /\ t \in Nat
        /\ tat[k] > now + extra /\ tat[k] <= Bigger(now, t + Minute) + extra
    BY <2>1, <2>2, <1>1, <1>2
  <2>4. extra \in Nat
    BY <1>1
  <2> HIDE DEF extra, t
  <2>5. t > now - Minute
    BY <2>3, <2>4 DEF Bigger
  <2> QED BY <2>5 DEF j, t
<1> QED BY <1>4, <1>5, SameQuota DEF Spent, times

-----------------------------------------------------------------------------
(* The requests: what each has paid and runs as.                           *)

Served(c) == pc[c] \in {"limit", "handler", "turn"}

(* The directory is being built, or is complete and no longer changes.     *)
BootInv ==
  /\ environment \in Environments
  /\ next \in 1..(Len(Boot!Entries) + 1)
  /\ stage \in {"built", "serving"} => next = Len(Boot!Entries) + 1
  /\ Boot!DirectoryIsConfigured

Shape ==
  /\ DOMAIN pc = Tasks /\ DOMAIN request = Tasks /\ DOMAIN context = Tasks
  /\ DOMAIN status = Tasks /\ DOMAIN charged = Tasks /\ DOMAIN ran_as = Tasks

(* A turn of key k may run as tenant t.                                    *)
Configured(k, t) ==
  \/ Boot!Entries = <<>> /\ k = DevKey /\ t = DevTenant
  \/ \E i \in 1..Len(Boot!Entries) :
       Boot!LastNaming(k, i, Len(Boot!Entries)) /\ t = Boot!Entries[i].tenant

(* What request c has paid and run at each place of its way.               *)
RequestInv(c) ==
  /\ stage # "serving" => pc[c] = "idle" /\ ran_as[c] = None
  /\ Served(c) => /\ request[c].key \in DOMAIN directory
                  /\ context[c] = directory[request[c].key]
  /\ pc[c] \in {"auth", "limit"} => charged[c] = 0
  /\ pc[c] \in {"auth", "limit", "handler"} => ran_as[c] = None
  /\ pc[c] \in {"handler", "turn"} \/ ran_as[c] # None => charged[c] = 1
  /\ pc[c] = "answered" /\ status[c] \in {401, 429} => charged[c] = 0 /\ ran_as[c] = None
  /\ pc[c] = "answered" /\ status[c] = 200 /\ request[c].route = "query" => charged[c] = 1
  /\ ran_as[c] # None => Configured(request[c].key, ran_as[c])

RouteInv == BootInv /\ Shape /\ \A c \in Tasks : RequestInv(c)

-----------------------------------------------------------------------------
(* Startup.                                                                *)

LEMMA EntriesAreFinite ==
  ASSUME environment \in Environments
  PROVE  Len(Boot!Entries) \in Nat
<1>1. CASE "api_keys" \in DOMAIN environment
  BY <1>1, EnvironmentAssumption DEF Boot!Entries, Boot!Set
<1>2. CASE "api_keys" \notin DOMAIN environment
  <2>1. Boot!Entries = <<>>
    BY <1>2 DEF Boot!Entries, Boot!Set
  <2> QED
    BY <2>1
<1> QED
  BY <1>1, <1>2

(* One turn of the loop of parse_api_keys: the entry read replaces what    *)
(* earlier ones said of its key, and says nothing of any other key.        *)
LEMMA ParseKeepsConfigured ==
  ASSUME BootInv, Boot!ParseEntry
  PROVE  Boot!DirectoryIsConfigured'
<1> DEFINE E == Boot!Entries
<1>1. /\ next \in 1..Len(E) /\ next' = next + 1 /\ Len(E) \in Nat /\ E # <<>>
  <2>1. Len(E) \in Nat
    BY EntriesAreFinite DEF BootInv
  <2>2. next \in 1..Len(E)
    BY <2>1 DEF BootInv, Boot!ParseEntry
  <2>3. E # <<>>
    BY <2>2
  <2> QED
    BY <2>1, <2>2, <2>3 DEF Boot!ParseEntry
<1>2. E' = E
  BY DEF Boot!ParseEntry, Boot!Entries, Boot!Set
<1> DEFINE e == E[next]
<1>3. \A k, i : Boot!LastNaming(k, i, next - 1)
        => i \in 1..(next - 1) /\ Boot!WellFormed(E[i]) /\ E[i].key = k
  BY DEF Boot!LastNaming
<1>4. ASSUME NEW k, NEW i, Boot!LastNaming(k, i, next - 1),
             ~(Boot!WellFormed(e) /\ e.key = k)
      PROVE  Boot!LastNaming(k, i, next)
  <2>1. i \in 1..next
    BY <1>1, <1>3, <1>4
  <2>2. ASSUME NEW j \in (i + 1)..next PROVE ~(Boot!WellFormed(E[j]) /\ E[j].key = k)
    <3>1. CASE j = next
      BY <3>1, <1>4
    <3>2. CASE j # next
      BY <3>2, <1>1, <1>4, <2>1 DEF Boot!LastNaming
    <3> QED
      BY <3>1, <3>2
  <2> QED
    BY <2>1, <2>2, <1>3, <1>4 DEF Boot!LastNaming
<1>5. Boot!WellFormed(e) => Boot!LastNaming(e.key, next, next)
  BY <1>1 DEF Boot!LastNaming
<1>6. \A k, i, n : Boot!LastNaming(k, i, n)' <=> Boot!LastNaming(k, i, n)
  BY <1>2 DEF Boot!LastNaming
<1>7. \A k \in DOMAIN directory :
        \E i \in 1..(next - 1) : /\ Boot!LastNaming(k, i, next - 1)
                                 /\ directory[k] = Boot!ApiKeyRecord(E[i])
  BY <1>1 DEF BootInv, Boot!DirectoryIsConfigured
<1>8. \A i \in 1..(next - 1) : Boot!WellFormed(E[i]) => E[i].key \in DOMAIN directory
  BY DEF BootInv, Boot!DirectoryIsConfigured
<1>9. \A i \in 1..next : i = next \/ i \in 1..(next - 1)
  BY <1>1
<1>10. \A i \in 1..(next - 1) : i \in 1..next
  BY <1>1
<1>11. /\ \A k \in DOMAIN directory' :
            \E i \in 1..next : /\ Boot!LastNaming(k, i, next)
                               /\ directory'[k] = Boot!ApiKeyRecord(E[i])
       /\ \A i \in 1..next : Boot!WellFormed(E[i]) => E[i].key \in DOMAIN directory'
  <2>1. CASE Boot!WellFormed(e)
    <3>1. /\ DOMAIN directory' = DOMAIN directory \cup {e.key}
          /\ directory'[e.key] = Boot!ApiKeyRecord(e)
          /\ \A k \in DOMAIN directory : k # e.key => directory'[k] = directory[k]
      BY <2>1 DEF Boot!ParseEntry, Boot!Inserted
    <3>2. next \in 1..next
      BY <1>1
    <3>3. ASSUME NEW k \in DOMAIN directory'
          PROVE  \E i \in 1..next : /\ Boot!LastNaming(k, i, next)
                                    /\ directory'[k] = Boot!ApiKeyRecord(E[i])
      <4>1. CASE k = e.key
        BY <4>1, <1>5, <2>1, <3>1, <3>2
      <4>2. CASE k # e.key
        <5>1. k \in DOMAIN directory /\ directory'[k] = directory[k]
          BY <4>2, <3>1
        <5>2. PICK i \in 1..(next - 1) : /\ Boot!LastNaming(k, i, next - 1)
                                         /\ directory[k] = Boot!ApiKeyRecord(E[i])
          BY <5>1, <1>7
        <5>3. Boot!LastNaming(k, i, next) /\ i \in 1..next
          BY <5>2, <4>2, <1>4, <1>10
        <5> QED
          BY <5>1, <5>2, <5>3
      <4> QED
        BY <4>1, <4>2
    <3>4. \A i \in 1..next : Boot!WellFormed(E[i]) => E[i].key \in DOMAIN directory'
      BY <3>1, <1>8, <1>9
    <3> QED
      BY <3>3, <3>4
  <2>2. CASE ~Boot!WellFormed(e)
    <3>1. directory' = directory
      BY <2>2 DEF Boot!ParseEntry
    <3>2. ASSUME NEW k \in DOMAIN directory
          PROVE  \E i \in 1..next : /\ Boot!LastNaming(k, i, next)
                                    /\ directory[k] = Boot!ApiKeyRecord(E[i])
      <4>1. PICK i \in 1..(next - 1) : /\ Boot!LastNaming(k, i, next - 1)
                                       /\ directory[k] = Boot!ApiKeyRecord(E[i])
        BY <1>7
      <4>2. Boot!LastNaming(k, i, next) /\ i \in 1..next
        BY <4>1, <2>2, <1>4, <1>10
      <4> QED
        BY <4>1, <4>2
    <3>3. \A i \in 1..next : Boot!WellFormed(E[i]) => E[i].key \in DOMAIN directory
      BY <2>2, <1>8, <1>9
    <3> QED
      BY <3>1, <3>2, <3>3
  <2> QED
    BY <2>1, <2>2
<1>12. next' - 1 = next
  BY <1>1
<1> HIDE DEF E, e
<1> QED
  BY <1>2, <1>6, <1>11, <1>12 DEF Boot!DirectoryIsConfigured, E

(* Every step of the startup keeps BootInv, whatever it is started with.   *)
LEMMA BootStep ==
  ASSUME BootInv, stage # "serving", Boot!Next
  PROVE  BootInv'
<1>1. ASSUME NEW env \in Environments, Boot!main(env) PROVE BootInv'
  <2>1. environment' \in Environments /\ next' = 1 /\ stage' \notin {"built", "serving"}
    BY <1>1 DEF Boot!main
  <2>2. Len(Boot!Entries') \in Nat
    <3>1. CASE "api_keys" \in DOMAIN environment'
      BY <2>1, <3>1, EnvironmentAssumption DEF Boot!Entries, Boot!Set
    <3>2. CASE "api_keys" \notin DOMAIN environment'
      <4>1. Boot!Entries' = <<>>
        BY <3>2 DEF Boot!Entries, Boot!Set
      <4> QED
        BY <4>1
    <3> QED
      BY <3>1, <3>2
  <2>3. directory' = Boot!NoKeys \/ (directory' = Boot!DevDirectory /\ Boot!Entries' = <<>>)
    BY <1>1 DEF Boot!main
  <2>4. \A k \in DOMAIN directory' :
          Boot!Entries' = <<>> /\ k = DevKey /\ directory'[k].tenant_id = DevTenant
    BY <2>3 DEF Boot!NoKeys, Boot!DevDirectory
  <2>5. 1..(next' - 1) = {}
    BY <2>1
  <2>6. Boot!DirectoryIsConfigured'
    BY <2>4, <2>5 DEF Boot!DirectoryIsConfigured
  <2> QED
    BY <2>1, <2>2, <2>6 DEF BootInv
<1>2. CASE Boot!ParseEntry
  <2>1. Boot!DirectoryIsConfigured'
    BY <1>2, ParseKeepsConfigured
  <2>2. Boot!Entries' = Boot!Entries
    BY <1>2 DEF Boot!ParseEntry, Boot!Entries, Boot!Set
  <2>3. Len(Boot!Entries) \in Nat
    BY EntriesAreFinite DEF BootInv
  <2> QED
    BY <1>2, <2>1, <2>2, <2>3 DEF BootInv, Boot!ParseEntry
<1>3. ASSUME UNCHANGED <<environment, next, directory>>,
             stage' \in {"built", "serving"} => next = Len(Boot!Entries) + 1
      PROVE  BootInv'
  <2>1. Boot!Entries' = Boot!Entries
    BY <1>3 DEF Boot!Entries, Boot!Set
  <2>2. Boot!DirectoryIsConfigured'
    BY <1>3, <2>1 DEF BootInv, Boot!DirectoryIsConfigured, Boot!LastNaming
  <2> QED
    BY <1>3, <2>1, <2>2 DEF BootInv
<1>4. CASE Boot!new_from_env
  <2>1. next = Len(Boot!Entries) + 1
    BY <1>4, EntriesAreFinite DEF Boot!new_from_env, BootInv
  <2> QED
    BY <1>3, <1>4, <2>1 DEF Boot!new_from_env
<1>5. CASE Boot!bind
  BY <1>3, <1>5 DEF Boot!bind, BootInv
<1>6. CASE Boot!run_query_command
  BY <1>3, <1>6 DEF Boot!run_query_command
<1> QED
  BY <1>1, <1>2, <1>4, <1>5, <1>6 DEF Boot!Next

-----------------------------------------------------------------------------
(* Requests.                                                               *)

(* What a key of the complete directory stands for is configured.          *)
LEMMA KeyIsConfigured ==
  ASSUME BootInv, stage = "serving", NEW k \in DOMAIN directory
  PROVE  Configured(k, directory[k].tenant_id)
<1>1. next - 1 = Len(Boot!Entries)
  BY EntriesAreFinite DEF BootInv
<1>2. CASE Boot!Entries = <<>> /\ k = DevKey /\ directory[k].tenant_id = DevTenant
  BY <1>2 DEF Configured
<1>3. ASSUME NEW i \in 1..(next - 1), Boot!LastNaming(k, i, next - 1),
             directory[k] = Boot!ApiKeyRecord(Boot!Entries[i])
      PROVE  Configured(k, directory[k].tenant_id)
  <2>1. directory[k].tenant_id = Boot!Entries[i].tenant
    BY <1>3 DEF Boot!ApiKeyRecord
  <2> QED
    BY <1>1, <1>3, <2>1 DEF Configured
<1> QED
  BY <1>2, <1>3 DEF BootInv, Boot!DirectoryIsConfigured

(* A request that takes no part in a step keeps its invariant.             *)
LEMMA OthersKeep ==
  ASSUME NEW d \in Tasks, RequestInv(d), stage' = stage, UNCHANGED <<environment, directory>>,
         pc'[d] = pc[d], request'[d] = request[d], context'[d] = context[d],
         status'[d] = status[d], charged'[d] = charged[d], ran_as'[d] = ran_as[d]
  PROVE  RequestInv(d)'
<1>1. Configured(request[d].key, ran_as[d])' <=> Configured(request[d].key, ran_as[d])
  BY DEF Configured, Boot!Entries, Boot!Set, Boot!LastNaming
<1> QED
  BY <1>1 DEF RequestInv, Served

(* A step of request c leaves the process's configuration and every other  *)
(* request alone.                                                          *)
OnlyOf(c) ==
  /\ UNCHANGED bootVars
  /\ \A d \in Tasks \ {c} :
       /\ pc'[d] = pc[d] /\ request'[d] = request[d] /\ context'[d] = context[d]
       /\ status'[d] = status[d] /\ charged'[d] = charged[d] /\ ran_as'[d] = ran_as[d]

(* The layer that authenticates lets a key of the directory pass, with what *)
(* the directory says of it, and answers 401 to every other.               *)
LEMMA KeyIsChecked ==
  ASSUME NEW c \in Tasks, require_api_key(c)
  PROVE  /\ pc[c] = "auth" /\ UNCHANGED <<request, charged, ran_as>>
         /\ \/ /\ request[c].key \in DOMAIN directory
               /\ context' = [context EXCEPT ![c] = directory[request[c].key]]
               /\ pc' = [pc EXCEPT ![c] = "limit"] /\ UNCHANGED status
            \/ /\ pc' = [pc EXCEPT ![c] = "answered"] /\ status' = [status EXCEPT ![c] = 401]
               /\ UNCHANGED context
<1>1. Inside("auth") = "limit"
  BY DEF Inside
<1>2. pc[c] = "auth" /\ UNCHANGED <<request, charged, ran_as>>
  BY DEF require_api_key
<1>3. CASE request[c].key \notin {None, ""} /\ request[c].key \in DOMAIN directory
  BY <1>1, <1>2, <1>3, Zenon DEF require_api_key, Goto
<1>4. CASE ~(request[c].key \notin {None, ""} /\ request[c].key \in DOMAIN directory)
  BY <1>2, <1>4, Zenon DEF require_api_key, Goto, Respond
<1> QED
  BY <1>3, <1>4

LEMMA ServeKeepsOthers ==
  ASSUME Shape, NEW c \in Tasks, UNCHANGED bootVars,
         (\E r \in Request : route(c, r)) \/ Serve(c) \/ Drop(c)
  PROVE  Shape' /\ OnlyOf(c)
<1> USE DEF Shape, OnlyOf, Goto, Respond
<1>1. ASSUME NEW r \in Request, route(c, r) PROVE Shape' /\ OnlyOf(c)
  BY <1>1 DEF route
<1>2. CASE require_api_key(c)
  BY <1>2, KeyIsChecked
<1>3. CASE Refused(c)
  BY <1>3 DEF Refused
<1>4. CASE Admitted(c)
  BY <1>4 DEF Admitted
<1>5. CASE RejectBody(c)
  BY <1>5 DEF RejectBody
<1>6. CASE StartTurn(c)
  BY <1>6 DEF StartTurn
<1>7. CASE TurnAnswers(c)
  BY <1>7 DEF TurnAnswers
<1>8. CASE TurnFails(c)
  BY <1>8 DEF TurnFails
<1>9. CASE Drop(c)
  BY <1>9 DEF Drop
<1> QED
  BY <1>1, <1>2, <1>3, <1>4, <1>5, <1>6, <1>7, <1>8, <1>9 DEF Serve

(* A step that starts no turn and keeps the request keeps what its turn    *)
(* ran as.                                                                 *)
LEMMA SameTurn ==
  ASSUME NEW c \in Tasks, RequestInv(c), UNCHANGED bootVars,
         request'[c] = request[c], ran_as'[c] = ran_as[c]
  PROVE  ran_as'[c] # None => Configured(request[c].key, ran_as[c])'
<1>1. Configured(request[c].key, ran_as[c])' <=> Configured(request[c].key, ran_as[c])
  BY DEF bootVars, Configured, Boot!Entries, Boot!Set, Boot!LastNaming
<1> QED
  BY <1>1 DEF RequestInv

LEMMA ServeKeepsOwn ==
  ASSUME BootInv, Shape, NEW c \in Tasks, RequestInv(c), stage = "serving", UNCHANGED bootVars,
         (\E r \in Request : route(c, r)) \/ Serve(c) \/ Drop(c)
  PROVE  RequestInv(c)'
<1> USE DEF Shape, Goto, Respond, Inside, RequestInv, Served, bootVars
<1>1. ASSUME NEW r \in Request, route(c, r) PROVE RequestInv(c)'
  <2>1. /\ pc'[c] \in {"answered", "auth"} /\ ran_as'[c] = None /\ charged'[c] = 0
        /\ request'[c] = r
        /\ pc'[c] = "answered" => status'[c] = 200 /\ r.route = "healthz"
    BY <1>1 DEF route
  <2> QED
    BY <2>1
<1>2. CASE require_api_key(c)
  <2>1. ran_as'[c] = None /\ charged'[c] = 0 /\ request'[c] = request[c]
    BY <1>2, KeyIsChecked
  <2>2. \/ /\ request[c].key \in DOMAIN directory
           /\ pc'[c] = "limit" /\ context'[c] = directory[request[c].key]
        \/ pc'[c] = "answered" /\ status'[c] = 401
    BY <1>2, KeyIsChecked
  <2> QED
    BY <2>1, <2>2
<1>3. CASE Refused(c)
  <2>1. /\ ran_as'[c] = None /\ charged'[c] = 0 /\ pc'[c] = "answered" /\ status'[c] = 429
    BY <1>3 DEF Refused
  <2> QED
    BY <2>1
<1>4. CASE Admitted(c)
  <2>1. /\ ran_as'[c] = None /\ charged'[c] = 1 /\ pc'[c] = "handler"
        /\ request'[c] = request[c] /\ context'[c] = context[c]
    BY <1>4 DEF Admitted
  <2> QED
    BY <1>4, <2>1 DEF Admitted
<1>5. CASE RejectBody(c)
  <2>1. /\ ran_as'[c] = None /\ pc'[c] = "answered" /\ status'[c] \in {400, 415, 422}
    BY <1>5 DEF RejectBody
  <2> QED
    BY <2>1
<1>6. CASE StartTurn(c)
  <2>1. /\ ran_as'[c] = context[c].tenant_id /\ charged'[c] = 1 /\ pc'[c] = "turn"
        /\ request'[c] = request[c] /\ context'[c] = context[c]
    BY <1>6 DEF StartTurn, TurnTenant
  <2>2. request[c].key \in DOMAIN directory /\ context[c] = directory[request[c].key]
    BY <1>6 DEF StartTurn
  <2>3. Configured(request[c].key, context[c].tenant_id)
    BY <2>2, KeyIsConfigured
  <2>4. Configured(request[c].key, ran_as[c])'
    BY <2>1, <2>3 DEF Configured, Boot!Entries, Boot!Set, Boot!LastNaming
  <2> QED
    BY <2>1, <2>2, <2>4
<1>7. CASE TurnAnswers(c)
  <2>1. /\ charged'[c] = 1 /\ pc'[c] = "answered" /\ status'[c] = 200
        /\ request'[c] = request[c] /\ ran_as'[c] = ran_as[c]
    BY <1>7 DEF TurnAnswers
  <2>2. ran_as'[c] # None => Configured(request[c].key, ran_as[c])'
    BY <2>1, SameTurn
  <2> QED
    BY <2>1, <2>2
<1>8. CASE TurnFails(c)
  <2>1. /\ charged'[c] = 1 /\ pc'[c] = "answered" /\ status'[c] \in {400, 403, 404, 500}
        /\ request'[c] = request[c] /\ ran_as'[c] = ran_as[c]
    BY <1>8 DEF TurnFails, StatusOf
  <2>2. ran_as'[c] # None => Configured(request[c].key, ran_as[c])'
    BY <2>1, SameTurn
  <2> QED
    BY <2>1, <2>2
<1>9. CASE Drop(c)
  <2>1. /\ charged'[c] = 1 /\ pc'[c] = "idle"
        /\ request'[c] = request[c] /\ ran_as'[c] = ran_as[c]
    BY <1>9 DEF Drop
  <2>2. ran_as'[c] # None => Configured(request[c].key, ran_as[c])'
    BY <2>1, SameTurn
  <2> QED
    BY <2>1, <2>2
<1> QED
  BY <1>1, <1>2, <1>3, <1>4, <1>5, <1>6, <1>7, <1>8, <1>9 DEF Serve

-----------------------------------------------------------------------------
(* RouteInv is inductive, and gives the property.                          *)

LEMMA RouteInvInit == RouteInit => RouteInv
<1> SUFFICES ASSUME RouteInit PROVE RouteInv
  OBVIOUS
<1>1. Boot!Init
  BY DEF RouteInit
<1>2. BootInv
  <2>1. Len(Boot!Entries) \in Nat
    BY <1>1, EntriesAreFinite DEF Boot!Init
  <2>2. DOMAIN directory = {} /\ 1..(next - 1) = {}
    BY <1>1 DEF Boot!Init, Boot!NoKeys
  <2>3. Boot!DirectoryIsConfigured
    BY <2>2 DEF Boot!DirectoryIsConfigured
  <2> QED
    BY <1>1, <2>1, <2>3 DEF Boot!Init, BootInv
<1>3. Shape
  BY DEF RouteInit, Shape
<1>4. \A c \in Tasks : RequestInv(c)
  BY DEF RouteInit, RequestInv, Served
<1> QED
  BY <1>2, <1>3, <1>4 DEF RouteInv

LEMMA RouteInvStep == RouteInv /\ [RouteNext]_allVars => RouteInv'
<1> SUFFICES ASSUME RouteInv, [RouteNext]_allVars PROVE RouteInv'
  OBVIOUS
<1>1. BootInv /\ Shape /\ \A c \in Tasks : RequestInv(c)
  BY DEF RouteInv
<1>2. CASE stage # "serving" /\ Boot!Next /\ UNCHANGED <<vars, routeVars>>
  <2>1. BootInv'
    BY <1>1, <1>2, BootStep
  <2>2. Shape'
    BY <1>1, <1>2 DEF Shape, routeVars
  <2>3. \A c \in Tasks : RequestInv(c)'
    BY <1>1, <1>2 DEF RequestInv, Served, routeVars
  <2> QED
    BY <2>1, <2>2, <2>3 DEF RouteInv
<1>3. ASSUME UNCHANGED bootVars PROVE BootInv'
  <2>1. UNCHANGED <<stage, environment, next, directory>>
    BY <1>3 DEF bootVars
  <2> QED
    BY <1>1, <2>1 DEF BootInv, Boot!DirectoryIsConfigured, Boot!LastNaming, Boot!Entries, Boot!Set
<1>4. ASSUME NEW c \in Tasks, stage = "serving", UNCHANGED bootVars,
             (\E r \in Request : route(c, r)) \/ Serve(c) \/ Drop(c)
      PROVE  RouteInv'
  <2>1. Shape' /\ OnlyOf(c)
    BY <1>1, <1>4, ServeKeepsOthers
  <2>2. RequestInv(c)'
    BY <1>1, <1>4, ServeKeepsOwn
  <2>3. ASSUME NEW d \in Tasks \ {c} PROVE RequestInv(d)'
    BY <1>1, <2>1, OthersKeep DEF OnlyOf, bootVars
  <2> QED
    BY <1>3, <1>4, <2>1, <2>2, <2>3 DEF RouteInv
<1>5. ASSUME UNCHANGED <<bootVars, routeVars>> PROVE RouteInv'
  <2>1. Shape'
    BY <1>1, <1>5 DEF Shape, routeVars
  <2>2. ASSUME NEW d \in Tasks PROVE RequestInv(d)'
    BY <1>1, <1>5, OthersKeep DEF bootVars, routeVars
  <2> QED
    BY <1>3, <1>5, <2>1, <2>2 DEF RouteInv
<1>6. CASE UNCHANGED allVars
  BY <1>5, <1>6 DEF allVars, bootVars, routeVars
<1> QED
  BY <1>2, <1>4, <1>5, <1>6 DEF RouteNext

(* Every turn has paid exactly one cell and runs as the tenant that the    *)
(* environment gives its key; no request that is refused has paid or run   *)
(* anything (app.rs:17-22, rate_limit.rs:8-9, handlers.rs:26-29,           *)
(* cli.rs:57-62).                                                          *)
THEOREM TurnsArePaidAndConfigured == RouteSpec => []EachTurnPaidOnce
<1>1. RouteInv => EachTurnPaidOnce
  <2> SUFFICES ASSUME RouteInv PROVE CellsArePaidOnce /\ RunsAsConfigured
    BY DEF EachTurnPaidOnce
  <2>1. CellsArePaidOnce
    BY DEF RouteInv, RequestInv, CellsArePaidOnce
  <2>2. RunsAsConfigured
    BY DEF RouteInv, RequestInv, RunsAsConfigured, Configured
  <2> QED
    BY <2>1, <2>2
<1> QED
  BY <1>1, RouteInvInit, RouteInvStep, PTL DEF RouteSpec

-----------------------------------------------------------------------------
(* The composition: what the startup built is what the limiter knows, and  *)
(* every step of the surface is a step of the limiter or leaves it alone.  *)

Known(r) == <<r.tenant_id, r.subject>> \in Identities /\ r.role # None

KnownInv == Boot!TypeOK /\ \A k \in DOMAIN directory : Known(directory[k])

RequestTyped ==
  /\ request \in [Tasks -> Request]
  /\ pc \in [Tasks -> {"idle", "answered"} \cup Stages]
  /\ context \in [Tasks -> Range(directory) \cup {NoContext}]
  /\ \A c \in Tasks :
       /\ status[c] \in {0, 200, 400, 401, 403, 404, 415, 422, 429, 500}
       /\ charged[c] \in Nat
       /\ pc[c] = "answered" => status[c] # 0
       /\ stage # "serving" => context[c] = NoContext

LEMMA EntryIsKnown ==
  ASSUME environment \in Environments, NEW i \in 1..Len(Boot!Entries),
         Boot!WellFormed(Boot!Entries[i])
  PROVE  /\ Known(Boot!ApiKeyRecord(Boot!Entries[i]))
         /\ Boot!ApiKeyRecord(Boot!Entries[i]).tenant_id \in Tenants
<1> DEFINE e == Boot!Entries[i]
<1>1. "api_keys" \in DOMAIN environment /\ Boot!Entries = environment.api_keys
  <2>1. CASE "api_keys" \notin DOMAIN environment
    <3>1. Boot!Entries = <<>>
      BY <2>1 DEF Boot!Entries, Boot!Set
    <3> QED BY <3>1
  <2> QED BY <2>1 DEF Boot!Entries, Boot!Set
<1>2. e \in Range(environment.api_keys)
  BY <1>1, EnvironmentAssumption DEF Range
<1>3. <<e.tenant, e.subject>> \in Identities
  BY <1>1, <1>2 DEF Identities
<1>4. /\ Boot!ApiKeyRecord(e).tenant_id = e.tenant /\ Boot!ApiKeyRecord(e).subject = e.subject
      /\ Boot!ApiKeyRecord(e).role = Boot!RoleOf[e.role]
  BY DEF Boot!ApiKeyRecord
<1>5. Boot!RoleOf[e.role] # None
  BY DEF Boot!WellFormed, Boot!RoleOf, None
<1>6. e.tenant \in Tenants
  BY DEF Boot!WellFormed
<1> QED BY <1>3, <1>4, <1>5, <1>6 DEF Known

LEMMA KnownStep ==
  ASSUME BootInv, KnownInv, BootInv', Boot!Next
  PROVE  KnownInv'
<1> USE DEF Boot!BootStages
<1>a. /\ stage \in Boot!BootStages /\ storage \in {"none", "in_memory", "atlas", "document_db"}
      /\ \A k \in DOMAIN directory : /\ Known(directory[k])
                                     /\ directory[k].tenant_id \in Tenants \cup {DevTenant}
  BY DEF KnownInv, Boot!TypeOK
<1>b. environment' \in Environments /\ next' \in 1..(Len(Boot!Entries') + 1)
  BY DEF BootInv
<1>1. ASSUME /\ stage' \in Boot!BootStages
             /\ storage' \in {"none", "in_memory", "atlas", "document_db"}
             /\ \A k \in DOMAIN directory' :
                  Known(directory'[k]) /\ directory'[k].tenant_id \in Tenants \cup {DevTenant}
      PROVE  KnownInv'
  BY <1>1, <1>b DEF KnownInv, Boot!TypeOK, Known
<1>2. ASSUME NEW env \in Environments, Boot!main(env) PROVE KnownInv'
  <2>1. /\ stage' \in {"one_shot", "parsing"} /\ storage' \in {"in_memory", "none"}
        /\ directory' \in {Boot!NoKeys, Boot!DevDirectory}
    BY <1>2 DEF Boot!main
  <2>2. \A k \in DOMAIN directory' :
          /\ directory'[k].tenant_id = DevTenant /\ directory'[k].subject = "dev"
          /\ directory'[k].role = "Admin"
    BY <2>1 DEF Boot!NoKeys, Boot!DevDirectory
  <2>3. <<DevTenant, "dev">> \in Identities
    BY DEF Identities
  <2>4. \A k \in DOMAIN directory' :
          Known(directory'[k]) /\ directory'[k].tenant_id \in Tenants \cup {DevTenant}
    BY <2>2, <2>3 DEF Known, None
  <2> QED BY <1>1, <2>1, <2>4
<1>3. CASE Boot!ParseEntry
  <2> DEFINE e == Boot!Entries[next]
  <2>1. next \in 1..Len(Boot!Entries) /\ environment \in Environments
    BY <1>3, EntriesAreFinite DEF Boot!ParseEntry, BootInv
  <2>2. UNCHANGED <<stage, storage>>
    BY <1>3 DEF Boot!ParseEntry
  <2>3. CASE Boot!WellFormed(e)
    <3>1. /\ DOMAIN directory' = DOMAIN directory \cup {e.key}
          /\ directory'[e.key] = Boot!ApiKeyRecord(e)
          /\ \A k \in DOMAIN directory : k # e.key => directory'[k] = directory[k]
      BY <1>3, <2>3 DEF Boot!ParseEntry, Boot!Inserted
    <3>2. Known(Boot!ApiKeyRecord(e)) /\ Boot!ApiKeyRecord(e).tenant_id \in Tenants
      BY <2>1, <2>3, EntryIsKnown
    <3> HIDE DEF e
    <3>3. \A k \in DOMAIN directory' :
            Known(directory'[k]) /\ directory'[k].tenant_id \in Tenants \cup {DevTenant}
      BY <1>a, <3>1, <3>2
    <3> QED BY <1>1, <1>a, <2>2, <3>3
  <2>4. CASE ~Boot!WellFormed(e)
    <3>1. directory' = directory
      BY <1>3, <2>4 DEF Boot!ParseEntry
    <3> QED BY <1>1, <1>a, <2>2, <3>1
  <2> QED BY <2>3, <2>4
<1>4. CASE Boot!new_from_env
  <2>1. /\ directory' = directory /\ stage' \in {"built", "down"}
        /\ storage' \in {storage, "in_memory", "atlas", "document_db"}
    BY <1>4 DEF Boot!new_from_env, Boot!MongoBackend
  <2> QED BY <1>1, <1>a, <2>1
<1>5. CASE Boot!bind
  <2>1. directory' = directory /\ storage' = storage /\ stage' \in {"serving", "down"}
    BY <1>5 DEF Boot!bind
  <2> QED BY <1>1, <1>a, <2>1
<1>6. CASE Boot!run_query_command
  <2>1. directory' = directory /\ storage' = storage /\ stage' = "down"
    BY <1>6 DEF Boot!run_query_command
  <2> QED BY <1>1, <1>a, <2>1
<1> QED
  BY <1>2, <1>3, <1>4, <1>5, <1>6 DEF Boot!Next

LEMMA KnownInvStep ==
  ASSUME RouteInv, KnownInv, [RouteNext]_allVars
  PROVE  KnownInv'
<1>1. CASE stage # "serving" /\ Boot!Next
  <2>1. BootInv /\ BootInv'
    BY <1>1, BootStep DEF RouteInv
  <2> QED BY <1>1, <2>1, KnownStep
<1>2. CASE UNCHANGED bootVars
  <2>1. UNCHANGED <<stage, environment, next, directory, storage>>
    BY <1>2 DEF bootVars
  <2>2. Boot!Entries' = Boot!Entries
    BY <2>1 DEF Boot!Entries, Boot!Set
  <2> QED BY <2>1, <2>2 DEF KnownInv, Boot!TypeOK, Known
<1>3. UNCHANGED allVars => UNCHANGED bootVars
  BY DEF allVars, bootVars
<1> QED BY <1>1, <1>2, <1>3 DEF RouteNext

(* The request that the limiter's layer sees comes from a known key.       *)
LEMMA ServedIsKnown ==
  ASSUME RouteInv, KnownInv, NEW c \in Tasks, Served(c)
  PROVE  /\ request[c].key \in DOMAIN directory /\ context[c] = directory[request[c].key]
         /\ context[c] # NoContext
         /\ Identity(c) \in ApiKeys /\ LimiterKey(Identity(c)) = Identity(c)
         /\ Identity(c) \in LimiterKeys
<1>1. request[c].key \in DOMAIN directory /\ context[c] = directory[request[c].key]
  BY DEF RouteInv, RequestInv
<1>2. Identity(c) \in Identities /\ context[c].role # None
  BY <1>1 DEF KnownInv, Known, Identity
<1>3. Identity(c)[1] = context[c].tenant_id /\ Identity(c)[2] = context[c].subject
  BY DEF Identity
<1>4. context[c] # NoContext
  BY <1>2 DEF NoContext
<1>5. LimiterKey(Identity(c)) = <<Identity(c)[1], Identity(c)[2]>>
  BY <1>2, IdentityAssumption DEF LimiterKey
<1>6. Identity(c) = <<Identity(c)[1], Identity(c)[2]>>
  BY <1>3 DEF Identity
<1>7. Identity(c) \in ApiKeys
  BY <1>2, IdentityAssumption
<1> QED BY <1>1, <1>4, <1>5, <1>6, <1>7, KeyOfApi

LEMMA RouteStepIsLimited ==
  ASSUME RouteInv, KnownInv, [RouteNext]_allVars
  PROVE  [Next]_vars
<1>1. ASSUME NEW c \in Tasks, Refused(c) PROVE [Next]_vars
  <2>1. Identity(c) \in ApiKeys /\ reject(Identity(c))
    BY <1>1, ServedIsKnown DEF Refused, Served
  <2> QED BY <2>1 DEF Next
<1>2. ASSUME NEW c \in Tasks, Admitted(c) PROVE [Next]_vars
  <2>1. Identity(c) \in ApiKeys /\ admit(Identity(c))
    BY <1>2, ServedIsKnown DEF Admitted, Served
  <2> QED BY <2>1 DEF Next
<1>3. ASSUME NEW c \in Tasks,
             \/ \E r \in Request : route(c, r)
             \/ require_api_key(c) \/ RejectBody(c) \/ StartTurn(c) \/ TurnAnswers(c)
             \/ TurnFails(c) \/ Drop(c)
      PROVE  UNCHANGED vars
  BY <1>3 DEF route, require_api_key, RejectBody, StartTurn, TurnAnswers, TurnFails, Drop
<1>4. Tick => [Next]_vars
  BY DEF Next
<1>5. UNCHANGED allVars => UNCHANGED vars
  BY DEF allVars, vars
<1> QED BY <1>1, <1>2, <1>3, <1>4, <1>5 DEF RouteNext, Serve

LEMMA TypedStep ==
  ASSUME RouteInv, KnownInv, RequestTyped, [RouteNext]_allVars
  PROVE  RequestTyped'
<1> DEFINE Statuses == {0, 200, 400, 401, 403, 404, 415, 422, 429, 500}
           Places == {"idle", "answered"} \cup Stages
           Contexts == Range(directory) \cup {NoContext}
<1>1. CASE stage # "serving" /\ Boot!Next /\ UNCHANGED <<vars, routeVars>>
  <2>1. \A c \in Tasks : context[c] = NoContext
    BY <1>1 DEF RequestTyped
  <2>2. context \in [Tasks -> Range(directory') \cup {NoContext}]
    BY <2>1 DEF RequestTyped
  <2> QED BY <1>1, <2>1, <2>2 DEF RequestTyped, routeVars
<1>2. ASSUME UNCHANGED <<bootVars, routeVars>> PROVE RequestTyped'
  <2>1. UNCHANGED <<stage, directory, pc, request, context, status, charged>>
    BY <1>2 DEF bootVars, routeVars
  <2> QED BY <2>1 DEF RequestTyped
<1>3. ASSUME NEW c \in Tasks, stage = "serving", UNCHANGED bootVars,
             (\E r \in Request : route(c, r)) \/ Serve(c) \/ Drop(c)
      PROVE  RequestTyped'
  <2> DEFINE Written ==
               /\ request' \in [Tasks -> Request] /\ pc' \in [Tasks -> Places]
               /\ context' \in [Tasks -> Contexts]
               /\ status'[c] \in Statuses /\ charged'[c] \in Nat
               /\ pc'[c] = "answered" => status'[c] # 0
  <2>a. /\ DOMAIN status = Tasks /\ DOMAIN charged = Tasks
        /\ request \in [Tasks -> Request] /\ pc \in [Tasks -> Places]
        /\ context \in [Tasks -> Contexts] /\ status[c] \in Statuses /\ charged[c] \in Nat
    BY DEF RouteInv, Shape, RequestTyped
  <2>b. ASSUME NEW layer \in {"route", "auth", "limit"} PROVE Inside(layer) \in Stages
    BY DEF Inside, Stages
  <2>c. {"auth", "limit", "handler", "turn", "idle", "answered"} \subseteq Places
    BY DEF Stages
  <2> HIDE DEF Places, Contexts
  <2>1. ASSUME NEW r \in Request, route(c, r) PROVE Written
    <3>1. Inside("route") = "auth"
      BY DEF Inside
    <3>2. NoContext \in Contexts
      BY DEF Contexts
    <3> QED BY <2>1, <2>a, <2>c, <3>1, <3>2 DEF route, Goto, Respond
  <2>2. ASSUME require_api_key(c) PROVE Written
    <3>1. request[c].key \in DOMAIN directory => directory[request[c].key] \in Contexts
      BY DEF Contexts, Range
    <3> QED BY <2>2, <2>a, <2>c, <3>1, KeyIsChecked
  <2>3. ASSUME Refused(c) PROVE Written
    BY <2>3, <2>a, <2>c DEF Refused, Respond, Goto
  <2>4. ASSUME Admitted(c) PROVE Written
    <3>1. Inside("limit") = "handler"
      BY DEF Inside
    <3> QED BY <2>4, <2>a, <2>c, <3>1 DEF Admitted, Goto
  <2>5. ASSUME RejectBody(c) PROVE Written
    BY <2>5, <2>a, <2>c DEF RejectBody, Respond, Goto
  <2>6. ASSUME StartTurn(c) PROVE Written
    BY <2>6, <2>a, <2>c DEF StartTurn, Goto
  <2>7. ASSUME TurnAnswers(c) PROVE Written
    BY <2>7, <2>a, <2>c DEF TurnAnswers, Respond, Goto
  <2>8. ASSUME TurnFails(c) PROVE Written
    <3>1. \A error \in TurnErrors : StatusOf(error) \in Statuses \ {0}
      BY DEF StatusOf
    <3> QED BY <2>8, <2>a, <2>c, <3>1 DEF TurnFails, Respond, Goto
  <2>9. ASSUME Drop(c) PROVE Written
    BY <2>9, <2>a, <2>c DEF Drop, Goto
  <2>10. Written
    BY <1>3, <2>1, <2>2, <2>3, <2>4, <2>5, <2>6, <2>7, <2>8, <2>9 DEF Serve
  <2>11. OnlyOf(c) /\ stage' = stage /\ directory' = directory
    BY <1>3, ServeKeepsOthers DEF RouteInv, bootVars
  <2>12. ASSUME NEW d \in Tasks
         PROVE  /\ status'[d] \in Statuses /\ charged'[d] \in Nat
                /\ pc'[d] = "answered" => status'[d] # 0
    BY <2>10, <2>11 DEF RequestTyped, OnlyOf
  <2> QED BY <1>3, <2>10, <2>11, <2>12 DEF RequestTyped, Places, Contexts
<1>4. CASE UNCHANGED allVars
  BY <1>2, <1>4 DEF allVars, bootVars, routeVars
<1> QED BY <1>1, <1>2, <1>3, <1>4 DEF RouteNext

LEMMA KnownInductive == RouteSpec => [](RouteInv /\ KnownInv)
<1>1. RouteInit => KnownInv
  <2> SUFFICES ASSUME RouteInit PROVE KnownInv
    OBVIOUS
  <2>1. Boot!Init /\ BootInv
    BY RouteInvInit DEF RouteInit, RouteInv
  <2>2. DOMAIN directory = {} /\ stage = "down" /\ storage = "none"
    BY <2>1 DEF Boot!Init, Boot!NoKeys
  <2> QED BY <2>1, <2>2 DEF KnownInv, Boot!TypeOK, Boot!BootStages, BootInv
<1>2. RouteInv /\ KnownInv /\ [RouteNext]_allVars => KnownInv'
  BY KnownInvStep
<1> QED
  BY <1>1, <1>2, RouteInvInit, RouteInvStep, PTL DEF RouteSpec

(* Every request is somewhere on its way through the layers, with a status *)
(* once it is answered and the context of a known key behind the layer     *)
(* that authenticates (auth.rs, app.rs:17-22), and Startup's state is      *)
(* typed, for every environment.                                           *)
THEOREM RouteTypeCorrect == RouteSpec => []RouteTypeOK
<1>1. RouteInit => RequestTyped
  BY DEF RouteInit, RequestTyped, Request
<1>2. RouteInv /\ KnownInv /\ RequestTyped /\ [RouteNext]_allVars => RequestTyped'
  BY TypedStep
<1>3. RouteInv /\ KnownInv /\ RequestTyped => RouteTypeOK
  <2>1. RouteInv /\ KnownInv =>
          \A c \in Tasks : pc[c] \in {"limit", "handler", "turn"} => context[c] # NoContext
    BY ServedIsKnown DEF Served
  <2> QED BY <2>1 DEF RouteTypeOK, RequestTyped, KnownInv
<1> QED
  BY <1>1, <1>2, <1>3, KnownInductive, PTL DEF RouteSpec

(* The HTTP surface uses the limiter as module RateLimiter has it: every   *)
(* request that the layer sees is one check of one known tenant and        *)
(* subject (rate_limit.rs:74-95), so the quota of RateLimiter holds of it. *)
THEOREM RoutesAreLimited == RouteSpec => Spec
<1>1. RouteInit => Init
  BY DEF RouteInit
<1>2. RouteInv /\ KnownInv /\ [RouteNext]_allVars => [Next]_vars
  BY RouteStepIsLimited
<1> QED
  BY <1>1, <1>2, KnownInductive, PTL DEF RouteSpec, Spec

(* A client with a valid key is told 429 only when its tenant and subject  *)
(* were admitted a whole quota in the last minute (rate_limit.rs:88-93),   *)
(* whatever other requests do at the same time.                            *)
THEOREM RefusalsAreEarned == RouteSpec => ThrottledOnlyWhenSpent
<1> DEFINE Earned(c) ==
             status'[c] = 429 /\ status[c] # 429 =>
               /\ request[c].key \in DOMAIN directory
               /\ LET k == directory[request[c].key]
                  IN Spent(<<k.tenant_id, k.subject>>)
<1>1. ASSUME RouteInv, KnownInv, TypeOK, PaceInv, [RouteNext]_allVars, NEW c \in Tasks
      PROVE  Earned(c)
  <2> SUFFICES ASSUME status'[c] = 429, status[c] # 429
               PROVE  /\ request[c].key \in DOMAIN directory
                      /\ LET k == directory[request[c].key]
                         IN Spent(<<k.tenant_id, k.subject>>)
    OBVIOUS
  <2>1. CASE Refused(c)
    <3>1. /\ request[c].key \in DOMAIN directory /\ context[c] = directory[request[c].key]
          /\ Identity(c) \in LimiterKeys /\ ~Conforms(Identity(c))
      BY <1>1, <2>1, ServedIsKnown DEF Refused, Served, reject
    <3>2. Spent(Identity(c))
      BY <1>1, <3>1, RefusedIsSpent
    <3> QED BY <3>1, <3>2 DEF Identity
  <2>2. Refused(c)
    <3>1. DOMAIN status = Tasks
      BY <1>1 DEF RouteInv, Shape
    <3>2. UNCHANGED routeVars => status' = status
      BY DEF routeVars
    <3>3. UNCHANGED allVars => status' = status
      BY DEF allVars
    <3>4. ASSUME NEW d \in Tasks, d # c,
                 (\E r \in Request : route(d, r)) \/ Serve(d) \/ Drop(d), UNCHANGED bootVars
          PROVE  FALSE
      <4>1. OnlyOf(d)
        BY <1>1, <3>4, ServeKeepsOthers DEF RouteInv
      <4> QED BY <4>1, <3>4 DEF OnlyOf
    <3>5. ASSUME NEW r \in Request, route(c, r) PROVE FALSE
      BY <3>1, <3>5 DEF route, Respond
    <3>6. ~require_api_key(c)
      <4>1. require_api_key(c) => status' = status \/ status' = [status EXCEPT ![c] = 401]
        BY KeyIsChecked
      <4> QED BY <3>1, <4>1
    <3>7. ~Admitted(c) /\ ~StartTurn(c) /\ ~Drop(c)
      BY DEF Admitted, StartTurn, Drop
    <3>8. ~RejectBody(c) /\ ~TurnAnswers(c)
      BY <3>1 DEF RejectBody, TurnAnswers, Respond
    <3>9. ~TurnFails(c)
      BY <3>1 DEF TurnFails, Respond, StatusOf
    <3> QED
      BY <1>1, <3>2, <3>3, <3>4, <3>5, <3>6, <3>7, <3>8, <3>9 DEF RouteNext, Serve
  <2> QED BY <2>1, <2>2
<1>2. RouteInv /\ KnownInv /\ TypeOK /\ PaceInv /\ [RouteNext]_allVars
        => [\A c \in Tasks : Earned(c)]_allVars
  BY <1>1
<1>3. ThrottledOnlyWhenSpent <=> [][\A c \in Tasks : Earned(c)]_allVars
  BY PTL DEF ThrottledOnlyWhenSpent
<1> HIDE DEF Earned
<1> QED
  BY <1>2, <1>3, KnownInductive, PaceInductive, RoutesAreLimited, PTL DEF RouteSpec

-----------------------------------------------------------------------------
(* The startup by itself, restarted as often as it likes.                  *)

LEMMA BootStart == Boot!Init => BootInv /\ KnownInv
<1> SUFFICES ASSUME Boot!Init PROVE BootInv /\ KnownInv
  OBVIOUS
<1>1. Len(Boot!Entries) \in Nat
  BY EntriesAreFinite DEF Boot!Init
<1>2. DOMAIN directory = {} /\ 1..(next - 1) = {}
  BY DEF Boot!Init, Boot!NoKeys
<1>3. Boot!DirectoryIsConfigured
  BY <1>2 DEF Boot!DirectoryIsConfigured
<1>4. BootInv
  BY <1>1, <1>3 DEF Boot!Init, BootInv
<1>5. KnownInv
  BY <1>1, <1>2 DEF Boot!Init, KnownInv, Boot!TypeOK, Boot!BootStages
<1> QED BY <1>4, <1>5

LEMMA BootKeeps == BootInv /\ KnownInv /\ [Boot!Next]_Boot!vars => BootInv' /\ KnownInv'
<1> SUFFICES ASSUME BootInv, KnownInv, [Boot!Next]_Boot!vars PROVE BootInv' /\ KnownInv'
  OBVIOUS
<1>1. CASE Boot!Next
  <2>1. stage # "serving"
    BY <1>1 DEF Boot!Next, Boot!main, Boot!ParseEntry, Boot!new_from_env, Boot!bind,
      Boot!run_query_command
  <2>2. BootInv'
    BY <1>1, <2>1, BootStep
  <2> QED BY <1>1, <2>2, KnownStep
<1>2. CASE UNCHANGED Boot!vars
  <2>1. UNCHANGED <<stage, environment, next, directory, storage>>
    BY <1>2 DEF Boot!vars
  <2>2. Boot!Entries' = Boot!Entries
    BY <2>1 DEF Boot!Entries, Boot!Set
  <2>3. BootInv'
    BY <2>1, <2>2 DEF BootInv, Boot!DirectoryIsConfigured, Boot!LastNaming
  <2>4. KnownInv'
    BY <2>1, <2>2 DEF KnownInv, Boot!TypeOK, Known
  <2> QED BY <2>3, <2>4
<1> QED BY <1>1, <1>2

(***************************************************************************)
(* Whatever a process is started with and however often, its directory has *)
(* a key for every well-formed entry read so far, with the record of the   *)
(* last entry that names it, or the one generated key when no keys are     *)
(* set: a malformed entry costs its own key only (cli.rs:57-62, 90-130).   *)
(***************************************************************************)
THEOREM StartupIsConfigured == Boot!Spec => [](Boot!TypeOK /\ Boot!DirectoryIsConfigured)
<1>1. BootInv /\ KnownInv => Boot!TypeOK /\ Boot!DirectoryIsConfigured
  BY DEF BootInv, KnownInv
<1> QED
  BY <1>1, BootStart, BootKeeps, PTL DEF Boot!Spec
=============================================================================
