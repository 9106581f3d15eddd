---------------------------- MODULE MCLlmAdapter ----------------------------
(* Small instances of LlmAdapter for TLC.                                  *)
EXTENDS LlmAdapter, TLC

CONSTANT t1

(* One tenant has a budget of its own, the other one the default.          *)
MC_PerTenantBudget == t1 :> 3

(* Durations multiplied by the f64 num / den, to the nearest Duration and  *)
(* half to even, as from_secs_f64 rounds.                                  *)
MC_Times(num, den) ==
  [b \in 0..LongestSleep |->
     LET quotient == (b * num) \div den
         rest     == (b * num) % den
         nearest  == IF \/ 2 * rest > den
                        \/ 2 * rest = den /\ quotient % 2 = 1
                     THEN quotient + 1
                     ELSE quotient
     IN  Smaller(nearest, Beyond)]

(* The default, a fraction, a negative number or NaN, and a large one.     *)
MC_Scale ==
  [two |-> MC_Times(2, 1), half |-> MC_Times(1, 2),
   nan |-> MC_Times(0, 1), large |-> MC_Times(5, 2)]

MC_Config(mock, fails, attempts, initial, multiplier, cap, entries) ==
  [behavior |-> mock, failures |-> fails, max_attempts |-> attempts,
   initial_backoff |-> initial, backoff_multiplier |-> multiplier,
   max_backoff |-> cap, entry_points |-> entries]

MC_Metered == {"complete_for_tenant"}
MC_Both == {"complete", "complete_for_tenant"}

(* The application's turns: `complete` only.                               *)
MC_AppTurns == {MC_Config("AlwaysSucceed", 0, 2, 1, "two", 4, {"complete"})}

(* Metered requests: in an outage that fails some of them, in a hard one   *)
(* with an initial backoff above the cap and a multiplier of a half, or    *)
(* one that is negative or not a number, and in one whose backoff gets out *)
(* of range below the cap.  Then, through both methods: an outage that can *)
(* be ridden out, with a sleep between attempts and without one; a hard    *)
(* one that reaches the cap of the backoff; no attempts at all.            *)
MC_Stacks ==
  { MC_Config("FailNTimesThenSucceed", 2, 2, 1, "two", 4, MC_Metered),
    MC_Config("AlwaysFail", 0, 4, 10, "half", 4, MC_Metered),
    MC_Config("AlwaysFail", 0, 3, 5, "nan", 4, MC_Metered),
    MC_Config("FailNTimesThenSucceed", 3, 4, 3, "large", 12, MC_Metered),
    MC_Config("FailNTimesThenSucceed", 2, 3, 0, "two", 4, MC_Both),
    MC_Config("FailNTimesThenSucceed", 3, 4, 1, "two", 4, MC_Both),
    MC_Config("AlwaysFail", 0, 4, 3, "two", 10, MC_Both),
    MC_Config("AlwaysSucceed", 0, 0, 1, "two", 4, MC_Both) }

(* Requests are interchangeable; used where no liveness is checked.        *)
MC_TaskSymmetry == Permutations(Tasks)
=============================================================================
