------------------------------ MODULE MCTools ------------------------------
(* A small instance of Tools for TLC.                                      *)
EXTENDS Tools

(* Both sides of every leap rule: an ordinary leap year, a century that is *)
(* one, a century that is not, and the turn of the 400-year era.  The      *)
(* last and the first day of every month, and the day before the epoch.    *)
MC_Years == {1970, 1972, 2000, 2001, 2096, 2100, 2400}
MC_Days == {DaysBefore(y, m) + k : y \in MC_Years, m \in 1..12, k \in {-1, 0}}
MC_Instants == [day : MC_Days, second : {3661, 86399}]

(* In quarters: -20, -4, -1/2, 0, 1/4, 3, 7 and 20.  Their results stay    *)
(* among the integers that floats and i64 can hold, are rounded, pass      *)
(* i64's range, and pass the floats'.                                      *)
MC_Operands == {-80, -16, -2, 0, 1, 12, 28, 80}

MC_Calculations ==
  [op : {"add", "sub", "mul", "div", "pow"}, a : MC_Operands, b : MC_Operands]
MC_Arguments ==
  MC_Calculations \cup [op : {"add"}, a : {4}] \cup [a : {4}, b : {4}]
    \cup [op : {"add"}, b : {4}] \cup [message : {"hello"}]
=============================================================================
