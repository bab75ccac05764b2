------------------------------- MODULE MCRtc -------------------------------
(* Units of two, set so that the seconds that pass carry into all of them. *)
EXTENDS Rtc

TwoOfEach ==
  [f \in Field |-> IF f = "year" THEN BSD_MAX_YEAR ELSE First(f) + 1]

At(year, week, hour, second) ==
  [year |-> year, month |-> 2, day |-> 2, week |-> week,
   hour |-> hour, minute |-> 1, second |-> second]

(* The last second of a year, the edges of the range of years, a Tuesday,  *)
(* and a year that is refused.                                             *)
Settings ==
  {At(2023, 1, 1, 1), At(1980, 1, 0, 1), At(2079, 1, 1, 1), At(2024, 16, 0, 0),
   At(2080, 1, 0, 0)}
=============================================================================
