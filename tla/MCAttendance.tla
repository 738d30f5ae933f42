---------------------------- MODULE MCAttendance ----------------------------
(* Attendance for TLC: request threads are interchangeable, and so are      *)
(* persons (the properties checked under it quantify over both).            *)
EXTENDS Attendance, TLC

Symmetry == Permutations(Threads) \cup Permutations(Persons)
=============================================================================
