---------------------------- MODULE MCAttendance ----------------------------
(* Attendance for TLC.                                                     *)
EXTENDS Attendance, TLC

\* Users, events and workers are interchangeable.
Symmetry == Permutations(Users) \union Permutations(Events) \union Permutations(Workers)

============================================================================
