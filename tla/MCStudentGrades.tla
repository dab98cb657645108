-------------------------- MODULE MCStudentGrades --------------------------
(***************************************************************************)
(* The sixteen entries of defaultTest, and a user with a short and a long  *)
(* name.  Grades in strcmp's order: AA BA BB CA CB CC DC DD FF NA VF.      *)
(***************************************************************************)
EXTENDS StudentGrades

DemoGrades == <<6, 5, 2, 3, 9, 10, 11, 2, 1, 6, 4, 9, 2, 3, 1, 8>>
DemoEntries == [k \in 1..16 |-> [name |-> k, grade |-> DemoGrades[k]]]
=============================================================================
