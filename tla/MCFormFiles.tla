------------------------------ MODULE MCFormFiles ------------------------------
(* Instances of FormFiles: students, what their forms can say, edit windows. *)
EXTENDS FormFiles, TLC
CONSTANTS ann, bea

Header(roll, section, group) ==
    [gender |-> "Female", roll |-> roll, section |-> section, tot |-> 1, group |-> group]

MCStudents == {ann, bea}

\* Two edit windows and a server; forms with pictures; one roll in two sections
\* and two groups.
MCUses ==
    {[headers |-> {Header(1, " ", "Science"), Header(2, " ", "Home Economics")},
      windows |-> {1, 2}, photos |-> FALSE, pictured |-> {}, online |-> TRUE],
     [headers |-> {Header(1, " ", "Science"), Header(2, " ", "Home Economics")},
      windows |-> {1}, photos |-> TRUE, pictured |-> MCStudents, online |-> FALSE],
     [headers |-> {Header(1, " ", "Science"), Header(1, "A", "Science"),
                   Header(1, "A", "Home Economics")},
      windows |-> {1}, photos |-> FALSE, pictured |-> {}, online |-> FALSE]}
================================================================================
