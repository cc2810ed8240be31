------------------------------ MODULE MCTransfer ------------------------------
(* Small instances of Transfer for TLC. *)
EXTENDS Transfer

Scene(acts, faults, vers, conns) ==
    [acts |-> acts, faults |-> faults, vers |-> vers, conns |-> conns]

\* Transfers that go on to an end: nothing breaks, or both ends are told of it,
\* the server by its timeout at the latest.
Nested   == Scene({"save", "cancel", "nest"}, {}, 2, 3)
Told     == Scene({"cancel", "nest"}, {"password", "cut", "timeout"}, 1, 2)
MCEnding == {Nested, Told}

\* Everything that can break; forms saved while connections break; and
\* transfers inside each other that fail.
Broken  == Scene({"cancel"}, FaultKinds \ {"timeout"}, 1, 2)
Resaved == Scene({"save", "cancel"}, {"reopen", "cut", "silence", "crash"}, 2, 2)
Inside  == Scene({"cancel", "nest"}, {"open", "refuse", "cut"}, 1, 2)
MCFaulty == {Broken, Resaved, Inside}

\* Only the opening of a form's file fails.
MCUnopened == {Scene({}, {"open"}, 2, 2)}
===============================================================================
