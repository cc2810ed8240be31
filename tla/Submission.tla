------------------------------ MODULE Submission ------------------------------
(***************************************************************************)
(* What the sending of forms promises to the institution, without any      *)
(* connection: the operator saves forms, the server comes to hold copies   *)
(* of them, and a form is marked sent only while the server holds exactly  *)
(* what the form's file says.  A marked form is not touched any more until *)
(* the operator saves it again.  A mishap may loose the promise for some   *)
(* forms; what the server holds of the others stays as promised.  Transfer *)
(* implements this.                                                        *)
(***************************************************************************)
EXTENDS Integers

CONSTANTS
    Forms,      \* the forms of the institution
    MaxVer,     \* bound: how often a form is saved
    None        \* no record at the server

VARIABLES
    file,       \* file[f]: the version saved last, and its sent flag
    record,     \* record[f]: the version the server holds, or None
    loose       \* the forms whose record may be anything by now

subvars == <<file, record, loose>>

SubmissionInit ==
    /\ file = [f \in Forms |-> [ver |-> 1, sent |-> FALSE]]
    /\ record = [f \in Forms |-> None]
    /\ loose = {}

\* The operator saves a form, which makes it unsent.
Change(f) ==
    /\ file[f].ver < MaxVer
    /\ file' = [file EXCEPT ![f] = [ver |-> @.ver + 1, sent |-> FALSE]]
    /\ UNCHANGED <<record, loose>>

\* A version of a form that is not marked sent arrives at the server.
Arrive(f) ==
    /\ ~file[f].sent
    /\ \E v \in 1..file[f].ver : record' = [record EXCEPT ![f] = v]
    /\ UNCHANGED <<file, loose>>

\* The form's transfer is confirmed.
Confirm(f) ==
    /\ f \in loose \/ record[f] = file[f].ver
    /\ file' = [file EXCEPT ![f].sent = TRUE]
    /\ UNCHANGED <<record, loose>>

\* A mishap: of the forms it concerns, and of those of earlier mishaps, the
\* server may hold anything.
Mishap ==
    /\ loose \subseteq loose' /\ loose' \subseteq Forms
    /\ \A f \in Forms \ loose' : record'[f] = record[f]
    /\ UNCHANGED file

SubmissionNext ==
    \/ \E f \in Forms : Change(f) \/ Arrive(f) \/ Confirm(f)
    \/ Mishap

SubmissionSpec == SubmissionInit /\ [][SubmissionNext]_subvars
===============================================================================
