-------------------------------- MODULE SyncWatch --------------------------------
(***************************************************************************)
(* sync-data.sh watches the database files of the institutions and tells a *)
(* listener (listen.c) which of them have changed.  It lists the files,    *)
(* notes the times of their last change, sleeps a second and compares; a   *)
(* time is in whole seconds.  The listener serves one connection at a time *)
(* and reads a line from it before it accepts the next.                    *)
(*                                                                         *)
(* A file's time matters in two ways only: whether it is this second's     *)
(* (another change now leaves it), and whether it differs from the noted   *)
(* one.                                                                    *)
(***************************************************************************)
EXTENDS Naturals, Sequences

CONSTANTS
    NumFiles,
    MaxChanges, \* bound: changes of a file; the first creates it
    Backlog,    \* LISTENQ
    None

\* What the constants have to satisfy.
WatchAssumption ==
    /\ NumFiles \in Nat \ {0} /\ MaxChanges \in Nat \ {0} /\ Backlog \in Nat \ {0}

Files == 1..NumFiles

VARIABLES
    ver,        \* changes of a file so far
    now,        \* whether the file's time is that of this second
    differs,    \* whether it differs from the noted one
    pc,         \* "list", "prev", "sleep" or "next"
    filelist,   \* the files listed
    left,       \* those not yet asked for their time in this pass
    slept,      \* whether the second has passed
    queue,      \* connections the listener has not accepted
    reading,    \* what it reads: a note, Silence, or None
    up,         \* whether it runs
    told,       \* history: the version of a file at its last note
    shown,      \* history: the version of the last note that was shown
    due         \* history: the last version that came while the script slept

\* A note names a file and, here, the version it was sent of.
Silence == <<0, 0>>

files    == <<ver, now, differs>>
script   == <<pc, filelist, left, slept>>
listener == <<queue, reading, up>>
hist     == <<told, shown, due>>
vars     == <<files, script, listener, hist>>

Zero == [f \in Files |-> 0]
Never == [f \in Files |-> FALSE]

Init ==
    /\ ver \in [Files -> 0..1] /\ now = Never /\ differs = Never
    /\ pc = "list" /\ filelist = {} /\ left = {} /\ slept = FALSE
    /\ queue = <<>> /\ reading = None /\ up = TRUE
    /\ told = Zero /\ shown = Zero /\ due = Zero

\* The script is between the two passes, and has noted the file's time.
Between(f) ==
    \/ pc = "prev" /\ f \in filelist \ left
    \/ pc = "sleep" /\ f \in filelist
    \/ pc = "next" /\ f \in left

\* The server stores a form.
Change(f) ==
    /\ ver[f] < MaxChanges /\ ver' = [ver EXCEPT ![f] = @ + 1]
    /\ now' = [now EXCEPT ![f] = TRUE]
    /\ differs' = [differs EXCEPT ![f] = @ \/ ~now[f]]
    /\ due' = [due EXCEPT ![f] = IF Between(f) /\ differs'[f] THEN ver'[f] ELSE @]
    /\ UNCHANGED <<script, listener, told, shown>>

\* A second passes.
Tick ==
    /\ now' = Never /\ slept' = (pc = "sleep")
    /\ UNCHANGED <<ver, differs, pc, filelist, left, listener, hist>>

-----------------------------------------------------------------------------
(* The script *)

List ==
    /\ pc = "list" /\ pc' = "prev"
    /\ filelist' = {f \in Files : ver[f] > 0} /\ left' = filelist'
    /\ UNCHANGED <<files, slept, listener, hist>>

\* ls sorts the names.
First == CHOOSE f \in left : \A g \in left : f <= g

\* PREV_STATE
StatPrev ==
    /\ pc = "prev" /\ left # {} /\ left' = left \ {First}
    /\ differs' = [differs EXCEPT ![First] = FALSE]
    /\ UNCHANGED <<ver, now, pc, filelist, slept, listener, hist>>

Sleep ==
    /\ pc = "prev" /\ left = {} /\ pc' = "sleep" /\ slept' = FALSE
    /\ UNCHANGED <<files, filelist, left, listener, hist>>

\* Mutant of Wake: the second pass leaves out a file.
Wake_OneLess ==
    /\ pc = "sleep" /\ slept /\ pc' = "next"
    /\ left' = {f \in filelist : \E g \in filelist : g > f}
    /\ UNCHANGED <<files, filelist, slept, listener, hist>>

Wake ==
    /\ pc = "sleep" /\ slept /\ pc' = "next" /\ left' = filelist
    /\ UNCHANGED <<files, filelist, slept, listener, hist>>

\* notify_client: with nobody listening the note is lost; with a full queue the
\* connection has to wait.
Notify(f) ==
    /\ told' = [told EXCEPT ![f] = ver[f]]
    /\ IF up THEN Len(queue) < Backlog /\ queue' = Append(queue, <<f, ver[f]>>)
             ELSE UNCHANGED queue

\* NEXT_STATE, and the comparison.
StatNext ==
    /\ pc = "next" /\ left # {} /\ left' = left \ {First}
    /\ IF differs[First] THEN Notify(First) ELSE UNCHANGED <<queue, told>>
    /\ UNCHANGED <<files, pc, filelist, slept, reading, up, shown, due>>

Again ==
    /\ pc = "next" /\ left = {} /\ pc' = "list"
    /\ UNCHANGED <<files, filelist, left, slept, listener, hist>>

-----------------------------------------------------------------------------
(* The listener *)

Accept ==
    /\ up /\ reading = None /\ queue # <<>>
    /\ reading' = Head(queue) /\ queue' = Tail(queue)
    /\ UNCHANGED <<files, script, up, hist>>

\* readline: the line is shown and the connection closed.
Show ==
    /\ up /\ reading \notin {None, Silence}
    /\ shown' = [shown EXCEPT ![reading[1]] = reading[2]] /\ reading' = None
    /\ UNCHANGED <<files, script, queue, up, told, due>>

\* Someone connects and sends nothing; some day he may close.
Connect ==
    /\ up /\ Len(queue) < Backlog /\ queue' = Append(queue, Silence)
    /\ UNCHANGED <<files, script, reading, up, hist>>
HangUp ==
    /\ reading = Silence /\ reading' = None
    /\ UNCHANGED <<files, script, queue, up, hist>>

\* handle_signal; the connections go with the process.
Stop ==
    /\ up' = ~up /\ queue' = <<>> /\ reading' = None
    /\ UNCHANGED <<files, script, hist>>

Script   == List \/ StatPrev \/ Sleep \/ Wake \/ StatNext \/ Again
Listener == Accept \/ Show

Next ==
    \/ Script \/ Tick \/ Listener \/ Connect \/ HangUp \/ Stop
    \/ \E f \in Files : Change(f)

\* The script and the listener run, and time passes.
Fairness ==
    /\ WF_vars(Script) /\ WF_vars(Tick) /\ WF_vars(Listener)

Spec == Init /\ [][Next]_vars /\ Fairness

-----------------------------------------------------------------------------
(* Properties *)

\* Types of the variables.
TypeOK ==
    /\ ver \in [Files -> 0..MaxChanges]
    /\ {now, differs} \subseteq [Files -> BOOLEAN] /\ {slept, up} \subseteq BOOLEAN
    /\ pc \in {"list", "prev", "sleep", "next"}
    /\ filelist \subseteq Files /\ left \subseteq filelist
    /\ Len(queue) <= Backlog /\ (~up => queue = <<>> /\ reading = None)
    /\ {told, shown, due} \subseteq [Files -> 0..MaxChanges]

\* "notify client machine when new data arrived": what is found changed has
\* changed since its last note, although the times are noted anew in every round.
OnlyNews ==
    [][\A f \in Files :
          pc = "next" /\ f \in left \ left' /\ differs[f] => ver[f] > told[f]]_vars

\* A change of a listed file in another second, while the script sleeps, comes
\* to be shown, unless the listener was down or connections that say nothing
\* keep it busy.
DueIsShown ==
    \/ <>~up
    \/ []<>(reading = Silence)
    \/ \A f \in Files : \A k \in 1..MaxChanges : due[f] = k ~> shown[f] >= k
================================================================================
