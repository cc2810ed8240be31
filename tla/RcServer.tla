-------------------------------- MODULE RcServer --------------------------------
(***************************************************************************)
(* The control script rc.eduserver and the processes it starts.  The       *)
(* script knows a server by the pid file alone: start writes the pid of    *)
(* the process it has forked, whatever becomes of it, and stop and reload  *)
(* signal that pid.  The server binds its port, installs its handlers and  *)
(* opens the password database, in this order; a signal that comes before  *)
(* the handlers ends it, and so does a bind that finds the port taken.     *)
(***************************************************************************)
EXTENDS Naturals, FiniteSets

CONSTANTS
    NumProcs,   \* bound: processes started
    MaxStored,  \* bound: changes of the password file
    None

\* What the constants have to satisfy.
RcAssumption ==
    NumProcs \in Nat \ {0} /\ MaxStored \in Nat /\ None \notin 1..NumProcs

Procs == 1..NumProcs

VARIABLES
    obedient,   \* whether the operator starts only what she has stopped
    dbfails,    \* whether the password database may fail to open
    proc,       \* "unborn", "forked", "bound", "handling", "serving" or "dead"
    pending,    \* signals sent to a process and not yet delivered
    loaded,     \* the state of the password file a process has read
    stored,     \* the state the file is in
    lingering,  \* connections of an earlier server linger on the port
    pidfile,    \* the pid in the pid file, or None
    lock,       \* whether the lock file exists
    todo,       \* what the script has still to do
    last,       \* the command it was called with last, and whether it stopped
    asked,      \* history: the file's state at the last reload of a process
    held        \* history: a bind of this command's process failed

procs  == <<proc, pending, loaded, lingering>>
outside == <<obedient, dbfails, stored>>
script == <<pidfile, lock, todo, last>>
vars   == <<procs, outside, script, asked, held>>

Commands == {"start", "stop", "restart", "reload"}

Alive(p) == proc[p] \notin {"unborn", "dead"}
HasPort(p) == proc[p] \in {"bound", "handling", "serving"}
Unborn == {p \in Procs : proc[p] = "unborn"}

Init ==
    /\ obedient \in BOOLEAN /\ dbfails \in BOOLEAN
    /\ proc = [p \in Procs |-> "unborn"] /\ pending = [p \in Procs |-> {}]
    /\ loaded = [p \in Procs |-> 0] /\ asked = [p \in Procs |-> 0]
    /\ stored = 0 /\ lingering = FALSE
    /\ pidfile = None /\ lock = FALSE /\ todo = "nothing"
    /\ last = "stop" /\ held = FALSE

-----------------------------------------------------------------------------
(* The script *)

\* rc.eduserver is called; restart is stop and then start, whatever stop says.
Command(c) ==
    /\ todo = "nothing"
    /\ c \in {"start", "restart"} => Unborn # {}
    /\ c = "start" /\ obedient => last = "stop"
    /\ last' = c /\ held' = FALSE
    /\ todo' = CASE c = "start" -> "fork" [] c = "reload" -> "hup" [] OTHER -> "term"
    /\ UNCHANGED <<procs, outside, pidfile, lock, asked>>

\* What follows a stop.
AfterStop == IF last = "restart" THEN "fork" ELSE "nothing"

\* stop(): the lock file goes if the signal could be sent.
Term ==
    /\ todo = "term" /\ todo' = AfterStop
    /\ IF pidfile # None /\ Alive(pidfile)
         THEN pending' = [pending EXCEPT ![pidfile] = @ \cup {"TERM"}] /\ lock' = FALSE
         ELSE UNCHANGED <<pending, lock>>
    /\ UNCHANGED <<proc, loaded, lingering, outside, pidfile, last, asked, held>>

\* start(): the server is started in the background ...
Fork ==
    /\ todo = "fork" /\ todo' = "pid"
    /\ LET p == CHOOSE p \in Unborn : \A q \in Unborn : p <= q
       IN proc' = [proc EXCEPT ![p] = "forked"]
    /\ UNCHANGED <<pending, loaded, lingering, outside, pidfile, lock, last, asked, held>>

\* ... and its pid is written over the one that is there.
WritePid ==
    /\ todo = "pid" /\ todo' = "nothing"
    /\ pidfile' = CHOOSE p \in Procs \ Unborn : \A q \in Procs \ Unborn : q <= p
    /\ lock' = TRUE
    /\ UNCHANGED <<procs, outside, last, asked, held>>

\* reload()
Hup ==
    /\ todo = "hup" /\ todo' = "nothing"
    /\ IF pidfile # None /\ Alive(pidfile)
         THEN /\ pending' = [pending EXCEPT ![pidfile] = @ \cup {"HUP"}]
              /\ asked' = [asked EXCEPT ![pidfile] = stored] /\ lock' = TRUE
         ELSE UNCHANGED <<pending, asked, lock>>
    /\ UNCHANGED <<proc, loaded, lingering, outside, pidfile, last, held>>

-----------------------------------------------------------------------------
(* The server process *)

\* It ends; with it go its pending signals, and its connections linger if it
\* had served any.
Ends(p) ==
    /\ proc' = [proc EXCEPT ![p] = "dead"] /\ pending' = [pending EXCEPT ![p] = {}]
    /\ lingering' \in (IF proc[p] = "serving" THEN BOOLEAN ELSE {lingering})

\* Mutant of Bind: SO_REUSEADDR is not set.
Bind_NoReuse(p) ==
    /\ proc[p] = "forked"
    /\ IF lingering \/ (\E q \in Procs : HasPort(q))
         THEN Ends(p) /\ held' = (\E q \in Procs : HasPort(q))
         ELSE proc' = [proc EXCEPT ![p] = "bound"] /\ UNCHANGED <<pending, lingering, held>>
    /\ UNCHANGED <<loaded, outside, script, asked>>

\* bind and listen: lingering connections do no harm, another server does.
Bind(p) ==
    /\ proc[p] = "forked"
    /\ IF \E q \in Procs : HasPort(q)
         THEN Ends(p) /\ held' = TRUE
         ELSE proc' = [proc EXCEPT ![p] = "bound"] /\ UNCHANGED <<pending, lingering, held>>
    /\ UNCHANGED <<loaded, outside, script, asked>>

\* The handlers are installed.
Handle(p) ==
    /\ proc[p] = "bound" /\ proc' = [proc EXCEPT ![p] = "handling"]
    /\ UNCHANGED <<pending, loaded, lingering, outside, script, asked, held>>

\* pass_initdb; the accept loop follows.
OpenDb(p) ==
    /\ proc[p] = "handling"
    /\ \/ /\ loaded' = [loaded EXCEPT ![p] = stored]
          /\ proc' = [proc EXCEPT ![p] = "serving"]
          /\ UNCHANGED <<pending, lingering>>
       \/ dbfails /\ Ends(p) /\ UNCHANGED loaded
    /\ UNCHANGED <<outside, script, asked, held>>

\* SIGTERM: by default, or through handle_signal, the process ends.
TakeTerm(p) ==
    /\ Alive(p) /\ "TERM" \in pending[p] /\ Ends(p)
    /\ UNCHANGED <<loaded, outside, script, asked, held>>

\* Mutant of TakeHup: the handle that is open is kept.
TakeHup_KeepHandle(p) ==
    /\ Alive(p) /\ "HUP" \in pending[p]
    /\ IF proc[p] \in {"forked", "bound"} THEN Ends(p)
       ELSE pending' = [pending EXCEPT ![p] = @ \ {"HUP"}] /\ UNCHANGED <<proc, lingering>>
    /\ UNCHANGED <<loaded, outside, script, asked, held>>

\* SIGHUP: the process ends if the handlers are not yet there; reload_passdb
\* opens the database anew, and ends the process if it cannot.
TakeHup(p) ==
    /\ Alive(p) /\ "HUP" \in pending[p]
    /\ \/ proc[p] \in {"forked", "bound"} /\ Ends(p) /\ UNCHANGED loaded
       \/ /\ proc[p] \in {"handling", "serving"}
          /\ pending' = [pending EXCEPT ![p] = @ \ {"HUP"}]
          /\ loaded' = [loaded EXCEPT ![p] = stored]
          /\ UNCHANGED <<proc, lingering>>
       \/ dbfails /\ proc[p] \in {"handling", "serving"} /\ Ends(p) /\ UNCHANGED loaded
    /\ UNCHANGED <<outside, script, asked, held>>

\* inspass, delpass, dispass or enapass changes the file.
Change ==
    /\ stored < MaxStored /\ stored' = stored + 1
    /\ UNCHANGED <<obedient, dbfails, procs, script, asked, held>>

Next ==
    \/ \E c \in Commands : Command(c)
    \/ Term \/ Fork \/ WritePid \/ Hup \/ Change
    \/ \E p \in Procs : Bind(p) \/ Handle(p) \/ OpenDb(p) \/ TakeTerm(p) \/ TakeHup(p)

\* A process runs, a pending signal is delivered and a called script goes on.
Fairness ==
    /\ WF_vars(Term) /\ WF_vars(Fork) /\ WF_vars(WritePid) /\ WF_vars(Hup)
    /\ \A p \in Procs : WF_vars(Bind(p) \/ Handle(p) \/ OpenDb(p))
                        /\ WF_vars(TakeTerm(p)) /\ WF_vars(TakeHup(p))

Spec == Init /\ [][Next]_vars /\ Fairness

-----------------------------------------------------------------------------
(* Properties *)

\* Types of the variables.
TypeOK ==
    /\ proc \in [Procs -> {"unborn", "forked", "bound", "handling", "serving", "dead"}]
    /\ pending \in [Procs -> SUBSET {"HUP", "TERM"}]
    /\ loaded \in [Procs -> 0..MaxStored] /\ asked \in [Procs -> 0..MaxStored]
    /\ stored \in 0..MaxStored /\ pidfile \in Procs \cup {None}
    /\ {obedient, dbfails, lingering, lock, held} \subseteq BOOLEAN
    /\ todo \in {"nothing", "fork", "pid", "term", "hup"} /\ last \in Commands

\* Nothing is under way: no script, no process on its way, no signal.
Quiet ==
    /\ todo = "nothing"
    /\ \A p \in Procs : proc[p] \in {"unborn", "dead", "serving"} /\ pending[p] = {}

\* "reload the password database.  it makes the server re-read the password
\* database": a server that has no reload before it answers from what the file
\* was when it was last asked to reload, though two signals may become one and
\* the signal may come before the database was opened.
ReloadReloads ==
    \A p \in Procs : proc[p] = "serving" /\ "HUP" \notin pending[p] => loaded[p] >= asked[p]

\* The server that is left running is the one stop and reload will signal, for an
\* operator who starts only after a stop, as the manual asks.
PidNamesServer == obedient /\ Quiet => \A p \in Procs : proc[p] = "serving" => pidfile = p

\* A process that was sent TERM ends.
StopEnds == \A p \in Procs : "TERM" \in pending[p] ~> proc[p] = "dead"

\* "set SO_REUSEADDR so that restarting of server gets success": a restart whose
\* server found no other at the port leaves a server.
RestartUnlessHeld ==
    Quiet /\ last = "restart" /\ ~held /\ ~dbfails => \E p \in Procs : proc[p] = "serving"

\* "restart - restarts the server process.  it just stops the running server and
\* then starts it again."
RestartServes ==
    Quiet /\ last = "restart" /\ ~dbfails => \E p \in Procs : proc[p] = "serving"
================================================================================
