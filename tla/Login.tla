-------------------------------- MODULE Login --------------------------------
(***************************************************************************)
(* How the server of server/eduserver.c admits a client: the dialogue of   *)
(* magic, USER and PASS that every connection thread leads, the password   *)
(* database that all threads look into through one handle (passdbp), and   *)
(* the signal handlers that close and reopen it.  The tools of PassFile    *)
(* change the file meanwhile.  What an admitted client does is FormStore.  *)
(***************************************************************************)
EXTENDS PassFile

CONSTANTS
    Threads,    \* connection threads
    MaxTime,    \* bound: the clock stops there
    NoPass      \* a digest of no password: the zeros a buffer starts with,
                \* or what a client sends that has the password wrong

ASSUME LoginAssumption ==
    /\ MaxTime \in Nat
    /\ NoPass \notin Passwords
    /\ Colleges # {}

\* memset(&passbuf, 0, sizeof(password)): not disabled, and long expired.
Blank == [pass |-> NoPass, disabled |-> FALSE,
          window |-> [start |-> 0, end |-> 0]]

VARIABLES
    handle,     \* passdbp: "open", "closed" (DB->close done, pointer kept),
                \* "null", or "none" while no server runs
    signal,     \* the handler under way: "none", "hup" or "term"
    view,       \* view[u]: the record of u in the cache of passdbp
    retbuf,     \* the memory of passdbp in which DB->get returns a record
    now,        \* time()
    pc,         \* pc[t]: where thread t is in manage_client
    user,       \* user[t]: the college that said USER
    passbuf,    \* passbuf[t]: the record t works with
    held,       \* history: held[u], the records the file has had for u
                \* since passdbp was opened
    basis,      \* history: basis[t], held[user[t]] at the time of DB->get
    judged,     \* history: the time at which t checked the record
    sent,       \* history: the password the client of t sent
    verdict,    \* history: what t told its client in the end
    spoilt      \* history: spoilt[t], what got in the way of t's lookup

database == <<handle, signal, view, retbuf, held>>
dialogue == <<pc, user, passbuf, basis, judged, sent, verdict, spoilt>>
vars     == <<toolvars, database, now, dialogue>>

Phases   == {"idle", "magic", "user", "copy", "judge", "pass", "in"}
Verdicts == {"none", "no college", "disabled", "early", "expired",
             "mismatch", "admitted"}
Spoilers == {"race", "reload", "get", "exit"}

At(t, phase)   == handle # "none" /\ pc[t] = phase
Goto(t, phase) == pc' = [pc EXCEPT ![t] = phase]

\* A refusal is written and the connection closed.
Refuse(t, answer) ==
    /\ Goto(t, "idle")
    /\ verdict' = [verdict EXCEPT ![t] = answer]

Spoil(S, what) ==
    spoilt' = [t \in Threads |->
                IF t \in S THEN spoilt[t] \cup {what} ELSE spoilt[t]]

\* The college of a thread whose client has not said USER yet: any.
Nobody == CHOOSE u \in Colleges : TRUE

\* The threads of S start anew, or end without a word to their clients: what
\* they had in their buffers and what is remembered of them goes.
Fresh(S) ==
    /\ user' = [t \in Threads |-> IF t \in S THEN Nobody ELSE user[t]]
    /\ passbuf' = [t \in Threads |-> IF t \in S THEN Blank ELSE passbuf[t]]
    /\ basis' = [t \in Threads |-> IF t \in S THEN {} ELSE basis[t]]
    /\ judged' = [t \in Threads |-> IF t \in S THEN 0 ELSE judged[t]]
    /\ sent' = [t \in Threads |-> IF t \in S THEN NoPass ELSE sent[t]]
    /\ verdict' = [t \in Threads |-> IF t \in S THEN "none" ELSE verdict[t]]
    /\ spoilt' = [t \in Threads |-> IF t \in S THEN {} ELSE spoilt[t]]

\* Threads between DB->get and the memcpy that follows it in pass_getdb.
Copying == {t \in Threads : pc[t] = "copy"}

-----------------------------------------------------------------------------
(* The dialogue *)

\* A connection is accepted and gets a thread, with a zeroed buffer.
Accept(t) ==
    /\ At(t, "idle") /\ handle = "open"
    /\ Goto(t, "magic")
    /\ Fresh({t})
    /\ UNCHANGED <<toolvars, database, now>>

\* The right magic, answered with 500.
Magic(t) ==
    /\ At(t, "magic")
    /\ Goto(t, "user")
    /\ UNCHANGED <<toolvars, database, now, user, passbuf, basis, judged,
                   sent, verdict, spoilt>>

\* A wrong magic or keyword, a short read, a timeout, an answer that cannot
\* be written; or an admitted client that leaves.
Drop(t) ==
    /\ \E phase \in {"magic", "user", "pass", "in"} : At(t, phase)
    /\ Goto(t, "idle")
    /\ Fresh({t})
    /\ UNCHANGED <<toolvars, database, now>>

\* USER u has been read and lookup_user is called.
LookupUser(t, u) ==
    /\ At(t, "user")
    /\ user' = [user EXCEPT ![t] = u]
    /\ basis' = [basis EXCEPT ![t] = held[u]]
    /\ UNCHANGED <<toolvars, handle, signal, held, now, passbuf, judged, sent>>

\* DB->get finds no record: 301.
GetMissing(t, u) ==
    /\ LookupUser(t, u)
    /\ handle = "open"
    /\ \E S \in SUBSET Colleges : u \in S /\ view' = ReadPages(view, S)
    /\ view'[u] = NoRecord
    /\ Refuse(t, "no college")
    /\ UNCHANGED <<retbuf, spoilt>>

\* Mutant of GetFound: whether there is a record is not looked at.
GetFound_AnyResult(t, u) ==
    /\ LookupUser(t, u)
    /\ handle = "open"
    /\ \E S \in SUBSET Colleges : u \in S /\ view' = ReadPages(view, S)
    /\ retbuf' = view'[u]
    /\ Goto(t, "copy")
    /\ Spoil(Copying, "race")
    /\ UNCHANGED verdict

\* DB->get finds the record and leaves it in memory of the handle, over the
\* one that another thread may not have copied yet.
GetFound(t, u) ==
    /\ LookupUser(t, u)
    /\ handle = "open"
    /\ \E S \in SUBSET Colleges : u \in S /\ view' = ReadPages(view, S)
    /\ view'[u] # NoRecord
    /\ retbuf' = view'[u]
    /\ Goto(t, "copy")
    /\ Spoil(Copying, "race")
    /\ UNCHANGED verdict

\* DB->get fails with an error number, which is positive: lookup_user takes
\* it for a success, and the buffer is what it was, zeros.
GetFails(t, u) ==
    /\ "get" \in Faults
    /\ LookupUser(t, u)
    /\ handle = "open"
    /\ Goto(t, "judge")
    /\ Spoil({t}, "get")
    /\ UNCHANGED <<view, retbuf, verdict>>

\* passdbp is NULL, since the process is about to exit: 301.
NoHandle(t, u) ==
    /\ LookupUser(t, u)
    /\ handle = "null"
    /\ Refuse(t, "no college")
    /\ Spoil({t}, "exit")
    /\ UNCHANGED <<view, retbuf>>

\* passdbp is closed and still set: DB->get works on memory that was freed
\* and may come back with anything, if it comes back (see Crash).
GetClosed(t, u) ==
    /\ LookupUser(t, u)
    /\ handle = "closed"
    /\ Spoil({t}, "reload")
    /\ \/ Goto(t, "copy") /\ UNCHANGED verdict
       \/ Goto(t, "judge") /\ UNCHANGED verdict
       \/ Refuse(t, "no college")
    /\ UNCHANGED <<view, retbuf>>

\* Mutant of Copy: passbuf is one buffer for all threads.
Copy_Shared(t) ==
    /\ At(t, "copy")
    /\ Goto(t, "judge")
    /\ passbuf' = [u \in Threads |-> retbuf]
    /\ UNCHANGED <<toolvars, database, now, user, basis, judged, sent,
                   verdict, spoilt>>

\* memcpy(buf, pdb, d.size): the memory may have been freed by now.
Copy(t) ==
    /\ At(t, "copy")
    /\ Goto(t, "judge")
    /\ \E r \in IF "reload" \in spoilt[t] THEN Record ELSE {retbuf} :
          passbuf' = [passbuf EXCEPT ![t] = r]
    /\ UNCHANGED <<toolvars, database, now, user, basis, judged, sent,
                   verdict, spoilt>>

\* What speaks against the record, in the order of the code.
Objection(r) ==
    IF r.disabled THEN "disabled"
    ELSE IF r.window.start > now THEN "early"
    ELSE IF r.window.end < now THEN "expired"
    ELSE "none"

\* 302, 304 or 305; or 500 with the times of the window.
Judge(t) ==
    /\ At(t, "judge")
    /\ judged' = [judged EXCEPT ![t] = now]
    /\ IF Objection(passbuf[t]) # "none"
       THEN Refuse(t, Objection(passbuf[t]))
       ELSE Goto(t, "pass") /\ UNCHANGED verdict
    /\ UNCHANGED <<toolvars, database, now, user, passbuf, basis, sent,
                   spoilt>>

\* PASS word: 303, or 500 and the command loop.
Pass(t, word) ==
    /\ At(t, "pass")
    /\ sent' = [sent EXCEPT ![t] = word]
    /\ IF word = passbuf[t].pass
       THEN Goto(t, "in") /\ verdict' = [verdict EXCEPT ![t] = "admitted"]
       ELSE Refuse(t, "mismatch")
    /\ UNCHANGED <<toolvars, database, now, user, passbuf, basis, judged,
                   spoilt>>

-----------------------------------------------------------------------------
(* The handle and the signals *)

Closing(by) ==
    /\ handle = "open"
    /\ handle' = "closed"
    /\ signal' = by
    /\ Spoil(Copying, "reload")
    /\ UNCHANGED <<toolvars, view, retbuf, held, now, pc, user, passbuf,
                   basis, judged, sent, verdict>>

\* SIGHUP: reload_passdb closes the handle ...
ReloadCloses == Closing("hup")

\* Mutant of Opened: the cache of the handle survives.
Opened_KeepsCache ==
    /\ handle' = "open"
    /\ held' = [u \in Colleges |-> {file[u]}]
    /\ UNCHANGED view

\* pass_initdb: a handle with an empty cache.
Opened ==
    /\ handle' = "open"
    /\ view' = [u \in Colleges |-> Unread]
    /\ held' = [u \in Colleges |-> {file[u]}]

\* ... and opens another.
ReloadOpens ==
    /\ handle = "closed" /\ signal = "hup"
    /\ signal' = "none"
    /\ Opened
    /\ UNCHANGED <<toolvars, retbuf, now, dialogue>>

\* SIGTERM or SIGINT: handle_signal closes the handle ...
TermCloses == "exit" \in Faults /\ Closing("term")

\* ... sets passdbp to NULL ...
TermClears ==
    /\ handle = "closed" /\ signal = "term"
    /\ handle' = "null"
    /\ UNCHANGED <<toolvars, signal, view, retbuf, held, now, dialogue>>

ProcessEnds ==
    /\ handle' = "none" /\ signal' = "none"
    /\ pc' = [t \in Threads |-> "idle"]
    /\ Fresh(Threads)
    /\ UNCHANGED <<toolvars, view, retbuf, held, now>>

\* ... and exits; or reload_passdb cannot open the file, and exits.
Exit ==
    /\ \/ handle = "null"
       \/ "exit" \in Faults /\ handle = "closed" /\ signal = "hup"
    /\ ProcessEnds

\* A thread touches the memory of a closed handle.
Crash(t) ==
    /\ \/ At(t, "user") /\ handle = "closed"
       \/ At(t, "copy") /\ "reload" \in spoilt[t]
    /\ ProcessEnds

\* rc.eduserver start; main opens the file.
Start ==
    /\ handle = "none"
    /\ Opened
    /\ UNCHANGED <<toolvars, signal, retbuf, now, dialogue>>

\* The cache of the handle drops the page that holds S.
EvictView(S) ==
    /\ "evict" \in Faults /\ handle = "open" /\ S # {}
    /\ \A u \in S : view[u] # Unread
    /\ view' = [u \in Colleges |-> IF u \in S THEN Unread ELSE view[u]]
    /\ UNCHANGED <<toolvars, handle, signal, retbuf, held, now, dialogue>>

-----------------------------------------------------------------------------
(* Around the server *)

Tick ==
    /\ now < MaxTime
    /\ now' = now + 1
    /\ UNCHANGED <<toolvars, database, dialogue>>

\* A tool reads or writes the file; the server is not told.
ToolRuns(p) ==
    /\ ToolStep(p)
    /\ held' = [u \in Colleges |-> held[u] \cup {file'[u]}]
    /\ UNCHANGED <<handle, signal, view, retbuf, now, dialogue>>

Init ==
    /\ ToolInit
    /\ handle = "open" /\ signal = "none"
    /\ view = [u \in Colleges |-> Unread]
    /\ retbuf = Blank
    /\ held = [u \in Colleges |-> {file[u]}]
    /\ now = 1
    /\ pc = [t \in Threads |-> "idle"]
    /\ user = [t \in Threads |-> Nobody]
    /\ passbuf = [t \in Threads |-> Blank]
    /\ basis = [t \in Threads |-> {}]
    /\ judged = [t \in Threads |-> 0]
    /\ sent = [t \in Threads |-> NoPass]
    /\ verdict = [t \in Threads |-> "none"]
    /\ spoilt = [t \in Threads |-> {}]

ThreadStep(t) ==
    \/ Accept(t) \/ Magic(t) \/ Drop(t)
    \/ \E u \in Colleges :
          \/ GetMissing(t, u) \/ GetFound(t, u) \/ GetFails(t, u)
          \/ NoHandle(t, u) \/ GetClosed(t, u)
    \/ Copy(t) \/ Judge(t) \/ Crash(t)
    \/ \E word \in Passwords \cup {NoPass} : Pass(t, word)

HandleStep ==
    \/ ReloadCloses \/ ReloadOpens \/ TermCloses \/ TermClears \/ Exit
    \/ Start \/ \E S \in SUBSET Colleges : EvictView(S)

Next ==
    \/ \E t \in Threads : ThreadStep(t)
    \/ HandleStep \/ Tick
    \/ \E p \in Tools : ToolRuns(p)

Spec == Init /\ [][Next]_vars

-----------------------------------------------------------------------------
(* Properties *)

\* Type invariant.
TypeOK ==
    /\ ToolTypeOK
    /\ handle \in {"open", "closed", "null", "none"}
    /\ signal \in {"none", "hup", "term"}
    /\ (handle = "closed") <=> (signal # "none" /\ handle # "null")
    /\ view \in [Colleges -> Entry \cup {Unread}]
    /\ retbuf \in Record \cup {Blank}
    /\ held \in [Colleges -> SUBSET Entry]
    /\ now \in 1..(MaxTime + 1)
    /\ pc \in [Threads -> Phases]
    /\ user \in [Threads -> Colleges]
    /\ passbuf \in [Threads -> Record \cup {Blank}]
    /\ basis \in [Threads -> SUBSET Entry]
    /\ judged \in [Threads -> Nat]
    /\ sent \in [Threads -> Passwords \cup {NoPass}]
    /\ verdict \in [Threads -> Verdicts]
    /\ spoilt \in [Threads -> SUBSET Spoilers]

\* The records t could have gone by.
Grounds(t) == basis[t] \ {NoRecord}

\* What a client is told is right by a record that the file had for its own
\* college between the last opening of the handle and the lookup: however
\* the tools, reloads and other clients' lookups fall between the steps of
\* the dialogue.  Only four things make a thread go by something else: a
\* lookup or a reload between DB->get and memcpy, a DB->get that fails, and
\* the end of the process.
VerdictRests ==
    \A t \in Threads : spoilt[t] = {} =>
        /\ verdict[t] = "no college" => NoRecord \in basis[t]
        /\ verdict[t] = "disabled" => \E r \in Grounds(t) : r.disabled
        /\ verdict[t] = "early" =>
              \E r \in Grounds(t) : r.window.start > judged[t]
        /\ verdict[t] = "expired" =>
              \E r \in Grounds(t) : r.window.end < judged[t]
        /\ verdict[t] = "mismatch" => \E r \in Grounds(t) : r.pass # sent[t]
        /\ verdict[t] = "admitted" =>
              \E r \in Grounds(t) :
                  /\ r.pass = sent[t] /\ ~r.disabled
                  /\ judged[t] \in r.window.start..r.window.end

\* After a reload the server goes by what the tools reported as stored: as
\* long as the file has not changed since the handle was opened, a page in
\* its cache holds the last edit that a tool promised.
ReloadedIsCurrent ==
    \A u \in Colleges :
        /\ handle = "open" /\ held[u] = {file[u]} /\ wanted[u] # Unsure
        /\ \A p \in Tools : u \notin unsaved[p]
        => view[u] \in {Unread, wanted[u]}

\* pass_getdb fills the buffer with the data of the key it is given
\* ("fill buf with data; given key", password.h), whoever else looks up.
LookupIsOwn ==
    \A t \in Threads :
        pc[t] \in {"judge", "pass", "in"} /\ spoilt[t] \subseteq {"race"}
        => passbuf[t] \in basis[t]
==============================================================================
