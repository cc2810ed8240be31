------------------------------ MODULE FormStore ------------------------------
(***************************************************************************)
(* The command loop of server/eduserver.c: the threads that serve admitted *)
(* clients, and where a registration form goes.  A form is kept twice: as  *)
(* a text file written through a stdio stream, and as a record in the      *)
(* registration database of the client's institution (regdb.c), which      *)
(* every thread opens through a handle, hence a page cache, of its own.    *)
(*                                                                         *)
(* How a client is admitted, how lines are cut out of the byte stream and  *)
(* how image bytes are received are other modules' subjects.  A pair       *)
(* (year, institution), with its directory and its database, is one member *)
(* of Colleges; a form's name with ".txt" stripped is one member of Keys.  *)
(***************************************************************************)
EXTENDS Naturals, Sequences

CONSTANTS
    Threads,    \* connection threads: the tids of pthread_create
    Colleges,   \* per-institution directories with their database
    Keys,       \* names of form files
    Lines,      \* the lines of a form, other than "." and "QUIT"
    LineSize,   \* LineSize[l]: bytes line l takes in regbuf, its NUL included
    MaxLine,    \* the bytes the longest line takes (MAXLINE bounds it)
    MaxInfo,    \* MAXINFOSIZE, the bytes allocated for regbuf
    MaxBody,    \* bound: lines a client sends in one form
    MaxForms,   \* bound: FILENAME commands in a behaviour
    Faults,     \* which of the environment's failures may happen
    NoBody      \* the contents of a file or record that does not exist

AllFaults == {"put", "text", "exit", "crash", "evict"}

ASSUME ConstantsAssumption ==
    /\ Colleges # {} /\ Keys # {}
    /\ MaxLine \in Nat \ {0}
    /\ LineSize \in [Lines -> 1..MaxLine]
    /\ MaxInfo \in Nat \ {0}
    /\ MaxBody \in Nat
    /\ MaxForms \in Nat
    /\ Faults \subseteq AllFaults
    /\ NoBody \notin Seq(Lines)

VARIABLES
    server,     \* "up", "exiting" (inside exit) or "down"
    heapbad,    \* memcpy has run past the end of some thread's regbuf
    leaked,     \* streams never closed: the process flushes them at exit
    pc,         \* pc[t]: where thread t is in manage_client
    college,    \* college[t]: whom t serves (txtdir, regdbp)
    key,        \* key[t]: regkey, the form t receives or received last
    gone,       \* gone[t]: t reads on, its client hung up or fell silent
    stale,      \* stale[t]: errno of t still holds EWOULDBLOCK
    regbuf,     \* regbuf[t]: the lines in the first regbufsize bytes
    regbufsize, \* regbufsize[t]
    stream,     \* stream[t]: what t has written to stfile since fopen
    cache,      \* cache[t]: the records as t's database handle sees them
    loaded,     \* loaded[t]: the handle has read the database's pages
    dirty,      \* dirty[t]: the records t's handle has yet to write
    text,       \* text[c][k]: the text file on disk
    disk,       \* disk[c][k]: the record in the database file
    got,        \* history: got[t], lines received since the FILENAME
    complete,   \* history: complete[c][k], the forms ended by a "." line
    promised,   \* history: promised[c][k], the last form answered with 500
                \* since a record of k was put
    settled,    \* history: settled[c][k], the last transfer was answered
    mishap,     \* history: mishap[c], what has gone wrong for c so far
    opened      \* the number of FILENAME commands so far

process == <<server, heapbad, leaked>>
thread  == <<pc, college, key, gone, stale>>
memory  == <<regbuf, regbufsize, stream>>
handle  == <<cache, loaded, dirty>>
files   == <<text, disk>>
history == <<got, complete, promised, settled, mishap, opened>>
vars    == <<process, thread, memory, handle, files, history>>

Body     == Seq(Lines)
Contents == Body \cup {NoBody}
Phases   == {"idle", "cmd", "body", "put", "ack", "free"}
Mishaps  == {"overlap", "put", "text", "exit", "leak"}
Leak     == [college : Colleges, key : Keys, body : Body]

-----------------------------------------------------------------------------
(* Helpers *)

At(t, phase)    == server = "up" /\ pc[t] = phase
Busy(t)         == pc[t] # "idle"
Serving(c)      == {t \in Threads : Busy(t) /\ college[t] = c}
Goto(t, phase)  == pc' = [pc EXCEPT ![t] = phase]
Blame(c, what)  == mishap' = [mishap EXCEPT ![c] = @ \cup {what}]

\* goto free_resource: t reads no more, nor looks at errno.
GotoFree(t) ==
    /\ Goto(t, "free")
    /\ gone' = [gone EXCEPT ![t] = FALSE]
    /\ stale' = [stale EXCEPT ![t] = FALSE]

\* A stream opened with "w" is flushed to offset 0 of its file, over the
\* bytes another stream of the same file may have put there since.
Overlay(new, old) ==
    IF old = NoBody \/ Len(new) >= Len(old) THEN new
    ELSE new \o SubSeq(old, Len(new) + 1, Len(old))

\* Mutant of Fclose: the stream is dropped without being flushed.
Fclose_Dropped(t) == UNCHANGED <<text, mishap>>

\* fclose(stfile): the stdio buffer goes to the file, unless the disk is
\* full, which nobody notices since fclose's result is not looked at.
Fclose(t) ==
    LET c == college[t] IN
    \/ /\ text' = [text EXCEPT ![c][key[t]] = Overlay(stream[t], @)]
       /\ UNCHANGED mishap
    \/ /\ "text" \in Faults
       /\ Blame(c, "text")
       /\ UNCHANGED text

\* Mutant of RegBufReset: regbufsize is not set back for the next form.
RegBufReset_Forgotten(t) == UNCHANGED <<regbuf, regbufsize>>

\* A new form starts at the beginning of regbuf.
RegBufReset(t) ==
    /\ regbuf' = [regbuf EXCEPT ![t] = <<>>]
    /\ regbufsize' = [regbufsize EXCEPT ![t] = 0]

\* Mutant of RegBufFull: the limit is taken for one on lines, as in the test
\* of TXTLINES that is commented out.
RegBufFull_Lines(t) == Len(regbuf[t]) >= MaxInfo

\* The test that is made before a line is copied to regbuf: whether there is
\* room left, not whether there is room for the line.
RegBufFull(t) == regbufsize[t] >= MaxInfo

\* Mutant of DbPut: DB_NOOVERWRITE, as with confirm = 0.
DbPut_NoOverwrite(records, k, b) ==
    IF records[k] = NoBody THEN [records EXCEPT ![k] = b] ELSE records

\* DB->put with the flags of confirm = 1: an old record is replaced.
DbPut(records, k, b) == [records EXCEPT ![k] = b]

-----------------------------------------------------------------------------
Init ==
    /\ server = "up" /\ heapbad = FALSE /\ leaked = {}
    /\ pc = [t \in Threads |-> "idle"]
    /\ college = [t \in Threads |-> CHOOSE c \in Colleges : TRUE]
    /\ key = [t \in Threads |-> CHOOSE k \in Keys : TRUE]
    /\ gone = [t \in Threads |-> FALSE]
    /\ stale = [t \in Threads |-> FALSE]
    /\ regbuf = [t \in Threads |-> <<>>]
    /\ regbufsize = [t \in Threads |-> 0]
    /\ stream = [t \in Threads |-> <<>>]
    /\ cache = [t \in Threads |-> [k \in Keys |-> NoBody]]
    /\ loaded = [t \in Threads |-> FALSE]
    /\ dirty = [t \in Threads |-> {}]
    /\ text = [c \in Colleges |-> [k \in Keys |-> NoBody]]
    /\ disk = [c \in Colleges |-> [k \in Keys |-> NoBody]]
    /\ got = [t \in Threads |-> <<>>]
    /\ complete = [c \in Colleges |-> [k \in Keys |-> {}]]
    /\ promised = [c \in Colleges |-> [k \in Keys |-> NoBody]]
    /\ settled = [c \in Colleges |-> [k \in Keys |-> FALSE]]
    /\ mishap = [c \in Colleges |-> {}]
    /\ opened = 0

-----------------------------------------------------------------------------
(* The life of a thread *)

\* A client has proved who it is: the thread opens the database and enters
\* the command loop.  Nothing keeps a second thread out of the same college.
Admit(t, c) ==
    /\ At(t, "idle")
    /\ Goto(t, "cmd")
    /\ college' = [college EXCEPT ![t] = c]
    /\ IF Serving(c) = {} THEN UNCHANGED mishap ELSE Blame(c, "overlap")
    /\ UNCHANGED <<process, key, gone, stale, memory, handle, files, got,
                   complete, promised, settled, opened>>

\* The client sends nothing more: the readline that t is in, or comes to
\* next, will see an end of file, or EWOULDBLOCK after the receive timeout.
HangUp(t) ==
    /\ At(t, "cmd") \/ At(t, "body")
    /\ ~gone[t]
    /\ gone' = [gone EXCEPT ![t] = TRUE]
    /\ UNCHANGED <<process, pc, college, key, stale, memory, handle, files,
                   history>>

\* QUIT, a short or unknown command, a file that fopen cannot create, an
\* end of file, a timeout; or any line at all while errno is stale.
EndSession(t) ==
    /\ At(t, "cmd")
    /\ GotoFree(t)
    /\ UNCHANGED <<process, college, key, memory, handle, files, history>>

\* BINARY: the image is refused, or received and answered.  The answers are
\* written with the results ignored, so a send timeout leaves errno behind.
Binary(t, timedout) ==
    /\ At(t, "cmd") /\ ~gone[t] /\ ~stale[t]
    /\ stale' = [stale EXCEPT ![t] = timedout]
    /\ UNCHANGED <<process, pc, college, key, gone, memory, handle, files,
                   history>>

\* FILENAME k: the text file is truncated at once, the old record stays.
Filename(t, k) ==
    /\ At(t, "cmd") /\ ~gone[t] /\ ~stale[t]
    /\ opened < MaxForms
    /\ Goto(t, "body")
    /\ key' = [key EXCEPT ![t] = k]
    /\ text' = [text EXCEPT ![college[t]][k] = <<>>]
    /\ stream' = [stream EXCEPT ![t] = <<>>]
    /\ RegBufReset(t)
    /\ got' = [got EXCEPT ![t] = <<>>]
    /\ settled' = [settled EXCEPT ![college[t]][k] = FALSE]
    /\ opened' = opened + 1
    /\ UNCHANGED <<process, college, gone, stale, handle, disk, complete,
                   promised, mishap>>

\* A line of the form: to the stream, then to regbuf, past its end maybe.
Line(t, l) ==
    /\ At(t, "body") /\ ~gone[t]
    /\ Len(got[t]) < MaxBody
    /\ ~RegBufFull(t)
    /\ got' = [got EXCEPT ![t] = Append(@, l)]
    /\ stream' = [stream EXCEPT ![t] = Append(@, l)]
    /\ regbuf' = [regbuf EXCEPT ![t] = Append(@, l)]
    /\ regbufsize' = [regbufsize EXCEPT ![t] = @ + LineSize[l]]
    /\ heapbad' = (heapbad \/ regbufsize[t] + LineSize[l] > MaxInfo)
    /\ UNCHANGED <<server, leaked, thread, handle, files, complete, promised,
                   settled, mishap, opened>>

\* regbuf is full: back to the command loop with no answer, no record and
\* the stream left open for as long as the process lives.
LineTooMany(t, l) ==
    /\ At(t, "body") /\ ~gone[t]
    /\ Len(got[t]) < MaxBody
    /\ RegBufFull(t)
    /\ Goto(t, "cmd")
    /\ leaked' = leaked \cup {[college |-> college[t], key |-> key[t],
                               body |-> Append(stream[t], l)]}
    /\ got' = [got EXCEPT ![t] = Append(@, l)]
    /\ stream' = [stream EXCEPT ![t] = <<>>]
    /\ Blame(college[t], "leak")
    /\ UNCHANGED <<server, heapbad, college, key, gone, stale, regbuf,
                   regbufsize, handle, files, complete, promised, settled,
                   opened>>

\* fputs fails on a full disk: the stream is closed and the thread goes back
\* to the command loop without an answer.
FputsFails(t) ==
    /\ "text" \in Faults
    /\ At(t, "body") /\ ~gone[t]
    /\ Fclose(t)
    /\ Goto(t, "cmd")
    /\ stream' = [stream EXCEPT ![t] = <<>>]
    /\ UNCHANGED <<process, college, key, gone, stale, regbuf, regbufsize,
                   handle, disk, got, complete, promised, settled, opened>>

\* Mutant of Abandon: no receive timeout is set, and a client that vanishes
\* is waited for.
Abandon_NoTimeout(t) ==
    /\ At(t, "body") /\ ~gone[t]
    /\ Fclose(t)
    /\ GotoFree(t)
    /\ stream' = [stream EXCEPT ![t] = <<>>]
    /\ UNCHANGED <<process, college, key, regbuf, regbufsize, handle, disk,
                   got, complete, promised, settled, opened>>

\* QUIT, an end of file or a timeout inside a form: the stream is closed,
\* whatever it holds, and no record is made.
Abandon(t) ==
    /\ At(t, "body")
    /\ Fclose(t)
    /\ GotoFree(t)
    /\ stream' = [stream EXCEPT ![t] = <<>>]
    /\ UNCHANGED <<process, college, key, regbuf, regbufsize, handle, disk,
                   got, complete, promised, settled, opened>>

\* The "." line: the text file is complete.
EndOfForm(t) ==
    /\ At(t, "body") /\ ~gone[t]
    /\ Fclose(t)
    /\ Goto(t, "put")
    /\ stream' = [stream EXCEPT ![t] = <<>>]
    /\ complete' = [complete EXCEPT ![college[t]][key[t]] = @ \cup {got[t]}]
    /\ UNCHANGED <<process, college, key, gone, stale, regbuf, regbufsize,
                   handle, disk, got, promised, settled, opened>>

\* reg_insertdb with confirm = 1: the record is put in the handle's cache,
\* which reads the database's pages the first time it needs them.
RegInsert(t) ==
    LET c == college[t]
        seen == IF loaded[t] THEN cache[t] ELSE disk[c]
    IN
    /\ At(t, "put")
    /\ Goto(t, "ack")
    /\ \/ /\ cache' = [cache EXCEPT ![t] = DbPut(seen, key[t], regbuf[t])]
          /\ loaded' = [loaded EXCEPT ![t] = TRUE]
          /\ dirty' = [dirty EXCEPT ![t] = @ \cup {key[t]}]
          /\ UNCHANGED mishap
       \/ /\ "put" \in Faults     \* the result is not looked at either
          /\ Blame(c, "put")
          /\ UNCHANGED handle
    /\ promised' = [promised EXCEPT ![c][key[t]] = NoBody]
    /\ UNCHANGED <<process, college, key, gone, stale, memory, files, got,
                   complete, settled, opened>>

\* "500": the client may take the form as received.
Answer(t) ==
    /\ At(t, "ack")
    /\ Goto(t, "cmd")
    /\ promised' = [promised EXCEPT ![college[t]][key[t]] = got[t]]
    /\ settled' = [settled EXCEPT ![college[t]][key[t]] = TRUE]
    /\ UNCHANGED <<process, college, key, gone, stale, memory, handle, files,
                   got, complete, mishap, opened>>

\* The answer cannot be written: the connection is gone or stuck.
AnswerFails(t) ==
    /\ At(t, "ack")
    /\ GotoFree(t)
    /\ UNCHANGED <<process, college, key, memory, handle, files, history>>

-----------------------------------------------------------------------------
(* The database handle of a thread (Berkeley DB without an environment) *)

\* A page is written as a whole: with the records the thread put, the others
\* of S that share their pages go back to what the handle read.
WritePages(t, S) ==
    disk' = [disk EXCEPT ![college[t]] =
                [k \in Keys |-> IF k \in S THEN cache[t][k] ELSE @[k]]]

\* Mutant of FreeResource: the handle is not closed.
FreeResource_NotClosed(t) ==
    /\ At(t, "free")
    /\ Goto(t, "idle")
    /\ loaded' = [loaded EXCEPT ![t] = FALSE]
    /\ dirty' = [dirty EXCEPT ![t] = {}]
    /\ cache' = [cache EXCEPT ![t] = [k \in Keys |-> NoBody]]
    /\ RegBufReset(t)
    /\ got' = [got EXCEPT ![t] = <<>>]
    /\ UNCHANGED <<process, college, key, gone, stale, stream, files,
                   complete, promised, settled, mishap, opened>>

\* reg_exitdb: close writes every dirty page.  The thread ends.
FreeResource(t) ==
    /\ At(t, "free")
    /\ Goto(t, "idle")
    /\ IF dirty[t] = {} THEN UNCHANGED disk
       ELSE \E S \in SUBSET Keys : dirty[t] \subseteq S /\ WritePages(t, S)
    /\ loaded' = [loaded EXCEPT ![t] = FALSE]
    /\ dirty' = [dirty EXCEPT ![t] = {}]
    /\ cache' = [cache EXCEPT ![t] = [k \in Keys |-> NoBody]]
    /\ RegBufReset(t)
    /\ got' = [got EXCEPT ![t] = <<>>]
    /\ UNCHANGED <<process, college, key, gone, stale, stream, text, complete,
                   promised, settled, mishap, opened>>

\* The cache is full: a dirty page is written before its time.
Evict(t, k) ==
    /\ server = "up" /\ "evict" \in Faults
    /\ k \in dirty[t]
    /\ WritePages(t, {k})
    /\ dirty' = [dirty EXCEPT ![t] = @ \ {k}]
    /\ UNCHANGED <<process, thread, memory, cache, loaded, text, history>>

-----------------------------------------------------------------------------
(* The process *)

\* Whatever ends the process, the threads, their streams and their caches
\* end with it; an institution being served may lose what was not written.
ProcessEnds ==
    /\ server' = "down" /\ heapbad' = FALSE /\ leaked' = {}
    /\ pc' = [t \in Threads |-> "idle"]
    /\ regbuf' = [t \in Threads |-> <<>>]
    /\ regbufsize' = [t \in Threads |-> 0]
    /\ stream' = [t \in Threads |-> <<>>]
    /\ cache' = [t \in Threads |-> [k \in Keys |-> NoBody]]
    /\ loaded' = [t \in Threads |-> FALSE]
    /\ dirty' = [t \in Threads |-> {}]
    /\ got' = [t \in Threads |-> <<>>]
    /\ gone' = [t \in Threads |-> FALSE]
    /\ stale' = [t \in Threads |-> FALSE]
    /\ mishap' = [c \in Colleges |->
                    mishap[c] \cup (IF Serving(c) = {} THEN {} ELSE {"exit"})]
    /\ UNCHANGED <<college, key, files, complete, promised, settled,
                   opened>>

\* SIGTERM or SIGINT, on whichever thread: handle_signal calls exit.
HandleSignal ==
    /\ server = "up" /\ "exit" \in Faults
    /\ server' = "exiting"
    /\ UNCHANGED <<heapbad, leaked, thread, memory, handle, files, history>>

\* exit flushes the open streams one by one, those of forms being received
\* and those left open by LineTooMany.
FlushOpen(t) ==
    /\ server = "exiting" /\ stream[t] # <<>>
    /\ text' = [text EXCEPT ![college[t]][key[t]] = Overlay(stream[t], @)]
    /\ stream' = [stream EXCEPT ![t] = <<>>]
    /\ UNCHANGED <<process, thread, regbuf, regbufsize, handle, disk, history>>

FlushLeaked(s) ==
    /\ server = "exiting" /\ s \in leaked
    /\ text' = [text EXCEPT ![s.college][s.key] = Overlay(s.body, @)]
    /\ leaked' = leaked \ {s}
    /\ UNCHANGED <<server, heapbad, thread, memory, handle, disk, history>>

\* The process is gone.  No registration database has been closed.
Exit ==
    /\ server = "exiting"
    /\ leaked = {} /\ \A t \in Threads : stream[t] = <<>>
    /\ ProcessEnds

\* SIGKILL; or glibc aborting over a damaged heap.
Crash ==
    /\ server # "down" /\ ("crash" \in Faults \/ heapbad)
    /\ ProcessEnds

\* rc.eduserver start.
Start ==
    /\ server = "down"
    /\ server' = "up"
    /\ UNCHANGED <<heapbad, leaked, thread, memory, handle, files, history>>

-----------------------------------------------------------------------------
ThreadStep(t) ==
    \/ \E c \in Colleges : Admit(t, c)
    \/ HangUp(t) \/ EndSession(t)
    \/ \E timedout \in BOOLEAN : Binary(t, timedout)
    \/ \E k \in Keys : Filename(t, k) \/ Evict(t, k)
    \/ \E l \in Lines : Line(t, l) \/ LineTooMany(t, l)
    \/ FputsFails(t) \/ Abandon(t) \/ EndOfForm(t)
    \/ RegInsert(t) \/ Answer(t) \/ AnswerFails(t) \/ FreeResource(t)
    \/ FlushOpen(t)

Next ==
    \/ \E t \in Threads : ThreadStep(t)
    \/ \E s \in leaked : FlushLeaked(s)
    \/ HandleSignal \/ Exit \/ Crash \/ Start

Spec == Init /\ [][Next]_vars

\* A thread that can run is run; a read by a thread whose client is gone
\* ends, by an end of file or by the receive timeout.  Clients, signals and
\* failures are never obliged to happen.
Runs(t) ==
    \/ gone[t] /\ (EndSession(t) \/ Abandon(t))
    \/ RegInsert(t) \/ Answer(t) \/ AnswerFails(t) \/ FreeResource(t)
    \/ FlushOpen(t)

FairSpec ==
    /\ Spec
    /\ \A t \in Threads : WF_vars(Runs(t))
    /\ WF_vars(Exit \/ \E s \in leaked : FlushLeaked(s))

-----------------------------------------------------------------------------
(* Properties *)

\* Type invariant; regbufsize passes the end of regbuf by less than a line.
TypeOK ==
    /\ server \in {"up", "exiting", "down"} /\ heapbad \in BOOLEAN
    /\ leaked \subseteq Leak
    /\ pc \in [Threads -> Phases]
    /\ college \in [Threads -> Colleges]
    /\ key \in [Threads -> Keys]
    /\ gone \in [Threads -> BOOLEAN]
    /\ stale \in [Threads -> BOOLEAN]
    /\ regbuf \in [Threads -> Body]
    /\ regbufsize \in [Threads -> 0..(MaxInfo + MaxLine - 1)]
    /\ stream \in [Threads -> Body]
    /\ cache \in [Threads -> [Keys -> Contents]]
    /\ loaded \in [Threads -> BOOLEAN]
    /\ dirty \in [Threads -> SUBSET Keys]
    /\ text \in [Colleges -> [Keys -> Contents]]
    /\ disk \in [Colleges -> [Keys -> Contents]]
    /\ got \in [Threads -> Body]
    /\ complete \in [Colleges -> [Keys -> SUBSET Body]]
    /\ promised \in [Colleges -> [Keys -> Contents]]
    /\ settled \in [Colleges -> [Keys -> BOOLEAN]]
    /\ mishap \in [Colleges -> SUBSET Mishaps]
    /\ opened \in Nat

\* Every record in a registration database, or in a handle's cache, is a
\* form that a client of that very institution sent under that very name and
\* ended with ".": never part of a form, two forms run together or another
\* institution's, whatever sessions overlap and wherever the process dies.
RecordIsWhole ==
    \A c \in Colleges, k \in Keys :
        /\ disk[c][k] \in complete[c][k] \cup {NoBody}
        /\ \A t \in Serving(c) :
              loaded[t] => cache[t][k] \in complete[c][k] \cup {NoBody}

InSession == [c \in Colleges |-> Serving(c) # {}]
Trouble   == [c \in Colleges |-> mishap[c] \cap {"overlap", "put", "exit"}]

\* The database of an institution and the answers its clients get promise
\* what Registry promises.
RegistryView ==
    INSTANCE Registry WITH
        offered <- complete, record <- disk, answered <- promised,
        busy <- InSession, trouble <- Trouble
ImplementsRegistry == RegistryView!Spec

\* The record of form k of c, as the thread that serves c sees it.
View(c, k) ==
    IF \E t \in Serving(c) : loaded[t]
    THEN cache[CHOOSE t \in Serving(c) : loaded[t]][k]
    ELSE disk[c][k]

\* A form answered with 500 stays the record of its name, whatever aborted
\* transfers follow, until a newer one is put.  Only three things break the
\* promise: two sessions of the institution at a time, a put whose failure
\* the server ignores, and the end of the process inside a session.
AnsweredIsKept ==
    \A c \in Colleges, k \in Keys :
        /\ mishap[c] \cap {"overlap", "put", "exit"} = {}
        /\ promised[c][k] # NoBody
        => View(c, k) = promised[c][k]

\* Once a form is answered and until its name is sent again, its text file
\* holds the form too, unless sessions overlapped, the disk was full or an
\* overlong form left a stream of the institution open.
AnsweredText ==
    \A c \in Colleges, k \in Keys :
        /\ mishap[c] \cap {"overlap", "text", "leak"} = {}
        /\ settled[c][k] /\ promised[c][k] # NoBody
        => text[c][k] = promised[c][k]

\* A thread whose client is gone ends, so that it frees its handle and
\* writes the records its client was promised.
GoneIsReleased ==
    \A t \in Threads : (gone[t] /\ Busy(t)) ~> ~Busy(t)
==============================================================================
