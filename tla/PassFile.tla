------------------------------- MODULE PassFile -------------------------------
(***************************************************************************)
(* The password file of the server and the programs that edit it: inspass, *)
(* delpass, dispass and enapass.  Each is a process that opens the file    *)
(* through a Berkeley DB handle of its own (password.c), edits one college *)
(* after another as codes come in on its standard input, perhaps typed by  *)
(* a person, and writes its pages when the input ends.  There is no        *)
(* environment and no lock: a handle's page cache is private.              *)
(***************************************************************************)
EXTENDS Naturals

CONSTANTS
    Tools,      \* processes that run one of the editing programs
    Colleges,   \* college codes, the keys of the file
    Passwords,  \* digests of passwords
    Windows,    \* start and end times between which forms may be sent
    MaxEdits,   \* bound: edits in a behaviour
    Faults,     \* which of the environment's failures may happen
    NoRecord,   \* there is no record of the college
    Unread,     \* the page of the college is not in the handle's cache
    Unsure      \* nobody may rely on the record of the college

Programs == {"inspass", "delpass", "dispass", "enapass"}

\* The struct password; its length is the same for every password.
Record == [pass : Passwords, disabled : BOOLEAN, window : Windows]
Entry  == Record \cup {NoRecord}

ASSUME PassFileAssumption ==
    /\ Windows \subseteq [start : Nat, end : Nat]
    /\ MaxEdits \in Nat
    /\ NoRecord \notin Record
    /\ Unread \notin Entry /\ Unsure \notin Entry

VARIABLES
    file,       \* file[u]: the record of college u in the password file
    tool,       \* tool[p]: the program p runs, or "off"
    sees,       \* sees[p][u]: the record of u in the cache of p's handle
    unsaved,    \* unsaved[p]: the colleges p's handle has yet to write
    pwd,        \* pwd[p]: the local of dispass and enapass; NoRecord when
                \* nothing has been assigned to it
    shared,     \* history: another tool has been running beside p
    wanted,     \* history: wanted[u], what the last edit of u reported as
                \* stored; Unsure if tools overlapped or one was killed
    edits       \* the number of edits so far

toolvars == <<file, tool, sees, unsaved, pwd, shared, wanted, edits>>

Running == {p \in Tools : tool[p] # "off"}

-----------------------------------------------------------------------------
(* Pages *)

\* The pages that hold the colleges of S are read unless they are cached.
ReadPages(cached, S) ==
    [u \in Colleges |->
        IF u \in S /\ cached[u] = Unread THEN file[u] ELSE cached[u]]

\* Mutant of WritePages: DB->close is not called.
WritePages_Skipped(p, S) == UNCHANGED file

\* Pages are written as a whole: what p changed on them, and what it read.
WritePages(p, S) ==
    file' = [u \in Colleges |-> IF u \in S THEN sees[p][u] ELSE file[u]]

-----------------------------------------------------------------------------
(* One iteration of a program's loop *)

\* Mutant of Stored: confirm = 0, hence DB_NOOVERWRITE; "key stored" all the
\* same is what the caller takes from it.
Stored_NoOverwrite(p, u, cached, e) ==
    /\ sees' = [sees EXCEPT ![p] = IF cached[u] = NoRecord
                                   THEN [cached EXCEPT ![u] = e] ELSE cached]
    /\ unsaved' = [unsaved EXCEPT ![p] = @ \cup {u}]
    /\ wanted' = [wanted EXCEPT ![u] = IF shared[p] THEN Unsure ELSE e]

\* pass_insertdb with confirm = 1, or pass_deletedb, has succeeded and said
\* so; the change is in the cache.
Stored(p, u, cached, e) ==
    /\ sees' = [sees EXCEPT ![p] = [cached EXCEPT ![u] = e]]
    /\ unsaved' = [unsaved EXCEPT ![p] = @ \cup {u}]
    /\ wanted' = [wanted EXCEPT ![u] = IF shared[p] THEN Unsure ELSE e]

\* The key was looked for and is not there: nothing but the cache changes.
Missed(p, cached) ==
    /\ sees' = [sees EXCEPT ![p] = cached]
    /\ UNCHANGED <<unsaved, wanted>>

Edit(p, programs) ==
    /\ tool[p] \in programs /\ edits < MaxEdits
    /\ edits' = edits + 1
    /\ UNCHANGED <<file, tool, shared>>

\* inspass: the record of u is created or replaced.
Insert(p, u) ==
    /\ Edit(p, {"inspass"})
    /\ \E S \in SUBSET Colleges, r \in Record :
          u \in S /\ Stored(p, u, ReadPages(sees[p], S), r)
    /\ UNCHANGED pwd

\* delpass
Delete(p, u) ==
    /\ Edit(p, {"delpass"})
    /\ \E S \in SUBSET Colleges : LET cached == ReadPages(sees[p], S) IN
          /\ u \in S
          /\ IF cached[u] = NoRecord THEN Missed(p, cached)
             ELSE Stored(p, u, cached, NoRecord)
    /\ UNCHANGED pwd

\* dispass, enapass: what the program makes of the record it found.
Flagged(p, r) == [r EXCEPT !.disabled = (tool[p] = "dispass")]

\* The record is read, its flag is set or cleared, and it is put back.
Toggle(p, u) ==
    /\ Edit(p, {"dispass", "enapass"})
    /\ \E S \in SUBSET Colleges : LET cached == ReadPages(sees[p], S) IN
          /\ u \in S
          /\ IF cached[u] = NoRecord
             THEN Missed(p, cached) /\ UNCHANGED pwd
             ELSE /\ pwd' = [pwd EXCEPT ![p] = Flagged(p, cached[u])]
                  /\ Stored(p, u, cached, Flagged(p, cached[u]))

\* DB->get fails with an error number, which is positive (out of memory, an
\* I/O error), and passes the test ret < 0: what pwd holds from the college
\* before, or from nowhere, is put under u.
ToggleBlind(p, u) ==
    /\ "get" \in Faults
    /\ Edit(p, {"dispass", "enapass"})
    /\ \E S \in SUBSET Colleges, r \in Record :
          /\ u \in S
          /\ pwd[p] # NoRecord => r = pwd[p]
          /\ pwd' = [pwd EXCEPT ![p] = Flagged(p, r)]
          /\ Stored(p, u, ReadPages(sees[p], S), Flagged(p, r))

-----------------------------------------------------------------------------
(* The life of a tool *)

\* pass_initdb.  Tools that run beside each other make no promise for what
\* they have yet to write.
Open(p, program) ==
    /\ tool[p] = "off" /\ edits < MaxEdits
    /\ tool' = [tool EXCEPT ![p] = program]
    /\ shared' = [q \in Tools |-> IF Running # {} /\ q \in Running \cup {p}
                                  THEN TRUE ELSE shared[q]]
    /\ wanted' = [u \in Colleges |->
                    IF \E q \in Running : u \in unsaved[q]
                    THEN Unsure ELSE wanted[u]]
    /\ UNCHANGED <<file, sees, unsaved, pwd, edits>>

\* The process ends, its handle and cache with it.
Ended(p) ==
    /\ tool' = [tool EXCEPT ![p] = "off"]
    /\ unsaved' = [unsaved EXCEPT ![p] = {}]
    /\ shared' = [shared EXCEPT ![p] = FALSE]
    /\ pwd' = [pwd EXCEPT ![p] = NoRecord]
    /\ sees' = [sees EXCEPT ![p] = [u \in Colleges |-> Unread]]

\* The input ends: pass_exitdb writes the pages that were changed.
Close(p) ==
    /\ p \in Running
    /\ \E S \in SUBSET {u \in Colleges : sees[p][u] # Unread} :
          /\ unsaved[p] \subseteq S
          /\ unsaved[p] = {} => S = {}
          /\ WritePages(p, S)
    /\ Ended(p)
    /\ UNCHANGED <<wanted, edits>>

\* The person at the terminal interrupts the program.
Kill(p) ==
    /\ "kill" \in Faults /\ p \in Running
    /\ wanted' = [u \in Colleges |->
                    IF u \in unsaved[p] THEN Unsure ELSE wanted[u]]
    /\ Ended(p)
    /\ UNCHANGED <<file, edits>>

\* The cache is full: the page that holds S leaves, written if it changed.
Evict(p, S) ==
    /\ "evict" \in Faults /\ S # {}
    /\ \A u \in S : sees[p][u] # Unread
    /\ IF S \cap unsaved[p] = {} THEN UNCHANGED file ELSE WritePages(p, S)
    /\ sees' = [sees EXCEPT ![p] = [u \in Colleges |->
                                        IF u \in S THEN Unread ELSE @[u]]]
    /\ unsaved' = [unsaved EXCEPT ![p] = @ \ S]
    /\ UNCHANGED <<tool, pwd, shared, wanted, edits>>

ToolStep(p) ==
    \/ \E program \in Programs : Open(p, program)
    \/ \E u \in Colleges :
          Insert(p, u) \/ Delete(p, u) \/ Toggle(p, u) \/ ToggleBlind(p, u)
    \/ Close(p) \/ Kill(p)
    \/ \E S \in SUBSET Colleges : Evict(p, S)

ToolInit ==
    /\ file \in [Colleges -> Entry]
    /\ tool = [p \in Tools |-> "off"]
    /\ sees = [p \in Tools |-> [u \in Colleges |-> Unread]]
    /\ unsaved = [p \in Tools |-> {}]
    /\ pwd = [p \in Tools |-> NoRecord]
    /\ shared = [p \in Tools |-> FALSE]
    /\ wanted = file
    /\ edits = 0

ToolNext == \E p \in Tools : ToolStep(p)

ToolSpec == ToolInit /\ [][ToolNext]_toolvars

-----------------------------------------------------------------------------
(* Properties *)

\* Type invariant: what a tool has to write it has in its cache, and only a
\* program that is running has anything there.
ToolTypeOK ==
    /\ file \in [Colleges -> Entry]
    /\ tool \in [Tools -> Programs \cup {"off"}]
    /\ sees \in [Tools -> [Colleges -> Entry \cup {Unread}]]
    /\ unsaved \in [Tools -> SUBSET Colleges]
    /\ \A p \in Tools, u \in Colleges :
          /\ u \in unsaved[p] => sees[p][u] # Unread
          /\ sees[p][u] # Unread => tool[p] # "off"
    /\ pwd \in [Tools -> Entry]
    /\ shared \in [Tools -> BOOLEAN]
    /\ wanted \in [Colleges -> Entry \cup {Unsure}]
    /\ edits \in Nat

\* An edit reported as stored stays, for every tool that looks at it and in
\* the file once no tool has it to write, until a later edit of the college.
\* Only tools that run beside each other, and a tool that is interrupted,
\* can undo one.
EditIsKept ==
    \A u \in Colleges : wanted[u] # Unsure =>
        /\ \A p \in Tools : sees[p][u] \in {Unread, wanted[u]}
        /\ (\A p \in Tools : u \notin unsaved[p]) => file[u] = wanted[u]

\* dispass and enapass put a record back where they found one: they never
\* make one for a college that has none ("really exists", enapass.c).
ToggledExists ==
    [][\A p \in Tools, u \in Colleges :
          /\ tool[p] \in {"dispass", "enapass"}
          /\ u \in unsaved'[p] \ unsaved[p]
          => ReadPages(sees[p], {u})[u] # NoRecord]_toolvars
==============================================================================
