------------------------------- MODULE MCLogin -------------------------------
(* Small instances of Login for TLC. *)
EXTENDS Login, FiniteSets, TLC

CONSTANTS t1, t2, p1, p2, u1, u2

\* Times 1, 2 and 3 are before, in and after the window.
MCWindows == {[start |-> 2, end |-> 2]}

InDialogue == {t \in Threads : pc[t] # "idle"}

\* No tool has run: two clients, two colleges, every time.
ClientsAlone == Running = {} /\ edits = 0

\* One tool at a time edits u1 once while a client of u1 or u2 is served and
\* the handle is reloaded.  Nothing a tool does depends on the time.
ClientAndTool ==
    /\ now = 2 /\ edits <= 1
    /\ handle # "none" /\ signal # "term"
    /\ Cardinality(InDialogue) <= 1 /\ Cardinality(Running) <= 1
    /\ \A p \in Tools : ~shared[p]
    /\ \A p \in Tools : sees[p][u2] = Unread

\* Two tools, two edits of either college, and a server nobody has called.
ToolsAlone ==
    /\ now = 2 /\ InDialogue = {}
    /\ handle = "open" /\ \A u \in Colleges : view[u] = Unread
    /\ retbuf = Blank

\* What follows a refusal also follows a connection that is dropped.
Regimes ==
    /\ \A t \in Threads : pc[t] = "idle" => verdict[t] = "none"
    /\ ClientsAlone \/ ClientAndTool \/ ToolsAlone

Symmetry == Permutations(Threads) \cup Permutations(Tools)
==============================================================================
