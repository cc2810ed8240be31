------------------------------ MODULE Connection ------------------------------
(***************************************************************************)
(* How the client finds its server (init_connection and ask_pass of        *)
(* project2/src/myfuncs.c): website.txt names the host and, if the board   *)
(* likes, an address; the first lookup that succeeds is kept in the        *)
(* globals lookup_ok and webaddr for the life of the program.  The         *)
(* password window reads website.txt again each time it comes up.          *)
(***************************************************************************)
EXTENDS Naturals

CONSTANTS
    Addresses,  \* addresses a server can have
    NoAddress,  \* an empty webaddr; also a lookup that fails
    MaxMoves    \* bound: how often the server moves

\* What the constants have to satisfy.
ConnectionAssumption ==
    /\ NoAddress \notin Addresses /\ Addresses # {}
    /\ MaxMoves \in Nat

VARIABLES
    given,      \* the address in website.txt, or NoAddress
    home,       \* where the server is
    dns,        \* whether the name server answers, with home, at present
    moves,      \* history: how often the server has moved
    phase,      \* "idle", "connect" or "login"
    asking,     \* the password window is up
    pass,       \* the password kept in memory: "", "good" or "bad"
    lookup_ok,  \* "if TRUE, new lookup will not be performed"
    webaddr,    \* the address in memory
    target,     \* the address of the connection being made
    proved,     \* history: addresses a lookup gave or a login succeeded at
    reread      \* history: the window has come up since an address was proved

world  == <<given, home, dns, moves>>
memory == <<asking, pass, lookup_ok, webaddr>>
hist   == <<proved, reread>>
vars   == <<world, phase, memory, target, hist>>

Init ==
    /\ given \in Addresses \cup {NoAddress}
    /\ home \in Addresses /\ dns \in BOOLEAN /\ moves = 0
    /\ phase = "idle" /\ asking = FALSE /\ pass = ""
    /\ lookup_ok = FALSE /\ webaddr = NoAddress /\ target = NoAddress
    /\ proved = {} /\ reread = FALSE

\* Mutant of ReadWebsite: webaddr is cleared, the file is not read again.
ReadWebsite_NotRead == webaddr' = NoAddress

\* website and webaddr are cleared and read from website.txt.
ReadWebsite == webaddr' = given

\* Send without a password in memory.
ask_pass ==
    /\ phase = "idle" /\ pass = ""
    /\ asking' = TRUE
    /\ ReadWebsite
    /\ reread' = TRUE
    /\ UNCHANGED <<world, phase, pass, lookup_ok, target, proved>>

\* Mutant of Lookup: the answer is used and not copied to webaddr.
Lookup_NotCopied ==
    /\ ~lookup_ok /\ dns
    /\ lookup_ok' = TRUE
    /\ target' = home
    /\ proved' = proved \cup {home}
    /\ reread' = FALSE
    /\ UNCHANGED webaddr

\* The host is looked up.
Lookup ==
    /\ ~lookup_ok /\ dns
    /\ lookup_ok' = TRUE
    /\ webaddr' = home /\ target' = home
    /\ proved' = proved \cup {home}
    /\ reread' = FALSE

\* The lookup fails: the address of website.txt is used, if it has one.
LookupFails ==
    /\ ~lookup_ok /\ ~dns /\ webaddr # NoAddress
    /\ target' = webaddr
    /\ UNCHANGED <<lookup_ok, webaddr, proved, reread>>

\* "use previous successful address": webaddr, whatever it is.
UsePrevious ==
    /\ lookup_ok
    /\ target' = webaddr
    /\ UNCHANGED <<lookup_ok, webaddr, proved, reread>>

\* Without a lookup and without an address init_connection fails, and
\* nothing has changed.
init_connection ==
    /\ phase' = "connect"
    /\ Lookup \/ LookupFails \/ UsePrevious

\* Send, with a password in memory.
Send ==
    /\ phase = "idle" /\ pass # ""
    /\ init_connection
    /\ UNCHANGED <<world, asking, pass>>

\* OK in the password window.
pass_ok_clicked ==
    /\ phase = "idle" /\ asking
    /\ asking' = FALSE
    /\ pass' \in {"good", "bad"}
    /\ \/ init_connection
       \/ /\ ~lookup_ok /\ ~dns /\ webaddr = NoAddress
          /\ UNCHANGED <<phase, lookup_ok, webaddr, target, hist>>
    /\ UNCHANGED world

\* connect() succeeds where the server is, and may fail anywhere.
Connect ==
    /\ phase = "connect"
    /\ \/ target = home /\ phase' = "login"
       \/ phase' = "idle"
    /\ UNCHANGED <<world, memory, target, hist>>

\* authenticate succeeds: "we can use this host address".
LoginSucceeds ==
    /\ phase = "login" /\ pass = "good"
    /\ phase' = "idle"
    /\ lookup_ok' = TRUE
    /\ proved' = proved \cup {target}
    /\ reread' = FALSE
    /\ UNCHANGED <<world, asking, pass, webaddr, target>>

\* The login fails, for the password or for anything else: a new password is
\* needed.
LoginFails ==
    /\ phase = "login"
    /\ phase' = "idle"
    /\ pass' = ""
    /\ UNCHANGED <<world, asking, lookup_ok, webaddr, target, hist>>

\* The name server starts or stops answering.
DnsTurns ==
    /\ dns' = ~dns
    /\ UNCHANGED <<given, home, moves, phase, memory, target, hist>>

\* The server moves to another address.
Move ==
    /\ moves < MaxMoves
    /\ home' \in Addresses \ {home}
    /\ moves' = moves + 1
    /\ UNCHANGED <<given, dns, phase, memory, target, hist>>

Next ==
    \/ ask_pass \/ pass_ok_clicked \/ Send \/ Connect
    \/ LoginSucceeds \/ LoginFails \/ DnsTurns \/ Move

Spec == Init /\ [][Next]_vars

\* The operator goes on trying, the network and the login work often enough.
FairSpec ==
    /\ Spec
    /\ WF_vars(ask_pass) /\ SF_vars(Send)
    /\ SF_vars(pass_ok_clicked /\ pass' = "good")
    /\ SF_vars(Connect /\ phase' = "login") /\ WF_vars(Connect)
    /\ SF_vars(LoginSucceeds)

-----------------------------------------------------------------------------
(* Properties *)

TypeOK ==
    /\ {home} \cup proved \subseteq Addresses
    /\ {given, webaddr, target} \subseteq Addresses \cup {NoAddress}
    /\ phase \in {"idle", "connect", "login"} /\ pass \in {"", "good", "bad"}
    /\ {asking, lookup_ok, dns, reread} \subseteq BOOLEAN

\* "use previous successful address" (init_connection): once lookup_ok is
\* set, what is used is an address that a lookup gave or a login succeeded at,
\* unless the password window has come up since; then it is what website.txt
\* says, which may be nothing.
PreviousUnlessReread ==
    lookup_ok => \/ webaddr \in proved /\ ~reread
                 \/ reread /\ webaddr = given

\* An operator who goes on trying gets to log in again and again, at a server
\* that stays where website.txt says, whether or not names can be looked up
\* and however often the password was wrong.
KeepsReaching == [](home = given) => []<>(phase = "login")
===============================================================================
