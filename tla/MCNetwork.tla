---------------------------- MODULE MCNetwork ----------------------------
(***************************************************************************)
(* Five parts around a session that share no state, checked in one run:    *)
(* the line and block I/O of a connection, the client's way to the server, *)
(* the transfer of photos, the control script and the watcher of new data. *)
(* moving, chosen with the initial state, says which of them moves; the    *)
(* others stay as they are.                                                *)
(***************************************************************************)
EXTENDS LineIO

CONSTANTS
    x,                                                      \* a byte
    NForms, Sizes, NoPhoto, BufSize, Chunk, Width, ImageFaults,
    Addresses, NoAddress, MaxMoves,
    NumProcs, MaxStored,
    NumFiles, MaxChanges, Backlog,
    None

VARIABLES
    moving,     \* "lines", "address", "images", "script" or "watch"
    given, home, dns, moves, phase, asking, pass, lookup_ok, webaddr, target,
    proved, reread,
    photo, accepting, cpc, cur, units, spc, name, nleft, i, c2s, s2c, wire,
    image, formok, told, swallowed, mishap,
    obedient, dbfails, proc, pending, loaded, stored, lingering, pidfile,
    lock, todo, last, asked, held,
    ver, now, differs, watching, filelist, remaining, slept, queue, reading,
    up, noted, shown, due

address == <<given, home, dns, moves, phase, asking, pass, lookup_ok,
             webaddr, target, proved, reread>>
images == <<photo, accepting, cpc, cur, units, spc, name, nleft, i, c2s, s2c,
            wire, image, formok, told, swallowed, mishap>>
rc     == <<obedient, dbfails, proc, pending, loaded, stored, lingering,
            pidfile, lock, todo, last, asked, held>>
watch  == <<ver, now, differs, watching, filelist, remaining, slept, queue,
            reading, up, noted, shown, due>>
parts  == <<moving, vars, address, images, rc, watch>>

\* A raw part that may contain a newline, lines (one longer than the buffer),
\* a raw part again, and a last line.
MCRaw  == <<TRUE, FALSE, TRUE, FALSE>>
MCLast == <<2, 7, 9, 11>>
MCTexts == {<<a, NL, x, NL, x, c, NL, NL, x, d, NL>> :
              a \in {x, NL}, c \in {x, NL}, d \in {x, NL}}

MCNoPhoto == -1

Address == INSTANCE Connection
Images == INSTANCE ImageTransfer
            WITH Faults <- ImageFaults, left <- units, link <- wire
Rc     == INSTANCE RcServer
Watch  == INSTANCE SyncWatch
            WITH pc <- watching, left <- remaining, told <- noted

ASSUME NetworkAssumption ==
    /\ Address!ConnectionAssumption /\ Images!ImageAssumption
    /\ Rc!RcAssumption /\ Watch!WatchAssumption

PartsInit ==
    /\ moving \in {"lines", "address", "images", "script", "watch"}
    /\ Init /\ Address!Init /\ Images!Init /\ Rc!Init /\ Watch!Init
    /\ moving # "lines" => text = CHOOSE t \in Texts : TRUE
    /\ moving # "address" => given = NoAddress /\ dns /\ home = CHOOSE a \in Addresses : TRUE
    /\ moving # "images" => ~accepting /\ photo = [f \in 1..NForms |-> NoPhoto]
    /\ moving # "script" => ~obedient /\ ~dbfails
    /\ moving # "watch" => ver = [f \in 1..NumFiles |-> 0]

PartsNext ==
    /\ UNCHANGED moving
    /\ \/ moving = "lines" /\ Next /\ UNCHANGED <<address, images, rc, watch>>
       \/ moving = "address" /\ Address!Next /\ UNCHANGED <<vars, images, rc, watch>>
       \/ moving = "images" /\ Images!Next /\ UNCHANGED <<vars, address, rc, watch>>
       \/ moving = "script" /\ Rc!Next /\ UNCHANGED <<vars, address, images, watch>>
       \/ moving = "watch" /\ Watch!Next /\ UNCHANGED <<vars, address, images, rc>>

\* The fairness of each part is that of its own specification; where a part
\* does not move its other fair actions are not enabled.
PartsSpec ==
    /\ PartsInit /\ [][PartsNext]_parts
    /\ WF_vars(moving = "lines" /\ Writer) /\ WF_vars(moving = "lines" /\ Reader)
    /\ WF_vars(moving = "lines" /\ CloseLink /\ wpart = Len(Raw) /\ wleft = 0)
    /\ WF_address(moving = "address" /\ Address!ask_pass) /\ SF_address(Address!Send)
    /\ SF_address(Address!pass_ok_clicked /\ pass' = "good")
    /\ SF_address(Address!Connect /\ phase' = "login") /\ WF_address(Address!Connect)
    /\ SF_address(Address!LoginSucceeds)
    /\ WF_images(moving = "images" /\ Images!Client)
    /\ WF_images(moving = "images" /\ Images!Server)
    /\ Rc!Fairness
    /\ WF_watch(moving = "watch" /\ Watch!Script)
    /\ WF_watch(moving = "watch" /\ Watch!Tick)
    /\ WF_watch(moving = "watch" /\ Watch!Listener)

-----------------------------------------------------------------------------
(* The properties of the parts; where a part does not move, it is in its    *)
(* initial state.  ReadAsWritten is LineIO's.                              *)

\* Types of the parts: what accept_binary expects never wraps around and at
\* most two answers are on their way, the pid file holds a pid, the listener's
\* queue has an end.
NetworkTypeOK == Address!TypeOK /\ Images!TypeOK /\ Rc!TypeOK /\ Watch!TypeOK

\* The address that init_connection uses without a lookup has worked before or
\* is what website.txt says now (project2/src/myfuncs.c:1094).
AddressIsKnown == Address!PreviousUnlessReread

\* An operator who goes on trying gets to log in at a server that stays where
\* website.txt says.
ServerIsFound == moving = "address" => Address!KeepsReaching

\* A photo that send_photo calls transferred is whole at the server, and no
\* command of the session is written to an image file
\* (server/eduserver.c:836, project2/src/myfuncs.c:1604).
PhotosAreWhole == Images!PhotosAreWhole

\* A photo that is refused, empty or not to be found costs none of the forms
\* after it: while the connection holds, a form is lost only behind a photo
\* whose bytes the server asked for and then gave up (server/eduserver.c:847).
FormsGoOn == Images!FormsGoOn

\* The commands of the script do what they say: a server answers from the
\* password file as it was at its last reload or later, a restart that found no
\* other server at the port leaves one running, and the pid file names the one
\* that runs, if start is used after stop only (server/rc.eduserver).
ScriptIsObeyed == Rc!ReloadReloads /\ Rc!RestartUnlessHeld /\ Rc!PidNamesServer

\* Nobody waits for ever: a reader comes to the end of what was sent, neither
\* end of a photo's transfer waits for the other for good, and a server that
\* was sent TERM ends (server/support.c:100, server/eduserver.c:836).
NothingHangs ==
    /\ moving = "lines" => ReadToTheEnd
    /\ moving = "images" => Images!SessionEnds
    /\ Rc!StopEnds

\* A note is sent only of what has changed since the last one
\* (server/sync-data.sh), and what changes while the watcher sleeps is shown by
\* the listener, unless that was down or is kept busy by silent connections
\* (test-client/listen.c).
NotesAreRight == Watch!OnlyNews /\ Watch!DueIsShown
=============================================================================
