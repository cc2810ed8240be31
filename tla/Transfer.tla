------------------------------- MODULE Transfer -------------------------------
(***************************************************************************)
(* The sending of forms by the client (apply_forms, apply_form and         *)
(* authenticate of project2/src/myfuncs.c) to the command loop of the      *)
(* server.  The client has one thread; between its steps it runs the       *)
(* event loop of GTK ("while (gtk_events_pending()) gtk_main_iteration()"),*)
(* so that the operator can save a form, cancel, or click Send again: the  *)
(* second transfer then runs inside the first, over the same globals       *)
(* sockfd, pass and submit_cancelled and the same read buffer of my_read.  *)
(* A frame of stack is one activation of apply_forms.                      *)
(***************************************************************************)
EXTENDS Naturals, Integers, Sequences, FiniteSets

CONSTANTS
    NForms,     \* the forms are numbered as readdir returns their files
    MaxVer,     \* bound: how often a form is saved
    MaxConn,    \* bound: connections made
    MaxDepth,   \* bound: activations of apply_forms inside each other
    Scenes      \* what may happen together; each scene has
                \* acts: what the operator does, among ActKinds,
                \* faults: what goes wrong, among FaultKinds,
                \* vers, conns: its bounds, up to MaxVer and MaxConn

ActKinds == {"save", "cancel", "nest"}
FaultKinds == {"dir", "skip", "open", "reopen", "connect", "refuse", "password",
               "cut", "silence", "crash", "timeout"}

ASSUME TransferAssumption ==
    /\ NForms \in Nat \ {0} /\ MaxVer \in Nat \ {0}
    /\ MaxConn \in Nat \ {0} /\ MaxDepth \in Nat \ {0}
    /\ \A s \in Scenes : /\ s.acts \subseteq ActKinds /\ s.faults \subseteq FaultKinds
                        /\ s.vers \in 1..MaxVer /\ s.conns \in 1..MaxConn

VARIABLES
    scene,      \* one of Scenes
    file,       \* file[f]: the version saved last, and the sent flag
    db,         \* db[f]: what the server has stored under the name of f
    conn,       \* conn[c]: both ends of connection c
    stack,      \* the activations of apply_forms, the running one last
    sockfd,     \* the global: -1, 0, or the number of a connection
    fd0,        \* what descriptor 0 is: Stdin, Closed, NewSocket (not
                \* connected yet), or the number of a connection
    pass,       \* the password kept in memory: "", "good" or "bad"
    asking,     \* the password window is up
    cancelled,  \* submit_cancelled
    window,     \* the transfer window: shown or not, and the button it has
    inbuf,      \* read_buf of my_read: lines read and not yet returned
    mishap,     \* history: mishap[f], what kept f's copy from being right
    nested,     \* history: a transfer ran inside another one
    shut,       \* history: descriptor 0 was closed for a socket
    strange     \* history: a transfer took for its answer a line that had
                \* come on a connection it had not made

user   == <<pass, asking, cancelled, window>>
disk   == <<file, db>>
net    == <<conn, sockfd, fd0, inbuf>>
hist   == <<mishap, nested, shut, strange>>
vars   == <<disk, net, user, stack, hist>>

Forms == 1..NForms
Conns == 1..MaxConn

Stdin     == -2
Closed    == -3
NewSocket == -4

\* A connection as the server's thread and the client's kernel see it.
Fresh  == [srv |-> "magic", link |-> "up", open |-> TRUE, c2s |-> <<>>,
           s2c |-> <<>>, name |-> 0, body |-> <<>>]
Unmade == [Fresh EXCEPT !.srv = "none", !.open = FALSE]
Ended  == [Fresh EXCEPT !.srv = "ended", !.open = FALSE]
Made   == {c \in Conns : conn[c].srv # "none"}

\* What is written on a connection.
Filename(f) == [kind |-> "FILENAME", form |-> f, ver |-> 0]
Text(f, v)  == [kind |-> "text", form |-> f, ver |-> v]
Word(w)     == [kind |-> w, form |-> 0, ver |-> 0]

Stored(f, v) == <<Text(f, v)>>
Nothing      == <<>>

-----------------------------------------------------------------------------
(* The client's globals *)

Top        == stack[Len(stack)]
Running(p) == stack # <<>> /\ Top.pc = p
Goto(p)    == stack' = [stack EXCEPT ![Len(stack)].pc = p]
Return     == stack' = SubSeq(stack, 1, Len(stack) - 1)
Frame(p)   == [pc |-> p, zero |-> FALSE, own |-> 0, dir |-> 0]

\* Where the program runs the event loop, with the operator's actions in it.
Pumping == {"pass_ok", "resolve", "connect", "connected", "magic", "magic?",
            "user", "user?", "pass", "pass?", "passed", "failed", "form"}

Listening == stack # <<>> => Top.pc \in Pumping

\* The connection behind sockfd, if there is one.
Peer   == IF sockfd = 0 THEN fd0 ELSE sockfd
Linked == Peer \in Made

\* A record that nobody looks at any more.
Tidy(k) == IF k.srv = "ended" /\ ~k.open THEN Ended ELSE k

\* writen(sockfd, ...) says that everything went out.  The peer may be gone:
\* the first write after that still succeeds.  Standard input may be a
\* terminal, which takes what is written to it.
WriteOk(toks) ==
    \/ /\ Linked
       /\ conn' = IF conn[Peer].link = "up" /\ conn[Peer].srv # "ended"
                  THEN [conn EXCEPT ![Peer].c2s = @ \o toks] ELSE conn
    \/ /\ Peer = Stdin
       /\ UNCHANGED conn

WriteMayFail ==
    Linked => (conn[Peer].link = "cut" \/ conn[Peer].srv = "ended")

WriteFails == WriteMayFail /\ UNCHANGED conn

\* readline(sockfd, ...): a line that my_read still has, whatever descriptor
\* it came from; else all the lines that have arrived are read.
ReadLine(a) ==
    IF inbuf # <<>>
    THEN /\ a = Head(inbuf)
         /\ inbuf' = Tail(inbuf)
         /\ UNCHANGED conn
    ELSE /\ Linked
         /\ conn[Peer].link # "silence"
         /\ conn[Peer].s2c # <<>>
         /\ a = Head(conn[Peer].s2c)
         /\ inbuf' = Tail(conn[Peer].s2c)
         /\ conn' = [conn EXCEPT ![Peer].s2c = <<>>]

\* The top frame is about to read, and my_read has to read the descriptor.
Reading == Top.pc \in {"magic?", "user?", "pass?", "answer"} /\ inbuf = <<>>

\* It reads standard input: descriptor 0 was never a connection, and sockfd is
\* 0 because a transfer inside this one has closed the connection of both.
\* If that is a terminal, readline waits until somebody types a line there.
AtTerminal == stack # <<>> /\ Reading /\ Peer = Stdin

\* An end of file or an error, or at the terminal a line that is no answer.
ReadFails ==
    /\ inbuf = <<>>
    /\ Linked => /\ conn[Peer].s2c = <<>>
                 /\ (conn[Peer].link = "cut" \/ conn[Peer].srv = "ended")
    /\ UNCHANGED <<conn, inbuf>>

\* close(sockfd), whatever that is by now.
CloseSocket ==
    /\ conn' = IF Linked THEN [conn EXCEPT ![Peer] = Tidy([@ EXCEPT !.open = FALSE])]
                         ELSE conn
    /\ fd0' = IF sockfd = 0 THEN Closed ELSE fd0
    /\ shut' = (shut \/ sockfd = 0)
    /\ sockfd' = 0

-----------------------------------------------------------------------------
Init ==
    /\ scene \in Scenes
    /\ file = [f \in Forms |-> [ver |-> 1, sent |-> FALSE]]
    /\ db = [f \in Forms |-> Nothing]
    /\ conn = [c \in Conns |-> Unmade]
    /\ stack = <<>>
    /\ sockfd = 0 /\ fd0 = Stdin /\ inbuf = <<>>
    /\ pass = "" /\ asking = FALSE /\ cancelled = FALSE
    /\ window = [shown |-> FALSE, button |-> "cancel"]
    /\ mishap = [f \in Forms |-> {}]
    /\ nested = FALSE /\ shut = FALSE /\ strange = FALSE

-----------------------------------------------------------------------------
(* The operator *)

\* The activations that may still make a connection.
Connecting ==
    {i \in 1..Len(stack) : stack[i].pc \in {"pass_ok", "resolve", "connect"}}

\* Send and OK enter apply_forms, at any time the event loop runs.
Enter(p) ==
    /\ Listening
    /\ Cardinality(Made) + Cardinality(Connecting) < scene.conns
    /\ stack = <<>> \/ ("nest" \in scene.acts /\ Len(stack) < MaxDepth)
    /\ stack' = Append(stack, Frame(p))
    /\ nested' = (nested \/ stack # <<>>)

\* Every transfer begins with the flag of an earlier cancellation cleared.
Begin ==
    /\ pass # ""
    /\ cancelled' = FALSE
    /\ window' = [window EXCEPT !.shown = TRUE]
    /\ UNCHANGED <<pass, asking>>

\* The password window comes up.
ask_pass ==
    /\ pass = ""
    /\ asking' = TRUE
    /\ UNCHANGED <<pass, cancelled, window>>

editor_send_clicked ==
    /\ \/ Enter("resolve") /\ Begin
       \/ Listening /\ ask_pass /\ UNCHANGED <<stack, nested>>
    /\ UNCHANGED <<disk, net, mishap, shut, strange>>

\* OK in the password window: the pending events are completed first.
pass_ok_clicked ==
    /\ asking
    /\ Enter("pass_ok")
    /\ asking' = FALSE
    /\ pass' \in {"good"} \cup (IF "password" \in scene.faults THEN {"bad"} ELSE {})
    /\ UNCHANGED <<disk, net, cancelled, window, mishap, shut, strange>>

pass_cancel_clicked ==
    /\ Listening /\ asking
    /\ asking' = FALSE
    /\ UNCHANGED <<disk, net, stack, pass, cancelled, window, hist>>

\* Cancel in the transfer window.
on_online_cancel_clicked ==
    /\ "cancel" \in scene.acts
    /\ Listening /\ window.shown /\ window.button = "cancel"
    /\ cancelled' = TRUE
    /\ window' = [window EXCEPT !.shown = FALSE]
    /\ UNCHANGED <<disk, net, stack, pass, asking, hist>>

\* OK in the transfer window, which shows it when a transfer has ended.
on_online_ok_clicked ==
    /\ Listening /\ window.shown /\ window.button = "ok"
    /\ window' = [shown |-> FALSE, button |-> "cancel"]
    /\ UNCHANGED <<disk, net, stack, pass, asking, cancelled, hist>>

\* Mutant of Save: the sent flag is kept.
Save_KeepsSent(f) ==
    /\ "save" \in scene.acts
    /\ Listening
    /\ file[f].ver < scene.vers
    /\ file' = [file EXCEPT ![f].ver = @ + 1]
    /\ UNCHANGED <<db, net, user, stack, hist>>

\* A form is edited and saved, which sets its sent flag to 0.
Save(f) ==
    /\ "save" \in scene.acts
    /\ Listening
    /\ file[f].ver < scene.vers
    /\ file' = [file EXCEPT ![f] = [ver |-> @.ver + 1, sent |-> FALSE]]
    /\ UNCHANGED <<db, net, user, stack, hist>>

-----------------------------------------------------------------------------
(* apply_forms up to the login *)

\* apply_forms as pass_ok_clicked calls it, after its event loop: a transfer
\* within may have been refused and cleared the password.
BeginAfterPass ==
    /\ Running("pass_ok")
    /\ \/ Begin /\ Goto("resolve")
       \/ ask_pass /\ Return
    /\ UNCHANGED <<disk, net, hist>>

\* init_connection up to its second event loop: socket() takes the lowest
\* free descriptor.
Socket ==
    /\ Running("resolve")
    /\ stack' = [stack EXCEPT ![Len(stack)] =
                    [@ EXCEPT !.pc = "connect", !.zero = (fd0 = Closed)]]
    /\ fd0' = IF fd0 = Closed THEN NewSocket ELSE fd0
    /\ UNCHANGED <<disk, conn, sockfd, inbuf, user, hist>>

\* No address, or connect() fails, as it does on a descriptor that was closed
\* meanwhile: the socket is closed.
ConnectFails ==
    /\ Running("resolve") \/ Running("connect")
    /\ "connect" \in scene.faults \/ (Top.zero /\ fd0 # NewSocket)
    /\ Goto("connected")
    /\ sockfd' = -1
    /\ fd0' = IF Top.pc = "connect" /\ Top.zero THEN Closed ELSE fd0
    /\ UNCHANGED <<disk, conn, inbuf, user, hist>>

\* connect() succeeds, and the server has a thread for the connection.
Connect ==
    /\ Running("connect") /\ (Top.zero => fd0 = NewSocket)
    /\ \E c \in Conns \ Made :
       /\ \A d \in Conns \ Made : c <= d
       /\ stack' = [stack EXCEPT ![Len(stack)] =
                       [@ EXCEPT !.pc = "connected", !.own = c]]
       /\ conn' = [conn EXCEPT ![c] = Fresh]
       /\ sockfd' = IF Top.zero THEN 0 ELSE c
       /\ fd0' = IF Top.zero THEN c ELSE fd0
    /\ UNCHANGED <<disk, inbuf, user, hist>>

\* The test of sockfd comes after another event loop: it may be the 0 that a
\* transfer within has left.
GiveUp ==
    /\ Running("connected")
    /\ sockfd = -1
    /\ Return
    /\ UNCHANGED <<disk, net, user, hist>>

\* authenticate: each of its three messages is written and answered, and
\* before every write and every read the event loop runs.
Say(p, q, w) ==
    /\ Running(p)
    /\ \/ WriteOk(<<Word(w)>>) /\ Goto(q)
       \/ WriteFails /\ Goto("failed")
    /\ UNCHANGED <<disk, sockfd, fd0, inbuf, user, hist>>

Hear(p, q, code) ==
    /\ Running(p)
    /\ \/ \E a \in Conns \X {"500", "refused"} :
            /\ ReadLine(a)
            /\ Goto(IF a[2] = code THEN q ELSE "failed")
            /\ strange' = (strange \/ a[1] # Top.own)
       \/ ReadFails /\ Goto("failed") /\ UNCHANGED strange
    /\ UNCHANGED <<disk, sockfd, fd0, user, mishap, nested, shut>>

StartLogin ==
    /\ Running("connected") /\ sockfd # -1
    /\ Goto("magic")
    /\ UNCHANGED <<disk, net, user, hist>>

authenticate ==
    \/ StartLogin
    \/ Say("magic", "magic?", "MAGIC") \/ Hear("magic?", "user", "500")
    \/ Say("user", "user?", "USER")    \/ Hear("user?", "pass", "500")
    \/ Say("pass", "pass?", pass)      \/ Hear("pass?", "passed", "500")

\* The login has failed: the password is forgotten and sockfd closed.
LoginFails ==
    /\ Running("failed")
    /\ pass' = ""
    /\ CloseSocket
    /\ Return
    /\ UNCHANGED <<disk, inbuf, asking, cancelled, window, mishap, nested,
                   strange>>

-----------------------------------------------------------------------------
(* The forms *)

\* The directory is opened, unless the transfer has been cancelled.
OpenDir ==
    /\ Running("passed")
    /\ Goto(IF cancelled THEN "quit" ELSE "next")
    /\ UNCHANGED <<disk, net, user, hist>>

\* There is no such directory: the window goes away.
OpenDirFails ==
    /\ "dir" \in scene.faults
    /\ Running("passed") /\ ~cancelled
    /\ Goto("quit")
    /\ window' = [window EXCEPT !.shown = FALSE]
    /\ UNCHANGED <<disk, net, pass, asking, cancelled, hist>>

\* The next file of the directory whose header says that it is not sent.
Unsent == {f \in (Top.dir + 1)..NForms : ~file[f].sent}
NextForm(f) == f \in Unsent /\ \A g \in Unsent : f <= g

\* A file that cannot be opened to look at its header is passed over.
SkipFile ==
    /\ "skip" \in scene.faults
    /\ Running("next")
    /\ \E f \in Forms :
        /\ NextForm(f)
        /\ stack' = [stack EXCEPT ![Len(stack)].dir = f]
    /\ UNCHANGED <<disk, net, user, hist>>

NoMoreForms ==
    /\ Running("next") /\ Unsent = {}
    /\ Goto("quit")
    /\ UNCHANGED <<disk, net, user, hist>>

\* FILENAME is written before the form's file is opened for sending.
SendFilename ==
    /\ Running("next")
    /\ \E f \in Forms :
        /\ NextForm(f)
        /\ WriteOk(<<Filename(f)>>)
        /\ stack' = [stack EXCEPT ![Len(stack)] =
                        [@ EXCEPT !.pc = IF cancelled THEN "quit" ELSE "form",
                                  !.dir = f]]
    /\ UNCHANGED <<disk, sockfd, fd0, inbuf, user, hist>>

\* The transfer ends with what is left of the window: Cancel gives way to OK.
Finish ==
    /\ window' = [window EXCEPT !.button = "ok"]
    /\ Return
    /\ UNCHANGED <<pass, asking, cancelled>>

\* sockfd is closed and set to 0.
SendFilenameFails ==
    /\ Running("next") /\ Unsent # {}
    /\ WriteMayFail
    /\ CloseSocket
    /\ Finish
    /\ UNCHANGED <<disk, inbuf, mishap, nested, strange>>

Blame(S, what) ==
    mishap' = [f \in Forms |-> IF f \in S THEN mishap[f] \cup {what}
                                          ELSE mishap[f]]

\* apply_form cannot open the file; the server waits for its lines, and will
\* take the next FILENAME and its form for them.
FormNotOpened ==
    /\ "open" \in scene.faults
    /\ Running("form")
    /\ Goto("next")
    /\ Blame({g \in Forms : g >= Top.dir}, "open")
    /\ UNCHANGED <<disk, net, user, nested, shut, strange>>

\* Cancelled: no line is sent, and the loop goes on to the next FILENAME.
FormCancelled ==
    /\ Running("form") /\ cancelled
    /\ Goto("next")
    /\ UNCHANGED <<disk, net, user, hist>>

\* The lines of the file are sent and ".", with no event loop in between, on
\* whatever connection is behind sockfd by now.
SendForm ==
    /\ Running("form") /\ ~cancelled
    /\ \/ /\ WriteOk(<<Text(Top.dir, file[Top.dir].ver), Word(".")>>)
          /\ Goto("answer")
       \/ WriteFails /\ Goto("next")
    /\ UNCHANGED <<disk, sockfd, fd0, inbuf, user, hist>>

\* The answer is waited for without any event loop or timeout.  After 500
\* the sent flag is written into the file, if it can be opened again.
FormAnswered ==
    /\ Running("answer")
    /\ Goto("next")
    /\ \E a \in Conns \X {"500", "refused"} :
        /\ ReadLine(a)
        /\ strange' = (strange \/ a[1] # Top.own)
        /\ \/ a[2] = "500" /\ file' = [file EXCEPT ![Top.dir].sent = TRUE]
           \/ (a[2] # "500" \/ "reopen" \in scene.faults) /\ UNCHANGED file
    /\ UNCHANGED <<db, sockfd, fd0, user, mishap, nested, shut>>

\* Mutant of FormNotAnswered: the result of readline is not looked at.
FormNotAnswered_Sent ==
    /\ Running("answer")
    /\ ReadFails
    /\ Goto("next")
    /\ file' = [file EXCEPT ![Top.dir].sent = TRUE]
    /\ UNCHANGED <<db, sockfd, fd0, user, hist>>

\* No answer: the form counts as failed and stays unsent.
FormNotAnswered ==
    /\ Running("answer")
    /\ ReadFails
    /\ Goto("next")
    /\ UNCHANGED <<disk, sockfd, fd0, user, hist>>

\* Mutant of Quit: the connection is told and not closed.
Quit_NoClose ==
    /\ Running("quit")
    /\ IF sockfd > 0
       THEN /\ conn' = [conn EXCEPT ![sockfd].c2s = Append(@, Word("QUIT"))]
            /\ sockfd' = 0
       ELSE UNCHANGED <<conn, sockfd>>
    /\ Finish
    /\ UNCHANGED <<disk, fd0, inbuf, hist>>

\* The client's end of k after QUIT and close.
Dismissed(k) == [k EXCEPT !.open = FALSE,
                     !.c2s = IF k.link = "up" THEN Append(@, Word("QUIT"))
                                              ELSE @]

\* QUIT and close, only for a positive sockfd.
Quit ==
    /\ Running("quit")
    /\ IF sockfd > 0
       THEN /\ conn' = [conn EXCEPT ![sockfd] = Tidy(Dismissed(conn[sockfd]))]
            /\ sockfd' = 0
       ELSE UNCHANGED <<conn, sockfd>>
    /\ Finish
    /\ UNCHANGED <<disk, fd0, inbuf, hist>>

Client ==
    \/ BeginAfterPass \/ Socket \/ ConnectFails \/ Connect \/ GiveUp
    \/ authenticate \/ LoginFails
    \/ OpenDir \/ OpenDirFails \/ SkipFile \/ NoMoreForms
    \/ SendFilename \/ SendFilenameFails \/ FormNotOpened \/ FormCancelled
    \/ SendForm \/ FormAnswered \/ FormNotAnswered \/ Quit

Operator ==
    \/ editor_send_clicked \/ pass_ok_clicked \/ pass_cancel_clicked
    \/ on_online_cancel_clicked \/ on_online_ok_clicked
    \/ \E f \in Forms : Save(f)

-----------------------------------------------------------------------------
(* The server's thread of a connection, as far as a client can tell: Login *)
(* and FormStore model it in detail.                                       *)

\* Mutant of Replying: the answer is written twice.
Replying_Twice(k, c, code) ==
    [k EXCEPT !.s2c = IF k.link = "up" /\ k.open
                      THEN @ \o <<<<c, code>>, <<c, code>>>> ELSE @]

\* An answer reaches the client's kernel, while there is a way to it.
Replying(k, c, code) ==
    [k EXCEPT !.s2c = IF k.link = "up" /\ k.open THEN Append(@, <<c, code>>)
                                                 ELSE @]
Serve(c, k) == conn' = [conn EXCEPT ![c] = Tidy(k)]

\* Lines still arrive on a connection that was cut, not on a silent one.
Takes(c, p) ==
    /\ c \in Made
    /\ conn[c].srv = p /\ conn[c].c2s # <<>> /\ conn[c].link # "silence"

Rest(c) == [conn[c] EXCEPT !.c2s = Tail(@)]
End(k)  == [k EXCEPT !.srv = "ended", !.c2s = <<>>, !.name = 0, !.body = <<>>]

\* The magic, the institution and the password.
ServerLogin(c) ==
    LET said == Head(conn[c].c2s)
        step(p, word, next) ==
            /\ Takes(c, p)
            /\ IF said = Word(word)
               THEN Serve(c, Replying([Rest(c) EXCEPT !.srv = next], c, "500"))
               ELSE IF p = "pass" /\ said = Word("bad")
               THEN Serve(c, End(Replying(Rest(c), c, "refused")))
               ELSE Serve(c, End(Rest(c)))
    IN
    /\ \/ step("magic", "MAGIC", "user")
       \/ step("user", "USER", "pass")
       \/ step("pass", "good", "cmd")
    /\ UNCHANGED <<disk, sockfd, fd0, inbuf, user, stack, hist>>

\* No such institution, disabled, too early or too late.
ServerRefuses(c) ==
    /\ "refuse" \in scene.faults
    /\ Takes(c, "user")
    /\ Serve(c, End(Replying(Rest(c), c, "refused")))
    /\ UNCHANGED <<disk, sockfd, fd0, inbuf, user, stack, hist>>

\* FILENAME opens a form; QUIT and anything else end the session.
ServerCommand(c) ==
    /\ Takes(c, "cmd")
    /\ LET said == Head(conn[c].c2s) IN
       Serve(c, IF said.kind = "FILENAME"
                THEN [Rest(c) EXCEPT !.srv = "form", !.name = said.form]
                ELSE End(Rest(c)))
    /\ UNCHANGED <<disk, sockfd, fd0, inbuf, user, stack, hist>>

\* A line of the form, whatever it says.
ServerLine(c) ==
    /\ Takes(c, "form")
    /\ Head(conn[c].c2s) \notin {Word("."), Word("QUIT")}
    /\ Serve(c, [Rest(c) EXCEPT !.body = Append(@, Head(conn[c].c2s))])
    /\ UNCHANGED <<disk, sockfd, fd0, inbuf, user, stack, hist>>

\* The client does not wait for an answer on c any more.
Abandoned(c) == ~(Running("answer") /\ Peer = c)

\* Mutant of ServerStores: the form is stored and not answered.
ServerStores_Mute(c) ==
    LET f == conn[c].name IN
    /\ Takes(c, "form")
    /\ Head(conn[c].c2s) = Word(".")
    /\ db' = [db EXCEPT ![f] = conn[c].body]
    /\ Serve(c, [Rest(c) EXCEPT !.srv = "cmd", !.name = 0, !.body = <<>>])
    /\ UNCHANGED <<file, sockfd, fd0, inbuf, user, stack, hist>>

\* Mutant of ServerStores: the lines are not cleared for the next form.
ServerStores_KeepsLines(c) ==
    LET f == conn[c].name IN
    /\ Takes(c, "form")
    /\ Head(conn[c].c2s) = Word(".")
    /\ db' = [db EXCEPT ![f] = conn[c].body]
    /\ Serve(c, Replying([Rest(c) EXCEPT !.srv = "cmd", !.name = 0], c, "500"))
    /\ UNCHANGED <<file, sockfd, fd0, inbuf, user, stack, hist>>

\* ".": the form is stored and answered with 500.
ServerStores(c) ==
    LET f == conn[c].name IN
    /\ Takes(c, "form")
    /\ Head(conn[c].c2s) = Word(".")
    /\ db' = [db EXCEPT ![f] = conn[c].body]
    /\ Serve(c, Replying([Rest(c) EXCEPT !.srv = "cmd", !.name = 0,
                                         !.body = <<>>], c, "500"))
    /\ Blame(IF Abandoned(c) THEN {f} ELSE {}, "late")
    /\ UNCHANGED <<file, sockfd, fd0, inbuf, user, stack, nested, shut,
                   strange>>

\* Mutant of ServerAbandons: what has come so far is stored, as in the call
\* of reg_insertdb that is commented out in the source.
ServerAbandons_Stores(c) ==
    /\ Takes(c, "form")
    /\ Head(conn[c].c2s) = Word("QUIT")
    /\ db' = [db EXCEPT ![conn[c].name] = conn[c].body]
    /\ Serve(c, End(Rest(c)))
    /\ UNCHANGED <<file, sockfd, fd0, inbuf, user, stack, hist>>

\* QUIT inside a form: the form is dropped.
ServerAbandons(c) ==
    /\ Takes(c, "form")
    /\ Head(conn[c].c2s) = Word("QUIT")
    /\ Serve(c, End(Rest(c)))
    /\ UNCHANGED <<disk, sockfd, fd0, inbuf, user, stack, hist>>

\* An end of file or an error, or the server's receive timeout.
ServerHangUp(c) ==
    /\ c \in Made
    /\ conn[c].srv # "ended"
    /\ conn[c].c2s = <<>> \/ conn[c].link = "silence"
    /\ ~conn[c].open \/ conn[c].link # "up" \/ "timeout" \in scene.faults
    /\ Serve(c, End(conn[c]))
    /\ UNCHANGED <<disk, sockfd, fd0, inbuf, user, stack, hist>>

Server(c) ==
    \/ ServerLogin(c) \/ ServerRefuses(c) \/ ServerCommand(c)
    \/ ServerLine(c) \/ ServerStores(c) \/ ServerAbandons(c)
    \/ ServerHangUp(c)

-----------------------------------------------------------------------------
(* The network and the client's machine *)

\* The connection breaks and both ends notice: the answers on the way are
\* lost, and any number of the last lines.
Cut(c) ==
    /\ "cut" \in scene.faults
    /\ c \in Made
    /\ conn[c].link = "up" /\ conn[c].srv # "ended"
    /\ \E n \in 0..Len(conn[c].c2s) :
        Serve(c, [conn[c] EXCEPT !.link = "cut", !.s2c = <<>>,
                                 !.c2s = SubSeq(@, 1, n)])
    /\ UNCHANGED <<disk, sockfd, fd0, inbuf, user, stack, hist>>

\* The connection goes dead without either end being told.
Silence(c) ==
    /\ "silence" \in scene.faults
    /\ c \in Made
    /\ conn[c].link = "up" /\ conn[c].srv # "ended"
    /\ conn' = [conn EXCEPT ![c].link = "silence"]
    /\ UNCHANGED <<disk, sockfd, fd0, inbuf, user, stack, hist>>

\* The client is killed, and started again.
Crash ==
    /\ "crash" \in scene.faults
    /\ stack # <<>>
    /\ conn' = [c \in Conns |->
                  IF c \in Made THEN Tidy([conn[c] EXCEPT !.open = FALSE])
                                ELSE Unmade]
    /\ stack' = <<>> /\ sockfd' = 0 /\ fd0' = Stdin /\ inbuf' = <<>>
    /\ pass' = "" /\ asking' = FALSE /\ cancelled' = FALSE
    /\ window' = [shown |-> FALSE, button |-> "cancel"]
    /\ UNCHANGED <<disk, hist>>

Mishaps == Crash \/ \E c \in Conns : Cut(c) \/ Silence(c)

Next ==
    /\ UNCHANGED scene
    /\ Client \/ Operator \/ Mishaps \/ \E c \in Conns : Server(c)

Spec == Init /\ [][Next]_<<scene, vars>>

\* The client's thread goes on when it can, and so do the server's.  Nobody has
\* to type anything at the terminal.
Proceed  == ~AtTerminal /\ Client
FairSpec == Spec /\ WF_vars(Proceed) /\ \A c \in Conns : WF_vars(Server(c))

-----------------------------------------------------------------------------
(* Properties *)

Words == {".", "QUIT", "MAGIC", "USER", "", "good", "bad"}
Lines == {Filename(f) : f \in Forms} \cup {Word(w) : w \in Words}
            \cup {Text(f, v) : f \in Forms, v \in 1..MaxVer}
ConnType ==
    [srv : {"none", "magic", "user", "pass", "cmd", "form", "ended"},
     link : {"up", "cut", "silence"}, open : BOOLEAN,
     c2s : Seq(Lines), s2c : Seq(Conns \X {"500", "refused"}),
     name : 0..NForms, body : Seq(Lines)]
FrameType ==
    {fr \in [pc : Pumping \cup {"next", "answer", "quit"}, zero : BOOLEAN,
             own : 0..MaxConn, dir : 0..NForms] :
        fr.pc \in {"form", "answer"} => fr.dir \in Forms}

\* One type invariant for all variables.  A thread of the server that is not
\* in the middle of a form has no name and no lines of one.
TypeOK ==
    /\ scene \in Scenes
    /\ file \in [Forms -> [ver : 1..MaxVer, sent : BOOLEAN]]
    /\ db \in [Forms -> Seq(Lines)]
    /\ conn \in [Conns -> ConnType]
    /\ \A c \in Conns : conn[c].srv # "form" => conn[c].name = 0 /\ conn[c].body = <<>>
    /\ stack \in Seq(FrameType)
    /\ sockfd \in -1..MaxConn
    /\ fd0 \in {Stdin, Closed, NewSocket} \cup Conns
    /\ inbuf \in Seq(Conns \X {"500", "refused"})
    /\ pass \in {"", "good", "bad"}
    /\ {asking, cancelled, nested, shut, strange} \subseteq BOOLEAN
    /\ window \in [shown : BOOLEAN, button : {"cancel", "ok"}]
    /\ mishap \in [Forms -> SUBSET {"open", "late"}]

\* A form whose file says "sent" is at the server as it was saved last ("sent
\* successfully, feedback got" in apply_form): whatever the operator clicks
\* while transfers run, and whatever breaks, except where the form could not
\* be opened after its FILENAME, an abandoned session stored it late, or
\* descriptor 0 has been closed by a transfer that another one ran inside of.
SentIsStored ==
    \A f \in Forms : file[f].sent /\ mishap[f] = {} /\ ~shut
                        => db[f] = Stored(f, file[f].ver)

\* The same with no exception.
SentMeansStored ==
    \A f \in Forms : file[f].sent => db[f] = Stored(f, file[f].ver)

\* Nothing but a version of a form is ever stored under its name: no line of
\* another form, of another transfer or of the protocol is mixed into it,
\* unless a form's file could not be opened after FILENAME, or descriptor 0
\* has been closed.
RecordIsOneForm ==
    \A f \in Forms : "open" \notin mishap[f] /\ ~shut =>
        \/ db[f] = Nothing
        \/ \E v \in 1..file[f].ver : db[f] = Stored(f, v)

\* readline never returns to one transfer what the server said to another,
\* although all of them read through the one buffer of my_read; unless
\* descriptor 0 has been closed, and connections have come to be on it.
AnswerIsOurs == strange => shut

\* When no transfer runs, no connection is open: only transfers inside each
\* other can leave one behind.
NothingLeaks == stack = <<>> /\ ~nested => \A c \in Made : ~conn[c].open

\* Every transfer ends, whatever the operator does meanwhile and whatever
\* breaks, as long as both ends are told of it.  Only one that another transfer
\* ran inside of may come to wait at the terminal instead: the inner one has
\* closed the connection and left sockfd 0, and the outer one reads on.
TransferEnds == (stack # <<>>) ~> (stack = <<>> \/ (nested /\ AtTerminal))

\* The transfers implement Submission, whatever breaks: a mishap looses the
\* promise for its forms only, a closed descriptor 0 for all.
Version(f) ==
    IF db[f] = Nothing THEN 0
    ELSE IF \E v \in 1..MaxVer : db[f] = Stored(f, v) THEN db[f][1].ver
    ELSE -1

Promise == INSTANCE Submission WITH
    None <- 0, record <- [f \in Forms |-> Version(f)],
    loose <- {f \in Forms : shut \/ mishap[f] # {}}

ImplementsSubmission == Promise!SubmissionSpec
===============================================================================
