---------------------------- MODULE ImageTransfer ----------------------------
(***************************************************************************)
(* The photos that go with the forms: send_photo of project2/src/myfuncs.c *)
(* and, at the server, the BINARY command and accept_binary of             *)
(* server/eduserver.c.  One session sends its forms one after another,     *)
(* each followed by its photo if it has one.  The lines of a form are one  *)
(* item of the stream here (Transfer and FormStore have them in detail),   *)
(* and so is each unit of a photo's bytes.                                 *)
(***************************************************************************)
EXTENDS Integers, Sequences

CONSTANTS
    NForms,     \* forms of the session
    Sizes,      \* sizes of photos, in units
    NoPhoto,    \* a form without a photo, or ignore_photo
    BufSize,    \* MAXINFOSIZE: units the server reads at most at once
    Chunk,      \* units that send_photo writes at once
    Width,      \* size_t counts modulo Width
    Faults      \* among "missing", "create", "disk", "grow", "slow", "cut"

\* What the constants have to satisfy.
ImageAssumption ==
    /\ NForms \in Nat \ {0} /\ Sizes \subseteq Nat
    /\ NoPhoto \notin Nat /\ NoPhoto \in Int
    /\ BufSize \in Nat \ {0} /\ Chunk \in Nat \ {0}
    /\ Width \in Nat \ {0} /\ \A n \in Sizes : n < Width
    /\ Faults \subseteq {"missing", "create", "disk", "grow", "slow", "cut"}

VARIABLES
    photo,      \* photo[f]: the size of f's photo
    accepting,  \* acceptimage: the server was started with --acceptimage
    cpc, cur,   \* where send_photo or its caller is, and with which form
    left,       \* units of the photo still to be written
    spc,        \* the server's thread: "cmd", "image" or "ended"
    name,       \* the form whose photo accept_binary is writing
    nleft, i,   \* accept_binary: units expected; the size it asks read for
    c2s, s2c,   \* what is on its way
    link,       \* "up" or "cut"
    image,      \* image[f]: the units the server's file holds
    formok,     \* history: forms answered with 500
    told,       \* history: told[f], what send_photo returned for f's photo
    swallowed,  \* history: a command was written to an image file
    mishap      \* history: what has gone wrong so far

client  == <<cpc, cur, left>>
server  == <<spc, name, nleft, i, image>>
streams == <<c2s, s2c, link>>
config  == <<photo, accepting>>
hist    == <<formok, told, swallowed, mishap>>
vars    == <<config, client, server, streams, hist>>

Forms == 1..NForms

\* The items of the stream.
Form      == <<"FORM">>
Binary(f) == <<"BINARY", f, photo[f]>>
Unit      == <<"unit">>

Items     == {Form, Unit} \cup {<<"BINARY", f, n>> : f \in Forms, n \in Sizes}

\* The answers: done, an error, no images.
Codes     == {"500", "300", "310"}

Smaller(a, b) == IF a < b THEN a ELSE b
Units(n)      == [k \in 1..n |-> Unit]

Send(items) == c2s' = IF link = "up" /\ spc # "ended" THEN c2s \o items ELSE c2s
Reply(code) == s2c' = IF link = "up" THEN Append(s2c, code) ELSE s2c

\* readline at the client: an answer, or an end of file when there is no more.
Hears(code) == s2c # <<>> /\ code = Head(s2c) /\ s2c' = Tail(s2c)
HearsNothing ==
    s2c = <<>> /\ (spc = "ended" \/ link = "cut") /\ UNCHANGED s2c

Init ==
    /\ photo \in [Forms -> Sizes \cup {NoPhoto}] /\ accepting \in BOOLEAN
    /\ cpc = "form" /\ cur = 1 /\ left = 0
    /\ spc = "cmd" /\ name = 0 /\ nleft = 0 /\ i = 0
    /\ c2s = <<>> /\ s2c = <<>> /\ link = "up"
    /\ image = [f \in Forms |-> NoPhoto]
    /\ formok = {} /\ told = [f \in Forms |-> "nothing"]
    /\ swallowed = FALSE /\ mishap = {}

-----------------------------------------------------------------------------
(* The client *)

Next_form == cpc' = (IF cur < NForms THEN "form" ELSE "done")
             /\ cur' = cur + 1

\* apply_form sends the form and waits for its answer.
SendForm ==
    /\ cpc = "form"
    /\ Send(<<Form>>)
    /\ cpc' = "answer"
    /\ UNCHANGED <<config, cur, left, server, s2c, link, hist>>

\* After an answer comes the photo; without one apply_form returns at once.
FormAnswered ==
    /\ cpc = "answer"
    /\ \/ /\ \E code \in {"500", "300", "310"} :
                Hears(code) /\ formok' = IF code = "500" THEN formok \cup {cur}
                                                         ELSE formok
          /\ IF photo[cur] = NoPhoto THEN Next_form
             ELSE cpc' = "photo" /\ UNCHANGED cur
       \/ HearsNothing /\ Next_form /\ UNCHANGED formok
    /\ UNCHANGED <<config, left, server, c2s, link, told, swallowed, mishap>>

\* The photo's file is not there.
PhotoMissing ==
    /\ "missing" \in Faults
    /\ cpc = "photo"
    /\ told' = [told EXCEPT ![cur] = "failed"]
    /\ Next_form
    /\ UNCHANGED <<config, left, server, streams, formok, swallowed, mishap>>

\* BINARY announces the size that lseek or ftell has given; the bytes follow
\* until the end of the file, wherever that is by then.
AskToSend ==
    /\ cpc = "photo"
    /\ Send(<<Binary(cur)>>)
    /\ cpc' = "ask"
    /\ \/ left' = photo[cur] /\ UNCHANGED mishap
       \/ "grow" \in Faults /\ left' = photo[cur] + 1
                            /\ mishap' = mishap \cup {"grow"}
    /\ UNCHANGED <<config, cur, server, s2c, link, formok, told, swallowed>>

\* 310, any other answer and none end the photo's transfer.
MaySend ==
    /\ cpc = "ask"
    /\ \/ Hears("500") /\ cpc' = "bytes" /\ UNCHANGED <<cur, told>>
       \/ /\ \/ \E code \in {"300", "310"} : Hears(code)
             \/ HearsNothing
          /\ told' = [told EXCEPT ![cur] = "failed"]
          /\ Next_form
    /\ UNCHANGED <<config, left, server, c2s, link, formok, swallowed, mishap>>

\* A buffer of the photo is written, or the write fails and ends the loop.
SendBytes ==
    /\ cpc = "bytes"
    /\ \/ /\ left > 0
          /\ LET n == Smaller(left, Chunk) IN
             Send(Units(n)) /\ left' = left - n
          /\ UNCHANGED cpc
       \/ /\ left = 0 \/ spc = "ended" \/ link = "cut"
          /\ cpc' = "wait"
          /\ UNCHANGED <<c2s, left>>
    /\ UNCHANGED <<config, cur, server, s2c, link, hist>>

PhotoAnswered ==
    /\ cpc = "wait"
    /\ \/ Hears("500") /\ told' = [told EXCEPT ![cur] = "kept"]
       \/ /\ \/ \E code \in {"300", "310"} : Hears(code)
             \/ HearsNothing
          /\ told' = [told EXCEPT ![cur] = "failed"]
    /\ Next_form
    /\ UNCHANGED <<config, left, server, c2s, link, formok, swallowed, mishap>>

Client == \/ SendForm \/ FormAnswered \/ PhotoMissing \/ AskToSend \/ MaySend
          \/ SendBytes \/ PhotoAnswered

-----------------------------------------------------------------------------
(* The server *)

\* The form is stored and answered.
ServerForm ==
    /\ spc = "cmd" /\ c2s # <<>> /\ Head(c2s) = Form
    /\ c2s' = Tail(c2s)
    /\ Reply("500")
    /\ UNCHANGED <<config, client, server, link, hist>>

Announced == spc = "cmd" /\ c2s # <<>> /\ Head(c2s)[1] = "BINARY"

\* Mutants of ImageRefused: the session is ended; nothing is answered.
ImageRefused_Ends ==
    /\ Announced /\ ~accepting
    /\ c2s' = <<>> /\ spc' = "ended"
    /\ Reply("310")
    /\ UNCHANGED <<config, client, name, nleft, i, image, link, hist>>

ImageRefused_Mute ==
    /\ Announced /\ ~accepting
    /\ c2s' = Tail(c2s)
    /\ UNCHANGED <<config, client, server, s2c, link, hist>>

\* The server takes no images: 310.
ImageRefused ==
    /\ Announced /\ ~accepting
    /\ c2s' = Tail(c2s)
    /\ Reply("310")
    /\ UNCHANGED <<config, client, server, link, hist>>

\* BINARY is answered, and the image's file created, empty.
ImageAccepted ==
    /\ Announced /\ accepting
    /\ c2s' = Tail(c2s)
    /\ Reply("500")
    /\ spc' = "image" /\ name' = Head(c2s)[2] /\ nleft' = Head(c2s)[3] /\ i' = 0
    /\ image' = [image EXCEPT ![Head(c2s)[2]] = 0]
    /\ UNCHANGED <<config, client, link, hist>>

\* The file cannot be created: the client, which has its 500, is answered 300
\* at once, and its bytes stay in the stream.
ImageNotCreated ==
    /\ "create" \in Faults
    /\ Announced /\ accepting
    /\ c2s' = Tail(c2s)
    /\ s2c' = IF link = "up" THEN s2c \o <<"500", "300">> ELSE s2c
    /\ mishap' = mishap \cup {"create"}
    /\ UNCHANGED <<config, client, server, link, formok, told, swallowed>>

\* The size that read is asked for: set while more than the buffer is left,
\* and what it was before otherwise, which is 0 for a small image.
AskFor == IF nleft > BufSize THEN BufSize ELSE i

\* Mutant of ReadImage: what is left is counted in a signed integer.
ReadImage_Signed ==
    /\ spc = "image" /\ nleft > 0 /\ AskFor > 0
    /\ i' = AskFor
    /\ \E k \in 1..Smaller(AskFor, Len(c2s)) :
        /\ c2s' = SubSeq(c2s, k + 1, Len(c2s))
        /\ image' = [image EXCEPT ![name] = @ + k]
        /\ nleft' = nleft - k
        /\ swallowed' = (swallowed \/ \E j \in 1..k : c2s[j] # Unit)
    /\ UNCHANGED <<config, client, spc, name, s2c, link, formok, told, mishap>>

\* accept_binary reads what there is, up to AskFor units.
ReadImage ==
    /\ spc = "image" /\ nleft > 0 /\ AskFor > 0
    /\ i' = AskFor
    /\ \E k \in 1..Smaller(AskFor, Len(c2s)) :
        /\ c2s' = SubSeq(c2s, k + 1, Len(c2s))
        /\ image' = [image EXCEPT ![name] = @ + k]
        /\ nleft' = (nleft - k) % Width
        /\ swallowed' = (swallowed \/ \E j \in 1..k : c2s[j] # Unit)
    /\ UNCHANGED <<config, client, spc, name, s2c, link, formok, told, mishap>>

\* The image is complete: 500.
ImageDone ==
    /\ spc = "image" /\ nleft = 0
    /\ spc' = "cmd"
    /\ Reply("500")
    /\ UNCHANGED <<config, client, name, nleft, i, image, c2s, link, hist>>

\* read returns 0, since 0 units were asked for or the client has gone.
NothingRead ==
    /\ \/ AskFor = 0 /\ mishap' = mishap \cup {"small"}
       \/ c2s = <<>> /\ link = "cut" /\ UNCHANGED mishap
    /\ UNCHANGED <<c2s, image>>

\* The disk is full: what was read is gone, of which a part may be written.
DiskFull ==
    /\ "disk" \in Faults /\ AskFor > 0
    /\ \E k \in 1..Smaller(AskFor, Len(c2s)) :
        /\ c2s' = SubSeq(c2s, k + 1, Len(c2s))
        /\ \E j \in 0..(k - 1) : image' = [image EXCEPT ![name] = @ + j]
    /\ mishap' = mishap \cup {"disk"}

\* Mutant of ImageFails: a failed write ends the image as if it was complete.
ImageFails_Taken ==
    /\ spc = "image" /\ nleft > 0
    /\ NothingRead \/ DiskFull
    /\ spc' = "cmd"
    /\ Reply("500")
    /\ UNCHANGED <<config, client, name, nleft, i, link, formok, told, swallowed>>

\* The loop is left early: 300, and what was not read of the image is left in
\* the stream.
ImageFails ==
    /\ spc = "image" /\ nleft > 0
    /\ NothingRead \/ DiskFull
    /\ spc' = "cmd"
    /\ Reply("300")
    /\ UNCHANGED <<config, client, name, nleft, i, link, formok, told, swallowed>>

\* What is not a command ends the session, an end of file too.
ServerEnds ==
    /\ spc = "cmd"
    /\ \/ c2s # <<>> /\ Head(c2s) = Unit
       \/ c2s = <<>> /\ (link = "cut" \/ cpc = "done")
    /\ spc' = "ended"
    /\ c2s' = <<>>
    /\ UNCHANGED <<config, client, name, nleft, i, image, s2c, link, hist>>

Server == \/ ServerForm \/ ImageRefused \/ ImageAccepted \/ ImageNotCreated
          \/ ReadImage \/ ImageDone \/ ImageFails \/ ServerEnds

\* Nothing comes for TIMEOUT seconds.  An image is answered with 300, but errno
\* is still EWOULDBLOCK at the next line, which ends the session.
TimesOut ==
    /\ "slow" \in Faults
    /\ c2s = <<>> /\ spc # "ended"
    /\ spc = "image" => nleft > 0 /\ AskFor > 0
    /\ IF spc = "image" THEN Reply("300") ELSE UNCHANGED s2c
    /\ spc' = "ended"
    /\ mishap' = mishap \cup {"slow"}
    /\ UNCHANGED <<config, client, name, nleft, i, image, c2s, link, formok, told,
                   swallowed>>

\* The connection breaks; the answers on their way are lost.
Cut ==
    /\ "cut" \in Faults
    /\ link = "up" /\ spc # "ended"
    /\ link' = "cut"
    /\ s2c' = <<>>
    /\ \E n \in 0..Len(c2s) : c2s' = SubSeq(c2s, 1, n)
    /\ mishap' = mishap \cup {"cut"}
    /\ UNCHANGED <<config, client, server, formok, told, swallowed>>

Next == Client \/ Server \/ TimesOut \/ Cut

Spec == Init /\ [][Next]_vars

\* Both threads go on when they can.
FairSpec == Spec /\ WF_vars(Client) /\ WF_vars(Server)

-----------------------------------------------------------------------------
(* Properties *)

\* Types; in particular nleft does not pass Width, and no more than two answers
\* are ever on their way.
TypeOK ==
    /\ photo \in [Forms -> Sizes \cup {NoPhoto}] /\ accepting \in BOOLEAN
    /\ cpc \in {"form", "answer", "photo", "ask", "bytes", "wait", "done"}
    /\ cur \in 1..(NForms + 1) /\ name \in 0..NForms
    /\ spc \in {"cmd", "image", "ended"} /\ link \in {"up", "cut"}
    /\ nleft \in 0..(Width - 1) /\ i \in {0, BufSize} /\ left \in Nat
    /\ c2s \in Seq(Items) /\ s2c \in Seq(Codes) /\ Len(s2c) <= 2
    /\ image \in [Forms -> Nat \cup {NoPhoto}]
    /\ formok \subseteq Forms /\ told \in [Forms -> {"nothing", "kept", "failed"}]
    /\ swallowed \in BOOLEAN /\ mishap \subseteq Faults \cup {"small"}

\* send_photo says that a photo was transferred only if the server's file has
\* all of it.
KeptIsWhole ==
    \A f \in Forms : told[f] = "kept" /\ "grow" \notin mishap
                        => image[f] = photo[f]

\* No form and no command is ever written to an image file: accept_binary
\* reads no further than the image, although it asks read for a whole buffer,
\* and a photo that grew leaves both sides waiting.
NothingSwallowed == ~swallowed

\* A photo that send_photo calls transferred is whole at the server, and no
\* command of the session is written to an image file
\* (server/eduserver.c:836, project2/src/myfuncs.c:1604).
PhotosAreWhole == KeptIsWhole /\ NothingSwallowed

\* What ends the session whatever becomes of its photos: the connection
\* breaks, nothing comes in time, or more bytes come than were announced.
Broken == mishap \cap {"cut", "slow", "grow"} # {}

\* The server asked for the bytes of f's photo and gave the photo up: it has
\* created the file, or failed to.
GivenUp(f) ==
    /\ told[f] = "failed" /\ photo[f] > 0
    /\ image[f] # NoPhoto \/ "create" \in mishap

\* A photo that is refused, empty or not to be found costs no form.  As long
\* as the connection holds, a form is lost only behind a photo whose bytes the
\* server asked for and then gave up, so that they lie in front of the form.
FormsGoOn ==
    ~Broken => \A f \in Forms : f < cur =>
                  f \in formok \/ \E g \in 1..(f - 1) : GivenUp(g)

\* "Size as much small as possible (less than 5 KB preferred)" (format.html):
\* without any fault, photos of all sizes arrive where they are accepted.
PhotosArrive ==
    cpc = "done" /\ mishap \subseteq {"small"} /\ accepting
        => \A f \in Forms : photo[f] # NoPhoto => told[f] = "kept"

\* The session ends, whatever breaks: neither end waits for the other for
\* ever, as long as photos have the size that was announced.
SessionEnds == <>(cpc = "done" \/ "grow" \in mishap)
===============================================================================
