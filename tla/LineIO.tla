------------------------------- MODULE LineIO -------------------------------
(***************************************************************************)
(* The input and output of the two ends of a connection: writen, readn and *)
(* the buffered readline of server/support.c, and the copies the clients   *)
(* have of them.  One end writes an exchange of several parts with writen, *)
(* the other reads raw parts with readn and lines with readline.  readline *)
(* reads ahead into rl_buf and readn does not look there: what makes the   *)
(* mixture right is that the writer waits for an answer after every part.  *)
(* A read or write that a signal interrupts (EINTR) is made again and      *)
(* leaves everything as it was.                                            *)
(***************************************************************************)
EXTENDS Integers, Sequences

CONSTANTS
    Byte,       \* the bytes
    NL, Nul,    \* two of them: newline, and what calloc fills rl_buf with
    MaxLine,    \* MAXLINE: the size of rl_buf and of the caller's buffer
    Raw,        \* Raw[s]: part s is read with readn, else line by line
    Texts,      \* the bytes an exchange can consist of
    Last,       \* Last[s]: where part s ends
    Faults      \* among "reset" and "close"

Parts == 1..Len(Raw)
First(s) == IF s = 1 THEN 1 ELSE Last[s - 1] + 1
Total == Last[Len(Raw)]

ASSUME LineAssumption ==
    /\ NL \in Byte /\ Nul \in Byte
    /\ MaxLine \in Nat /\ MaxLine >= 2
    /\ Raw \in Seq(BOOLEAN) /\ Len(Raw) >= 1
    /\ Last \in [Parts -> Nat]
    /\ Last[1] >= 1
    /\ \A s, t \in Parts : s < t => Last[s] < Last[t]
    /\ Texts \subseteq [1..Total -> Byte]
    /\ Faults \subseteq {"reset", "close"}

VARIABLES
    text,       \* what the writer has to send
    wpart,      \* the part it is in
    wleft,      \* nleft of writen: bytes of the part not written yet
    sent,       \* bytes written so far
    link,       \* "up", "closed" by the writer or "reset"
    part,       \* the part the reader is in
    taken,      \* bytes that read has returned so far
    rl_cnt, rl_bufptr, rl_buf,      \* what readline has read ahead
    pc,         \* "call", "read", "back" or "end"
    ptr,        \* what the running call has put in its caller's buffer
    start,      \* bytes given to the callers before the running call
    ret         \* what the last call returned

writer   == <<wpart, wleft, sent>>
reader   == <<part, pc, ptr, start, ret>>
readbuf  == <<rl_cnt, rl_bufptr, rl_buf>>
vars     == <<text, writer, link, reader, taken, readbuf>>

Given == start + Len(ptr)

Init ==
    /\ text \in Texts
    /\ wpart = 1 /\ wleft = Last[1] /\ sent = 0
    /\ link = "up"
    /\ part = 1 /\ pc = "call" /\ ptr = <<>> /\ start = 0 /\ ret = 0
    /\ taken = 0
    /\ rl_cnt = 0 /\ rl_bufptr = 0 /\ rl_buf = [i \in 0..MaxLine - 1 |-> Nul]

-----------------------------------------------------------------------------
(* The writer *)

\* writen: write accepts some of the bytes.
Write(k) ==
    /\ link = "up" /\ k \in 1..wleft
    /\ wleft' = wleft - k /\ sent' = sent + k
    /\ UNCHANGED <<text, wpart, link, reader, taken, readbuf>>

\* Mutant of Answered: The next part is written without waiting for the answer.
Answered_Early(s) == TRUE

\* The answer to a part has come: the next is written.
Answered(s) == part > s

NextPart ==
    /\ link = "up" /\ wleft = 0 /\ wpart < Len(Raw)
    /\ Answered(wpart)
    /\ wpart' = wpart + 1
    /\ wleft' = Last[wpart + 1] - Last[wpart]
    /\ UNCHANGED <<text, sent, link, reader, taken, readbuf>>

\* The writer closes the connection; whatever was written still arrives.
CloseLink ==
    /\ link = "up"
    /\ "close" \in Faults \/ (wpart = Len(Raw) /\ wleft = 0)
    /\ link' = "closed"
    /\ UNCHANGED <<text, writer, reader, taken, readbuf>>

\* The connection is reset: every later read and write fails.
ResetLink ==
    /\ "reset" \in Faults /\ link # "reset" /\ link' = "reset"
    /\ UNCHANGED <<text, writer, reader, taken, readbuf>>

-----------------------------------------------------------------------------
(* The reader *)

Call ==
    /\ pc = "call"
    /\ pc' = "read" /\ ptr' = <<>>
    /\ UNCHANGED <<text, writer, link, part, start, ret, taken, readbuf>>

\* A call gives its bytes to the caller and n as its result.
Return(n) ==
    /\ pc' = "back" /\ ret' = n
    /\ UNCHANGED <<text, writer, link, part, start, ptr, taken, readbuf>>

Bytes(from, k) == [i \in 1..k |-> text[from + i]]

\* readn: n is the length of the part.
RawLength == Last[part] - First(part) + 1

ReadnRead(k) ==
    /\ pc = "read" /\ Raw[part] /\ Len(ptr) < RawLength /\ link # "reset"
    /\ k \in 1..(RawLength - Len(ptr)) /\ taken + k <= sent
    /\ ptr' = ptr \o Bytes(taken, k)
    /\ taken' = taken + k
    /\ UNCHANGED <<text, writer, link, part, pc, start, ret, readbuf>>

ReadnReturn ==
    /\ pc = "read" /\ Raw[part]
    /\ \/ Len(ptr) = RawLength
       \/ link = "closed" /\ taken = sent /\ Len(ptr) < RawLength
    /\ Return(Len(ptr))

\* my_read: the buffer is filled when it is empty.
Refill(k) ==
    /\ pc = "read" /\ ~Raw[part] /\ link # "reset"
    /\ rl_cnt <= 0
    /\ k \in 1..MaxLine /\ taken + k <= sent
    /\ rl_buf' = [i \in 0..MaxLine - 1 |->
                    IF i < k THEN text[taken + i + 1] ELSE rl_buf[i]]
    /\ rl_cnt' = k /\ rl_bufptr' = 0 /\ taken' = taken + k
    /\ UNCHANGED <<text, writer, link, reader>>

\* The loop of readline ends: at the newline, or with the buffer full.
LineDone(line) ==
    \/ line # <<>> /\ line[Len(line)] = NL
    \/ Len(line) = MaxLine - 1

\* n counts the turns of the loop, one more if it was not left by a break
\* at the newline.
Count(line) ==
    IF line # <<>> /\ line[Len(line)] = NL THEN Len(line) ELSE Len(line) + 1

TakeByte ==
    /\ pc = "read" /\ ~Raw[part] /\ rl_cnt > 0 /\ ~LineDone(ptr)
    /\ ptr' = Append(ptr, rl_buf[rl_bufptr])
    /\ rl_bufptr' = rl_bufptr + 1 /\ rl_cnt' = rl_cnt - 1
    /\ UNCHANGED <<text, writer, link, part, pc, start, ret, taken, rl_buf>>

ReadlineReturn ==
    /\ pc = "read" /\ ~Raw[part] /\ LineDone(ptr)
    /\ Return(Count(ptr))

\* End of file: 0 if nothing was read, else the line as far as it came.
ReadlineEOF ==
    /\ pc = "read" /\ ~Raw[part] /\ ~LineDone(ptr)
    /\ rl_cnt <= 0 /\ link = "closed" /\ taken = sent
    /\ Return(IF ptr = <<>> THEN 0 ELSE Count(ptr))

\* read fails: -1, and the bytes of the call are not given to anybody.
ReadFails ==
    /\ pc = "read" /\ link = "reset"
    /\ IF Raw[part] THEN Len(ptr) < RawLength
                    ELSE rl_cnt <= 0 /\ ~LineDone(ptr)
    /\ pc' = "end" /\ ret' = -1
    /\ rl_cnt' = IF Raw[part] THEN rl_cnt ELSE -1
    /\ UNCHANGED <<text, writer, link, part, ptr, start, taken, rl_bufptr,
                   rl_buf>>

\* The caller uses what it got.  A short part or an end of file ends the
\* session; the last line of a part is known by its text ("." or a command).
Use ==
    /\ pc = "back"
    /\ start' = Given /\ ptr' = <<>>
    /\ IF Given = Last[part] /\ part < Len(Raw)
       THEN part' = part + 1 /\ pc' = "call"
       ELSE /\ part' = part
            /\ pc' = IF Given = Last[part] \/ ret = 0
                        \/ (Raw[part] /\ ret < RawLength)
                     THEN "end" ELSE "call"
    /\ UNCHANGED <<text, writer, link, ret, taken, readbuf>>

Writer == (\E k \in 1..Total : Write(k)) \/ NextPart
Readn  == (\E k \in 1..Total : ReadnRead(k)) \/ ReadnReturn
Readline == (\E k \in 1..MaxLine : Refill(k)) \/ TakeByte \/ ReadlineReturn
            \/ ReadlineEOF
Reader == Call \/ Readn \/ Readline \/ ReadFails \/ Use

Next == Writer \/ CloseLink \/ ResetLink \/ Reader

Spec == Init /\ [][Next]_vars

\* Both programs keep running; nothing says that the connection lasts.
FairSpec == Spec /\ WF_vars(Writer) /\ WF_vars(Reader)
                 /\ WF_vars(CloseLink /\ wpart = Len(Raw) /\ wleft = 0)

-----------------------------------------------------------------------------
(* Properties *)

\* Every variable has a value of its type.
TypeOK ==
    /\ text \in Texts
    /\ wpart \in Parts /\ wleft \in Nat /\ sent \in Nat
    /\ link \in {"up", "closed", "reset"}
    /\ part \in Parts /\ taken \in Nat
    /\ rl_cnt \in -1..MaxLine /\ rl_bufptr \in Nat
    /\ rl_buf \in [0..MaxLine - 1 -> Byte]
    /\ rl_cnt > 0 => rl_bufptr + rl_cnt <= MaxLine
    /\ pc \in {"call", "read", "back", "end"}
    /\ ptr \in Seq(Byte) /\ start \in Nat /\ ret \in Int

\* Where the two ends are: the writer is not past the reader's part, nothing is
\* read that was not written.
Position ==
    /\ sent + wleft = Last[wpart] /\ wpart <= part
    /\ taken <= sent

\* What has been read and not been given to a caller yet.
Ahead == IF rl_cnt > 0 THEN rl_cnt ELSE 0

\* No byte is lost, doubled or moved: what the callers have been given is the
\* beginning of what was sent, the buffer holds exactly the bytes that come
\* next, also where a call with readn comes between two with readline
\* (server/eduserver.c:374, "don't mixup readline and readn").
EveryByteOnce ==
    /\ taken = Given + Ahead
    /\ \A i \in 1..Len(ptr) : ptr[i] = text[start + i]
    /\ \A i \in 0..Ahead - 1 : rl_buf[rl_bufptr + i] = text[Given + i + 1]

\* A call of readline returns what fgets would: up to the first newline, at
\* most MaxLine - 1 bytes, and less only at the end of the file; it returns 0
\* only if there is nothing more, which is what ends the callers' loops
\* (server/support.c:139, where n is one more than the bytes of a cut line).
LikeFgets ==
    pc = "back" /\ ~Raw[part] =>
      /\ \A i \in 1..Len(ptr) - 1 : ptr[i] # NL
      /\ Len(ptr) <= MaxLine - 1
      /\ LineDone(ptr) \/ (link # "up" /\ Given = sent)
      /\ ret > 0 <=> ptr # <<>>

\* A raw part is read where it begins: readline has read nothing of it ahead,
\* which readn would not find.  readn returns all of the part unless the peer
\* is gone.
RawExact ==
    Raw[part] =>
      /\ pc # "end" => start + 1 = First(part) /\ Ahead = 0
      /\ pc = "back" => Len(ptr) = RawLength \/ link # "up"

\* What the two ends may rely on, whatever way the bytes are divided: the
\* three properties above together.
ReadAsWritten == EveryByteOnce /\ LikeFgets /\ RawExact

\* What the three above need to be inductive: where a call stands.
InCall ==
    /\ Given <= Last[part]
    /\ pc = "call" => ptr = <<>>
    /\ pc = "back" /\ Raw[part] => ret = Len(ptr)
    /\ pc = "read" /\ ~Raw[part] =>
         Len(ptr) <= MaxLine - 1 /\ \A i \in 1..Len(ptr) - 1 : ptr[i] # NL

IInv == TypeOK /\ Position /\ InCall /\ EveryByteOnce /\ LikeFgets /\ RawExact

\* A reader comes to an end: all that was sent has been read, or the
\* connection was reset.  An end of file is not read for ever.
ReadToTheEnd == <>(pc = "end" /\ (link = "reset" \/ Given = sent))
=============================================================================
