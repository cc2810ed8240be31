--------------------------- MODULE Transfer_proofs ---------------------------
(***************************************************************************)
(* Proofs about Transfer: type correctness; what the connections hold      *)
(* while transfers run, and that the operator, the client, the server and  *)
(* mishaps keep it; therefore what is marked sent is at the server, a      *)
(* record is one form, an answer is the transfer's own, nothing is left    *)
(* open, and Transfer implements Submission; for any number of forms,      *)
(* versions, connections and nested transfers.                             *)
(*                                                                         *)
(* The inductive invariant IInv has two parts next to the types.  Sound    *)
(* ties each connection to the frame of the stack that made it: Phase says *)
(* which lines are on their way when the frame is at a point of the        *)
(* program, Shape that they are of one form, or of forms that could not be *)
(* opened.  It holds until descriptor 0 is closed.  Alone says that the    *)
(* only open connection is the one behind sockfd.  It holds until a        *)
(* transfer runs inside another one.                                       *)
(***************************************************************************)
EXTENDS Transfer, SequenceTheorems, TLAPS

\* The points a frame can be at, and what a connection carries back.
Pcs   == Pumping \cup {"next", "answer", "quit"}
Answers == Conns \X {"500", "refused"}

\* The values of conn: TypeOK says of every connection that it is one.
Records == {k \in ConnType : k.srv # "form" => k.name = 0 /\ k.body = <<>>}
Conned  == conn \in [Conns -> Records]

\* What the bounds are.
LEMMA Constants ==
    /\ NForms \in Nat /\ MaxVer \in Nat /\ MaxConn \in Nat
    /\ NForms >= 1 /\ MaxVer >= 1 /\ MaxConn >= 1
    /\ 0 \in 0..NForms /\ 0 \in 0..MaxVer /\ 0 \in 0..MaxConn
    /\ \A f \in Forms : f \in Nat /\ f # 0 /\ f \in 0..NForms
    /\ \A c \in Conns : c \in Nat /\ c # 0 /\ c \in 0..MaxConn
BY TransferAssumption DEF Forms, Conns

\* All that is ever written is a line.
LEMMA Said ==
    /\ \A f \in Forms : Filename(f) \in Lines
    /\ \A w \in Words : Word(w) \in Lines
    /\ \A f \in Forms, v \in 1..MaxVer : Text(f, v) \in Lines
    /\ \A a \in Lines : a.form \in 0..NForms /\ a.ver \in 0..MaxVer
    /\ \A a \in Lines : a.kind = "FILENAME" => a.form \in Forms /\ a = Filename(a.form)
    /\ \A a \in Lines : a.kind = "text" =>
         a = Text(a.form, a.ver) /\ a.form \in Forms /\ a.ver \in 1..MaxVer
    /\ \A a \in Lines : a.kind \notin {"FILENAME", "text"} => a.kind \in Words /\ a = Word(a.kind)
<1>0. \A f \in Forms : f \in 0..NForms
  BY Constants
<1>1. ASSUME NEW a \in Lines
      PROVE  \/ \E f \in Forms : a = Filename(f)
             \/ \E w \in Words : a = Word(w)
             \/ \E f \in Forms, v \in 1..MaxVer : a = Text(f, v)
  BY DEF Lines
<1>2. ASSUME NEW a \in Lines
      PROVE  /\ a.form \in 0..NForms /\ a.ver \in 0..MaxVer
             /\ a.kind = "FILENAME" => a.form \in Forms /\ a = Filename(a.form)
             /\ a.kind = "text" => /\ a = Text(a.form, a.ver)
                                  /\ a.form \in Forms /\ a.ver \in 1..MaxVer
             /\ a.kind \notin {"FILENAME", "text"} => /\ a.kind \in Words
                                                     /\ a = Word(a.kind)
  <2>1. CASE \E f \in Forms : a = Filename(f)
    <3>1. PICK f \in Forms : a = Filename(f)
      BY <2>1
    <3> QED
      BY <1>0, <3>1, Constants DEF Filename
  <2>2. CASE \E w \in Words : a = Word(w)
    <3>1. PICK w \in Words : a = Word(w)
      BY <2>2
    <3>2. a.kind = w /\ a.form = 0 /\ a.ver = 0
      BY <3>1 DEF Word
    <3>3. w \notin {"FILENAME", "text"}
      BY DEF Words
    <3> QED
      BY <3>1, <3>2, <3>3, Constants
  <2>3. CASE \E f \in Forms, v \in 1..MaxVer : a = Text(f, v)
    <3>1. PICK f \in Forms, v \in 1..MaxVer : a = Text(f, v)
      BY <2>3
    <3>2. v \in 0..MaxVer
      BY Constants
    <3> QED
      BY <1>0, <3>1, <3>2 DEF Text
  <2> QED
    BY <1>1, <2>1, <2>2, <2>3
<1>3. /\ \A f \in Forms : Filename(f) \in Lines
      /\ \A w \in Words : Word(w) \in Lines
      /\ \A f \in Forms, v \in 1..MaxVer : Text(f, v) \in Lines
  BY DEF Lines
<1> QED
  BY <1>2, <1>3

\* TypeOK, of the connections alone.
LEMMA TypeOKConned == TypeOK => Conned
BY DEF TypeOK, Conned, Records

\* Closing the client's end leaves a record of a session.
LEMMA ClosedType == ASSUME NEW k \in Records PROVE [k EXCEPT !.open = FALSE] \in Records
BY DEF Records, ConnType

\* Forgetting a record leaves a record.
LEMMA TidyType == ASSUME NEW k \in Records PROVE Tidy(k) \in Records
<1>1. Ended \in Records
  <2>1. <<>> \in Seq(Lines) /\ <<>> \in Seq(Conns \X {"500", "refused"})
    OBVIOUS
  <2>2. Ended \in ConnType
    BY <2>1, Constants DEF Ended, Fresh, ConnType
  <2> QED
    BY <2>2 DEF Ended, Fresh, Records
<1> QED
  BY <1>1 DEF Tidy

\* A session that ends leaves a record.
LEMMA EndType == ASSUME NEW k \in ConnType PROVE End(k) \in Records
<1>1. <<>> \in Seq(Lines)
  OBVIOUS
<1> QED
  BY <1>1, Constants DEF End, Records, ConnType

\* So does an answer,
LEMMA ReplyType ==
    ASSUME NEW k \in Records, NEW c \in Conns, NEW code \in {"500", "refused"}
    PROVE  Replying(k, c, code) \in Records
<1>1. Append(k.s2c, <<c, code>>) \in Seq(Conns \X {"500", "refused"})
  BY DEF Records, ConnType
<1> QED
  BY <1>1 DEF Replying, Records, ConnType

\* a line taken,
LEMMA RestType ==
    ASSUME Conned, NEW c \in Conns, conn[c].c2s # <<>>
    PROVE  Rest(c) \in Records /\ Head(conn[c].c2s) \in Lines
<1>1. conn[c] \in Records /\ conn[c].c2s \in Seq(Lines)
  BY DEF Conned, Records, ConnType
<1>2. Tail(conn[c].c2s) \in Seq(Lines) /\ Head(conn[c].c2s) \in Lines
  BY <1>1
<1> QED
  BY <1>1, <1>2 DEF Rest, Records, ConnType

\* and therefore what a session does.
LEMMA ServeType ==
    ASSUME Conned, NEW c \in Conns, NEW k \in Records, Serve(c, k)
    PROVE  Conned'
BY TidyType DEF Conned, Serve

\* writen leaves records.
LEMMA WriteType ==
    ASSUME Conned, NEW toks \in Seq(Lines), WriteOk(toks)
    PROVE  Conned'
<1>1. CASE Linked /\ conn' = [conn EXCEPT ![Peer].c2s = @ \o toks]
  <2>1. Peer \in Conns /\ conn[Peer] \in Records
    BY <1>1 DEF Linked, Made, Conned
  <2>2. conn[Peer].c2s \o toks \in Seq(Lines)
    BY <2>1 DEF Records, ConnType
  <2>3. [conn[Peer] EXCEPT !.c2s = @ \o toks] \in Records
    BY <2>1, <2>2 DEF Records, ConnType
  <2> QED
    BY <1>1, <2>1, <2>3 DEF Conned
<1>2. CASE conn' = conn
  BY <1>2 DEF Conned
<1> QED
  BY <1>1, <1>2 DEF WriteOk

\* readline leaves records, and what my_read keeps is answers.
LEMMA ReadType ==
    ASSUME Conned, inbuf \in Seq(Answers), NEW a, ReadLine(a)
    PROVE  Conned' /\ inbuf' \in Seq(Answers)
<1>1. CASE inbuf # <<>>
  BY <1>1 DEF ReadLine, Conned
<1>2. CASE inbuf = <<>>
  <2>1. Peer \in Conns /\ conn[Peer] \in Records /\ conn[Peer].s2c # <<>>
    BY <1>2 DEF ReadLine, Linked, Made, Conned
  <2>2. conn[Peer].s2c \in Seq(Answers)
    BY <2>1 DEF Records, ConnType, Answers
  <2>0. <<>> \in Seq(Conns \X {"500", "refused"})
    OBVIOUS
  <2>3. [conn[Peer] EXCEPT !.s2c = <<>>] \in Records
    BY <2>0, <2>1 DEF Records, ConnType
  <2>4. inbuf' = Tail(conn[Peer].s2c) /\ conn' = [conn EXCEPT ![Peer].s2c = <<>>]
    BY <1>2 DEF ReadLine
  <2> QED
    BY <2>1, <2>2, <2>3, <2>4 DEF Conned
<1> QED
  BY <1>1, <1>2

\* close(sockfd) leaves records, and a descriptor 0 that is one of its values.
LEMMA CloseType ==
    ASSUME TypeOK, CloseSocket
    PROVE  Conned' /\ fd0' \in {Stdin, Closed, NewSocket} \cup Conns
           /\ shut' \in BOOLEAN /\ sockfd' = 0
<1>1. CASE Linked
  <2>1. Peer \in Conns /\ conn[Peer] \in Records
    BY <1>1, TypeOKConned DEF Linked, Made, Conned
  <2>2. [conn[Peer] EXCEPT !.open = FALSE] \in Records
    BY <2>1 DEF Records, ConnType
  <2>3. conn' = [conn EXCEPT ![Peer] = Tidy([@ EXCEPT !.open = FALSE])]
    BY <1>1 DEF CloseSocket
  <2>4. Conned'
    BY <2>1, <2>2, <2>3, TidyType, TypeOKConned DEF Conned
  <2> QED
    BY <2>4 DEF CloseSocket, TypeOK
<1>2. CASE ~Linked
  BY <1>2, TypeOKConned DEF CloseSocket, TypeOK, Conned
<1> QED
  BY <1>1, <1>2

-----------------------------------------------------------------------------
(* The stack *)

\* The top frame moves on.
LEMMA GotoStack ==
    ASSUME stack \in Seq(FrameType), stack # <<>>, NEW fr \in FrameType,
           stack' = [stack EXCEPT ![Len(stack)] = fr]
    PROVE  /\ stack' \in Seq(FrameType) /\ Len(stack') = Len(stack)
           /\ \A i \in 1..(Len(stack) - 1) : stack'[i] = stack[i]
           /\ stack'[Len(stack)] = fr
OBVIOUS

\* The top of a stack that is not empty is a frame.
LEMMA TopFrame ==
    ASSUME stack \in Seq(FrameType), stack # <<>>
    PROVE  Top \in FrameType /\ Len(stack) \in 1..Len(stack) /\ Len(stack) \in Nat
BY DEF Top

\* Moving on keeps the stack a stack of frames,
LEMMA GotoFrame ==
    ASSUME stack \in Seq(FrameType), stack # <<>>, NEW p \in Pcs, Goto(p),
           p \in {"form", "answer"} => Top.dir \in Forms
    PROVE  /\ stack' = [stack EXCEPT ![Len(stack)] = [Top EXCEPT !.pc = p]]
           /\ [Top EXCEPT !.pc = p] \in FrameType
           /\ stack' \in Seq(FrameType) /\ Len(stack') = Len(stack)
           /\ \A i \in 1..(Len(stack) - 1) : stack'[i] = stack[i]
           /\ stack'[Len(stack)] = [Top EXCEPT !.pc = p]
<1>1. Top \in FrameType
  BY TopFrame
<1>2. [Top EXCEPT !.pc = p] \in FrameType
  BY <1>1 DEF FrameType, Pcs
<1>3. stack' = [stack EXCEPT ![Len(stack)] = [Top EXCEPT !.pc = p]]
  BY DEF Goto, Top
<1> QED
  BY <1>2, <1>3, GotoStack

\* and so does returning,
LEMMA ReturnStack ==
    ASSUME stack \in Seq(FrameType), stack # <<>>, Return
    PROVE  /\ stack' \in Seq(FrameType) /\ Len(stack') = Len(stack) - 1
           /\ \A i \in 1..(Len(stack) - 1) : stack'[i] = stack[i]
<1> DEFINE n == Len(stack)
<1>1. n \in Nat /\ n >= 1 /\ stack' = SubSeq(stack, 1, n - 1)
  BY DEF Return
<1> HIDE DEF n
<1>2. \A i \in 1..(n - 1) : stack[i] \in FrameType
  BY <1>1 DEF n
<1>3. 1 \in Int /\ n - 1 \in Int
  BY <1>1
<1>4. /\ SubSeq(stack, 1, n - 1) \in Seq(FrameType)
      /\ Len(SubSeq(stack, 1, n - 1)) = IF 1 <= n - 1 THEN n - 1 - 1 + 1 ELSE 0
      /\ \A i \in 1..(n - 1 - 1 + 1) : SubSeq(stack, 1, n - 1)[i] = stack[1 + i - 1]
  BY ONLY <1>2, <1>3, SubSeqProperties
<1>5. (IF 1 <= n - 1 THEN n - 1 - 1 + 1 ELSE 0) = n - 1 /\ n - 1 - 1 + 1 = n - 1
  BY <1>1
<1>6. \A i \in 1..(n - 1) : 1 + i - 1 = i
  OBVIOUS
<1> QED
  BY <1>1, <1>4, <1>5, <1>6 DEF n

\* and so does a transfer inside another one.
LEMMA PushStack ==
    ASSUME stack \in Seq(FrameType), NEW p \in {"pass_ok", "resolve"},
           stack' = Append(stack, Frame(p))
    PROVE  /\ stack' \in Seq(FrameType) /\ Len(stack') = Len(stack) + 1
           /\ \A i \in 1..Len(stack) : stack'[i] = stack[i]
           /\ stack'[Len(stack) + 1] = Frame(p)
           /\ Frame(p) \in FrameType
<1>1. Frame(p) \in FrameType
  BY Constants DEF Frame, FrameType, Pumping
<1> QED
  BY <1>1

\* TypeOK, with the connections as records.
LEMMA Types ==
    TypeOK <=> /\ scene \in Scenes
               /\ file \in [Forms -> [ver : 1..MaxVer, sent : BOOLEAN]]
               /\ db \in [Forms -> Seq(Lines)]
               /\ Conned
               /\ stack \in Seq(FrameType)
               /\ sockfd \in -1..MaxConn
               /\ fd0 \in {Stdin, Closed, NewSocket} \cup Conns
               /\ inbuf \in Seq(Answers)
               /\ pass \in {"", "good", "bad"}
               /\ asking \in BOOLEAN /\ cancelled \in BOOLEAN
               /\ nested \in BOOLEAN /\ shut \in BOOLEAN /\ strange \in BOOLEAN
               /\ window \in [shown : BOOLEAN, button : {"cancel", "ok"}]
               /\ mishap \in [Forms -> SUBSET {"open", "late"}]
BY DEF TypeOK, Conned, Records, Answers

-----------------------------------------------------------------------------
(* Types *)

\* TypeOK after a step, from the types of what the step assigns.
LEMMA TypesAfter ==
    TypeOK' <=> /\ scene' \in Scenes
               /\ file' \in [Forms -> [ver : 1..MaxVer, sent : BOOLEAN]]
               /\ db' \in [Forms -> Seq(Lines)]
               /\ Conned'
               /\ stack' \in Seq(FrameType)
               /\ sockfd' \in -1..MaxConn
               /\ fd0' \in {Stdin, Closed, NewSocket} \cup Conns
               /\ inbuf' \in Seq(Answers)
               /\ pass' \in {"", "good", "bad"}
               /\ asking' \in BOOLEAN /\ cancelled' \in BOOLEAN
               /\ nested' \in BOOLEAN /\ shut' \in BOOLEAN /\ strange' \in BOOLEAN
               /\ window' \in [shown : BOOLEAN, button : {"cancel", "ok"}]
               /\ mishap' \in [Forms -> SUBSET {"open", "late"}]
BY DEF TypeOK, Conned, Records, Answers

\* The bounds of the scene are within those of the model.
LEMMA ScenesBound ==
    ASSUME TypeOK
    PROVE  scene.vers \in 1..MaxVer /\ scene.conns \in 1..MaxConn
BY TransferAssumption, Types

\* The program starts well typed.
LEMMA InitType == Init => TypeOK
<1> SUFFICES ASSUME Init PROVE TypeOK
  OBVIOUS
<1>1. <<>> \in Seq(Lines) /\ <<>> \in Seq(Answers) /\ <<>> \in Seq(FrameType)
  OBVIOUS
<1>2. Unmade \in Records
  BY <1>1, Constants DEF Unmade, Fresh, Records, ConnType, Answers
<1>3. 1 \in 1..MaxVer /\ 0 \in -1..MaxConn
  BY Constants
<1> QED
  BY <1>1, <1>2, <1>3, Types DEF Init, Conned, Nothing

\* The operator keeps the types,
LEMMA OperatorType ==
    ASSUME TypeOK, UNCHANGED scene, Operator
    PROVE  TypeOK'
<1> USE DEF net, disk, user, hist
<1>1. ASSUME NEW p \in {"pass_ok", "resolve"}, Enter(p)
      PROVE  stack' \in Seq(FrameType) /\ nested' \in BOOLEAN
  BY <1>1, Types, PushStack DEF Enter
<1>2. CASE editor_send_clicked
  <2>1. stack' \in Seq(FrameType) /\ nested' \in BOOLEAN
    BY <1>1, <1>2, Types DEF editor_send_clicked
  <2>2. Begin \/ ask_pass
    BY <1>2 DEF editor_send_clicked
  <2>3. /\ pass' \in {"", "good", "bad"} /\ asking' \in BOOLEAN /\ cancelled' \in BOOLEAN
        /\ window' \in [shown : BOOLEAN, button : {"cancel", "ok"}]
    BY <2>2, Types DEF Begin, ask_pass
  <2> QED
    BY <1>2, <2>1, <2>3, Types, TypesAfter DEF editor_send_clicked, Conned
<1>3. CASE pass_ok_clicked
  BY <1>1, <1>3, Types, TypesAfter DEF pass_ok_clicked, Conned
<1>4. CASE pass_cancel_clicked
  BY <1>4, Types, TypesAfter DEF pass_cancel_clicked, Conned
<1>5. CASE on_online_cancel_clicked
  BY <1>5, Types, TypesAfter DEF on_online_cancel_clicked, Conned
<1>6. CASE on_online_ok_clicked
  BY <1>6, Types, TypesAfter DEF on_online_ok_clicked, Conned
<1>7. ASSUME NEW f \in Forms, Save(f)
      PROVE  TypeOK'
  <2>1. /\ file[f].ver \in 1..MaxVer /\ file[f].ver < scene.vers
        /\ scene.vers \in 1..MaxVer /\ MaxVer \in Nat
    BY <1>7, Types, ScenesBound, Constants DEF Save
  <2>0. file[f].ver + 1 \in 1..MaxVer
    BY <2>1
  <2>2. file' \in [Forms -> [ver : 1..MaxVer, sent : BOOLEAN]]
    BY <1>7, <2>0, Types DEF Save
  <2> QED
    BY <1>7, <2>2, Types, TypesAfter DEF Save, Conned
<1> QED
  BY <1>2, <1>3, <1>4, <1>5, <1>6, <1>7 DEF Operator

\* the sessions keep them,
LEMMA ServerType ==
    ASSUME TypeOK, UNCHANGED scene, NEW c \in Conns, Server(c)
    PROVE  TypeOK'
<1> USE DEF net, disk, user, hist
<1>1. Conned
  BY TypeOKConned
<1>2. ASSUME NEW k \in Records, Serve(c, k),
             UNCHANGED <<disk, sockfd, fd0, inbuf, user, stack, hist>>
      PROVE  TypeOK'
  BY <1>1, <1>2, ServeType, Types, TypesAfter
<1>3. ASSUME NEW p, Takes(c, p)
      PROVE  /\ Rest(c) \in Records /\ Head(conn[c].c2s) \in Lines
             /\ Rest(c).srv = p /\ conn[c].c2s # <<>> /\ conn[c] \in Records
  <2>1. Rest(c) \in Records /\ Head(conn[c].c2s) \in Lines
    BY <1>1, <1>3, RestType DEF Takes
  <2>2. conn[c].srv = p /\ conn[c].c2s # <<>> /\ conn[c] \in Records
    BY <1>1, <1>3 DEF Takes, Conned
  <2>3. Rest(c).srv = conn[c].srv
    BY <2>2 DEF Rest, Records, ConnType
  <2> QED
    BY <2>1, <2>2, <2>3
<1>4. ASSUME NEW k \in Records PROVE k \in ConnType /\ End(k) \in Records
  BY EndType DEF Records
<1>5. CASE ServerLogin(c)
  <2>1. ASSUME NEW p, NEW q \in {"user", "pass", "cmd"}, NEW w, p # "form",
               Takes(c, p),
               IF Head(conn[c].c2s) = Word(w)
               THEN Serve(c, Replying([Rest(c) EXCEPT !.srv = q], c, "500"))
               ELSE IF p = "pass" /\ Head(conn[c].c2s) = Word("bad")
               THEN Serve(c, End(Replying(Rest(c), c, "refused")))
               ELSE Serve(c, End(Rest(c)))
        PROVE  \E k \in Records : Serve(c, k)
    <3>1. Rest(c) \in Records /\ Rest(c).srv = p
      BY <2>1, <1>3
    <3>2. [Rest(c) EXCEPT !.srv = q] \in Records
      BY <2>1, <3>1 DEF Records, ConnType
    <3>3. Replying([Rest(c) EXCEPT !.srv = q], c, "500") \in Records
      BY <3>2, ReplyType
    <3>4. End(Replying(Rest(c), c, "refused")) \in Records /\ End(Rest(c)) \in Records
      BY <3>1, ReplyType, <1>4
    <3> QED
      BY <2>1, <3>3, <3>4
  <2>2. \E k \in Records : Serve(c, k)
    BY <1>5, <2>1 DEF ServerLogin
  <2> QED
    BY <1>2, <1>5, <2>2 DEF ServerLogin
<1>6. CASE ServerRefuses(c)
  <2>1. Rest(c) \in Records
    BY <1>3, <1>6 DEF ServerRefuses
  <2>2. End(Replying(Rest(c), c, "refused")) \in Records
    BY <2>1, <1>4, ReplyType
  <2> QED
    BY <1>2, <1>6, <2>2 DEF ServerRefuses
<1>7. CASE ServerCommand(c)
  <2> DEFINE said == Head(conn[c].c2s)
  <2>1. Rest(c) \in Records /\ said \in Lines
    BY <1>3, <1>7 DEF ServerCommand
  <2>2. [Rest(c) EXCEPT !.srv = "form", !.name = said.form] \in Records
    BY <2>1, Said DEF Records, ConnType
  <2>3. End(Rest(c)) \in Records
    BY <2>1, <1>4
  <2>4. \E k \in Records : Serve(c, k)
    BY <1>7, <2>2, <2>3 DEF ServerCommand
  <2> QED
    BY <1>2, <1>7, <2>4 DEF ServerCommand
<1>8. CASE ServerLine(c)
  <2> DEFINE said == Head(conn[c].c2s)
  <2>1. Rest(c) \in Records /\ said \in Lines /\ Rest(c).srv = "form"
    BY <1>3, <1>8 DEF ServerLine
  <2>2. Append(Rest(c).body, said) \in Seq(Lines)
    BY <2>1 DEF Records, ConnType
  <2>3. [Rest(c) EXCEPT !.body = Append(@, said)] \in Records
    BY <2>1, <2>2 DEF Records, ConnType
  <2> QED
    BY <1>2, <1>8, <2>3 DEF ServerLine
<1>9. CASE ServerStores(c)
  <2> DEFINE k == [Rest(c) EXCEPT !.srv = "cmd", !.name = 0, !.body = <<>>]
  <2>1. Rest(c) \in Records /\ conn[c] \in Records
    BY <1>3, <1>9 DEF ServerStores
  <2>2. <<>> \in Seq(Lines)
    OBVIOUS
  <2>3. k \in Records
    BY <2>1, <2>2, Constants DEF Records, ConnType
  <2>4. Replying(k, c, "500") \in Records
    BY <2>3, ReplyType
  <2>5. Conned'
    BY <1>1, <1>9, <2>4, ServeType DEF ServerStores
  <2>6. db' \in [Forms -> Seq(Lines)]
    BY <1>9, <2>1, Types DEF ServerStores, Records, ConnType
  <2>7. mishap' \in [Forms -> SUBSET {"open", "late"}]
    BY <1>9, Types DEF ServerStores, Blame
  <2> QED
    BY <1>9, <2>5, <2>6, <2>7, Types, TypesAfter DEF ServerStores
<1>10. CASE ServerAbandons(c)
  <2>1. End(Rest(c)) \in Records
    BY <1>3, <1>4, <1>10 DEF ServerAbandons
  <2> QED
    BY <1>2, <1>10, <2>1 DEF ServerAbandons
<1>11. CASE ServerHangUp(c)
  <2>1. End(conn[c]) \in Records
    BY <1>1, <1>4 DEF Conned
  <2> QED
    BY <1>2, <1>11, <2>1 DEF ServerHangUp
<1> QED
  BY <1>5, <1>6, <1>7, <1>8, <1>9, <1>10, <1>11 DEF Server

\* mishaps keep them,
LEMMA MishapsType ==
    ASSUME TypeOK, UNCHANGED scene, Mishaps
    PROVE  TypeOK'
<1> USE DEF net, disk, user, hist
<1>1. Conned
  BY TypeOKConned
<1>2. CASE Crash
  <2>1. <<>> \in Seq(Lines) /\ <<>> \in Seq(Answers) /\ <<>> \in Seq(FrameType)
    OBVIOUS
  <2>2. Unmade \in Records
    BY <2>1, Constants DEF Unmade, Fresh, Records, ConnType, Answers
  <2>3. \A c \in Conns : [conn[c] EXCEPT !.open = FALSE] \in Records
    <3>1. \A c \in Conns : conn[c] \in Records
      BY <1>1 DEF Conned
    <3> QED
      BY ONLY <3>1, ClosedType
  <2>4. \A c \in Conns : Tidy([conn[c] EXCEPT !.open = FALSE]) \in Records
    <3> TAKE c \in Conns
    <3> DEFINE k == [conn[c] EXCEPT !.open = FALSE]
    <3>2. k \in Records
      BY <2>3
    <3> HIDE DEF k
    <3>3. Tidy(k) \in Records
      BY ONLY <3>2, TidyType
    <3> QED
      BY <3>3 DEF k
  <2>5. Conned'
    BY <1>2, <2>2, <2>4 DEF Crash, Conned
  <2>6. 0 \in -1..MaxConn
    BY Constants
  <2> QED
    BY <1>2, <2>1, <2>5, <2>6, Types, TypesAfter DEF Crash
<1>3. ASSUME NEW c \in Conns, Cut(c)
      PROVE  TypeOK'
  <2>1. PICK n \in 0..Len(conn[c].c2s) :
          Serve(c, [conn[c] EXCEPT !.link = "cut", !.s2c = <<>>,
                                   !.c2s = SubSeq(@, 1, n)])
    BY <1>3 DEF Cut
  <2>2. conn[c] \in Records /\ conn[c].c2s \in Seq(Lines)
    BY <1>1 DEF Conned, Records, ConnType
  <2>3. SubSeq(conn[c].c2s, 1, n) \in Seq(Lines)
    BY <2>2
  <2>4. <<>> \in Seq(Conns \X {"500", "refused"})
    OBVIOUS
  <2>5. [conn[c] EXCEPT !.link = "cut", !.s2c = <<>>,
                        !.c2s = SubSeq(@, 1, n)] \in Records
    BY <2>2, <2>3, <2>4 DEF Records, ConnType
  <2>6. Conned'
    BY <1>1, <2>1, <2>5, ServeType
  <2> QED
    BY <1>3, <2>6, Types, TypesAfter DEF Cut
<1>4. ASSUME NEW c \in Conns, Silence(c)
      PROVE  TypeOK'
  <2>1. conn[c] \in Records
    BY <1>1 DEF Conned
  <2>2. [conn[c] EXCEPT !.link = "silence"] \in Records
    BY <2>1 DEF Records, ConnType
  <2>3. Conned'
    BY <1>1, <1>4, <2>2 DEF Silence, Conned
  <2> QED
    BY <1>4, <2>3, Types, TypesAfter DEF Silence
<1> QED
  BY <1>2, <1>3, <1>4 DEF Mishaps

\* authenticate keeps them,
LEMMA LoginType ==
    ASSUME TypeOK, UNCHANGED scene, authenticate
    PROVE  TypeOK'
<1> USE DEF net, disk, user, hist
<1>1. ASSUME NEW p, NEW q \in Pcs \ {"form", "answer"}, NEW w \in Words, Say(p, q, w)
      PROVE  TypeOK'
  <2>1. <<Word(w)>> \in Seq(Lines)
    BY Said
  <2>2. stack' \in Seq(FrameType)
    BY <1>1, Types, GotoFrame DEF Say, Running, Pcs, Pumping
  <2>3. Conned'
    BY <1>1, <2>1, Types, WriteType DEF Say, WriteFails, Conned
  <2> QED
    BY <1>1, <2>2, <2>3, Types, TypesAfter DEF Say
<1>2. ASSUME NEW p, NEW q \in Pcs \ {"form", "answer"}, NEW code, Hear(p, q, code)
      PROVE  TypeOK'
  <2>1. stack' \in Seq(FrameType)
    BY <1>2, Types, GotoFrame DEF Hear, Running, Pcs, Pumping
  <2>2. Conned' /\ inbuf' \in Seq(Answers) /\ strange' \in BOOLEAN
    <3>1. CASE \E a \in Conns \X {"500", "refused"} :
                   ReadLine(a) /\ strange' = (strange \/ a[1] # Top.own)
      BY <3>1, Types, ReadType
    <3>2. CASE ReadFails /\ UNCHANGED strange
      BY <3>2, Types DEF ReadFails, Conned
    <3> QED
      BY <1>2, <3>1, <3>2 DEF Hear
  <2> QED
    BY <1>2, <2>1, <2>2, Types, TypesAfter DEF Hear
<1>3. CASE StartLogin
  <2>1. stack' \in Seq(FrameType)
    BY <1>3, Types, GotoFrame DEF StartLogin, Running, Pcs, Pumping
  <2> QED
    BY <1>3, <2>1, Types, TypesAfter DEF StartLogin, Conned
<1>4. pass \in Words /\ "MAGIC" \in Words /\ "USER" \in Words
  BY Types DEF Words
<1>5. {"magic?", "user?", "pass?", "user", "pass", "passed"} \subseteq Pcs \ {"form", "answer"}
  BY DEF Pcs, Pumping
<1> QED
  BY <1>1, <1>2, <1>3, <1>4, <1>5 DEF authenticate

\* the making of the connection keeps them,
LEMMA ConnectType ==
    ASSUME TypeOK, UNCHANGED scene,
           BeginAfterPass \/ Socket \/ ConnectFails \/ Connect \/ GiveUp \/ LoginFails
    PROVE  TypeOK'
<1> USE DEF net, disk, user, hist
<1>1. ASSUME NEW p \in Pcs \ {"form", "answer"}, stack # <<>>, Goto(p)
      PROVE  stack' \in Seq(FrameType)
  BY <1>1, Types, GotoFrame
<1>2. ASSUME NEW p, Running(p), Return
      PROVE  stack' \in Seq(FrameType)
  BY <1>2, Types, ReturnStack DEF Running
<1>3. CASE BeginAfterPass
  <2>1. stack' \in Seq(FrameType)
    BY <1>1, <1>2, <1>3 DEF BeginAfterPass, Running, Pcs, Pumping
  <2>2. Begin \/ ask_pass
    BY <1>3 DEF BeginAfterPass
  <2>3. /\ pass' \in {"", "good", "bad"} /\ asking' \in BOOLEAN /\ cancelled' \in BOOLEAN
        /\ window' \in [shown : BOOLEAN, button : {"cancel", "ok"}]
    BY <2>2, Types DEF Begin, ask_pass
  <2> QED
    BY <1>3, <2>1, <2>3, Types, TypesAfter DEF BeginAfterPass, Conned
<1>4. CASE Socket
  <2> DEFINE fr == [Top EXCEPT !.pc = "connect", !.zero = (fd0 = Closed)]
  <2>1. Top \in FrameType /\ stack # <<>>
    BY <1>4, Types, TopFrame DEF Socket, Running
  <2>2. fr \in FrameType
    BY <2>1 DEF FrameType, Pumping
  <2>3. stack' = [stack EXCEPT ![Len(stack)] = fr]
    BY <1>4 DEF Socket, Top
  <2>4. stack' \in Seq(FrameType)
    BY <2>1, <2>2, <2>3, Types, GotoStack
  <2> QED
    BY <1>4, <2>4, Types, TypesAfter DEF Socket, Conned
<1>5. CASE ConnectFails
  <2>1. stack' \in Seq(FrameType)
    BY <1>1, <1>5 DEF ConnectFails, Running, Pcs, Pumping
  <2>2. -1 \in -1..MaxConn
    BY Constants
  <2> QED
    BY <1>5, <2>1, <2>2, Types, TypesAfter DEF ConnectFails, Conned
<1>6. CASE Connect
  <2>1. PICK c \in Conns \ Made :
          /\ stack' = [stack EXCEPT ![Len(stack)] =
                          [@ EXCEPT !.pc = "connected", !.own = c]]
          /\ conn' = [conn EXCEPT ![c] = Fresh]
          /\ sockfd' = IF Top.zero THEN 0 ELSE c
          /\ fd0' = IF Top.zero THEN c ELSE fd0
    BY <1>6 DEF Connect
  <2> DEFINE fr == [Top EXCEPT !.pc = "connected", !.own = c]
  <2>2. Top \in FrameType /\ stack # <<>>
    BY <1>6, Types, TopFrame DEF Connect, Running
  <2>3. fr \in FrameType
    BY <2>2, Constants DEF FrameType, Pumping
  <2>4. stack' = [stack EXCEPT ![Len(stack)] = fr]
    BY <2>1 DEF Top
  <2>5. stack' \in Seq(FrameType)
    BY <2>2, <2>3, <2>4, Types, GotoStack
  <2>6. <<>> \in Seq(Lines) /\ <<>> \in Seq(Conns \X {"500", "refused"})
    OBVIOUS
  <2>7. Fresh \in Records
    BY <2>6, Constants DEF Fresh, Records, ConnType
  <2>8. Conned'
    BY <2>1, <2>7, Types DEF Conned
  <2>9. c \in -1..MaxConn /\ 0 \in -1..MaxConn
    BY Constants DEF Conns
  <2> QED
    BY <1>6, <2>1, <2>5, <2>8, <2>9, Types, TypesAfter DEF Connect
<1>7. CASE GiveUp
  BY <1>2, <1>7, Types, TypesAfter DEF GiveUp, Conned
<1>8. CASE LoginFails
  <2>1. 0 \in -1..MaxConn
    BY Constants
  <2> QED
    BY <1>2, <1>8, <2>1, Types, TypesAfter, CloseType DEF LoginFails
<1> QED
  BY <1>3, <1>4, <1>5, <1>6, <1>7, <1>8

\* and the sending of the forms does.
LEMMA FormsType ==
    ASSUME TypeOK, UNCHANGED scene,
           \/ OpenDir \/ OpenDirFails \/ SkipFile \/ NoMoreForms
           \/ SendFilename \/ SendFilenameFails \/ FormNotOpened \/ FormCancelled
           \/ SendForm \/ FormAnswered \/ FormNotAnswered \/ Quit
    PROVE  TypeOK'
<1> USE DEF net, disk, user, hist
<1>1. ASSUME NEW p \in Pcs, stack # <<>>, Goto(p),
             p \in {"form", "answer"} => Top.dir \in Forms
      PROVE  stack' \in Seq(FrameType)
  BY <1>1, Types, GotoFrame
<1>2. ASSUME NEW p, Running(p), Return
      PROVE  stack' \in Seq(FrameType)
  BY <1>2, Types, ReturnStack DEF Running
<1>3. ASSUME NEW p \in Pcs \ {"form", "answer"}, stack # <<>>, Goto(p),
             UNCHANGED <<disk, net, user, hist>>
      PROVE  TypeOK'
  BY <1>1, <1>3, Types, TypesAfter DEF Conned
<1>0. {"next", "quit"} \subseteq Pcs \ {"form", "answer"} /\ "answer" \in Pcs
  BY DEF Pcs, Pumping
<1>4. CASE OpenDir
  BY <1>0, <1>3, <1>4 DEF OpenDir, Running
<1>14. CASE OpenDirFails
  <2>1. stack' \in Seq(FrameType)
    BY <1>0, <1>1, <1>14 DEF OpenDirFails, Running
  <2>2. window' \in [shown : BOOLEAN, button : {"cancel", "ok"}]
    BY <1>14, Types DEF OpenDirFails
  <2> QED
    BY <1>14, <2>1, <2>2, Types, TypesAfter DEF OpenDirFails, Conned
<1>15. CASE SkipFile
  <2>1. PICK f \in Forms : stack' = [stack EXCEPT ![Len(stack)].dir = f]
    BY <1>15 DEF SkipFile
  <2>2. Top \in FrameType /\ stack # <<>> /\ Top.pc = "next"
    BY <1>15, Types, TopFrame DEF SkipFile, Running
  <2>3. [Top EXCEPT !.dir = f] \in FrameType
    BY <2>2, Constants DEF FrameType
  <2>4. stack' = [stack EXCEPT ![Len(stack)] = [Top EXCEPT !.dir = f]]
    BY <2>1 DEF Top
  <2>5. stack' \in Seq(FrameType)
    BY <2>2, <2>3, <2>4, Types, GotoStack
  <2> QED
    BY <1>15, <2>5, Types, TypesAfter DEF SkipFile, Conned
<1>5. CASE NoMoreForms
  BY <1>0, <1>3, <1>5 DEF NoMoreForms, Running
<1>6. CASE FormCancelled
  BY <1>0, <1>3, <1>6 DEF FormCancelled, Running
<1>7. CASE FormNotAnswered
  <2>1. UNCHANGED <<conn, inbuf>>
    BY <1>7 DEF FormNotAnswered, ReadFails
  <2> QED
    BY <1>0, <1>3, <1>7, <2>1 DEF FormNotAnswered, Running
<1>8. CASE SendFilename
  <2>0. PICK f \in Forms :
          /\ WriteOk(<<Filename(f)>>)
          /\ stack' = [stack EXCEPT ![Len(stack)] =
                          [@ EXCEPT !.pc = IF cancelled THEN "quit" ELSE "form",
                                    !.dir = f]]
    BY <1>8 DEF SendFilename
  <2> DEFINE fr == [Top EXCEPT !.pc = IF cancelled THEN "quit" ELSE "form",
                               !.dir = f]
  <2>1. Top \in FrameType /\ stack # <<>>
    BY <1>8, Types, TopFrame DEF SendFilename, Running
  <2>2. f \in 0..NForms
    BY Constants
  <2>3. fr \in FrameType
    BY <2>1, <2>2 DEF FrameType, Pumping
  <2>4. stack' = [stack EXCEPT ![Len(stack)] = fr]
    BY <2>0 DEF Top
  <2>5. stack' \in Seq(FrameType)
    BY <2>1, <2>3, <2>4, Types, GotoStack
  <2>6. <<Filename(f)>> \in Seq(Lines)
    BY Said
  <2>7. Conned'
    BY <2>0, <2>6, Types, WriteType
  <2> QED
    BY <1>8, <2>5, <2>7, Types, TypesAfter DEF SendFilename
<1>9. CASE SendFilenameFails
  <2>1. 0 \in -1..MaxConn
    BY Constants
  <2>2. stack' \in Seq(FrameType)
    BY <1>2, <1>9 DEF SendFilenameFails, Finish
  <2>3. window' \in [shown : BOOLEAN, button : {"cancel", "ok"}]
    BY <1>9, Types DEF SendFilenameFails, Finish
  <2>4. Conned' /\ fd0' \in {Stdin, Closed, NewSocket} \cup Conns
        /\ shut' \in BOOLEAN /\ sockfd' = 0
    BY <1>9, CloseType DEF SendFilenameFails
  <2> QED
    BY <1>9, <2>1, <2>2, <2>3, <2>4, Types, TypesAfter DEF SendFilenameFails, Finish
<1>10. CASE FormNotOpened
  <2>1. mishap' \in [Forms -> SUBSET {"open", "late"}]
    BY <1>10, Types DEF FormNotOpened, Blame
  <2>2. stack' \in Seq(FrameType)
    BY <1>0, <1>1, <1>10 DEF FormNotOpened, Running
  <2> QED
    BY <1>10, <2>1, <2>2, Types, TypesAfter DEF FormNotOpened, Conned
<1>11. CASE SendForm
  <2>1. Top \in FrameType /\ stack # <<>> /\ Top.dir \in Forms
    BY <1>11, Types, TopFrame DEF SendForm, Running, FrameType
  <2>2. stack' \in Seq(FrameType)
    BY <1>0, <1>1, <2>1, <1>11 DEF SendForm
  <2>3. <<Text(Top.dir, file[Top.dir].ver), Word(".")>> \in Seq(Lines)
    <3>1. Text(Top.dir, file[Top.dir].ver) \in Lines /\ Word(".") \in Lines
      BY <2>1, Types, Said DEF Words
    <3> QED
      BY <3>1
  <2>4. Conned'
    BY <1>11, <2>3, Types, WriteType DEF SendForm, WriteFails, Conned
  <2> QED
    BY <1>11, <2>2, <2>4, Types, TypesAfter DEF SendForm
<1>12. CASE FormAnswered
  <2>1. Top \in FrameType /\ stack # <<>> /\ Top.dir \in Forms
    BY <1>12, Types, TopFrame DEF FormAnswered, Running, FrameType
  <2>2. stack' \in Seq(FrameType)
    BY <1>0, <1>1, <2>1, <1>12 DEF FormAnswered
  <2>3. PICK a \in Conns \X {"500", "refused"} :
          /\ ReadLine(a)
          /\ strange' = (strange \/ a[1] # Top.own)
          /\ \/ a[2] = "500" /\ file' = [file EXCEPT ![Top.dir].sent = TRUE]
             \/ (a[2] # "500" \/ "reopen" \in scene.faults) /\ UNCHANGED file
    BY <1>12 DEF FormAnswered
  <2>4. Conned' /\ inbuf' \in Seq(Answers) /\ strange' \in BOOLEAN
    BY <2>3, Types, ReadType
  <2>5. file' \in [Forms -> [ver : 1..MaxVer, sent : BOOLEAN]]
    <3>1. /\ [file[Top.dir] EXCEPT !.sent = TRUE] \in [ver : 1..MaxVer, sent : BOOLEAN]
          /\ file \in [Forms -> [ver : 1..MaxVer, sent : BOOLEAN]]
      BY <2>1, Types
    <3>2. CASE file' = [file EXCEPT ![Top.dir].sent = TRUE]
      <4>1. file' = [file EXCEPT ![Top.dir] = [file[Top.dir] EXCEPT !.sent = TRUE]]
        BY <3>2, SMTT(30)
      <4> QED
        BY ONLY <3>1, <4>1
    <3>3. CASE UNCHANGED file
      BY <3>1, <3>3
    <3> QED
      BY <2>3, <3>2, <3>3
  <2> QED
    BY <1>12, <2>2, <2>4, <2>5, Types, TypesAfter DEF FormAnswered
<1>13. CASE Quit
  <2>1. stack' \in Seq(FrameType)
    BY <1>2, <1>13 DEF Quit, Finish
  <2>2. window' \in [shown : BOOLEAN, button : {"cancel", "ok"}]
    BY <1>13, Types DEF Quit, Finish
  <2>3. CASE sockfd > 0
    <3> DEFINE k == Dismissed(conn[sockfd])
    <3>0. sockfd \in Conns
      <4>1. sockfd \in -1..MaxConn
        BY Types
      <4> QED
        BY <2>3, <4>1, Constants DEF Conns
    <3>1. conn[sockfd] \in Records /\ conn[sockfd].c2s \in Seq(Lines)
      BY <3>0, Types DEF Conned, Records, ConnType
    <3>2. Append(conn[sockfd].c2s, Word("QUIT")) \in Seq(Lines)
      <4>1. Word("QUIT") \in Lines
        BY Said DEF Words
      <4> QED
        BY <3>1, <4>1
    <3>3. k \in Records
      BY <3>1, <3>2 DEF Dismissed, Records, ConnType
    <3>4. conn' = [conn EXCEPT ![sockfd] = Tidy(k)] /\ sockfd' = 0
      BY <1>13, <2>3 DEF Quit
    <3> HIDE DEF k
    <3>5. Conned'
      BY <3>0, <3>3, <3>4, Types, TidyType DEF Conned
    <3>6. 0 \in -1..MaxConn
      BY Constants
    <3> QED
      BY <1>13, <2>1, <2>2, <3>4, <3>5, <3>6, Types, TypesAfter DEF Quit, Finish
  <2>4. CASE ~(sockfd > 0)
    BY <1>13, <2>1, <2>2, <2>4, Types, TypesAfter DEF Quit, Finish, Conned
  <2> QED
    BY <2>3, <2>4
<1> QED
  BY <1>4, <1>5, <1>6, <1>7, <1>8, <1>9, <1>10, <1>11, <1>12, <1>13,
     <1>14, <1>15

\* Every step keeps the types.
LEMMA StepType ==
    ASSUME TypeOK, [Next]_<<scene, vars>>
    PROVE  TypeOK'
<1>1. CASE Next
  <2>1. CASE Client
    BY <1>1, <2>1, LoginType, ConnectType, FormsType DEF Next, Client
  <2> QED
    BY <1>1, <2>1, OperatorType, MishapsType, ServerType DEF Next
<1>2. CASE UNCHANGED <<scene, vars>>
  BY <1>2, Types, TypesAfter DEF vars, disk, net, user, hist, Conned
<1> QED
  BY <1>1, <1>2

\* Type correctness: every connection, frame and global of the transfers has its
\* type, whatever the operator does and whatever breaks.
THEOREM TypeCorrect == Spec => []TypeOK
BY InitType, StepType, PTL DEF Spec

-----------------------------------------------------------------------------
(* What the connections hold *)

\* Where a transfer is: before it has a connection of its own, in the login, and
\* in the sending of the forms.
Early   == {"pass_ok", "resolve", "connect"}
Login   == {"magic", "user", "pass"}
Asking  == {"connected", "magic", "user", "pass", "passed"}
Waiting == {"magic?", "user?", "pass?"}
Sending == {"next", "form", "answer", "quit"}

\* The lines that a session has before it: those of the form it is in, from its
\* FILENAME on, and those that it has not taken yet.
Offset(k)  == IF k.srv = "form" THEN 1 + Len(k.body) ELSE 0
Total(k)   == Offset(k) + Len(k.c2s)
Line(k, n) == IF n > Offset(k) THEN k.c2s[n - Offset(k)]
              ELSE IF n = 1 THEN Filename(k.name) ELSE k.body[n - 1]
Names(k, n) == Total(k) >= n /\ Line(k, n).kind = "FILENAME"

\* The two ends of k can still talk; no end of a form is before the session.
Live(k)  == k.link = "up" /\ k.srv # "ended"
NoDot(k) == \A i \in 1..Len(k.c2s) : k.c2s[i].kind # "."

\* What the lines are compared with.
World == [file |-> file, db |-> db, mishap |-> mishap, cancelled |-> cancelled]

\* Form f was passed over because its file could not be opened.
Unopened(f, w) == f \in Forms /\ "open" \in w.mishap[f]

\* Nothing else than one form, or a FILENAME or two, or a word of the login.
Regular(k, w) ==
    /\ Total(k) <= 3
    /\ Total(k) >= 1 => /\ Line(k, 1).kind \notin {"text", "."}
                        /\ Names(k, 1) => Line(k, 1).form \in Forms
    /\ Total(k) >= 2 =>
        /\ Names(k, 1)
        /\ \/ Line(k, 2).kind = "QUIT" /\ Total(k) = 2
           \/ Names(k, 2) /\ (Total(k) = 3 => Line(k, 3).kind = "QUIT")
           \/ /\ \E v \in 1..w.file[Line(k, 1).form].ver :
                    Line(k, 2) = Text(Line(k, 1).form, v)
              /\ Total(k) = 3 => Line(k, 3).kind = "."

\* Every form that is named is one that could not be opened.
Astray(k, w) ==
    /\ k.srv = "form" => Unopened(k.name, w)
    /\ \A i \in 1..Len(k.c2s) :
          k.c2s[i].kind = "FILENAME" => Unopened(k.c2s[i].form, w)

\* What connection c may hold: lines and at most one answer, which is to the
\* last of the lines.
Shape(c, k, w) ==
    /\ Regular(k, w) \/ Astray(k, w)
    /\ \A i \in 1..(Len(k.c2s) - 1) : k.c2s[i].kind # "."
    /\ Len(k.s2c) <= 1
    /\ k.s2c # <<>> => k.s2c[1][1] = c /\ Total(k) = 0
    /\ k.srv \in Login => Len(k.c2s) <= 1
    /\ k.srv \in {"ended", "none"} => k.c2s = <<>>

\* The word that the session expects when the login is at pc, and the one it
\* expects after that.
Asked(pc) == IF pc \in {"connected", "magic", "magic?"} THEN "magic"
             ELSE IF pc \in {"user", "user?"} THEN "user"
             ELSE IF pc \in {"pass", "pass?"} THEN "pass" ELSE "cmd"
Replied(pc) == IF pc = "magic?" THEN "user" ELSE IF pc = "user?" THEN "pass" ELSE "cmd"

\* Since its last form that could be opened the transfer has named only others.
Lost(fr, k, w) == Astray(k, w) /\ \A g \in Forms : g >= fr.dir => "open" \in w.mishap[g]

\* What is on its way, while connection k is up.
Talk(fr, k, w) ==
    /\ fr.pc \in Asking => Total(k) = 0 /\ k.srv = Asked(fr.pc)
    /\ fr.pc \in Waiting => \/ Total(k) = 0 /\ k.srv = Replied(fr.pc)
                            \/ Total(k) = 1 /\ k.srv = Asked(fr.pc) /\ k.s2c = <<>>
    /\ fr.pc \in Sending => k.srv \in {"cmd", "form"}
    /\ fr.pc \in Sending \ {"answer"} => NoDot(k)
    /\ fr.pc = "next" => \/ Total(k) = 0
                         \/ w.cancelled /\ Total(k) = 1 /\ Names(k, 1)
                         \/ Lost(fr, k, w)
    /\ fr.pc = "quit" => \/ Total(k) = 0
                         \/ Total(k) = 1 /\ Names(k, 1)
                         \/ Total(k) = 2 /\ Names(k, 1) /\ Names(k, 2)
                         \/ Lost(fr, k, w)
    /\ fr.pc = "form" => \/ Total(k) = 1 /\ Names(k, 1) /\ Line(k, 1).form = fr.dir
                         \/ Lost(fr, k, w)
    /\ fr.pc = "answer" =>
        \/ Total(k) = 0
        \/ /\ Total(k) = 3 /\ k.s2c = <<>>
           /\ Names(k, 1) /\ Line(k, 1).form = fr.dir
           /\ Line(k, 2) = Text(fr.dir, w.file[fr.dir].ver)
           /\ Line(k, 3) = Word(".")
        \/ Lost(fr, k, w)

\* Only a transfer that sends forms has the end of one before a session, and
\* the form is one that is not sent, as long as it is the one that is named.
Dots(fr, k, w) ==
    ~NoDot(k) =>
        /\ fr.pc \in Sending
        /\ \/ Astray(k, w)
           \/ /\ Names(k, 1) /\ Line(k, 1).form \in Forms
              /\ ~w.file[Line(k, 1).form].sent

\* The connection k is at the point where its transfer fr is.  Here lies why a
\* confirmed form is a stored one: a "500" comes only after the lines of the
\* whole form, and nothing has been saved since.
Phase(fr, k, w) ==
    /\ Live(k) => Talk(fr, k, w)
    /\ fr.pc \notin Waiting \cup {"failed", "answer"} => k.s2c = <<>>
    /\ fr.pc \in {"form", "answer"} => ~w.file[fr.dir].sent
    /\ fr.pc = "answer" /\ k.s2c # <<>> /\ k.s2c[1][2] = "500" =>
        w.mishap[fr.dir] # {} \/ w.db[fr.dir] = Stored(fr.dir, w.file[fr.dir].ver)
    /\ Dots(fr, k, w)

-----------------------------------------------------------------------------
(* Lines *)

\* The numbers of the lines.
LEMMA Lengths ==
    ASSUME NEW k \in Records
    PROVE  /\ Offset(k) \in Nat /\ Total(k) \in Nat /\ Total(k) >= Offset(k)
           /\ Len(k.c2s) \in Nat /\ Len(k.body) \in Nat
           /\ k.c2s \in Seq(Lines) /\ k.body \in Seq(Lines)
           /\ Total(k) = Offset(k) + Len(k.c2s)
           /\ k.srv = "form" => Offset(k) = 1 + Len(k.body)
           /\ k.srv # "form" => Offset(k) = 0 /\ k.body = <<>>
           /\ Total(k) = 0 => k.c2s = <<>> /\ k.srv # "form" /\ NoDot(k)
           /\ k.c2s = <<>> /\ k.srv # "form" => Total(k) = 0
<1>1. k.c2s \in Seq(Lines) /\ k.body \in Seq(Lines)
  BY DEF Records, ConnType
<1>2. Len(k.c2s) \in Nat /\ Len(k.body) \in Nat
  BY <1>1
<1>3. k.srv # "form" => k.body = <<>>
  BY DEF Records
<1>4. Len(k.c2s) = 0 <=> k.c2s = <<>>
  BY <1>1
<1>5. /\ Offset(k) \in Nat
      /\ k.srv = "form" => Offset(k) = 1 + Len(k.body)
      /\ k.srv # "form" => Offset(k) = 0
  BY <1>2 DEF Offset
<1>6. Total(k) = Offset(k) + Len(k.c2s)
  BY DEF Total
<1>7. Total(k) = 0 => k.c2s = <<>> /\ k.srv # "form" /\ NoDot(k)
  BY <1>2, <1>4, <1>5, <1>6 DEF NoDot
<1> HIDE DEF Offset, Total
<1> QED
  BY <1>1, <1>2, <1>3, <1>4, <1>5, <1>6, <1>7

\* k2 is k with toks written.
Wrote(k, k2, toks) == k2 = [k EXCEPT !.c2s = @ \o toks]

\* The lines of k2 are those of k and then toks.
Longer(k, k2, toks) ==
    /\ Total(k2) = Total(k) + Len(toks)
    /\ \A n \in 1..Total(k) : Line(k2, n) = Line(k, n)
    /\ \A i \in 1..Len(toks) : Line(k2, Total(k) + i) = toks[i]
    /\ Len(k2.c2s) = Len(k.c2s) + Len(toks)
    /\ \A i \in 1..Len(k.c2s) : k2.c2s[i] = k.c2s[i]
    /\ \A i \in 1..Len(toks) : k2.c2s[Len(k.c2s) + i] = toks[i]
    /\ Offset(k2) = Offset(k)

\* Writing adds its lines at the end.
LEMMA Written ==
    ASSUME NEW k \in Records, NEW toks \in Seq(Lines), NEW k2 \in Records,
           Wrote(k, k2, toks)
    PROVE  Longer(k, k2, toks)
<1>1. k2.c2s = k.c2s \o toks /\ k2.srv = k.srv /\ k2.name = k.name /\ k2.body = k.body
  BY DEF Wrote, Records, ConnType
<1>2. /\ Len(k2.c2s) = Len(k.c2s) + Len(toks)
      /\ \A i \in 1..Len(k.c2s) : k2.c2s[i] = k.c2s[i]
      /\ \A i \in 1..Len(toks) : k2.c2s[Len(k.c2s) + i] = toks[i]
  <2>1. k.c2s \in Seq(Lines)
    BY Lengths
  <2> QED
    <3>1. toks \in Seq(Lines)
      OBVIOUS
    <3> QED
      BY ONLY <1>1, <2>1, <3>1, ConcatProperties
<1>3. Offset(k2) = Offset(k) /\ Offset(k) \in Nat /\ Len(k.c2s) \in Nat /\ Len(toks) \in Nat
  BY <1>1, Lengths DEF Offset
<1>4. Total(k2) = Total(k) + Len(toks) /\ Total(k) = Offset(k) + Len(k.c2s)
  BY <1>2, <1>3 DEF Total
<1>5. ASSUME NEW n \in 1..Total(k) PROVE Line(k2, n) = Line(k, n)
  <2>1. CASE n > Offset(k)
    <3>1. n - Offset(k) \in 1..Len(k.c2s)
      BY <1>3, <1>4, <2>1
    <3> QED
      BY <1>2, <1>3, <2>1, <3>1 DEF Line
  <2>2. CASE ~(n > Offset(k))
    BY <1>1, <1>3, <2>2 DEF Line
  <2> QED
    BY <2>1, <2>2
<1>6. ASSUME NEW i \in 1..Len(toks) PROVE Line(k2, Total(k) + i) = toks[i]
  <2> DEFINE n == Total(k) + i
  <2>1. n > Offset(k2) /\ n - Offset(k2) = Len(k.c2s) + i
    BY <1>3, <1>4
  <2> HIDE DEF n
  <2>2. Line(k2, n) = k2.c2s[n - Offset(k2)]
    BY <2>1 DEF Line
  <2>3. k2.c2s[Len(k.c2s) + i] = toks[i]
    BY <1>2
  <2> QED
    BY <2>1, <2>2, <2>3 DEF n
<1> QED
  BY <1>2, <1>3, <1>4, <1>5, <1>6 DEF Longer

\* The lines of k2 are the first lines of k.
Shorter(k, k2) ==
    /\ Total(k2) <= Total(k)
    /\ \A n \in 1..Total(k2) : Line(k2, n) = Line(k, n)
    /\ \A i \in 1..Len(k2.c2s) : \E j \in 1..Len(k.c2s) :
          k2.c2s[i] = k.c2s[j] /\ (i < Len(k2.c2s) => j < Len(k.c2s))
    /\ k2.srv = "form" => \/ k.srv = "form" /\ k.name = k2.name
                          \/ \E j \in 1..Len(k.c2s) : k.c2s[j] = Filename(k2.name)

\* A session without lines has fewer than any.
LEMMA NoneShorter ==
    ASSUME NEW k \in Records, NEW k2 \in Records, Total(k2) = 0
    PROVE  Shorter(k, k2)
BY Lengths DEF Shorter

\* The command loop takes a FILENAME.
LEMMA NameTaken ==
    ASSUME NEW k \in Records, k.srv = "cmd", k.c2s # <<>>, Head(k.c2s).kind = "FILENAME",
           NEW k2 \in Records,
           k2 = [k EXCEPT !.c2s = Tail(@), !.srv = "form", !.name = Head(k.c2s).form]
    PROVE  Shorter(k, k2) /\ Total(k2) = Total(k)
<1>1. /\ k2.c2s = Tail(k.c2s) /\ k2.srv = "form" /\ k2.name = Head(k.c2s).form
      /\ k2.body = <<>> /\ k.body = <<>>
  BY DEF Records, ConnType
<1>2. k.c2s \in Seq(Lines) /\ Head(k.c2s) = k.c2s[1] /\ k.c2s[1] \in Lines
  BY Lengths
<1>3. k.c2s[1] = Filename(k2.name)
  BY <1>1, <1>2, Said
<1>4. /\ Len(k.c2s) \in Nat /\ Len(k.c2s) >= 1 /\ Len(k2.c2s) = Len(k.c2s) - 1
      /\ \A i \in 1..Len(k2.c2s) : k2.c2s[i] = k.c2s[i + 1]
  BY <1>1, <1>2
<1>5. Offset(k) = 0 /\ Offset(k2) = 1
  BY <1>1, <1>2 DEF Offset
<1>6. Total(k2) = Total(k) /\ Total(k) = Len(k.c2s)
  BY <1>4, <1>5 DEF Total
<1>7. ASSUME NEW n \in 1..Total(k2) PROVE Line(k2, n) = Line(k, n)
  <2>1. Line(k, n) = k.c2s[n]
    BY <1>4, <1>5, <1>6 DEF Line
  <2>2. CASE n = 1
    BY <1>3, <1>5, <2>1, <2>2 DEF Line
  <2>3. CASE n # 1
    <3>1. n - 1 \in 1..Len(k2.c2s) /\ n > 1 /\ n - 1 + 1 = n
      BY <1>4, <1>6, <2>3
    <3> QED
      BY <1>4, <1>5, <2>1, <3>1 DEF Line
  <2> QED
    BY <2>2, <2>3
<1>8. ASSUME NEW i \in 1..Len(k2.c2s)
      PROVE  \E j \in 1..Len(k.c2s) :
                k2.c2s[i] = k.c2s[j] /\ (i < Len(k2.c2s) => j < Len(k.c2s))
  <2>1. i + 1 \in 1..Len(k.c2s) /\ (i < Len(k2.c2s) => i + 1 < Len(k.c2s))
    BY <1>4
  <2> QED
    BY <1>4, <2>1
<1>9. 1 \in 1..Len(k.c2s)
  BY <1>4
<1> QED
  BY <1>3, <1>4, <1>6, <1>7, <1>8, <1>9 DEF Shorter

\* It takes a line of a form.
LEMMA LineTaken ==
    ASSUME NEW k \in Records, k.srv = "form", k.c2s # <<>>, NEW k2 \in Records,
           k2 = [k EXCEPT !.c2s = Tail(@), !.body = Append(@, Head(k.c2s))]
    PROVE  Shorter(k, k2) /\ Total(k2) = Total(k)
<1>1. /\ k2.c2s = Tail(k.c2s) /\ k2.srv = "form" /\ k2.name = k.name
      /\ k2.body = Append(k.body, Head(k.c2s))
  BY DEF Records, ConnType
<1>2. /\ k.c2s \in Seq(Lines) /\ k.body \in Seq(Lines) /\ Head(k.c2s) = k.c2s[1]
      /\ Len(k.body) \in Nat
  BY Lengths
<1>3. /\ Len(k.c2s) \in Nat /\ Len(k.c2s) >= 1 /\ Len(k2.c2s) = Len(k.c2s) - 1
      /\ \A i \in 1..Len(k2.c2s) : k2.c2s[i] = k.c2s[i + 1]
  BY <1>1, <1>2
<1>4. /\ Len(k2.body) = Len(k.body) + 1 /\ k2.body[Len(k.body) + 1] = k.c2s[1]
      /\ \A i \in 1..Len(k.body) : k2.body[i] = k.body[i]
  BY <1>1, <1>2
<1>5. Offset(k) = 1 + Len(k.body) /\ Offset(k2) = Offset(k) + 1
  BY <1>1, <1>2, <1>4 DEF Offset
<1>6. Total(k2) = Total(k) /\ Total(k) = Offset(k) + Len(k.c2s) /\ Offset(k) \in Nat
  <2>1. Total(k2) = Offset(k2) + Len(k2.c2s) /\ Total(k) = Offset(k) + Len(k.c2s)
    BY DEF Total
  <2>2. /\ Offset(k) \in Nat /\ Len(k.c2s) \in Nat
        /\ Offset(k2) = Offset(k) + 1 /\ Len(k2.c2s) = Len(k.c2s) - 1
    BY <1>2, <1>3, <1>5
  <2>3. (Offset(k) + 1) + (Len(k.c2s) - 1) = Offset(k) + Len(k.c2s)
    BY ONLY <2>2
  <2> QED
    BY ONLY <2>1, <2>2, <2>3
<1>7. ASSUME NEW n \in 1..Total(k2) PROVE Line(k2, n) = Line(k, n)
  <2>1. CASE n > Offset(k2)
    <3> DEFINE o == Offset(k)
    <3>0. o \in Nat /\ Offset(k2) = o + 1 /\ n \in 1..(o + Len(k.c2s))
      BY <1>5, <1>6
    <3> HIDE DEF o
    <3>1. n - (o + 1) \in 1..Len(k2.c2s) /\ n > o /\ n - (o + 1) + 1 = n - o
      BY <1>3, <2>1, <3>0
    <3>2. Line(k2, n) = k2.c2s[n - (o + 1)] /\ Line(k, n) = k.c2s[n - o]
      BY <2>1, <3>0, <3>1 DEF Line, o
    <3> QED
      BY <1>3, <3>1, <3>2
  <2>2. CASE n = Offset(k2)
    <3>1. n > Offset(k) /\ n - Offset(k) = 1 /\ n # 1 /\ n - 1 = Len(k.body) + 1 /\ ~(n > n)
      BY <1>2, <1>5, <2>2
    <3>2. Line(k2, n) = k2.body[n - 1]
      BY <2>2, <3>1 DEF Line
    <3> QED
      BY <1>4, <3>1, <3>2 DEF Line
  <2>3. CASE n < Offset(k2)
    <3>1. ~(n > Offset(k2)) /\ ~(n > Offset(k)) /\ (n # 1 => n - 1 \in 1..Len(k.body))
      BY <1>2, <1>5, <2>3
    <3> QED
      BY <1>1, <1>4, <3>1 DEF Line
  <2> QED
    BY <1>2, <1>5, <2>1, <2>2, <2>3
<1>8. ASSUME NEW i \in 1..Len(k2.c2s)
      PROVE  \E j \in 1..Len(k.c2s) :
                k2.c2s[i] = k.c2s[j] /\ (i < Len(k2.c2s) => j < Len(k.c2s))
  <2>1. i + 1 \in 1..Len(k.c2s) /\ (i < Len(k2.c2s) => i + 1 < Len(k.c2s))
    BY <1>3
  <2> QED
    BY <1>3, <2>1
<1> QED
  BY <1>1, <1>6, <1>7, <1>8 DEF Shorter

\* A connection that is cut loses its last lines.
LEMMA LinesCut ==
    ASSUME NEW k \in Records, NEW n \in 0..Len(k.c2s), NEW k2 \in Records,
           k2 = [k EXCEPT !.link = "cut", !.s2c = <<>>, !.c2s = SubSeq(@, 1, n)]
    PROVE  Shorter(k, k2)
<1>1. /\ k2.c2s = SubSeq(k.c2s, 1, n) /\ k2.srv = k.srv /\ k2.name = k.name
      /\ k2.body = k.body
  BY DEF Records, ConnType
<1>2. k.c2s \in Seq(Lines) /\ Len(k.c2s) \in Nat /\ n \in Nat /\ n <= Len(k.c2s)
  BY Lengths
<1>3. Len(k2.c2s) = n /\ \A i \in 1..n : k2.c2s[i] = k.c2s[i]
  BY <1>1, <1>2
<1>4. Offset(k2) = Offset(k) /\ Offset(k) \in Nat
  BY <1>1, Lengths DEF Offset
<1>5. Total(k2) = Offset(k) + n /\ Total(k) = Offset(k) + Len(k.c2s)
  BY <1>3, <1>4 DEF Total
<1>6. ASSUME NEW m \in 1..Total(k2) PROVE Line(k2, m) = Line(k, m)
  <2>1. m > Offset(k) => m - Offset(k) \in 1..n
    BY <1>2, <1>4, <1>5
  <2>2. CASE m > Offset(k)
    BY <1>3, <1>4, <2>1, <2>2 DEF Line
  <2>3. CASE ~(m > Offset(k))
    BY <1>1, <1>4, <2>3 DEF Line
  <2> QED
    BY <2>2, <2>3
<1>7. ASSUME NEW i \in 1..Len(k2.c2s)
      PROVE  \E j \in 1..Len(k.c2s) :
                k2.c2s[i] = k.c2s[j] /\ (i < Len(k2.c2s) => j < Len(k.c2s))
  <2>1. i \in 1..Len(k.c2s) /\ (i < Len(k2.c2s) => i < Len(k.c2s))
    BY <1>2, <1>3
  <2> QED
    BY <1>3, <2>1
<1> QED
  BY <1>1, <1>2, <1>4, <1>5, <1>6, <1>7 DEF Shorter

\* What a session has taken lines from was one form, and is still.
LEMMA RegularShorter ==
    ASSUME NEW k \in Records, NEW k2 \in Records, NEW w,
           Shorter(k, k2), Regular(k, w)
    PROVE  Regular(k2, w)
<1>1. Total(k) \in Nat /\ Total(k2) \in Nat /\ Total(k2) <= Total(k) /\ Total(k) <= 3
  BY Lengths DEF Shorter, Regular
<1>2. /\ Total(k2) >= 1 => Line(k2, 1) = Line(k, 1)
      /\ Total(k2) >= 2 => Line(k2, 2) = Line(k, 2)
      /\ Total(k2) >= 3 => Line(k2, 3) = Line(k, 3)
  BY <1>1 DEF Shorter
<1>3. CASE Total(k2) = 0
  BY <1>3 DEF Regular
<1>4. CASE Total(k2) = 1
  <2>1. Total(k) >= 1 /\ ~(Total(k2) >= 2) /\ Total(k2) >= 1 /\ Total(k2) <= 3
    BY <1>1, <1>4
  <2> QED
    BY <1>2, <2>1 DEF Regular, Names
<1>5. CASE Total(k2) = 2
  <2>1. /\ Total(k) >= 1 /\ Total(k) >= 2 /\ Total(k2) >= 1 /\ Total(k2) >= 2
        /\ Total(k2) <= 3 /\ Total(k2) # 3
    BY <1>1, <1>5
  <2> QED
    BY <1>2, <1>5, <2>1 DEF Regular, Names
<1>6. CASE Total(k2) = 3
  <2>1. /\ Total(k) = 3 /\ Total(k) >= 1 /\ Total(k) >= 2 /\ Total(k) # 2
        /\ Total(k2) >= 1 /\ Total(k2) >= 2 /\ Total(k2) >= 3 /\ Total(k2) <= 3
    BY <1>1, <1>6
  <2> QED
    BY <1>2, <1>6, <2>1 DEF Regular, Names
<1> QED
  BY <1>1, <1>3, <1>4, <1>5, <1>6

\* It names no more forms than before,
LEMMA AstrayShorter ==
    ASSUME NEW k \in Records, NEW k2 \in Records, NEW w,
           Shorter(k, k2), Astray(k, w)
    PROVE  Astray(k2, w)
<1>1. ASSUME k2.srv = "form" PROVE Unopened(k2.name, w)
  <2>1. CASE k.srv = "form" /\ k.name = k2.name
    BY <2>1 DEF Astray
  <2>2. ASSUME NEW j \in 1..Len(k.c2s), k.c2s[j] = Filename(k2.name)
        PROVE  Unopened(k2.name, w)
    BY <2>2 DEF Astray, Filename
  <2> QED
    BY <1>1, <2>1, <2>2 DEF Shorter
<1>2. ASSUME NEW i \in 1..Len(k2.c2s), k2.c2s[i].kind = "FILENAME"
      PROVE  Unopened(k2.c2s[i].form, w)
  BY <1>2 DEF Shorter, Astray
<1> QED
  BY <1>1, <1>2 DEF Astray

\* and has no new end of a form.
LEMMA NoDotShorter ==
    ASSUME NEW k, NEW k2, Shorter(k, k2), NoDot(k)
    PROVE  NoDot(k2)
BY DEF Shorter, NoDot

\* What a session does with its lines keeps Shape.
LEMMA ShapeShorter ==
    ASSUME NEW k \in Records, NEW k2 \in Records, NEW w, NEW c,
           Shorter(k, k2), Shape(c, k, w),
           Len(k2.s2c) <= 1,
           k2.s2c # <<>> => k2.s2c[1][1] = c /\ Total(k2) = 0,
           k2.srv \in Login => Len(k2.c2s) <= 1,
           k2.srv \in {"ended", "none"} => k2.c2s = <<>>
    PROVE  Shape(c, k2, w)
<1>1. Regular(k2, w) \/ Astray(k2, w)
  BY RegularShorter, AstrayShorter DEF Shape
<1>2. ASSUME NEW i \in 1..(Len(k2.c2s) - 1) PROVE k2.c2s[i].kind # "."
  <2>1. i \in 1..Len(k2.c2s) /\ i < Len(k2.c2s) /\ Len(k.c2s) \in Nat
    BY Lengths
  <2>2. PICK j \in 1..Len(k.c2s) : k2.c2s[i] = k.c2s[j] /\ j < Len(k.c2s)
    BY <2>1 DEF Shorter
  <2>3. j \in 1..(Len(k.c2s) - 1)
    BY <2>1, <2>2
  <2> QED
    BY <2>2, <2>3 DEF Shape
<1> QED
  BY <1>1, <1>2 DEF Shape

-----------------------------------------------------------------------------
(* Time *)

\* As time goes on.
Later(w, w2) ==
    \A f \in Forms : /\ w.file[f].ver \in Nat /\ w2.file[f].ver \in Nat
                     /\ w.file[f].ver <= w2.file[f].ver
                     /\ w.mishap[f] \subseteq w2.mishap[f]

\* A form that was passed over stays one that was.
LEMMA UnopenedLater ==
    ASSUME NEW f, NEW w, NEW w2, Later(w, w2), Unopened(f, w)
    PROVE  Unopened(f, w2)
BY DEF Later, Unopened

\* Later, a session that is astray is still astray,
LEMMA AstrayLater ==
    ASSUME NEW k, NEW w, NEW w2, Later(w, w2), Astray(k, w)
    PROVE  Astray(k, w2)
BY UnopenedLater DEF Astray

\* one that is regular is regular,
LEMMA RegularLater ==
    ASSUME NEW k \in Records, NEW w, NEW w2, Later(w, w2), Regular(k, w)
    PROVE  Regular(k, w2)
<1>1. CASE Total(k) >= 2
  <2>1. Names(k, 1) /\ Line(k, 1).form \in Forms
    BY <1>1, Lengths DEF Regular, Names
  <2>2. \A v \in 1..w.file[Line(k, 1).form].ver : v \in 1..w2.file[Line(k, 1).form].ver
    BY <2>1 DEF Later
  <2> QED
    BY <1>1, <2>2 DEF Regular
<1>2. CASE ~(Total(k) >= 2)
  BY <1>2 DEF Regular
<1> QED
  BY <1>1, <1>2

\* its shape is kept,
LEMMA ShapeLater ==
    ASSUME NEW k \in Records, NEW w, NEW w2, NEW c, Later(w, w2), Shape(c, k, w)
    PROVE  Shape(c, k, w2)
BY AstrayLater, RegularLater DEF Shape

\* and a transfer that is lost is lost.
LEMMA LostLater ==
    ASSUME NEW fr, NEW k, NEW w, NEW w2, Later(w, w2), Lost(fr, k, w)
    PROVE  Lost(fr, k, w2)
BY AstrayLater DEF Lost, Later

\* No form becomes sent.
Unsending(w, w2) == \A f \in Forms : ~w.file[f].sent => ~w2.file[f].sent

\* The end of a form stays where it was when its transfer moves on,
LEMMA DotsMoves ==
    ASSUME NEW fr, NEW fr2, NEW k, NEW w, NEW w2, Later(w, w2), Unsending(w, w2),
           Dots(fr, k, w), fr2.pc \in Sending \/ fr.pc \notin Sending
    PROVE  Dots(fr2, k, w2)
BY AstrayLater DEF Dots, Unsending

\* and when the session takes a line.
LEMMA DotsShorter ==
    ASSUME NEW fr, NEW k \in Records, NEW k2 \in Records, NEW w, Dots(fr, k, w),
           Shorter(k, k2)
    PROVE  Dots(fr, k2, w)
<1>1. SUFFICES ASSUME ~NoDot(k2) PROVE Dots(fr, k2, w)
  BY DEF Dots
<1>2. ~NoDot(k)
  BY <1>1, NoDotShorter
<1>3. Total(k2) \in Nat /\ Total(k2) >= 1
  <2>1. /\ Total(k2) = Offset(k2) + Len(k2.c2s) /\ Offset(k2) \in Nat
        /\ Len(k2.c2s) \in Nat
    BY Lengths
  <2>2. Len(k2.c2s) # 0
    BY <1>1, <2>1 DEF NoDot
  <2> QED
    BY <2>1, <2>2
<1>4. Line(k2, 1) = Line(k, 1)
  BY <1>3 DEF Shorter
<1>5. Names(k, 1) => Names(k2, 1)
  BY <1>3, <1>4 DEF Names
<1> QED
  BY <1>2, <1>4, <1>5, AstrayShorter DEF Dots

\* What others do does not disturb a transfer.
LEMMA PhaseLater ==
    ASSUME NEW fr, NEW k, NEW w, NEW w2, Later(w, w2), Phase(fr, k, w),
           Unsending(w, w2),
           fr.pc = "next" => w2.cancelled = w.cancelled,
           fr.pc \in {"form", "answer"} => ~w2.file[fr.dir].sent,
           fr.pc = "answer" =>
              /\ w2.file[fr.dir].ver = w.file[fr.dir].ver
              /\ w.mishap[fr.dir] # {} => w2.mishap[fr.dir] # {}
              /\ w2.mishap[fr.dir] # {} \/ w2.db[fr.dir] = w.db[fr.dir]
    PROVE  Phase(fr, k, w2)
<1>1. Lost(fr, k, w) => Lost(fr, k, w2)
  BY LostLater
<1>2. Talk(fr, k, w) => Talk(fr, k, w2)
  BY <1>1 DEF Talk
<1>3. Dots(fr, k, w2)
  BY DotsMoves DEF Phase
<1> QED
  BY <1>2, <1>3 DEF Phase

\* A connection that goes down.
LEMMA PhaseDown ==
    ASSUME NEW fr, NEW k \in Records, NEW k2 \in Records, NEW w, Phase(fr, k, w),
           ~Live(k2), k2.s2c \in {<<>>, k.s2c}, Shorter(k, k2)
    PROVE  Phase(fr, k2, w)
BY DotsShorter DEF Phase

\* The command loop takes a line, and answers nothing.
LEMMA PhaseTaken ==
    ASSUME NEW fr, NEW k \in Records, NEW k2 \in Records, NEW w,
           Phase(fr, k, w), k.srv \in {"cmd", "form"},
           Shorter(k, k2), Total(k2) = Total(k), Total(k) >= 1, k2.srv = "form",
           k2.link = k.link, k2.s2c = k.s2c
    PROVE  Phase(fr, k2, w)
<1>1. SUFFICES ASSUME Live(k2) PROVE Talk(fr, k2, w)
  BY DotsShorter DEF Phase
<1>2. Talk(fr, k, w)
  BY <1>1 DEF Live, Phase
<1>3. Total(k) \in Nat /\ \A n \in 1..Total(k) : Line(k2, n) = Line(k, n)
  BY Lengths DEF Shorter
<1>4. /\ Names(k, 1) => Names(k2, 1)
      /\ Total(k) >= 2 => (Names(k, 2) => Names(k2, 2)) /\ Line(k2, 2) = Line(k, 2)
      /\ Total(k) >= 3 => Line(k2, 3) = Line(k, 3)
      /\ Total(k) >= 1 => Line(k2, 1) = Line(k, 1)
  BY <1>3 DEF Names
<1>5. Lost(fr, k, w) => Lost(fr, k2, w)
  BY AstrayShorter DEF Lost
<1>6. NoDot(k) => NoDot(k2)
  BY NoDotShorter
<1>7. fr.pc \notin Asking /\ fr.pc \notin Waiting
  <2>1. \A pc : Asked(pc) # "form" /\ Replied(pc) # "form" 
    BY DEF Asked, Replied
  <2>2. fr.pc \notin Asking
    BY <1>2, <1>3 DEF Talk
  <2>3. fr.pc \notin Waiting
    <3>1. \A pc \in Waiting : Asked(pc) \notin {"cmd", "form"}
      BY DEF Waiting, Asked
    <3> QED
      BY <1>2, <1>3, <3>1 DEF Talk
  <2> QED
    BY <2>2, <2>3
<1>8. /\ fr.pc = "next" => \/ w.cancelled /\ Total(k2) = 1 /\ Names(k2, 1)
                           \/ Lost(fr, k2, w)
      /\ fr.pc = "quit" => \/ Total(k2) = 1 /\ Names(k2, 1)
                           \/ Total(k2) = 2 /\ Names(k2, 1) /\ Names(k2, 2)
                           \/ Lost(fr, k2, w)
      /\ fr.pc = "form" => \/ Total(k2) = 1 /\ Names(k2, 1) /\ Line(k2, 1).form = fr.dir
                           \/ Lost(fr, k2, w)
  BY <1>2, <1>3, <1>4, <1>5 DEF Talk
<1>9. fr.pc = "answer" =>
        \/ /\ Total(k2) = 3 /\ k2.s2c = <<>>
           /\ Names(k2, 1) /\ Line(k2, 1).form = fr.dir
           /\ Line(k2, 2) = Text(fr.dir, w.file[fr.dir].ver)
           /\ Line(k2, 3) = Word(".")
        \/ Lost(fr, k2, w)
  BY <1>2, <1>3, <1>4, <1>5 DEF Talk
<1> QED
  BY <1>2, <1>6, <1>7, <1>8, <1>9 DEF Talk

\* Activation i of the stack st is the one that made connection s: the later
\* ones have none yet.
Owner(i, st, s) ==
    /\ i \in 1..Len(st) /\ st[i].own = s /\ st[i].pc \notin Early
    /\ \A j \in (i + 1)..Len(st) : st[j].pc \in Early

\* What the transfers share is as one transfer alone expects it.
Globals == fd0 = Stdin /\ inbuf = <<>> /\ ~strange

\* No transfer has descriptor 0 as its socket, and only the top one is elsewhere
\* than in the event loop.
Frames(st) == \A i \in 1..Len(st) :
                ~st[i].zero /\ (i < Len(st) => st[i].pc \in Pumping)

\* The connection behind sockfd is at the point where its transfer is.
Owned(st, s, cn, w) ==
    s > 0 => /\ cn[s].srv # "none"
             /\ \E i \in 1..Len(st) : Owner(i, st, s) /\ Phase(st[i], cn[s], w)

\* Every connection has its shape.
Shapes(cn, w) == \A c \in Conns : Shape(c, cn[c], w)

\* The inductive part about what is sent and stored: as long as descriptor 0 has
\* not been closed, whatever breaks and however transfers nest.
Sound ==
    /\ Globals /\ Frames(stack) /\ Owned(stack, sockfd, conn, World)
    /\ Shapes(conn, World)
    /\ SentIsStored /\ RecordIsOneForm

\* The inductive part about what is left open: as long as no transfer runs inside
\* another one.
Alone ==
    /\ Len(stack) <= 1 /\ ~shut
    /\ stack # <<>> /\ stack[1].pc \notin Early =>
        \/ sockfd > 0
        \/ sockfd = -1 /\ stack[1].pc = "connected"
    /\ \A c \in Conns : conn[c].open => c = sockfd

\* The inductive invariant.
IInv == TypeOK /\ (~shut => Sound) /\ (~nested => Alone)

-----------------------------------------------------------------------------
(* One step *)

\* What is to be shown after a step.
LEMMA SoundAfter ==
    ASSUME NEW st, NEW s, NEW cn, NEW w2,
           stack' = st, sockfd' = s, conn' = cn, World' = w2,
           fd0' = Stdin, inbuf' = <<>>, ~strange',
           Frames(st), Owned(st, s, cn, w2), Shapes(cn, w2),
           SentIsStored', RecordIsOneForm'
    PROVE  Sound'
BY DEF Sound, Globals

\* Without a new record and without a new version or flag.
LEMMA StoredKept ==
    ASSUME TypeOK, Sound, ~shut, ~shut', UNCHANGED disk,
           \A f \in Forms : mishap[f] \subseteq mishap'[f]
    PROVE  SentIsStored' /\ RecordIsOneForm'
<1>1. SentIsStored' 
  <2> SUFFICES ASSUME NEW f \in Forms, file'[f].sent, mishap'[f] = {}
               PROVE  db'[f] = Stored(f, file'[f].ver)
    BY DEF SentIsStored
  <2> QED
    BY DEF Sound, SentIsStored, disk
<1>2. RecordIsOneForm'
  BY DEF Sound, RecordIsOneForm, disk, Stored, Text, Nothing
<1> QED
  BY <1>1, <1>2

\* The types of the world.
LEMMA WorldTypes ==
    ASSUME TypeOK
    PROVE  /\ World.file = file /\ World.db = db /\ World.mishap = mishap
           /\ World.cancelled = cancelled
           /\ \A f \in Forms : file[f].ver \in Nat /\ file[f].ver \in 1..MaxVer
           /\ \A f \in Forms : file[f].sent \in BOOLEAN
<1>1. file \in [Forms -> [ver : 1..MaxVer, sent : BOOLEAN]]
  BY Types
<1>2. \A v \in 1..MaxVer : v \in Nat
  BY Constants
<1> QED
  BY <1>1, <1>2 DEF World

\* A step that keeps versions and adds mishaps is one in time.
LEMMA WorldLater ==
    ASSUME TypeOK, TypeOK',
           \A f \in Forms : /\ file[f].ver <= file'[f].ver
                            /\ mishap[f] \subseteq mishap'[f]
    PROVE  Later(World, World')
<1>1. \A f \in Forms : file[f].ver \in Nat /\ file'[f].ver \in Nat
  <2>1. file \in [Forms -> [ver : 1..MaxVer, sent : BOOLEAN]]
        /\ file' \in [Forms -> [ver : 1..MaxVer, sent : BOOLEAN]]
    BY DEF TypeOK
  <2> QED
    BY <2>1, Constants
<1>2. /\ World.file = file /\ World'.file = file'
      /\ World.mishap = mishap /\ World'.mishap = mishap'
  BY DEF World
<1> QED
  BY <1>1, <1>2 DEF Later

\* Where the program is, as long as descriptor 0 is what it was.
LEMMA AtHome ==
    ASSUME TypeOK, Sound
    PROVE  /\ sockfd > 0 => /\ Peer = sockfd /\ Linked
                            /\ sockfd \in Conns /\ conn[sockfd] \in Records
                            /\ Shape(sockfd, conn[sockfd], World)
                            /\ conn[sockfd].srv # "none"
           /\ ~(sockfd > 0) => ~Linked
<1>1. sockfd \in -1..MaxConn /\ conn \in [Conns -> Records]
  BY Types DEF Conned
<1>2. CASE sockfd > 0
  <2>1. Peer = sockfd /\ sockfd \in Conns
    BY <1>1, <1>2, Constants DEF Peer, Conns
  <2>2. conn[sockfd].srv # "none"
    BY <1>2 DEF Sound, Owned
  <2> QED
    BY <1>1, <1>2, <2>1, <2>2 DEF Linked, Made, Sound, Shapes
<1>3. CASE ~(sockfd > 0)
  <2>1. sockfd = 0 \/ sockfd = -1
    BY <1>1, <1>3, Constants
  <2>2. Peer = Stdin \/ Peer = -1
    BY <2>1 DEF Peer, Sound, Globals
  <2>3. Peer \notin Conns
    BY <2>2, Constants DEF Stdin, Conns
  <2> QED
    BY <1>3, <2>3 DEF Linked, Made
<1> QED
  BY <1>2, <1>3

\* The connection behind sockfd is that of the top frame, if that one has any.
LEMMA TopOwns ==
    ASSUME TypeOK, Sound, stack # <<>>, Top.pc \notin Early, sockfd > 0
    PROVE  /\ Top.own = sockfd /\ Phase(Top, conn[sockfd], World)
           /\ Owner(Len(stack), stack, sockfd)
<1>1. Top = stack[Len(stack)] /\ Len(stack) \in 1..Len(stack) /\ Len(stack) \in Nat
  BY Types, TopFrame DEF Top
<1>2. PICK i \in 1..Len(stack) :
        Owner(i, stack, sockfd) /\ Phase(stack[i], conn[sockfd], World)
  BY DEF Sound, Owned
<1>3. i = Len(stack)
  <2>1. SUFFICES ASSUME i < Len(stack) PROVE FALSE
    BY <1>1
  <2>2. Len(stack) \in (i + 1)..Len(stack)
    BY <1>1, <2>1
  <2> QED
    BY <1>1, <1>2, <2>2 DEF Owner
<1> QED
  BY <1>1, <1>2, <1>3 DEF Owner

\* A frame other than the top is where the event loop runs.
LEMMA BelowTop ==
    ASSUME TypeOK, Sound, NEW i \in 1..Len(stack), i # Len(stack)
    PROVE  stack[i].pc \in Pumping
<1>1. Len(stack) \in Nat
  <2>1. stack \in Seq(FrameType)
    BY Types
  <2> QED
    BY <2>1
<1>2. i < Len(stack)
  BY <1>1
<1> QED
  BY <1>2 DEF Sound, Frames

\* The top frame of a transfer with a connection moves on.
LEMMA TopMoves ==
    ASSUME TypeOK, TypeOK', Sound, ~shut, ~shut', stack # <<>>, Top.pc \notin Early,
           NEW fr \in FrameType, stack' = [stack EXCEPT ![Len(stack)] = fr],
           fr.own = Top.own, ~fr.zero, fr.pc \notin Early,
           UNCHANGED <<sockfd, fd0, cancelled>>, inbuf' = <<>>, ~strange',
           NEW k2 \in Records, k2.srv # "none",
           sockfd > 0 => /\ conn' = [conn EXCEPT ![sockfd] = k2]
                         /\ Shape(sockfd, k2, World') /\ Phase(fr, k2, World'),
           ~(sockfd > 0) => conn' = conn,
           Later(World, World'),
           SentIsStored', RecordIsOneForm'
    PROVE  Sound'
<1>1. stack \in Seq(FrameType) /\ conn \in [Conns -> Records]
  BY Types DEF Conned
<1> DEFINE n == Len(stack)
<1>2. /\ Len(stack') = n /\ \A i \in 1..(n - 1) : stack'[i] = stack[i]
      /\ stack'[n] = fr /\ n \in Nat /\ n \in 1..n
  BY <1>1, GotoStack, TopFrame
<1>a. \A i \in 1..n : i # n => stack[i].pc \in Pumping /\ ~stack[i].zero
  BY BelowTop DEF Sound, Frames
<1> HIDE DEF n
<1>3. Frames(stack')
  <2> SUFFICES ASSUME NEW i \in 1..n
               PROVE  ~stack'[i].zero /\ (i < n => stack'[i].pc \in Pumping)
    BY <1>2 DEF Frames
  <2>1. CASE i = n
    BY <1>2, <2>1
  <2>2. CASE i # n
    <3>1. i \in 1..(n - 1)
      BY <1>2, <2>2
    <3> QED
      BY <1>2, <1>a, <2>2, <3>1
  <2> QED
    BY <2>1, <2>2
<1>4. Owned(stack', sockfd', conn', World')
  <2> SUFFICES ASSUME sockfd > 0
               PROVE  /\ conn'[sockfd].srv # "none"
                      /\ \E i \in 1..Len(stack') :
                            Owner(i, stack', sockfd) /\ Phase(stack'[i], conn'[sockfd], World')
    BY DEF Owned
  <2>1. sockfd \in Conns /\ conn'[sockfd] = k2
    BY <1>1, AtHome
  <2>2. \A j \in (n + 1)..n : FALSE
    BY <1>2
  <2>3. Owner(n, stack', sockfd)
    BY <1>2, <2>2, TopOwns DEF Owner
  <2> QED
    BY <1>2, <2>1, <2>3
<1>5. Shapes(conn', World')
  <2> SUFFICES ASSUME NEW c \in Conns PROVE Shape(c, conn'[c], World')
    BY DEF Shapes
  <2>1. CASE sockfd > 0 /\ c = sockfd
    BY <1>1, <2>1
  <2>2. CASE ~(sockfd > 0 /\ c = sockfd)
    <3>1. conn'[c] = conn[c] /\ conn[c] \in Records
      BY <1>1, <2>2
    <3> QED
      BY <3>1, ShapeLater DEF Sound, Shapes
  <2> QED
    BY <2>1, <2>2
<1>6. fd0' = Stdin
  BY DEF Sound, Globals
<1> QED
  BY <1>3, <1>4, <1>5, <1>6, SoundAfter

\* The stack keeps its frames, and may get one more that has no connection.
Pushed(st, st2) ==
    /\ Len(st2) \in {Len(st), Len(st) + 1}
    /\ \A i \in 1..Len(st) : st2[i] = st[i]
    /\ Len(st2) = Len(st) + 1 => /\ st2[Len(st) + 1].pc \in Early
                                 /\ ~st2[Len(st) + 1].zero

\* The operator acts only where the event loop runs.
LEMMA AllPumping ==
    ASSUME TypeOK, Sound, Listening
    PROVE  \A i \in 1..Len(stack) : stack[i].pc \in Pumping
<1>1. ASSUME NEW i \in 1..Len(stack) PROVE stack[i].pc \in Pumping
  <2>1. CASE i = Len(stack)
    <3>1. stack # <<>> /\ stack[i] = Top
      BY <2>1 DEF Top
    <3> QED
      BY <3>1 DEF Listening
  <2>2. CASE i # Len(stack)
    BY <2>2, BelowTop
  <2> QED
    BY <2>1, <2>2
<1> QED
  BY <1>1

\* What the operator does, when the connections are left alone: the transfers in
\* the stack stay where they are.
LEMMA OperatorMoves ==
    ASSUME TypeOK, TypeOK', Sound, ~shut, ~shut', Listening, Pushed(stack, stack'),
           UNCHANGED <<conn, sockfd, fd0, inbuf, strange, db, mishap>>,
           \A f \in Forms : file[f].ver <= file'[f].ver,
           \A f \in Forms : ~file[f].sent => ~file'[f].sent,
           SentIsStored', RecordIsOneForm'
    PROVE  Sound'
<1>1. stack \in Seq(FrameType) /\ conn \in [Conns -> Records]
  BY Types DEF Conned
<1> DEFINE n == Len(stack)
<1>2. n \in Nat
  BY <1>1
<1>3. \A i \in 1..n : stack[i].pc \in Pumping /\ ~stack[i].zero /\ stack[i] \in FrameType
  BY <1>1, AllPumping DEF Sound, Frames
<1> HIDE DEF n
<1>4. /\ Len(stack') \in {n, n + 1} /\ \A i \in 1..n : stack'[i] = stack[i]
      /\ Len(stack') = n + 1 => stack'[n + 1].pc \in Early /\ ~stack'[n + 1].zero
  BY DEF Pushed, n
<1>5. Early \subseteq Pumping
  BY DEF Early, Pumping
<1>6. Frames(stack')
  <2> SUFFICES ASSUME NEW i \in 1..Len(stack')
               PROVE  ~stack'[i].zero /\ (i < Len(stack') => stack'[i].pc \in Pumping)
    BY DEF Frames
  <2>1. i \in 1..n \/ (i = n + 1 /\ Len(stack') = n + 1)
    BY <1>2, <1>4
  <2> QED
    BY <1>3, <1>4, <1>5, <2>1
<1>7. Later(World, World')
  BY WorldLater
<1>8. Owned(stack', sockfd', conn', World')
  <2> SUFFICES ASSUME sockfd > 0
               PROVE  /\ conn[sockfd].srv # "none"
                      /\ \E i \in 1..Len(stack') :
                            Owner(i, stack', sockfd) /\ Phase(stack'[i], conn[sockfd], World')
    BY DEF Owned
  <2>1. PICK i \in 1..n : Owner(i, stack, sockfd) /\ Phase(stack[i], conn[sockfd], World)
    BY DEF Sound, Owned, n
  <2>2. Owner(i, stack', sockfd)
    <3>1. ASSUME NEW j \in (i + 1)..Len(stack') PROVE stack'[j].pc \in Early
      <4>1. j \in (i + 1)..n \/ (j = n + 1 /\ Len(stack') = n + 1)
        BY <1>2, <1>4, <2>1
      <4>2. j \in (i + 1)..n => j \in 1..n /\ stack[j].pc \in Early
        BY <1>2, <2>1 DEF Owner, n
      <4> QED
        BY <1>4, <4>1, <4>2
    <3>2. i \in 1..Len(stack')
      BY <1>2, <1>4
    <3> QED
      BY <1>4, <2>1, <3>1, <3>2 DEF Owner
  <2>3. stack[i].pc \in Pumping /\ stack[i] \in FrameType
    BY <1>3
  <2>4. stack[i].pc = "form" => stack[i].dir \in Forms /\ ~file[stack[i].dir].sent
    BY <2>1, <2>3 DEF Phase, FrameType, World
  <2>5. stack[i].pc # "next" /\ stack[i].pc # "answer"
    BY <2>3 DEF Pumping
  <2>6. stack[i].pc = "form" => ~(World').file[stack[i].dir].sent
    BY <2>4 DEF World
  <2>a. Unsending(World, World')
    BY DEF Unsending, World
  <2>7. Phase(stack[i], conn[sockfd], World')
    BY <1>7, <2>1, <2>5, <2>6, <2>a, PhaseLater
  <2>8. i \in 1..Len(stack') /\ stack'[i] = stack[i]
    BY <1>2, <1>4
  <2> QED
    BY <2>2, <2>7, <2>8 DEF Sound, Owned
<1>9. Shapes(conn', World')
  BY <1>1, <1>7, ShapeLater DEF Sound, Shapes
<1> QED
  BY <1>6, <1>8, <1>9, SoundAfter DEF Sound, Globals

\* The operator keeps Sound: no form is saved between the writing of its text and
\* its answer, for apply_form does not run the event loop there.
LEMMA OperatorSound ==
    ASSUME TypeOK, TypeOK', Sound, ~shut, ~shut', Operator
    PROVE  Sound'
<1> USE DEF net, disk, user, hist
<1>1. stack \in Seq(FrameType) /\ \A f \in Forms : file[f].ver \in Nat
  BY WorldTypes, Types
<1>2. ASSUME NEW p \in {"pass_ok", "resolve"}, Enter(p)
      PROVE  Pushed(stack, stack') /\ Listening
  BY <1>1, <1>2, PushStack DEF Enter, Pushed, Frame, Early
<1>3. ASSUME Listening, Pushed(stack, stack'),
             UNCHANGED <<disk, net, mishap, strange>>
      PROVE  Sound'
  BY <1>1, <1>3, StoredKept, OperatorMoves
<1>4. ASSUME UNCHANGED stack PROVE Pushed(stack, stack')
  BY <1>1, <1>4 DEF Pushed
<1>5. CASE editor_send_clicked
  <2>1. Pushed(stack, stack') /\ Listening
    BY <1>2, <1>4, <1>5 DEF editor_send_clicked
  <2> QED
    BY <1>3, <1>5, <2>1 DEF editor_send_clicked
<1>6. CASE pass_ok_clicked
  BY <1>2, <1>3, <1>6 DEF pass_ok_clicked
<1>7. CASE pass_cancel_clicked
  BY <1>3, <1>4, <1>7 DEF pass_cancel_clicked
<1>8. CASE on_online_cancel_clicked
  BY <1>3, <1>4, <1>8 DEF on_online_cancel_clicked
<1>9. CASE on_online_ok_clicked
  BY <1>3, <1>4, <1>9 DEF on_online_ok_clicked
<1>10. ASSUME NEW f \in Forms, Save(f)
       PROVE  Sound'
  <2>1. /\ file' = [file EXCEPT ![f] = [ver |-> @.ver + 1, sent |-> FALSE]]
        /\ file \in [Forms -> [ver : 1..MaxVer, sent : BOOLEAN]]
        /\ UNCHANGED <<db, conn, sockfd, fd0, inbuf, stack, mishap, strange>> /\ Listening
    BY <1>10, Types DEF Save
  <2>2. /\ file'[f].ver = file[f].ver + 1 /\ ~file'[f].sent
        /\ \A g \in Forms : g # f => file'[g] = file[g]
    BY <2>1
  <2>3. /\ \A g \in Forms : file[g].ver <= file'[g].ver
        /\ \A g \in Forms : ~file[g].sent => ~file'[g].sent
    BY <1>1, <2>2
  <2>4. SentIsStored'
    <3> SUFFICES ASSUME NEW g \in Forms, file'[g].sent, mishap[g] = {}
                 PROVE  db[g] = Stored(g, file'[g].ver)
      BY <2>1 DEF SentIsStored
    <3> QED
      BY <2>2 DEF Sound, SentIsStored
  <2>5. RecordIsOneForm'
    <3> SUFFICES ASSUME NEW g \in Forms, "open" \notin mishap[g], db[g] # Nothing
                 PROVE  \E v \in 1..file'[g].ver : db[g] = Stored(g, v)
      BY <2>1 DEF RecordIsOneForm, Nothing
    <3>1. PICK v \in 1..file[g].ver : db[g] = Stored(g, v)
      BY DEF Sound, RecordIsOneForm
    <3>2. v \in 1..file'[g].ver
      BY <1>1, <2>2, <2>3
    <3> QED
      BY <3>1, <3>2
  <2> QED
    BY <1>4, <2>1, <2>3, <2>4, <2>5, OperatorMoves
<1> QED
  BY <1>5, <1>6, <1>7, <1>8, <1>9, <1>10 DEF Operator

\* A connection with nothing on it has a shape,
LEMMA EmptyShape ==
    ASSUME NEW k \in Records, NEW c, NEW w, Total(k) = 0, k.s2c = <<>>
    PROVE  Shape(c, k, w)
<1>1. k.c2s = <<>> /\ k.srv # "form" /\ Total(k) \in Nat
  BY Lengths
<1> QED
  BY <1>1 DEF Shape, Regular

\* a session that has ended has one,
LEMMA EndedShape ==
    /\ Ended \in Records /\ Fresh \in Records /\ Unmade \in Records
    /\ Total(Ended) = 0 /\ Total(Fresh) = 0 /\ Total(Unmade) = 0
    /\ \A c, w : Shape(c, Ended, w) /\ Shape(c, Fresh, w) /\ Shape(c, Unmade, w)
    /\ Ended.srv = "ended" /\ Ended.s2c = <<>> /\ Fresh.srv = "magic" /\ Fresh.s2c = <<>>
<1>1. <<>> \in Seq(Lines) /\ <<>> \in Seq(Conns \X {"500", "refused"})
  OBVIOUS
<1>2. Ended \in Records /\ Fresh \in Records /\ Unmade \in Records
  BY <1>1, Constants DEF Ended, Unmade, Fresh, Records, ConnType
<1>3. /\ Ended.srv = "ended" /\ Ended.c2s = <<>> /\ Ended.s2c = <<>>
      /\ Fresh.srv = "magic" /\ Fresh.c2s = <<>> /\ Fresh.s2c = <<>>
      /\ Unmade.srv = "none" /\ Unmade.c2s = <<>> /\ Unmade.s2c = <<>>
  BY DEF Ended, Unmade, Fresh
<1>4. Total(Ended) = 0 /\ Total(Fresh) = 0 /\ Total(Unmade) = 0
  BY <1>2, <1>3, Lengths
<1> QED
  BY <1>2, <1>3, <1>4, EmptyShape

\* a session in a form is in one that was named,
LEMMA NamesForm ==
    ASSUME NEW k \in Records, NEW c, NEW w, Shape(c, k, w), Names(k, 1)
    PROVE  Line(k, 1).form \in Forms
<1>1. Total(k) >= 1 /\ Line(k, 1).kind = "FILENAME"
  BY DEF Names
<1>2. CASE Regular(k, w)
  BY <1>1, <1>2 DEF Regular
<1>3. CASE Astray(k, w)
  <2>1. CASE k.srv = "form"
    <3>1. Offset(k) \in Nat /\ Offset(k) >= 1 /\ ~(1 > Offset(k))
      BY <2>1, Lengths
    <3> QED
      BY <1>3, <2>1, <3>1 DEF Line, Filename, Astray, Unopened
  <2>2. CASE k.srv # "form"
    <3>1. Offset(k) = 0 /\ 1 > 0 /\ 1 - 0 = 1 /\ 1 \in 1..Len(k.c2s)
      BY <1>1, <2>2, Lengths
    <3>2. Line(k, 1) = k.c2s[1]
      BY <3>1 DEF Line
    <3> QED
      BY <1>1, <1>3, <3>1, <3>2 DEF Astray, Unopened
  <2> QED
    BY <2>1, <2>2
<1> QED
  BY <1>2, <1>3 DEF Shape

\* and a record that is forgotten has one.
LEMMA TidyShape ==
    ASSUME NEW k \in Records, NEW c, NEW w, Shape(c, k, w)
    PROVE  Shape(c, Tidy(k), w) /\ Tidy(k) \in Records
BY EndedShape DEF Tidy

\* Lines do not depend on the link, nor on which ends are open.
LEMMA SameShape ==
    ASSUME NEW k, NEW k2, NEW c, NEW w, Shape(c, k, w),
           k2.srv = k.srv, k2.c2s = k.c2s, k2.s2c = k.s2c, k2.name = k.name,
           k2.body = k.body
    PROVE  Shape(c, k2, w)
<1>1. Offset(k2) = Offset(k) /\ Total(k2) = Total(k) /\ \A n : Line(k2, n) = Line(k, n)
  BY DEF Offset, Total, Line
<1>2. \A n : Names(k2, n) <=> Names(k, n)
  BY <1>1 DEF Names
<1>3. (Regular(k, w) => Regular(k2, w)) /\ (Astray(k, w) => Astray(k2, w))
  BY <1>1, <1>2 DEF Regular, Astray
<1> QED
  BY <1>1, <1>3 DEF Shape

\* The same lines are no more lines.
LEMMA SameShorter ==
    ASSUME NEW k \in Records, NEW k2 \in Records,
           k2.srv = k.srv, k2.c2s = k.c2s, k2.name = k.name, k2.body = k.body
    PROVE  Shorter(k, k2)
<1>1. Offset(k2) = Offset(k) /\ Total(k2) = Total(k) /\ \A n : Line(k2, n) = Line(k, n)
  BY DEF Offset, Total, Line
<1>2. Total(k) <= Total(k)
  BY Lengths
<1> QED
  BY <1>1, <1>2 DEF Shorter

\* Closing the client's end keeps the shape.
LEMMA ClosedShape ==
    ASSUME NEW k \in Records, NEW c, NEW w, Shape(c, k, w)
    PROVE  /\ [k EXCEPT !.open = FALSE] \in Records
           /\ Shape(c, [k EXCEPT !.open = FALSE], w)
<1> DEFINE k2 == [k EXCEPT !.open = FALSE]
<1>1. k2 \in Records
  BY DEF Records, ConnType
<1>2. /\ k2.srv = k.srv /\ k2.c2s = k.c2s /\ k2.s2c = k.s2c /\ k2.name = k.name
      /\ k2.body = k.body
  BY DEF Records, ConnType
<1> HIDE DEF k2
<1>3. Shape(c, k2, w)
  BY <1>2, SameShape
<1> QED
  BY <1>1, <1>3 DEF k2

\* The top frame moves without a connection, or leaves it.
LEMMA TopLeaves ==
    ASSUME TypeOK, TypeOK', Sound, ~shut, ~shut', stack # <<>>,
           Len(stack') \in {Len(stack), Len(stack) - 1},
           \A i \in 1..(Len(stack) - 1) : stack'[i] = stack[i],
           Len(stack') = Len(stack) =>
              /\ ~stack'[Len(stack)].zero
              /\ sockfd' > 0 => stack'[Len(stack)].pc \in Early,
           sockfd' > 0 => sockfd' = sockfd /\ Top.pc \in Early /\ conn' = conn,
           Shapes(conn', World'),
           UNCHANGED <<disk, fd0, inbuf, strange, mishap>>
    PROVE  Sound'
<1>1. stack \in Seq(FrameType)
  BY Types
<1> DEFINE n == Len(stack)
<1>2. n \in Nat /\ n \in 1..n /\ Top = stack[n]
  BY <1>1 DEF Top
<1>3. /\ Len(stack') \in {n, n - 1} /\ \A i \in 1..(n - 1) : stack'[i] = stack[i]
      /\ Len(stack') = n => /\ ~stack'[n].zero
                            /\ sockfd' > 0 => stack'[n].pc \in Early
  OBVIOUS
<1>4. \A i \in 1..n : ~stack[i].zero /\ (i # n => stack[i].pc \in Pumping)
                      /\ stack[i] \in FrameType
  BY <1>1, BelowTop DEF Sound, Frames
<1> HIDE DEF n
<1>5. Frames(stack')
  <2> SUFFICES ASSUME NEW i \in 1..Len(stack')
               PROVE  ~stack'[i].zero /\ (i < Len(stack') => stack'[i].pc \in Pumping)
    BY DEF Frames
  <2>1. i \in 1..(n - 1) \/ (i = n /\ Len(stack') = n)
    BY <1>2, <1>3
  <2>2. i \in 1..(n - 1) => i \in 1..n /\ i # n
    BY <1>2
  <2>3. ~(n < n)
    BY <1>2
  <2> QED
    BY <1>3, <1>4, <2>1, <2>2, <2>3
<1>6. SentIsStored' /\ RecordIsOneForm'
  BY StoredKept
<1>7. \A f \in Forms : file[f].ver \in Nat
  BY WorldTypes
<1>8. Later(World, World')
  BY <1>7, WorldLater DEF disk
<1>9. Owned(stack', sockfd', conn', World')
  <2> SUFFICES ASSUME sockfd' > 0
               PROVE  /\ conn'[sockfd'].srv # "none"
                      /\ \E i \in 1..Len(stack') :
                            Owner(i, stack', sockfd') /\ Phase(stack'[i], conn'[sockfd'], World')
    BY DEF Owned
  <2>1. sockfd' = sockfd /\ sockfd > 0 /\ conn' = conn /\ Top.pc \in Early
    OBVIOUS
  <2>2. PICK i \in 1..n : Owner(i, stack, sockfd) /\ Phase(stack[i], conn[sockfd], World)
    BY <2>1 DEF Sound, Owned, n
  <2>3. i # n
    BY <1>2, <2>1, <2>2 DEF Owner
  <2>4. i \in 1..(n - 1) /\ i \in 1..Len(stack') /\ stack'[i] = stack[i]
    BY <1>2, <1>3, <2>3
  <2>5. \A j \in (i + 1)..Len(stack') : stack'[j].pc \in Early
    <3> TAKE j \in (i + 1)..Len(stack')
    <3>1. j \in 1..(n - 1) \/ (j = n /\ Len(stack') = n)
      BY <1>2, <1>3, <2>2
    <3>2. j \in (i + 1)..n
      BY <1>2, <1>3
    <3>3. stack[j].pc \in Early
      BY <2>2, <3>2 DEF Owner, n
    <3> QED
      BY <1>3, <3>1, <3>3
  <2>6. Owner(i, stack', sockfd)
    BY <2>2, <2>4, <2>5 DEF Owner
  <2>7. stack[i].pc \in Pumping /\ stack[i] \in FrameType
    BY <1>4, <2>3
  <2>8. stack[i].pc # "next" /\ stack[i].pc # "answer"
    BY <2>7 DEF Pumping
  <2>9. stack[i].pc = "form" => ~(World').file[stack[i].dir].sent
    BY <2>2 DEF Phase, World, disk
  <2>a. Unsending(World, World')
    BY DEF Unsending, World, disk
  <2>10. Phase(stack[i], conn[sockfd], World')
    BY <1>8, <2>2, <2>8, <2>9, <2>a, PhaseLater
  <2> QED
    BY <2>1, <2>4, <2>6, <2>10 DEF Sound, Owned
<1> QED
  BY <1>5, <1>6, <1>9, SoundAfter DEF Sound, Globals

-----------------------------------------------------------------------------
(* Connecting *)

\* The making of the connection keeps Sound.
LEMMA ConnectSound ==
    ASSUME TypeOK, TypeOK', Sound, ~shut, ~shut',
           BeginAfterPass \/ Socket \/ ConnectFails \/ GiveUp
    PROVE  Sound'
<1> USE DEF net, hist
<1>1. stack \in Seq(FrameType) /\ conn \in [Conns -> Records]
  BY Types DEF Conned
<1>2. ASSUME NEW p, Running(p)
      PROVE  /\ stack # <<>> /\ Top.pc = p /\ Len(stack) \in Nat /\ Len(stack) \in 1..Len(stack)
             /\ Top = stack[Len(stack)] /\ ~Top.zero /\ Top \in FrameType
  BY <1>1, <1>2, TopFrame DEF Running, Top, Sound, Frames
<1>3. ASSUME UNCHANGED <<conn, disk, mishap>> PROVE Shapes(conn', World')
  <2>1. \A f \in Forms : file[f].ver \in Nat
    BY WorldTypes
  <2>2. Later(World, World')
    BY <1>3, <2>1, WorldLater DEF disk
  <2> QED
    BY <1>1, <1>3, <2>2, ShapeLater DEF Sound, Shapes
<1>4. ASSUME NEW p, Running(p), Return
      PROVE  /\ Len(stack') = Len(stack) - 1
             /\ \A i \in 1..(Len(stack) - 1) : stack'[i] = stack[i]
             /\ Len(stack') # Len(stack)
  BY <1>1, <1>2, <1>4, ReturnStack
<1>5. ASSUME NEW p, Running(p), NEW q \in Pcs \ {"form", "answer"}, Goto(q)
      PROVE  /\ Len(stack') = Len(stack)
             /\ \A i \in 1..(Len(stack) - 1) : stack'[i] = stack[i]
             /\ stack'[Len(stack)].pc = q /\ ~stack'[Len(stack)].zero
  <2>1. /\ Len(stack') = Len(stack) /\ \A i \in 1..(Len(stack) - 1) : stack'[i] = stack[i]
        /\ stack'[Len(stack)] = [Top EXCEPT !.pc = q]
    BY <1>1, <1>2, <1>5, GotoFrame
  <2>2. ~Top.zero /\ Top \in FrameType
    BY <1>2, <1>5
  <2>3. [Top EXCEPT !.pc = q].pc = q /\ [Top EXCEPT !.pc = q].zero = Top.zero
    BY <2>2 DEF FrameType
  <2> QED
    BY <2>1, <2>2, <2>3
<1>6. CASE BeginAfterPass
  <2>1. Top.pc \in Early /\ stack # <<>>
    BY <1>2, <1>6 DEF BeginAfterPass, Early
  <2>2. CASE Goto("resolve")
    <3>1. "resolve" \in Pcs \ {"form", "answer"} /\ "resolve" \in Early
      BY DEF Pcs, Pumping, Early
    <3>2. /\ Len(stack') = Len(stack)
          /\ \A i \in 1..(Len(stack) - 1) : stack'[i] = stack[i]
          /\ stack'[Len(stack)].pc \in Early /\ ~stack'[Len(stack)].zero
      BY <1>5, <1>6, <2>2, <3>1 DEF BeginAfterPass
    <3> QED
      BY <1>3, <1>6, <2>1, <3>2, TopLeaves DEF BeginAfterPass
  <2>3. CASE Return
    BY <1>3, <1>4, <1>6, <2>1, <2>3, TopLeaves DEF BeginAfterPass
  <2> QED
    BY <1>6, <2>2, <2>3 DEF BeginAfterPass
<1>7. CASE Socket
  <2> DEFINE fr == [Top EXCEPT !.pc = "connect", !.zero = (fd0 = Closed)]
  <2>1. Top.pc \in Early /\ stack # <<>> /\ Top \in FrameType
    BY <1>2, <1>7 DEF Socket, Early
  <2>2. fd0 # Closed
    BY DEF Sound, Globals, Stdin, Closed
  <2>3. fr \in FrameType /\ ~fr.zero /\ fr.pc \in Early
    BY <2>1, <2>2 DEF FrameType, Pumping, Early
  <2>4. stack' = [stack EXCEPT ![Len(stack)] = fr] /\ fd0' = fd0
    BY <1>7, <2>2 DEF Socket, Top
  <2> HIDE DEF fr
  <2>5. /\ Len(stack') = Len(stack) /\ \A i \in 1..(Len(stack) - 1) : stack'[i] = stack[i]
        /\ stack'[Len(stack)] = fr
    BY <1>1, <2>1, <2>3, <2>4, GotoStack
  <2> QED
    BY <1>3, <1>7, <2>1, <2>3, <2>4, <2>5, TopLeaves DEF Socket
<1>8. CASE ConnectFails
  <2>1. stack # <<>> /\ ~Top.zero
    BY <1>2, <1>8 DEF ConnectFails
  <2>2. "connected" \in Pcs \ {"form", "answer"}
    BY DEF Pcs, Pumping
  <2>3. /\ Len(stack') = Len(stack)
        /\ \A i \in 1..(Len(stack) - 1) : stack'[i] = stack[i]
        /\ ~stack'[Len(stack)].zero
    BY <1>5, <1>8, <2>2 DEF ConnectFails
  <2>4. sockfd' = -1 /\ ~(-1 > 0) /\ fd0' = fd0
    BY <1>8, <2>1 DEF ConnectFails
  <2> QED
    BY <1>3, <1>8, <2>1, <2>3, <2>4, TopLeaves DEF ConnectFails
<1>9. CASE GiveUp
  <2>1. sockfd' = -1 /\ ~(-1 > 0) /\ stack # <<>>
    BY <1>2, <1>9 DEF GiveUp
  <2> QED
    BY <1>3, <1>4, <1>9, <2>1, TopLeaves DEF GiveUp
<1> QED
  BY <1>6, <1>7, <1>8, <1>9

\* QUIT after the last form, or after a cancellation.
LEMMA DismissedShape ==
    ASSUME NEW k \in Records, NEW fr, NEW c, NEW w, NEW w2, fr.pc = "quit",
           Phase(fr, k, w), Shape(c, k, w2), Later(w, w2)
    PROVE  Shape(c, Tidy(Dismissed(k)), w2)
<1> DEFINE k2 == Dismissed(k)
<1>1. CASE k.srv = "ended"
  <2>1. Tidy(k2) = Ended
    BY <1>1 DEF Tidy, Dismissed, Records, ConnType
  <2> QED
    BY <2>1, EndedShape
<1>2. CASE k.link # "up"
  <2>1. k2 = [k EXCEPT !.open = FALSE]
    BY <1>2 DEF Dismissed, Records, ConnType
  <2> QED
    BY <2>1, ClosedShape, TidyShape
<1>3. CASE Live(k)
  <2> DEFINE q  == Word("QUIT")
             k1 == [k EXCEPT !.c2s = @ \o <<q>>]
  <2>1. q \in Lines /\ q.kind = "QUIT"
    BY Said DEF Words, Word
  <2>2. k.c2s \in Seq(Lines) /\ <<q>> \in Seq(Lines) /\ Len(<<q>>) = 1
    BY <2>1, Lengths
  <2>3. k.c2s \o <<q>> = Append(k.c2s, q) /\ k.c2s \o <<q>> \in Seq(Lines)
    BY <2>1, <2>2
  <2>4. k1 \in Records
    BY <2>3 DEF Records, ConnType
  <2>5. k2 = [k1 EXCEPT !.open = FALSE]
    BY <1>3, <2>3 DEF Dismissed, Live, Records, ConnType
  <2> HIDE DEF q
  <2>6. k1.srv = k.srv /\ k1.s2c = k.s2c /\ k1.name = k.name
    BY DEF Records, ConnType
  <2>7. /\ Total(k1) = Total(k) + 1 /\ \A n \in 1..Total(k) : Line(k1, n) = Line(k, n)
        /\ Line(k1, Total(k) + 1) = q
        /\ Len(k1.c2s) = Len(k.c2s) + 1
        /\ \A i \in 1..Len(k.c2s) : k1.c2s[i] = k.c2s[i]
        /\ k1.c2s[Len(k.c2s) + 1] = q
    <3>1. 1 \in 1..Len(<<q>>) /\ <<q>>[1] = q
      BY <2>2
    <3> DEFINE t == <<q>>
    <3>2. t \in Seq(Lines) /\ Wrote(k, k1, t)
      BY <2>2 DEF Wrote
    <3>4. k \in Records /\ k1 \in Records
      BY <2>4
    <3> HIDE DEF k1, t
    <3>3. /\ Total(k1) = Total(k) + Len(t) /\ \A n \in 1..Total(k) : Line(k1, n) = Line(k, n)
          /\ \A i \in 1..Len(t) : Line(k1, Total(k) + i) = t[i]
          /\ Len(k1.c2s) = Len(k.c2s) + Len(t)
          /\ \A i \in 1..Len(k.c2s) : k1.c2s[i] = k.c2s[i]
          /\ \A i \in 1..Len(t) : k1.c2s[Len(k.c2s) + i] = t[i]
      <4>1. Longer(k, k1, t)
        BY ONLY <3>2, <3>4, Written
      <4> QED
        BY ONLY <4>1 DEF Longer
    <3> QED
      BY <2>2, <3>1, <3>3 DEF t
  <2> HIDE DEF k1
  <2>8. /\ k.srv \in {"cmd", "form"} /\ NoDot(k) /\ k.s2c = <<>>
        /\ \/ Total(k) = 0
           \/ Total(k) = 1 /\ Names(k, 1)
           \/ Total(k) = 2 /\ Names(k, 1) /\ Names(k, 2)
           \/ Lost(fr, k, w)
    BY <1>3 DEF Phase, Talk, Sending, Waiting
  <2>9. Regular(k1, w2) \/ Astray(k1, w2)
    <3>1. CASE Lost(fr, k, w)
      <4>1. Astray(k, w2)
        BY <3>1, AstrayLater DEF Lost
      <4>2. ASSUME NEW i \in 1..Len(k1.c2s), k1.c2s[i].kind = "FILENAME"
            PROVE  Unopened(k1.c2s[i].form, w2)
        <5>1. i \in 1..Len(k.c2s) \/ i = Len(k.c2s) + 1
          BY <2>7, Lengths
        <5> QED
          BY <2>1, <2>7, <4>1, <4>2, <5>1 DEF Astray
      <4> QED
        BY <2>6, <4>1, <4>2 DEF Astray
    <3>2. CASE Total(k) = 0
      BY <2>1, <2>7, <3>2 DEF Regular, Names
    <3>3. CASE Total(k) = 1 /\ Names(k, 1)
      <4>1. Total(k1) = 2 /\ Line(k1, 1) = Line(k, 1) /\ Line(k1, 2) = q /\ Names(k1, 1)
        BY <2>7, <3>3 DEF Names
      <4>2. Line(k, 1).form \in Forms
        BY <3>3, NamesForm
      <4> QED
        BY <2>1, <3>3, <4>1, <4>2 DEF Regular, Names
    <3>4. CASE Total(k) = 2 /\ Names(k, 1) /\ Names(k, 2)
      <4>1. /\ Total(k1) = 3 /\ Line(k1, 1) = Line(k, 1) /\ Line(k1, 3) = q
            /\ Line(k1, 2) = Line(k, 2) /\ Names(k1, 1) /\ Names(k1, 2)
        BY <2>7, <3>4 DEF Names
      <4>2. Line(k, 1).form \in Forms
        BY <3>4, NamesForm
      <4> QED
        BY <2>1, <3>4, <4>1, <4>2 DEF Regular, Names
    <3> QED
      BY <2>8, <3>1, <3>2, <3>3, <3>4
  <2>10. \A i \in 1..(Len(k1.c2s) - 1) : k1.c2s[i].kind # "."
    <3>1. Len(k1.c2s) - 1 = Len(k.c2s)
      BY <2>7, Lengths
    <3> QED
      BY <2>7, <2>8, <3>1 DEF NoDot
  <2>11. Shape(c, k1, w2)
    BY <2>6, <2>8, <2>9, <2>10 DEF Shape, Login
  <2> QED
    BY <2>4, <2>5, <2>11, ClosedShape, TidyShape
<1> QED
  BY <1>1, <1>2, <1>3 DEF Live

\* The socket is closed, and the transfer returns.
LEMMA CloseSound ==
    ASSUME TypeOK, TypeOK', Sound, ~shut, ~shut', LoginFails \/ SendFilenameFails \/ Quit
    PROVE  Sound'
<1> USE DEF net, hist
<1>1. stack \in Seq(FrameType) /\ conn \in [Conns -> Records]
  BY Types DEF Conned
<1>2. stack # <<>> /\ Return /\ UNCHANGED <<disk, inbuf, strange, mishap>>
  BY DEF LoginFails, SendFilenameFails, Quit, Finish, Running
<1>3. /\ Len(stack') = Len(stack) - 1 /\ Len(stack') # Len(stack)
      /\ \A i \in 1..(Len(stack) - 1) : stack'[i] = stack[i]
  BY <1>1, <1>2, ReturnStack
<1>4. Later(World, World')
  <2>1. \A f \in Forms : file[f].ver \in Nat
    BY WorldTypes
  <2> QED
    BY <1>2, <2>1, WorldLater DEF disk
<1>5. Shapes(conn, World')
  BY <1>1, <1>4, ShapeLater DEF Sound, Shapes
<1>6. CASE CloseSocket
  <2>1. sockfd' = 0 /\ fd0' = fd0
    BY <1>6 DEF CloseSocket
  <2>2. Shapes(conn', World')
    <3> SUFFICES ASSUME NEW c \in Conns PROVE Shape(c, conn'[c], World')
      BY DEF Shapes
    <3>1. CASE Linked /\ c = Peer
      <4>1. conn'[c] = Tidy([conn[c] EXCEPT !.open = FALSE])
        BY <1>1, <1>6, <3>1 DEF CloseSocket
      <4>2. conn[c] \in Records /\ Shape(c, conn[c], World')
        BY <1>1, <1>5 DEF Shapes
      <4> QED
        BY <4>1, <4>2, ClosedShape, TidyShape
    <3>2. CASE ~(Linked /\ c = Peer)
      <4>1. conn'[c] = conn[c]
        BY <1>1, <1>6, <3>2 DEF CloseSocket
      <4> QED
        BY <1>5, <4>1 DEF Shapes
    <3> QED
      BY <3>1, <3>2
  <2>3. ~(0 > 0)
    OBVIOUS
  <2> QED
    BY <1>2, <1>3, <2>1, <2>2, <2>3, TopLeaves
<1>7. CASE Quit
  <2>1. ~(sockfd' > 0) /\ fd0' = fd0
    BY <1>7 DEF Quit
  <2>2. CASE sockfd > 0
    <3> DEFINE k == conn[sockfd]
               k2 == Dismissed(k)
    <3>1. /\ conn' = [conn EXCEPT ![sockfd] = Tidy(k2)] /\ stack # <<>>
          /\ Top.pc = "quit"
      BY <1>7, <2>2 DEF Quit, Running
    <3>2. /\ sockfd \in Conns /\ k \in Records /\ Shape(sockfd, k, World)
          /\ Phase(Top, k, World)
      BY <2>2, <3>1, AtHome, TopOwns DEF Early
    <3>3. Shape(sockfd, k, World')
      BY <1>5, <3>2 DEF Shapes
    <3>4. Shape(sockfd, Tidy(k2), World')
      BY <1>4, <3>1, <3>2, <3>3, DismissedShape
    <3> HIDE DEF k2, k
    <3>5. Shapes(conn', World')
      BY <1>1, <1>5, <3>1, <3>2, <3>4 DEF Shapes
    <3> QED
      BY <1>2, <1>3, <2>1, <3>5, TopLeaves
  <2>3. CASE ~(sockfd > 0)
    <3>1. conn' = conn
      BY <1>7, <2>3 DEF Quit
    <3> QED
      BY <1>2, <1>3, <1>5, <2>1, <3>1, TopLeaves
  <2> QED
    BY <2>2, <2>3
<1> QED
  BY <1>6, <1>7 DEF LoginFails, SendFilenameFails

\* What follows the making of it keeps Sound.
LEMMA ConnectedSound ==
    ASSUME TypeOK, TypeOK', Sound, ~shut, ~shut', Connect
    PROVE  Sound'
<1> USE DEF net, hist
<1>1. stack \in Seq(FrameType) /\ conn \in [Conns -> Records]
  BY Types DEF Conned
<1>2. PICK c \in Conns \ Made :
        /\ stack' = [stack EXCEPT ![Len(stack)] =
                        [@ EXCEPT !.pc = "connected", !.own = c]]
        /\ conn' = [conn EXCEPT ![c] = Fresh]
        /\ sockfd' = IF Top.zero THEN 0 ELSE c
        /\ fd0' = IF Top.zero THEN c ELSE fd0
  BY DEF Connect
<1> DEFINE n == Len(stack)
           fr == [Top EXCEPT !.pc = "connected", !.own = c]
<1>3. /\ stack # <<>> /\ Top \in FrameType /\ ~Top.zero /\ n \in Nat /\ n \in 1..n
      /\ Top = stack[n]
  BY <1>1, TopFrame DEF Connect, Running, Top, Sound, Frames
<1>4. fr \in FrameType /\ ~fr.zero /\ fr.pc = "connected" /\ fr.own = c
  BY <1>3, Constants DEF FrameType, Pumping
<1>5. sockfd' = c /\ fd0' = fd0 /\ stack' = [stack EXCEPT ![n] = fr]
  BY <1>2, <1>3 DEF Top
<1> HIDE DEF fr
<1>6. /\ Len(stack') = n /\ \A i \in 1..(n - 1) : stack'[i] = stack[i] /\ stack'[n] = fr
  BY <1>1, <1>3, <1>4, <1>5, GotoStack
<1>7. \A i \in 1..n : i # n => stack[i].pc \in Pumping /\ ~stack[i].zero
  BY BelowTop DEF Sound, Frames
<1>8. stack'[n] = fr
  BY <1>1, <1>3, <1>4, <1>5, GotoStack
<1> HIDE DEF n
<1>9. Frames(stack')
  <2> SUFFICES ASSUME NEW i \in 1..n
               PROVE  ~stack'[i].zero /\ (i < n => stack'[i].pc \in Pumping)
    BY <1>6 DEF Frames
  <2>1. CASE i = n
    BY <1>3, <1>4, <1>8, <2>1
  <2>2. CASE i # n
    <3>1. i \in 1..(n - 1)
      BY <1>3, <2>2
    <3> QED
      BY <1>6, <1>7, <2>2, <3>1
  <2> QED
    BY <2>1, <2>2
<1>10. Phase(fr, Fresh, World')
  <2>1. Talk(fr, Fresh, World')
    BY <1>4, EndedShape DEF Talk, Asking, Waiting, Sending, Asked
  <2>2. Dots(fr, Fresh, World')
    BY EndedShape, Lengths DEF Dots
  <2> QED
    BY <1>4, <2>1, <2>2, EndedShape DEF Phase
<1>11. Owned(stack', sockfd', conn', World')
  <2>1. \A j \in (n + 1)..n : FALSE
    BY <1>3
  <2>2. Owner(n, stack', c)
    BY <1>3, <1>4, <1>6, <1>8, <2>1 DEF Owner, Early
  <2>3. conn'[c] = Fresh
    BY <1>1, <1>2
  <2> QED
    BY <1>3, <1>5, <1>6, <1>8, <1>10, <2>2, <2>3, EndedShape DEF Owned
<1>12. Later(World, World')
  <2>1. \A f \in Forms : file[f].ver \in Nat
    BY WorldTypes
  <2> QED
    BY <2>1, WorldLater DEF Connect, disk
<1>13. Shapes(conn', World')
  BY <1>1, <1>2, <1>12, ShapeLater, EndedShape DEF Sound, Shapes
<1>14. SentIsStored' /\ RecordIsOneForm'
  BY StoredKept DEF Connect
<1> QED
  BY <1>5, <1>9, <1>11, <1>13, <1>14, SoundAfter DEF Connect, Sound, Globals

\* A step of the top frame that leaves the files and the connections alone.
LEMMA TopTurns ==
    ASSUME TypeOK, TypeOK', Sound, ~shut, ~shut', stack # <<>>, Top.pc \notin Early,
           NEW q \in Pcs \ Early, Goto(q),
           q \in {"form", "answer"} => Top.dir \in Forms,
           UNCHANGED <<disk, conn, sockfd, fd0, inbuf, strange, cancelled>>,
           \A f \in Forms : mishap[f] \subseteq mishap'[f],
           ASSUME sockfd > 0, Phase(Top, conn[sockfd], World),
                  Later(World, World'), Unsending(World, World'),
                  World'.cancelled = cancelled,
                  World'.file = file, World'.mishap = mishap', World'.db = db
           PROVE  Phase([Top EXCEPT !.pc = q], conn[sockfd], World')
    PROVE  Sound'
<1> DEFINE fr == [Top EXCEPT !.pc = q]
<1>1. stack \in Seq(FrameType) /\ conn \in [Conns -> Records]
  BY Types DEF Conned
<1>2. Top \in FrameType /\ ~Top.zero
  BY <1>1, TopFrame DEF Sound, Frames, Top
<1>3. stack' = [stack EXCEPT ![Len(stack)] = fr] /\ fr \in FrameType
  BY <1>1, GotoFrame
<1>4. fr.own = Top.own /\ ~fr.zero /\ fr.pc = q
  BY <1>2 DEF FrameType
<1>5. Later(World, World')
  <2>1. \A f \in Forms : file[f].ver \in Nat
    BY WorldTypes
  <2> QED
    BY <2>1, WorldLater DEF disk
<1>6. SentIsStored' /\ RecordIsOneForm'
  BY StoredKept
<1>7. /\ World'.cancelled = cancelled /\ World'.file = file /\ World'.mishap = mishap'
      /\ World'.db = db /\ Unsending(World, World')
  BY DEF World, disk, Unsending
<1>8. CASE sockfd > 0
  <2>1. /\ sockfd \in Conns /\ conn[sockfd] \in Records /\ conn[sockfd].srv # "none"
        /\ Shape(sockfd, conn[sockfd], World)
    BY <1>8, AtHome
  <2>2. Phase(Top, conn[sockfd], World)
    BY <1>8, TopOwns
  <2>3. Phase(fr, conn[sockfd], World')
    BY <1>5, <1>7, <1>8, <2>2
  <2>4. Shape(sockfd, conn[sockfd], World')
    BY <1>5, <2>1, ShapeLater
  <2>5. conn' = [conn EXCEPT ![sockfd] = conn[sockfd]]
    BY <1>1, <2>1
  <2>6. inbuf' = <<>> /\ ~strange'
    BY DEF Sound, Globals
  <2> HIDE DEF fr
  <2> QED
    BY <1>3, <1>4, <1>5, <1>6, <2>1, <2>3, <2>4, <2>5, <2>6, TopMoves
<1>9. CASE ~(sockfd > 0)
  <2>1. inbuf' = <<>> /\ ~strange'
    BY DEF Sound, Globals
  <2>2. Fresh \in Records /\ Fresh.srv # "none"
    BY EndedShape
  <2> HIDE DEF fr
  <2> QED
    BY <1>3, <1>4, <1>5, <1>6, <1>9, <2>1, <2>2, TopMoves
<1> QED
  BY <1>8, <1>9

-----------------------------------------------------------------------------
(* The login *)

\* A step of the top frame that writes: the lines go out, or the connection is
\* down and nothing changes.
LEMMA WriteCases ==
    ASSUME TypeOK, Sound, NEW toks \in Seq(Lines), WriteOk(toks)
    PROVE  \/ /\ sockfd > 0 /\ Live(conn[sockfd])
              /\ conn' = [conn EXCEPT ![sockfd] = [conn[sockfd] EXCEPT !.c2s = @ \o toks]]
              /\ [conn[sockfd] EXCEPT !.c2s = @ \o toks] \in Records
           \/ conn' = conn /\ (sockfd > 0 => ~Live(conn[sockfd]))
<1>1. CASE sockfd > 0
  <2>1. Peer = sockfd /\ sockfd \in Conns /\ conn[sockfd] \in Records /\ conn \in [Conns -> Records]
    BY <1>1, AtHome, Types DEF Conned
  <2>2. Peer # Stdin
    BY <1>1, <2>1, Constants DEF Stdin
  <2>3. CASE Live(conn[sockfd])
    <3>1. conn' = [conn EXCEPT ![sockfd].c2s = @ \o toks]
      BY <2>1, <2>2, <2>3 DEF WriteOk, Live
    <3>2. conn[sockfd].c2s \o toks \in Seq(Lines)
      BY <2>1, Lengths
    <3>3. [conn[sockfd] EXCEPT !.c2s = @ \o toks] \in Records
      BY <2>1, <3>2 DEF Records, ConnType
    <3> QED
      BY <1>1, <2>3, <3>1, <3>3
  <2>4. CASE ~Live(conn[sockfd])
    BY <2>1, <2>2, <2>4 DEF WriteOk, Live
  <2> QED
    BY <2>3, <2>4
<1>2. CASE ~(sockfd > 0)
  BY <1>2, AtHome DEF WriteOk
<1> QED
  BY <1>1, <1>2

\* A step of the top frame that could not write changes no connection.
LEMMA FailCases ==
    ASSUME TypeOK, Sound, WriteFails
    PROVE  conn' = conn /\ (sockfd > 0 => ~Live(conn[sockfd]))
BY AtHome DEF WriteFails, WriteMayFail, Live

\* One line is read, or the connection is down.
LEMMA ReadCases ==
    ASSUME TypeOK, Sound, NEW a, ReadLine(a)
    PROVE  /\ sockfd > 0 /\ inbuf' = <<>> /\ conn[sockfd].s2c # <<>>
           /\ a = conn[sockfd].s2c[1] /\ a[1] = sockfd /\ Total(conn[sockfd]) = 0
           /\ conn' = [conn EXCEPT ![sockfd] = [conn[sockfd] EXCEPT !.s2c = <<>>]]
           /\ [conn[sockfd] EXCEPT !.s2c = <<>>] \in Records
           /\ Shape(sockfd, [conn[sockfd] EXCEPT !.s2c = <<>>], World)
<1>1. inbuf = <<>> /\ Linked
  BY DEF ReadLine, Sound, Globals
<1>2. /\ sockfd > 0 /\ Peer = sockfd /\ sockfd \in Conns /\ conn[sockfd] \in Records
      /\ Shape(sockfd, conn[sockfd], World)
  BY <1>1, AtHome
<1> DEFINE k == conn[sockfd]  k2 == [k EXCEPT !.s2c = <<>>]
<1>3. /\ k.s2c # <<>> /\ a = Head(k.s2c) /\ inbuf' = Tail(k.s2c)
      /\ conn' = [conn EXCEPT ![sockfd] = k2]
  BY <1>1, <1>2 DEF ReadLine
<1>4. k.s2c \in Seq(Answers) /\ Len(k.s2c) <= 1
  BY <1>2 DEF Records, ConnType, Shape, Answers
<1>5. a = k.s2c[1] /\ Tail(k.s2c) = <<>>
  BY <1>3, <1>4
<1>6. a[1] = sockfd /\ Total(k) = 0
  BY <1>2, <1>3, <1>5 DEF Shape
<1>7. <<>> \in Seq(Conns \X {"500", "refused"})
  OBVIOUS
<1>8. k2 \in Records
  BY <1>2, <1>7 DEF Records, ConnType
<1>9. k2.srv = k.srv /\ k2.c2s = k.c2s /\ k2.s2c = <<>>
  BY <1>2 DEF Records, ConnType
<1>10. Total(k2) = 0
  BY <1>2, <1>6, <1>8, <1>9, Lengths
<1>11. Shape(sockfd, k2, World)
  BY <1>8, <1>9, <1>10, EmptyShape
<1> QED
  BY <1>2, <1>3, <1>5, <1>6, <1>8, <1>11

\* Facts about the top frame of a running transfer.
LEMMA TopFacts ==
    ASSUME TypeOK, Sound, NEW p, Running(p), p \notin Early
    PROVE  /\ stack # <<>> /\ Top.pc = p /\ Top.pc \notin Early /\ ~Top.zero
           /\ Top \in FrameType /\ conn \in [Conns -> Records]
           /\ stack \in Seq(FrameType)
           /\ sockfd > 0 => Phase(Top, conn[sockfd], World) /\ Top.own = sockfd
<1>1. stack \in Seq(FrameType) /\ conn \in [Conns -> Records]
  BY Types DEF Conned
<1>2. stack # <<>> /\ Top.pc = p
  BY DEF Running
<1>3. Top \in FrameType /\ ~Top.zero
  BY <1>1, <1>2, TopFrame DEF Sound, Frames, Top
<1> QED
  BY <1>1, <1>2, <1>3, TopOwns

\* The point of the top frame.
LEMMA TopAt ==
    ASSUME NEW fr \in FrameType, NEW q
    PROVE  /\ [fr EXCEPT !.pc = q].pc = q /\ [fr EXCEPT !.pc = q].dir = fr.dir
           /\ [fr EXCEPT !.pc = q].own = fr.own /\ [fr EXCEPT !.pc = q].zero = fr.zero
BY DEF FrameType

\* Nothing has happened to the world.
LEMMA SameLater ==
    ASSUME TypeOK, TypeOK', UNCHANGED <<file, mishap>>
    PROVE  Later(World, World')
<1>1. \A f \in Forms : file[f].ver \in Nat
  BY WorldTypes
<1> QED
  BY <1>1, WorldLater

\* A sequence of one line.
LEMMA OneLine ==
    ASSUME NEW S, NEW x \in S
    PROVE  <<x>> \in Seq(S) /\ Len(<<x>>) = 1 /\ <<x>>[1] = x
OBVIOUS

\* A word of the login on a connection where nothing else is.
LEMMA WordWritten ==
    ASSUME NEW k \in Records, Total(k) = 0, k.s2c = <<>>, k.srv \in Login,
           NEW x \in Lines, x.kind \notin {"text", ".", "FILENAME"},
           NEW k2 \in Records, k2 = [k EXCEPT !.c2s = @ \o <<x>>],
           NEW c, NEW w
    PROVE  /\ Total(k2) = 1 /\ k2.srv = k.srv /\ k2.s2c = <<>> /\ Shape(c, k2, w)
           /\ NoDot(k2)
<1> DEFINE t == <<x>>
<1>1. t \in Seq(Lines) /\ Len(t) = 1 /\ t[1] = x /\ Wrote(k, k2, t)
  BY OneLine DEF Wrote
<1> HIDE DEF t
<1>2. k2.srv = k.srv /\ k2.s2c = <<>>
  BY DEF Records, ConnType
<1>3. k.c2s = <<>> /\ Len(k.c2s) = 0
  BY Lengths
<1>4. /\ Total(k2) = Total(k) + Len(t) /\ Len(k2.c2s) = Len(k.c2s) + Len(t)
      /\ \A i \in 1..Len(t) : Line(k2, Total(k) + i) = t[i]
      /\ \A i \in 1..Len(t) : k2.c2s[Len(k.c2s) + i] = t[i]
  <2>1. k \in Records /\ k2 \in Records
    OBVIOUS
  <2>2. Longer(k, k2, t)
    BY ONLY <1>1, <2>1, Written
  <2> QED
    BY ONLY <2>2 DEF Longer
<1>5. Total(k2) = 1 /\ Len(k2.c2s) = 1 /\ Line(k2, 1) = x
  BY <1>1, <1>3, <1>4
<1>6. Regular(k2, w)
  <2>1. Total(k2) <= 3 /\ ~(Total(k2) >= 2) /\ x.kind # "FILENAME"
    BY <1>5
  <2>2. ~Names(k2, 1)
    BY <1>5, <2>1 DEF Names
  <2> QED
    BY <1>5, <2>1, <2>2 DEF Regular
<1>7. \A i \in 1..(Len(k2.c2s) - 1) : k2.c2s[i].kind # "."
  BY <1>5
<1>8. k2.srv \notin {"ended", "none"} /\ Len(k2.c2s) <= 1
  BY <1>2, <1>5 DEF Login
<1>9. NoDot(k2)
  <2>1. k2.c2s[1] = x
    <3>1. 1 \in 1..Len(t) /\ Len(k.c2s) + 1 = 1
      BY <1>1, <1>3
    <3>2. k2.c2s[Len(k.c2s) + 1] = t[1]
      BY ONLY <1>4, <3>1
    <3> QED
      BY ONLY <1>1, <3>1, <3>2
  <2> QED
    BY <1>5, <2>1 DEF NoDot
<1> QED
  BY <1>2, <1>5, <1>6, <1>7, <1>8, <1>9 DEF Shape

\* The word of the login that is written.
LEMMA SaySound ==
    ASSUME TypeOK, TypeOK', Sound, ~shut, ~shut',
           NEW p, NEW q, NEW w, Say(p, q, w),
           <<p, q>> \in {<<"magic", "magic?">>, <<"user", "user?">>, <<"pass", "pass?">>},
           w \in {"MAGIC", "USER", "", "good", "bad"}
    PROVE  Sound'
<1> USE DEF user, hist
<1>1. /\ p \in Asking /\ q \in Waiting /\ p \notin Early /\ Asked(q) = Asked(p)
      /\ Asked(p) \in Login /\ p # q
      /\ q \in Pcs \ Early /\ "failed" \in Pcs \ Early /\ q \notin {"form", "answer"}
  BY DEF Asking, Waiting, Early, Asked, Login, Pcs, Pumping
<1>2. /\ stack # <<>> /\ Top.pc = p /\ Top.pc \notin Early /\ ~Top.zero
      /\ Top \in FrameType /\ conn \in [Conns -> Records] /\ stack \in Seq(FrameType)
      /\ sockfd > 0 => Phase(Top, conn[sockfd], World) /\ Top.own = sockfd
  BY <1>1, TopFacts DEF Say
<1>3. UNCHANGED <<disk, sockfd, fd0, inbuf, strange, cancelled, mishap>>
  BY DEF Say
<1>4. ASSUME NEW r \in {q, "failed"}, Goto(r), conn' = conn,
             sockfd > 0 => ~Live(conn[sockfd])
      PROVE  Sound'
  <2>1. ASSUME sockfd > 0, Phase(Top, conn[sockfd], World), Later(World, World'),
               Unsending(World, World')
        PROVE  Phase([Top EXCEPT !.pc = r], conn[sockfd], World')
    <3>1. [Top EXCEPT !.pc = r].pc = r /\ r \in Waiting \cup {"failed"}
          /\ r \notin {"form", "answer"}
      BY <1>1, <1>2, TopAt
    <3>2. Dots([Top EXCEPT !.pc = r], conn[sockfd], World')
      <4>1. Top.pc \notin Sending
        BY <1>1, <1>2 DEF Asking, Sending
      <4> QED
        BY <2>1, <4>1, DotsMoves DEF Phase
    <3> QED
      BY <1>4, <2>1, <3>1, <3>2 DEF Phase
  <2> QED
    BY <1>1, <1>2, <1>3, <1>4, <2>1, TopTurns
<1>5. CASE WriteFails /\ Goto("failed")
  BY <1>4, <1>5, FailCases
<1>6. CASE WriteOk(<<Word(w)>>) /\ Goto(q)
  <2> DEFINE toks == <<Word(w)>>
  <2>1. Word(w) \in Lines /\ Word(w).kind \notin {"text", ".", "FILENAME"}
    BY Said DEF Words, Word
  <2>2. toks \in Seq(Lines) /\ Len(toks) = 1 /\ toks[1] = Word(w)
    BY <2>1, OneLine
  <2> HIDE DEF toks
  <2>3. CASE conn' = conn /\ (sockfd > 0 => ~Live(conn[sockfd]))
    BY <1>4, <1>6, <2>3
  <2>4. CASE /\ sockfd > 0 /\ Live(conn[sockfd])
             /\ conn' = [conn EXCEPT ![sockfd] = [conn[sockfd] EXCEPT !.c2s = @ \o toks]]
             /\ [conn[sockfd] EXCEPT !.c2s = @ \o toks] \in Records
    <3> DEFINE k == conn[sockfd]  k2 == [k EXCEPT !.c2s = @ \o toks]
               fr == [Top EXCEPT !.pc = q]
    <3>1. /\ sockfd \in Conns /\ k \in Records /\ k.srv # "none"
          /\ Shape(sockfd, k, World) /\ Phase(Top, k, World) /\ Top.own = sockfd
      BY <1>2, <2>4, AtHome
    <3>2. Total(k) = 0 /\ k.srv = Asked(p) /\ k.s2c = <<>>
      BY <1>1, <1>2, <2>4, <3>1 DEF Phase, Talk, Asking, Waiting
    <3>a. k2 = [k EXCEPT !.c2s = @ \o <<Word(w)>>] /\ k.srv \in Login /\ k2 \in Records
      BY <1>1, <2>4, <3>2 DEF toks
    <3>3. /\ Total(k2) = 1 /\ k2.srv = k.srv /\ k2.s2c = <<>>
          /\ Shape(sockfd, k2, World') /\ NoDot(k2)
      <4>1. k \in Records /\ Word(w) \in Lines
        BY <2>1, <3>1
      <4> HIDE DEF k, k2
      <4> QED
        BY ONLY <2>1, <3>2, <3>a, <4>1, WordWritten
    <3>6. fr \in FrameType /\ stack' = [stack EXCEPT ![Len(stack)] = fr]
      BY <1>1, <1>2, <1>6, GotoFrame
    <3>7. fr.own = sockfd /\ ~fr.zero /\ fr.pc = q
      BY <1>2, <3>1, TopAt
    <3> HIDE DEF k2, k, fr
    <3>9. Phase(fr, k2, World')
      <4>1. fr.pc \notin Asking /\ fr.pc \in Waiting /\ fr.pc \notin Sending
        BY <1>1, <3>7 DEF Waiting, Sending, Asking
      <4>2. Talk(fr, k2, World')
        BY <1>1, <3>2, <3>3, <3>7, <4>1 DEF Talk, Sending
      <4> QED
        BY <3>3, <4>1, <4>2 DEF Phase, Sending, Dots
    <3>10. conn' = [conn EXCEPT ![sockfd] = k2] /\ k2.srv # "none"
      BY <2>4, <3>1, <3>3 DEF k2, k
    <3>b. k2 \in Records
      BY <3>a
    <3>11. inbuf' = <<>> /\ ~strange'
      BY <1>3 DEF Sound, Globals
    <3>12. SentIsStored' /\ RecordIsOneForm'
      BY <1>3, StoredKept
    <3> QED
      BY <1>1, <1>2, <1>3, <2>4, <3>1, <3>3, <3>b, <3>6, <3>7, <3>9, <3>10, <3>11, <3>12,
         SameLater, TopMoves DEF disk
  <2> QED
    BY <1>6, <2>2, <2>3, <2>4, WriteCases DEF toks
<1> QED
  BY <1>5, <1>6 DEF Say

\* An answer of the login.
LEMMA HearSound ==
    ASSUME TypeOK, TypeOK', Sound, ~shut, ~shut',
           NEW p, NEW q, NEW code, Hear(p, q, code),
           <<p, q>> \in {<<"magic?", "user">>, <<"user?", "pass">>, <<"pass?", "passed">>}
    PROVE  Sound'
<1> USE DEF user, hist
<1>1. /\ p \in Waiting /\ q \in Asking /\ p \notin Early /\ Asked(q) = Replied(p)
      /\ q \in Pcs \ Early /\ "failed" \in Pcs \ Early /\ q \notin {"form", "answer"}
      /\ q \notin Waiting /\ q \notin Sending /\ q # "failed"
  BY DEF Asking, Waiting, Early, Asked, Replied, Pcs, Pumping, Sending
<1>2. /\ stack # <<>> /\ Top.pc = p /\ Top.pc \notin Early /\ ~Top.zero
      /\ Top \in FrameType /\ conn \in [Conns -> Records] /\ stack \in Seq(FrameType)
      /\ sockfd > 0 => Phase(Top, conn[sockfd], World) /\ Top.own = sockfd
  BY <1>1, TopFacts DEF Hear
<1>3. UNCHANGED <<disk, sockfd, fd0, cancelled, mishap>>
  BY DEF Hear
<1>4. CASE ReadFails /\ Goto("failed") /\ UNCHANGED strange
  <2>1. conn' = conn /\ inbuf' = inbuf
    BY <1>4 DEF ReadFails
  <2>2. ASSUME sockfd > 0, Phase(Top, conn[sockfd], World), Later(World, World'),
               Unsending(World, World')
        PROVE  Phase([Top EXCEPT !.pc = "failed"], conn[sockfd], World')
    <3>1. [Top EXCEPT !.pc = "failed"].pc = "failed"
      BY <1>2, TopAt
    <3>2. Dots([Top EXCEPT !.pc = "failed"], conn[sockfd], World')
      <4>1. Top.pc \notin Sending
        BY <1>1, <1>2 DEF Waiting, Sending
      <4> QED
        BY <2>2, <4>1, DotsMoves DEF Phase
    <3> QED
      BY <3>1, <3>2 DEF Phase, Talk, Asking, Waiting, Sending
  <2> QED
    BY <1>1, <1>2, <1>3, <1>4, <2>1, <2>2, TopTurns
<1>5. CASE \E a \in Conns \X {"500", "refused"} :
              /\ ReadLine(a)
              /\ Goto(IF a[2] = code THEN q ELSE "failed")
              /\ strange' = (strange \/ a[1] # Top.own)
  <2>1. PICK a \in Conns \X {"500", "refused"} :
              /\ ReadLine(a)
              /\ Goto(IF a[2] = code THEN q ELSE "failed")
              /\ strange' = (strange \/ a[1] # Top.own)
    BY <1>5
  <2> DEFINE k == conn[sockfd]  k2 == [k EXCEPT !.s2c = <<>>]
             r == IF a[2] = code THEN q ELSE "failed"
             fr == [Top EXCEPT !.pc = r]
  <2>2. /\ sockfd > 0 /\ inbuf' = <<>> /\ k.s2c # <<>> /\ a[1] = sockfd /\ Total(k) = 0
        /\ conn' = [conn EXCEPT ![sockfd] = k2] /\ k2 \in Records
        /\ Shape(sockfd, k2, World)
    BY <2>1, ReadCases
  <2>3. /\ sockfd \in Conns /\ k \in Records /\ k.srv # "none"
        /\ Phase(Top, k, World) /\ Top.own = sockfd
    BY <1>2, <2>2, AtHome
  <2>4. ~strange'
    BY <2>1, <2>2, <2>3 DEF Sound, Globals
  <2>5. Live(k) => k.srv = Replied(p)
    BY <1>1, <1>2, <2>2, <2>3 DEF Phase, Talk
  <2>6. k2.srv = k.srv /\ k2.link = k.link /\ k2.c2s = k.c2s /\ k2.s2c = <<>>
    BY <2>3 DEF Records, ConnType
  <2>7. Total(k2) = 0 /\ NoDot(k2)
    BY <2>2, <2>3, <2>6, Lengths
  <2>8. fr \in FrameType /\ stack' = [stack EXCEPT ![Len(stack)] = fr]
        /\ fr.own = Top.own /\ ~fr.zero /\ fr.pc = r
    <3>1. r \in Pcs /\ r \notin {"form", "answer"} /\ Goto(r)
      BY <1>1, <2>1
    <3> HIDE DEF r
    <3> QED
      BY <1>2, <3>1, GotoFrame, TopAt
  <2>9. r \in {q, "failed"}
    OBVIOUS
  <2> HIDE DEF k2, k, fr, r
  <2>10. Phase(fr, k2, World')
    <3>1. Live(k2) => Talk(fr, k2, World')
      BY <1>1, <2>5, <2>6, <2>7, <2>8, <2>9
         DEF Live, Talk, Asking, Sending, Waiting
    <3>2. fr.pc \notin {"form", "answer"}
      BY <1>1, <2>8, <2>9
    <3> QED
      BY <2>6, <2>7, <3>1, <3>2 DEF Phase, Dots
  <2>11. Later(World, World')
    BY <1>3, SameLater DEF disk
  <2>12. Shape(sockfd, k2, World')
    BY <2>2, <2>11, ShapeLater
  <2>13. SentIsStored' /\ RecordIsOneForm'
    BY <1>3, StoredKept
  <2>14. fr.pc \notin Early
    BY <1>1, <2>8, <2>9
  <2>15. k2.srv # "none"
    BY <2>3, <2>6
  <2> QED
    BY <1>2, <1>3, <2>2, <2>4, <2>8, <2>10, <2>11, <2>12, <2>13, <2>14, <2>15, TopMoves
<1> QED
  BY <1>4, <1>5 DEF Hear

\* authenticate keeps Sound.
LEMMA LoginSound ==
    ASSUME TypeOK, TypeOK', Sound, ~shut, ~shut', authenticate
    PROVE  Sound'
<1>1. CASE StartLogin
  <2> USE DEF net, hist, user
  <2>1. /\ stack # <<>> /\ Top.pc = "connected" /\ Top.pc \notin Early
        /\ Top \in FrameType
    BY <1>1, TopFacts DEF StartLogin, Early
  <2>2. "magic" \in Pcs \ Early /\ "magic" \notin {"form", "answer"}
    BY DEF Pcs, Pumping, Early
  <2>3. ASSUME sockfd > 0, Phase(Top, conn[sockfd], World), Later(World, World'),
               Unsending(World, World')
        PROVE  Phase([Top EXCEPT !.pc = "magic"], conn[sockfd], World')
    <3>1. [Top EXCEPT !.pc = "magic"].pc = "magic"
      BY <2>1, TopAt
    <3>2. Dots([Top EXCEPT !.pc = "magic"], conn[sockfd], World')
      <4>1. Top.pc \notin Sending
        BY <2>1 DEF Sending
      <4> QED
        BY <2>3, <4>1, DotsMoves DEF Phase
    <3> QED
      BY <2>1, <2>3, <3>1, <3>2 DEF Phase, Talk, Asking, Waiting, Sending, Asked
  <2> QED
    BY <1>1, <2>1, <2>2, <2>3, TopTurns DEF StartLogin
<1>2. pass \in {"", "good", "bad"}
  BY Types
<1> QED
  BY <1>1, <1>2, SaySound, HearSound DEF authenticate


-----------------------------------------------------------------------------
(* Sending *)

\* What a step of the top frame that writes has to keep.
LEMMA WriteSound ==
    ASSUME TypeOK, TypeOK', Sound, ~shut, ~shut', stack # <<>>, Top.pc \notin Early,
           NEW toks \in Seq(Lines), WriteOk(toks),
           NEW fr \in FrameType, stack' = [stack EXCEPT ![Len(stack)] = fr],
           fr.own = Top.own, ~fr.zero, fr.pc \notin Early,
           UNCHANGED <<disk, sockfd, fd0, inbuf, strange, cancelled, mishap>>,
           ASSUME NEW k \in Records, ~Live(k), Phase(Top, k, World)
           PROVE  Phase(fr, k, World),
           ASSUME NEW c, NEW k \in Records, NEW k2 \in Records, Live(k),
                  k2 = [k EXCEPT !.c2s = @ \o toks],
                  Phase(Top, k, World), Shape(c, k, World)
           PROVE  Phase(fr, k2, World) /\ Shape(c, k2, World)
    PROVE  Sound'
<1>1. World' = World
  BY DEF World, disk
<1>2. Later(World, World')
  BY SameLater DEF disk
<1>3. SentIsStored' /\ RecordIsOneForm'
  BY StoredKept
<1>4. inbuf' = <<>> /\ ~strange'
  BY DEF Sound, Globals
<1>5. conn \in [Conns -> Records]
  BY Types DEF Conned
<1>6. CASE sockfd > 0
  <2> DEFINE k == conn[sockfd]
  <2>1. /\ sockfd \in Conns /\ k \in Records /\ k.srv # "none"
        /\ Shape(sockfd, k, World) /\ Phase(Top, k, World)
    BY <1>6, AtHome, TopOwns
  <2>2. ASSUME NEW k2 \in Records, conn' = [conn EXCEPT ![sockfd] = k2], k2.srv = k.srv,
               Phase(fr, k2, World) /\ Shape(sockfd, k2, World)
        PROVE  Sound'
    <3>1. k2.srv # "none" /\ Phase(fr, k2, World') /\ Shape(sockfd, k2, World')
      BY <1>1, <2>1, <2>2
    <3> QED
      BY <1>2, <1>3, <1>4, <1>6, <2>2, <3>1, TopMoves
  <2>3. CASE conn' = conn /\ ~Live(k)
    <3>1. conn' = [conn EXCEPT ![sockfd] = k]
      BY <1>5, <2>1, <2>3
    <3> QED
      BY <2>1, <2>2, <2>3, <3>1
  <2>4. CASE /\ Live(k) /\ conn' = [conn EXCEPT ![sockfd] = [k EXCEPT !.c2s = @ \o toks]]
             /\ [k EXCEPT !.c2s = @ \o toks] \in Records
    <3> DEFINE k2 == [k EXCEPT !.c2s = @ \o toks]
    <3>1. Phase(fr, k2, World) /\ Shape(sockfd, k2, World)
      BY <2>1, <2>4
    <3>2. k2.srv = k.srv
      BY <2>1 DEF Records, ConnType
    <3>3. k2 \in Records /\ conn' = [conn EXCEPT ![sockfd] = k2]
      BY <2>4
    <3> HIDE DEF k2
    <3> QED
      BY <2>2, <3>1, <3>2, <3>3
  <2> QED
    BY <1>6, <2>3, <2>4, WriteCases
<1>7. CASE ~(sockfd > 0)
  <2>1. conn' = conn
    BY <1>7, WriteCases
  <2>2. Fresh \in Records /\ Fresh.srv # "none"
    BY EndedShape
  <2> QED
    BY <1>2, <1>3, <1>4, <1>7, <2>1, <2>2, TopMoves
<1> QED
  BY <1>6, <1>7

\* Lines that name no form, or an unopened one, leave a session astray.
LEMMA AstrayWritten ==
    ASSUME NEW k \in Records, NEW toks \in Seq(Lines), NEW k2 \in Records,
           Wrote(k, k2, toks), NEW w, Astray(k, w),
           \A i \in 1..Len(toks) : toks[i].kind = "FILENAME" => Unopened(toks[i].form, w)
    PROVE  Astray(k2, w)
<1>1. k2.srv = k.srv /\ k2.name = k.name
  BY DEF Records, ConnType, Wrote
<1>2. /\ Len(k2.c2s) = Len(k.c2s) + Len(toks)
      /\ \A i \in 1..Len(k.c2s) : k2.c2s[i] = k.c2s[i]
      /\ \A i \in 1..Len(toks) : k2.c2s[Len(k.c2s) + i] = toks[i]
  BY Written DEF Longer
<1>3. Len(k.c2s) \in Nat /\ Len(toks) \in Nat
  BY Lengths
<1>4. ASSUME NEW i \in 1..Len(k2.c2s), k2.c2s[i].kind = "FILENAME"
      PROVE  Unopened(k2.c2s[i].form, w)
  <2>1. CASE i \in 1..Len(k.c2s)
    BY <1>2, <1>4, <2>1 DEF Astray
  <2>2. CASE i \notin 1..Len(k.c2s)
    <3>1. PICK j \in 1..Len(toks) : i = Len(k.c2s) + j
      <4>1. i - Len(k.c2s) \in 1..Len(toks) /\ i = Len(k.c2s) + (i - Len(k.c2s))
        BY <1>2, <1>3, <2>2
      <4> QED
        BY <4>1
    <3> QED
      BY <1>2, <1>4, <3>1
  <2> QED
    BY <2>1, <2>2
<1> QED
  BY <1>1, <1>4 DEF Astray

\* FILENAME brings the transfer to the point where it sends the form.
LEMMA NameWritten ==
    ASSUME NEW c, NEW k \in Records, NEW k2 \in Records, NEW f \in Forms,
           k2 = [k EXCEPT !.c2s = @ \o <<Filename(f)>>], NEW w,
           NEW fr, NEW fr2, Live(k), Phase(fr, k, w), Shape(c, k, w),
           fr.pc = "next", fr.dir \in Nat, f > fr.dir, fr2.dir = f,
           fr2.pc = IF w.cancelled THEN "quit" ELSE "form", ~w.file[f].sent
    PROVE  Phase(fr2, k2, w) /\ Shape(c, k2, w)
<1> DEFINE t == <<Filename(f)>>
<1>1. /\ t \in Seq(Lines) /\ Len(t) = 1 /\ t[1] = Filename(f)
      /\ Wrote(k, k2, t)
  <2>1. Filename(f) \in Lines
    BY Said
  <2> QED
    BY <2>1, OneLine DEF Wrote
<1>2. k \in Records /\ k2 \in Records
  OBVIOUS
<1> HIDE DEF t
<1>3. Filename(f).kind = "FILENAME" /\ Filename(f).form = f
  BY DEF Filename
<1>4. /\ Total(k2) = Total(k) + Len(t) /\ Len(k2.c2s) = Len(k.c2s) + Len(t)
      /\ \A n \in 1..Total(k) : Line(k2, n) = Line(k, n)
      /\ \A i \in 1..Len(t) : Line(k2, Total(k) + i) = t[i]
      /\ \A i \in 1..Len(k.c2s) : k2.c2s[i] = k.c2s[i]
      /\ \A i \in 1..Len(t) : k2.c2s[Len(k.c2s) + i] = t[i]
  <2>1. Longer(k, k2, t)
    BY ONLY <1>1, <1>2, Written
  <2> QED
    BY ONLY <2>1 DEF Longer
<1>5. Total(k) \in Nat /\ Len(k.c2s) \in Nat
  BY <1>2, Lengths
<1>6. /\ Total(k2) = Total(k) + 1 /\ Len(k2.c2s) = Len(k.c2s) + 1
      /\ Line(k2, Total(k) + 1) = Filename(f) /\ k2.c2s[Len(k.c2s) + 1] = Filename(f)
  <2>1. 1 \in 1..Len(t)
    BY ONLY <1>1
  <2>2. Line(k2, Total(k) + 1) = t[1] /\ k2.c2s[Len(k.c2s) + 1] = t[1]
    BY ONLY <1>4, <2>1
  <2> QED
    BY ONLY <1>1, <1>4, <2>2
<1>7. k2.srv = k.srv /\ k2.s2c = k.s2c /\ k2.link = k.link
  BY DEF Records, ConnType
<1>8. /\ k.srv \in {"cmd", "form"} /\ NoDot(k) /\ k.s2c = <<>>
      /\ \/ Total(k) = 0
         \/ w.cancelled /\ Total(k) = 1 /\ Names(k, 1)
         \/ Lost(fr, k, w)
  BY DEF Phase, Talk, Sending, Waiting
<1>9. NoDot(k2)
  <2> SUFFICES ASSUME NEW i \in 1..Len(k2.c2s) PROVE k2.c2s[i].kind # "."
    BY DEF NoDot
  <2>1. i \in 1..Len(k.c2s) \/ i = Len(k.c2s) + 1
    BY ONLY <1>5, <1>6, i \in 1..Len(k2.c2s)
  <2> QED
    BY <1>3, <1>4, <1>6, <1>8, <2>1 DEF NoDot
<1>10. ASSUME Lost(fr, k, w)
       PROVE  Lost(fr2, k2, w)
  <2>1. \A g \in Forms : g >= f => g >= fr.dir
    BY Constants
  <2>2. \A g \in Forms : g >= f => "open" \in w.mishap[g]
    BY <1>10, <2>1 DEF Lost
  <2>3. f >= f
    BY Constants
  <2>4. \A i \in 1..Len(t) : t[i].kind = "FILENAME" => Unopened(t[i].form, w)
    <3>1. Unopened(f, w)
      BY <2>2, <2>3 DEF Unopened
    <3>2. \A i \in 1..Len(t) : i = 1
      BY ONLY <1>1
    <3> QED
      BY <1>1, <1>3, <3>1, <3>2
  <2>5. Astray(k, w)
    BY <1>10 DEF Lost
  <2>6. Astray(k2, w)
    BY ONLY <1>1, <1>2, <2>4, <2>5, AstrayWritten
  <2> QED
    BY <2>2, <2>6 DEF Lost
<1>11. ASSUME Total(k) = 0
       PROVE  Total(k2) = 1 /\ Names(k2, 1) /\ Line(k2, 1) = Filename(f)
  <2>1. Total(k2) = 1 /\ Line(k2, 1) = Filename(f)
    BY ONLY <1>6, <1>11
  <2> QED
    BY <1>3, <2>1 DEF Names
<1>12. ASSUME Total(k) = 1, Names(k, 1)
       PROVE  /\ Total(k2) = 2 /\ Names(k2, 1) /\ Names(k2, 2)
              /\ Line(k2, 1) = Line(k, 1)
  <2>1. Total(k2) = 2 /\ Line(k2, 2) = Filename(f) /\ Line(k2, 1) = Line(k, 1)
    BY ONLY <1>4, <1>6, <1>12
  <2> QED
    BY <1>3, <1>12, <2>1 DEF Names
<1>13. Regular(k2, w) \/ Astray(k2, w)
  <2>1. CASE Total(k) = 0
    <3>1. ~(Total(k2) >= 2) /\ Total(k2) <= 3
      BY <1>11, <2>1
    <3> QED
      BY <1>3, <1>11, <2>1, <3>1 DEF Regular
  <2>2. CASE Total(k) = 1 /\ Names(k, 1)
    <3>1. Line(k, 1).form \in Forms /\ Line(k, 1).kind = "FILENAME"
      BY <2>2, NamesForm DEF Names
    <3>2. Total(k2) <= 3 /\ Total(k2) # 3
      BY <1>12, <2>2
    <3> QED
      BY <1>12, <2>2, <3>1, <3>2 DEF Regular
  <2> QED
    BY <1>8, <1>10, <2>1, <2>2 DEF Lost
<1>14. Shape(c, k2, w)
  <2>1. \A i \in 1..(Len(k2.c2s) - 1) : i \in 1..Len(k2.c2s)
    BY ONLY <1>5, <1>6
  <2> QED
    BY <1>7, <1>8, <1>9, <1>13, <2>1 DEF Shape, Login, NoDot
<1>15. Talk(fr2, k2, w)
  <2>1. CASE w.cancelled
    <3>1. \/ Total(k2) = 1 /\ Names(k2, 1)
          \/ Total(k2) = 2 /\ Names(k2, 1) /\ Names(k2, 2)
          \/ Lost(fr2, k2, w)
      BY <1>8, <1>10, <1>11, <1>12
    <3>2. fr2.pc = "quit"
      BY <2>1
    <3> QED
      BY <1>7, <1>8, <1>9, <3>1, <3>2 DEF Talk, Asking, Waiting, Sending
  <2>2. CASE ~w.cancelled
    <3>1. \/ Total(k2) = 1 /\ Names(k2, 1) /\ Line(k2, 1).form = fr2.dir
          \/ Lost(fr2, k2, w)
      BY <1>3, <1>8, <1>10, <1>11, <2>2
    <3>2. fr2.pc = "form"
      BY <2>2
    <3> QED
      BY <1>7, <1>8, <1>9, <3>1, <3>2 DEF Talk, Asking, Waiting, Sending
  <2> QED
    BY <2>1, <2>2
<1>16. Phase(fr2, k2, w)
  BY <1>7, <1>8, <1>9, <1>15 DEF Phase, Dots
<1> QED
  BY <1>14, <1>16

\* The lines of a form bring the transfer to the point where it waits.
LEMMA FormWritten ==
    ASSUME NEW c, NEW k \in Records, NEW k2 \in Records, NEW t \in Seq(Lines),
           k2 = [k EXCEPT !.c2s = @ \o t], NEW w,
           NEW fr, NEW fr2, Live(k), Phase(fr, k, w), Shape(c, k, w),
           fr.pc = "form", fr2.pc = "answer", fr2.dir = fr.dir,
           w.file[fr.dir].ver \in Nat \ {0},
           Len(t) = 2, t[1] = Text(fr.dir, w.file[fr.dir].ver), t[2] = Word(".")
    PROVE  Phase(fr2, k2, w) /\ Shape(c, k2, w)
<1> DEFINE x == Text(fr.dir, w.file[fr.dir].ver)
           y == Word(".")
<1>1. /\ t \in Seq(Lines) /\ Len(t) = 2 /\ t[1] = x /\ t[2] = y
      /\ Wrote(k, k2, t)
  BY DEF Wrote
<1>2. k \in Records /\ k2 \in Records
  OBVIOUS
<1> HIDE DEF x, y
<1>3. x.kind = "text" /\ y.kind = "."
  BY DEF Text, Word, x, y
<1>4. /\ Total(k2) = Total(k) + Len(t) /\ Len(k2.c2s) = Len(k.c2s) + Len(t)
      /\ \A n \in 1..Total(k) : Line(k2, n) = Line(k, n)
      /\ \A i \in 1..Len(t) : Line(k2, Total(k) + i) = t[i]
      /\ \A i \in 1..Len(k.c2s) : k2.c2s[i] = k.c2s[i]
      /\ \A i \in 1..Len(t) : k2.c2s[Len(k.c2s) + i] = t[i]
  <2>1. t \in Seq(Lines) /\ Wrote(k, k2, t)
    BY <1>1
  <2>2. Longer(k, k2, t)
    BY ONLY <1>2, <2>1, Written
  <2> QED
    BY ONLY <2>2 DEF Longer
<1>5. Total(k) \in Nat /\ Len(k.c2s) \in Nat
  BY <1>2, Lengths
<1>6. /\ Total(k2) = Total(k) + 2 /\ Len(k2.c2s) = Len(k.c2s) + 2
      /\ Line(k2, Total(k) + 1) = x /\ Line(k2, Total(k) + 2) = y
      /\ k2.c2s[Len(k.c2s) + 1] = x /\ k2.c2s[Len(k.c2s) + 2] = y
  <2>1. 1 \in 1..Len(t) /\ 2 \in 1..Len(t)
    BY ONLY <1>1
  <2>2. Line(k2, Total(k) + 1) = t[1] /\ k2.c2s[Len(k.c2s) + 1] = t[1]
    BY ONLY <1>4, <2>1
  <2>3. Line(k2, Total(k) + 2) = t[2] /\ k2.c2s[Len(k.c2s) + 2] = t[2]
    BY ONLY <1>4, <2>1
  <2> QED
    BY ONLY <1>1, <1>4, <2>2, <2>3
<1>7. k2.srv = k.srv /\ k2.s2c = k.s2c /\ k2.link = k.link
  BY DEF Records, ConnType
<1>8. /\ k.srv \in {"cmd", "form"} /\ NoDot(k) /\ k.s2c = <<>>
      /\ ~w.file[fr.dir].sent
      /\ \/ Total(k) = 1 /\ Names(k, 1) /\ Line(k, 1).form = fr.dir
         \/ Lost(fr, k, w)
  BY DEF Phase, Talk, Sending, Waiting
<1>9. \A i \in 1..(Len(k2.c2s) - 1) : k2.c2s[i].kind # "."
  <2> SUFFICES ASSUME NEW i \in 1..(Len(k2.c2s) - 1) PROVE k2.c2s[i].kind # "."
    OBVIOUS
  <2>1. i \in 1..Len(k.c2s) \/ i = Len(k.c2s) + 1
    BY ONLY <1>5, <1>6, i \in 1..(Len(k2.c2s) - 1)
  <2> QED
    BY <1>3, <1>4, <1>6, <1>8, <2>1 DEF NoDot
<1>10. ASSUME Lost(fr, k, w)
       PROVE  Lost(fr2, k2, w)
  <2>1. \A i \in 1..Len(t) : t[i].kind = "FILENAME" => Unopened(t[i].form, w)
    <3>1. \A i \in 1..Len(t) : i = 1 \/ i = 2
      BY ONLY <1>1
    <3> QED
      BY <1>1, <1>3, <3>1
  <2>2. Astray(k, w)
    BY <1>10 DEF Lost
  <2>3. Astray(k2, w)
    BY ONLY <1>1, <1>2, <2>1, <2>2, AstrayWritten
  <2> QED
    BY <1>10, <2>3 DEF Lost
<1>11. ASSUME Total(k) = 1, Names(k, 1), Line(k, 1).form = fr.dir
       PROVE  /\ Total(k2) = 3 /\ Names(k2, 1) /\ Line(k2, 1).form = fr.dir
              /\ Line(k2, 2) = x /\ Line(k2, 3) = y /\ Regular(k2, w)
  <2>1. /\ Total(k2) = 3 /\ Line(k2, 2) = x /\ Line(k2, 3) = y
        /\ Line(k2, 1) = Line(k, 1)
    BY ONLY <1>4, <1>6, <1>11
  <2>2. Names(k2, 1)
    BY <1>11, <2>1 DEF Names
  <2>3. Line(k, 1).form \in Forms /\ Line(k, 1).kind = "FILENAME"
    BY <1>11, NamesForm DEF Names
  <2>4. w.file[fr.dir].ver \in 1..w.file[fr.dir].ver
    OBVIOUS
  <2>5. Total(k2) <= 3 /\ Total(k2) # 2
    BY <2>1
  <2>6. Regular(k2, w)
    BY <1>3, <1>11, <2>1, <2>2, <2>3, <2>4, <2>5 DEF Regular, x
  <2> QED
    BY <1>11, <2>1, <2>2, <2>6
<1>12. Regular(k2, w) \/ Astray(k2, w)
  BY <1>8, <1>10, <1>11 DEF Lost
<1>13. Shape(c, k2, w)
  BY <1>7, <1>8, <1>9, <1>12 DEF Shape, Login
<1>14. Talk(fr2, k2, w)
  <2>1. \/ /\ Total(k2) = 3 /\ k2.s2c = <<>> /\ Names(k2, 1) /\ Line(k2, 1).form = fr2.dir
           /\ Line(k2, 2) = Text(fr2.dir, w.file[fr2.dir].ver) /\ Line(k2, 3) = Word(".")
        \/ Lost(fr2, k2, w)
    BY <1>7, <1>8, <1>10, <1>11 DEF x, y
  <2> QED
    BY <1>7, <1>8, <2>1 DEF Talk, Asking, Waiting, Sending
<1>15. Dots(fr2, k2, w)
  <2>1. CASE Lost(fr, k, w)
    BY <1>10, <2>1 DEF Dots, Lost, Sending
  <2>2. CASE Total(k) = 1 /\ Names(k, 1) /\ Line(k, 1).form = fr.dir
    <3>1. fr.dir \in Forms
      BY <2>2, NamesForm
    <3> QED
      BY <1>8, <1>11, <2>2, <3>1 DEF Dots, Sending
  <2> QED
    BY <1>8, <2>1, <2>2
<1>16. Phase(fr2, k2, w)
  BY <1>7, <1>8, <1>14, <1>15 DEF Phase
<1> QED
  BY <1>13, <1>16

\* One FILENAME of a form that could not be opened.
LEMMA OneName ==
    ASSUME NEW k \in Records, Total(k) = 1, Names(k, 1), NEW w,
           Unopened(Line(k, 1).form, w)
    PROVE  Astray(k, w)
<1>1. /\ Len(k.c2s) \in Nat /\ Offset(k) \in Nat /\ Total(k) = Offset(k) + Len(k.c2s)
      /\ k.srv = "form" => Offset(k) >= 1
      /\ k.srv # "form" => Offset(k) = 0
  BY Lengths
<1>2. CASE k.srv = "form"
  <2>1. Len(k.c2s) = 0 /\ Offset(k) = 1 /\ ~(1 > Offset(k))
    BY <1>1, <1>2
  <2>2. Line(k, 1) = Filename(k.name)
    BY <2>1 DEF Line
  <2> QED
    BY <2>1, <2>2 DEF Astray, Filename
<1>3. CASE k.srv # "form"
  <2>1. Len(k.c2s) = 1 /\ 1 > Offset(k) /\ 1 - Offset(k) = 1
    <3> DEFINE l == Len(k.c2s)  o == Offset(k)
    <3>1. l \in Nat /\ o = 0 /\ 1 = o + l
      BY <1>1, <1>3
    <3> HIDE DEF l, o
    <3>2. l = 1 /\ 1 > o /\ 1 - o = 1
      BY ONLY <3>1
    <3> QED
      BY <3>2 DEF l, o
  <2>2. Line(k, 1) = k.c2s[1]
    BY <2>1 DEF Line
  <2> QED
    BY <1>3, <2>1, <2>2 DEF Astray
<1> QED
  BY <1>2, <1>3

\* The walk through the directory keeps Sound.
LEMMA DirSound ==
    ASSUME TypeOK, TypeOK', Sound, ~shut, ~shut',
           OpenDir \/ OpenDirFails \/ NoMoreForms \/ FormCancelled
    PROVE  Sound'
<1> USE DEF net, user, hist
<1>1. \A f \in Forms : mishap[f] \subseteq mishap[f]
  OBVIOUS
<1>2. CASE OpenDir \/ OpenDirFails
  <2>1. /\ stack # <<>> /\ Top.pc = "passed" /\ Top.pc \notin Early /\ Top \in FrameType
    BY <1>2, TopFacts DEF OpenDir, OpenDirFails, Early
  <2>2. PICK q \in {"quit", "next"} : Goto(q)
    BY <1>2 DEF OpenDir, OpenDirFails
  <2>3. q \in Pcs \ Early /\ q \notin {"form", "answer"}
    BY <2>2 DEF Pcs, Pumping, Early
  <2>4. ASSUME sockfd > 0, Phase(Top, conn[sockfd], World), Later(World, World'),
               Unsending(World, World')
        PROVE  Phase([Top EXCEPT !.pc = q], conn[sockfd], World')
    <3>1. [Top EXCEPT !.pc = q].pc = q
      BY <2>1, TopAt
    <3>2. conn[sockfd] \in Records
      BY <2>4, AtHome
    <3>3. conn[sockfd].s2c = <<>>
      BY <2>1, <2>4 DEF Phase, Waiting
    <3>4. ASSUME Live(conn[sockfd])
          PROVE  Total(conn[sockfd]) = 0 /\ conn[sockfd].srv = "cmd" /\ NoDot(conn[sockfd])
      <4>1. Total(conn[sockfd]) = 0 /\ conn[sockfd].srv = "cmd"
        BY <2>1, <2>4, <3>4 DEF Phase, Talk, Asking, Asked
      <4> QED
        BY <3>2, <4>1, Lengths
    <3>5. Live(conn[sockfd]) => Talk([Top EXCEPT !.pc = q], conn[sockfd], World')
      BY <2>2, <3>1, <3>4 DEF Talk, Asking, Waiting, Sending
    <3>6. Dots([Top EXCEPT !.pc = q], conn[sockfd], World')
      BY <2>2, <2>4, <3>1, DotsMoves DEF Phase, Sending
    <3> QED
      BY <2>2, <3>1, <3>3, <3>5, <3>6 DEF Phase
  <2> QED
    BY <1>1, <1>2, <2>1, <2>2, <2>3, <2>4, TopTurns DEF OpenDir, OpenDirFails
<1>3. CASE NoMoreForms
  <2>1. /\ stack # <<>> /\ Top.pc = "next" /\ Top.pc \notin Early /\ Top \in FrameType
    BY <1>3, TopFacts DEF NoMoreForms, Early
  <2>2. "quit" \in Pcs \ Early /\ "quit" \notin {"form", "answer"}
    BY DEF Pcs, Pumping, Early
  <2>3. ASSUME sockfd > 0, Phase(Top, conn[sockfd], World), Later(World, World'),
               Unsending(World, World')
        PROVE  Phase([Top EXCEPT !.pc = "quit"], conn[sockfd], World')
    <3> DEFINE fr == [Top EXCEPT !.pc = "quit"]
    <3>1. fr.pc = "quit" /\ fr.dir = Top.dir
      BY <2>1, TopAt
    <3> HIDE DEF fr
    <3>2. Lost(Top, conn[sockfd], World) => Lost(fr, conn[sockfd], World')
      <4>1. Lost(Top, conn[sockfd], World) => Lost(Top, conn[sockfd], World')
        BY <2>3, LostLater
      <4> QED
        BY <3>1, <4>1 DEF Lost
    <3>3. Live(conn[sockfd]) => Talk(fr, conn[sockfd], World')
      BY <2>1, <2>3, <3>1, <3>2 DEF Phase, Talk, Asking, Waiting, Sending
    <3>4. conn[sockfd].s2c = <<>>
      BY <2>1, <2>3 DEF Phase, Waiting
    <3>5. Dots(fr, conn[sockfd], World')
      BY <2>3, <3>1, DotsMoves DEF Phase, Sending
    <3> QED
      BY <3>1, <3>3, <3>4, <3>5 DEF Phase, fr
  <2> QED
    BY <1>1, <1>3, <2>1, <2>2, <2>3, TopTurns DEF NoMoreForms
<1>4. CASE FormCancelled
  <2>1. /\ stack # <<>> /\ Top.pc = "form" /\ Top.pc \notin Early /\ Top \in FrameType
    BY <1>4, TopFacts DEF FormCancelled, Early
  <2>2. "next" \in Pcs \ Early /\ "next" \notin {"form", "answer"}
    BY DEF Pcs, Pumping, Early
  <2>3. ASSUME sockfd > 0, Phase(Top, conn[sockfd], World), Later(World, World'),
               Unsending(World, World'), World'.cancelled = cancelled
        PROVE  Phase([Top EXCEPT !.pc = "next"], conn[sockfd], World')
    <3> DEFINE fr == [Top EXCEPT !.pc = "next"]
    <3>1. fr.pc = "next" /\ fr.dir = Top.dir
      BY <2>1, TopAt
    <3> HIDE DEF fr
    <3>2. Lost(Top, conn[sockfd], World) => Lost(fr, conn[sockfd], World')
      <4>1. Lost(Top, conn[sockfd], World) => Lost(Top, conn[sockfd], World')
        BY <2>3, LostLater
      <4> QED
        BY <3>1, <4>1 DEF Lost
    <3>a. World'.cancelled
      BY <1>4, <2>3 DEF FormCancelled
    <3>3. Live(conn[sockfd]) => Talk(fr, conn[sockfd], World')
      BY <2>1, <2>3, <3>1, <3>2, <3>a DEF Phase, Talk, Asking, Waiting, Sending
    <3>4. conn[sockfd].s2c = <<>>
      BY <2>1, <2>3 DEF Phase, Waiting
    <3>5. Dots(fr, conn[sockfd], World')
      BY <2>3, <3>1, DotsMoves DEF Phase, Sending
    <3> QED
      BY <3>1, <3>3, <3>4, <3>5 DEF Phase, fr
  <2> QED
    BY <1>1, <1>4, <2>1, <2>2, <2>3, TopTurns DEF FormCancelled
<1> QED
  BY <1>2, <1>3, <1>4

\* A file that is passed over before anything is written keeps Sound.
LEMMA SkipSound ==
    ASSUME TypeOK, TypeOK', Sound, ~shut, ~shut', SkipFile
    PROVE  Sound'
<1> USE DEF net, user, hist
<1>1. PICK f \in Forms : NextForm(f) /\ stack' = [stack EXCEPT ![Len(stack)].dir = f]
  BY DEF SkipFile
<1> DEFINE fr == [Top EXCEPT !.dir = f]
<1>2. /\ stack # <<>> /\ Top.pc = "next" /\ Top.pc \notin Early /\ Top \in FrameType
      /\ ~Top.zero
  BY TopFacts DEF SkipFile, Early
<1>3. stack' = [stack EXCEPT ![Len(stack)] = fr]
  BY <1>1 DEF Top
<1>4. /\ fr \in FrameType /\ fr.own = Top.own /\ ~fr.zero /\ fr.pc = "next"
      /\ fr.pc \notin Early /\ fr.dir = f
  BY <1>2, Constants DEF FrameType, Early
<1>5. Later(World, World') /\ Unsending(World, World') /\ World'.cancelled = cancelled
  <2>1. \A g \in Forms : file[g].ver \in Nat
    BY WorldTypes
  <2> QED
    BY <2>1, WorldLater DEF SkipFile, disk, World, Unsending
<1>6. SentIsStored' /\ RecordIsOneForm'
  BY StoredKept DEF SkipFile
<1>7. \A g \in Forms : g >= f => g >= Top.dir
  <2>1. f > Top.dir /\ Top.dir \in Nat /\ f \in Nat
    BY <1>1, <1>2, Constants DEF NextForm, Unsent, FrameType
  <2> QED
    BY <2>1, Constants
<1>8. inbuf' = <<>> /\ ~strange' /\ UNCHANGED <<sockfd, fd0, cancelled, conn>>
  BY DEF Sound, Globals, SkipFile
<1> HIDE DEF fr
<1>9. CASE sockfd > 0
  <2> DEFINE k == conn[sockfd]
  <2>1. /\ sockfd \in Conns /\ k \in Records /\ k.srv # "none"
        /\ Shape(sockfd, k, World)
    BY <1>9, AtHome
  <2>2. Phase(Top, k, World)
    BY <1>2, <1>9, TopOwns
  <2>3. Shape(sockfd, k, World')
    BY <1>5, <2>1, ShapeLater
  <2>4. conn' = [conn EXCEPT ![sockfd] = k]
    BY <1>8, <2>1, Types DEF Conned
  <2> HIDE DEF k
  <2>5. Lost(Top, k, World) => Lost(fr, k, World')
    <3>1. Lost(Top, k, World) => Lost(Top, k, World')
      BY <1>5, LostLater
    <3> QED
      BY <1>4, <1>7, <3>1 DEF Lost
  <2>6. Live(k) => Talk(fr, k, World')
    BY <1>2, <1>4, <1>5, <2>2, <2>5
       DEF Phase, Talk, Asking, Waiting, Sending, World
  <2>7. k.s2c = <<>>
    BY <1>2, <2>2 DEF Phase, Waiting
  <2>8. Dots(fr, k, World')
    BY <1>4, <1>5, <2>2, DotsMoves DEF Phase, Sending
  <2>9. Phase(fr, k, World')
    BY <1>4, <2>6, <2>7, <2>8 DEF Phase
  <2> QED
    BY <1>2, <1>3, <1>4, <1>5, <1>6, <1>8, <1>9, <2>1, <2>3, <2>4, <2>9, TopMoves
<1>10. CASE ~(sockfd > 0)
  <2>1. Fresh \in Records /\ Fresh.srv # "none"
    BY EndedShape
  <2> QED
    BY <1>2, <1>3, <1>4, <1>5, <1>6, <1>8, <1>10, <2>1, TopMoves
<1> QED
  BY <1>9, <1>10

\* Passing over a form keeps Sound, if that is noted.
LEMMA NotOpenedSound ==
    ASSUME TypeOK, TypeOK', Sound, ~shut, ~shut', FormNotOpened
    PROVE  Sound'
<1> USE DEF net, user, hist
<1>1. /\ stack # <<>> /\ Top.pc = "form" /\ Top.pc \notin Early /\ Top \in FrameType
      /\ Top.dir \in Forms
  <2>1. /\ stack # <<>> /\ Top.pc = "form" /\ Top.pc \notin Early /\ Top \in FrameType
    BY TopFacts DEF FormNotOpened, Early
  <2> QED
    BY <2>1 DEF FrameType
<1>2. "next" \in Pcs \ Early /\ "next" \notin {"form", "answer"}
  BY DEF Pcs, Pumping, Early
<1>3. \A g \in Forms : /\ mishap[g] \subseteq mishap'[g]
                       /\ g >= Top.dir => "open" \in mishap'[g]
  BY DEF FormNotOpened, Blame
<1>4. ASSUME sockfd > 0, Phase(Top, conn[sockfd], World), Later(World, World'),
             Unsending(World, World'), World'.mishap = mishap'
      PROVE  Phase([Top EXCEPT !.pc = "next"], conn[sockfd], World')
  <2> DEFINE fr == [Top EXCEPT !.pc = "next"]  k == conn[sockfd]
  <2>1. fr.pc = "next" /\ fr.dir = Top.dir
    BY <1>1, TopAt
  <2>2. k \in Records
    BY <1>4, AtHome
  <2> HIDE DEF fr, k
  <2>3. ASSUME Live(k)
        PROVE  NoDot(k) /\ k.srv \in {"cmd", "form"} /\ Astray(k, World')
    <3>1. /\ NoDot(k) /\ k.srv \in {"cmd", "form"}
          /\ \/ Total(k) = 1 /\ Names(k, 1) /\ Line(k, 1).form = Top.dir
             \/ Lost(Top, k, World)
      BY <1>1, <1>4, <2>3 DEF Phase, Talk, Sending, k
    <3>2. Top.dir >= Top.dir
      BY <1>1, Constants
    <3>3. Unopened(Top.dir, World')
      BY <1>1, <1>3, <1>4, <3>2 DEF Unopened
    <3>4. CASE Total(k) = 1 /\ Names(k, 1) /\ Line(k, 1).form = Top.dir
      BY <2>2, <3>1, <3>3, <3>4, OneName
    <3>5. CASE Lost(Top, k, World)
      BY <1>4, <3>1, <3>5, LostLater DEF Lost
    <3> QED
      BY <3>1, <3>4, <3>5
  <2>4. Live(k) => Lost(fr, k, World')
    BY <1>3, <1>4, <2>1, <2>3 DEF Lost
  <2>5. Live(k) => Talk(fr, k, World')
    BY <2>1, <2>3, <2>4 DEF Talk, Asking, Waiting, Sending
  <2>6. k.s2c = <<>>
    BY <1>1, <1>4 DEF Phase, Waiting, k
  <2>a. Dots(fr, k, World')
    BY <1>4, <2>1, DotsMoves DEF Phase, Sending, k
  <2>7. Phase(fr, k, World')
    BY <2>1, <2>5, <2>6, <2>a DEF Phase
  <2> QED
    BY <2>7 DEF fr, k
<1> QED
  BY <1>1, <1>2, <1>3, <1>4, TopTurns DEF FormNotOpened

\* So does a transfer that gets no answer,
LEMMA NotAnsweredSound ==
    ASSUME TypeOK, TypeOK', Sound, ~shut, ~shut', FormNotAnswered
    PROVE  Sound'
<1> USE DEF user, hist
<1>1. /\ stack # <<>> /\ Top.pc = "answer" /\ Top.pc \notin Early /\ Top \in FrameType
  BY TopFacts DEF FormNotAnswered, Early
<1>2. "next" \in Pcs \ Early /\ "next" \notin {"form", "answer"}
  BY DEF Pcs, Pumping, Early
<1>3. \A g \in Forms : mishap[g] \subseteq mishap'[g]
  BY DEF FormNotAnswered
<1>4. ASSUME sockfd > 0, Phase(Top, conn[sockfd], World), Later(World, World'),
             Unsending(World, World')
      PROVE  Phase([Top EXCEPT !.pc = "next"], conn[sockfd], World')
  <2>1. conn[sockfd].s2c = <<>> /\ ~Live(conn[sockfd])
    BY <1>4, AtHome DEF FormNotAnswered, ReadFails, Live
  <2>2. [Top EXCEPT !.pc = "next"].pc = "next"
    BY <1>1, TopAt
  <2>3. Dots([Top EXCEPT !.pc = "next"], conn[sockfd], World')
    BY <1>4, <2>2, DotsMoves DEF Phase, Sending
  <2> QED
    BY <2>1, <2>2, <2>3 DEF Phase
<1> QED
  BY <1>1, <1>2, <1>3, <1>4, TopTurns DEF FormNotAnswered, ReadFails

\* and the sending of a form,
LEMMA SendSound ==
    ASSUME TypeOK, TypeOK', Sound, ~shut, ~shut', SendFilename \/ SendForm
    PROVE  Sound'
<1> USE DEF user, hist
<1>1. CASE SendFilename
  <2>1. /\ stack # <<>> /\ Top.pc = "next" /\ Top.pc \notin Early /\ Top \in FrameType
        /\ Top.dir \in Nat
    <3>1. /\ stack # <<>> /\ Top.pc = "next" /\ Top.pc \notin Early /\ Top \in FrameType
      BY <1>1, TopFacts DEF SendFilename, Early
    <3> QED
      BY <3>1, Constants DEF FrameType
  <2>2. PICK f \in Forms :
          /\ NextForm(f) /\ WriteOk(<<Filename(f)>>)
          /\ stack' = [stack EXCEPT ![Len(stack)] =
                          [@ EXCEPT !.pc = IF cancelled THEN "quit" ELSE "form",
                                    !.dir = f]]
    BY <1>1 DEF SendFilename
  <2> DEFINE fr == [Top EXCEPT !.pc = IF cancelled THEN "quit" ELSE "form", !.dir = f]
  <2>3. f > Top.dir /\ ~file[f].sent
    BY <2>1, <2>2, Constants DEF NextForm, Unsent
  <2>4. fr \in FrameType /\ stack' = [stack EXCEPT ![Len(stack)] = fr]
        /\ fr.dir = f /\ fr.own = Top.own /\ fr.zero = Top.zero
        /\ fr.pc = IF cancelled THEN "quit" ELSE "form"
    BY <2>1, <2>2, Constants DEF FrameType, Pumping, Forms, Top
  <2> HIDE DEF fr
  <2>5. ~fr.zero /\ fr.pc \notin Early
    <3>1. ~Top.zero
      BY <1>1, TopFacts DEF SendFilename, Early
    <3> QED
      BY <2>4, <3>1 DEF Early
  <2>6. <<Filename(f)>> \in Seq(Lines)
    BY Said
  <2>7. /\ World.cancelled = cancelled /\ World.file = file
    BY DEF World
  <2>8. ASSUME NEW k \in Records, ~Live(k), Phase(Top, k, World)
        PROVE  Phase(fr, k, World)
    BY <2>1, <2>3, <2>4, <2>7, <2>8 DEF Phase, Waiting, Dots, Sending
  <2>9. ASSUME NEW c, NEW k \in Records, NEW k2 \in Records, Live(k),
               k2 = [k EXCEPT !.c2s = @ \o <<Filename(f)>>],
               Phase(Top, k, World), Shape(c, k, World)
        PROVE  Phase(fr, k2, World) /\ Shape(c, k2, World)
    <3>1. /\ fr.dir = f /\ fr.pc = IF World.cancelled THEN "quit" ELSE "form"
          /\ ~World.file[f].sent
      BY <2>3, <2>4, <2>7
    <3>2. /\ k \in Records /\ k2 \in Records /\ f \in Forms /\ Live(k)
          /\ k2 = [k EXCEPT !.c2s = @ \o <<Filename(f)>>]
          /\ Phase(Top, k, World) /\ Shape(c, k, World)
      BY <2>9
    <3> QED
      BY ONLY <2>1, <2>3, <3>1, <3>2, NameWritten
  <2>10. UNCHANGED <<disk, sockfd, fd0, inbuf, strange, cancelled, mishap>>
    BY <1>1 DEF SendFilename
  <2> QED
    BY <2>1, <2>2, <2>4, <2>5, <2>6, <2>8, <2>9, <2>10, WriteSound
<1>2. CASE SendForm
  <2>1. /\ stack # <<>> /\ Top.pc = "form" /\ Top.pc \notin Early /\ Top \in FrameType
        /\ Top.dir \in Forms
    <3>1. /\ stack # <<>> /\ Top.pc = "form" /\ Top.pc \notin Early /\ Top \in FrameType
      BY <1>2, TopFacts DEF SendForm, Early
    <3> QED
      BY <3>1 DEF FrameType
  <2>2. CASE WriteFails /\ Goto("next")
    <3>1. "next" \in Pcs \ Early /\ "next" \notin {"form", "answer"}
      BY DEF Pcs, Pumping, Early
    <3>2. conn' = conn /\ (sockfd > 0 => ~Live(conn[sockfd]))
      BY <2>2, FailCases
    <3>3. ASSUME sockfd > 0, Phase(Top, conn[sockfd], World), Later(World, World'),
                 Unsending(World, World')
          PROVE  Phase([Top EXCEPT !.pc = "next"], conn[sockfd], World')
      <4>1. [Top EXCEPT !.pc = "next"].pc = "next"
        BY <2>1, TopAt
      <4>2. conn[sockfd].s2c = <<>>
        BY <2>1, <3>3 DEF Phase, Waiting
      <4>3. Dots([Top EXCEPT !.pc = "next"], conn[sockfd], World')
        BY <3>3, <4>1, DotsMoves DEF Phase, Sending
      <4> QED
        BY <3>2, <3>3, <4>1, <4>2, <4>3 DEF Phase
    <3> QED
      BY <1>2, <2>1, <2>2, <3>1, <3>2, <3>3, TopTurns DEF SendForm
  <2>3. CASE /\ WriteOk(<<Text(Top.dir, file[Top.dir].ver), Word(".")>>)
             /\ Goto("answer")
    <3> DEFINE fr == [Top EXCEPT !.pc = "answer"]
               t == <<Text(Top.dir, file[Top.dir].ver), Word(".")>>
    <3>1. "answer" \in Pcs \ Early
      BY DEF Pcs, Pumping, Early
    <3>2. fr \in FrameType /\ stack' = [stack EXCEPT ![Len(stack)] = fr]
      BY <2>1, <2>3, <3>1, Types, GotoFrame
    <3>3. fr.dir = Top.dir /\ fr.own = Top.own /\ fr.zero = Top.zero /\ fr.pc = "answer"
      BY <2>1, TopAt
    <3> HIDE DEF fr
    <3>4. ~fr.zero /\ fr.pc \notin Early
      <4>1. ~Top.zero
        BY <1>2, TopFacts DEF SendForm, Early
      <4> QED
        BY <3>3, <4>1 DEF Early
    <3>5. file[Top.dir].ver \in Nat \ {0} /\ file[Top.dir].ver \in 1..MaxVer
      <4>1. file[Top.dir].ver \in 1..MaxVer /\ file[Top.dir].ver \in Nat
        BY <2>1, WorldTypes
      <4> QED
        BY <4>1
    <3>6. Text(Top.dir, file[Top.dir].ver) \in Lines /\ Word(".") \in Lines
      BY <2>1, <3>5, Said DEF Words
    <3>7. World.cancelled = cancelled /\ World.file = file
      BY DEF World
    <3>8. ASSUME NEW k \in Records, ~Live(k), Phase(Top, k, World)
          PROVE  Phase(fr, k, World)
      BY <2>1, <3>3, <3>7, <3>8 DEF Phase, Waiting, Dots, Sending
    <3>9. /\ t \in Seq(Lines) /\ WriteOk(t) /\ Len(t) = 2
          /\ t[1] = Text(Top.dir, World.file[Top.dir].ver) /\ t[2] = Word(".")
      BY <2>3, <3>6, <3>7
    <3> HIDE DEF t
    <3>10. World.file[Top.dir].ver \in Nat \ {0}
      BY <3>5, <3>7
    <3>11. ASSUME NEW c, NEW k \in Records, NEW k2 \in Records, Live(k),
                  k2 = [k EXCEPT !.c2s = @ \o t],
                  Phase(Top, k, World), Shape(c, k, World)
           PROVE  Phase(fr, k2, World) /\ Shape(c, k2, World)
      BY <2>1, <3>3, <3>9, <3>10, <3>11, FormWritten
    <3>12. UNCHANGED <<disk, sockfd, fd0, inbuf, strange, cancelled, mishap>>
      BY <1>2 DEF SendForm
    <3> QED
      BY <2>1, <3>2, <3>3, <3>4, <3>8, <3>9, <3>11, <3>12, WriteSound
  <2> QED
    BY <1>2, <2>2, <2>3 DEF SendForm
<1> QED
  BY <1>1, <1>2

\* and its answer: the flag is set for the form that was sent, and the server
\* has it.
LEMMA AnsweredSound ==
    ASSUME TypeOK, TypeOK', Sound, ~shut, ~shut', FormAnswered
    PROVE  Sound'
<1> USE DEF user, hist
<1>1. PICK a \in Conns \X {"500", "refused"} :
        /\ ReadLine(a)
        /\ strange' = (strange \/ a[1] # Top.own)
        /\ \/ a[2] = "500" /\ file' = [file EXCEPT ![Top.dir].sent = TRUE]
           \/ (a[2] # "500" \/ "reopen" \in scene.faults) /\ UNCHANGED file
  BY DEF FormAnswered
<1>2. /\ stack # <<>> /\ Top.pc = "answer" /\ Top.pc \notin Early /\ Top \in FrameType
      /\ Goto("next") /\ UNCHANGED <<db, sockfd, fd0, cancelled, mishap>> /\ ~Top.zero
  BY TopFacts DEF FormAnswered, Early
<1>3. Top.dir \in Forms
  BY <1>2 DEF FrameType
<1> DEFINE d == Top.dir
           k == conn[sockfd]  k2 == [k EXCEPT !.s2c = <<>>]
           fr == [Top EXCEPT !.pc = "next"]
<1>4. /\ sockfd > 0 /\ inbuf' = <<>> /\ k.s2c # <<>> /\ a = k.s2c[1] /\ a[1] = sockfd
      /\ Total(k) = 0
      /\ conn' = [conn EXCEPT ![sockfd] = k2] /\ k2 \in Records
      /\ Shape(sockfd, k2, World)
  BY <1>1, ReadCases
<1>5. /\ sockfd \in Conns /\ k \in Records /\ k.srv # "none"
      /\ Phase(Top, k, World) /\ Top.own = sockfd
  BY <1>2, <1>4, AtHome, TopOwns
<1>6. ~strange'
  BY <1>1, <1>4, <1>5 DEF Sound, Globals
<1>7. k2.srv = k.srv /\ k2.link = k.link /\ k2.c2s = k.c2s /\ k2.s2c = <<>>
  BY <1>5 DEF Records, ConnType
<1>8. Total(k2) = 0 /\ NoDot(k2)
  BY <1>4, <1>5, <1>7, Lengths
<1>9. fr \in FrameType /\ stack' = [stack EXCEPT ![Len(stack)] = fr]
  <2>1. "next" \in Pcs /\ "next" \notin {"form", "answer"}
    BY DEF Pcs, Pumping
  <2> QED
    BY <1>2, <2>1, Types, GotoFrame
<1>10. fr.own = Top.own /\ fr.pc = "next" /\ ~fr.zero
  BY <1>2, TopAt
<1>11. Live(k) => k.srv \in {"cmd", "form"}
  BY <1>2, <1>5 DEF Phase, Talk, Sending
<1> HIDE DEF fr, k2
<1>12. Phase(fr, k2, World')
  <2>1. Live(k2) => Talk(fr, k2, World')
    BY <1>7, <1>8, <1>10, <1>11 DEF Live, Talk, Asking, Sending, Waiting
  <2> QED
    BY <1>7, <1>8, <1>10, <2>1 DEF Phase, Dots
<1>13. file \in [Forms -> [ver : 1..MaxVer, sent : BOOLEAN]]
  BY Types
<1>14. /\ \A g \in Forms : file'[g].ver = file[g].ver
       /\ \A g \in Forms : file'[g].sent => file[g].sent \/ (g = d /\ a[2] = "500")
  BY <1>1, <1>13
<1>15. \A g \in Forms : file[g].ver <= file'[g].ver
  BY <1>14, WorldTypes
<1>16. Later(World, World')
  BY <1>2, <1>15, WorldLater
<1>17. Shape(sockfd, k2, World')
  BY <1>4, <1>16, ShapeLater
<1>18. SentIsStored'
  <2> SUFFICES ASSUME NEW g \in Forms, file'[g].sent, mishap[g] = {}
               PROVE  db[g] = Stored(g, file[g].ver)
    BY <1>2, <1>14 DEF SentIsStored
  <2>1. CASE file[g].sent
    BY <2>1 DEF Sound, SentIsStored
  <2>2. CASE g = d /\ a[2] = "500"
    BY <1>2, <1>4, <1>5, <2>2 DEF Phase, World
  <2> QED
    BY <1>14, <2>1, <2>2
<1>19. RecordIsOneForm'
  BY <1>2, <1>14 DEF Sound, RecordIsOneForm, Stored, Text, Nothing
<1>20. fr.pc \notin Early /\ k2.srv # "none"
  BY <1>5, <1>7, <1>10 DEF Early
<1> QED
  BY <1>2, <1>4, <1>6, <1>9, <1>10, <1>12, <1>16, <1>17, <1>18, <1>19, <1>20, TopMoves

-----------------------------------------------------------------------------
(* The server and the network *)

\* A session's connection changes, and no transfer does.
LEMMA ConnMoves ==
    ASSUME TypeOK, TypeOK', Sound, ~shut, ~shut',
           NEW c \in Conns, NEW k2 \in Records, conn[c].srv # "none",
           conn' = [conn EXCEPT ![c] = k2], k2.srv # "none",
           UNCHANGED <<file, stack, sockfd, fd0, inbuf, strange, cancelled>>,
           \A f \in Forms : mishap[f] \subseteq mishap'[f],
           Later(World, World') => Shape(c, k2, World'),
           SentIsStored', RecordIsOneForm',
           ASSUME NEW i \in 1..Len(stack), Owner(i, stack, sockfd), sockfd > 0,
                  Later(World, World'), Phase(stack[i], conn[sockfd], World)
           PROVE  Phase(stack[i], conn'[sockfd], World')
    PROVE  Sound'
<1>1. conn \in [Conns -> Records]
  BY Types DEF Conned
<1>2. \A f \in Forms : file[f].ver <= file'[f].ver
  BY WorldTypes
<1>3. Later(World, World')
  BY <1>2, WorldLater
<1>4. Frames(stack')
  BY DEF Sound
<1>5. Owned(stack', sockfd', conn', World')
  <2> SUFFICES ASSUME sockfd > 0
               PROVE  /\ conn'[sockfd].srv # "none"
                      /\ \E i \in 1..Len(stack) :
                            Owner(i, stack, sockfd) /\ Phase(stack[i], conn'[sockfd], World')
    BY DEF Owned
  <2>1. PICK i \in 1..Len(stack) :
          Owner(i, stack, sockfd) /\ Phase(stack[i], conn[sockfd], World)
    BY DEF Sound, Owned
  <2>2. conn[sockfd].srv # "none" /\ sockfd \in Conns
    BY AtHome
  <2> QED
    BY <1>1, <1>3, <2>1, <2>2
<1>6. Shapes(conn', World')
  <2> SUFFICES ASSUME NEW e \in Conns PROVE Shape(e, conn'[e], World')
    BY DEF Shapes
  <2>1. CASE e = c
    BY <1>1, <1>3, <2>1
  <2>2. CASE e # c
    BY <1>1, <1>3, <2>2, ShapeLater DEF Sound, Shapes
  <2> QED
    BY <2>1, <2>2
<1> QED
  BY <1>4, <1>5, <1>6, SoundAfter DEF Sound, Globals

\* The same without a record stored: what the session does keeps the point
\* where its own transfer is.
LEMMA SessionMoves ==
    ASSUME TypeOK, TypeOK', Sound, ~shut, ~shut',
           NEW c \in Conns, NEW k2 \in Records, conn[c].srv # "none",
           conn' = [conn EXCEPT ![c] = k2], k2.srv # "none",
           UNCHANGED <<disk, stack, sockfd, fd0, inbuf, strange, cancelled, mishap>>,
           Shape(c, k2, World),
           ASSUME NEW fr \in FrameType, fr.pc \notin Early, Phase(fr, conn[c], World)
           PROVE  Phase(fr, k2, World)
    PROVE  Sound'
<1>1. conn \in [Conns -> Records]
  BY Types DEF Conned
<1>2. World' = World
  BY DEF World, disk
<1>3. SentIsStored' /\ RecordIsOneForm'
  BY StoredKept
<1>4. ASSUME NEW i \in 1..Len(stack), Phase(stack[i], conn[sockfd], World), sockfd > 0,
             Owner(i, stack, sockfd)
      PROVE  Phase(stack[i], conn'[sockfd], World')
  <2>1. CASE sockfd = c
    <3>1. stack[i] \in FrameType /\ stack[i].pc \notin Early
      <4>1. stack \in Seq(FrameType)
        BY Types
      <4> QED
        BY <1>4, <4>1 DEF Owner
    <3> QED
      BY <1>1, <1>2, <1>4, <2>1, <3>1
  <2>2. CASE sockfd # c
    BY <1>1, <1>2, <1>4, <2>2
  <2> QED
    BY <2>1, <2>2
<1>5. Shape(c, k2, World')
  BY <1>2
<1>6. UNCHANGED file /\ \A f \in Forms : mishap[f] \subseteq mishap'[f]
  BY DEF disk
<1> QED
  BY <1>3, <1>4, <1>5, <1>6, ConnMoves

\* A record that is forgotten is at every point.
LEMMA TidyPhase ==
    ASSUME NEW fr, NEW k, NEW w, Phase(fr, k, w)
    PROVE  Phase(fr, Tidy(k), w)
<1>1. Phase(fr, Ended, w)
  BY EndedShape, Lengths DEF Phase, Live, Dots
<1> QED
  BY <1>1 DEF Tidy

\* A session that serves its connection keeps Sound, if its transfer stays where
\* it is.
LEMMA ServeMoves ==
    ASSUME TypeOK, TypeOK', Sound, ~shut, ~shut',
           NEW c \in Conns, NEW k2 \in Records, conn[c].srv # "none",
           Serve(c, k2), k2.srv # "none",
           UNCHANGED <<disk, stack, sockfd, fd0, inbuf, strange, cancelled, mishap>>,
           Shape(c, k2, World),
           ASSUME NEW fr \in FrameType, fr.pc \notin Early, Phase(fr, conn[c], World)
           PROVE  Phase(fr, k2, World)
    PROVE  Sound'
<1>1. Tidy(k2) \in Records /\ Shape(c, Tidy(k2), World) /\ Tidy(k2).srv # "none"
  BY TidyShape, EndedShape DEF Tidy
<1>2. conn' = [conn EXCEPT ![c] = Tidy(k2)]
  BY DEF Serve
<1>3. ASSUME NEW fr \in FrameType, fr.pc \notin Early, Phase(fr, conn[c], World)
      PROVE  Phase(fr, Tidy(k2), World)
  BY <1>3, TidyPhase
<1> QED
  BY <1>1, <1>2, <1>3, SessionMoves

\* A session that ends is where its transfer is.
LEMMA SessionEnds ==
    ASSUME NEW c, NEW k \in Records, NEW k2 \in Records, NEW w, Shape(c, k, w),
           k2.srv = "ended", k2.c2s = <<>>, k2.s2c = k.s2c
    PROVE  /\ Shape(c, k2, w)
           /\ \A fr : Phase(fr, k, w) => Phase(fr, k2, w)
<1>1. Total(k2) = 0
  BY Lengths
<1>2. Shape(c, k2, w)
  <2>1. Shorter(k, k2)
    BY <1>1, NoneShorter
  <2>2. /\ Len(k2.s2c) <= 1
        /\ k2.s2c # <<>> => k2.s2c[1][1] = c /\ Total(k2) = 0
        /\ k2.srv \notin Login
    BY <1>1 DEF Shape, Login
  <2> QED
    BY <2>1, <2>2, ShapeShorter
<1>3. \A fr : Phase(fr, k, w) => Phase(fr, k2, w)
  BY <1>1, NoneShorter, PhaseDown DEF Live
<1> QED
  BY <1>2, <1>3

\* The login takes a word: it may answer, and goes on or ends.
LEMMA LoginStep ==
    ASSUME NEW c, NEW k \in Records, NEW k2 \in Records, NEW w, Shape(c, k, w),
           k.srv \in Login, k.c2s # <<>>, k2.c2s = <<>>, k2.srv # "form",
           k2.link = k.link,
           \/ k2.s2c = k.s2c
           \/ k.link = "up" /\ \E code : k2.s2c = Append(k.s2c, <<c, code>>),
           \/ k2.srv = "ended"
           \/ \A pc \in Waiting : k.srv = Asked(pc) => k2.srv = Replied(pc)
    PROVE  /\ Shape(c, k2, w)
           /\ \A fr \in FrameType : fr.pc \notin Early /\ Phase(fr, k, w) => Phase(fr, k2, w)
<1>1. Total(k) = Len(k.c2s) /\ Len(k.c2s) \in Nat /\ Len(k.c2s) > 0
  <2>1. k.srv # "form"
    BY DEF Login
  <2>2. /\ Offset(k) = 0 /\ Total(k) = Offset(k) + Len(k.c2s) /\ Len(k.c2s) \in Nat
        /\ k.c2s \in Seq(Lines)
    BY <2>1, Lengths
  <2>3. Len(k.c2s) # 0
    BY <2>2
  <2> QED
    BY <2>2, <2>3
<1>2. Total(k2) = 0 /\ Total(k) # 0 /\ NoDot(k2)
  BY <1>1, Lengths
<1>3. k.s2c = <<>>
  BY <1>2 DEF Shape
<1>4. k2.s2c = <<>> \/ (k.link = "up" /\ \E code : k2.s2c = <<<<c, code>>>>)
  BY <1>3
<1>5. Len(k2.s2c) <= 1 /\ (k2.s2c # <<>> => k2.s2c[1][1] = c)
  BY <1>4
<1>6. Shape(c, k2, w)
  <2>1. Len(k2.c2s) <= 1
    OBVIOUS
  <2> QED
    BY <1>2, <1>5, <2>1, NoneShorter, ShapeShorter
<1>7. ASSUME NEW fr \in FrameType, fr.pc \notin Early, Phase(fr, k, w)
      PROVE  Phase(fr, k2, w)
  <2>1. CASE k.link = "up"
    <3>1. k.srv # "ended" /\ k.srv \notin {"cmd", "form"}
      BY DEF Login
    <3>2. Talk(fr, k, w)
      BY <1>7, <2>1, <3>1 DEF Phase, Live
    <3>3. fr.pc \notin Asking /\ fr.pc \notin Sending
      BY <1>2, <3>1, <3>2 DEF Talk
    <3>4. fr.pc \in Waiting => k.srv = Asked(fr.pc)
      BY <1>2, <3>2 DEF Talk
    <3>5. fr.pc \in Waiting \cup {"failed"} /\ fr.pc \notin {"form", "answer", "next", "quit"}
      BY <1>7, <3>3 DEF FrameType, Pumping, Early, Asking, Waiting, Sending
    <3>6. Live(k2) => Talk(fr, k2, w)
      BY <1>2, <3>3, <3>4, <3>5 DEF Talk, Live
    <3> QED
      BY <1>2, <3>5, <3>6 DEF Phase, Dots
  <2>2. CASE k.link # "up"
    <3>1. ~Live(k2) /\ k2.s2c \in {<<>>, k.s2c}
      BY <1>4, <2>2 DEF Live
    <3> QED
      BY <1>2, <1>7, <3>1, NoneShorter, PhaseDown
  <2> QED
    BY <2>1, <2>2
<1> QED
  BY <1>6, <1>7

\* The login of the server keeps Sound.
LEMMA LoginServed ==
    ASSUME TypeOK, TypeOK', Sound, ~shut, ~shut', NEW c \in Conns,
           ServerLogin(c) \/ ServerRefuses(c)
    PROVE  Sound'
<1> USE DEF user, hist
<1> DEFINE k == conn[c]
           said == Head(k.c2s)
<1>1. UNCHANGED <<disk, stack, sockfd, fd0, inbuf, strange, cancelled, mishap>>
  BY DEF ServerLogin, ServerRefuses
<1>2. k \in Records /\ Shape(c, k, World)
  BY Types DEF Conned, Sound, Shapes
<1>3. ASSUME NEW p \in Login, Takes(c, p), NEW k2 \in Records, Serve(c, k2),
             k2.c2s = <<>>, k2.srv # "form", k2.srv # "none", k2.link = k.link,
             \/ k2.s2c = k.s2c
             \/ k.link = "up" /\ \E code : k2.s2c = Append(k.s2c, <<c, code>>),
             \/ k2.srv = "ended"
             \/ \A pc \in Waiting : p = Asked(pc) => k2.srv = Replied(pc)
      PROVE  Sound'
  <2>1. k.srv = p /\ k.srv \in Login /\ k.c2s # <<>> /\ conn[c].srv # "none"
    BY <1>3 DEF Takes, Made
  <2>2. /\ Shape(c, k2, World)
        /\ \A fr \in FrameType :
              fr.pc \notin Early /\ Phase(fr, k, World) => Phase(fr, k2, World)
    BY <1>2, <1>3, <2>1, LoginStep
  <2> QED
    BY <1>1, <1>3, <2>1, <2>2, ServeMoves
<1>4. ASSUME NEW p \in Login, Takes(c, p)
      PROVE  /\ Rest(c) \in Records /\ Rest(c).c2s = <<>> /\ Rest(c).srv = p
             /\ Rest(c).link = k.link /\ Rest(c).s2c = k.s2c /\ Rest(c).name = 0
             /\ Rest(c).body = <<>> /\ k.name = 0 /\ k.body = <<>>
  <2>1. k.srv = p /\ k.srv \in Login /\ k.c2s # <<>>
    BY <1>4 DEF Takes
  <2>2. Len(k.c2s) <= 1 /\ k.c2s \in Seq(Lines)
    BY <1>2, <2>1, Lengths DEF Shape
  <2>3. Tail(k.c2s) = <<>>
    BY <2>1, <2>2
  <2>4. k.name = 0 /\ k.body = <<>>
    BY <1>2, <2>1 DEF Records, Login
  <2>5. Rest(c) \in Records
    BY <2>1, RestType, Types
  <2> QED
    BY <1>2, <2>1, <2>3, <2>4, <2>5 DEF Rest, Records, ConnType
<1>5. ASSUME NEW p \in Login, Takes(c, p), Serve(c, End(Rest(c)))
      PROVE  Sound'
  <2>1. End(Rest(c)) \in Records
    BY <1>4, <1>5, EndType DEF Records
  <2>2. /\ End(Rest(c)).c2s = <<>> /\ End(Rest(c)).srv = "ended"
        /\ End(Rest(c)).link = k.link /\ End(Rest(c)).s2c = k.s2c
    BY <1>4, <1>5 DEF End, Records, ConnType
  <2> HIDE DEF k
  <2> QED
    BY <1>3, <1>5, <2>1, <2>2
<1>6. ASSUME NEW p \in Login, Takes(c, p), Serve(c, End(Replying(Rest(c), c, "refused")))
      PROVE  Sound'
  <2> DEFINE r == Replying(Rest(c), c, "refused")
  <2>1. r \in Records
    BY <1>4, <1>6, ReplyType
  <2>2. /\ r.link = k.link
        /\ \/ r.s2c = k.s2c
           \/ k.link = "up" /\ r.s2c = Append(k.s2c, <<c, "refused">>)
    BY <1>4, <1>6 DEF Replying, Records, ConnType
  <2> HIDE DEF r
  <2>3. End(r) \in Records
    BY <2>1, EndType DEF Records
  <2>4. /\ End(r).c2s = <<>> /\ End(r).srv = "ended" /\ End(r).link = r.link
        /\ End(r).s2c = r.s2c
    BY <2>1 DEF End, Records, ConnType
  <2>5. Serve(c, End(r))
    BY <1>6 DEF r
  <2> QED
    BY <1>3, <1>6, <2>2, <2>3, <2>4, <2>5
<1>7. ASSUME NEW p \in Login, NEW next \in {"user", "pass", "cmd"}, Takes(c, p),
             \A pc \in Waiting : p = Asked(pc) => next = Replied(pc),
             Serve(c, Replying([Rest(c) EXCEPT !.srv = next], c, "500"))
      PROVE  Sound'
  <2> DEFINE s == [Rest(c) EXCEPT !.srv = next]
             r == Replying(s, c, "500")
  <2>1. /\ s \in Records /\ s.c2s = <<>> /\ s.srv = next /\ s.link = k.link
        /\ s.s2c = k.s2c
    BY <1>4, <1>7 DEF Records, ConnType
  <2>2. Serve(c, r)
    BY <1>7
  <2> HIDE DEF s
  <2>3. r \in Records
    BY <2>1, ReplyType
  <2>4. /\ r.link = k.link /\ r.srv = next /\ r.c2s = <<>>
        /\ \/ r.s2c = k.s2c
           \/ k.link = "up" /\ r.s2c = Append(k.s2c, <<c, "500">>)
    BY <2>1 DEF Replying, Records, ConnType
  <2> HIDE DEF r
  <2> QED
    BY <1>3, <1>7, <2>2, <2>3, <2>4
<1>8. CASE ServerRefuses(c)
  <2>1. "user" \in Login
    BY DEF Login
  <2> QED
    BY <1>6, <1>8, <2>1 DEF ServerRefuses
<1>9. CASE ServerLogin(c)
  <2>1. /\ "magic" \in Login /\ "user" \in Login /\ "pass" \in Login
        /\ \A pc \in Waiting : /\ "magic" = Asked(pc) => "user" = Replied(pc)
                               /\ "user" = Asked(pc) => "pass" = Replied(pc)
                               /\ "pass" = Asked(pc) => "cmd" = Replied(pc)
    BY DEF Login, Waiting, Asked, Replied
  <2>2. PICK p \in Login, next \in {"user", "pass", "cmd"}, word \in {"MAGIC", "USER", "good"} :
          /\ Takes(c, p) /\ \A pc \in Waiting : p = Asked(pc) => next = Replied(pc)
          /\ IF said = Word(word)
             THEN Serve(c, Replying([Rest(c) EXCEPT !.srv = next], c, "500"))
             ELSE IF p = "pass" /\ said = Word("bad")
             THEN Serve(c, End(Replying(Rest(c), c, "refused")))
             ELSE Serve(c, End(Rest(c)))
    BY <1>9, <2>1 DEF ServerLogin
  <2> QED
    BY <1>5, <1>6, <1>7, <2>2
<1> QED
  BY <1>8, <1>9

\* A line that is taken and not answered.
LEMMA TakenSound ==
    ASSUME TypeOK, TypeOK', Sound, ~shut, ~shut', NEW c \in Conns,
           conn[c].srv \in {"cmd", "form"}, conn[c].c2s # <<>>,
           NEW k2 \in Records, Serve(c, k2), k2.srv = "form",
           Shorter(conn[c], k2), Total(k2) = Total(conn[c]),
           k2.link = conn[c].link, k2.s2c = conn[c].s2c,
           UNCHANGED <<disk, stack, sockfd, fd0, inbuf, strange, cancelled, mishap>>
    PROVE  Sound'
<1> DEFINE k == conn[c]
<1>1. k \in Records /\ Shape(c, k, World)
  BY Types DEF Conned, Sound, Shapes
<1>2. Total(k) >= 1 /\ Total(k) # 0
  <2>1. /\ Total(k) \in Nat /\ Offset(k) \in Nat /\ Total(k) = Offset(k) + Len(k.c2s)
        /\ k.c2s \in Seq(Lines) /\ Len(k.c2s) \in Nat
    BY <1>1, Lengths
  <2>2. Len(k.c2s) # 0
    BY <2>1
  <2> QED
    BY <2>1, <2>2
<1>3. k.s2c = <<>>
  BY <1>1, <1>2 DEF Shape
<1>4. Shape(c, k2, World)
  <2>1. k2.srv \notin Login /\ k2.srv \notin {"ended", "none"}
    BY DEF Login
  <2>2. Len(k2.s2c) <= 1
    BY <1>1 DEF Shape
  <2> QED
    BY <1>1, <1>3, <2>1, <2>2, ShapeShorter
<1>5. ASSUME NEW fr \in FrameType, fr.pc \notin Early, Phase(fr, k, World)
      PROVE  Phase(fr, k2, World)
  BY <1>1, <1>2, <1>5, PhaseTaken
<1>6. conn[c].srv # "none" /\ k2.srv # "none"
  OBVIOUS
<1> QED
  BY <1>4, <1>5, <1>6, ServeMoves

\* A session that ends, whatever it had before it.
LEMMA EndSound ==
    ASSUME TypeOK, TypeOK', Sound, ~shut, ~shut', NEW c \in Conns,
           conn[c].srv # "none", NEW r \in Records, r.s2c = conn[c].s2c,
           Serve(c, End(r)),
           UNCHANGED <<disk, stack, sockfd, fd0, inbuf, strange, cancelled, mishap>>
    PROVE  Sound'
<1> DEFINE k == conn[c]  k2 == End(r)
<1>1. k \in Records /\ Shape(c, k, World)
  BY Types DEF Conned, Sound, Shapes
<1>2. k2 \in Records
  BY EndType DEF Records
<1>3. k2.srv = "ended" /\ k2.c2s = <<>> /\ k2.s2c = k.s2c
  BY DEF End, Records, ConnType
<1> HIDE DEF k2
<1>4. Shape(c, k2, World) /\ \A fr : Phase(fr, k, World) => Phase(fr, k2, World)
  BY <1>1, <1>2, <1>3, SessionEnds
<1>5. Serve(c, k2) /\ k2.srv # "none"
  BY <1>3 DEF k2
<1> QED
  BY <1>2, <1>4, <1>5, ServeMoves

\* What a session does other than storing keeps Sound.
LEMMA SessionSound ==
    ASSUME TypeOK, TypeOK', Sound, ~shut, ~shut', NEW c \in Conns,
           ServerCommand(c) \/ ServerLine(c) \/ ServerAbandons(c) \/ ServerHangUp(c)
    PROVE  Sound'
<1> USE DEF user, hist
<1> DEFINE k == conn[c]
<1>1. UNCHANGED <<disk, stack, sockfd, fd0, inbuf, strange, cancelled, mishap>>
  BY DEF ServerCommand, ServerLine, ServerAbandons, ServerHangUp
<1>2. k \in Records /\ Conned
  BY Types DEF Conned
<1>3. ASSUME NEW p, Takes(c, p)
      PROVE  /\ k.srv = p /\ k.c2s # <<>> /\ k.srv # "none" /\ Rest(c) \in Records
             /\ Head(k.c2s) \in Lines
             /\ Rest(c) = [k EXCEPT !.c2s = Tail(@)] /\ Rest(c).s2c = k.s2c
  <2>1. k.srv = p /\ k.c2s # <<>> /\ k.srv # "none"
    BY <1>3 DEF Takes, Made
  <2>2. Rest(c) \in Records /\ Head(k.c2s) \in Lines
    BY <1>2, <2>1, RestType
  <2> QED
    BY <1>2, <2>1, <2>2 DEF Rest, Records, ConnType
<1>4. CASE ServerCommand(c)
  <2> DEFINE said == Head(k.c2s)
             k2 == [k EXCEPT !.c2s = Tail(@), !.srv = "form", !.name = said.form]
  <2>1. Takes(c, "cmd") /\ k.srv = "cmd" /\ k.c2s # <<>> /\ said \in Lines
    BY <1>3, <1>4 DEF ServerCommand
  <2>2. CASE said.kind = "FILENAME"
    <3>1. Serve(c, k2)
      BY <1>3, <1>4, <2>1, <2>2 DEF ServerCommand
    <3>2. Tail(k.c2s) \in Seq(Lines) /\ said.form \in 0..NForms
      BY <1>2, <2>1, Lengths, Said
    <3>3. k2 \in Records
      BY <1>2, <3>2 DEF Records, ConnType
    <3>4. k2.srv = "form" /\ k2.link = k.link /\ k2.s2c = k.s2c
      BY <1>2 DEF Records, ConnType
    <3>5. Shorter(k, k2) /\ Total(k2) = Total(k)
      <4>1. k2 = [k EXCEPT !.c2s = Tail(@), !.srv = "form", !.name = Head(k.c2s).form]
        OBVIOUS
      <4> HIDE DEF k2, k
      <4> QED
        BY <1>2, <2>1, <2>2, <3>3, <4>1, NameTaken
    <3> HIDE DEF k2
    <3> QED
      BY <1>1, <2>1, <3>1, <3>3, <3>4, <3>5, TakenSound
  <2>3. CASE said.kind # "FILENAME"
    <3>1. Serve(c, End(Rest(c)))
      BY <1>4, <2>3 DEF ServerCommand
    <3> QED
      BY <1>1, <1>3, <2>1, <3>1, EndSound
  <2> QED
    BY <2>2, <2>3
<1>5. CASE ServerLine(c)
  <2> DEFINE k2 == [k EXCEPT !.c2s = Tail(@), !.body = Append(@, Head(k.c2s))]
  <2>1. Takes(c, "form") /\ k.srv = "form" /\ k.c2s # <<>> /\ Head(k.c2s) \in Lines
    BY <1>3, <1>5 DEF ServerLine
  <2>2. Serve(c, k2)
    BY <1>2, <1>3, <1>5, <2>1 DEF ServerLine, Records, ConnType
  <2>3. Tail(k.c2s) \in Seq(Lines) /\ Append(k.body, Head(k.c2s)) \in Seq(Lines)
    BY <1>2, <2>1, Lengths
  <2>4. k2 \in Records
    BY <1>2, <2>1, <2>3 DEF Records, ConnType
  <2>5. k2.srv = "form" /\ k2.link = k.link /\ k2.s2c = k.s2c
    BY <1>2, <2>1 DEF Records, ConnType
  <2>6. Shorter(k, k2) /\ Total(k2) = Total(k)
    BY <1>2, <2>1, <2>4, LineTaken
  <2> HIDE DEF k2
  <2> QED
    BY <1>1, <2>1, <2>2, <2>4, <2>5, <2>6, TakenSound
<1>6. CASE ServerAbandons(c)
  <2>1. Takes(c, "form") /\ Serve(c, End(Rest(c)))
    BY <1>6 DEF ServerAbandons
  <2> QED
    BY <1>1, <1>3, <2>1, EndSound
<1>7. CASE ServerHangUp(c)
  <2>1. Serve(c, End(k)) /\ k.srv # "none"
    BY <1>7 DEF ServerHangUp, Made
  <2> QED
    BY <1>1, <1>2, <2>1, EndSound
<1> QED
  BY <1>4, <1>5, <1>6, <1>7

\* A cut or a silent connection keeps Sound,
LEMMA NetworkSound ==
    ASSUME TypeOK, TypeOK', Sound, ~shut, ~shut', NEW c \in Conns, Cut(c) \/ Silence(c)
    PROVE  Sound'
<1> USE DEF user, hist
<1> DEFINE k == conn[c]
<1>1. UNCHANGED <<disk, stack, sockfd, fd0, inbuf, strange, cancelled, mishap>>
  BY DEF Cut, Silence
<1>2. k \in Records /\ Shape(c, k, World) /\ k.srv # "none" /\ k.srv # "ended"
  BY Types DEF Conned, Sound, Shapes, Cut, Silence, Made
<1>3. CASE Cut(c)
  <2>1. PICK n \in 0..Len(k.c2s) :
          Serve(c, [k EXCEPT !.link = "cut", !.s2c = <<>>, !.c2s = SubSeq(@, 1, n)])
    BY <1>3 DEF Cut
  <2> DEFINE k2 == [k EXCEPT !.link = "cut", !.s2c = <<>>, !.c2s = SubSeq(@, 1, n)]
  <2>2. SubSeq(k.c2s, 1, n) \in Seq(Lines) /\ Len(SubSeq(k.c2s, 1, n)) = n
        /\ n \in Nat /\ n <= Len(k.c2s)
    <3>1. k.c2s \in Seq(Lines) /\ Len(k.c2s) \in Nat
      BY <1>2, Lengths
    <3> QED
      BY <3>1
  <2>3. <<>> \in Seq(Conns \X {"500", "refused"})
    OBVIOUS
  <2>4. /\ k2 \in Records /\ k2.srv = k.srv /\ k2.s2c = <<>> /\ k2.link = "cut"
        /\ Len(k2.c2s) = n
    BY <1>2, <2>2, <2>3 DEF Records, ConnType
  <2>5. Serve(c, k2)
    BY <2>1
  <2>6. Shorter(k, k2)
    BY <1>2, <2>4, LinesCut
  <2> HIDE DEF k2
  <2>7. k2.srv \in Login => Len(k2.c2s) <= 1
    <3>1. ASSUME k.srv \in Login PROVE n <= 1
      <4>1. Len(k.c2s) <= 1 /\ Len(k.c2s) \in Nat
        BY <1>2, <3>1, Lengths DEF Shape
      <4> QED
        BY <2>2, <4>1
    <3> QED
      BY <2>4, <3>1
  <2>8. Shape(c, k2, World)
    <3>1. Len(k2.s2c) <= 1 /\ k2.s2c = <<>> /\ k2.srv \notin {"ended", "none"}
      BY <1>2, <2>4
    <3> QED
      BY <1>2, <2>4, <2>6, <2>7, <3>1, ShapeShorter
  <2>9. ASSUME NEW fr \in FrameType, fr.pc \notin Early, Phase(fr, k, World)
        PROVE  Phase(fr, k2, World)
    BY <1>2, <2>4, <2>6, <2>9, PhaseDown DEF Live
  <2> QED
    BY <1>1, <1>2, <2>4, <2>5, <2>8, <2>9, ServeMoves
<1>4. CASE Silence(c)
  <2> DEFINE k2 == [k EXCEPT !.link = "silence"]
  <2>1. conn' = [conn EXCEPT ![c] = k2]
    BY <1>4 DEF Silence
  <2>2. /\ k2 \in Records /\ k2.srv = k.srv /\ k2.c2s = k.c2s /\ k2.s2c = k.s2c
        /\ k2.name = k.name /\ k2.body = k.body /\ k2.link = "silence"
    BY <1>2 DEF Records, ConnType
  <2> HIDE DEF k2
  <2>3. Shape(c, k2, World)
    BY <1>2, <2>2, SameShape
  <2>4. ASSUME NEW fr \in FrameType, fr.pc \notin Early, Phase(fr, k, World)
        PROVE  Phase(fr, k2, World)
    BY <1>2, <2>2, <2>4, PhaseDown, SameShorter DEF Live
  <2> QED
    BY <1>1, <1>2, <2>1, <2>2, <2>3, <2>4, SessionMoves
<1> QED
  BY <1>3, <1>4

\* and so does a client that dies.
LEMMA CrashSound ==
    ASSUME TypeOK, TypeOK', Sound, ~shut, ~shut', Crash
    PROVE  Sound'
<1>1. conn \in [Conns -> Records]
  BY Types DEF Conned
<1>2. /\ stack' = <<>> /\ sockfd' = 0 /\ fd0' = Stdin /\ inbuf' = <<>> /\ ~strange'
      /\ UNCHANGED <<disk, mishap>>
  BY DEF Crash, hist, Sound, Globals
<1>3. Later(World, World')
  BY <1>2, SameLater DEF disk
<1>4. Shapes(conn', World')
  <2> SUFFICES ASSUME NEW c \in Conns PROVE Shape(c, conn'[c], World')
    BY DEF Shapes
  <2>1. Shape(c, conn[c], World') /\ conn[c] \in Records
    BY <1>1, <1>3, ShapeLater DEF Sound, Shapes
  <2>2. conn'[c] = Tidy([conn[c] EXCEPT !.open = FALSE]) \/ conn'[c] = Unmade
    BY DEF Crash
  <2> QED
    BY <2>1, <2>2, ClosedShape, TidyShape, EndedShape
<1>5. Frames(stack') /\ Owned(stack', sockfd', conn', World')
  BY <1>2 DEF Frames, Owned
<1>6. SentIsStored' /\ RecordIsOneForm'
  BY <1>2, StoredKept
<1> QED
  BY <1>2, <1>4, <1>5, <1>6, SoundAfter

\* If "." is the next line, it is the last one.
LEMMA LastOne ==
    ASSUME NEW S, NEW s \in Seq(S), Len(s) = 1
    PROVE  Tail(s) = <<>>
<1>1. s # <<>>
  BY EmptySeq
<1>2. Tail(s) \in Seq(S) /\ Len(Tail(s)) = 0
  BY <1>1, HeadTailProperties
<1> QED
  BY <1>2, EmptySeq

-----------------------------------------------------------------------------
(* A form is stored *)

\* When "." comes, the lines are those of a version of the form that was named,
\* or no form that could be opened has been named.
LEMMA OneForm ==
    ASSUME NEW c, NEW k \in Records, NEW w, Shape(c, k, w), k.srv = "form",
           k.c2s # <<>>, Head(k.c2s) = Word(".")
    PROVE  /\ Tail(k.c2s) = <<>> /\ k.s2c = <<>> /\ ~NoDot(k) /\ Total(k) # 0
           /\ k.name \in Forms /\ Line(k, 1) = Filename(k.name) /\ Names(k, 1)
           /\ \/ Astray(k, w)
              \/ \E v \in 1..w.file[k.name].ver :
                    /\ k.body = Stored(k.name, v)
                    /\ Line(k, 2) = Text(k.name, v)
<1> DEFINE n == Len(k.c2s)  m == Len(k.body)
<1>1. /\ n \in Nat /\ m \in Nat /\ k.c2s \in Seq(Lines) /\ k.body \in Seq(Lines)
      /\ Offset(k) = 1 + m /\ Total(k) = Offset(k) + n
  BY Lengths
<1>2. n >= 1 /\ k.c2s[1] = Word(".") /\ k.c2s[1].kind = "."
  BY <1>1 DEF Word
<1> HIDE DEF n, m
<1>3. n = 1
  <2>1. n \in Nat /\ n >= 1
    BY <1>1, <1>2
  <2>2. ASSUME n > 1 PROVE FALSE
    <3>1. 1 \in 1..(n - 1)
      BY ONLY <2>1, <2>2
    <3> QED
      BY <1>2, <3>1 DEF Shape, n
  <2> QED
    BY ONLY <2>1, <2>2
<1>4. Tail(k.c2s) = <<>> /\ ~NoDot(k)
  <2>1. 1 \in 1..Len(k.c2s) /\ Len(k.c2s) = 1
    BY <1>3 DEF n
  <2>2. ~NoDot(k)
    BY <1>2, <2>1 DEF NoDot
  <2>3. Tail(k.c2s) = <<>>
    <3>1. k.c2s \in Seq(Lines)
      BY <1>1
    <3> QED
      BY <2>1, <3>1, LastOne
  <2> QED
    BY <2>2, <2>3
<1>5. Total(k) = 2 + m /\ Total(k) # 0 /\ Total(k) >= 1 /\ Total(k) >= 2
      /\ ~(1 > Offset(k)) /\ Total(k) > Offset(k) /\ Total(k) - Offset(k) = 1
  BY <1>1, <1>3
<1>6. k.s2c = <<>>
  BY <1>5 DEF Shape
<1>7. Line(k, 1) = Filename(k.name) /\ Names(k, 1) /\ Line(k, 1).form = k.name
  <2>1. Line(k, 1) = Filename(k.name)
    BY <1>5 DEF Line
  <2> QED
    BY <1>5, <2>1 DEF Names, Filename
<1>8. k.name \in Forms
  BY <1>7, NamesForm
<1>9. Line(k, Total(k)) = Word(".")
  BY <1>2, <1>5 DEF Line
<1>10. Word(".").kind = "." /\ \A f, v : Text(f, v).kind = "text"
  BY DEF Word, Text
<1>11. ASSUME Regular(k, w)
       PROVE  \E v \in 1..w.file[k.name].ver : /\ k.body = Stored(k.name, v)
                                               /\ Line(k, 2) = Text(k.name, v)
  <2>1. Total(k) = 2 \/ Total(k) = 3
    <3>1. Total(k) <= 3
      BY <1>11 DEF Regular
    <3> QED
      BY ONLY <1>1, <1>5, <3>1
  <2>2. \/ Line(k, 2).kind = "QUIT" /\ Total(k) = 2
        \/ Names(k, 2) /\ (Total(k) = 3 => Line(k, 3).kind = "QUIT")
        \/ \E v \in 1..w.file[k.name].ver : Line(k, 2) = Text(k.name, v)
    BY <1>5, <1>7, <1>11 DEF Regular
  <2>3. Total(k) = 3
    BY <1>9, <1>10, <2>1, <2>2 DEF Names
  <2>4. PICK v \in 1..w.file[k.name].ver : Line(k, 2) = Text(k.name, v)
    BY <1>9, <1>10, <2>2, <2>3
  <2>5. m = 1
    BY ONLY <1>1, <1>5, <2>3
  <2>6. Line(k, 2) = k.body[1]
    <3>1. Offset(k) = 2
      BY <1>1, <2>5
    <3>2. ~(2 > Offset(k)) /\ 2 # 1 /\ 2 - 1 = 1
      BY <3>1
    <3> QED
      BY <3>2 DEF Line
  <2>7. k.body = <<k.body[1]>>
    BY <1>1, <2>5 DEF m
  <2> QED
    BY <2>4, <2>6, <2>7 DEF Stored
<1> QED
  BY <1>4, <1>5, <1>6, <1>7, <1>8, <1>11 DEF Shape

\* The answer to a form is the only one.
LEMMA OneAnswer ==
    ASSUME NEW a, NEW s, s = <<>> \/ s = <<a>>
    PROVE  Len(s) <= 1 /\ (s # <<>> => s[1] = a)
<1>1. CASE s = <<>>
  BY <1>1
<1>2. CASE s = <<a>>
  BY <1>2
<1> QED
  BY <1>1, <1>2

\* The connection after a form was stored.
Storing(c) == Replying([Rest(c) EXCEPT !.srv = "cmd", !.name = 0, !.body = <<>>], c, "500")

\* What is on the connection after a form was stored.
LEMMA StoringFacts ==
    ASSUME Conned, NEW c \in Conns, conn[c].srv = "form", conn[c].c2s # <<>>,
           Tail(conn[c].c2s) = <<>>, conn[c].s2c = <<>>
    PROVE  /\ Storing(c) \in Records /\ Storing(c).srv = "cmd"
           /\ Storing(c).link = conn[c].link
           /\ Total(Storing(c)) = 0 /\ NoDot(Storing(c))
           /\ \/ Storing(c).s2c = <<>>
              \/ conn[c].link = "up" /\ Storing(c).s2c = <<<<c, "500">>>>
           /\ \A w : Shape(c, Storing(c), w)
           /\ Tidy(Storing(c)) = Storing(c)
<1> DEFINE s == [Rest(c) EXCEPT !.srv = "cmd", !.name = 0, !.body = <<>>]
           r == Replying(s, c, "500")
<1>1. conn[c] \in Records /\ Rest(c) \in Records
  BY RestType DEF Conned
<1>2. /\ Rest(c).c2s = <<>> /\ Rest(c).s2c = <<>> /\ Rest(c).link = conn[c].link
  BY <1>1 DEF Rest, Records, ConnType
<1>3. <<>> \in Seq(Lines)
  OBVIOUS
<1>4. /\ s \in Records /\ s.srv = "cmd" /\ s.c2s = <<>> /\ s.s2c = <<>>
      /\ s.link = conn[c].link
  BY <1>1, <1>2, <1>3, Constants DEF Records, ConnType
<1> HIDE DEF s
<1>5. r \in Records
  BY <1>4, ReplyType
<1>6. /\ r.srv = "cmd" /\ r.c2s = <<>> /\ r.link = conn[c].link
      /\ r.s2c = IF s.link = "up" /\ s.open THEN Append(<<>>, <<c, "500">>) ELSE <<>>
  BY <1>4 DEF Replying, Records, ConnType
<1>7. r.s2c = <<>> \/ (conn[c].link = "up" /\ r.s2c = <<<<c, "500">>>>)
  BY <1>4, <1>6
<1> HIDE DEF r
<1>8. Total(r) = 0 /\ NoDot(r) /\ Total(r) \in Nat
  BY <1>5, <1>6, Lengths
<1>9. Len(r.s2c) <= 1 /\ (r.s2c # <<>> => r.s2c[1][1] = c)
  <2> DEFINE a == <<c, "500">>
  <2>1. a[1] = c /\ (r.s2c = <<>> \/ r.s2c = <<a>>)
    BY <1>7
  <2> HIDE DEF a
  <2> QED
    BY <2>1, OneAnswer
<1>10. \A w : Regular(r, w)
  BY <1>8 DEF Regular
<1>11. \A i \in 1..(Len(r.c2s) - 1) : r.c2s[i].kind # "."
  BY <1>6
<1>12. \A w : Shape(c, r, w)
  BY <1>6, <1>8, <1>9, <1>10, <1>11 DEF Shape, Login
<1>13. Tidy(r) = r
  BY <1>6 DEF Tidy
<1> QED
  BY <1>5, <1>6, <1>7, <1>8, <1>12, <1>13 DEF r, s, Storing

\* The connection of the transfer that waits for this answer.
LEMMA Awaited ==
    ASSUME TypeOK, Sound, NEW c \in Conns, conn[c].srv # "none", ~Abandoned(c)
    PROVE  /\ stack # <<>> /\ Top.pc = "answer" /\ sockfd = c /\ sockfd > 0
           /\ Phase(Top, conn[c], World)
<1>1. stack # <<>> /\ Top.pc = "answer" /\ Peer = c
  BY DEF Abandoned, Running
<1>2. Linked
  BY <1>1 DEF Linked, Made
<1>3. sockfd > 0 /\ sockfd = c
  BY <1>1, <1>2, AtHome
<1> QED
  BY <1>1, <1>3, TopOwns DEF Early

\* What is known when a form is stored.
LEMMA StoresFacts ==
    ASSUME TypeOK, Sound, NEW c \in Conns, ServerStores(c)
    PROVE  /\ conn[c].srv = "form" /\ conn[c].c2s # <<>> /\ conn[c] \in Records
           /\ Tail(conn[c].c2s) = <<>> /\ conn[c].s2c = <<>> /\ ~NoDot(conn[c])
           /\ Total(conn[c]) # 0 /\ conn[c].name \in Forms
           /\ Line(conn[c], 1) = Filename(conn[c].name) /\ Names(conn[c], 1)
           /\ \/ "open" \in mishap[conn[c].name] /\ Astray(conn[c], World)
              \/ \E v \in 1..file[conn[c].name].ver :
                    /\ conn[c].body = Stored(conn[c].name, v)
                    /\ Line(conn[c], 2) = Text(conn[c].name, v)
           /\ conn' = [conn EXCEPT ![c] = Storing(c)]
           /\ db' = [db EXCEPT ![conn[c].name] = conn[c].body]
           /\ \A g \in Forms : mishap'[g] = IF Abandoned(c) /\ g = conn[c].name
                                            THEN mishap[g] \cup {"late"} ELSE mishap[g]
           /\ UNCHANGED <<file, stack, sockfd, fd0, inbuf, strange, cancelled>>
<1> DEFINE k == conn[c]
<1>1. /\ k.srv = "form" /\ k.c2s # <<>> /\ Head(k.c2s) = Word(".")
  BY DEF ServerStores, Takes
<1>2. k \in Records /\ Shape(c, k, World) /\ Conned
  BY Types DEF Conned, Sound, Shapes
<1>3. /\ Tail(k.c2s) = <<>> /\ k.s2c = <<>> /\ ~NoDot(k) /\ Total(k) # 0
      /\ k.name \in Forms /\ Line(k, 1) = Filename(k.name) /\ Names(k, 1)
      /\ \/ Astray(k, World)
         \/ \E v \in 1..World.file[k.name].ver :
               /\ k.body = Stored(k.name, v)
               /\ Line(k, 2) = Text(k.name, v)
  BY <1>1, <1>2, OneForm
<1>4. Astray(k, World) => "open" \in mishap[k.name]
  BY <1>1 DEF Astray, Unopened, World
<1>5. Tidy(Storing(c)) = Storing(c)
  BY <1>1, <1>2, <1>3, StoringFacts
<1>6. conn' = [conn EXCEPT ![c] = Storing(c)]
  BY <1>5 DEF ServerStores, Serve, Storing
<1>7. \A g \in Forms : mishap'[g] = IF Abandoned(c) /\ g = k.name
                                    THEN mishap[g] \cup {"late"} ELSE mishap[g]
  BY DEF ServerStores, Blame
<1>8. /\ db' = [db EXCEPT ![k.name] = k.body]
      /\ UNCHANGED <<file, stack, sockfd, fd0, inbuf, strange, cancelled>>
  BY DEF ServerStores, user
<1>9. World.file = file
  BY DEF World
<1> QED
  BY <1>1, <1>2, <1>3, <1>4, <1>6, <1>7, <1>8, <1>9

\* The transfer that waits gets "500" when its form is in the record.
LEMMA StoresPhase ==
    ASSUME TypeOK, Sound, NEW c \in Conns, ServerStores(c),
           NEW i \in 1..Len(stack), Owner(i, stack, sockfd), sockfd > 0,
           Later(World, World'), Phase(stack[i], conn[sockfd], World)
    PROVE  Phase(stack[i], conn'[sockfd], World')
<1> DEFINE k == conn[c]  fr == stack[i]  f == k.name  k2 == Storing(c)
<1>1. conn \in [Conns -> Records] /\ stack \in Seq(FrameType) /\ Conned
  BY Types DEF Conned
<1>2. /\ k.srv = "form" /\ k.c2s # <<>> /\ k \in Records
      /\ Tail(k.c2s) = <<>> /\ k.s2c = <<>> /\ ~NoDot(k)
      /\ Total(k) # 0 /\ f \in Forms /\ Line(k, 1) = Filename(f)
      /\ \/ "open" \in mishap[f] /\ Astray(k, World)
         \/ \E v \in 1..file[f].ver : k.body = Stored(f, v) /\ Line(k, 2) = Text(f, v)
      /\ conn' = [conn EXCEPT ![c] = k2]
      /\ db' = [db EXCEPT ![f] = k.body]
      /\ \A g \in Forms : mishap'[g] = IF Abandoned(c) /\ g = f
                                       THEN mishap[g] \cup {"late"} ELSE mishap[g]
      /\ UNCHANGED <<file, stack, sockfd, fd0, inbuf, strange, cancelled>>
  BY StoresFacts
<1>3. /\ k2 \in Records /\ k2.srv = "cmd" /\ k2.link = k.link
      /\ Total(k2) = 0 /\ NoDot(k2)
      /\ k2.s2c = <<>> \/ (k.link = "up" /\ k2.s2c = <<<<c, "500">>>>)
  BY <1>1, <1>2, StoringFacts
<1>4. db \in [Forms -> Seq(Lines)] /\ sockfd \in Conns
  BY Types, AtHome
<1>5. fr \in FrameType
  BY <1>1
<1>6. fr.pc \in {"form", "answer"} => fr.dir \in Forms
  BY <1>5 DEF FrameType
<1>7. /\ World.file = file /\ World'.file = file /\ World.mishap = mishap
      /\ World'.mishap = mishap' /\ World.db = db /\ World'.db = db'
      /\ World'.cancelled = World.cancelled
  BY <1>2 DEF World
<1>8. fr.pc = "answer" => i = Len(stack) /\ Running("answer") /\ Peer = sockfd
  <2>1. "answer" \notin Pumping
    BY DEF Pumping
  <2>2. fr.pc = "answer" => i = Len(stack)
    BY <2>1, BelowTop
  <2>3. i = Len(stack) => stack # <<>> /\ Top = fr
    BY DEF Top
  <2> QED
    BY <2>2, <2>3, AtHome DEF Running
<1> HIDE DEF k2, f
<1>9. CASE sockfd = c
  <2>1. Phase(fr, k, World) /\ conn'[sockfd] = k2
    BY <1>1, <1>2, <1>9
  <2>2. fr.pc \in Sending
    BY <1>2, <2>1 DEF Phase, Dots
  <2>3. Live(k2) => Live(k)
    BY <1>2, <1>3 DEF Live
  <2>4. Dots(fr, k2, World')
    BY <1>3 DEF Dots
  <2>5. fr.pc \in {"form", "answer"} => ~World'.file[fr.dir].sent
    BY <1>7, <2>1 DEF Phase
  <2>6. CASE fr.pc # "answer"
    <3>1. ~Live(k)
      BY <1>2, <2>1, <2>2, <2>6 DEF Phase, Talk
    <3>2. k2.s2c = <<>>
      BY <1>2, <1>3, <3>1 DEF Live
    <3> QED
      BY <2>1, <2>3, <2>4, <2>5, <3>1, <3>2 DEF Phase
  <2>7. CASE fr.pc = "answer"
    <3>1. Live(k2) => Talk(fr, k2, World')
      BY <1>3, <2>7 DEF Talk, Asking, Waiting, Sending
    <3>2. ASSUME k2.s2c # <<>>, k2.s2c[1][2] = "500"
          PROVE  \/ mishap'[fr.dir] # {}
                 \/ db'[fr.dir] = Stored(fr.dir, file[fr.dir].ver)
      <4>1. Live(k)
        BY <1>2, <1>3, <3>2 DEF Live
      <4>2. \/ Lost(fr, k, World)
            \/ Line(k, 1).form = fr.dir /\ Line(k, 2) = Text(fr.dir, file[fr.dir].ver)
        BY <1>2, <1>7, <2>1, <2>7, <4>1 DEF Phase, Talk
      <4>3. \A g \in Forms : mishap[g] # {} => mishap'[g] # {}
        BY <1>2
      <4>4. CASE Lost(fr, k, World)
        <5>1. fr.dir >= fr.dir
          BY <1>6, <2>7, Constants
        <5> QED
          BY <1>6, <1>7, <2>7, <4>3, <4>4, <5>1 DEF Lost
      <4>5. CASE Line(k, 1).form = fr.dir /\ Line(k, 2) = Text(fr.dir, file[fr.dir].ver)
        <5>1. fr.dir = f
          BY <1>2, <4>5 DEF Filename
        <5>2. CASE "open" \in mishap[f]
          BY <1>2, <4>3, <5>1, <5>2
        <5>3. ASSUME NEW v \in 1..file[f].ver, k.body = Stored(f, v), Line(k, 2) = Text(f, v)
              PROVE  db'[fr.dir] = Stored(fr.dir, file[fr.dir].ver)
          <6>1. v = file[f].ver
            BY <4>5, <5>1, <5>3 DEF Text
          <6> QED
            BY <1>2, <1>4, <5>1, <5>3, <6>1
        <5> QED
          BY <1>2, <5>2, <5>3
      <4> QED
        BY <4>2, <4>4, <4>5
    <3> QED
      BY <1>7, <2>1, <2>4, <2>5, <2>7, <3>1, <3>2 DEF Phase, Waiting
  <2> QED
    BY <2>6, <2>7
<1>10. CASE sockfd # c
  <2>1. conn'[sockfd] = conn[sockfd]
    BY <1>1, <1>2, <1>4, <1>10
  <2>2. Unsending(World, World')
    BY <1>7 DEF Unsending
  <2>3. fr.pc \in {"form", "answer"} => ~World'.file[fr.dir].sent
    BY <1>7 DEF Phase
  <2>4. ASSUME fr.pc = "answer"
        PROVE  /\ World'.file[fr.dir].ver = World.file[fr.dir].ver
               /\ World.mishap[fr.dir] # {} => World'.mishap[fr.dir] # {}
               /\ World'.mishap[fr.dir] # {} \/ World'.db[fr.dir] = World.db[fr.dir]
    <3>1. Abandoned(c)
      BY <1>8, <1>10, <2>4 DEF Abandoned
    <3>2. fr.dir \in Forms
      BY <1>6, <2>4
    <3>3. mishap'[fr.dir] # {} \/ db'[fr.dir] = db[fr.dir]
      BY <1>2, <1>4, <3>1, <3>2
    <3>4. mishap[fr.dir] # {} => mishap'[fr.dir] # {}
      BY <1>2, <3>2
    <3> QED
      BY <1>7, <3>3, <3>4
  <2> QED
    BY <1>7, <2>1, <2>2, <2>3, <2>4, PhaseLater
<1> QED
  BY <1>9, <1>10

\* Storing a form keeps Sound.
LEMMA StoresSound ==
    ASSUME TypeOK, TypeOK', Sound, ~shut, ~shut', NEW c \in Conns, ServerStores(c)
    PROVE  Sound'
<1> DEFINE k == conn[c]  f == k.name  k2 == Storing(c)
<1>1. /\ k.srv = "form" /\ k.c2s # <<>> /\ k \in Records
      /\ Tail(k.c2s) = <<>> /\ k.s2c = <<>> /\ ~NoDot(k)
      /\ f \in Forms /\ Line(k, 1) = Filename(f)
      /\ \/ "open" \in mishap[f]
         \/ \E v \in 1..file[f].ver : k.body = Stored(f, v)
      /\ Astray(k, World) => "open" \in mishap[f]
      /\ conn' = [conn EXCEPT ![c] = k2]
      /\ db' = [db EXCEPT ![f] = k.body]
      /\ \A g \in Forms : mishap'[g] = IF Abandoned(c) /\ g = f
                                       THEN mishap[g] \cup {"late"} ELSE mishap[g]
      /\ UNCHANGED <<file, stack, sockfd, fd0, inbuf, strange, cancelled>>
  <2>1. Astray(k, World) => "open" \in mishap[f]
    BY StoresFacts DEF Astray, Unopened, World
  <2> QED
    BY <2>1, StoresFacts
<1>2. k2 \in Records /\ k2.srv # "none" /\ \A w : Shape(c, k2, w)
  BY <1>1, StoringFacts, Types
<1>3. db \in [Forms -> Seq(Lines)]
  BY Types
<1> HIDE DEF k2, f
<1>4. \A g \in Forms : /\ mishap[g] \subseteq mishap'[g]
                       /\ g # f => db'[g] = db[g] /\ mishap'[g] = mishap[g]
                       /\ g = f => db'[g] = k.body
  BY <1>1, <1>3
<1>5. SentIsStored'
  <2> SUFFICES ASSUME NEW g \in Forms, file[g].sent, mishap'[g] = {}
               PROVE  db'[g] = Stored(g, file[g].ver)
    BY <1>1 DEF SentIsStored
  <2>1. g # f
    <3>1. SUFFICES ASSUME g = f PROVE FALSE
      OBVIOUS
    <3>2. ~Abandoned(c)
      BY <1>1, <3>1
    <3>3. Phase(Top, k, World)
      BY <1>1, <3>2, Awaited
    <3>4. Astray(k, World) \/ ~file[f].sent
      BY <1>1, <3>3 DEF Phase, Dots, World, Filename
    <3> QED
      BY <1>1, <1>4, <3>1, <3>4
  <2>2. db'[g] = db[g] /\ mishap[g] = {}
    BY <1>4, <2>1
  <2> QED
    BY <2>2 DEF Sound, SentIsStored
<1>6. RecordIsOneForm'
  <2> SUFFICES ASSUME NEW g \in Forms, "open" \notin mishap'[g], db'[g] # Nothing
               PROVE  \E v \in 1..file[g].ver : db'[g] = Stored(g, v)
    BY <1>1 DEF RecordIsOneForm, Nothing
  <2>1. CASE g = f
    <3>1. "open" \notin mishap[g]
      BY <1>4
    <3> QED
      BY <1>1, <1>4, <2>1, <3>1
  <2>2. CASE g # f
    BY <1>4, <2>2 DEF Sound, RecordIsOneForm
  <2> QED
    BY <2>1, <2>2
<1>7. ASSUME NEW i \in 1..Len(stack), Owner(i, stack, sockfd), sockfd > 0,
             Later(World, World'), Phase(stack[i], conn[sockfd], World)
      PROVE  Phase(stack[i], conn'[sockfd], World')
  BY <1>7, StoresPhase
<1>8. conn[c].srv # "none" /\ (Later(World, World') => Shape(c, k2, World'))
  BY <1>1, <1>2
<1> QED
  BY <1>1, <1>2, <1>4, <1>5, <1>6, <1>7, <1>8, ConnMoves

-----------------------------------------------------------------------------
(* Every step keeps Sound *)

\* Nothing but scene changes hands: a step that leaves all variables alone.
LEMMA StutterSound ==
    ASSUME Sound, UNCHANGED vars
    PROVE  Sound'
<1> USE DEF vars, disk, net, user, hist
<1>1. World' = World
  BY DEF World
<1>2. SentIsStored' /\ RecordIsOneForm'
  BY DEF Sound, SentIsStored, RecordIsOneForm, Stored, Text, Nothing
<1> QED
  BY <1>1, <1>2, SoundAfter DEF Sound, Globals

\* As long as descriptor 0 has not been closed, every step keeps Sound.
LEMMA SoundStep ==
    ASSUME TypeOK, TypeOK', Sound, ~shut, ~shut', Next
    PROVE  Sound'
<1>1. CASE Client
  <2>1. CASE authenticate
    BY <2>1, LoginSound
  <2> QED
    BY <1>1, <2>1, ConnectSound, ConnectedSound, CloseSound, DirSound, SkipSound,
       NotOpenedSound, NotAnsweredSound, AnsweredSound, SendSound DEF Client
<1>2. CASE Operator
  BY <1>2, OperatorSound
<1>3. CASE Mishaps
  BY <1>3, CrashSound, NetworkSound DEF Mishaps
<1>4. ASSUME NEW c \in Conns, Server(c) PROVE Sound'
  BY <1>4, LoginServed, SessionSound, StoresSound DEF Server
<1> QED
  BY <1>1, <1>2, <1>3, <1>4 DEF Next

\* The program starts sound.
LEMMA SoundInit ==
    ASSUME Init
    PROVE  Sound
<1>1. stack = <<>> /\ sockfd = 0 /\ fd0 = Stdin /\ inbuf = <<>> /\ ~strange
  BY DEF Init
<1>2. Shapes(conn, World)
  BY EndedShape DEF Init, Shapes
<1>3. SentIsStored /\ RecordIsOneForm
  BY DEF Init, SentIsStored, RecordIsOneForm
<1> QED
  BY <1>1, <1>2, <1>3 DEF Sound, Globals, Frames, Owned

\* A closed descriptor 0 stays noted, and so does a nested transfer.
LEMMA HistoryStays ==
    ASSUME [Next]_<<scene, vars>>
    PROVE  (shut => shut') /\ (nested => nested')
<1> USE DEF vars, hist, net, user, disk
<1>1. CASE Next
  <2>1. CASE Client
    <3>1. CASE authenticate
      BY <3>1 DEF authenticate, StartLogin, Say, Hear
    <3>2. CASE LoginFails \/ SendFilenameFails
      <4>1. shut' = (shut \/ sockfd = 0) /\ nested' = nested
        BY <3>2 DEF LoginFails, SendFilenameFails, CloseSocket
      <4> QED
        BY <4>1
    <3>3. CASE BeginAfterPass \/ Socket \/ ConnectFails \/ GiveUp
      BY <3>3 DEF BeginAfterPass, Socket, ConnectFails, GiveUp
    <3>4. CASE Connect
      BY <3>4 DEF Connect
    <3>7. CASE OpenDirFails \/ SkipFile
      BY <3>7 DEF OpenDirFails, SkipFile
    <3>5. CASE OpenDir \/ NoMoreForms \/ SendFilename \/ FormNotOpened \/ FormCancelled
      <4>1. shut' = shut /\ nested' = nested
        BY <3>5 DEF OpenDir, NoMoreForms, SendFilename, FormNotOpened, FormCancelled
      <4> QED
        BY <4>1
    <3>6. CASE SendForm \/ FormAnswered \/ FormNotAnswered \/ Quit
      BY <3>6 DEF SendForm, FormAnswered, FormNotAnswered, Quit
    <3> QED
      BY <2>1, <3>1, <3>2, <3>3, <3>4, <3>5, <3>6, <3>7 DEF Client
  <2>2. CASE Operator
    <3>1. CASE editor_send_clicked \/ pass_ok_clicked
      <4>1. shut' = shut /\ (nested' = (nested \/ stack # <<>>) \/ nested' = nested)
        <5>1. \A p : Enter(p) => nested' = (nested \/ stack # <<>>)
          BY DEF Enter
        <5>2. CASE editor_send_clicked
          BY <5>1, <5>2 DEF editor_send_clicked
        <5>3. CASE pass_ok_clicked
          BY <5>1, <5>3 DEF pass_ok_clicked
        <5> QED
          BY <3>1, <5>2, <5>3
      <4>2. shut => shut'
        BY <4>1
      <4>3. CASE nested' = (nested \/ stack # <<>>)
        BY <4>2, <4>3
      <4>4. CASE nested' = nested
        BY <4>2, <4>4
      <4> QED
        BY <4>1, <4>3, <4>4
    <3>2. ASSUME ~(editor_send_clicked \/ pass_ok_clicked) PROVE UNCHANGED <<shut, nested>>
      BY <2>2, <3>2 DEF Operator, pass_cancel_clicked, on_online_cancel_clicked,
         on_online_ok_clicked, Save
    <3> QED
      BY <3>1, <3>2
  <2>3. CASE Mishaps
    <3>1. CASE Crash
      BY <3>1 DEF Crash
    <3>2. ASSUME NEW c \in Conns, Cut(c) \/ Silence(c) PROVE UNCHANGED <<shut, nested>>
      BY <3>2 DEF Cut, Silence
    <3> QED
      BY <2>3, <3>1, <3>2 DEF Mishaps
  <2>4. ASSUME NEW c \in Conns, Server(c) PROVE shut' = shut /\ nested' = nested
    BY <2>4 DEF Server, ServerLogin, ServerRefuses, ServerCommand, ServerLine,
       ServerStores, ServerAbandons, ServerHangUp
  <2> QED
    BY <1>1, <2>1, <2>2, <2>3, <2>4 DEF Next
<1> QED
  BY <1>1

\* No connection is opened.
Opens == \A c \in Conns : conn'[c].open => conn[c].open

-----------------------------------------------------------------------------
(* Every step keeps Alone *)

\* Only socket and connect open a connection.
LEMMA NoneOpened ==
    ASSUME TypeOK
    PROVE  /\ \A toks : WriteOk(toks) => Opens
           /\ \A a : ReadLine(a) => Opens
           /\ ReadFails \/ WriteFails \/ UNCHANGED conn => Opens
           /\ \A c \in Conns : \A k : Serve(c, k) /\ (k.open => conn[c].open) => Opens
<1>1. conn \in [Conns -> Records] /\ \A c \in Conns : conn[c] \in ConnType
  BY Types DEF Conned, Records
<1>2. ASSUME NEW toks, WriteOk(toks) PROVE Opens
  BY <1>1, <1>2 DEF WriteOk, Opens, ConnType
<1>3. ASSUME NEW a, ReadLine(a) PROVE Opens
  BY <1>1, <1>3 DEF ReadLine, Opens, ConnType
<1>4. ASSUME NEW c \in Conns, NEW k, Serve(c, k), k.open => conn[c].open PROVE Opens
  <2>1. Tidy(k).open => k.open
    BY DEF Tidy, Ended, Fresh
  <2> QED
    BY <1>1, <1>4, <2>1 DEF Serve, Opens
<1> QED
  BY <1>2, <1>3, <1>4 DEF ReadFails, WriteFails, Opens

\* Where the only transfer is.
LEMMA OneFrame ==
    ASSUME TypeOK, Sound, Alone, stack # <<>>
    PROVE  /\ Len(stack) = 1 /\ Top = stack[1] /\ Top \in FrameType /\ ~Top.zero
           /\ Return => stack' = <<>>
           /\ \A p \in Pcs : Goto(p) => /\ stack' # <<>> /\ Len(stack') = 1
                                        /\ stack'[1].pc = p
           /\ \A fr \in FrameType : stack' = [stack EXCEPT ![Len(stack)] = fr] =>
                 stack' # <<>> /\ Len(stack') = 1 /\ stack'[1] = fr
           /\ Top.pc \notin Early => \/ sockfd > 0
                                     \/ sockfd = -1 /\ Top.pc = "connected"
           /\ Top.pc \in Early => ~(sockfd > 0) /\ \A c \in Conns : ~conn[c].open
<1>1. stack \in Seq(FrameType) /\ sockfd \in -1..MaxConn
  BY Types
<1>2. Len(stack) = 1 /\ Top = stack[1] /\ Top \in FrameType
  <2> DEFINE n == Len(stack)
  <2>1. n \in Nat /\ n # 0 /\ n <= 1
    BY <1>1, EmptySeq DEF Alone
  <2> HIDE DEF n
  <2>a. n = 1
    BY ONLY <2>1
  <2>2. Len(stack) = 1
    BY <2>a DEF n
  <2> QED
    BY <1>1, <2>2 DEF Top
<1>3. ~Top.zero
  BY <1>2 DEF Sound, Frames
<1>4. Return => stack' = <<>>
  BY <1>1, <1>2 DEF Return
<1>5. ASSUME NEW fr, stack' = [stack EXCEPT ![Len(stack)] = fr]
      PROVE  stack' # <<>> /\ Len(stack') = 1 /\ stack'[1] = fr
  BY <1>1, <1>2, <1>5
<1>6. ASSUME NEW p, Goto(p)
      PROVE  stack' # <<>> /\ Len(stack') = 1 /\ stack'[1].pc = p
  <2>1. stack' = [stack EXCEPT ![Len(stack)] = [Top EXCEPT !.pc = p]]
    BY <1>1, <1>6 DEF Goto, Top
  <2>2. [Top EXCEPT !.pc = p].pc = p
    BY <1>2 DEF FrameType
  <2> QED
    BY <1>5, <2>1, <2>2
<1>7. Top.pc \notin Early => \/ sockfd > 0
                             \/ sockfd = -1 /\ Top.pc = "connected"
  BY <1>2 DEF Alone
<1>8. ASSUME Top.pc \in Early PROVE ~(sockfd > 0) /\ \A c \in Conns : ~conn[c].open
  <2>1. ~(sockfd > 0)
    <3>1. SUFFICES ASSUME sockfd > 0 PROVE FALSE
      OBVIOUS
    <3>2. PICK i \in 1..Len(stack) : stack[i].pc \notin Early
      BY <3>1 DEF Sound, Owned, Owner
    <3>3. i = 1
      BY <1>2
    <3> QED
      BY <1>2, <1>8, <3>2, <3>3
  <2>2. \A c \in Conns : c > 0
    BY DEF Conns
  <2> QED
    BY <2>1, <2>2 DEF Alone
<1> QED
  BY <1>2, <1>3, <1>4, <1>5, <1>6, <1>7, <1>8

\* Between transfers no connection is open.
LEMMA NoneOpen ==
    ASSUME TypeOK, Sound, Alone, stack = <<>>
    PROVE  ~(sockfd > 0) /\ \A c \in Conns : ~conn[c].open
<1>1. ~(sockfd > 0)
  BY DEF Sound, Owned
<1>2. \A c \in Conns : c > 0
  BY DEF Conns
<1> QED
  BY <1>1, <1>2 DEF Alone

\* A step within the login or the sending of forms.
LEMMA AloneGoes ==
    ASSUME TypeOK, Sound, Alone, stack # <<>>, Top.pc \notin Early, sockfd > 0,
           Len(stack') = 1, UNCHANGED <<sockfd, shut>>, Opens
    PROVE  Alone'
<1>1. \A c \in Conns : conn'[c].open => c = sockfd'
  BY DEF Opens, Alone
<1>2. Len(stack') <= 1 /\ ~shut' /\ sockfd' > 0
  BY DEF Alone
<1> QED
  BY <1>1, <1>2 DEF Alone

\* A transfer that has returned, with its connection closed.
LEMMA AloneEnds ==
    ASSUME stack' = <<>>, ~shut', \A c \in Conns : conn'[c].open => c = sockfd'
    PROVE  Alone'
<1>1. Len(stack') <= 1
  OBVIOUS
<1> QED
  BY <1>1 DEF Alone

\* The client keeps Alone: it closes what it made on every way out.
LEMMA AloneClient ==
    ASSUME TypeOK, Sound, Alone, Client
    PROVE  Alone'
<1> USE DEF net, hist
<1>1. stack # <<>> /\ ~shut
  BY DEF Alone, Client, BeginAfterPass, Socket, ConnectFails, Connect, GiveUp, authenticate,
     StartLogin, Say, Hear, LoginFails, OpenDir, OpenDirFails, SkipFile, NoMoreForms,
     SendFilename, SendFilenameFails, FormNotOpened, FormCancelled, SendForm, FormAnswered,
     FormNotAnswered, Quit, Running
<1>2. /\ Len(stack) = 1 /\ Top = stack[1] /\ Top \in FrameType /\ ~Top.zero
      /\ Return => stack' = <<>>
      /\ \A p \in Pcs : Goto(p) => stack' # <<>> /\ Len(stack') = 1 /\ stack'[1].pc = p
      /\ \A fr \in FrameType : stack' = [stack EXCEPT ![Len(stack)] = fr] =>
            stack' # <<>> /\ Len(stack') = 1 /\ stack'[1] = fr
      /\ Top.pc \notin Early => sockfd > 0 \/ (sockfd = -1 /\ Top.pc = "connected")
      /\ Top.pc \in Early => ~(sockfd > 0) /\ \A c \in Conns : ~conn[c].open
  BY <1>1, OneFrame
<1>3. /\ conn \in [Conns -> Records] /\ \A c \in Conns : conn[c] \in ConnType
      /\ stack \in Seq(FrameType)
  BY Types DEF Conned, Records
<1>4. \A q : Running(q) => Top.pc = q
  BY DEF Running
<1>5. CASE BeginAfterPass
  <2>1. Top.pc \in Early /\ "resolve" \in Early /\ "resolve" \in Pcs
    BY <1>4, <1>5 DEF BeginAfterPass, Early, Pcs, Pumping
  <2>2. UNCHANGED <<conn, sockfd, shut>>
    BY <1>5 DEF BeginAfterPass
  <2>3. stack' = <<>> \/ (Len(stack') = 1 /\ stack'[1].pc \in Early)
    BY <1>2, <1>5, <2>1 DEF BeginAfterPass
  <2>4. Len(stack') <= 1
    BY <2>3
  <2> QED
    BY <1>1, <1>2, <2>1, <2>2, <2>3, <2>4 DEF Alone
<1>6. CASE Socket
  <2> DEFINE fr == [Top EXCEPT !.pc = "connect", !.zero = (fd0 = Closed)]
  <2>1. fr \in FrameType /\ fr.pc = "connect" /\ Top.pc \in Early
    BY <1>2, <1>4, <1>6 DEF FrameType, Pumping, Socket, Early
  <2>2. stack' = [stack EXCEPT ![Len(stack)] = fr] /\ UNCHANGED <<conn, sockfd, shut>>
    BY <1>6 DEF Socket, Top
  <2> HIDE DEF fr
  <2>3. Len(stack') = 1 /\ stack'[1].pc \in Early
    BY <1>2, <2>1, <2>2 DEF Early
  <2>4. Len(stack') <= 1
    BY ONLY <2>3
  <2> QED
    BY <1>1, <1>2, <2>1, <2>2, <2>3, <2>4 DEF Alone
<1>7. CASE ConnectFails
  <2>1. Top.pc \in Early /\ "connected" \in Pcs
    BY <1>4, <1>7 DEF ConnectFails, Early, Pcs, Pumping
  <2>2. UNCHANGED <<conn, shut>> /\ sockfd' = -1 /\ Goto("connected")
    BY <1>7 DEF ConnectFails
  <2>3. Len(stack') = 1 /\ stack'[1].pc = "connected"
    BY <1>2, <2>1, <2>2
  <2>4. Len(stack') <= 1
    BY ONLY <2>3
  <2> QED
    BY <1>1, <1>2, <2>1, <2>2, <2>3, <2>4 DEF Alone
<1>8. CASE Connect
  <2>1. PICK c \in Conns :
          /\ stack' = [stack EXCEPT ![Len(stack)] =
                          [@ EXCEPT !.pc = "connected", !.own = c]]
          /\ conn' = [conn EXCEPT ![c] = Fresh] /\ sockfd' = c
    BY <1>2, <1>8 DEF Connect
  <2> DEFINE fr == [Top EXCEPT !.pc = "connected", !.own = c]
  <2>2. fr \in FrameType /\ Top.pc \in Early
    BY <1>2, <1>4, <1>8, Constants DEF FrameType, Pumping, Connect, Early
  <2>3. stack' = [stack EXCEPT ![Len(stack)] = fr]
    BY <2>1 DEF Top
  <2> HIDE DEF fr
  <2>4. Len(stack') <= 1 /\ sockfd' > 0
    <3>1. c > 0
      BY DEF Conns
    <3>2. Len(stack') = 1
      BY <1>2, <2>2, <2>3
    <3>3. Len(stack') <= 1
      BY ONLY <3>2
    <3> QED
      BY <2>1, <3>1, <3>3
  <2>5. \A d \in Conns : conn'[d].open => d = c
    BY <1>2, <1>3, <2>1, <2>2
  <2>6. shut' = shut
    BY <1>8 DEF Connect
  <2> QED
    BY <1>1, <2>1, <2>4, <2>5, <2>6 DEF Alone
<1>9. CASE GiveUp
  <2>1. stack' = <<>> /\ UNCHANGED <<conn, sockfd, shut>>
    BY <1>2, <1>9 DEF GiveUp
  <2> QED
    BY <1>1, <2>1, AloneEnds DEF Alone
<1>10. ASSUME Top.pc \notin Early, sockfd > 0, NEW p \in Pcs, Goto(p),
              UNCHANGED <<sockfd, shut>>, Opens
       PROVE  Alone'
  BY <1>1, <1>2, <1>10, AloneGoes
<1>11. ASSUME Running("magic") \/ Running("magic?") \/ Running("user") \/ Running("user?")
              \/ Running("pass") \/ Running("pass?") \/ Running("passed") \/ Running("failed")
              \/ Running("next") \/ Running("form") \/ Running("answer") \/ Running("quit")
       PROVE  Top.pc \notin Early /\ sockfd > 0
  BY <1>2, <1>4, <1>11 DEF Early
<1>12. Pcs = Pumping \cup {"next", "answer", "quit"}
  BY DEF Pcs
<1>13. CASE authenticate
  <2>1. CASE StartLogin
    <3>1. sockfd > 0 /\ Top.pc \notin Early /\ Goto("magic") /\ UNCHANGED <<conn, sockfd, shut>>
      BY <1>2, <1>4, <2>1 DEF StartLogin, Early
    <3> QED
      BY <1>10, <1>12, <3>1, NoneOpened DEF Pumping
  <2>2. ASSUME NEW p \in {"magic", "user", "pass"}, NEW q \in {"magic?", "user?", "pass?"},
               NEW w, Say(p, q, w)
        PROVE  Alone'
    <3>1. Top.pc \notin Early /\ sockfd > 0
      BY <1>11, <2>2 DEF Say
    <3>2. Opens /\ UNCHANGED <<sockfd, shut>> /\ (Goto(q) \/ Goto("failed"))
      BY <2>2, NoneOpened DEF Say
    <3> QED
      BY <1>10, <1>12, <3>1, <3>2 DEF Pumping
  <2>3. ASSUME NEW p \in {"magic?", "user?", "pass?"}, NEW q \in {"user", "pass", "passed"},
               NEW code, Hear(p, q, code)
        PROVE  Alone'
    <3>1. Top.pc \notin Early /\ sockfd > 0
      BY <1>11, <2>3 DEF Hear
    <3>2. Opens /\ UNCHANGED <<sockfd, shut>> /\ (Goto(q) \/ Goto("failed"))
      BY <2>3, NoneOpened DEF Hear
    <3> QED
      BY <1>10, <1>12, <3>1, <3>2 DEF Pumping
  <2> QED
    BY <1>13, <2>1, <2>2, <2>3 DEF authenticate
<1>14. CASE LoginFails \/ SendFilenameFails
  <2>1. sockfd > 0 /\ CloseSocket /\ stack' = <<>>
    BY <1>2, <1>11, <1>14 DEF LoginFails, SendFilenameFails, Finish
  <2>2. Linked /\ Peer = sockfd /\ sockfd \in Conns
    BY <2>1, AtHome
  <2>3. conn' = [conn EXCEPT ![sockfd] = Tidy([conn[sockfd] EXCEPT !.open = FALSE])]
    BY <2>1, <2>2 DEF CloseSocket
  <2>4. ~Tidy([conn[sockfd] EXCEPT !.open = FALSE]).open
    BY <1>3, <2>2 DEF Tidy, Ended, Fresh, ConnType
  <2>5. \A c \in Conns : ~conn'[c].open
    BY <1>3, <2>2, <2>3, <2>4 DEF Alone
  <2>6. ~shut'
    <3>1. sockfd # 0
      BY <2>1
    <3> QED
      BY <1>1, <2>1, <3>1 DEF CloseSocket
  <2> QED
    BY <2>1, <2>5, <2>6, AloneEnds
<1>15. CASE Quit
  <2>1. sockfd > 0 /\ stack' = <<>> /\ shut' = shut
    BY <1>2, <1>11, <1>15 DEF Quit, Finish
  <2>2. sockfd \in Conns
    BY <2>1, AtHome
  <2>3. conn' = [conn EXCEPT ![sockfd] = Tidy(Dismissed(conn[sockfd]))]
    BY <1>15, <2>1 DEF Quit
  <2>4. ~Tidy(Dismissed(conn[sockfd])).open
    BY <1>3, <2>2 DEF Tidy, Ended, Fresh, ConnType, Dismissed
  <2>5. \A c \in Conns : ~conn'[c].open
    BY <1>3, <2>2, <2>3, <2>4 DEF Alone
  <2> QED
    BY <1>1, <2>1, <2>5, AloneEnds
<1>16. CASE OpenDir \/ OpenDirFails \/ NoMoreForms \/ FormNotOpened \/ FormCancelled
  <2>1. Top.pc \notin Early /\ sockfd > 0
    BY <1>11, <1>16 DEF OpenDir, OpenDirFails, NoMoreForms, FormNotOpened, FormCancelled
  <2>2. UNCHANGED <<conn, sockfd, shut>> /\ (Goto("quit") \/ Goto("next"))
    BY <1>16 DEF OpenDir, OpenDirFails, NoMoreForms, FormNotOpened, FormCancelled
  <2> QED
    BY <1>10, <1>12, <2>1, <2>2, NoneOpened
<1>17. CASE SendForm \/ FormAnswered \/ FormNotAnswered
  <2>1. Top.pc \notin Early /\ sockfd > 0
    BY <1>11, <1>17 DEF SendForm, FormAnswered, FormNotAnswered
  <2>2. Opens /\ UNCHANGED <<sockfd, shut>> /\ (Goto("answer") \/ Goto("next"))
    BY <1>17, NoneOpened DEF SendForm, FormAnswered, FormNotAnswered
  <2> QED
    BY <1>10, <1>12, <2>1, <2>2
<1>19. CASE SkipFile
  <2>1. Top.pc \notin Early /\ sockfd > 0
    BY <1>11, <1>19 DEF SkipFile
  <2>2. PICK f \in Forms : stack' = [stack EXCEPT ![Len(stack)].dir = f]
    BY <1>19 DEF SkipFile
  <2>3. Opens /\ UNCHANGED <<sockfd, shut>>
    BY <1>19, NoneOpened DEF SkipFile
  <2>4. Len(stack') = 1
    BY <1>2, <1>3, <2>2
  <2> QED
    BY <1>1, <2>1, <2>3, <2>4, AloneGoes
<1>18. CASE SendFilename
  <2>1. Top.pc \notin Early /\ sockfd > 0
    BY <1>11, <1>18 DEF SendFilename
  <2>2. PICK f \in Forms :
          stack' = [stack EXCEPT ![Len(stack)] =
                      [@ EXCEPT !.pc = IF cancelled THEN "quit" ELSE "form", !.dir = f]]
    BY <1>18 DEF SendFilename
  <2>3. Opens /\ UNCHANGED <<sockfd, shut>>
    BY <1>18, NoneOpened DEF SendFilename
  <2>4. Len(stack') = 1
    BY <1>2, <1>3, <2>2
  <2> QED
    BY <1>1, <2>1, <2>3, <2>4, AloneGoes
<1> QED
  BY <1>5, <1>6, <1>7, <1>8, <1>9, <1>13, <1>14, <1>15, <1>16, <1>17, <1>18, <1>19
     DEF Client

\* A step that leaves the transfers alone and opens nothing.
LEMMA AloneKept ==
    ASSUME Alone, UNCHANGED <<stack, sockfd, shut>>, Opens
    PROVE  Alone'
BY DEF Alone, Opens

\* The operator, the sessions and the mishaps keep Alone.
LEMMA AloneOthers ==
    ASSUME TypeOK, Sound, Alone, ~nested',
           Operator \/ Mishaps \/ \E c \in Conns : Server(c)
    PROVE  Alone'
<1> USE DEF net, disk, user, hist
<1>1. /\ conn \in [Conns -> Records] /\ \A c \in Conns : conn[c] \in ConnType
  BY Types DEF Conned, Records
<1>2. UNCHANGED conn => Opens
  BY DEF Opens
<1>3. ASSUME NEW p \in Early, Enter(p), UNCHANGED <<conn, sockfd, shut>>
      PROVE  Alone'
  <2>1. stack = <<>> /\ stack' = Append(stack, Frame(p))
    BY <1>3 DEF Enter
  <2>2. Len(stack') = 1 /\ stack'[1] = Frame(p)
    BY <2>1
  <2>3. Len(stack') <= 1 /\ stack'[1].pc \in Early
    BY <1>3, <2>2 DEF Frame
  <2> QED
    BY <1>3, <2>3 DEF Alone
<1>4. CASE Operator
  <2>1. CASE editor_send_clicked
    BY <1>2, <1>3, <2>1, AloneKept DEF editor_send_clicked, Early
  <2>2. CASE pass_ok_clicked
    BY <1>3, <2>2 DEF pass_ok_clicked, Early
  <2>3. ASSUME ~editor_send_clicked, ~pass_ok_clicked
        PROVE  UNCHANGED <<stack, sockfd, shut, conn>>
    BY <1>4, <2>3 DEF Operator, pass_cancel_clicked, on_online_cancel_clicked,
       on_online_ok_clicked, Save
  <2> QED
    BY <1>2, <2>1, <2>2, <2>3, AloneKept
<1>5. CASE Crash
  <2>1. stack' = <<>> /\ shut' = shut
    BY <1>5 DEF Crash
  <2>2. ASSUME NEW c \in Conns PROVE ~conn'[c].open
    <3>1. conn'[c] = Tidy([conn[c] EXCEPT !.open = FALSE]) \/ conn'[c] = Unmade
      BY <1>5 DEF Crash
    <3>2. ~Unmade.open /\ ~Tidy([conn[c] EXCEPT !.open = FALSE]).open
      BY <1>1 DEF Unmade, Tidy, Ended, Fresh, ConnType
    <3> QED
      BY <3>1, <3>2
  <2> QED
    BY <2>1, <2>2, AloneEnds DEF Alone
<1>6. ASSUME NEW c \in Conns, NEW k, Serve(c, k), k.open => conn[c].open,
             UNCHANGED <<stack, sockfd, shut>>
      PROVE  Alone'
  BY <1>6, AloneKept, NoneOpened
<1>7. ASSUME NEW c \in Conns, Silence(c) PROVE Alone'
  <2>1. Opens
    BY <1>1, <1>7 DEF Silence, Opens, ConnType
  <2> QED
    BY <1>7, <2>1, AloneKept DEF Silence
<1>8. ASSUME NEW c \in Conns, Cut(c) PROVE Alone'
  <2>1. PICK n \in 0..Len(conn[c].c2s) :
          Serve(c, [conn[c] EXCEPT !.link = "cut", !.s2c = <<>>, !.c2s = SubSeq(@, 1, n)])
    BY <1>8 DEF Cut
  <2>2. [conn[c] EXCEPT !.link = "cut", !.s2c = <<>>, !.c2s = SubSeq(@, 1, n)].open
          = conn[c].open
    BY <1>1 DEF ConnType
  <2> QED
    BY <1>6, <1>8, <2>1, <2>2 DEF Cut
<1>9. ASSUME NEW c \in Conns, Server(c) PROVE Alone'
  <2>1. UNCHANGED <<stack, sockfd, shut>>
    BY <1>9 DEF Server, ServerLogin, ServerRefuses, ServerCommand, ServerLine,
       ServerStores, ServerAbandons, ServerHangUp
  <2>2. ASSUME NEW p, Takes(c, p)
        PROVE  Rest(c) \in ConnType /\ Rest(c).open = conn[c].open
    <3>1. Rest(c) \in ConnType
      BY <2>2, RestType, Types DEF Takes, Records
    <3> QED
      BY <1>1, <3>1 DEF Rest, ConnType
  <2>3. ASSUME NEW k \in ConnType, NEW code
        PROVE  /\ End(k).open = k.open /\ Replying(k, c, code).open = k.open
               /\ End(Replying(k, c, code)).open = k.open
    BY DEF End, Replying, ConnType
  <2>4. ASSUME NEW k \in ConnType, NEW p, NEW code
        PROVE  Replying([k EXCEPT !.srv = p], c, code).open = k.open
    BY DEF Replying, ConnType
  <2>5. CASE ServerLogin(c)
    <3>1. PICK p, next, word :
            /\ Takes(c, p)
            /\ IF Head(conn[c].c2s) = Word(word)
               THEN Serve(c, Replying([Rest(c) EXCEPT !.srv = next], c, "500"))
               ELSE IF p = "pass" /\ Head(conn[c].c2s) = Word("bad")
               THEN Serve(c, End(Replying(Rest(c), c, "refused")))
               ELSE Serve(c, End(Rest(c)))
      BY <2>5 DEF ServerLogin
    <3> QED
      BY <1>6, <2>1, <2>2, <2>3, <2>4, <3>1
  <2>6. CASE ServerRefuses(c) \/ ServerAbandons(c)
    BY <1>6, <2>1, <2>2, <2>3, <2>6 DEF ServerRefuses, ServerAbandons
  <2>7. CASE ServerHangUp(c)
    BY <1>1, <1>6, <2>1, <2>3, <2>7 DEF ServerHangUp
  <2>8. CASE ServerCommand(c)
    <3>1. [Rest(c) EXCEPT !.srv = "form", !.name = Head(conn[c].c2s).form].open = conn[c].open
      BY <2>2, <2>8 DEF ServerCommand, ConnType
    <3> QED
      BY <1>6, <2>1, <2>2, <2>3, <2>8, <3>1 DEF ServerCommand
  <2>9. CASE ServerLine(c)
    <3>1. [Rest(c) EXCEPT !.body = Append(@, Head(conn[c].c2s))].open = conn[c].open
      BY <2>2, <2>9 DEF ServerLine, ConnType
    <3> QED
      BY <1>6, <2>1, <2>9, <3>1 DEF ServerLine
  <2>10. CASE ServerStores(c)
    <3> DEFINE k == [Rest(c) EXCEPT !.srv = "cmd", !.name = 0, !.body = <<>>]
    <3>1. Replying(k, c, "500").open = conn[c].open
      BY <2>2, <2>10 DEF ServerStores, Replying, ConnType
    <3>2. Serve(c, Replying(k, c, "500"))
      BY <2>10 DEF ServerStores
    <3> HIDE DEF k
    <3> QED
      BY <1>6, <2>1, <3>1, <3>2
  <2> QED
    BY <1>9, <2>5, <2>6, <2>7, <2>8, <2>9, <2>10 DEF Server
<1> QED
  BY <1>4, <1>5, <1>7, <1>8, <1>9 DEF Mishaps

-----------------------------------------------------------------------------
(* The theorems *)

\* The inductive invariant holds at the start,
LEMMA InvInit == Init => IInv
<1>1. ASSUME Init PROVE Alone
  <2>1. stack = <<>> /\ sockfd = 0 /\ ~shut /\ conn = [c \in Conns |-> Unmade]
    BY <1>1 DEF Init
  <2>2. Len(stack) <= 1 /\ ~Unmade.open
    BY <2>1 DEF Unmade, Fresh
  <2> QED
    BY <2>1, <2>2 DEF Alone
<1> QED
  BY <1>1, InitType, SoundInit DEF IInv

\* and every step keeps it.
LEMMA InvStep ==
    ASSUME IInv, [Next]_<<scene, vars>>
    PROVE  IInv'
<1>1. TypeOK /\ TypeOK'
  BY StepType DEF IInv
<1>2. (shut => shut') /\ (nested => nested')
  BY HistoryStays
<1>3. ASSUME ~shut' PROVE Sound'
  BY <1>1, <1>2, <1>3, SoundStep, StutterSound DEF IInv
<1>4. ASSUME ~nested' PROVE Alone'
  <2>1. ~nested /\ Alone
    BY <1>2, <1>4 DEF IInv
  <2>2. ~shut
    BY <2>1 DEF Alone
  <2>3. Sound
    BY <2>2 DEF IInv
  <2>4. CASE UNCHANGED vars
    BY <2>1, <2>4 DEF vars, net, hist, Alone
  <2>5. CASE Next
    BY <1>1, <1>4, <2>1, <2>3, <2>5, AloneClient, AloneOthers DEF Next
  <2> QED
    BY <2>4, <2>5
<1> QED
  BY <1>1, <1>3, <1>4 DEF IInv

\* So it always holds.
LEMMA Inductive == Spec => []IInv
BY InvInit, InvStep, PTL DEF Spec

\* A form whose sent flag is up is at the server, in the version that was saved
\* last (apply_form sets the flag after "500"), unless something kept its copy
\* from being right or descriptor 0 was closed for a socket.
THEOREM SentMeansAtServer == Spec => []SentIsStored
<1>1. IInv => SentIsStored
  <2>1. ASSUME shut PROVE SentIsStored
    BY <2>1 DEF SentIsStored
  <2> QED
    BY <2>1 DEF IInv, Sound
<1> QED
  BY <1>1, Inductive, PTL

\* A record of the server is the text of one form, whole and in one version: no
\* interruption and no transfer inside another one mixes two of them.
THEOREM RecordsAreForms == Spec => []RecordIsOneForm
<1>1. IInv => RecordIsOneForm
  <2>1. ASSUME shut PROVE RecordIsOneForm
    BY <2>1 DEF RecordIsOneForm
  <2> QED
    BY <2>1 DEF IInv, Sound
<1> QED
  BY <1>1, Inductive, PTL

\* No transfer takes for its answer a line that came on a connection of another
\* one: my_read keeps no line from one connection to the next.
THEOREM AnswersAreOurs == Spec => []AnswerIsOurs
<1>1. IInv => AnswerIsOurs
  BY DEF IInv, Sound, Globals, AnswerIsOurs
<1> QED
  BY <1>1, Inductive, PTL

\* Once all transfers have returned, none of the connections they made is open,
\* if none ran inside another one.
THEOREM NothingIsLeft == Spec => []NothingLeaks
<1>1. IInv => NothingLeaks
  <2> SUFFICES ASSUME IInv, stack = <<>>, ~nested, NEW c \in Made
               PROVE  ~conn[c].open
    BY DEF NothingLeaks
  <2>1. TypeOK /\ Sound /\ Alone /\ c \in Conns
    BY DEF IInv, Alone, Made
  <2> QED
    BY <2>1, NoneOpen
<1> QED
  BY <1>1, Inductive, PTL

-----------------------------------------------------------------------------
(* Submission *)

\* What Submission calls the record and the loose forms.
Recorded == [f \in Forms |-> Version(f)]
Loose    == {f \in Forms : shut \/ mishap[f] # {}}

\* The version of a record that is a form,
LEMMA VersionOf ==
    ASSUME NEW f \in Forms, NEW v \in 1..MaxVer, db[f] = Stored(f, v)
    PROVE  Version(f) = v
<1>1. db[f] # Nothing /\ db[f][1].ver = v
  BY DEF Stored, Text, Nothing
<1> QED
  BY <1>1 DEF Version

\* also after a step.
LEMMA VersionAfter ==
    ASSUME NEW f \in Forms, NEW v \in 1..MaxVer, db'[f] = Stored(f, v)
    PROVE  Version(f)' = v
<1>1. db'[f] # Nothing /\ db'[f][1].ver = v
  BY DEF Stored, Text, Nothing
<1> QED
  BY <1>1 DEF Version, Stored, Text, Nothing

\* The initial states are those of Submission.
LEMMA PromiseInit == Init => Promise!SubmissionInit
<1> SUFFICES ASSUME Init PROVE Promise!SubmissionInit
  OBVIOUS
<1>1. \A f \in Forms : Version(f) = 0
  BY DEF Init, Version
<1>2. Recorded = [f \in Forms |-> 0]
  BY <1>1 DEF Recorded
<1>3. Loose = {}
  BY DEF Init, Loose
<1> QED
  BY <1>2, <1>3 DEF Promise!SubmissionInit, Init, Recorded, Loose

\* A step that changes no file and no record is a mishap or a stutter.
LEMMA PromiseMishap ==
    ASSUME UNCHANGED file, Loose \subseteq Loose',
           \A f \in Forms \ Loose' : db'[f] = db[f]
    PROVE  Promise!Mishap
<1>1. \A f \in Forms \ Loose' : Version(f)' = Version(f)
  BY DEF Version, Stored, Text, Nothing
<1>2. \A f \in Forms \ Loose' : Recorded'[f] = Recorded[f]
  BY <1>1 DEF Recorded
<1>3. Loose' \subseteq Forms
  BY DEF Loose
<1> QED
  BY <1>2, <1>3 DEF Promise!Mishap, Recorded, Loose

\* Saving a form is a change.
LEMMA PromiseChange ==
    ASSUME TypeOK, NEW f \in Forms, Save(f)
    PROVE  Promise!Change(f)
<1>1. /\ file[f].ver < scene.vers /\ UNCHANGED <<db, mishap, shut>>
      /\ file' = [file EXCEPT ![f] = [ver |-> @.ver + 1, sent |-> FALSE]]
  BY DEF Save, hist
<1>2. file[f].ver < MaxVer
  <2>1. file[f].ver \in Nat /\ scene.vers \in 1..MaxVer /\ MaxVer \in Nat
    BY WorldTypes, ScenesBound, Constants
  <2> QED
    BY <1>1, <2>1
<1>3. Recorded' = Recorded /\ Loose' = Loose
  BY <1>1 DEF Recorded, Version, Stored, Text, Nothing, Loose
<1> QED
  BY <1>1, <1>2, <1>3 DEF Promise!Change, Recorded, Loose

\* An answer that sets a flag is a confirmation.
LEMMA PromiseConfirm ==
    ASSUME IInv, FormAnswered, file' # file
    PROVE  Promise!Confirm(Top.dir) /\ Top.dir \in Forms
<1>1. PICK a \in Conns \X {"500", "refused"} :
        ReadLine(a) /\ a[2] = "500" /\ file' = [file EXCEPT ![Top.dir].sent = TRUE]
  BY DEF FormAnswered
<1>2. Running("answer") /\ UNCHANGED <<db, mishap, shut>>
  BY DEF FormAnswered
<1>3. TypeOK /\ stack # <<>> /\ Top.pc = "answer"
  BY <1>2 DEF Running, IInv
<1>4. Top.dir \in Forms
  <2>1. Top \in FrameType
    BY <1>3, TopFrame, Types
  <2> QED
    BY <1>3, <2>1 DEF FrameType
<1>5. Recorded' = Recorded /\ Loose' = Loose
  BY <1>2 DEF Recorded, Version, Stored, Text, Nothing, Loose
<1>6. Top.dir \in Loose \/ Recorded[Top.dir] = file[Top.dir].ver
  <2>1. CASE shut
    BY <1>4, <2>1 DEF Loose
  <2>2. CASE ~shut
    <3>1. Sound
      BY <2>2 DEF IInv
    <3>2. sockfd > 0 /\ conn[sockfd].s2c # <<>> /\ a = conn[sockfd].s2c[1]
      BY <1>1, <1>3, <3>1, ReadCases
    <3>3. Phase(Top, conn[sockfd], World)
      BY <1>3, <3>1, <3>2, TopOwns DEF Early
    <3>4. mishap[Top.dir] # {} \/ db[Top.dir] = Stored(Top.dir, file[Top.dir].ver)
      BY <1>1, <1>3, <3>2, <3>3 DEF Phase, World
    <3>5. CASE mishap[Top.dir] # {}
      BY <1>4, <3>5 DEF Loose
    <3>6. CASE db[Top.dir] = Stored(Top.dir, file[Top.dir].ver)
      <4>1. file[Top.dir].ver \in 1..MaxVer
        BY <1>3, <1>4, WorldTypes
      <4> QED
        BY <1>4, <3>6, <4>1, VersionOf DEF Recorded
    <3> QED
      BY <3>4, <3>5, <3>6
  <2> QED
    BY <2>1, <2>2
<1> QED
  BY <1>1, <1>4, <1>5, <1>6 DEF Promise!Confirm, Recorded, Loose

\* Storing a form is its arrival, or a mishap if the form is loose.
LEMMA PromiseStores ==
    ASSUME IInv, NEW c \in Conns, ServerStores(c)
    PROVE  Promise!Mishap \/ \E f \in Forms : Promise!Arrive(f)
<1> DEFINE k == conn[c]  f == k.name
<1>1. /\ UNCHANGED <<file, shut>> /\ db' = [db EXCEPT ![f] = k.body]
      /\ \A g \in Forms : mishap'[g] = IF Abandoned(c) /\ g = f
                                       THEN mishap[g] \cup {"late"} ELSE mishap[g]
  BY DEF ServerStores, Blame
<1>2. TypeOK /\ db \in [Forms -> Seq(Lines)]
  BY Types DEF IInv
<1>3. Loose \subseteq Loose'
  BY <1>1 DEF Loose
<1>4. CASE f \in Loose' \/ shut
  <2>1. \A g \in Forms \ Loose' : db'[g] = db[g]
    BY <1>1, <1>2, <1>4 DEF Loose
  <2> QED
    BY <1>1, <1>3, <2>1, PromiseMishap
<1>5. CASE f \notin Loose' /\ ~shut
  <2>1. Sound
    BY <1>5 DEF IInv
  <2>2. /\ k.srv = "form" /\ f \in Forms /\ ~NoDot(k) /\ Line(k, 1) = Filename(f)
        /\ \/ "open" \in mishap[f]
           \/ \E v \in 1..file[f].ver : k.body = Stored(f, v)
        /\ Astray(k, World) => "open" \in mishap[f]
    <3>1. Astray(k, World) /\ k.srv = "form" => "open" \in mishap[f]
      BY DEF Astray, Unopened, World
    <3> QED
      BY <1>2, <2>1, <3>1, StoresFacts
  <2> HIDE DEF f
  <2>3. mishap'[f] = {} /\ mishap[f] = {} /\ ~Abandoned(c)
    <3>1. mishap'[f] = {}
      BY <1>5, <2>2 DEF Loose
    <3> QED
      BY <1>1, <2>2, <3>1
  <2>4. ~file[f].sent
    <3>1. Phase(Top, k, World)
      BY <1>2, <2>1, <2>2, <2>3, Awaited
    <3> QED
      BY <2>2, <2>3, <3>1 DEF Phase, Dots, World, Filename
  <2>5. PICK v \in 1..file[f].ver : k.body = Stored(f, v)
    BY <2>2, <2>3
  <2>6. v \in 1..MaxVer
    <3>1. file[f].ver \in 1..MaxVer /\ MaxVer \in Nat
      BY <1>2, <2>2, WorldTypes, Constants
    <3> QED
      BY <3>1
  <2>7. PICK g \in Forms : g = f
    BY <2>2
  <2>8. Version(g)' = v
    BY <1>1, <1>2, <2>5, <2>6, <2>7, VersionAfter
  <2>9. Recorded' = [Recorded EXCEPT ![g] = v]
    <3>1. \A h \in Forms : h # g => Version(h)' = Version(h)
      BY <1>1, <1>2, <2>7 DEF Version, Stored, Text, Nothing
    <3> QED
      BY <2>8, <3>1 DEF Recorded
  <2>10. Loose' = Loose
    BY <1>1, <2>3 DEF Loose
  <2> QED
    BY <1>1, <2>4, <2>5, <2>7, <2>9, <2>10 DEF Promise!Arrive, Recorded, Loose
<1> QED
  BY <1>4, <1>5

\* All other steps change neither a file nor a record.
LEMMA OtherSteps ==
    ASSUME [Next]_<<scene, vars>>
    PROVE  \/ \E f \in Forms : Save(f)
           \/ FormAnswered
           \/ \E c \in Conns : ServerStores(c)
           \/ /\ UNCHANGED <<file, db>>
              /\ \A f \in Forms : mishap[f] \subseteq mishap'[f]
<1> USE DEF vars, hist, net, user, disk
<1> DEFINE Quiet == UNCHANGED <<file, db, mishap>>
<1>1. CASE Next
  <2>1. CASE Client
    <3>1. CASE authenticate
      BY <3>1 DEF authenticate, StartLogin, Say, Hear
    <3>2. CASE LoginFails \/ SendFilenameFails
      BY <3>2 DEF LoginFails, SendFilenameFails
    <3>3. CASE BeginAfterPass \/ Socket \/ ConnectFails \/ GiveUp
      BY <3>3 DEF BeginAfterPass, Socket, ConnectFails, GiveUp
    <3>4. CASE Connect
      BY <3>4 DEF Connect
    <3>5. CASE OpenDir \/ OpenDirFails \/ SkipFile \/ NoMoreForms \/ FormCancelled
      BY <3>5 DEF OpenDir, OpenDirFails, SkipFile, NoMoreForms, FormCancelled
    <3>6. CASE FormNotOpened
      <4>1. UNCHANGED <<file, db>>
        BY <3>6 DEF FormNotOpened
      <4>2. \A f \in Forms : mishap[f] \subseteq mishap'[f]
        BY <3>6 DEF FormNotOpened, Blame
      <4> QED
        BY <4>1, <4>2
    <3>7. CASE SendFilename
      <4>1. Quiet
        BY <3>7 DEF SendFilename
      <4> QED
        BY <4>1
    <3>8. CASE SendForm
      <4>1. Quiet
        BY <3>8 DEF SendForm
      <4> QED
        BY <4>1
    <3>9. CASE FormNotAnswered \/ Quit
      BY <3>9 DEF FormNotAnswered, Quit
    <3> QED
      BY <2>1, <3>1, <3>2, <3>3, <3>4, <3>5, <3>6, <3>7, <3>8, <3>9 DEF Client
  <2>2. CASE Operator
    BY <2>2 DEF Operator, editor_send_clicked, pass_ok_clicked, pass_cancel_clicked,
       on_online_cancel_clicked, on_online_ok_clicked
  <2>3. CASE Mishaps
    BY <2>3 DEF Mishaps, Crash, Cut, Silence
  <2>4. ASSUME NEW c \in Conns, Server(c) PROVE ServerStores(c) \/ Quiet
    BY <2>4 DEF Server, ServerLogin, ServerRefuses, ServerCommand, ServerLine,
       ServerAbandons, ServerHangUp
  <2>5. Quiet => \A f \in Forms : mishap[f] \subseteq mishap'[f]
    OBVIOUS
  <2> QED
    BY <1>1, <2>1, <2>2, <2>3, <2>4, <2>5 DEF Next
<1>2. CASE UNCHANGED <<scene, vars>>
  BY <1>2
<1> QED
  BY <1>1, <1>2

\* Every step of a transfer is one of Submission, or a stutter.
LEMMA PromiseStep ==
    ASSUME IInv, [Next]_<<scene, vars>>
    PROVE  [Promise!SubmissionNext]_(Promise!subvars)
<1>1. ASSUME UNCHANGED <<file, db>>, \A f \in Forms : mishap[f] \subseteq mishap'[f]
      PROVE  Promise!Mishap
  <2>1. Loose \subseteq Loose'
    BY <1>1, HistoryStays DEF Loose
  <2> QED
    BY <1>1, <2>1, PromiseMishap
<1>2. CASE FormAnswered
  <2>1. CASE file' # file
    BY <1>2, <2>1, PromiseConfirm DEF Promise!SubmissionNext
  <2>2. CASE file' = file
    <3>1. UNCHANGED <<db, mishap>>
      BY <1>2 DEF FormAnswered
    <3> QED
      BY <1>1, <2>2, <3>1 DEF Promise!SubmissionNext
  <2> QED
    BY <2>1, <2>2
<1>3. ASSUME NEW f \in Forms, Save(f) PROVE Promise!SubmissionNext
  BY <1>3, PromiseChange DEF IInv, Promise!SubmissionNext
<1>4. ASSUME NEW c \in Conns, ServerStores(c) PROVE Promise!SubmissionNext
  BY <1>4, PromiseStores DEF Promise!SubmissionNext
<1> QED
  BY <1>1, <1>2, <1>3, <1>4, OtherSteps DEF Promise!SubmissionNext

\* A transfer implements Submission: forms change, arrive and are confirmed as
\* that promises, whatever breaks.
THEOREM Implements == Spec => ImplementsSubmission
BY PromiseInit, PromiseStep, Inductive, PTL
   DEF Spec, ImplementsSubmission, Promise!SubmissionSpec
================================================================================
