------------------------- MODULE ImageTransfer_proofs -------------------------
(***************************************************************************)
(* Proofs about ImageTransfer: a photo that is called transferred is whole *)
(* and nothing else gets into its file, and a form is lost only behind a   *)
(* photo that the server gave up; for any number of forms, sizes of        *)
(* photos, buffers and chunks, and any faults.                             *)
(***************************************************************************)
EXTENDS ImageTransfer, SequenceTheorems, TLAPS

-----------------------------------------------------------------------------
(* The inductive invariant *)

AllUnits(s) == \A k \in 1..Len(s) : s[k] = Unit
Grown == "grow" \in mishap

\* The stream holds one line and nothing else, or an image's units, unless it
\* begins with units that no image expects: then the session is about to end.
Stream ==
    \/ spc = "image" /\ AllUnits(c2s)
    \/ spc = "ended" /\ c2s = <<>>
    \/ spc = "cmd" /\ c2s = <<>>
    \/ spc = "cmd" /\ c2s = <<Form>>
    \/ spc = "cmd" /\ \E f \in Forms : /\ c2s = <<Binary(f)>>
                                       /\ photo[f] \in Sizes /\ told[f] # "kept"
    \/ spc = "cmd" /\ c2s # <<>> /\ Head(c2s) = Unit

\* A photo before that of form f was given up.
LostBefore(f) == \E g \in Forms : g < f /\ GivenUp(g)

\* Something went wrong, and the client will hear nothing more.
Off ==
    /\ Broken \/ LostBefore(cur)
    /\ s2c = <<>>
    /\ \/ link = "cut" \/ spc = "ended"
       \/ spc = "cmd" /\ c2s # <<>> /\ Head(c2s) = Unit

\* The server has taken all there was.
Idle == c2s = <<>> /\ (spc = "cmd" \/ (spc = "ended" /\ Broken))

\* The server takes the photo of cur: what it has, what is on its way and what
\* the client has yet to send are the photo.
Receiving ==
    /\ spc = "image" /\ name = cur /\ AllUnits(c2s)
    /\ ~Grown => image[cur] + nleft = photo[cur] /\ Len(c2s) + left = nleft

\* The photo was answered with 500, or with 300.
Whole ==
    /\ spc \in {"cmd", "ended"} /\ AllUnits(c2s) /\ (spc = "ended" => Broken)
    /\ ~Grown => c2s = <<>> /\ left = 0 /\ image[cur] = photo[cur]
Failed ==
    /\ spc \in {"cmd", "ended"} /\ AllUnits(c2s)
    /\ \/ Broken
       \/ photo[cur] > 0 /\ (image[cur] # NoPhoto \/ "create" \in mishap)
       \/ spc = "cmd" /\ c2s = <<>> /\ left = 0

\* What is on its way to the client at each point of send_photo and its caller.
TalkIdle == link = "up" /\ s2c = <<>> /\ Idle
TalkForm == link = "up" /\ ((s2c = <<>> /\ spc = "cmd" /\ c2s = <<Form>>)
                            \/ (s2c = <<"500">> /\ Idle))
TalkAsk ==
    /\ link = "up"
    /\ \/ /\ s2c = <<>> /\ spc = "cmd" /\ c2s = <<Binary(cur)>>
          /\ ~Grown => left = photo[cur]
       \/ s2c = <<"310">> /\ Idle
       \/ s2c = <<"500">> /\ Receiving
       \/ s2c = <<"500", "500">> /\ Whole
       \/ s2c = <<"500", "300">> /\ Failed
TalkPhoto ==
    /\ link = "up"
    /\ \/ s2c = <<>> /\ Receiving
       \/ s2c = <<"500">> /\ Whole
       \/ s2c = <<"300">> /\ Failed
Talk ==
    /\ cpc \in {"form", "photo"} => Off \/ TalkIdle
    /\ cpc = "done" => Off \/ TalkIdle
                       \/ (link = "up" /\ s2c = <<>> /\ spc = "ended" /\ c2s = <<>>)
    /\ cpc = "answer" => Off \/ TalkForm
    /\ cpc = "ask" => Off \/ TalkAsk
    /\ cpc \in {"bytes", "wait"} => Off \/ TalkPhoto
    /\ cpc = "wait" => left = 0 \/ spc = "ended" \/ link = "cut"

\* How far the session is.
Course ==
    /\ cpc = "done" <=> cur = NForms + 1
    /\ cpc \in {"photo", "ask", "bytes", "wait"} => photo[cur] \in Sizes
    /\ \A f \in Forms : told[f] # "nothing" => f < cur
    /\ link = "cut" => s2c = <<>> /\ Broken
    /\ spc = "image" => name \in Forms /\ told[name] # "kept" /\ image[name] \in Nat

\* While the connection holds, every form has been answered with 500, unless a
\* photo before it was given up.
Answered ==
    ~Broken => \A f \in Forms :
        \/ f \in formok \/ LostBefore(f) \/ f > cur
        \/ f = cur /\ cpc \in {"form", "answer"}

IInv ==
    /\ TypeOK
    /\ Stream /\ Talk /\ Course /\ Answered
    /\ KeptIsWhole /\ NothingSwallowed

-----------------------------------------------------------------------------
(* Items, units and answers *)

\* The items of the stream are told apart.
LEMMA ItemFacts ==
    /\ Form # Unit /\ Form[1] # "BINARY" /\ Unit[1] # "BINARY"
    /\ Form \in Items /\ Unit \in Items
    /\ \A f, n : /\ <<"BINARY", f, n>>[1] = "BINARY"
                 /\ <<"BINARY", f, n>>[2] = f /\ <<"BINARY", f, n>>[3] = n
                 /\ <<"BINARY", f, n>> # Form /\ <<"BINARY", f, n>> # Unit
    /\ \A f \in Forms, n \in Sizes : <<"BINARY", f, n>> \in Items
BY DEF Form, Unit, Items

\* Streams of one item.
LEMMA OneItem ==
    ASSUME NEW a
    PROVE  /\ <<a>> # <<>> /\ Head(<<a>>) = a /\ Tail(<<a>>) = <<>>
           /\ Len(<<a>>) = 1 /\ <<a>>[1] = a /\ <<>> \o <<a>> = <<a>>
           /\ Append(<<>>, a) = <<a>>
<1>1. <<a>> # <<>> /\ Head(<<a>>) = a /\ Len(<<a>>) = 1 /\ <<a>>[1] = a
  OBVIOUS
<1>2. Tail(<<a>>) = <<>>
  OBVIOUS
<1>3. <<>> \o <<a>> = <<a>>
  <2>1. <<a>> \in Seq({a})
    OBVIOUS
  <2> QED
    BY <2>1, ConcatEmptySeq
<1>4. Append(<<>>, a) = <<a>>
  OBVIOUS
<1> QED
  BY <1>1, <1>2, <1>3, <1>4

\* An answer is added to the answers on their way.
LEMMA AddAnswer ==
    ASSUME NEW s \in Seq(Codes), NEW b \in Codes
    PROVE  /\ Append(s, b) \in Seq(Codes) /\ Len(Append(s, b)) = Len(s) + 1
           /\ \A j \in 1..Len(s) : Append(s, b)[j] = s[j]
           /\ Append(s, b)[Len(s) + 1] = b
OBVIOUS

\* Two answers.
LEMMA TwoAnswers ==
    ASSUME NEW a \in Codes, NEW b \in Codes
    PROVE  /\ <<a, b>> # <<>> /\ Head(<<a, b>>) = a /\ Tail(<<a, b>>) = <<b>>
           /\ Append(<<a>>, b) = <<a, b>> /\ <<>> \o <<a, b>> = <<a, b>>
           /\ Len(<<a, b>>) = 2 /\ <<a, b>> \in Seq(Codes)
<1> DEFINE s == <<a>>
           t == <<a, b>>
           u == Append(s, b)
<1>1. /\ s \in Seq(Codes) /\ Len(s) = 1 /\ s[1] = a
      /\ t \in Seq(Codes) /\ Len(t) = 2 /\ t[1] = a /\ t[2] = b
  OBVIOUS
<1>2. t # <<>> /\ Head(t) = a
  OBVIOUS
<1>3. Tail(t) = <<b>>
  OBVIOUS
<1>4. <<>> \o t = t
  BY <1>1, ConcatEmptySeq
<1> HIDE DEF s, t
<1>5. u \in Seq(Codes) /\ Len(u) = Len(s) + 1
  BY <1>1, AddAnswer
<1>6. \A j \in 1..Len(s) : u[j] = s[j]
  BY <1>1, AddAnswer
<1>7. u[Len(s) + 1] = b
  BY <1>1, AddAnswer
<1> HIDE DEF u
<1>8. Len(u) = 2 /\ u[1] = a /\ u[2] = b
  BY <1>1, <1>5, <1>6, <1>7
<1>9. \A j \in 1..Len(u) : u[j] = t[j]
  BY <1>1, <1>8
<1>10. u = t
  BY <1>1, <1>5, <1>8, <1>9, SeqEqual
<1> QED
  BY <1>1, <1>2, <1>3, <1>4, <1>10 DEF s, t, u

\* A read takes units off the front.
LEMMA TakeUnits ==
    ASSUME NEW s \in Seq(Items), NEW k \in 0..Len(s)
    PROVE  /\ SubSeq(s, k + 1, Len(s)) \in Seq(Items)
           /\ Len(SubSeq(s, k + 1, Len(s))) = Len(s) - k
           /\ AllUnits(s) => AllUnits(SubSeq(s, k + 1, Len(s)))
BY DEF AllUnits

\* The client adds units at the end.
LEMMA AddUnits ==
    ASSUME NEW s \in Seq(Items), NEW n \in Nat
    PROVE  /\ s \o Units(n) \in Seq(Items)
           /\ Len(s \o Units(n)) = Len(s) + n
           /\ AllUnits(s) => AllUnits(s \o Units(n))
           /\ s # <<>> => s \o Units(n) # <<>> /\ Head(s \o Units(n)) = Head(s)
<1>1. Units(n) \in Seq(Items) /\ Len(Units(n)) = n
      /\ \A k \in 1..n : Units(n)[k] = Unit
  BY ItemFacts DEF Units
<1> HIDE DEF Units
<1> QED
  BY <1>1 DEF AllUnits

\* What is added at the end leaves the first item first.
LEMMA AddItems ==
    ASSUME NEW s \in Seq(Items), NEW t \in Seq(Items)
    PROVE  /\ s \o t \in Seq(Items)
           /\ s # <<>> => s \o t # <<>> /\ Head(s \o t) = Head(s)
OBVIOUS

\* What is left of the stream when the connection breaks.
LEMMA CutStream ==
    ASSUME NEW s \in Seq(Items), NEW n \in 0..Len(s)
    PROVE  /\ SubSeq(s, 1, n) \in Seq(Items)
           /\ AllUnits(s) => AllUnits(SubSeq(s, 1, n))
           /\ \A a : s = <<a>> => SubSeq(s, 1, n) \in {<<>>, <<a>>}
           /\ s = <<>> => SubSeq(s, 1, n) = <<>>
           /\ SubSeq(s, 1, n) # <<>> => Head(SubSeq(s, 1, n)) = Head(s)
<1>1. SubSeq(s, 1, n) \in Seq(Items) /\ Len(SubSeq(s, 1, n)) = n
      /\ \A k \in 1..n : SubSeq(s, 1, n)[k] = s[k]
  OBVIOUS
<1> DEFINE t == SubSeq(s, 1, n)
<1> HIDE DEF t
<1>2. t \in Seq(Items) /\ Len(t) = n /\ \A k \in 1..n : t[k] = s[k]
  BY <1>1 DEF t
<1>3. AllUnits(s) => AllUnits(t)
  BY <1>2 DEF AllUnits
<1>4. ASSUME NEW a, s = <<a>> PROVE t \in {<<>>, <<a>>}
  BY <1>2, <1>4
<1>5. s = <<>> => t = <<>>
  BY <1>2
<1>6. t # <<>> => Head(t) = Head(s)
  BY <1>2
<1> QED
  BY <1>2, <1>3, <1>4, <1>5, <1>6 DEF t

\* A stream of units that is not empty begins with one.
LEMMA FirstUnit ==
    ASSUME NEW s \in Seq(Items), AllUnits(s), s # <<>>
    PROVE  Head(s) = Unit /\ Len(s) > 0
BY DEF AllUnits
\* The answers as they come and go.
LEMMA AnswerFacts ==
    /\ "500" \in Codes /\ "300" \in Codes /\ "310" \in Codes
    /\ <<>> \in Seq(Codes) /\ Len(<<>>) = 0
    /\ \A a \in Codes : /\ <<a>> # <<>> /\ Head(<<a>>) = a /\ Tail(<<a>>) = <<>>
                         /\ Append(<<>>, a) = <<a>>
                         /\ <<a>> \in Seq(Codes) /\ Len(<<a>>) = 1
    /\ \A a, b \in Codes : /\ <<a, b>> # <<>> /\ Head(<<a, b>>) = a
                            /\ Tail(<<a, b>>) = <<b>> /\ Append(<<a>>, b) = <<a, b>>
                            /\ <<>> \o <<a, b>> = <<a, b>>
                            /\ <<a, b>> \in Seq(Codes) /\ Len(<<a, b>>) = 2
<1>1. \A a \in Codes : <<a>> \in Seq(Codes)
  OBVIOUS
<1> QED
  BY <1>1, OneItem, TwoAnswers DEF Codes

\* What the client hears when there is nothing, one answer, or two.
LEMMA Heard ==
    ASSUME NEW code
    PROVE  /\ s2c = <<>> => ~Hears(code)
           /\ \A a \in Codes : s2c = <<a>> => ~HearsNothing
           /\ \A a, b \in Codes : s2c = <<a, b>> => ~HearsNothing
           /\ \A a \in Codes : s2c = <<a>> /\ Hears(code) => code = a /\ s2c' = <<>>
           /\ \A a, b \in Codes :
                 s2c = <<a, b>> /\ Hears(code) => code = a /\ s2c' = <<b>>
<1>1. s2c = <<>> => ~Hears(code)
  BY DEF Hears
<1>2. ASSUME NEW a \in Codes, s2c = <<a>> PROVE ~HearsNothing
  BY <1>2, AnswerFacts DEF HearsNothing
<1>3. ASSUME NEW a \in Codes, NEW b \in Codes, s2c = <<a, b>> PROVE ~HearsNothing
  BY <1>3, AnswerFacts DEF HearsNothing
<1>4. ASSUME NEW a \in Codes, s2c = <<a>>, Hears(code) PROVE code = a /\ s2c' = <<>>
  BY <1>4, AnswerFacts DEF Hears
<1>5. ASSUME NEW a \in Codes, NEW b \in Codes, s2c = <<a, b>>, Hears(code)
      PROVE  code = a /\ s2c' = <<b>>
  BY <1>5, AnswerFacts DEF Hears
<1> QED
  BY <1>1, <1>2, <1>3, <1>4, <1>5

-----------------------------------------------------------------------------
(* Every step keeps the invariant *)

\* What is broken stays broken, and a photo given up stays given up.
LEMMA StillLost ==
    ASSUME UNCHANGED photo, mishap \subseteq mishap',
           \A f \in Forms : /\ told[f] = "failed" => told'[f] = "failed"
                            /\ image[f] # NoPhoto => image'[f] # NoPhoto
    PROVE  /\ Broken => Broken'
           /\ \A g \in Forms : GivenUp(g) => GivenUp(g)'
           /\ \A f : LostBefore(f) => \E g \in Forms : g < f /\ GivenUp(g)'
<1>1. Broken => Broken'
  BY DEF Broken
<1>2. \A g \in Forms : GivenUp(g) => GivenUp(g)'
  BY DEF GivenUp
<1> QED
  BY <1>1, <1>2 DEF LostBefore

\* The forms that are lost stay lost as the session goes on.
LEMMA LostGoesOn ==
    ASSUME TypeOK, UNCHANGED photo, mishap \subseteq mishap', cur' \in {cur, cur + 1},
           \A f \in Forms : /\ told[f] = "failed" => told'[f] = "failed"
                            /\ image[f] # NoPhoto => image'[f] # NoPhoto
    PROVE  Broken \/ LostBefore(cur) => Broken' \/ LostBefore(cur)'
<1>1. \A g \in Forms : g < cur => g < cur'
  BY DEF TypeOK, Forms
<1> QED
  BY <1>1, StillLost DEF LostBefore

\* A photo is told of once, when its form is the current one.
LEMMA ToldOnce ==
    ASSUME TypeOK, Course, NEW v, told' = [told EXCEPT ![cur] = v]
    PROVE  \A f \in Forms : /\ told[f] = "failed" => told'[f] = "failed"
                            /\ f # cur => told'[f] = told[f]
BY DEF TypeOK, Course, Forms

\* While nothing more will be heard, what is sent is lost or not looked at.
LEMMA SendOff ==
    ASSUME TypeOK, Stream, Off, NEW items \in Seq(Items), Send(items),
           UNCHANGED <<photo, cur, spc, s2c, link, told, image>>,
           mishap \subseteq mishap'
    PROVE  c2s' \in Seq(Items) /\ Stream' /\ Off'
<1>3. Broken' \/ LostBefore(cur)'
  BY LostGoesOn DEF Off
<1>1. CASE c2s' = c2s
  BY <1>1, <1>3 DEF TypeOK, Stream, Off, Binary
<1>2. CASE c2s' = c2s \o items /\ link = "up" /\ spc # "ended"
  <2>1. spc = "cmd" /\ c2s # <<>> /\ Head(c2s) = Unit
    BY <1>2 DEF Off
  <2>2. c2s' \in Seq(Items) /\ c2s' # <<>> /\ Head(c2s') = Unit
    BY <1>2, <2>1, AddItems DEF TypeOK
  <2> QED
    BY <1>3, <2>1, <2>2 DEF Stream, Off
<1> QED
  BY <1>1, <1>2 DEF Send, TypeOK

\* SendForm: the line of a form goes to a server that has taken all, or is lost.
LEMMA SendFormInv == ASSUME ImageAssumption, IInv, SendForm PROVE IInv'
<1>1. /\ Course' /\ Answered' /\ KeptIsWhole' /\ NothingSwallowed'
  BY DEF IInv, TypeOK, Course, Answered, KeptIsWhole, NothingSwallowed, SendForm,
         config, hist, server, Broken, GivenUp, LostBefore
<1>2. CASE Off
  <2>1. c2s' \in Seq(Items) /\ Stream' /\ Off'
    <3>1. <<Form>> \in Seq(Items)
      BY ItemFacts
    <3>2. /\ UNCHANGED <<photo, cur, spc, s2c, link, told, image>>
          /\ mishap \subseteq mishap'
          /\ Send(<<Form>>)
      BY DEF SendForm, config, server, hist
    <3> QED
      BY <1>2, <3>1, <3>2, SendOff DEF IInv
  <2>2. TypeOK'
    BY <2>1 DEF IInv, TypeOK, SendForm, config, server, hist
  <2>3. Talk'
    BY <2>1 DEF Talk, SendForm
  <2> QED
    BY <1>1, <2>1, <2>2, <2>3 DEF IInv
<1>3. CASE ~Off
  <2>1. link = "up" /\ s2c = <<>> /\ c2s = <<>> /\ spc = "cmd"
    BY <1>3 DEF IInv, Talk, TalkIdle, Idle, Off, SendForm
  <2>2. c2s' = <<Form>> /\ c2s' \in Seq(Items)
    BY <2>1, ItemFacts, OneItem DEF SendForm, Send
  <2>3. TypeOK'
    BY <2>2 DEF IInv, TypeOK, SendForm, config, server, hist
  <2>4. Stream' /\ Talk'
    BY <2>1, <2>2 DEF Stream, Talk, TalkForm, SendForm, server
  <2> QED
    BY <1>1, <2>3, <2>4 DEF IInv
<1> QED
  BY <1>2, <1>3

\* While nothing more will be heard, the client goes on without answers.
LEMMA StaysOff ==
    ASSUME TypeOK, Stream, Off, UNCHANGED <<photo, spc, c2s, s2c, link, image>>,
           mishap \subseteq mishap', cur' \in {cur, cur + 1},
           \A f \in Forms : /\ told'[f] = "kept" => told[f] = "kept"
                            /\ told[f] = "failed" => told'[f] = "failed"
    PROVE  Stream' /\ Off'
<1>1. Broken' \/ LostBefore(cur)'
  BY LostGoesOn DEF Off
<1> QED
  BY <1>1 DEF Stream, Off, Binary

\* FormAnswered: the answer is heard, or the session is over.
LEMMA FormAnsweredInv == ASSUME ImageAssumption, IInv, FormAnswered PROVE IInv'
<1>1. cur \in Forms /\ cur + 1 \in 1..(NForms + 1) /\ cpc = "answer" /\ NForms \in Nat
  BY DEF IInv, TypeOK, Course, FormAnswered, Forms, ImageAssumption
<1>2. UNCHANGED <<photo, accepting, left, spc, name, nleft, i, image, c2s, link, told,
                  swallowed, mishap>>
  BY DEF FormAnswered, config, server
<1>6. \/ /\ \E code \in Codes : /\ Hears(code)
                               /\ formok' = IF code = "500" THEN formok \cup {cur}
                                                            ELSE formok
         /\ IF photo[cur] = NoPhoto THEN Next_form
            ELSE cpc' = "photo" /\ UNCHANGED cur
      \/ HearsNothing /\ Next_form /\ UNCHANGED formok
  BY DEF FormAnswered, Codes
<1>3. Course' /\ KeptIsWhole' /\ NothingSwallowed'
  <2>1. /\ cpc' = "done" <=> cur' = NForms + 1
        /\ cpc' = "photo" => photo'[cur'] \in Sizes
        /\ cpc' \notin {"ask", "bytes", "wait"}
    BY <1>1, <1>2, <1>6 DEF IInv, TypeOK, Next_form, Forms
  <2>2. \A f \in Forms : told'[f] # "nothing" => f < cur'
    <3>1. cur' \in {cur, cur + 1}
      BY <1>6 DEF Next_form
    <3> QED
      BY <3>1, <1>1, <1>2 DEF IInv, Course, Forms
  <2>3. link' = "cut" => s2c' = <<>> /\ Broken'
    BY <1>2, <1>6 DEF IInv, Course, Hears, HearsNothing, Broken, GivenUp, LostBefore
  <2>4. Course'
    BY <1>2, <2>1, <2>2, <2>3 DEF IInv, Course
  <2> QED
    BY <1>2, <2>4 DEF IInv, KeptIsWhole, NothingSwallowed
<1>4. CASE HearsNothing /\ Next_form /\ UNCHANGED formok
  <2>1. Off
    BY <1>1, <1>4, AnswerFacts DEF IInv, Talk, TalkForm, Off, HearsNothing
  <2>2. Stream' /\ Off'
    BY <1>2, <1>4, <2>1, StaysOff DEF IInv, HearsNothing, Next_form
  <2>3. TypeOK'
    BY <1>1, <1>2, <1>4 DEF IInv, TypeOK, HearsNothing, Next_form
  <2>4. Talk'
    BY <1>4, <2>2 DEF Talk, Next_form
  <2>5. Answered'
    <3>1. Broken' = Broken /\ \A f \in Forms : LostBefore(f)' = LostBefore(f)
      BY <1>2 DEF Broken, LostBefore, GivenUp
    <3>2. cur' = cur + 1 /\ (cpc' = "form" \/ cur' = NForms + 1) /\ formok' = formok
      BY <1>1, <1>4 DEF Next_form, Forms
    <3>3. ASSUME ~Broken, NEW f \in Forms, f <= cur
          PROVE  f \in formok \/ LostBefore(f)
      BY <1>1, <2>1, <3>3 DEF IInv, Answered, Off, Forms
    <3>4. \A f \in Forms : f <= cur \/ f > cur + 1 \/ f = cur + 1
      BY <1>1 DEF Forms
    <3> QED
      BY <1>1, <3>1, <3>2, <3>3, <3>4 DEF Answered, Forms
  <2> QED
    BY <1>3, <2>2, <2>3, <2>4, <2>5 DEF IInv
<1>5. ASSUME NEW code \in Codes, Hears(code),
             formok' = IF code = "500" THEN formok \cup {cur} ELSE formok,
             IF photo[cur] = NoPhoto THEN Next_form ELSE cpc' = "photo" /\ UNCHANGED cur
      PROVE  IInv'
  <2>1. link = "up" /\ s2c = <<"500">> /\ Idle
    BY <1>1, <1>5 DEF IInv, Talk, TalkForm, Off, Hears
  <2>2. s2c' = <<>> /\ code = "500"
    BY <1>5, <2>1, AnswerFacts DEF Hears
  <2>3. TypeOK'
    BY <1>1, <1>2, <1>5, <2>2, AnswerFacts DEF IInv, TypeOK, Next_form
  <2>4. Stream'
    BY <1>2, <2>1 DEF Stream, Idle
  <2>5. TalkIdle'
    BY <1>2, <2>1, <2>2 DEF TalkIdle, Idle, Broken, GivenUp, LostBefore
  <2>6. Talk' 
    BY <1>5, <2>5 DEF Talk, Next_form
  <2>7. Answered'
    BY <1>1, <1>2, <1>5, <2>2 DEF IInv, TypeOK, Answered, Next_form, Forms,
       Broken, GivenUp, LostBefore
  <2> QED
    BY <1>3, <2>3, <2>4, <2>6, <2>7 DEF IInv
<1> QED
  BY <1>4, <1>5, <1>6

\* The end of a photo: it is kept only if the server has all of it.
LEMMA PhotoEnds ==
    ASSUME ImageAssumption, IInv, cpc \in {"photo", "ask", "wait"}, Next_form,
           UNCHANGED <<photo, accepting, left, spc, name, nleft, i, image, c2s, link,
                       formok, swallowed, mishap>>,
           NEW v \in {"failed", "kept"}, told' = [told EXCEPT ![cur] = v],
           v = "kept" => spc # "image" /\ (~Grown => image[cur] = photo[cur]),
           s2c' = <<>>, Stream', Off' \/ TalkIdle'
    PROVE  IInv'
<1>1. cur \in Forms /\ cur + 1 \in 1..(NForms + 1) /\ NForms \in Nat
  BY DEF IInv, TypeOK, Course, Forms, ImageAssumption
<1>2. cpc' \in {"form", "done"} /\ cur' = cur + 1 /\ (cpc' = "done" <=> cur' = NForms + 1)
  BY <1>1 DEF Next_form, Forms
<1>3. TypeOK'
  BY <1>1, <1>2, AnswerFacts DEF IInv, TypeOK
<1>4. Talk'
  BY <1>2 DEF Talk
<1>5. Course'
  <2>1. \A f \in Forms : told'[f] # "nothing" => f < cur'
    BY <1>1, <1>2 DEF IInv, TypeOK, Course, Forms
  <2>2. spc' = "image" => /\ name' \in Forms /\ told'[name'] # "kept"
                          /\ image'[name'] \in Nat
    BY <1>1 DEF IInv, TypeOK, Course
  <2>3. link' = "cut" => s2c' = <<>> /\ Broken'
    BY DEF IInv, Course, Broken, GivenUp, LostBefore
  <2> QED
    BY <1>2, <2>1, <2>2, <2>3 DEF Course
<1>6. Answered'
  <2>1. \A f \in Forms : told[f] = "failed" => told'[f] = "failed"
    BY ToldOnce DEF IInv
  <2>2. /\ Broken <=> Broken'
        /\ \A f \in Forms : LostBefore(f) => \E g \in Forms : g < f /\ GivenUp(g)'
    BY <2>1, StillLost DEF Broken
  <2>3. \A f \in Forms : f > cur' \/ f = cur' \/ f < cur \/ f = cur
    BY <1>1, <1>2 DEF Forms
  <2>4. ASSUME ~Broken, NEW f \in Forms, f < cur \/ f = cur
        PROVE  f \in formok \/ LostBefore(f)
    BY <1>1, <2>4 DEF IInv, Answered, Forms
  <2>5. \A f \in Forms : f = cur' => cpc' = "form"
    BY <1>1, <1>2 DEF Forms
  <2>6. formok' = formok /\ cpc' \notin {"answer"}
    BY <1>2
  <2>7. ASSUME ~Broken', NEW f \in Forms
        PROVE  \/ f \in formok' \/ LostBefore(f)' \/ f > cur'
               \/ f = cur' /\ cpc' \in {"form", "answer"}
    <3>1. CASE f < cur \/ f = cur
      <4>1. f \in formok \/ LostBefore(f)
        <5>1. ~Broken
          BY <2>2, <2>7
        <5> QED
          BY <2>4, <3>1, <5>1
      <4>2. LostBefore(f) => \E g \in Forms : g < f /\ GivenUp(g)'
        BY <2>2
      <4> QED
        BY <2>6, <4>1, <4>2 DEF LostBefore
    <3>2. CASE f = cur' \/ f > cur'
      BY <2>5, <3>2
    <3> QED
      BY <2>3, <3>1, <3>2
  <2> QED
    BY <2>7 DEF Answered
<1>7. KeptIsWhole' /\ NothingSwallowed'
  BY <1>1 DEF IInv, TypeOK, KeptIsWhole, NothingSwallowed, Grown
<1> QED
  BY <1>3, <1>4, <1>5, <1>6, <1>7 DEF IInv

\* PhotoMissing: nothing is sent, and nothing is on its way.
LEMMA PhotoMissingInv == ASSUME ImageAssumption, IInv, PhotoMissing PROVE IInv'
<1>1. /\ UNCHANGED <<photo, accepting, left, spc, name, nleft, i, image, c2s, s2c, link,
                     formok, swallowed, mishap>>
      /\ told' = [told EXCEPT ![cur] = "failed"] /\ Next_form /\ cpc = "photo"
  BY DEF PhotoMissing, config, server, streams
<1>2. Off' \/ TalkIdle'
  <2>1. CASE Off
    <3>1. Broken' \/ LostBefore(cur)'
      BY <1>1, <2>1, ToldOnce, LostGoesOn DEF IInv, Off, Next_form
    <3> QED
      BY <1>1, <2>1, <3>1 DEF Off
  <2>2. CASE TalkIdle
    BY <1>1, <2>2 DEF TalkIdle, Idle, Broken
  <2> QED
    BY <1>1, <2>1, <2>2 DEF IInv, Talk
<1>3. Stream'
  BY <1>1 DEF IInv, TypeOK, Stream, Binary
<1>4. s2c' = <<>>
  BY <1>2 DEF Off, TalkIdle
<1> QED
  BY <1>1, <1>2, <1>3, <1>4, PhotoEnds

\* AskToSend: BINARY goes to a server that has taken all, or is lost.
LEMMA AskToSendInv == ASSUME ImageAssumption, IInv, AskToSend PROVE IInv'
<1>1. /\ UNCHANGED <<photo, accepting, cur, spc, name, nleft, i, image, s2c, link, formok,
                     told, swallowed>>
      /\ cpc = "photo" /\ cpc' = "ask" /\ Send(<<Binary(cur)>>)
  BY DEF AskToSend, config, server
<1>2. /\ cur \in Forms /\ photo[cur] \in Sizes /\ photo[cur] \in Nat
      /\ Binary(cur) \in Items /\ Binary(cur)' = Binary(cur)
  <2>1. cur \in Forms
    BY <1>1 DEF IInv, TypeOK, Course, Forms, ImageAssumption
  <2>2. photo[cur] \in Sizes /\ photo[cur] \in Nat
    BY <1>1 DEF IInv, Course, ImageAssumption
  <2> QED
    BY <1>1, <2>1, <2>2, ItemFacts DEF Binary
<1>3. /\ left' \in Nat /\ (~Grown' => left' = photo[cur])
      /\ mishap \subseteq mishap' /\ mishap' \subseteq Faults \cup {"small"}
      /\ (mishap' = {} => mishap = {}) /\ (Grown => Grown')
  BY <1>2 DEF AskToSend, Grown, IInv, TypeOK
<1>4. Course'
  BY <1>1, <1>2, <1>3 DEF IInv, Course, Broken, GivenUp, LostBefore
<1>5. Answered' /\ KeptIsWhole' /\ NothingSwallowed'
  BY <1>1, <1>3 DEF IInv, Answered, KeptIsWhole, NothingSwallowed, Grown,
     Broken, GivenUp, LostBefore
<1>6. CASE Off
  <2>1. <<Binary(cur)>> \in Seq(Items)
    BY <1>2
  <2>2. c2s' \in Seq(Items) /\ Stream' /\ Off'
    BY <1>1, <1>3, <1>6, <2>1, SendOff DEF IInv
  <2>3. TypeOK'
    BY <1>1, <1>3, <2>2 DEF IInv, TypeOK
  <2>4. Talk'
    BY <1>1, <2>2 DEF Talk
  <2> QED
    BY <1>4, <1>5, <2>2, <2>3, <2>4 DEF IInv
<1>7. CASE ~Off
  <2>1. link = "up" /\ s2c = <<>> /\ c2s = <<>> /\ spc = "cmd"
    BY <1>1, <1>7 DEF IInv, Talk, TalkIdle, Idle, Off
  <2>2. c2s' = <<Binary(cur)>> /\ c2s' \in Seq(Items)
    BY <1>1, <1>2, <2>1, OneItem DEF Send
  <2>3. TypeOK'
    BY <1>1, <1>3, <2>2 DEF IInv, TypeOK
  <2>4. told[cur] # "kept"
    BY <1>2 DEF IInv, Course, Forms
  <2>5. Stream'
    BY <1>1, <1>2, <2>1, <2>2, <2>4 DEF Stream, Binary
  <2>6. Talk'
    BY <1>1, <1>2, <1>3, <2>1, <2>2 DEF Talk, TalkAsk
  <2> QED
    BY <1>4, <1>5, <2>3, <2>5, <2>6 DEF IInv
<1> QED
  BY <1>6, <1>7

\* MaySend: the first answer to BINARY.
LEMMA MaySendInv == ASSUME ImageAssumption, IInv, MaySend PROVE IInv'
<1>1. /\ UNCHANGED <<photo, accepting, left, spc, name, nleft, i, image, c2s, link,
                     formok, swallowed, mishap>>
      /\ cpc = "ask"
  BY DEF MaySend, config, server
<1>2. CASE Hears("500") /\ cpc' = "bytes" /\ UNCHANGED <<cur, told>>
  <2>1. ~Off /\ TalkAsk
    BY <1>1, <1>2 DEF IInv, Talk, Off, Hears
  <2>2. /\ link = "up"
        /\ \/ s2c' = <<>> /\ Receiving
           \/ s2c' = <<"500">> /\ Whole
           \/ s2c' = <<"300">> /\ Failed
    <3>1. s2c # <<>> /\ s2c # <<"310">>
      BY <1>2, Heard, AnswerFacts
    <3> QED
      <4>1. CASE s2c = <<"500">> /\ Receiving
        BY <1>2, <2>1, <4>1, Heard, AnswerFacts DEF TalkAsk
      <4>2. CASE s2c = <<"500", "500">> /\ Whole
        BY <1>2, <2>1, <4>2, Heard, AnswerFacts DEF TalkAsk
      <4>3. CASE s2c = <<"500", "300">> /\ Failed
        BY <1>2, <2>1, <4>3, Heard, AnswerFacts DEF TalkAsk
      <4> QED
        BY <2>1, <3>1, <4>1, <4>2, <4>3 DEF TalkAsk
  <2>3. TypeOK'
    <3>1. s2c' \in Seq(Codes) /\ Len(s2c') <= 2
      <4>1. ASSUME NEW a \in {"500", "300"}, s2c' = <<a>>
            PROVE  s2c' \in Seq(Codes) /\ Len(s2c') <= 2
        <5>1. a \in Codes
          BY AnswerFacts
        <5>2. <<a>> \in Seq(Codes) /\ Len(<<a>>) = 1
          BY <5>1, AnswerFacts
        <5>3. s2c' \in Seq(Codes) /\ Len(s2c') = 1
          BY <4>1, <5>2, Zenon
        <5> QED
          BY <5>3
      <4>2. s2c' = <<>> => s2c' \in Seq(Codes) /\ Len(s2c') <= 2
        BY AnswerFacts
      <4>3. s2c' = <<"500">> \/ s2c' = <<"300">> => s2c' \in Seq(Codes) /\ Len(s2c') <= 2
        BY <4>1, Zenon
      <4> QED
        BY <2>2, <4>2, <4>3
    <3> QED
      BY <1>1, <1>2, <3>1 DEF IInv, TypeOK
  <2>4. Stream'
    BY <1>1, <1>2 DEF IInv, Stream, Binary
  <2>5. Talk'
    <3>1. TalkPhoto'
      BY <1>1, <1>2, <2>2 DEF TalkPhoto, Receiving, Whole, Failed, Grown,
         Broken, GivenUp, LostBefore
    <3> QED
      BY <1>2, <3>1 DEF Talk
  <2>6. Course'
    BY <1>1, <1>2, <2>2 DEF IInv, Course
  <2>7. Answered' /\ KeptIsWhole' /\ NothingSwallowed'
    BY <1>1, <1>2 DEF IInv, Answered, KeptIsWhole, NothingSwallowed,
       Broken, GivenUp, LostBefore
  <2> QED
    BY <2>3, <2>4, <2>5, <2>6, <2>7 DEF IInv
<1>3. ASSUME \/ \E code \in {"300", "310"} : Hears(code)
             \/ HearsNothing,
             told' = [told EXCEPT ![cur] = "failed"], Next_form
      PROVE  IInv'
  <2>1. s2c' = <<>> /\ (Off' \/ TalkIdle')
    <3>1. CASE Off
      <4>1. Broken' \/ LostBefore(cur)'
        BY <1>1, <1>3, <3>1, ToldOnce, LostGoesOn DEF IInv, Off, Next_form
      <4> QED
        BY <1>1, <1>3, <3>1, <4>1 DEF Off, Hears, HearsNothing
    <3>2. CASE ~Off
      <4>1. TalkAsk
        BY <1>1, <3>2 DEF IInv, Talk
      <4>2. s2c = <<"310">> /\ Idle /\ link = "up"
        <5>1. s2c # <<>>
          BY <1>3, <4>1, Heard DEF TalkAsk, HearsNothing
        <5>2. s2c # <<"500">> /\ s2c # <<"500", "500">> /\ s2c # <<"500", "300">>
          BY <1>3, Heard, AnswerFacts
        <5> QED
          BY <4>1, <5>1, <5>2 DEF TalkAsk
      <4>3. s2c' = <<>>
        BY <1>3, <4>2, Heard, AnswerFacts
      <4> QED
        BY <1>1, <4>2, <4>3 DEF TalkIdle, Idle, Broken, GivenUp, LostBefore
    <3> QED
      BY <3>1, <3>2
  <2>2. Stream'
    BY <1>1, <1>3 DEF IInv, TypeOK, Stream, Binary
  <2> QED
    BY <1>1, <1>3, <2>1, <2>2, PhotoEnds
<1> QED
  BY <1>2, <1>3 DEF MaySend

\* PhotoAnswered: the second answer, after the bytes.
LEMMA PhotoAnsweredInv == ASSUME ImageAssumption, IInv, PhotoAnswered PROVE IInv'
<1>1. /\ UNCHANGED <<photo, accepting, left, spc, name, nleft, i, image, c2s, link,
                     formok, swallowed, mishap>>
      /\ cpc = "wait" /\ Next_form
  BY DEF PhotoAnswered, config, server
<1>2. spc = "ended" => c2s = <<>>
  BY DEF IInv, Stream
<1>3. \/ Hears("500") /\ told' = [told EXCEPT ![cur] = "kept"]
      \/ /\ \/ \E code \in {"300", "310"} : Hears(code)
            \/ HearsNothing
         /\ told' = [told EXCEPT ![cur] = "failed"]
  BY DEF PhotoAnswered
<1>4. CASE Off
  <2>1. HearsNothing /\ told' = [told EXCEPT ![cur] = "failed"] /\ s2c' = <<>>
    BY <1>3, <1>4 DEF Off, Hears, HearsNothing
  <2>2. Off' /\ Stream'
    <3>1. Broken' \/ LostBefore(cur)'
      BY <1>1, <1>4, <2>1, ToldOnce, LostGoesOn DEF IInv, Off, Next_form
    <3>2. Off'
      BY <1>1, <1>4, <2>1, <3>1 DEF Off
    <3>3. told' \in [Forms -> {"nothing", "kept", "failed"}]
          /\ \A f \in Forms : told'[f] = "kept" => told[f] = "kept"
      BY <2>1 DEF IInv, TypeOK, Course, Forms
    <3>4. Stream'
      BY <1>1, <3>3 DEF IInv, Stream, Binary
    <3> QED
      BY <3>2, <3>4
  <2> QED
    BY <1>1, <2>1, <2>2, PhotoEnds
<1>5. CASE ~Off
  <2>1. TalkPhoto
    BY <1>1, <1>5 DEF IInv, Talk
  <2>2. \/ s2c = <<"500">> /\ Whole
        \/ s2c = <<"300">> /\ Failed
    BY <1>3, <2>1 DEF TalkPhoto, Receiving, Hears, HearsNothing
  <2>3. s2c' = <<>>
    BY <1>3, <2>2, AnswerFacts DEF Hears, HearsNothing
  <2>4. Off' \/ TalkIdle'
    <3>1. CASE c2s = <<>> /\ spc = "cmd"
      BY <1>1, <2>1, <2>3, <3>1 DEF TalkIdle, TalkPhoto, Idle
    <3>2. ASSUME Failed, ~Broken, s2c = <<"300">>, c2s # <<>> \/ spc = "ended"
          PROVE  LostBefore(cur)'
      <4>1. photo[cur] > 0 /\ (image[cur] # NoPhoto \/ "create" \in mishap)
        BY <3>2 DEF Failed
      <4>2. told' = [told EXCEPT ![cur] = "failed"]
        <5>1. ~Hears("500")
          BY <3>2, AnswerFacts DEF Hears
        <5> QED
          BY <1>3, <5>1
      <4>3. PICK g \in Forms : g = cur
        BY <1>1 DEF IInv, TypeOK, Course, Forms, ImageAssumption
      <4>4. told'[g] = "failed"
        BY <4>2, <4>3 DEF IInv, TypeOK
      <4>5. g < cur'
        BY <1>1, <4>3 DEF Next_form, Forms
      <4>6. GivenUp(g)'
        BY <1>1, <4>1, <4>3, <4>4 DEF GivenUp
      <4> QED
        BY <4>5, <4>6 DEF LostBefore
    <3>3. CASE c2s # <<>> \/ spc = "ended"
      <4>1. c2s # <<>> => Head(c2s) = Unit
        BY <2>2, FirstUnit DEF Whole, Failed, IInv, TypeOK
      <4>2. Whole => Broken
        BY <3>3 DEF Whole, Grown, Broken
      <4>3. Broken => Broken'
        BY <1>1 DEF Broken
      <4>4. Broken' \/ LostBefore(cur)'
        BY <2>2, <3>2, <3>3, <4>2, <4>3
      <4>5. c2s # <<>> => spc = "cmd"
        BY <1>2, <2>2 DEF Whole, Failed
      <4> QED
        BY <1>1, <2>3, <3>3, <4>1, <4>4, <4>5 DEF Off
    <3> QED
      BY <2>2, <3>1, <3>3 DEF Whole, Failed
  <2>7. Stream'
    <3>1. AllUnits(c2s) /\ spc \in {"cmd", "ended"}
      BY <2>2 DEF Whole, Failed
    <3>2. c2s # <<>> => Head(c2s) = Unit
      BY <3>1, FirstUnit DEF IInv, TypeOK
    <3> QED
      BY <1>1, <1>2, <3>1, <3>2 DEF Stream
  <2>5. CASE s2c = <<"500">> /\ Whole
    <3>1. told' = [told EXCEPT ![cur] = "kept"]
      BY <1>3, <2>5, AnswerFacts DEF Hears, HearsNothing
    <3>2. spc # "image" /\ (~Grown => image[cur] = photo[cur])
      BY <2>5 DEF Whole
    <3> QED
      BY <1>1, <2>7, <2>3, <2>4, <3>1, <3>2, PhotoEnds
  <2>6. CASE s2c = <<"300">> /\ Failed
    <3>1. told' = [told EXCEPT ![cur] = "failed"]
      BY <1>3, <2>6, AnswerFacts DEF Hears, HearsNothing
    <3> QED
      BY <1>1, <2>7, <2>3, <2>4, <3>1, PhotoEnds
  <2> QED
    BY <2>2, <2>5, <2>6
<1> QED
  BY <1>4, <1>5

\* SendBytes: units are added to those on their way, or the loop is left.
LEMMA SendBytesInv == ASSUME ImageAssumption, IInv, SendBytes PROVE IInv'
<1>1. /\ UNCHANGED <<photo, accepting, cur, spc, name, nleft, i, image, s2c, link,
                     formok, told, swallowed, mishap>>
      /\ cpc = "bytes" /\ cpc' \in {"bytes", "wait"}
  BY DEF SendBytes, config, server, hist
<1>2. Course' /\ Answered' /\ KeptIsWhole' /\ NothingSwallowed'
  BY <1>1 DEF IInv, Course, Answered, KeptIsWhole, NothingSwallowed,
     Broken, GivenUp, LostBefore
<1>3. CASE /\ left > 0 /\ cpc' = cpc
           /\ LET n == Smaller(left, Chunk) IN Send(Units(n)) /\ left' = left - n
  <2> DEFINE n == Smaller(left, Chunk)
  <2>1. n \in Nat /\ n > 0 /\ left' = left - n /\ left' \in Nat /\ Send(Units(n))
    BY <1>3 DEF IInv, TypeOK, Smaller, ImageAssumption
  <2> HIDE DEF n
  <2>2. /\ c2s \in Seq(Items) /\ Units(n) \in Seq(Items)
        /\ c2s \o Units(n) \in Seq(Items)
        /\ Len(c2s \o Units(n)) = Len(c2s) + n
        /\ AllUnits(c2s) => AllUnits(c2s \o Units(n))
    BY <2>1, AddUnits, ItemFacts DEF IInv, TypeOK, Units
  <2>3. CASE Off
    <3>1. c2s' \in Seq(Items) /\ Stream' /\ Off'
      BY <1>1, <2>1, <2>2, <2>3, SendOff DEF IInv
    <3>2. TypeOK'
      BY <1>1, <1>3, <2>1, <3>1 DEF IInv, TypeOK
    <3>3. Talk'
      BY <1>1, <1>3, <3>1 DEF Talk
    <3> QED
      BY <1>2, <3>1, <3>2, <3>3 DEF IInv
  <2>4. CASE ~Off
    <3>1. TalkPhoto
      BY <1>1, <2>4 DEF IInv, Talk
    <3>2. /\ link = "up" /\ AllUnits(c2s)
          /\ c2s' = IF spc # "ended" THEN c2s \o Units(n) ELSE c2s
      BY <2>1, <3>1 DEF TalkPhoto, Receiving, Whole, Failed, Send
    <3>3. c2s' \in Seq(Items) /\ AllUnits(c2s')
      BY <2>2, <3>2
    <3>4. TypeOK'
      BY <1>1, <1>3, <2>1, <3>3 DEF IInv, TypeOK
    <3>5. Stream'
      <4>1. c2s' # <<>> => Head(c2s') = Unit
        BY <3>3, FirstUnit
      <4> QED
        BY <1>1, <3>2, <3>3, <4>1 DEF IInv, Stream
    <3>6. TalkPhoto'
      <4>1. CASE s2c = <<>> /\ Receiving
        <5>1. Receiving'
          <6>1. Len(c2s') = Len(c2s) + n /\ Len(c2s) \in Nat
            BY <2>2, <3>2, <4>1 DEF Receiving, IInv, TypeOK
          <6>2. ~Grown => Len(c2s) + left = nleft
            BY <4>1 DEF Receiving
          <6>3. left \in Nat /\ n \in Nat /\ left' = left - n
            BY <2>1 DEF IInv, TypeOK
          <6>4. ~Grown => Len(c2s') + left' = nleft
            BY <6>1, <6>2, <6>3
          <6> QED
            BY <1>1, <3>3, <4>1, <6>4 DEF Receiving, Grown
        <5> QED
          BY <1>1, <3>2, <4>1, <5>1 DEF TalkPhoto
      <4>2. CASE s2c = <<"500">> /\ Whole
        <5>1. Grown
          BY <1>3, <4>2 DEF Whole, IInv, TypeOK
        <5>2. Whole'
          BY <1>1, <3>3, <4>2, <5>1 DEF Whole, Grown, Broken, GivenUp, LostBefore
        <5> QED
          BY <1>1, <3>2, <4>2, <5>2 DEF TalkPhoto
      <4>3. CASE s2c = <<"300">> /\ Failed
        <5>1. \/ Broken
              \/ photo[cur] > 0 /\ (image[cur] # NoPhoto \/ "create" \in mishap)
          BY <1>3, <4>3 DEF Failed, IInv, TypeOK
        <5>2. Failed'
          BY <1>1, <3>3, <4>3, <5>1 DEF Failed, Broken
        <5> QED
          BY <1>1, <3>2, <4>3, <5>2 DEF TalkPhoto
      <4> QED
        BY <3>1, <4>1, <4>2, <4>3 DEF TalkPhoto
    <3>7. Talk'
      BY <1>1, <1>3, <3>6 DEF Talk
    <3> QED
      BY <1>2, <3>4, <3>5, <3>7 DEF IInv
  <2> QED
    BY <2>3, <2>4
<1>4. CASE /\ left = 0 \/ spc = "ended" \/ link = "cut"
           /\ cpc' = "wait" /\ UNCHANGED <<c2s, left>>
  <2>1. TypeOK'
    BY <1>1, <1>4 DEF IInv, TypeOK
  <2>2. Stream'
    BY <1>1, <1>4 DEF IInv, Stream, Binary
  <2>3. Talk'
    BY <1>1, <1>4 DEF IInv, Talk, TalkPhoto, Receiving, Whole, Failed, Grown, Off,
       Broken, GivenUp, LostBefore
  <2> QED
    BY <1>2, <2>1, <2>2, <2>3 DEF IInv
<1> QED
  BY <1>3, <1>4 DEF SendBytes

\* When the connection is cut no answer gets through any more.
LEMMA CutTalk ==
    ASSUME IInv, link = "cut", UNCHANGED <<cpc, link, s2c>>, mishap \subseteq mishap'
    PROVE  Talk' /\ Off'
BY DEF IInv, Course, Talk, Off, Broken, GivenUp, LostBefore

\* What the server leaves alone stays true.
LEMMA ServerKeeps ==
    ASSUME IInv, UNCHANGED <<photo, cpc, cur, link, formok, told>>, mishap \subseteq mishap',
           s2c' = <<>> \/ link # "cut",
           \A f \in Forms : image[f] # NoPhoto => image'[f] # NoPhoto,
           spc' = "image" => /\ name' \in Forms /\ told[name'] # "kept"
                             /\ image'[name'] \in Nat
    PROVE  Course' /\ Answered'
<1>1. Course'
  BY DEF IInv, Course, Broken, GivenUp, LostBefore
<1>2. Answered'
  <2>1. /\ Broken => Broken'
        /\ \A f \in Forms : LostBefore(f) => \E g \in Forms : g < f /\ GivenUp(g)'
    BY StillLost
  <2> QED
    BY <2>1 DEF IInv, Answered, LostBefore
<1> QED
  BY <1>1, <1>2

\* A line that the server takes is the one that the client waits for, or the
\* connection is cut.
LEMMA LineTaken ==
    ASSUME IInv, spc = "cmd", c2s # <<>>, Head(c2s) # Unit
    PROVE  \/ Off /\ link = "cut"
           \/ /\ link = "up" /\ s2c = <<>> /\ ~Off
              /\ \/ cpc = "answer" /\ c2s = <<Form>>
                 \/ cpc = "ask" /\ c2s = <<Binary(cur)>> /\ (~Grown => left = photo[cur])
<1>1. CASE Off
  BY <1>1 DEF Off
<1>2. CASE ~Off
  <2>1. ~AllUnits(c2s)
    BY FirstUnit DEF IInv, TypeOK
  <2>2. CASE cpc = "answer"
    BY <1>2, <2>2 DEF IInv, Talk, TalkForm, Idle
  <2>3. CASE cpc = "ask"
    BY <1>2, <2>1, <2>3 DEF IInv, Talk, TalkAsk, Idle, Receiving, Whole, Failed
  <2>4. cpc \notin {"form", "photo", "done"}
    BY <1>2 DEF IInv, Talk, TalkIdle, Idle
  <2>5. cpc \notin {"bytes", "wait"}
    BY <1>2, <2>1 DEF IInv, Talk, TalkPhoto, Receiving, Whole, Failed
  <2> QED
    BY <1>2, <2>2, <2>3, <2>4, <2>5 DEF IInv, TypeOK
<1> QED
  BY <1>1, <1>2

\* A line that is taken was the only item.
LEMMA OneLine ==
    ASSUME IInv, spc = "cmd", c2s # <<>>, Head(c2s) # Unit
    PROVE  /\ Tail(c2s) = <<>> /\ c2s = <<Head(c2s)>>
           /\ \/ Head(c2s) = Form
              \/ \E f \in Forms : /\ Head(c2s) = Binary(f)
                                  /\ photo[f] \in Sizes /\ told[f] # "kept"
<1>1. \/ c2s = <<Form>>
      \/ \E f \in Forms : /\ c2s = <<Binary(f)>>
                          /\ photo[f] \in Sizes /\ told[f] # "kept"
  BY DEF IInv, Stream
<1>2. ASSUME NEW a, c2s = <<a>>
      PROVE  Tail(c2s) = <<>> /\ Head(c2s) = a
  BY <1>2, OneItem
<1> QED
  BY <1>1, <1>2

\* Types of what the server changes.
LEMMA ServerType ==
    ASSUME TypeOK, UNCHANGED <<photo, accepting, cpc, cur, left, formok, told>>,
           c2s' \in Seq(Items),
           \/ s2c' = s2c \/ s2c' = <<>>
           \/ \E a \in Codes : s2c' = <<a>>
           \/ \E a, b \in Codes : s2c' = <<a, b>>,
           spc' \in {"cmd", "image", "ended"}, link' \in {"up", "cut"},
           name' \in 0..NForms, nleft' \in 0..(Width - 1), i' \in {0, BufSize},
           image' \in [Forms -> Nat \cup {NoPhoto}], swallowed' \in BOOLEAN,
           mishap' \subseteq Faults \cup {"small"}
    PROVE  TypeOK'
<1>2. ASSUME NEW t \in Seq(Codes), Len(t) <= 2, s2c' = t PROVE TypeOK'
  BY <1>2 DEF TypeOK
<1>1. CASE s2c' = s2c \/ s2c' = <<>>
  <2>1. s2c \in Seq(Codes) /\ Len(s2c) <= 2
    BY DEF TypeOK
  <2>2. <<>> \in Seq(Codes) /\ Len(<<>>) <= 2
    BY AnswerFacts
  <2> QED
    BY <1>1, <1>2, <2>1, <2>2
<1>3. ASSUME NEW a \in Codes, s2c' = <<a>> PROVE TypeOK'
  <2>1. <<a>> \in Seq(Codes) /\ Len(<<a>>) <= 2
    BY AnswerFacts
  <2> QED
    BY <1>2, <1>3, <2>1
<1>4. ASSUME NEW a \in Codes, NEW b \in Codes, s2c' = <<a, b>> PROVE TypeOK'
  <2>1. <<a, b>> \in Seq(Codes) /\ Len(<<a, b>>) <= 2
    BY AnswerFacts
  <2> QED
    BY <1>2, <1>4, <2>1
<1> QED
  BY <1>1, <1>3, <1>4

\* ServerForm: the form is answered.
LEMMA ServerFormInv == ASSUME ImageAssumption, IInv, ServerForm PROVE IInv'
<1>1. /\ UNCHANGED <<photo, accepting, cpc, cur, left, spc, name, nleft, i, image, link,
                     formok, told, swallowed, mishap>>
      /\ spc = "cmd" /\ c2s # <<>> /\ Head(c2s) = Form /\ Reply("500")
  BY DEF ServerForm, config, client, server, hist
<1>2. c2s' = <<>>
  BY <1>1, OneLine, ItemFacts DEF ServerForm
<1>3. \/ Off /\ link = "cut" /\ s2c' = s2c /\ s2c = <<>>
      \/ link = "up" /\ s2c' = <<"500">> /\ cpc = "answer"
  <2>1. CASE Off /\ link = "cut"
    BY <1>1, <2>1 DEF Reply, Off
  <2>2. CASE link = "up" /\ s2c = <<>> /\ ~Off
    <3>1. c2s # <<Binary(cur)>>
      BY <1>1, OneItem, ItemFacts DEF Binary
    <3> QED
      BY <1>1, <2>2, <3>1, LineTaken, AnswerFacts, ItemFacts DEF Reply
  <2> QED
    BY <1>1, <2>1, <2>2, LineTaken, ItemFacts
<1>4. TypeOK'
  <2>1. s2c' = s2c \/ (\E a \in Codes : s2c' = <<a>>) \/ (\E a, b \in Codes : s2c' = <<a, b>>)
    BY <1>3, AnswerFacts
  <2>3. c2s' \in Seq(Items)
    BY <1>2
  <2>2. /\ mishap' \subseteq Faults \cup {"small"}
        /\ spc \in {"cmd", "image", "ended"} /\ link \in {"up", "cut"}
        /\ name \in 0..NForms /\ nleft \in 0..(Width - 1) /\ i \in {0, BufSize}
        /\ image \in [Forms -> Nat \cup {NoPhoto}] /\ swallowed \in BOOLEAN
    BY <1>1, <1>2 DEF IInv, TypeOK
  <2> QED
    BY <1>1, <2>1, <2>2, <2>3, ServerType DEF IInv
<1>5. Stream'
  BY <1>1, <1>2 DEF Stream
<1>6. Talk'
  <2>1. CASE link = "cut"
    BY <1>1, <1>3, <2>1, CutTalk
  <2>2. CASE link = "up"
    BY <1>1, <1>2, <1>3, <2>2 DEF Talk, TalkForm, Idle
  <2> QED
    BY <2>1, <2>2 DEF IInv, TypeOK
<1>7. Course' /\ Answered'
  BY <1>1, <1>3, ServerKeeps
<1>8. KeptIsWhole' /\ NothingSwallowed'
  BY <1>1 DEF IInv, KeptIsWhole, NothingSwallowed
<1> QED
  BY <1>4, <1>5, <1>6, <1>7, <1>8 DEF IInv

\* What is announced is the photo of a form that has not been answered yet.
LEMMA AnnouncedFacts ==
    ASSUME IInv, Announced
    PROVE  /\ spc = "cmd" /\ c2s # <<>> /\ Tail(c2s) = <<>> /\ c2s # <<Form>>
           /\ Head(c2s) # Unit
           /\ \E f \in Forms : /\ Head(c2s) = Binary(f) /\ c2s = <<Binary(f)>>
                               /\ Head(c2s)[2] = f /\ Head(c2s)[3] = photo[f]
                               /\ photo[f] \in Sizes /\ told[f] # "kept"
                               /\ c2s = <<Binary(cur)>> => f = cur
<1>1. spc = "cmd" /\ c2s # <<>> /\ Head(c2s) # Unit /\ Head(c2s) # Form
  BY ItemFacts DEF Announced
<1>2. PICK f \in Forms : Head(c2s) = Binary(f) /\ photo[f] \in Sizes /\ told[f] # "kept"
  BY <1>1, OneLine
<1>3. Tail(c2s) = <<>> /\ c2s = <<Binary(f)>> /\ c2s # <<Form>>
  BY <1>1, <1>2, OneLine, OneItem
<1>4. Head(c2s)[2] = f /\ Head(c2s)[3] = photo[f]
  BY <1>2, ItemFacts DEF Binary
<1>5. c2s = <<Binary(cur)>> => f = cur
  <2>1. c2s = <<Binary(cur)>> => Head(c2s) = Binary(cur)
    BY OneItem
  <2> QED
    BY <1>4, <2>1, ItemFacts DEF Binary
<1> QED
  BY <1>1, <1>2, <1>3, <1>4, <1>5

\* ImageRefused: 310 ends the photo's transfer.
LEMMA ImageRefusedInv == ASSUME ImageAssumption, IInv, ImageRefused PROVE IInv'
<1>1. /\ UNCHANGED <<photo, accepting, cpc, cur, left, spc, name, nleft, i, image, link,
                     formok, told, swallowed, mishap>>
      /\ Announced /\ c2s' = Tail(c2s) /\ Reply("310")
  BY DEF ImageRefused, config, client, server, hist
<1>2. c2s' = <<>> /\ spc = "cmd"
  BY <1>1, AnnouncedFacts
<1>3. \/ Off /\ link = "cut" /\ s2c' = s2c /\ s2c = <<>>
      \/ link = "up" /\ s2c' = <<"310">> /\ cpc = "ask"
  <2>1. CASE Off /\ link = "cut"
    BY <1>1, <2>1 DEF Reply, Off
  <2>2. CASE link = "up" /\ s2c = <<>> /\ cpc = "ask"
    BY <1>1, <2>2, AnswerFacts DEF Reply
  <2> QED
    BY <1>1, <2>1, <2>2, LineTaken, AnnouncedFacts
<1>4. TypeOK'
  <2>1. s2c' = s2c \/ (\E a \in Codes : s2c' = <<a>>) \/ (\E a, b \in Codes : s2c' = <<a, b>>)
    BY <1>3, AnswerFacts
  <2>3. c2s' \in Seq(Items)
    BY <1>2
  <2>2. /\ mishap' \subseteq Faults \cup {"small"}
        /\ spc \in {"cmd", "image", "ended"} /\ link \in {"up", "cut"}
        /\ name \in 0..NForms /\ nleft \in 0..(Width - 1) /\ i \in {0, BufSize}
        /\ image \in [Forms -> Nat \cup {NoPhoto}] /\ swallowed \in BOOLEAN
    BY <1>1, <1>2 DEF IInv, TypeOK
  <2> QED
    BY <1>1, <2>1, <2>2, <2>3, ServerType DEF IInv
<1>5. Stream'
  BY <1>1, <1>2 DEF Stream
<1>6. Talk'
  <2>1. CASE link = "cut"
    BY <1>1, <1>3, <2>1, CutTalk
  <2>2. CASE link = "up"
    BY <1>1, <1>2, <1>3, <2>2 DEF Talk, TalkAsk, Idle
  <2> QED
    BY <2>1, <2>2 DEF IInv, TypeOK
<1>7. Course' /\ Answered'
  BY <1>1, <1>2, <1>3, ServerKeeps
<1>8. KeptIsWhole' /\ NothingSwallowed'
  BY <1>1 DEF IInv, KeptIsWhole, NothingSwallowed
<1> QED
  BY <1>4, <1>5, <1>6, <1>7, <1>8 DEF IInv

\* ImageAccepted: the server expects as many units as the client has to send.
LEMMA ImageAcceptedInv == ASSUME ImageAssumption, IInv, ImageAccepted PROVE IInv'
<1>1. /\ UNCHANGED <<photo, accepting, cpc, cur, left, link, formok, told, swallowed, mishap>>
      /\ Announced /\ c2s' = Tail(c2s) /\ Reply("500") /\ spc' = "image" /\ i' = 0
  BY DEF ImageAccepted, config, client, hist
<1>2. PICK f \in Forms : /\ c2s = <<Binary(f)>> /\ photo[f] \in Sizes /\ told[f] # "kept"
                         /\ name' = f /\ nleft' = photo[f]
                         /\ image' = [image EXCEPT ![f] = 0]
                         /\ c2s = <<Binary(cur)>> => f = cur
  <2>1. PICK f \in Forms : /\ c2s = <<Binary(f)>> /\ photo[f] \in Sizes /\ told[f] # "kept"
                           /\ Head(c2s)[2] = f /\ Head(c2s)[3] = photo[f]
                           /\ c2s = <<Binary(cur)>> => f = cur
    BY <1>1, AnnouncedFacts
  <2>2. /\ name' = Head(c2s)[2] /\ nleft' = Head(c2s)[3]
        /\ image' = [image EXCEPT ![Head(c2s)[2]] = 0]
    BY DEF ImageAccepted
  <2> QED
    BY <2>1, <2>2
<1>3. c2s' = <<>>
  BY <1>1, AnnouncedFacts
<1>4. /\ nleft' \in 0..(Width - 1) /\ nleft' \in Nat /\ name' \in 0..NForms
      /\ image' \in [Forms -> Nat \cup {NoPhoto}] /\ image'[f] = 0
  BY <1>2 DEF IInv, TypeOK, ImageAssumption, Forms
<1>5. \/ Off /\ link = "cut" /\ s2c' = s2c /\ s2c = <<>>
      \/ /\ link = "up" /\ s2c' = <<"500">> /\ cpc = "ask" /\ f = cur
         /\ ~Grown => left = photo[cur]
  <2>1. CASE Off /\ link = "cut"
    BY <1>1, <2>1 DEF Reply, Off
  <2>2. CASE /\ link = "up" /\ s2c = <<>> /\ cpc = "ask" /\ c2s = <<Binary(cur)>>
             /\ ~Grown => left = photo[cur]
    BY <1>1, <1>2, <2>2, AnswerFacts DEF Reply
  <2> QED
    BY <1>1, <2>1, <2>2, LineTaken, AnnouncedFacts
<1>6. TypeOK'
  <2>1. s2c' = s2c \/ (\E a \in Codes : s2c' = <<a>>)
    BY <1>5, AnswerFacts
  <2>3. c2s' \in Seq(Items)
    BY <1>3
  <2>2. /\ mishap' \subseteq Faults \cup {"small"}
        /\ link \in {"up", "cut"} /\ i' \in {0, BufSize} /\ swallowed \in BOOLEAN
    BY <1>1, <1>3 DEF IInv, TypeOK
  <2> QED
    BY <1>1, <1>4, <2>1, <2>2, <2>3, ServerType DEF IInv
<1>7. AllUnits(c2s') /\ Len(c2s') = 0
  BY <1>3 DEF AllUnits
<1>8. Stream'
  BY <1>1, <1>7 DEF Stream
<1>9. Talk'
  <2>1. CASE link = "cut"
    BY <1>1, <1>5, <2>1, CutTalk
  <2>2. CASE link = "up"
    <3>1. Receiving'
      BY <1>1, <1>2, <1>4, <1>5, <1>7, <2>2 DEF Receiving, Grown
    <3> QED
      BY <1>1, <1>5, <2>2, <3>1 DEF Talk, TalkAsk
  <2> QED
    BY <2>1, <2>2 DEF IInv, TypeOK
<1>10. Course' /\ Answered'
  <2>1. \A g \in Forms : image[g] # NoPhoto => image'[g] # NoPhoto
    BY <1>2 DEF IInv, TypeOK, ImageAssumption
  <2> QED
    BY <1>1, <1>2, <1>4, <1>5, <2>1, ServerKeeps
<1>11. KeptIsWhole' /\ NothingSwallowed'
  BY <1>1, <1>2 DEF IInv, TypeOK, KeptIsWhole, NothingSwallowed
<1> QED
  BY <1>6, <1>8, <1>9, <1>10, <1>11 DEF IInv

\* ImageNotCreated: 500 and 300 in a row.
LEMMA ImageNotCreatedInv == ASSUME ImageAssumption, IInv, ImageNotCreated PROVE IInv'
<1>1. /\ UNCHANGED <<photo, accepting, cpc, cur, left, spc, name, nleft, i, image, link,
                     formok, told, swallowed>>
      /\ Announced /\ c2s' = Tail(c2s) /\ mishap' = mishap \cup {"create"}
      /\ s2c' = IF link = "up" THEN s2c \o <<"500", "300">> ELSE s2c
      /\ "create" \in Faults
  BY DEF ImageNotCreated, config, client, server
<1>2. c2s' = <<>> /\ spc = "cmd" /\ AllUnits(c2s')
  BY <1>1, AnnouncedFacts DEF AllUnits
<1>3. \/ Off /\ link = "cut" /\ s2c' = s2c /\ s2c = <<>>
      \/ link = "up" /\ s2c' = <<"500", "300">> /\ cpc = "ask"
  <2>1. CASE Off /\ link = "cut"
    BY <1>1, <2>1 DEF Off
  <2>2. CASE link = "up" /\ s2c = <<>> /\ cpc = "ask"
    BY <1>1, <2>2, AnswerFacts
  <2> QED
    BY <1>1, <2>1, <2>2, LineTaken, AnnouncedFacts
<1>4. TypeOK'
  <2>1. s2c' = s2c \/ (\E a \in Codes : s2c' = <<a>>) \/ (\E a, b \in Codes : s2c' = <<a, b>>)
    BY <1>3, AnswerFacts
  <2>3. c2s' \in Seq(Items)
    BY <1>2
  <2>2. /\ mishap' \subseteq Faults \cup {"small"}
        /\ spc \in {"cmd", "image", "ended"} /\ link \in {"up", "cut"}
        /\ name \in 0..NForms /\ nleft \in 0..(Width - 1) /\ i \in {0, BufSize}
        /\ image \in [Forms -> Nat \cup {NoPhoto}] /\ swallowed \in BOOLEAN
    BY <1>1, <1>2 DEF IInv, TypeOK
  <2> QED
    BY <1>1, <2>1, <2>2, <2>3, ServerType DEF IInv
<1>5. Stream'
  BY <1>1, <1>2 DEF Stream
<1>6. Talk'
  <2>1. CASE link = "cut"
    BY <1>1, <1>3, <2>1, CutTalk
  <2>2. CASE link = "up"
    <3>1. Broken => Broken'
      BY <1>1 DEF Broken
    <3>2. photo[cur] \in Nat /\ (~Broken => left = photo[cur])
      <4>1. photo[cur] \in Sizes
        BY <1>3, <2>2 DEF IInv, Course
      <4>2. ~Grown => left = photo[cur]
        BY <1>1, <2>2, LineTaken, AnnouncedFacts
      <4> QED
        BY <1>1, <2>2, <4>1, <4>2 DEF ImageAssumption, Grown, Broken
    <3>3. Failed'
      BY <1>1, <1>2, <3>1, <3>2 DEF Failed
    <3> QED
      BY <1>1, <1>3, <2>2, <3>3 DEF Talk, TalkAsk
  <2> QED
    BY <2>1, <2>2 DEF IInv, TypeOK
<1>7. Course' /\ Answered'
  BY <1>1, <1>2, <1>3, ServerKeeps
<1>8. KeptIsWhole' /\ NothingSwallowed'
  BY <1>1 DEF IInv, KeptIsWhole, NothingSwallowed
<1> QED
  BY <1>4, <1>5, <1>6, <1>7, <1>8 DEF IInv

\* While an image is received, the client sends it, or the connection is cut.
LEMMA WhileReceiving ==
    ASSUME IInv, spc = "image"
    PROVE  \/ link = "cut" /\ Off
           \/ /\ link = "up" /\ ~Off /\ Receiving
              /\ \/ cpc = "ask" /\ s2c = <<"500">>
                 \/ cpc \in {"bytes", "wait"} /\ s2c = <<>>
<1>1. CASE Off
  BY <1>1 DEF Off, IInv, TypeOK
<1>2. CASE ~Off
  <2>1. cpc \notin {"form", "photo", "done", "answer"}
    BY <1>2 DEF IInv, Talk, TalkIdle, TalkForm, Idle
  <2>2. cpc = "ask" => link = "up" /\ s2c = <<"500">> /\ Receiving
    BY <1>2 DEF IInv, Talk, TalkAsk, Idle, Whole, Failed
  <2>3. cpc \in {"bytes", "wait"} => link = "up" /\ s2c = <<>> /\ Receiving
    BY <1>2 DEF IInv, Talk, TalkPhoto, Whole, Failed
  <2> QED
    BY <1>2, <2>1, <2>2, <2>3 DEF IInv, TypeOK
<1> QED
  BY <1>1, <1>2

\* Units taken from the image that is on its way.
LEMMA UnitsTaken ==
    ASSUME ImageAssumption, IInv, spc = "image", NEW k \in 1..Smaller(AskFor, Len(c2s)),
           c2s' = SubSeq(c2s, k + 1, Len(c2s))
    PROVE  /\ k \in Nat /\ k > 0 /\ k <= Len(c2s) /\ Len(c2s) \in Nat
           /\ c2s' \in Seq(Items) /\ Len(c2s') = Len(c2s) - k
           /\ AllUnits(c2s) /\ AllUnits(c2s')
<1>1. c2s \in Seq(Items) /\ AskFor \in Nat
  BY DEF IInv, TypeOK, AskFor, ImageAssumption
<1>2. Len(c2s) \in Nat
  BY <1>1
<1>3. k \in Nat /\ k > 0 /\ k <= Len(c2s)
  BY <1>1, <1>2 DEF Smaller
<1>4. AllUnits(c2s)
  BY DEF IInv, Stream
<1> QED
  BY <1>1, <1>2, <1>3, <1>4, TakeUnits

\* A count in a size_t, and one that does not go below zero.
LEMMA CountedModulo ==
    ASSUME NEW w \in Nat \ {0}, NEW a \in Int
    PROVE  a % w \in 0..(w - 1) /\ (a \in 0..(w - 1) => a % w = a)
OBVIOUS

\* ReadImage: as much more is in the file as less is expected.
LEMMA ReadImageInv == ASSUME ImageAssumption, IInv, ReadImage PROVE IInv'
<1>1. /\ UNCHANGED <<photo, accepting, cpc, cur, left, spc, name, s2c, link, formok, told,
                     mishap>>
      /\ spc = "image" /\ i' = AskFor
  BY DEF ReadImage, config, client
<1>2. PICK k \in 1..Smaller(AskFor, Len(c2s)) :
          /\ c2s' = SubSeq(c2s, k + 1, Len(c2s))
          /\ image' = [image EXCEPT ![name] = @ + k]
          /\ nleft' = (nleft - k) % Width
          /\ swallowed' = (swallowed \/ \E j \in 1..k : c2s[j] # Unit)
  BY DEF ReadImage
<1>3. /\ k \in Nat /\ k > 0 /\ k <= Len(c2s) /\ Len(c2s) \in Nat
      /\ c2s' \in Seq(Items) /\ Len(c2s') = Len(c2s) - k
      /\ AllUnits(c2s) /\ AllUnits(c2s')
  BY <1>1, <1>2, UnitsTaken
<1>4. /\ name \in Forms /\ told[name] # "kept" /\ image[name] \in Nat
      /\ image' \in [Forms -> Nat \cup {NoPhoto}] /\ image'[name] = image[name] + k
      /\ \A f \in Forms : f # name => image'[f] = image[f]
  <2>1. name \in Forms /\ told[name] # "kept" /\ image[name] \in Nat
    BY <1>1 DEF IInv, Course
  <2>2. image \in [Forms -> Nat \cup {NoPhoto}] /\ image[name] + k \in Nat
    BY <1>3, <2>1 DEF IInv, TypeOK
  <2> QED
    BY <1>2, <2>1, <2>2
<1>5. /\ nleft \in 0..(Width - 1) /\ nleft' \in 0..(Width - 1)
      /\ k <= nleft => nleft' = nleft - k
  <2>1. nleft \in 0..(Width - 1) /\ Width \in Nat \ {0}
    BY DEF IInv, TypeOK, ImageAssumption
  <2>2. PICK a \in Int : a = nleft - k /\ nleft' = a % Width
    BY <1>2, <1>3, <2>1
  <2>3. nleft' \in 0..(Width - 1) /\ (a \in 0..(Width - 1) => nleft' = a)
    BY <2>1, <2>2, CountedModulo
  <2>4. k <= nleft => a \in 0..(Width - 1)
    BY <1>3, <2>1, <2>2
  <2> QED
    BY <2>1, <2>2, <2>3, <2>4
<1>6. swallowed' = FALSE
  BY <1>2, <1>3 DEF AllUnits, IInv, NothingSwallowed, TypeOK
<1>7. TypeOK'
  <2>1. i' \in {0, BufSize}
    BY <1>1 DEF AskFor, IInv, TypeOK
  <2> QED
    BY <1>1, <1>3, <1>4, <1>5, <1>6, <2>1 DEF IInv, TypeOK
<1>8. Stream'
  BY <1>1, <1>3 DEF Stream
<1>9. Talk'
  <2>1. CASE link = "cut"
    BY <1>1, <2>1, CutTalk
  <2>2. CASE link = "up"
    <3>1. Receiving
      BY <1>1, <2>2, WhileReceiving
    <3>2. ~Grown => k <= nleft /\ Len(c2s') + left = nleft'
      BY <1>3, <1>5, <3>1 DEF Receiving, IInv, TypeOK
    <3>3. ~Grown => image'[cur] + nleft' = photo[cur]
      BY <1>3, <1>4, <1>5, <3>1, <3>2 DEF Receiving, IInv, TypeOK
    <3>4. Receiving'
      BY <1>1, <1>3, <3>1, <3>2, <3>3 DEF Receiving, Grown
    <3> QED
      BY <1>1, <2>2, <3>4, WhileReceiving DEF Talk, TalkAsk, TalkPhoto, IInv
  <2> QED
    BY <2>1, <2>2 DEF IInv, TypeOK
<1>10. Course' /\ Answered'
  <2>1. image'[name] \in Nat
    BY <1>3, <1>4
  <2>2. s2c' = <<>> \/ link # "cut"
    BY <1>1 DEF IInv, Course
  <2>3. \A f \in Forms : image[f] # NoPhoto => image'[f] # NoPhoto
    BY <1>4, <2>1 DEF ImageAssumption
  <2> QED
    BY <1>1, <1>4, <2>1, <2>2, <2>3, ServerKeeps
<1>11. KeptIsWhole' /\ NothingSwallowed'
  BY <1>1, <1>4, <1>6 DEF IInv, KeptIsWhole, NothingSwallowed
<1> QED
  BY <1>7, <1>8, <1>9, <1>10, <1>11 DEF IInv

\* ImageDone: nothing of the photo is expected, on its way or yet to be sent.
LEMMA ImageDoneInv == ASSUME ImageAssumption, IInv, ImageDone PROVE IInv'
<1>1. /\ UNCHANGED <<photo, accepting, cpc, cur, left, name, nleft, i, image, c2s, link,
                     formok, told, swallowed, mishap>>
      /\ spc = "image" /\ spc' = "cmd" /\ nleft = 0 /\ Reply("500")
  BY DEF ImageDone, config, client, hist
<1>2. c2s \in Seq(Items) /\ AllUnits(c2s) /\ Len(c2s) \in Nat
  BY <1>1 DEF IInv, TypeOK, Stream
<1>3. \/ link = "cut" /\ s2c' = s2c
      \/ link = "up" /\ cpc = "ask" /\ s2c' = <<"500", "500">> /\ Receiving
      \/ link = "up" /\ cpc \in {"bytes", "wait"} /\ s2c' = <<"500">> /\ Receiving
  <2>1. CASE link = "cut"
    BY <1>1, <2>1 DEF Reply
  <2>2. CASE link = "up" /\ cpc = "ask" /\ s2c = <<"500">> /\ Receiving
    BY <1>1, <2>2, AnswerFacts DEF Reply
  <2>3. CASE link = "up" /\ cpc \in {"bytes", "wait"} /\ s2c = <<>> /\ Receiving
    BY <1>1, <2>3, AnswerFacts DEF Reply
  <2> QED
    BY <1>1, <2>1, <2>2, <2>3, WhileReceiving
<1>4. TypeOK'
  <2>1. s2c' = s2c \/ (\E a \in Codes : s2c' = <<a>>) \/ (\E a, b \in Codes : s2c' = <<a, b>>)
    BY <1>3, AnswerFacts
  <2>2. /\ mishap' \subseteq Faults \cup {"small"} /\ link \in {"up", "cut"}
        /\ name \in 0..NForms /\ nleft \in 0..(Width - 1) /\ i \in {0, BufSize}
        /\ image \in [Forms -> Nat \cup {NoPhoto}] /\ swallowed \in BOOLEAN
    BY <1>1 DEF IInv, TypeOK
  <2> QED
    BY <1>1, <1>2, <2>1, <2>2, ServerType DEF IInv
<1>5. Stream'
  BY <1>1, <1>2, FirstUnit DEF Stream
<1>6. Talk'
  <2>1. CASE link = "cut"
    BY <1>1, <1>3, <2>1, CutTalk
  <2>2. CASE link = "up"
    <3>1. Receiving
      BY <1>3, <2>2
    <3>2. ~Grown => Len(c2s) = 0 /\ left = 0 /\ image[cur] = photo[cur]
      <4>1. ~Grown => Len(c2s) = 0 /\ left = 0
        BY <1>1, <1>2, <3>1 DEF Receiving, IInv, TypeOK
      <4>2. image[cur] \in Nat
        BY <1>1, <3>1 DEF Receiving, IInv, Course
      <4> QED
        BY <1>1, <3>1, <4>1, <4>2 DEF Receiving
    <3>3. Len(c2s) = 0 => c2s = <<>>
      BY <1>2
    <3>4. Whole'
      BY <1>1, <1>2, <3>2, <3>3 DEF Whole, Grown
    <3> QED
      BY <1>1, <1>3, <2>2, <3>4 DEF Talk, TalkAsk, TalkPhoto, IInv
  <2> QED
    BY <2>1, <2>2 DEF IInv, TypeOK
<1>7. Course' /\ Answered'
  <2>1. s2c' = <<>> \/ link # "cut"
    BY <1>3 DEF IInv, Course
  <2> QED
    BY <1>1, <2>1, ServerKeeps
<1>8. KeptIsWhole' /\ NothingSwallowed'
  BY <1>1 DEF IInv, KeptIsWhole, NothingSwallowed
<1> QED
  BY <1>4, <1>5, <1>6, <1>7, <1>8 DEF IInv

\* ImageFails: there was a mishap, and what is left of the image ends the session.
LEMMA ImageFailsInv == ASSUME ImageAssumption, IInv, ImageFails PROVE IInv'
<1>1. /\ UNCHANGED <<photo, accepting, cpc, cur, left, name, nleft, i, link, formok, told,
                     swallowed>>
      /\ spc = "image" /\ spc' = "cmd" /\ Reply("300") /\ (NothingRead \/ DiskFull)
  BY DEF ImageFails, config, client
<1>2. name \in Forms /\ told[name] # "kept" /\ image[name] \in Nat
  BY <1>1 DEF IInv, Course
<1>3. /\ c2s' \in Seq(Items) /\ AllUnits(c2s')
      /\ mishap \subseteq mishap' /\ mishap' # {}
      /\ mishap' \subseteq Faults \cup {"small"}
      /\ "grow" \in mishap' <=> "grow" \in mishap
      /\ image' \in [Forms -> Nat \cup {NoPhoto}] /\ image'[name] \in Nat
      /\ \A f \in Forms : f # name => image'[f] = image[f]
  <2>1. CASE NothingRead
    <3>1. UNCHANGED <<c2s, image>>
      BY <2>1 DEF NothingRead
    <3>2. mishap' = mishap \cup {"small"} \/ (mishap' = mishap /\ mishap # {})
      BY <2>1 DEF NothingRead, IInv, Course, Broken, GivenUp, LostBefore
    <3> QED
      BY <1>1, <1>2, <3>1, <3>2 DEF IInv, TypeOK, Stream
  <2>2. CASE DiskFull
    <3>1. PICK k \in 1..Smaller(AskFor, Len(c2s)) :
              /\ c2s' = SubSeq(c2s, k + 1, Len(c2s))
              /\ \E j \in 0..(k - 1) : image' = [image EXCEPT ![name] = @ + j]
      BY <2>2 DEF DiskFull
    <3>2. k \in Nat /\ c2s' \in Seq(Items) /\ AllUnits(c2s')
      BY <1>1, <3>1, UnitsTaken
    <3>3. PICK j \in 0..(k - 1) : image' = [image EXCEPT ![name] = @ + j]
      BY <3>1
    <3>4. /\ image' \in [Forms -> Nat \cup {NoPhoto}] /\ image'[name] \in Nat
          /\ \A f \in Forms : f # name => image'[f] = image[f]
      BY <1>2, <3>2, <3>3 DEF IInv, TypeOK
    <3>5. mishap' = mishap \cup {"disk"} /\ "disk" \in Faults
      BY <2>2 DEF DiskFull
    <3> QED
      BY <3>2, <3>4, <3>5 DEF IInv, TypeOK
  <2> QED
    BY <1>1, <2>1, <2>2
<1>4. \/ link = "cut" /\ s2c' = s2c
      \/ link = "up" /\ cpc = "ask" /\ s2c' = <<"500", "300">>
      \/ link = "up" /\ cpc \in {"bytes", "wait"} /\ s2c' = <<"300">> /\ Receiving
  <2>1. CASE link = "cut"
    BY <1>1, <2>1 DEF Reply
  <2>2. CASE link = "up" /\ cpc = "ask" /\ s2c = <<"500">> /\ Receiving
    BY <1>1, <2>2, AnswerFacts DEF Reply
  <2>3. CASE link = "up" /\ cpc \in {"bytes", "wait"} /\ s2c = <<>> /\ Receiving
    BY <1>1, <2>3, AnswerFacts DEF Reply
  <2> QED
    BY <1>1, <2>1, <2>2, <2>3, WhileReceiving
<1>5. TypeOK'
  <2>1. s2c' = s2c \/ (\E a \in Codes : s2c' = <<a>>) \/ (\E a, b \in Codes : s2c' = <<a, b>>)
    BY <1>4, AnswerFacts
  <2>2. /\ link \in {"up", "cut"} /\ name \in 0..NForms /\ nleft \in 0..(Width - 1)
        /\ i \in {0, BufSize} /\ swallowed \in BOOLEAN
    BY DEF IInv, TypeOK
  <2> QED
    BY <1>1, <1>3, <2>1, <2>2, ServerType DEF IInv
<1>6. Stream'
  BY <1>1, <1>3, FirstUnit DEF Stream
<1>7. Talk'
  <2>1. CASE link = "cut"
    BY <1>1, <1>3, <1>4, <2>1, CutTalk
  <2>2. CASE link = "up"
    <3>1. Failed'
      <4>1. Broken => Broken'
        BY <1>3 DEF Broken
      <4>2. Receiving /\ nleft > 0 /\ nleft \in Nat
        BY <1>1, <2>2, WhileReceiving DEF ImageFails, IInv, TypeOK
      <4>3. ~Broken => photo[cur] > 0
        BY <1>2, <4>2 DEF Receiving, Grown, Broken
      <4>4. image'[cur] # NoPhoto
        BY <1>3, <4>2 DEF Receiving, ImageAssumption
      <4> QED
        BY <1>1, <1>3, <4>1, <4>3, <4>4 DEF Failed
    <3>2. cpc = "wait" => left = 0
      BY <1>1, <2>2 DEF IInv, Talk
    <3> QED
      BY <1>1, <1>4, <2>2, <3>1, <3>2 DEF Talk, TalkAsk, TalkPhoto
  <2> QED
    BY <2>1, <2>2 DEF IInv, TypeOK
<1>8. Course' /\ Answered'
  <2>1. s2c' = <<>> \/ link # "cut"
    BY <1>4 DEF IInv, Course
  <2>2. \A f \in Forms : image[f] # NoPhoto => image'[f] # NoPhoto
    BY <1>3 DEF ImageAssumption
  <2> QED
    BY <1>1, <1>3, <2>1, <2>2, ServerKeeps
<1>9. KeptIsWhole' /\ NothingSwallowed'
  BY <1>1, <1>2, <1>3 DEF IInv, KeptIsWhole, NothingSwallowed
<1> QED
  BY <1>5, <1>6, <1>7, <1>8, <1>9 DEF IInv

\* ServerEnds: after bytes that no image expects, or at the end of the stream.
LEMMA ServerEndsInv == ASSUME ImageAssumption, IInv, ServerEnds PROVE IInv'
<1>1. /\ UNCHANGED <<photo, accepting, cpc, cur, left, name, nleft, i, image, s2c, link,
                     formok, told, swallowed, mishap>>
      /\ spc = "cmd" /\ spc' = "ended" /\ c2s' = <<>>
      /\ \/ c2s # <<>> /\ Head(c2s) = Unit
         \/ c2s = <<>> /\ (link = "cut" \/ cpc = "done")
  BY DEF ServerEnds, config, client, hist
<1>2. c2s' \in Seq(Items) /\ AllUnits(c2s')
  BY <1>1 DEF AllUnits
<1>3. TypeOK'
  BY <1>1, <1>2 DEF IInv, TypeOK
<1>4. Stream'
  BY <1>1 DEF Stream
<1>5. Talk'
  <2>1. CASE link = "cut"
    BY <1>1, <2>1, CutTalk
  <2>2. CASE Off
    <3>1. Off'
      BY <1>1, <2>2 DEF Off, Broken, GivenUp, LostBefore
    <3> QED
      BY <1>1, <3>1 DEF Talk
  <2>3. CASE link = "up" /\ ~Off /\ c2s = <<>> /\ cpc = "done"
    BY <1>1, <2>3 DEF IInv, Talk, TalkIdle
  <2>4. CASE link = "up" /\ ~Off /\ c2s # <<>> /\ Head(c2s) = Unit
    <3>1. c2s # <<Form>> /\ c2s # <<Binary(cur)>>
      BY <2>4, OneItem, ItemFacts DEF Binary
    <3>2. cpc \notin {"form", "photo", "done", "answer"}
      BY <1>1, <2>4, <3>1 DEF IInv, Talk, TalkIdle, TalkForm, Idle
    <3>3. Whole => Whole'
      BY <1>1, <1>2, <2>4 DEF Whole, Grown, Broken, GivenUp, LostBefore
    <3>4. Failed => Failed'
      <4>1. Broken' = Broken
        BY <1>1 DEF Broken
      <4> QED
        BY <1>1, <1>2, <2>4, <4>1 DEF Failed
    <3>5. TalkAsk => TalkAsk'
      BY <1>1, <2>4, <3>1, <3>3, <3>4 DEF TalkAsk, Idle, Receiving
    <3>6. TalkPhoto => TalkPhoto'
      BY <1>1, <3>3, <3>4 DEF TalkPhoto, Receiving
    <3> QED
      BY <1>1, <2>4, <3>2, <3>5, <3>6 DEF IInv, Talk
  <2> QED
    BY <1>1, <2>1, <2>2, <2>3, <2>4 DEF IInv, TypeOK
<1>6. Course' /\ Answered'
  <2>1. s2c' = <<>> \/ link # "cut"
    BY <1>1 DEF IInv, Course
  <2> QED
    BY <1>1, <2>1, ServerKeeps
<1>7. KeptIsWhole' /\ NothingSwallowed'
  BY <1>1 DEF IInv, KeptIsWhole, NothingSwallowed
<1> QED
  BY <1>3, <1>4, <1>5, <1>6, <1>7 DEF IInv

\* TimesOut: the session ends, after the 300 of an image.
LEMMA TimesOutInv == ASSUME ImageAssumption, IInv, TimesOut PROVE IInv'
<1>1. /\ UNCHANGED <<photo, accepting, cpc, cur, left, name, nleft, i, image, c2s, link,
                     formok, told, swallowed>>
      /\ c2s = <<>> /\ spc # "ended" /\ spc' = "ended"
      /\ IF spc = "image" THEN Reply("300") ELSE UNCHANGED s2c
      /\ mishap' = mishap \cup {"slow"} /\ "slow" \in Faults
  BY DEF TimesOut, config, client
<1>2. mishap' # {} /\ AllUnits(c2s')
  BY <1>1 DEF AllUnits
<1>3. \/ link = "cut" /\ s2c' = s2c
      \/ link = "up" /\ spc = "cmd" /\ s2c' = s2c
      \/ link = "up" /\ spc = "image" /\ cpc = "ask" /\ s2c' = <<"500", "300">>
      \/ link = "up" /\ spc = "image" /\ cpc \in {"bytes", "wait"} /\ s2c' = <<"300">>
  <2>1. CASE link = "cut"
    BY <1>1, <2>1 DEF Reply
  <2>2. CASE link = "up" /\ spc = "cmd"
    BY <1>1, <2>2
  <2>3. CASE link = "up" /\ spc = "image" /\ cpc = "ask" /\ s2c = <<"500">>
    BY <1>1, <2>3, AnswerFacts DEF Reply
  <2>4. CASE link = "up" /\ spc = "image" /\ cpc \in {"bytes", "wait"} /\ s2c = <<>>
    BY <1>1, <2>4, AnswerFacts DEF Reply
  <2>5. spc \in {"cmd", "image"} /\ link \in {"up", "cut"}
    BY <1>1 DEF IInv, TypeOK
  <2> QED
    BY <2>1, <2>2, <2>3, <2>4, <2>5, WhileReceiving
<1>4. TypeOK'
  <2>1. s2c' = s2c \/ (\E a \in Codes : s2c' = <<a>>) \/ (\E a, b \in Codes : s2c' = <<a, b>>)
    BY <1>3, AnswerFacts
  <2>2. /\ mishap' \subseteq Faults \cup {"small"} /\ link \in {"up", "cut"}
        /\ name \in 0..NForms /\ nleft \in 0..(Width - 1) /\ i \in {0, BufSize}
        /\ image \in [Forms -> Nat \cup {NoPhoto}] /\ swallowed \in BOOLEAN
        /\ c2s' \in Seq(Items)
    BY <1>1 DEF IInv, TypeOK
  <2> QED
    BY <1>1, <2>1, <2>2, ServerType DEF IInv
<1>5. Stream'
  BY <1>1 DEF Stream
<1>6. Talk'
  <2>1. CASE link = "cut"
    BY <1>1, <1>3, <2>1, CutTalk
  <2>2. CASE link = "up" /\ spc = "cmd" /\ s2c' = s2c
    <3>1. Off => Off'
      BY <1>1, <1>2, <2>2 DEF Off
    <3>2. Idle'
      BY <1>1, <1>2 DEF Idle, Broken, GivenUp, LostBefore
    <3>3. TalkIdle => TalkIdle'
      BY <1>1, <2>2, <3>2 DEF TalkIdle
    <3>4. TalkForm => TalkForm'
      BY <1>1, <2>2, <3>2 DEF TalkForm
    <3>5. Whole => Whole'
      BY <1>1, <1>2 DEF Whole, Grown, Broken, GivenUp, LostBefore
    <3>6. Failed => Failed'
      BY <1>1, <1>2 DEF Failed, Broken, GivenUp, LostBefore
    <3>7. TalkAsk => TalkAsk'
      BY <1>1, <2>2, <3>2, <3>5, <3>6 DEF TalkAsk, Receiving
    <3>8. TalkPhoto => TalkPhoto'
      BY <1>1, <2>2, <3>5, <3>6 DEF TalkPhoto, Receiving
    <3> QED
      BY <1>1, <2>2, <3>1, <3>3, <3>4, <3>7, <3>8 DEF IInv, Talk
  <2>3. CASE link = "up" /\ spc = "image"
    <3>1. Failed'
      BY <1>1, <1>2 DEF Failed, Broken, GivenUp, LostBefore
    <3> QED
      BY <1>1, <1>3, <2>3, <3>1 DEF Talk, TalkAsk, TalkPhoto
  <2> QED
    BY <1>1, <1>3, <2>1, <2>2, <2>3
<1>7. Course' /\ Answered'
  <2>1. s2c' = <<>> \/ link # "cut"
    BY <1>3 DEF IInv, Course
  <2> QED
    BY <1>1, <2>1, ServerKeeps
<1>8. KeptIsWhole' /\ NothingSwallowed'
  BY <1>1 DEF IInv, KeptIsWhole, NothingSwallowed
<1> QED
  BY <1>4, <1>5, <1>6, <1>7, <1>8 DEF IInv

\* Cut: what has arrived of the stream may be a part of it; no answer will come.
LEMMA CutInv == ASSUME ImageAssumption, IInv, Cut PROVE IInv'
<1>1. /\ UNCHANGED <<photo, accepting, cpc, cur, left, spc, name, nleft, i, image, formok,
                     told, swallowed>>
      /\ spc # "ended" /\ link' = "cut" /\ s2c' = <<>>
      /\ mishap' = mishap \cup {"cut"} /\ "cut" \in Faults
  BY DEF Cut, client, server, config
<1>2. PICK n \in 0..Len(c2s) : c2s' = SubSeq(c2s, 1, n)
  BY DEF Cut
<1>3. /\ c2s' \in Seq(Items)
      /\ AllUnits(c2s) => AllUnits(c2s')
      /\ \A a : c2s = <<a>> => c2s' \in {<<>>, <<a>>}
      /\ c2s = <<>> => c2s' = <<>>
      /\ c2s' # <<>> => Head(c2s') = Head(c2s)
  BY <1>2, CutStream DEF IInv, TypeOK
<1>4. TypeOK'
  BY <1>1, <1>3, AnswerFacts DEF IInv, TypeOK
<1>5. Stream'
  <2>1. CASE spc = "image" /\ AllUnits(c2s)
    BY <1>1, <1>3, <2>1 DEF Stream
  <2>2. CASE spc = "cmd" /\ c2s = <<>>
    BY <1>1, <1>3, <2>2 DEF Stream
  <2>3. CASE spc = "cmd" /\ c2s = <<Form>>
    BY <1>1, <1>3, <2>3 DEF Stream
  <2>4. ASSUME spc = "cmd", NEW f \in Forms, c2s = <<Binary(f)>>,
               photo[f] \in Sizes, told[f] # "kept"
        PROVE  Stream'
    <3>1. c2s' = <<>> \/ c2s' = <<Binary(f)>>
      BY <1>3, <2>4
    <3>2. Binary(f)' = Binary(f)
      BY <1>1 DEF Binary
    <3> QED
      BY <1>1, <2>4, <3>1, <3>2 DEF Stream
  <2>5. CASE spc = "cmd" /\ c2s # <<>> /\ Head(c2s) = Unit
    BY <1>1, <1>3, <2>5 DEF Stream
  <2> QED
    BY <1>1, <2>1, <2>2, <2>3, <2>4, <2>5 DEF IInv, Stream
<1>6. Off'
  BY <1>1 DEF Off, Broken, GivenUp, LostBefore
<1>7. Talk'
  BY <1>1, <1>6 DEF Talk
<1>8. Course' /\ Answered'
  BY <1>1 DEF IInv, Course, Answered, Broken, GivenUp, LostBefore
<1>9. KeptIsWhole' /\ NothingSwallowed'
  BY <1>1 DEF IInv, KeptIsWhole, NothingSwallowed
<1> QED
  BY <1>4, <1>5, <1>7, <1>8, <1>9 DEF IInv

-----------------------------------------------------------------------------
(* The invariant *)

\* No form has been sent: nothing is on its way.
LEMMA InitInv == ASSUME ImageAssumption, Init PROVE IInv
<1>1. TypeOK
  <2>1. <<>> \in Seq(Items) /\ s2c \in Seq(Codes) /\ Len(s2c) <= 2
    BY AnswerFacts DEF Init
  <2>2. /\ cur \in 1..(NForms + 1) /\ name \in 0..NForms /\ nleft \in 0..(Width - 1)
        /\ i \in {0, BufSize} /\ left \in Nat
    BY DEF Init, ImageAssumption
  <2> QED
    BY <2>1, <2>2 DEF Init, TypeOK
<1>2. Stream /\ Talk
  BY DEF Init, Stream, Talk, TalkIdle, Idle
<1>3. Course
  BY DEF Init, Course, ImageAssumption
<1>4. Answered
  BY DEF Init, Answered
<1>5. KeptIsWhole /\ NothingSwallowed
  BY DEF Init, KeptIsWhole, NothingSwallowed
<1> QED
  BY <1>1, <1>2, <1>3, <1>4, <1>5 DEF IInv

\* Every step keeps the invariant.
LEMMA NextInv == ASSUME ImageAssumption, IInv, [Next]_vars PROVE IInv'
<1>1. CASE Client
  BY <1>1, SendFormInv, FormAnsweredInv, PhotoMissingInv, AskToSendInv, MaySendInv,
     SendBytesInv, PhotoAnsweredInv DEF Client
<1>2. CASE Server
  BY <1>2, ServerFormInv, ImageRefusedInv, ImageAcceptedInv, ImageNotCreatedInv,
     ReadImageInv, ImageDoneInv, ImageFailsInv, ServerEndsInv DEF Server
<1>3. CASE TimesOut
  BY <1>3, TimesOutInv
<1>4. CASE Cut
  BY <1>4, CutInv
<1>5. CASE UNCHANGED vars
  <2>1. UNCHANGED <<photo, accepting, cpc, cur, left, spc, name, nleft, i, image, c2s, s2c,
                    link, formok, told, swallowed, mishap>>
    BY <1>5 DEF vars, config, client, server, streams, hist
  <2>2. TypeOK' /\ Stream' /\ Course'
    BY <2>1 DEF IInv, TypeOK, Stream, Course, Binary, Broken, GivenUp, LostBefore
  <2>3. /\ Off' = Off /\ Idle' = Idle /\ Receiving' = Receiving /\ Whole' = Whole
        /\ Failed' = Failed /\ Binary(cur)' = Binary(cur) /\ Grown' = Grown
    BY <2>1 DEF Off, Idle, Receiving, Whole, Failed, Grown, Binary, Broken, GivenUp, LostBefore
  <2>4. TalkIdle' = TalkIdle /\ TalkForm' = TalkForm
    BY <2>1, <2>3 DEF TalkIdle, TalkForm
  <2>5. TalkAsk' = TalkAsk /\ TalkPhoto' = TalkPhoto
    BY <2>1, <2>3 DEF TalkAsk, TalkPhoto
  <2>6. Talk'
    BY <2>1, <2>3, <2>4, <2>5 DEF IInv, Talk
  <2>7. Answered' /\ KeptIsWhole' /\ NothingSwallowed'
    BY <2>1 DEF IInv, Answered, KeptIsWhole, NothingSwallowed, Broken, GivenUp, LostBefore
  <2> QED
    BY <2>2, <2>6, <2>7 DEF IInv
<1> QED
  BY <1>1, <1>2, <1>3, <1>4, <1>5 DEF Next

\* The invariant holds in every state that the program can be in.
LEMMA Inductive == ASSUME ImageAssumption PROVE Spec => []IInv
<1>1. Init => IInv
  BY InitInv
<1>2. IInv /\ [Next]_vars => IInv'
  BY NextInv
<1> QED
  BY <1>1, <1>2, PTL DEF Spec

-----------------------------------------------------------------------------
(* The theorems *)

\* The counts stay within their width, and the answers within two, for any
\* number of forms (send_photo, accept_binary).
THEOREM TypeCorrect == ASSUME ImageAssumption PROVE Spec => []TypeOK
<1>1. IInv => TypeOK
  BY DEF IInv
<1> QED
  BY <1>1, Inductive, PTL

\* A photo that send_photo calls transferred is whole at the server, and
\* nothing but photos gets into the files of photos (server/eduserver.c:836).
THEOREM PhotosWhole == ASSUME ImageAssumption PROVE Spec => []PhotosAreWhole
<1>1. IInv => PhotosAreWhole
  BY DEF IInv, PhotosAreWhole
<1> QED
  BY <1>1, Inductive, PTL

\* As long as the connection holds, a form is lost only behind a photo whose
\* bytes the server asked for and gave up: a photo that is absent, empty,
\* refused or not to be found costs no form (project2/src/myfuncs.c:1604,
\* server/eduserver.c:836).
THEOREM FormsStillGo == ASSUME ImageAssumption PROVE Spec => []FormsGoOn
<1>1. ASSUME IInv PROVE FormsGoOn
  <2>1. ASSUME ~Broken, NEW f \in Forms, f < cur
        PROVE  f \in formok \/ \E g \in 1..(f - 1) : GivenUp(g)
    <3>1. f \in formok \/ LostBefore(f)
      <4>1. f \in Int /\ cur \in Int
        BY <1>1 DEF IInv, TypeOK, Forms, ImageAssumption
      <4>2. ~(f > cur) /\ f # cur
        BY <2>1, <4>1
      <4> QED
        BY <1>1, <2>1, <4>2 DEF IInv, Answered
    <3>2. \A g \in Forms : g < f => g \in 1..(f - 1)
      BY DEF Forms, ImageAssumption
    <3> QED
      BY <3>1, <3>2 DEF LostBefore
  <2> QED
    BY <2>1 DEF FormsGoOn
<1> QED
  BY <1>1, Inductive, PTL
==============================================================================
