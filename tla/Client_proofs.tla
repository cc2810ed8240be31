---------------------------- MODULE Client_proofs ----------------------------
(***************************************************************************)
(* Proofs about the client's windows before the forms, the options of a    *)
(* form and the rules of the subject codes, for any texts and names of     *)
(* institutions, any fields that can be missing, any lists of codes and    *)
(* pairs, and forms of any length.                                         *)
(***************************************************************************)
EXTENDS MCClient, SequenceTheorems, FiniteSetTheorems, WellFoundedInduction, TLAPS

\* A set of numbers has a least one.
LEMMA LeastNumber ==
    ASSUME NEW S \in SUBSET Nat, S # {}
    PROVE  LET n == CHOOSE i \in S : \A j \in S : i <= j
           IN n \in S /\ \A j \in S : n <= j
<1>1. PICK i \in S : \A j \in Nat : <<j, i>> \in OpToRel(<, Nat) => j \notin S
  <2>1. IsWellFoundedOn(OpToRel(<, Nat), Nat)
    BY NatLessThanWellFounded
  <2> QED
    BY <2>1, WFMin, Zenon
<1>2. \A j \in S : ~(j < i)
  BY <1>1 DEF OpToRel
<1>3. \A j \in S : i <= j
  BY <1>2
<1> QED
  BY <1>3

-----------------------------------------------------------------------------
(* The query *)

\* What the session's entry admits.
Shown == {"d", "-"}

\* OkIffReady is kept because each handler may rely on what the other one
\* left: a code can be typed exactly while there is a session, and the label
\* is the name of the code.
QInv ==
    /\ Query!TypeOK /\ sess \in Seq(Shown)
    /\ Query!OkIffReady /\ Query!NameOfCode
    /\ editable <=> Len(sess) >= 4
    /\ label = MCName(code)

\* The prefix of accepted characters is a text of them, and no longer.
LEMMA PrefixType ==
    ASSUME NEW A, NEW B, NEW t \in Seq(B)
    PROVE  Query!Prefix(t, A) \in Seq(A) /\ Len(Query!Prefix(t, A)) <= Len(t)
<1> DEFINE bad == {i \in DOMAIN t : t[i] \notin A}
<1>1. CASE bad = {}
  <2>1. Query!Prefix(t, A) = t
    BY <1>1 DEF Query!Prefix
  <2>2. t \in Seq(A)
    <3>1. \A i \in 1..Len(t) : t[i] \in A
      BY <1>1
    <3> QED
      BY <3>1
  <2> QED
    BY <2>1, <2>2
<1>2. CASE bad # {}
  <2> DEFINE least == CHOOSE i \in bad : \A j \in bad : i <= j
  <2>1. bad \subseteq Nat /\ bad \subseteq 1..Len(t)
    OBVIOUS
  <2>3. least \in bad /\ \A j \in bad : least <= j
    <3> HIDE DEF bad
    <3> QED
      BY <1>2, <2>1, LeastNumber
  <2>4. Query!Prefix(t, A) = SubSeq(t, 1, least - 1)
    BY <1>2 DEF Query!Prefix
  <2>5. least \in 1..Len(t) /\ \A j \in 1..least - 1 : t[j] \in A
    <3>1. least \in 1..Len(t)
      BY <2>3, <2>1
    <3> HIDE DEF least
    <3> QED
      BY <2>3, <3>1
  <2> HIDE DEF least, bad
  <2>6. Len(SubSeq(t, 1, least - 1)) = least - 1 /\ SubSeq(t, 1, least - 1) \in Seq(B)
    BY <2>5
  <2>7. \A j \in 1..least - 1 : SubSeq(t, 1, least - 1)[j] = t[j]
    BY <2>5
  <2>8. SubSeq(t, 1, least - 1) \in Seq(A)
    BY <2>5, <2>6, <2>7
  <2> QED
    BY <2>4, <2>5, <2>6, <2>8
<1> QED
  BY <1>1, <1>2

\* A completed session is nine characters long.
LEMMA CompletedType ==
    ASSUME NEW t
    PROVE  Query!Completed(t) \in Seq(Shown) /\ Len(Query!Completed(t)) = 9
<1>1. <<"-", "d", "d", "d", "-", "-", "d", "d", "d">> \in Seq(Shown)
  BY DEF Shown
<1>2. Query!Times(4, "d") \in Seq(Shown) /\ Len(Query!Times(4, "d")) = 4
  BY DEF Shown, Query!Times
<1>3. <<"-">> \in Seq(Shown) /\ Len(<<"-">>) = 1
  BY DEF Shown
<1> HIDE DEF Shown
<1> DEFINE four == Query!Times(4, "d")
<1> HIDE DEF four
<1>5. four \in Seq(Shown) /\ Len(four) = 4
  BY <1>2 DEF four
<1>6. four \o <<"-">> \in Seq(Shown) /\ Len(four \o <<"-">>) = 5
  <2>1. four \in Seq(Shown) /\ <<"-">> \in Seq(Shown)
    BY <1>3, <1>5
  <2>2. /\ four \o <<"-">> \in Seq(Shown)
        /\ Len(four \o <<"-">>) = Len(four) + Len(<<"-">>)
    BY <2>1, ConcatProperties, Zenon
  <2> QED
    BY <2>2, <1>3, <1>5
<1>7. four \o <<"-">> \o four \in Seq(Shown) /\ Len(four \o <<"-">> \o four) = 9
  BY <1>5, <1>6, ConcatProperties
<1> QED
  BY <1>1, <1>7 DEF Query!Completed, four

LEMMA LargerType ==
    ASSUME NEW a \in Nat, NEW b \in Nat, a <= 9, b <= 9
    PROVE  Query!Larger(a, b) \in Nat /\ Query!Larger(a, b) <= 9
BY DEF Query!Larger

\* The handler of the session's entry keeps the invariant, whatever the entry
\* holds now.
LEMMA SessionKeeps ==
    ASSUME QInv, NEW B, NEW typed \in Seq(B), Len(typed) <= 9, Query!SessionChanged(typed),
           backspaced' \in BOOLEAN, stage = "query", UNCHANGED <<stage, is_ssc, globals>>
    PROVE  QInv'
<1> DEFINE val == Query!Prefix(typed, Shown)
           longest == Query!Larger(prevlen, Len(val))
           text == IF Len(val) = 4 /\ longest = 4 THEN Query!Completed(val) ELSE val
<1>1. val \in Seq(Shown) /\ Len(val) \in Nat /\ Len(val) <= 9
  <2>1. val \in Seq(Shown) /\ Len(val) <= Len(typed)
    BY PrefixType
  <2> HIDE DEF val
  <2> QED
    BY <2>1
<1>2. longest \in Nat /\ longest <= 9
  <2>1. prevlen \in Nat /\ prevlen <= 9
    BY DEF QInv, Query!TypeOK
  <2> HIDE DEF val
  <2> QED
    BY <1>1, <2>1, LargerType
<1>3. /\ text \in Seq(Shown) /\ Len(text) \in Nat /\ Len(text) <= 9
      /\ Len(text) >= 4 <=> Len(val) >= 4
  <2>1. Query!Completed(val) \in Seq(Shown) /\ Len(Query!Completed(val)) = 9
    BY CompletedType
  <2> HIDE DEF val, longest
  <2>2. CASE Len(val) = 4 /\ longest = 4
    <3>1. text = Query!Completed(val)
      BY <2>2
    <3> HIDE DEF text
    <3>2. text \in Seq(Shown) /\ Len(text) = 9
      BY <2>1, <3>1
    <3> QED
      BY <2>2, <3>2
  <2>3. CASE ~(Len(val) = 4 /\ longest = 4)
    BY <1>1, <2>3
  <2> QED
    BY <2>2, <2>3
<1>4. /\ sess' = text /\ prevlen' = Query!Larger(longest, Len(text))
      /\ editable' = (Len(val) >= 4)
      /\ ok' = (Len(val) >= 4 /\ (ok \/ MCName(code) # None))
      /\ UNCHANGED <<code, label>>
  BY DEF Query!SessionChanged, Shown
<1> HIDE DEF val, longest, text
<1>5. prevlen' \in 0..9
  <2>1. prevlen' \in Nat /\ prevlen' <= 9
    BY <1>2, <1>3, <1>4, LargerType
  <2> QED
    BY <2>1
<1>6. \A i \in DOMAIN sess' : sess'[i] \in Shown
  BY <1>3, <1>4
<1>7. Query!TypeOK'
  <2>1. Len(sess') <= 9
    BY <1>3, <1>4
  <2>2. editable' \in BOOLEAN /\ ok' \in BOOLEAN
    BY <1>4
  <2> QED
    BY <2>1, <2>2, <1>4, <1>5, <1>6 DEF QInv, Query!TypeOK, Shown
<1>8. Query!OkIffReady'
  <2>1. ok => MCName(code) # None
    BY DEF QInv, Query!OkIffReady
  <2> QED
    BY <2>1, <1>3, <1>4 DEF Query!OkIffReady
<1>9. Query!NameOfCode'
  BY DEF Query!NameOfCode
<1>10. editable' <=> Len(sess') >= 4
  BY <1>3, <1>4
<1> QED
  BY <1>3, <1>4, <1>7, <1>8, <1>9, <1>10 DEF QInv

\* The length of a joined text, by the lengths of its parts.
LEMMA JoinedType ==
    ASSUME NEW B, NEW a \in Seq(B), NEW b \in Seq(B), NEW m \in Nat, NEW n \in Nat,
           Len(a) = m, Len(b) = n
    PROVE  a \o b \in Seq(B) /\ Len(a \o b) = m + n
BY ConcatProperties

LEMMA QueryInit ==
    ASSUME ClientAssumption, Query!Init
    PROVE  QInv
<1>1. empty \in MCCodeTexts /\ MCName(empty) = None
  BY DEF ClientAssumption, Query!QueryAssumption
<1>2. sess = <<>> /\ sess \in Seq(Shown) /\ Len(sess) = 0
  BY DEF Query!Init
<1> QED
  <2>1. Query!TypeOK
    <3>1. DOMAIN sess = {} /\ Len(sess) <= 9
      BY <1>2
    <3>2. /\ stage \in {"intro", "query", "forms", "ended"} /\ is_ssc \in BOOLEAN
          /\ prevlen \in 0..9 /\ code \in MCCodeTexts
      BY <1>1 DEF Query!Init
    <3>3. {editable, ok, backspaced} \subseteq BOOLEAN
      BY DEF Query!Init
    <3> QED
      BY <3>1, <3>2, <3>3 DEF Query!TypeOK
  <2>2. Query!OkIffReady /\ Query!NameOfCode /\ (editable <=> Len(sess) >= 4)
    BY <1>2 DEF Query!Init, Query!OkIffReady, Query!NameOfCode
  <2> QED
    BY <1>1, <1>2, <2>1, <2>2 DEF Query!Init, QInv

LEMMA QueryStep ==
    ASSUME QInv, [Query!Next]_query
    PROVE  QInv'
<1> USE DEF QInv
<1> DEFINE B == {"d", "-", "x"}
<1>0. sess \in Seq(B) /\ Len(sess) \in Nat /\ Len(sess) <= 9
  BY DEF Query!TypeOK, Shown
<1>1. CASE Query!Toggle
  BY <1>1 DEF Query!Toggle, Query!query, Query!TypeOK, Query!OkIffReady, Query!NameOfCode
<1>2. CASE Query!Start
  BY <1>2 DEF Query!Start, Query!query, Query!TypeOK, Query!OkIffReady, Query!NameOfCode
<1>3. CASE Query!Ok
  <2>1. globals'.code = code /\ globals'.name = label
    BY <1>3 DEF Query!Ok
  <2>2. ok /\ MCName(code) # None
    BY <1>3 DEF Query!Ok, Query!OkIffReady
  <2> QED
    BY <1>3, <2>1, <2>2
    DEF Query!Ok, Query!query, Query!TypeOK, Query!OkIffReady, Query!NameOfCode
<1>4. CASE Query!Quit
  BY <1>4 DEF Query!Quit, Query!query, Query!TypeOK, Query!OkIffReady, Query!NameOfCode
<1>5. ASSUME NEW i \in 0..8, NEW ch \in {"d", "-", "x"}, Query!Insert(i, ch)
      PROVE  QInv'
  <2> DEFINE typed == SubSeq(sess, 1, i) \o <<ch>> \o SubSeq(sess, i + 1, Len(sess))
  <2>1. stage = "query" /\ Len(sess) < 9 /\ i <= Len(sess) /\ Query!SessionChanged(typed)
    BY <1>5 DEF Query!Insert
  <2>2. backspaced' \in BOOLEAN /\ UNCHANGED <<stage, is_ssc, globals>>
    BY <1>5 DEF Query!Insert, Query!TypeOK
  <2>3. typed \in Seq(B) /\ Len(typed) <= 9
    <3> DEFINE a == SubSeq(sess, 1, i)
               b == SubSeq(sess, i + 1, Len(sess))
    <3>1. PICK k \in Nat : Len(sess) = i + k /\ i + k <= 8
      <4>1. Len(sess) - i \in Nat /\ Len(sess) = i + (Len(sess) - i)
        BY <1>0, <2>1
      <4>2. i + (Len(sess) - i) <= 8
        BY <1>0, <2>1
      <4> HIDE DEF typed, a, b
      <4> QED
        BY <4>1, <4>2
    <3>2. a \in Seq(B) /\ Len(a) = i
      BY <1>0, <2>1
    <3>3. b \in Seq(B) /\ Len(b) = k
      BY <1>0, <2>1, <3>1
    <3>4. <<ch>> \in Seq(B) /\ Len(<<ch>>) = 1
      OBVIOUS
    <3> HIDE DEF a, b, B
    <3> DEFINE c == a \o <<ch>>
    <3>5. c \in Seq(B) /\ Len(c) = i + 1
      BY <3>2, <3>4, JoinedType
    <3> HIDE DEF c
    <3>6. c \o b \in Seq(B) /\ Len(c \o b) = i + 1 + k
      BY <3>3, <3>5, JoinedType
    <3>7. Len(c \o b) <= 9
      BY <3>1, <3>6
    <3> QED
      BY <3>6, <3>7 DEF a, b, c
  <2> HIDE DEF typed, QInv
  <2> QED
    BY <2>1, <2>2, <2>3, SessionKeeps
<1>6. ASSUME NEW i \in 0..8, NEW n \in 1..9, Query!Erase(i, n)
      PROVE  QInv'
  <2> DEFINE typed == SubSeq(sess, 1, i) \o SubSeq(sess, i + n + 1, Len(sess))
  <2>1. stage = "query" /\ i + n <= Len(sess) /\ Query!SessionChanged(typed)
    BY <1>6 DEF Query!Erase
  <2>2. backspaced' \in BOOLEAN /\ UNCHANGED <<stage, is_ssc, globals>>
    BY <1>6 DEF Query!Erase
  <2>3. typed \in Seq(B) /\ Len(typed) <= 9
    <3> DEFINE a == SubSeq(sess, 1, i)
               b == SubSeq(sess, i + n + 1, Len(sess))
    <3>1. PICK k \in Nat : Len(sess) = i + n + k /\ i + k <= 9
      <4>1. Len(sess) - i - n \in Nat /\ Len(sess) = i + n + (Len(sess) - i - n)
        BY <1>0, <2>1
      <4>2. i + (Len(sess) - i - n) <= 9
        BY <1>0, <2>1
      <4> HIDE DEF typed, a, b
      <4> QED
        BY <4>1, <4>2
    <3>2. a \in Seq(B) /\ Len(a) = i
      BY <1>0, <2>1
    <3>3. b \in Seq(B) /\ Len(b) = k
      BY <1>0, <2>1, <3>1
    <3> HIDE DEF a, b, B
    <3>4. a \o b \in Seq(B) /\ Len(a \o b) = i + k
      BY <3>2, <3>3, JoinedType
    <3>5. Len(a \o b) <= 9
      BY <3>1, <3>4
    <3> QED
      BY <3>4, <3>5 DEF a, b
  <2> HIDE DEF typed, QInv
  <2> QED
    BY <2>1, <2>2, <2>3, SessionKeeps
<1>7. ASSUME NEW c \in MCCodeTexts, Query!TypeCode(c)
      PROVE  QInv'
  <2>1. editable /\ stage = "query" /\ code' = c /\ label' = MCName(c)
        /\ ok' = (MCName(c) # None)
        /\ UNCHANGED <<stage, is_ssc, sess, prevlen, backspaced, editable, globals>>
    BY <1>7 DEF Query!TypeCode
  <2>2. Query!OkIffReady'
    BY <2>1 DEF Query!OkIffReady
  <2>3. Query!TypeOK'
    BY <2>1 DEF Query!TypeOK
  <2> QED
    BY <2>1, <2>2, <2>3 DEF Query!NameOfCode
<1>8. CASE UNCHANGED query
  BY <1>8 DEF query, Query!TypeOK, Query!OkIffReady, Query!NameOfCode
<1> QED
  BY <1>1, <1>2, <1>3, <1>4, <1>5, <1>6, <1>7, <1>8 DEF Query!Next

-----------------------------------------------------------------------------
(* The options *)

\* Boxes whose handler finds its entries, and those of the kind of form.
Handled == Choices!Boxes \ {"birthdate"}

\* is_ssc is set by the last of the signals still to come, which is the active
\* button's; nothing else moves before the form window is there.  There, an
\* entry takes input exactly if its flag is not set and the form has it; the
\* flags without a box or a handler stay as they were; the others follow the
\* boxes from the moment these are made.
OInv ==
    /\ Choices!TypeOK
    /\ Choices!RadioMeansSsc /\ Choices!BoxesAgree
    /\ toggles # <<>> => toggles[Len(toggles)] = radio
    /\ window # "window1" => toggles = <<>>
    /\ window # "window2" => options = "none" /\ result = "none"
    /\ ~ignore["totlist"] /\ ~ignore["birthdate"]
    /\ window = "window2" =>
         \A b \in Handled : \A v \in Choices!WidgetsOf(b) :
            sensitive[v] <=> ~ignore[b] /\ ~(b \in Choices!Prev /\ ssc)
    /\ window = "window2" /\ options = "none" => ignore = Choices!init_ignored

\* No entry has two boxes.
LEMMA OwnWidgets ==
    ASSUME NEW a \in Handled, NEW b \in Handled, a # b
    PROVE  Choices!WidgetsOf(a) \cap Choices!WidgetsOf(b) = {}
BY DEF Handled, Choices!Boxes, Choices!Prev, Choices!WidgetsOf

LEMMA OptionsInit ==
    ASSUME ClientAssumption, Choices!Init
    PROVE  OInv
<1>1. toggles = <<>> /\ toggles \in Seq(Choices!Radios) /\ Len(toggles) <= 2
  BY DEF Choices!Init
<1>2. Choices!TypeOK
  BY <1>1 DEF Choices!Init, Choices!TypeOK, Choices!Radios
<1> QED
  BY <1>1, <1>2
  DEF Choices!Init, OInv, Choices!RadioMeansSsc, Choices!BoxesAgree, Choices!Ignorable,
      Choices!Boxes

\* What verify_form demands has no entry that is barred.
LEMMA OptionsFill ==
    ASSUME OInv
    PROVE  Choices!DemandedCanBeFilled
<1> SUFFICES ASSUME window = "window2", NEW f \in Choices!Fields, Choices!Demanded(f),
                    NEW v \in Choices!WidgetsOf(f)
             PROVE  sensitive[v]
  BY DEF Choices!DemandedCanBeFilled
<1>1. f \in Handled
  BY DEF Handled, Choices!WidgetsOf, Choices!Boxes, Choices!Prev
<1>2. ~ignore[f] /\ ~(f \in Choices!Prev /\ ssc)
  BY <1>1 DEF Choices!Demanded, Handled, Choices!Ignorable
<1> QED
  BY <1>1, <1>2 DEF OInv

\* Turning the flag and the entries of a box over together keeps them together.
LEMMA ClickKeeps ==
    ASSUME OInv, NEW b \in Choices!Boxes, Choices!ClickBox(b)
    PROVE  OInv'
<1>1. /\ options = "shown" /\ box' = [box EXCEPT ![b] = ~@] /\ result' = "none"
      /\ UNCHANGED <<window, radio, toggles, ssc, options, valid>>
  BY DEF Choices!ClickBox
<1>2. window = "window2"
  BY <1>1 DEF OInv
<1>3. /\ box \in [Choices!Boxes -> BOOLEAN] /\ ignore \in [Choices!Ignorable -> BOOLEAN]
      /\ sensitive \in [Choices!Widgets -> BOOLEAN]
      /\ Choices!Boxes \subseteq Choices!Ignorable
  BY DEF OInv, Choices!TypeOK, Choices!Ignorable
<1>4. CASE Choices!HandlerActs(b)
  <2>1. /\ ignore' = [ignore EXCEPT ![b] = ~@]
        /\ sensitive' = [v \in Choices!Widgets |-> IF v \in Choices!WidgetsOf(b)
                            THEN ~sensitive[v] ELSE sensitive[v]]
    BY <1>4 DEF Choices!ClickBox
  <2>2. b \in Handled /\ (b \in Choices!Prev => ~ssc)
    BY <1>4 DEF Choices!HandlerActs, Handled
  <2>3. Choices!TypeOK'
    <3>1. ignore' \in [Choices!Ignorable -> BOOLEAN] /\ box' \in [Choices!Boxes -> BOOLEAN]
      BY <1>1, <1>3, <2>1
    <3>2. sensitive' \in [Choices!Widgets -> BOOLEAN]
      BY <1>3, <2>1
    <3> QED
      BY <1>1, <3>1, <3>2 DEF OInv, Choices!TypeOK
  <2>4. ~ignore'["totlist"] /\ ~ignore'["birthdate"]
    BY <1>3, <2>1, <2>2
    DEF OInv, Handled, Choices!Boxes, Choices!Prev, Choices!Ignorable
  <2>5. ASSUME NEW a \in Handled, NEW v \in Choices!WidgetsOf(a)
        PROVE  sensitive'[v] <=> ~ignore'[a] /\ ~(a \in Choices!Prev /\ ssc')
    <3>1. v \in Choices!Widgets /\ a \in Choices!Ignorable
      BY DEF Choices!Widgets, Handled, Choices!Ignorable
    <3>2. sensitive[v] <=> ~ignore[a] /\ ~(a \in Choices!Prev /\ ssc)
      BY <1>2 DEF OInv
    <3>3. CASE a = b
      <4>1. sensitive'[v] = ~sensitive[v] /\ ignore'[a] = ~ignore[a]
        BY <3>1, <3>3, <2>1, <1>3
      <4> QED
        BY <4>1, <3>2, <3>3, <2>2, <1>1
    <3>4. CASE a # b
      <4>1. v \notin Choices!WidgetsOf(b)
        BY <3>4, <2>2, OwnWidgets
      <4>2. sensitive'[v] = sensitive[v] /\ ignore'[a] = ignore[a]
        BY <3>1, <3>4, <4>1, <2>1, <1>3
      <4> QED
        BY <4>2, <3>2, <1>1
    <3> QED
      BY <3>3, <3>4
  <2>6. Choices!BoxesAgree'
    <3> SUFFICES ASSUME NEW a \in Choices!Boxes, Choices!HandlerActs(a)
                 PROVE  ignore'[a] <=> (box'[a] # (a = "photo"))
      BY <1>1 DEF Choices!BoxesAgree, Choices!HandlerActs
    <3>1. ignore[a] <=> (box[a] # (a = "photo"))
      BY <1>1 DEF OInv, Choices!BoxesAgree
    <3>2. CASE a = b
      <4>1. ignore'[a] = ~ignore[a] /\ box'[a] = ~box[a] /\ box[a] \in BOOLEAN
        BY <3>2, <1>1, <1>3, <2>1
      <4> QED
        BY <3>1, <4>1
    <3>3. CASE a # b
      <4>1. ignore'[a] = ignore[a] /\ box'[a] = box[a]
        BY <3>3, <1>1, <1>3, <2>1
      <4> QED
        BY <3>1, <4>1
    <3> QED
      BY <3>2, <3>3
  <2> QED
    BY <1>1, <1>2, <2>3, <2>4, <2>5, <2>6 DEF OInv, Choices!RadioMeansSsc
<1>5. CASE ~Choices!HandlerActs(b)
  <2>1. UNCHANGED <<ignore, sensitive>>
    BY <1>5 DEF Choices!ClickBox
  <2>2. Choices!TypeOK'
    <3>1. box' \in [Choices!Boxes -> BOOLEAN]
      BY <1>1, <1>3
    <3> QED
      BY <1>1, <2>1, <3>1 DEF OInv, Choices!TypeOK
  <2>3. Choices!BoxesAgree'
    <3> SUFFICES ASSUME NEW a \in Choices!Boxes, Choices!HandlerActs(a)
                 PROVE  ignore'[a] <=> (box'[a] # (a = "photo"))
      BY <1>1 DEF Choices!BoxesAgree, Choices!HandlerActs
    <3>1. box'[a] = box[a] /\ (ignore[a] <=> (box[a] # (a = "photo")))
      BY <1>1, <1>3, <1>5 DEF OInv, Choices!BoxesAgree
    <3> QED
      BY <2>1, <3>1
  <2> QED
    BY <1>1, <1>2, <2>1, <2>2, <2>3 DEF OInv, Choices!RadioMeansSsc
<1> QED
  BY <1>4, <1>5

\* The steps that leave flags, boxes and entries alone.
LEMMA QuietKeeps ==
    ASSUME OInv, Choices!TypeOK',
           UNCHANGED <<window, radio, toggles, ssc, ignore, sensitive, box>>,
           window = "window2",
           options' = options \/ (options # "none" /\ options' # "none")
    PROVE  OInv'
<1>1. Choices!BoxesAgree'
  BY DEF OInv, Choices!BoxesAgree, Choices!HandlerActs
<1> QED
  BY <1>1 DEF OInv, Choices!RadioMeansSsc

\* The field that is refused is one, because some check is the first that fails.
LEMMA SavedField ==
    ASSUME Choices!Save, Choices!Refused # {}
    PROVE  result' \in Choices!Fields /\ UNCHANGED valid
<1> DEFINE least == CHOOSE i \in Choices!Refused : \A j \in Choices!Refused : i <= j
<1>1. result' = Choices!Checks[least] /\ UNCHANGED valid
  BY DEF Choices!Save
<1>2. least \in Choices!Refused
  <2>1. Choices!Refused \subseteq Nat
    BY DEF Choices!Refused
  <2> QED
    BY <2>1, LeastNumber
<1> QED
  BY <1>1, <1>2 DEF Choices!Refused, Choices!Fields

LEMMA SavedType ==
    ASSUME OInv, Choices!Save
    PROVE  Choices!TypeOK'
<1>1. UNCHANGED <<window, radio, toggles, ssc, ignore, sensitive, box, options>>
  BY DEF Choices!Save
<1>2. CASE Choices!Refused = {}
  <2>1. /\ result' = "saved"
        /\ valid' = [f \in Choices!Fields |->
                        valid[f] /\ (f \in Choices!Cleared => f \notin MCVarying)]
    BY <1>2 DEF Choices!Save
  <2>2. valid' \in [Choices!Fields -> BOOLEAN]
    BY <2>1
  <2> QED
    BY <1>1, <2>1, <2>2 DEF OInv, Choices!TypeOK
<1>3. CASE Choices!Refused # {}
  BY <1>1, <1>3, SavedField DEF OInv, Choices!TypeOK
<1> QED
  BY <1>2, <1>3

LEMMA OptionsStep ==
    ASSUME OInv, [Choices!Next]_choices
    PROVE  OInv'
<1>1. ASSUME NEW r \in Choices!Radios, Choices!ClickRadio(r)
      PROVE  OInv'
  <2>1. /\ window = "window1" /\ radio' = r /\ toggles' = <<radio, r>>
        /\ UNCHANGED <<window, ssc, ignore, sensitive, box, options, valid, result>>
    BY <1>1 DEF Choices!ClickRadio
  <2>2. radio \in Choices!Radios
    BY DEF OInv, Choices!TypeOK
  <2>3. /\ toggles' \in Seq(Choices!Radios) /\ Len(toggles') = 2 /\ toggles' # <<>>
        /\ toggles'[2] = r
    BY <2>1, <2>2
  <2>4. Choices!TypeOK'
    BY <2>1, <2>3 DEF OInv, Choices!TypeOK
  <2>5. Choices!RadioMeansSsc' /\ Choices!BoxesAgree'
    BY <2>1, <2>3 DEF OInv, Choices!RadioMeansSsc, Choices!BoxesAgree, Choices!HandlerActs
  <2> QED
    BY <2>1, <2>3, <2>4, <2>5 DEF OInv
<1>2. CASE Choices!RadioToggled
  <2>1. /\ toggles # <<>> /\ ssc' = (Head(toggles) = "ssc") /\ toggles' = Tail(toggles)
        /\ UNCHANGED <<window, radio, ignore, sensitive, box, options, valid, result>>
    BY <1>2 DEF Choices!RadioToggled
  <2>2. toggles \in Seq(Choices!Radios) /\ Len(toggles) <= 2 /\ window = "window1"
        /\ options = "none" /\ toggles[Len(toggles)] = radio
    BY <2>1 DEF OInv, Choices!TypeOK
  <2>3. Len(toggles) = 1 \/ Len(toggles) = 2
    <3>1. \A n \in Nat : n <= 2 => n = 0 \/ n = 1 \/ n = 2
      OBVIOUS
    <3>2. Len(toggles) \in Nat /\ Len(toggles) # 0
      BY <2>1, <2>2
    <3> QED
      BY <2>2, <3>1, <3>2
  <2>4. CASE Len(toggles) = 1
    <3>1. toggles' = <<>> /\ Head(toggles) = radio
      BY <2>1, <2>2, <2>4
    <3>2. toggles' \in Seq(Choices!Radios) /\ Len(toggles') <= 2
      BY <3>1
    <3>3. Choices!TypeOK'
      BY <2>1, <3>2 DEF OInv, Choices!TypeOK
    <3>4. Choices!RadioMeansSsc' /\ Choices!BoxesAgree'
      BY <2>1, <2>2, <3>1 DEF Choices!RadioMeansSsc, Choices!BoxesAgree
    <3> QED
      BY <2>1, <2>2, <3>1, <3>3, <3>4 DEF OInv
  <2>5. CASE Len(toggles) = 2
    <3>1. toggles' \in Seq(Choices!Radios) /\ Len(toggles') = 1 /\ toggles'[1] = radio
      BY <2>1, <2>2, <2>5
    <3>2. toggles' # <<>>
      BY <3>1
    <3>3. Choices!TypeOK'
      BY <2>1, <3>1 DEF OInv, Choices!TypeOK
    <3>4. Choices!RadioMeansSsc' /\ Choices!BoxesAgree'
      BY <2>1, <2>2, <3>2 DEF Choices!RadioMeansSsc, Choices!BoxesAgree
    <3> QED
      BY <2>1, <2>2, <3>1, <3>2, <3>3, <3>4 DEF OInv
  <2> QED
    BY <2>2, <2>3, <2>4, <2>5
<1>3. CASE Choices!Forward
  <2>1. Choices!TypeOK'
    BY <1>3 DEF Choices!Forward, OInv, Choices!TypeOK
  <2>2. Choices!RadioMeansSsc' /\ Choices!BoxesAgree'
    BY <1>3 DEF Choices!Forward, OInv, Choices!RadioMeansSsc, Choices!BoxesAgree
  <2> QED
    BY <1>3, <2>1, <2>2 DEF Choices!Forward, OInv
<1>4. CASE Choices!QueryOk
  <2>1. /\ window = "q_window" /\ window' = "window2" /\ ignore' = Choices!init_ignored
        /\ sensitive' = [v \in Choices!Widgets |->
                            /\ ~(v = "button4" /\ Choices!init_ignored["photo"])
                            /\ ~(ssc /\ v \in Choices!SscDisabled)]
        /\ UNCHANGED <<radio, toggles, ssc, box, options, valid, result>>
    BY <1>4 DEF Choices!QueryOk
  <2>2. options = "none" /\ toggles = <<>>
    BY <2>1 DEF OInv
  <2>3. \A b \in Choices!Ignorable : Choices!init_ignored[b] = (b = "photo")
    BY DEF Choices!init_ignored
  <2>4. Choices!TypeOK'
    <3>1. ignore' \in [Choices!Ignorable -> BOOLEAN]
      BY <2>1 DEF Choices!init_ignored
    <3>2. sensitive' \in [Choices!Widgets -> BOOLEAN]
      BY <2>1
    <3> QED
      BY <2>1, <3>1, <3>2 DEF OInv, Choices!TypeOK
  <2>5. Choices!RadioMeansSsc' /\ Choices!BoxesAgree'
    BY <2>1, <2>2 DEF OInv, Choices!RadioMeansSsc, Choices!BoxesAgree
  <2>6. ~ignore'["totlist"] /\ ~ignore'["birthdate"]
    BY <2>1, <2>3 DEF Choices!Ignorable, Choices!Boxes
  <2>7. ASSUME NEW b \in Handled, NEW v \in Choices!WidgetsOf(b)
        PROVE  sensitive'[v] <=> ~ignore'[b] /\ ~(b \in Choices!Prev /\ ssc')
    <3>1. v \in Choices!Widgets /\ b \in Choices!Ignorable /\ "photo" \in Choices!Ignorable
      BY DEF Choices!Widgets, Handled, Choices!Ignorable, Choices!Boxes
    <3>2. sensitive'[v] <=> v # "button4" /\ ~(ssc /\ v \in Choices!SscDisabled)
      BY <2>1, <2>3, <3>1
    <3>3. ignore'[b] <=> b = "photo"
      BY <2>1, <2>3, <3>1
    <3>4. v = "button4" <=> b = "photo"
      BY DEF Handled, Choices!Boxes, Choices!Prev, Choices!WidgetsOf
    <3>5. v \in Choices!SscDisabled <=> b \in Choices!Prev
      BY DEF Handled, Choices!Boxes, Choices!Prev, Choices!WidgetsOf, Choices!SscDisabled
    <3> QED
      BY <2>1, <3>2, <3>3, <3>4, <3>5
  <2> QED
    BY <2>1, <2>2, <2>4, <2>5, <2>6, <2>7 DEF OInv
<1>5. CASE Choices!OpenOptions
  <2>1. /\ window = "window2" /\ options \in {"none", "hidden"} /\ options' = "shown"
        /\ box' = IF options = "none" THEN [b \in Choices!Boxes |-> FALSE] ELSE box
        /\ result' = "none"
        /\ UNCHANGED <<window, radio, toggles, ssc, ignore, sensitive, valid>>
    BY <1>5 DEF Choices!OpenOptions
  <2>2. Choices!TypeOK'
    <3>1. box' \in [Choices!Boxes -> BOOLEAN]
      BY <2>1 DEF OInv, Choices!TypeOK
    <3> QED
      BY <2>1, <3>1 DEF OInv, Choices!TypeOK
  <2>3. CASE options = "none"
    <3>1. ignore = Choices!init_ignored
      BY <2>1, <2>3 DEF OInv
    <3>2. Choices!BoxesAgree'
      BY <2>1, <2>3, <3>1 DEF Choices!BoxesAgree, Choices!init_ignored, Choices!Ignorable
    <3> QED
      BY <2>1, <2>2, <3>2 DEF OInv, Choices!RadioMeansSsc
  <2>4. CASE options # "none"
    BY <2>1, <2>2, <2>4, QuietKeeps
  <2> QED
    BY <2>3, <2>4
<1>6. CASE Choices!CloseOptions
  <2>1. Choices!TypeOK' /\ window = "window2"
    BY <1>6 DEF Choices!CloseOptions, OInv, Choices!TypeOK
  <2> QED
    BY <1>6, <2>1, QuietKeeps DEF Choices!CloseOptions
<1>7. CASE Choices!DeleteOptions
  <2>1. Choices!TypeOK' /\ window = "window2"
    BY <1>7 DEF Choices!DeleteOptions, OInv, Choices!TypeOK
  <2> QED
    BY <1>7, <2>1, QuietKeeps DEF Choices!DeleteOptions
<1>8. ASSUME NEW b \in Choices!Boxes, Choices!ClickBox(b)
      PROVE  OInv'
  BY <1>8, ClickKeeps
<1>9. ASSUME NEW f \in MCVarying, Choices!Type(f)
      PROVE  OInv'
  <2>1. Choices!TypeOK'
    <3>1. valid' \in [Choices!Fields -> BOOLEAN]
      BY <1>9 DEF Choices!Type, OInv, Choices!TypeOK
    <3> QED
      BY <1>9, <3>1 DEF Choices!Type, OInv, Choices!TypeOK
  <2> QED
    BY <1>9, <2>1, QuietKeeps DEF Choices!Type
<1>10. CASE Choices!Save
  <2>1. Choices!TypeOK'
    BY <1>10, SavedType
  <2> QED
    BY <1>10, <2>1, QuietKeeps DEF Choices!Save
<1>12. CASE Choices!SaveFails
  <2>1. Choices!TypeOK'
    BY <1>12 DEF Choices!SaveFails, OInv, Choices!TypeOK
  <2> QED
    BY <1>12, <2>1, QuietKeeps DEF Choices!SaveFails
<1>11. CASE UNCHANGED choices
  BY <1>11
  DEF choices, OInv, Choices!TypeOK, Choices!RadioMeansSsc, Choices!BoxesAgree,
      Choices!HandlerActs
<1> QED
  BY <1>1, <1>2, <1>3, <1>4, <1>5, <1>6, <1>7, <1>8, <1>9, <1>10, <1>11, <1>12
   DEF Choices!Next

\* A step that says "saved" is one of Save that refused nothing; what Save does
\* not demand is left out by a box, as a flag that is set means a box that is
\* checked or the photo, or is no part of the S. S. C. form.
LEMMA SavedStep ==
    ASSUME OInv, Choices!Next, result' = "saved", NEW f \in Choices!Fields
    PROVE  valid[f] \/ (f \in Choices!Boxes /\ box[f]) \/ (f \in Choices!Prev /\ radio = "ssc")
<1>1. Choices!Save
  <2>1. ASSUME NEW r \in Choices!Radios, Choices!ClickRadio(r)
        PROVE  FALSE
    BY <2>1 DEF Choices!ClickRadio, OInv
  <2>2. ~Choices!RadioToggled
    BY DEF Choices!RadioToggled, OInv
  <2>3. ~Choices!Forward /\ ~Choices!QueryOk
    BY DEF Choices!Forward, Choices!QueryOk, OInv
  <2>4. ~Choices!OpenOptions /\ ~Choices!CloseOptions /\ ~Choices!DeleteOptions
    BY DEF Choices!OpenOptions, Choices!CloseOptions, Choices!DeleteOptions
  <2>5. ASSUME NEW b \in Choices!Boxes, Choices!ClickBox(b)
        PROVE  FALSE
    BY <2>5 DEF Choices!ClickBox
  <2>6. ASSUME NEW g \in MCVarying, Choices!Type(g)
        PROVE  FALSE
    BY <2>6 DEF Choices!Type
  <2>7. ~Choices!SaveFails
    BY DEF Choices!SaveFails
  <2> QED
    BY <2>1, <2>2, <2>3, <2>4, <2>5, <2>6, <2>7 DEF Choices!Next
<1>2. window = "window2" /\ Choices!Refused = {}
  <2>1. CASE Choices!Refused # {}
    <3>1. result' \in Choices!Fields
      BY <1>1, <2>1, SavedField
    <3>2. "saved" \notin Choices!Fields
      BY DEF Choices!Fields, Choices!Checks
    <3> QED
      BY <3>1, <3>2
  <2> QED
    BY <1>1, <2>1 DEF Choices!Save
<1>3. CASE Choices!Demanded(f)
  <2>1. PICK i \in 1..Len(Choices!Checks) : f = Choices!Checks[i]
    BY DEF Choices!Fields
  <2> QED
    BY <1>2, <1>3, <2>1 DEF Choices!Refused
<1>4. CASE f \in Choices!Prev /\ ssc
  BY <1>2, <1>4 DEF OInv, Choices!RadioMeansSsc
<1>5. CASE f \in Choices!Ignorable /\ ignore[f] /\ ~(f \in Choices!Prev /\ ssc)
  <2>1. f \in Choices!Boxes /\ f # "birthdate" /\ f # "photo"
    BY <1>5 DEF OInv, Choices!Ignorable, Choices!Fields, Choices!Checks
  <2>2. Choices!HandlerActs(f)
    BY <1>5, <2>1 DEF Choices!HandlerActs
  <2>3. options # "none"
    <3>1. options = "none" => ignore = Choices!init_ignored
      BY <1>2 DEF OInv
    <3>2. ~Choices!init_ignored[f]
      BY <1>5, <2>1 DEF Choices!init_ignored
    <3> QED
      BY <1>5, <3>1, <3>2
  <2>4. ignore[f] <=> (box[f] # (f = "photo"))
    BY <2>1, <2>2, <2>3 DEF OInv, Choices!BoxesAgree
  <2>5. box[f] \in BOOLEAN
    BY <2>1 DEF OInv, Choices!TypeOK
  <2> QED
    BY <1>5, <2>1, <2>4, <2>5
<1> QED
  BY <1>3, <1>4, <1>5 DEF Choices!Demanded

-----------------------------------------------------------------------------
(* The subject codes *)

\* What the entries can hold.
Form  == [Subjects!Entries -> 0..999]
Places == Subjects!Entries \ {NumTotalSub}     \* all but the fourth subject's
SpecialAt(c) == {i \in Subjects!Entries : c[i] \in MCSpecial}
Demand(c) == IF Subjects!Fourth(c) = 0 THEN WithoutMin ELSE WithMin

\* No entry that is demanded has a fault.
Clean(c) == \A i \in Subjects!Entries :
                i <= Subjects!TotalSub(c) => Subjects!EntryFault(c, i) = "none"

\* As many values as places, unless two places have the same.
LEMMA ImageCount ==
    ASSUME NEW c, NEW S, IsFiniteSet(S), NEW T, T = {c[i] : i \in S}
    PROVE  /\ IsFiniteSet(T) /\ Cardinality(T) <= Cardinality(S)
           /\ Cardinality(T) = Cardinality(S) <=> \A i, j \in S : c[i] = c[j] => i = j
<1> DEFINE f == [i \in S |-> c[i]]
<1>1. f \in Surjection(S, T)
  BY DEF Surjection
<1>2. f \in Injection(S, T) <=> \A i, j \in S : c[i] = c[j] => i = j
  <2>1. f \in [S -> T] /\ \A i \in S : f[i] = c[i]
    OBVIOUS
  <2> HIDE DEF f
  <2> QED
    BY <2>1 DEF Injection, IsInjective
<1> HIDE DEF f
<1> QED
  BY <1>1, <1>2, FS_Surjection

\* Subjects has the same Cardinality.
LEMMA SameCardinality ==
    ASSUME NEW S
    PROVE  Subjects!Cardinality(S) = Cardinality(S)
BY DEF Subjects!Cardinality, Cardinality

LEMMA UpTo ==
    ASSUME NEW n \in Nat
    PROVE  IsFiniteSet(1..n) /\ Cardinality(1..n) = n
BY FS_Interval

LEMMA SubjectsAssumed ==
    ASSUME ClientAssumption
    PROVE  Subjects!SubjectsAssumption
BY Zenon DEF ClientAssumption

LEMMA Lists ==
    ASSUME ClientAssumption
    PROVE  /\ MCSpecial \subseteq 1..999
           /\ \A x \in MCSubList : x \in Nat /\ x >= 100 /\ x <= 999
           /\ \A C \in MCCodes : C \subseteq 0..999 /\ 0 \in C
<1>1. MCSpecial \subseteq 1..999 /\ MCSubList \subseteq 100..999
  <2>1. MCSpecial \subseteq 1..999
    BY SubjectsAssumed, SMT DEF Subjects!SubjectsAssumption
  <2>2. MCSubList \subseteq 100..999
    BY SubjectsAssumed, SMT DEF Subjects!SubjectsAssumption
  <2> QED
    BY <2>1, <2>2
<1>2. MCCodes \subseteq SUBSET (0..999) /\ \A C \in MCCodes : 0 \in C
  BY SubjectsAssumed, SMT DEF Subjects!SubjectsAssumption
<1>3. \A x \in MCSubList : x \in Nat /\ x >= 100 /\ x <= 999
  BY <1>1
<1> QED
  BY <1>1, <1>2, <1>3

LEMMA Pairs ==
    ASSUME ClientAssumption
    PROVE  /\ MCPairs \in Seq(Seq(Nat))
           /\ \A i \in DOMAIN MCPairs : Subjects!PairLineOk(MCPairs[i])
BY SubjectsAssumed DEF Subjects!SubjectsAssumption

LEMMA Numbers ==
    ASSUME ClientAssumption
    PROVE  /\ NumTotalSub \in Nat /\ WithMin \in Nat /\ WithoutMin \in Nat
           /\ WithoutMin >= 1 /\ WithoutMin <= WithMin
           /\ IsFiniteSet(MCSpecial) /\ Cardinality(MCSpecial) \in Nat
           /\ WithMin + Cardinality(MCSpecial) < NumTotalSub
           /\ NumTotalSub \in Subjects!Entries
<1>1. NumTotalSub \in Nat /\ WithMin \in Nat /\ WithoutMin \in 1..WithMin
  BY SubjectsAssumed DEF Subjects!SubjectsAssumption
<1>2. IsFiniteSet(MCSpecial) /\ Cardinality(MCSpecial) \in Nat
  <2> DEFINE m == 999
  <2>1. m \in Nat /\ MCSpecial \in SUBSET (1..m)
    BY Lists
  <2> HIDE DEF m
  <2>2. IsFiniteSet(1..m)
    BY <2>1, UpTo
  <2>3. IsFiniteSet(MCSpecial)
    BY <2>1, <2>2, FS_Subset
  <2> QED
    BY <2>3, FS_CardinalityType
<1>3. WithMin + Cardinality(MCSpecial) + 1 <= NumTotalSub
  <2>1. WithMin + Subjects!Cardinality(MCSpecial) + 1 <= NumTotalSub
    BY SubjectsAssumed, SMT DEF Subjects!SubjectsAssumption
  <2> QED
    BY <2>1, SameCardinality, Zenon
<1>4. WithMin + Cardinality(MCSpecial) < NumTotalSub /\ NumTotalSub >= 1
  BY <1>1, <1>2, <1>3
<1> QED
  BY <1>1, <1>2, <1>4 DEF Subjects!Entries

\* How many entries are demanded is a number, that of the special codes included.
LEMMA TotalSubType ==
    ASSUME ClientAssumption, NEW c \in Form
    PROVE  /\ IsFiniteSet(SpecialAt(c)) /\ Cardinality(SpecialAt(c)) \in Nat
           /\ Demand(c) \in Nat /\ Demand(c) >= 1 /\ Demand(c) <= WithMin
           /\ Subjects!TotalSub(c) \in Nat /\ Subjects!TotalSub(c) >= 1
           /\ Subjects!TotalSub(c) = Demand(c) + Cardinality(SpecialAt(c))
<1>1. IsFiniteSet(SpecialAt(c)) /\ Cardinality(SpecialAt(c)) \in Nat
  <2>1. IsFiniteSet(1..NumTotalSub)
    BY Numbers, UpTo
  <2>2. SpecialAt(c) \in SUBSET (1..NumTotalSub)
    BY DEF SpecialAt, Subjects!Entries
  <2> QED
    BY <2>1, <2>2, FS_Subset, FS_CardinalityType, Zenon
<1>2. Demand(c) \in Nat /\ Demand(c) >= 1 /\ Demand(c) <= WithMin
  <2>1. Demand(c) = WithoutMin \/ Demand(c) = WithMin
    BY DEF Demand
  <2> QED
    BY <2>1, Numbers
<1>3. Subjects!TotalSub(c) = Demand(c) + Cardinality(SpecialAt(c))
  BY SameCardinality DEF Subjects!TotalSub, Demand, SpecialAt
<1> QED
  BY <1>1, <1>2, <1>3

\* An entry without a fault holds a code of the list that no earlier one holds.
LEMMA CleanEntry ==
    ASSUME ClientAssumption, NEW c \in Form, NEW i \in Subjects!Entries
    PROVE  Subjects!EntryFault(c, i) = "none" <=>
               c[i] \in MCSubList /\ \A j \in 1..i - 1 : c[j] # c[i]
<1>1. c[i] \in Nat /\ c[i] <= 999
  BY DEF Form
<1>2. \A x \in MCSubList : x \in Nat /\ x >= 100 /\ x <= 999
  BY Lists
<1>3. CASE c[i] = 0
  <2>1. c[i] \notin MCSubList
    BY <1>2, <1>3
  <2>2. Subjects!EntryFault(c, i) = "empty"
    BY <1>3, <2>1 DEF Subjects!EntryFault
  <2> QED
    BY <2>1, <2>2
<1>4. CASE c[i] >= 1 /\ c[i] <= 99
  <2>1. c[i] \notin MCSubList
    BY <1>2, <1>4
  <2>2. Subjects!EntryFault(c, i) = "short"
    BY <1>1, <1>4, <2>1 DEF Subjects!EntryFault
  <2> QED
    BY <2>1, <2>2
<1>5. CASE c[i] >= 100 /\ c[i] \notin MCSubList
  <2>1. Subjects!EntryFault(c, i) = "unlisted"
    BY <1>1, <1>5 DEF Subjects!EntryFault
  <2> QED
    BY <1>5, <2>1
<1>6. CASE c[i] \in MCSubList
  <2>1. c[i] # 0 /\ ~(c[i] \in 1..99)
    BY <1>2, <1>6
  <2> QED
    BY <1>6, <2>1 DEF Subjects!EntryFault
<1> QED
  BY <1>1, <1>3, <1>4, <1>5, <1>6

LEMMA EntryFaults ==
    ASSUME ClientAssumption, NEW c \in Form, NEW i \in Subjects!Entries
    PROVE  Subjects!EntryFault(c, i) \in {"empty", "short", "unlisted", "duplicate", "none"}
BY DEF Subjects!EntryFault

LEMMA EntryHas ==
    ASSUME ClientAssumption, NEW c \in Form, NEW i \in Subjects!Entries
    PROVE  /\ Subjects!EntryFault(c, i) \in {"short", "unlisted"} => c[i] # 0
           /\ Subjects!EntryFault(c, i) = "duplicate" => \E j \in 1..i - 1 : c[j] = c[i]
BY DEF Subjects!EntryFault

\* The demanded entries of a clean form are filled with codes of the list, each
\* once.
LEMMA CleanForm ==
    ASSUME ClientAssumption, NEW c \in Form, Clean(c)
    PROVE  /\ \A i \in Subjects!Entries : i <= Subjects!TotalSub(c) => c[i] \in MCSubList /\ c[i] # 0
           /\ \A i, j \in Subjects!Entries :
                 i <= Subjects!TotalSub(c) /\ j <= Subjects!TotalSub(c) /\ c[i] = c[j] => i = j
<1>1. ASSUME NEW i \in Subjects!Entries, i <= Subjects!TotalSub(c)
      PROVE  c[i] \in MCSubList /\ \A j \in 1..i - 1 : c[j] # c[i]
  <2>1. Subjects!EntryFault(c, i) = "none"
    BY <1>1 DEF Clean
  <2> QED
    BY <2>1, CleanEntry
<1>2. \A x \in MCSubList : x # 0
  BY Lists
<1>3. ASSUME NEW i \in Subjects!Entries, NEW j \in Subjects!Entries,
             i <= Subjects!TotalSub(c), j <= Subjects!TotalSub(c), c[i] = c[j]
      PROVE  i = j
  <2>1. i \in Nat /\ j \in Nat /\ i >= 1 /\ j >= 1
    BY Numbers DEF Subjects!Entries
  <2>2. ~(i < j)
    <3>1. i < j => i \in 1..j - 1
      BY <2>1
    <3> QED
      BY <1>1, <1>3, <3>1
  <2>3. ~(j < i)
    <3>1. j < i => j \in 1..i - 1
      BY <2>1
    <3> QED
      BY <1>1, <1>3, <3>1
  <2> QED
    BY <2>1, <2>2, <2>3
<1> QED
  BY <1>1, <1>2, <1>3

\* A clean form has room for what is demanded: the fourth subject's entry is
\* never among the demanded ones, and no entry after the last is looked at.
LEMMA CleanBound ==
    ASSUME ClientAssumption, NEW c \in Form, Clean(c)
    PROVE  Subjects!TotalSub(c) < NumTotalSub
<1> SUFFICES ASSUME Subjects!TotalSub(c) >= NumTotalSub
             PROVE  FALSE
  BY Numbers, TotalSubType
<1>1. \A i \in Subjects!Entries : i <= Subjects!TotalSub(c)
  BY Numbers, TotalSubType DEF Subjects!Entries
<1>2. \A i, j \in SpecialAt(c) : c[i] = c[j] => i = j
  BY <1>1, CleanForm DEF SpecialAt
<1> DEFINE T == {c[i] : i \in SpecialAt(c)}
<1>3. T \in SUBSET MCSpecial
  BY DEF SpecialAt
<1>4. Cardinality(T) = Cardinality(SpecialAt(c))
  <2>1. IsFiniteSet(SpecialAt(c))
    BY TotalSubType
  <2> QED
    BY <1>2, <2>1, ImageCount
<1> HIDE DEF T
<1>5. Cardinality(T) <= Cardinality(MCSpecial)
  BY <1>3, Numbers, FS_Subset
<1>6. Cardinality(SpecialAt(c)) <= Cardinality(MCSpecial)
  BY <1>4, <1>5
<1> QED
  BY <1>6, Numbers, TotalSubType

\* Of the lines of one key the last counts, and it has partners.
LEMMA PartnersLine ==
    ASSUME ClientAssumption, NEW k, Subjects!PairLinesOf(k) # {}
    PROVE  \E line \in Seq(Nat) :
              /\ Subjects!Partners(k) = Tail(line) /\ Len(line) > 1
              /\ Subjects!PairLineOk(line)
<1> DEFINE S == Subjects!PairLinesOf(k)
           last == CHOOSE i \in S : \A j \in S : j <= i
<1>1. S \subseteq 1..Len(MCPairs) /\ Len(MCPairs) \in Nat
  BY Pairs DEF Subjects!PairLinesOf
<1>2. \E i \in S : \A j \in S : j <= i
  <2> DEFINE Rest == {n \in 0..Len(MCPairs) : Len(MCPairs) - n \in S}
             n == CHOOSE i \in Rest : \A j \in Rest : i <= j
  <2>1. Rest \in SUBSET Nat
    OBVIOUS
  <2>2. Rest # {}
    <3>1. PICK i \in S : TRUE
      OBVIOUS
    <3>2. Len(MCPairs) - i \in 0..Len(MCPairs) /\ Len(MCPairs) - (Len(MCPairs) - i) = i
      BY <1>1, <3>1
    <3>3. Len(MCPairs) - i \in Rest
      BY <3>1, <3>2
    <3> QED
      BY <3>3
  <2>3. n \in Rest /\ \A j \in Rest : n <= j
    <3> HIDE DEF Rest
    <3> QED
      BY <2>1, <2>2, LeastNumber
  <2>4. ASSUME NEW j \in S
        PROVE  j <= Len(MCPairs) - n
    <3> HIDE DEF n
    <3>1. Len(MCPairs) - j \in Nat /\ Len(MCPairs) - j \in 0..Len(MCPairs)
          /\ Len(MCPairs) - (Len(MCPairs) - j) = j
      BY <1>1, <2>4
    <3>2. n <= Len(MCPairs) - j /\ n \in Nat
      BY <2>1, <2>3, <2>4, <3>1
    <3> QED
      BY <1>1, <2>4, <3>2
  <2>5. Len(MCPairs) - n \in S
    BY <2>3
  <2> HIDE DEF n
  <2> QED
    BY <2>4, <2>5
<1>3. last \in S
  BY <1>2
<1>4. Subjects!Partners(k) = Tail(MCPairs[last])
  BY DEF Subjects!Partners
<1> HIDE DEF last
<1>5. Len(MCPairs[last]) > 1
  BY <1>3 DEF Subjects!PairLinesOf
<1>6. MCPairs[last] \in Seq(Nat) /\ Subjects!PairLineOk(MCPairs[last])
  BY <1>1, <1>3, Pairs
<1> QED
  BY <1>4, <1>5, <1>6

\* The loop of paircheck finds a match exactly if the line is kept.
LEMMA PairsMatch ==
    ASSUME ClientAssumption, NEW k, NEW F
    PROVE  Subjects!LineKept(k, F)
              <=> Subjects!PairLinesOf(k) = {} \/ Subjects!Matching(Subjects!Partners(k), F)
<1> SUFFICES ASSUME Subjects!PairLinesOf(k) # {}
             PROVE  Subjects!LineKept(k, F) <=> Subjects!Matching(Subjects!Partners(k), F)
  BY DEF Subjects!LineKept
<1>1. PICK line \in Seq(Nat) :
         /\ Subjects!Partners(k) = Tail(line) /\ Len(line) > 1
         /\ Subjects!PairLineOk(line)
  BY PartnersLine
<1> DEFINE p == Subjects!Partners(k)
           hits == {i \in DOMAIN p : p[i] \in F \ {1, 2}}
           listed == {p[i] : i \in DOMAIN p} \ {1, 2}
<1>2. /\ p \in Seq(Nat) /\ Len(p) = Len(line) - 1 /\ DOMAIN p = 1..Len(p)
      /\ \A i \in 1..Len(p) : p[i] = line[i + 1]
  BY <1>1
<1>3. /\ Len(p) \in Nat /\ Len(p) >= 1
      /\ \/ \A i \in 1..Len(p) : p[i] # 2
         \/ /\ Len(p) = 3 /\ p[1] = 2
            /\ p[2] \notin {1, 2} /\ p[3] \notin {1, 2}
  <2>1. Len(line) \in Nat /\ Len(line) > 1
    BY <1>1
  <2>2. CASE \A i \in 2..Len(line) : line[i] # 2
    <3>1. ASSUME NEW i \in 1..Len(p)
          PROVE  p[i] # 2
      <4>1. i + 1 \in 2..Len(line)
        BY <1>2, <2>1
      <4> QED
        BY <1>2, <2>2, <4>1
    <3> QED
      BY <1>2, <2>1, <3>1
  <2>3. CASE /\ Len(line) = 4 /\ line[2] = 2
             /\ line[3] \notin {1, 2} /\ line[4] \notin {1, 2}
    <3>1. Len(p) = 3
      BY <1>2, <2>3
    <3>2. p[1] = line[1 + 1] /\ p[2] = line[2 + 1] /\ p[3] = line[3 + 1]
      <4>1. 1 \in 1..Len(p) /\ 2 \in 1..Len(p) /\ 3 \in 1..Len(p)
        BY <3>1
      <4> QED
        BY <1>2, <4>1, Zenon
    <3> QED
      BY <2>3, <3>1, <3>2
  <2>4. \/ \A i \in 2..Len(line) : line[i] # 2
        \/ /\ Len(line) = 4 /\ line[2] = 2
           /\ line[3] \notin {1, 2} /\ line[4] \notin {1, 2}
    BY <1>1 DEF Subjects!PairLineOk
  <2> QED
    BY <2>2, <2>3, <2>4, Zenon
<1>4. Subjects!LineKept(k, F) <=> IF p[1] = 2 THEN listed \subseteq F ELSE listed \cap F # {}
  BY DEF Subjects!LineKept
<1>5. Subjects!Matching(p, F) <=>
         \E i \in hits : \/ \A l \in 1..i : p[l] # 2
                         \/ \E j \in hits : j < i /\ \A l \in j..i : p[l] # 2
  BY DEF Subjects!Matching
<1> HIDE DEF p
<1>6. CASE \A i \in 1..Len(p) : p[i] # 2
  <2>1. p[1] # 2
    BY <1>3, <1>6
  <2>2. ASSUME NEW i \in hits
        PROVE  \A l \in 1..i : p[l] # 2
    <3>1. i \in 1..Len(p)
      BY <1>2, <2>2
    <3> QED
      BY <1>3, <1>6, <3>1
  <2>3. Subjects!Matching(p, F) <=> hits # {}
    <3> HIDE DEF hits
    <3> QED
      BY <1>5, <2>2
  <2>4. hits # {} <=> listed \cap F # {}
    OBVIOUS
  <2> QED
    BY <1>4, <2>1, <2>3, <2>4 DEF p
<1>7. CASE /\ Len(p) = 3 /\ p[1] = 2 /\ p[2] \notin {1, 2} /\ p[3] \notin {1, 2}
  <2>1. DOMAIN p = {1, 2, 3}
    <3>1. 1..3 = {1, 2, 3}
      OBVIOUS
    <3> QED
      BY <1>2, <1>7, <3>1
  <2>2. listed = {p[2], p[3]}
    BY <1>7, <2>1
  <2>3. hits = {i \in {2, 3} : p[i] \in F}
    BY <1>7, <2>1
  <2>4. ASSUME NEW i \in hits
        PROVE  ~(\A l \in 1..i : p[l] # 2)
    <3>1. 1 \in 1..i
      BY <2>3, <2>4
    <3> QED
      BY <1>7, <3>1
  <2>5. Subjects!Matching(p, F) <=> 2 \in hits /\ 3 \in hits
    <3>1. ASSUME NEW i \in hits, NEW j \in hits, j < i
          PROVE  j = 2 /\ i = 3
      BY <2>3, <3>1
    <3>2. \A l \in 2..3 : p[l] # 2
      <4>1. \A l \in 2..3 : l = 2 \/ l = 3
        OBVIOUS
      <4> QED
        BY <1>7, <4>1
    <3> HIDE DEF hits
    <3>3. ASSUME 2 \in hits, 3 \in hits
          PROVE  Subjects!Matching(p, F)
      BY <1>5, <3>2, <3>3
    <3>4. ASSUME Subjects!Matching(p, F)
          PROVE  2 \in hits /\ 3 \in hits
      BY <1>5, <2>4, <3>1, <3>4
    <3> QED
      BY <3>3, <3>4
  <2>6. Subjects!LineKept(k, F) <=> listed \subseteq F
    BY <1>4, <1>7
  <2> QED
    <3>1. listed \subseteq F <=> 2 \in hits /\ 3 \in hits
      <4>1. (2 \in hits <=> p[2] \in F) /\ (3 \in hits <=> p[3] \in F)
        BY <2>3
      <4>2. listed \subseteq F <=> p[2] \in F /\ p[3] \in F
        BY <2>2
      <4> QED
        BY <4>1, <4>2
    <3> HIDE DEF listed, hits
    <3> QED
      BY <2>5, <2>6, <3>1 DEF p
<1> QED
  BY <1>3, <1>6, <1>7

\* The codes demanded, and where something stands behind them.
Demanded(c) == {c[i] : i \in 1..Subjects!TotalSub(c)}
Bad(c)      == Subjects!Mismatched(c, Subjects!TotalSub(c))
Extra(c)    == {i \in Places : i > Subjects!TotalSub(c) /\ c[i] # 0}
NoFourth(c) == Subjects!TotalSub(c) >= WithMin
               /\ \A i \in 1..Subjects!TotalSub(c) : c[i] # Subjects!Fourth(c)

\* The ways through verify_subject_codes_by_group.
ErrorWay(c, v)  == v.what = "error" /\ v.at = 0
FourthWay(c, v) == /\ v.what \in {"short", "fourth"} /\ v.at = NumTotalSub
                   /\ Subjects!Fourth(c) # 0
                   /\ v.what = "short" => Subjects!Fourth(c) < 100
                   /\ v.what = "fourth" => Subjects!Fourth(c) \notin MCFourth
EntryWay(c, v)  == /\ v.at \in Subjects!Entries /\ v.at <= Subjects!TotalSub(c)
                   /\ v.what = Subjects!EntryFault(c, v.at) /\ v.what # "none"
PairWay(c, v)   == Clean(c) /\ v.what = "pair" /\ v.at \in Bad(c)
NoneWay(c, v)   == Clean(c) /\ v.what = "nofourth" /\ v.at = 0 /\ NoFourth(c)
ExtraWay(c, v)  == Clean(c) /\ v.what = "extra" /\ v.at \in Extra(c)
OkWay(c, v)     == /\ Clean(c) /\ v.what = "ok" /\ v.at = 0 /\ Bad(c) = {} /\ ~NoFourth(c)
                   /\ Extra(c) = {}
                   /\ Subjects!Fourth(c) # 0 => Subjects!Fourth(c) \in MCFourth

LEMMA LeastIn ==
    ASSUME NEW S \in SUBSET Nat, S # {}
    PROVE  Subjects!Least(S) \in S
BY LeastNumber DEF Subjects!Least

LEMMA VerdictWays ==
    ASSUME ClientAssumption, NEW c \in Form, NEW v, v = Subjects!Verdict(c)
    PROVE  \/ ErrorWay(c, v) \/ FourthWay(c, v) \/ EntryWay(c, v) \/ PairWay(c, v)
           \/ NoneWay(c, v) \/ ExtraWay(c, v) \/ OkWay(c, v)
<1> DEFINE Says(what, at) == [what |-> what, at |-> at]
           n == Subjects!TotalSub(c)
           faulty == {i \in Subjects!Entries : i <= n /\ Subjects!EntryFault(c, i) # "none"}
           fault == Subjects!PairFault(c, n)
<1>1. v = IF ~({"sub", "fourth"} \subseteq readable) THEN Says("error", 0)
          ELSE IF Subjects!Fourth(c) # 0 /\ Subjects!Fourth(c) < 100
            THEN Says("short", NumTotalSub)
          ELSE IF Subjects!Fourth(c) # 0 /\ Subjects!Fourth(c) \notin MCFourth
            THEN Says("fourth", NumTotalSub)
          ELSE IF "special" \notin readable THEN Says("error", 0)
          ELSE IF faulty # {}
            THEN Says(Subjects!EntryFault(c, Subjects!Least(faulty)), Subjects!Least(faulty))
          ELSE IF "pair" \notin readable /\ ~pairhtable THEN Says("error", 0)
          ELSE IF fault # 0 THEN Says("pair", fault)
          ELSE IF NoFourth(c) THEN Says("nofourth", 0)
          ELSE IF Extra(c) # {} THEN Says("extra", Subjects!Least(Extra(c)))
          ELSE Says("ok", 0)
  BY DEF Subjects!Verdict, NoFourth, Extra, Places
<1>2. faulty \in SUBSET Nat /\ Extra(c) \in SUBSET Nat
  BY DEF Subjects!Entries, Extra, Places
<1>3. fault = IF Bad(c) = {} THEN 0 ELSE Subjects!Least(Bad(c))
  BY DEF Subjects!PairFault, Bad
<1>4. Bad(c) \in SUBSET Nat /\ 0 \notin Bad(c)
  <2>1. Bad(c) \subseteq 1..n
    BY DEF Bad, Subjects!Mismatched
  <2> QED
    BY <2>1, TotalSubType
<1>5. fault # 0 => fault \in Bad(c)
  BY <1>3, <1>4, LeastIn
<1>6. fault = 0 => Bad(c) = {}
  BY <1>3, <1>4, LeastIn
<1>7. faulty # {} => Subjects!Least(faulty) \in faulty
  BY <1>2, LeastIn
<1>8. Extra(c) # {} => Subjects!Least(Extra(c)) \in Extra(c)
  BY <1>2, LeastIn
<1>9. faulty = {} => Clean(c)
  BY DEF Clean
<1> HIDE DEF fault
<1>10. CASE faulty # {} /\ v = Says(Subjects!EntryFault(c, Subjects!Least(faulty)),
                                  Subjects!Least(faulty))
  <2>1. EntryWay(c, v)
    BY <1>7, <1>10 DEF EntryWay
  <2> QED
    BY <2>1
<1>11. CASE v = Says("error", 0)
  BY <1>11 DEF ErrorWay
<1>12. CASE /\ Subjects!Fourth(c) # 0
            /\ \/ Subjects!Fourth(c) < 100 /\ v = Says("short", NumTotalSub)
               \/ Subjects!Fourth(c) \notin MCFourth /\ v = Says("fourth", NumTotalSub)
  BY <1>12 DEF FourthWay
<1>13. CASE faulty = {} /\ fault # 0 /\ v = Says("pair", fault)
  <2>1. v.what = "pair" /\ v.at = fault
    BY <1>13
  <2>2. Clean(c) /\ fault \in Bad(c)
    BY <1>5, <1>9, <1>13
  <2>3. PairWay(c, v)
    BY <2>1, <2>2, Zenon DEF PairWay
  <2> QED
    BY <2>3
<1>14. CASE faulty = {} /\ NoFourth(c) /\ v = Says("nofourth", 0)
  BY <1>9, <1>14 DEF NoneWay
<1>15. CASE faulty = {} /\ Extra(c) # {} /\ v = Says("extra", Subjects!Least(Extra(c)))
  BY <1>8, <1>9, <1>15 DEF ExtraWay
<1>16. CASE /\ faulty = {} /\ fault = 0 /\ ~NoFourth(c) /\ Extra(c) = {}
            /\ ~(Subjects!Fourth(c) # 0 /\ Subjects!Fourth(c) \notin MCFourth)
            /\ v = Says("ok", 0)
  BY <1>6, <1>9, <1>16 DEF OkWay
<1> HIDE DEF faulty, n, Says
<1> QED
  BY <1>1, <1>10, <1>11, <1>12, <1>13, <1>14, <1>15, <1>16

LEMMA VerdictOk ==
    ASSUME ClientAssumption, NEW c \in Form, NEW v, v = Subjects!Verdict(c), v.what = "ok"
    PROVE  OkWay(c, v)
<1>1. \/ ErrorWay(c, v) \/ FourthWay(c, v) \/ EntryWay(c, v) \/ PairWay(c, v)
      \/ NoneWay(c, v) \/ ExtraWay(c, v) \/ OkWay(c, v)
  BY VerdictWays, Zenon
<1>2. ~ErrorWay(c, v) /\ ~FourthWay(c, v) /\ ~PairWay(c, v) /\ ~NoneWay(c, v) /\ ~ExtraWay(c, v)
  BY DEF ErrorWay, FourthWay, PairWay, NoneWay, ExtraWay
<1>3. ~EntryWay(c, v)
  BY EntryFaults DEF EntryWay
<1> QED
  BY <1>1, <1>2, <1>3

\* What a verdict is made of.
LEMMA VerdictType ==
    ASSUME ClientAssumption, NEW c \in Form
    PROVE  /\ Subjects!Verdict(c).what \in Subjects!Verdicts
           /\ Subjects!Verdict(c).at \in 0..NumTotalSub
<1> SUFFICES ASSUME NEW v, v = Subjects!Verdict(c)
             PROVE  v.what \in Subjects!Verdicts /\ v.at \in 0..NumTotalSub
  OBVIOUS
<1>1. \/ ErrorWay(c, v) \/ FourthWay(c, v) \/ EntryWay(c, v) \/ PairWay(c, v)
      \/ NoneWay(c, v) \/ ExtraWay(c, v) \/ OkWay(c, v)
  BY VerdictWays, Zenon
<1>2. 0 \in 0..NumTotalSub /\ Subjects!Entries \subseteq 0..NumTotalSub
  BY Numbers DEF Subjects!Entries
<1>3. CASE ErrorWay(c, v)
  BY <1>2, <1>3 DEF ErrorWay, Subjects!Verdicts
<1>4. CASE FourthWay(c, v)
  BY <1>2, <1>4, Numbers DEF FourthWay, Subjects!Verdicts
<1>5. CASE EntryWay(c, v)
  <2>1. Subjects!EntryFault(c, v.at) \in {"empty", "short", "unlisted", "duplicate", "none"}
    BY <1>5, EntryFaults DEF EntryWay
  <2> QED
    BY <1>2, <1>5, <2>1 DEF EntryWay, Subjects!Verdicts
<1>6. CASE PairWay(c, v)
  <2>1. Bad(c) \subseteq 1..Subjects!TotalSub(c)
    BY DEF Bad, Subjects!Mismatched
  <2>2. Clean(c) /\ v.at \in Bad(c) /\ v.what = "pair"
    BY <1>6 DEF PairWay
  <2>3. Subjects!TotalSub(c) < NumTotalSub
    BY <2>2, CleanBound
  <2>4. 1..Subjects!TotalSub(c) \subseteq 0..NumTotalSub
    BY <2>3, Numbers, TotalSubType
  <2> QED
    BY <2>1, <2>2, <2>4 DEF Subjects!Verdicts
<1>7. CASE NoneWay(c, v)
  BY <1>2, <1>7 DEF NoneWay, Subjects!Verdicts
<1>8. CASE ExtraWay(c, v)
  BY <1>2, <1>8 DEF ExtraWay, Extra, Places, Subjects!Verdicts
<1>9. CASE OkWay(c, v)
  BY <1>2, <1>9 DEF OkWay, Subjects!Verdicts
<1> QED
  BY <1>1, <1>3, <1>4, <1>5, <1>6, <1>7, <1>8, <1>9

\* A form of which the first m entries are filled, up to the fourth subject's.
LEMMA FilledForm ==
    ASSUME ClientAssumption, NEW c \in Form, NEW m \in Nat, m < NumTotalSub,
           \A i \in Places : c[i] # 0 <=> i <= m
    PROVE  /\ 1..m \subseteq Places
           /\ Subjects!NumFilled(c) = m
           /\ Subjects!Filled(c) = {c[i] : i \in 1..m}
<1>1. 1..m \subseteq Places
  BY Numbers DEF Places, Subjects!Entries
<1>2. \A i \in Places : i \in Nat /\ i >= 1
  BY Numbers DEF Places, Subjects!Entries
<1>3. {i \in Places : c[i] # 0} = 1..m
  <2>1. ASSUME NEW i \in Places, c[i] # 0
        PROVE  i \in 1..m
    BY <1>2, <2>1
  <2>2. ASSUME NEW i \in 1..m
        PROVE  i \in Places /\ c[i] # 0
    BY <1>1, <2>2
  <2> QED
    BY <2>1, <2>2
<1>4. Subjects!NumFilled(c) = m
  <2>1. Subjects!NumFilled(c) = Cardinality({i \in Places : c[i] # 0})
    BY SameCardinality DEF Subjects!NumFilled, Places
  <2> QED
    BY <1>3, <2>1, UpTo
<1>5. Subjects!Filled(c) = {c[i] : i \in 1..m}
  <2>1. Subjects!Filled(c) = {c[i] : i \in Places} \ {0}
    BY DEF Subjects!Filled, Places
  <2> QED
    BY <1>3, <2>1
<1> QED
  BY <1>1, <1>4, <1>5

\* Of the special codes that are filled in, each is in some entry; they are as
\* many as these entries if no code is there twice.
LEMMA SpecialCount ==
    ASSUME ClientAssumption, NEW c \in Form, NEW m \in Nat, 1..m \subseteq Places,
           Subjects!Filled(c) = {c[i] : i \in 1..m}
    PROVE  /\ Subjects!Cardinality(Subjects!Filled(c) \cap MCSpecial) \in Nat
           /\ Subjects!Cardinality(Subjects!Filled(c) \cap MCSpecial)
                 <= Cardinality(SpecialAt(c))
           /\ SpecialAt(c) \subseteq 1..m
              /\ (\A i, j \in 1..m : c[i] = c[j] => i = j)
                 => Subjects!Cardinality(Subjects!Filled(c) \cap MCSpecial)
                       = Cardinality(SpecialAt(c))
<1> DEFINE At == {i \in 1..m : c[i] \in MCSpecial}
           T  == Subjects!Filled(c) \cap MCSpecial
<1>1. T = {c[i] : i \in At}
  OBVIOUS
<1>2. IsFiniteSet(SpecialAt(c)) /\ Cardinality(SpecialAt(c)) \in Nat
  BY TotalSubType
<1>3. At \in SUBSET SpecialAt(c)
  BY DEF SpecialAt, Places
<1>4. SpecialAt(c) \subseteq 1..m => At = SpecialAt(c)
  BY <1>3 DEF SpecialAt
<1>5. Subjects!Cardinality(T) = Cardinality(T)
  BY SameCardinality
<1> DEFINE once == \A i, j \in 1..m : c[i] = c[j] => i = j
<1>6. once => \A i, j \in At : c[i] = c[j] => i = j
  OBVIOUS
<1>7. IsFiniteSet(At) /\ Cardinality(At) \in Nat /\ Cardinality(At) <= Cardinality(SpecialAt(c))
  <2> HIDE DEF At
  <2>1. IsFiniteSet(At) /\ Cardinality(At) <= Cardinality(SpecialAt(c))
    BY <1>2, <1>3, FS_Subset
  <2> QED
    BY <2>1, FS_CardinalityType
<1>8. /\ IsFiniteSet(T) /\ Cardinality(T) <= Cardinality(At)
      /\ once => Cardinality(T) = Cardinality(At)
  <2> HIDE DEF At, T
  <2>1. /\ IsFiniteSet(T) /\ Cardinality(T) <= Cardinality(At)
        /\ Cardinality(T) = Cardinality(At) <=> \A i, j \in At : c[i] = c[j] => i = j
    BY <1>1, <1>7, ImageCount
  <2> HIDE DEF once
  <2> QED
    BY <1>6, <2>1
<1>9. Cardinality(T) \in Nat
  <2> HIDE DEF T
  <2> QED
    BY <1>8, FS_CardinalityType
<1> HIDE DEF At, T, once
<1>10. Cardinality(T) <= Cardinality(SpecialAt(c))
  BY <1>2, <1>7, <1>8, <1>9
<1>11. SpecialAt(c) \subseteq 1..m /\ once => Cardinality(T) = Cardinality(SpecialAt(c))
  BY <1>4, <1>8
<1> QED
  BY <1>5, <1>9, <1>10, <1>11 DEF T, once

\* A code among those demanded has no fault with its partners exactly if its
\* line is kept.
LEMMA BadIsUnkept ==
    ASSUME ClientAssumption, NEW c \in Form, NEW i
    PROVE  i \in Bad(c) <=> /\ i \in 1..Subjects!TotalSub(c)
                            /\ ~Subjects!LineKept(c[i], Demanded(c))
<1>1. i \in Bad(c) <=> /\ i \in 1..Subjects!TotalSub(c)
                       /\ Subjects!PairLinesOf(c[i]) # {}
                       /\ ~Subjects!Matching(Subjects!Partners(c[i]), Demanded(c))
  BY DEF Bad, Demanded, Subjects!Mismatched
<1>2. Subjects!LineKept(c[i], Demanded(c))
         <=> \/ Subjects!PairLinesOf(c[i]) = {}
             \/ Subjects!Matching(Subjects!Partners(c[i]), Demanded(c))
  BY PairsMatch
<1> QED
  BY <1>1, <1>2, Zenon

\* A form that is accepted keeps the rules.
LEMMA OkIsSound ==
    ASSUME ClientAssumption, NEW c \in Form, NEW v, OkWay(c, v)
    PROVE  /\ Subjects!Sound(c)
           /\ Subjects!NumFilled(c)
                >= Demand(c) + Subjects!Cardinality(Subjects!Filled(c) \cap MCSpecial)
<1> DEFINE m == Subjects!TotalSub(c)
<1>1. /\ Clean(c) /\ Bad(c) = {} /\ ~NoFourth(c) /\ Extra(c) = {}
      /\ Subjects!Fourth(c) # 0 => Subjects!Fourth(c) \in MCFourth
  BY DEF OkWay
<1>2. m \in Nat /\ m < NumTotalSub
  BY <1>1, TotalSubType, CleanBound
<1>3. \A i \in Subjects!Entries : i <= m => c[i] \in MCSubList /\ c[i] # 0
  BY <1>1, CleanForm
<1>4. ASSUME NEW i \in Places
      PROVE  c[i] # 0 <=> i <= m
  <2>1. i \in Subjects!Entries /\ i \in Nat
    BY DEF Places, Subjects!Entries
  <2>2. i <= m => c[i] # 0
    BY <1>3, <2>1
  <2>3. i > m => c[i] = 0
    BY <1>1 DEF Extra
  <2> HIDE DEF m
  <2> QED
    BY <1>2, <2>1, <2>2, <2>3
<1>5. /\ 1..m \subseteq Places /\ Subjects!NumFilled(c) = m
      /\ Subjects!Filled(c) = {c[i] : i \in 1..m}
  <2> HIDE DEF m
  <2> QED
    BY <1>2, <1>4, FilledForm
<1>6. \A i \in Places : (c[i] # 0) = (i <= Subjects!NumFilled(c))
  <2> HIDE DEF m
  <2> QED
    BY <1>4, <1>5
<1>7. Subjects!Cardinality(Subjects!Filled(c)) = Subjects!NumFilled(c)
  <2>1. \A i, j \in 1..m : c[i] = c[j] => i = j
    <3>1. \A i \in 1..m : i \in Subjects!Entries /\ i <= m
      <4> HIDE DEF m
      <4> QED
        BY <1>2, <1>5 DEF Places
    <3> QED
      BY <1>1, <3>1, CleanForm
  <2> HIDE DEF m
  <2>2. IsFiniteSet(1..m) /\ Cardinality(1..m) = m
    BY <1>2, UpTo
  <2>3. Cardinality(Subjects!Filled(c)) = Cardinality(1..m)
    <3> DEFINE S == 1..m
               T == Subjects!Filled(c)
    <3>1. T = {c[i] : i \in S} /\ IsFiniteSet(S)
      BY <1>5, <2>2, Zenon
    <3>2. \A i, j \in S : c[i] = c[j] => i = j
      BY <2>1
    <3> HIDE DEF S, T
    <3>3. Cardinality(T) = Cardinality(S)
      BY <3>1, <3>2, ImageCount
    <3> QED
      BY <3>3 DEF S, T
  <2> QED
    BY <1>5, <2>2, <2>3, SameCardinality
<1>8. Subjects!Filled(c) \subseteq MCSubList
  <2>1. \A i \in 1..m : i \in Subjects!Entries /\ i <= m
    <3> HIDE DEF m
    <3> QED
      BY <1>2, <1>5 DEF Places
  <2> QED
    BY <1>3, <1>5, <2>1
<1>9. Subjects!PairRule(Subjects!Filled(c))
  <2>1. Demanded(c) = Subjects!Filled(c)
    BY <1>5 DEF Demanded
  <2>2. ASSUME NEW k \in Subjects!Filled(c)
        PROVE  Subjects!LineKept(k, Subjects!Filled(c))
    <3>1. PICK i \in 1..m : k = c[i]
      BY <1>5
    <3>2. i \in 1..Subjects!TotalSub(c) /\ i \notin Bad(c)
      BY <1>1, <3>1
    <3>3. Subjects!LineKept(c[i], Demanded(c))
      BY <3>2, BadIsUnkept, Zenon
    <3> QED
      BY <2>1, <3>1, <3>3, Zenon
  <2> QED
    BY <2>2 DEF Subjects!PairRule
<1>10. Subjects!Fourth(c) # 0 => Subjects!Fourth(c) \in MCFourth \cap Subjects!Filled(c)
  <2> SUFFICES ASSUME Subjects!Fourth(c) # 0
               PROVE  Subjects!Fourth(c) \in Subjects!Filled(c)
    BY <1>1
  <2>1. m >= WithMin
    <3>1. Demand(c) = WithMin
      BY DEF Demand
    <3> QED
      BY <3>1, Numbers, TotalSubType
  <2>2. PICK i \in 1..m : c[i] = Subjects!Fourth(c)
    BY <1>1, <2>1 DEF NoFourth
  <2> QED
    BY <1>5, <2>2
<1>11. Subjects!Sound(c)
  BY <1>6, <1>7, <1>8, <1>9, <1>10, Zenon DEF Subjects!Sound, Places
<1>12. Subjects!NumFilled(c)
         >= Demand(c) + Subjects!Cardinality(Subjects!Filled(c) \cap MCSpecial)
  <2>1. m = Demand(c) + Cardinality(SpecialAt(c)) /\ Demand(c) \in Nat
        /\ Cardinality(SpecialAt(c)) \in Nat
    BY TotalSubType
  <2> HIDE DEF m
  <2>2. /\ Subjects!Cardinality(Subjects!Filled(c) \cap MCSpecial) \in Nat
        /\ Subjects!Cardinality(Subjects!Filled(c) \cap MCSpecial) <= Cardinality(SpecialAt(c))
    BY <1>2, <1>5, SpecialCount
  <2> QED
    BY <1>5, <2>1, <2>2
<1> QED
  BY <1>11, <1>12

\* A form that keeps the rules is accepted, if the files can be read.
LEMMA RuledPasses ==
    ASSUME ClientAssumption, NEW c \in Form, NEW v, v = Subjects!Verdict(c),
           Subjects!Sound(c), Subjects!Counted(c), Subjects!Fourth(c) \notin MCSpecial,
           ~(Subjects!Fourth(c) = 0 /\ Subjects!NumFilled(c) >= WithMin)
    PROVE  v.what \in {"error", "ok"}
<1> DEFINE m == Subjects!NumFilled(c)
<1>1. /\ \A i \in Places : (c[i] # 0) = (i <= m)
      /\ Subjects!Cardinality(Subjects!Filled(c)) = m
      /\ Subjects!Filled(c) \subseteq MCSubList
      /\ Subjects!PairRule(Subjects!Filled(c))
      /\ Subjects!Fourth(c) # 0 => Subjects!Fourth(c) \in MCFourth \cap Subjects!Filled(c)
  BY Zenon DEF Subjects!Sound, Places
<1>2. m \in Nat /\ m < NumTotalSub
  <2> DEFINE S == {i \in Places : c[i] # 0}
             k == NumTotalSub - 1
  <2>1. m = Cardinality(S)
    BY SameCardinality DEF Subjects!NumFilled, Places
  <2>2. k \in Nat /\ Places = 1..k
    BY Numbers DEF Places, Subjects!Entries
  <2>3. S \in SUBSET (1..k)
    BY <2>2
  <2> HIDE DEF S, k
  <2>4. IsFiniteSet(1..k) /\ Cardinality(1..k) = k
    BY <2>2, UpTo
  <2>5. IsFiniteSet(S) /\ Cardinality(S) <= k
    BY <2>3, <2>4, FS_Subset
  <2>6. Cardinality(S) \in Nat
    BY <2>5, FS_CardinalityType
  <2> HIDE DEF m
  <2> QED
    BY <2>1, <2>2, <2>5, <2>6, Numbers DEF k
<1>3. /\ 1..m \subseteq Places /\ Subjects!Filled(c) = {c[i] : i \in 1..m}
  <2>1. \A i \in Places : c[i] # 0 <=> i <= m
    BY <1>1
  <2> HIDE DEF m
  <2> QED
    BY <1>2, <2>1, FilledForm
<1>4. \A i, j \in 1..m : c[i] = c[j] => i = j
  <2> HIDE DEF m
  <2>1. IsFiniteSet(1..m) /\ Cardinality(1..m) = m
    BY <1>2, UpTo
  <2>2. Cardinality(Subjects!Filled(c)) = m
    BY <1>1, SameCardinality
  <2> QED
    BY <1>3, <2>1, <2>2, ImageCount
<1>5. SpecialAt(c) \subseteq 1..m
  <2> SUFFICES ASSUME NEW i \in SpecialAt(c)
               PROVE  i \in 1..m
    OBVIOUS
  <2>1. i \in Subjects!Entries /\ c[i] \in MCSpecial
    BY DEF SpecialAt
  <2>2. i # NumTotalSub
    BY <2>1 DEF Subjects!Fourth
  <2>3. c[i] # 0
    <3>1. \A x \in MCSpecial : x # 0
      BY Lists
    <3> QED
      BY <2>1, <3>1
  <2>4. i \in Places /\ i \in Nat /\ i >= 1
    BY <2>1, <2>2 DEF Places, Subjects!Entries
  <2> HIDE DEF m
  <2> QED
    BY <1>1, <1>2, <2>3, <2>4
<1>6. Subjects!TotalSub(c) = m
  <2>1. m = Demand(c) + Subjects!Cardinality(Subjects!Filled(c) \cap MCSpecial)
    BY DEF Subjects!Counted, Demand
  <2> HIDE DEF m
  <2>2. Subjects!Cardinality(Subjects!Filled(c) \cap MCSpecial) = Cardinality(SpecialAt(c))
    BY <1>2, <1>3, <1>4, <1>5, SpecialCount
  <2> QED
    BY <2>1, <2>2, TotalSubType
<1>7. Clean(c)
  <2> SUFFICES ASSUME NEW i \in Subjects!Entries, i <= m
               PROVE  Subjects!EntryFault(c, i) = "none"
    BY <1>6 DEF Clean
  <2>1. i \in 1..m
    BY DEF Subjects!Entries
  <2> HIDE DEF m
  <2>2. c[i] \in MCSubList
    BY <1>1, <1>3, <2>1
  <2>3. ASSUME NEW j \in 1..i - 1
        PROVE  c[j] # c[i]
    <3>1. j \in 1..m /\ j # i
      BY <1>2, <2>1
    <3> QED
      BY <1>4, <2>1, <3>1
  <2> QED
    BY <2>2, <2>3, CleanEntry
<1>8. Bad(c) = {}
  <2>1. Demanded(c) = Subjects!Filled(c)
    BY <1>3, <1>6 DEF Demanded
  <2>2. ASSUME NEW i \in Bad(c)
        PROVE  FALSE
    <3>1. i \in 1..Subjects!TotalSub(c) /\ ~Subjects!LineKept(c[i], Demanded(c))
      BY <2>2, BadIsUnkept, Zenon
    <3>2. c[i] \in Demanded(c)
      BY <3>1 DEF Demanded
    <3> QED
      BY <1>1, <2>1, <3>1, <3>2 DEF Subjects!PairRule
  <2> QED
    BY <2>2
<1>9. Extra(c) = {}
  <2>1. \A i \in Places : i \in Nat
    BY DEF Places, Subjects!Entries
  <2>2. \A i \in Places : i > m => c[i] = 0
    <3> HIDE DEF m
    <3> QED
      BY <1>1, <1>2, <2>1
  <2> QED
    BY <1>6, <2>2 DEF Extra
<1>10. ~NoFourth(c)
  <2>1. CASE Subjects!Fourth(c) = 0
    BY <1>6, <2>1 DEF NoFourth
  <2>2. CASE Subjects!Fourth(c) # 0
    <3>1. Subjects!Fourth(c) \in Subjects!Filled(c)
      BY <1>1, <2>2
    <3>2. PICK i \in 1..m : c[i] = Subjects!Fourth(c)
      BY <1>3, <3>1
    <3> QED
      BY <1>6, <3>2 DEF NoFourth
  <2> QED
    BY <2>1, <2>2
<1>11. ~FourthWay(c, v)
  <2>1. Subjects!Fourth(c) # 0
          => Subjects!Fourth(c) \in MCFourth /\ Subjects!Fourth(c) \in MCSubList
    BY <1>1
  <2>2. \A x \in MCSubList : x \in Nat /\ ~(x < 100)
    BY Lists
  <2> QED
    BY <2>1, <2>2 DEF FourthWay
<1>12. ~EntryWay(c, v) /\ ~PairWay(c, v) /\ ~NoneWay(c, v) /\ ~ExtraWay(c, v)
  BY <1>7, <1>8, <1>9, <1>10 DEF EntryWay, PairWay, NoneWay, ExtraWay, Clean
<1>13. ErrorWay(c, v) \/ OkWay(c, v)
  BY <1>11, <1>12, VerdictWays, Zenon
<1> QED
  BY <1>13 DEF ErrorWay, OkWay

\* The entry that gets the focus is the one the message is about.
LEMMA FaultAt ==
    ASSUME ClientAssumption, NEW c \in Form, NEW v, v = Subjects!Verdict(c), v.at # 0
    PROVE  /\ v.what = "pair" => ~Subjects!LineKept(c[v.at], Demanded(c))
           /\ v.what = "duplicate" => \E j \in 1..v.at - 1 : c[j] = c[v.at]
           /\ v.what \in {"extra", "unlisted", "short", "fourth"} => c[v.at] # 0
<1>1. \/ ErrorWay(c, v) \/ FourthWay(c, v) \/ EntryWay(c, v) \/ PairWay(c, v)
      \/ NoneWay(c, v) \/ ExtraWay(c, v) \/ OkWay(c, v)
  BY VerdictWays, Zenon
<1>2. CASE ErrorWay(c, v) \/ NoneWay(c, v) \/ OkWay(c, v)
  BY <1>2 DEF ErrorWay, NoneWay, OkWay
<1>3. CASE FourthWay(c, v)
  BY <1>3 DEF FourthWay, Subjects!Fourth
<1>4. CASE EntryWay(c, v)
  <2>1. v.at \in Subjects!Entries /\ v.what = Subjects!EntryFault(c, v.at)
    BY <1>4 DEF EntryWay
  <2>2. v.what \in {"empty", "short", "unlisted", "duplicate", "none"}
    BY <2>1, EntryFaults
  <2>3. v.what \in {"short", "unlisted"} => c[v.at] # 0
    BY <2>1, EntryHas
  <2>4. v.what = "duplicate" => \E j \in 1..v.at - 1 : c[j] = c[v.at]
    BY <2>1, EntryHas
  <2> QED
    BY <2>2, <2>3, <2>4
<1>5. CASE PairWay(c, v)
  <2>1. v.what = "pair" /\ v.at \in Bad(c)
    BY <1>5 DEF PairWay
  <2>2. ~Subjects!LineKept(c[v.at], Demanded(c))
    BY <2>1, BadIsUnkept, Zenon
  <2> QED
    BY <2>1, <2>2
<1>6. CASE ExtraWay(c, v)
  BY <1>6 DEF ExtraWay, Extra
<1> QED
  BY <1>1, <1>2, <1>3, <1>4, <1>5, <1>6

\* The form is one, its last verdict is one of it, and this is all the rules
\* need: nothing but a correction changes the codes, and it takes the verdict
\* back.
SInv ==
    /\ Subjects!TypeOK
    /\ Subjects!AcceptedIsSound /\ Subjects!RuledIsAccepted /\ Subjects!FaultIsShown

LEMMA CodesAreForm ==
    ASSUME ClientAssumption, Subjects!TypeOK
    PROVE  codes \in Form
BY Lists DEF Subjects!TypeOK, Form

LEMMA SubjectsInit ==
    ASSUME ClientAssumption, Subjects!Init
    PROVE  SInv
<1>1. Subjects!TypeOK
  <2>1. held \in MCCodes /\ codes \in [Subjects!Entries -> held]
    BY Zenon DEF Subjects!Init
  <2>2. 0 \in 0..NumTotalSub
    BY Numbers
  <2>3. /\ verdict \in Subjects!Verdicts /\ focus \in 0..NumTotalSub
        /\ readable \subseteq {"sub", "fourth", "special", "pair"} /\ pairhtable \in BOOLEAN
    BY <2>2 DEF Subjects!Init, Subjects!Verdicts
  <2> QED
    BY <2>1, <2>3 DEF Subjects!TypeOK
<1> QED
  BY <1>1
  DEF Subjects!Init, SInv, Subjects!AcceptedIsSound, Subjects!RuledIsAccepted,
      Subjects!FaultIsShown

\* While there is no verdict, there is nothing to keep.
LEMMA NoVerdict ==
    ASSUME verdict' = "none", Subjects!TypeOK'
    PROVE  SInv'
BY DEF SInv, Subjects!AcceptedIsSound, Subjects!RuledIsAccepted, Subjects!FaultIsShown

LEMMA VerifyKeeps ==
    ASSUME ClientAssumption, SInv, Subjects!Verify
    PROVE  SInv'
<1>1. PICK v : v = Subjects!Verdict(codes)
  OBVIOUS
<1>2. /\ verdict' = v.what /\ focus' = v.at
      /\ pairhtable' = (pairhtable \/ v.what \in Subjects!Paired)
      /\ UNCHANGED <<codes, held, readable>>
  BY <1>1 DEF Subjects!Verify
<1>3. codes \in Form
  BY CodesAreForm DEF SInv
<1>4. Subjects!TypeOK'
  <2>1. v.what \in Subjects!Verdicts /\ v.at \in 0..NumTotalSub
    BY <1>1, <1>3, VerdictType
  <2>2. pairhtable' \in BOOLEAN
    BY <1>2
  <2> QED
    BY <1>2, <2>1, <2>2 DEF SInv, Subjects!TypeOK
<1>5. Subjects!AcceptedIsSound'
  <2> SUFFICES ASSUME v.what = "ok"
               PROVE  /\ Subjects!Sound(codes)
                      /\ Subjects!NumFilled(codes) >= Demand(codes)
                           + Subjects!Cardinality(Subjects!Filled(codes) \cap MCSpecial)
    BY <1>2
    DEF Subjects!AcceptedIsSound, Demand, Subjects!Sound, Subjects!NumFilled,
        Subjects!Filled, Subjects!Fourth
  <2>1. OkWay(codes, v)
    BY <1>1, <1>3, VerdictOk
  <2> QED
    BY <1>3, <2>1, OkIsSound
<1>6. Subjects!RuledIsAccepted'
  <2> SUFFICES ASSUME v.what \notin {"none", "error", "ok"}
               PROVE  \/ ~(Subjects!Sound(codes) /\ Subjects!Counted(codes))
                      \/ Subjects!Fourth(codes) \in MCSpecial
                      \/ Subjects!Fourth(codes) = 0 /\ Subjects!NumFilled(codes) >= WithMin
    BY <1>2 DEF Subjects!RuledIsAccepted
  <2> QED
    BY <1>1, <1>3, RuledPasses
<1>7. Subjects!FaultIsShown'
  <2> SUFFICES ASSUME v.at # 0
               PROVE  /\ v.what = "pair" => ~Subjects!LineKept(codes[v.at], Demanded(codes))
                      /\ v.what = "duplicate" => \E j \in 1..v.at - 1 : codes[j] = codes[v.at]
                      /\ v.what \in {"extra", "unlisted", "short", "fourth"}
                           => codes[v.at] # 0
    BY <1>2 DEF Subjects!FaultIsShown, Demanded
  <2> QED
    BY <1>1, <1>3, FaultAt
<1> QED
  BY <1>4, <1>5, <1>6, <1>7 DEF SInv

\* Every step of the rules.
LEMMA SubjectsStep ==
    ASSUME ClientAssumption, SInv, [Subjects!Next]_subjects
    PROVE  SInv'
<1>1. /\ held \in MCCodes /\ codes \in [Subjects!Entries -> held]
      /\ focus \in 0..NumTotalSub /\ pairhtable \in BOOLEAN
      /\ readable \subseteq {"sub", "fourth", "special", "pair"}
  BY Zenon DEF SInv, Subjects!TypeOK
<1>2. 0 \in 0..NumTotalSub
  BY Numbers
<1>3. CASE Subjects!Verify
  BY <1>3, VerifyKeeps
<1>4. CASE Subjects!Retry
  <2>1. verdict' = "none" /\ UNCHANGED <<codes, held, focus, readable, pairhtable>>
    BY <1>4 DEF Subjects!Retry
  <2>2. Subjects!TypeOK'
    BY <1>1, <2>1 DEF Subjects!TypeOK, Subjects!Verdicts
  <2> QED
    BY <2>1, <2>2, NoVerdict
<1>5. ASSUME NEW k \in held, Subjects!Correct(k)
      PROVE  SInv'
  <2>1. /\ verdict' = "none" /\ focus' = 0 /\ codes' = [codes EXCEPT ![focus] = k]
        /\ UNCHANGED <<held, readable, pairhtable>>
    BY <1>5 DEF Subjects!Correct
  <2>2. codes' \in [Subjects!Entries -> held]
    BY <1>1, <1>5, <2>1
  <2>3. Subjects!TypeOK'
    BY <1>1, <1>2, <2>1, <2>2 DEF Subjects!TypeOK, Subjects!Verdicts
  <2> QED
    BY <2>1, <2>3, NoVerdict
<1>6. ASSUME NEW f \in readable, Subjects!Vanish(f)
      PROVE  SInv'
  <2>1. /\ verdict' = "none" /\ readable' = readable \ {f}
        /\ UNCHANGED <<codes, held, focus, pairhtable>>
    BY <1>6 DEF Subjects!Vanish
  <2>2. readable' \subseteq {"sub", "fourth", "special", "pair"}
    BY <1>1, <2>1
  <2>3. Subjects!TypeOK'
    BY <1>1, <2>1, <2>2 DEF Subjects!TypeOK, Subjects!Verdicts
  <2> QED
    BY <2>1, <2>3, NoVerdict
<1>7. CASE UNCHANGED subjects
  <2>1. UNCHANGED <<codes, held, verdict, focus, readable, pairhtable>>
    BY <1>7 DEF subjects
  <2>2. Subjects!TypeOK'
    BY <2>1 DEF SInv, Subjects!TypeOK
  <2>3. Subjects!AcceptedIsSound' /\ Subjects!RuledIsAccepted' /\ Subjects!FaultIsShown'
    BY <2>1
    DEF SInv, Subjects!AcceptedIsSound, Subjects!RuledIsAccepted, Subjects!FaultIsShown,
        Subjects!Sound, Subjects!Counted, Subjects!NumFilled, Subjects!Filled,
        Subjects!Fourth, Subjects!TotalSub
  <2> QED
    BY <2>2, <2>3 DEF SInv
<1> QED
  BY <1>3, <1>4, <1>5, <1>6, <1>7 DEF Subjects!Next

-----------------------------------------------------------------------------
(* The three parts together *)

IInv == QInv /\ OInv /\ (moving = "subjects" => SInv)

LEMMA InitKeeps ==
    ASSUME ClientAssumption, Init
    PROVE  IInv
<1>1. Query!Init /\ Choices!Init
  BY DEF Init
<1>2. moving = "subjects" => Subjects!Init
  BY DEF Init
<1> QED
  BY <1>1, <1>2, QueryInit, OptionsInit, SubjectsInit DEF IInv

LEMMA StepKeeps ==
    ASSUME ClientAssumption, IInv, [Next]_vars
    PROVE  IInv'
<1>1. [Query!Next]_query /\ [Choices!Next]_choices /\ UNCHANGED moving
  BY DEF Next, vars
<1>2. moving = "subjects" => [Subjects!Next]_subjects
  BY DEF Next, vars
<1>3. QInv'
  BY <1>1, QueryStep DEF IInv
<1>4. OInv'
  BY <1>1, OptionsStep DEF IInv
<1>5. moving' = "subjects" => SInv'
  BY <1>1, <1>2, SubjectsStep DEF IInv
<1> QED
  BY <1>3, <1>4, <1>5 DEF IInv

\* What the parts keep, in every state of the client.
LEMMA Invariant == Spec => []IInv
<1>1. Init => IInv
  BY ClientAssumption, InitKeeps
<1>2. IInv /\ [Next]_vars => IInv'
  BY ClientAssumption, StepKeeps
<1> QED
  BY <1>1, <1>2, PTL DEF Spec

-----------------------------------------------------------------------------
(* The theorems *)

\* The session's entry holds a text it was given and is cut where it is shown,
\* at most the two signals of one click wait, the entry that gets the focus is
\* in the form.
THEOREM TypeCorrect == Spec => []ClientTypeOK
<1>1. IInv => ClientTypeOK
  BY DEF IInv, QInv, OInv, SInv, ClientTypeOK
<1> QED
  BY <1>1, Invariant, PTL

\* The OK button is there exactly while there are a session and an institution
\* with a name, and it is that name that is shown (callbacks.c), whatever is
\* typed, taken back and completed in between.
THEOREM QueriesAnswered == Spec => []QueryIsAnswered
<1>1. IInv => QueryIsAnswered
  BY DEF IInv, QInv, QueryIsAnswered
<1> QED
  BY <1>1, Invariant, PTL

\* The kind of form, the boxes, the flags that verify_form reads and the entries
\* that can be typed in agree, although every handler turns its own over.
THEOREM ChoicesAlwaysAgree == Spec => []ChoicesAgree
<1>1. IInv => ChoicesAgree
  <2> SUFFICES ASSUME IInv
               PROVE  ChoicesAgree
    OBVIOUS
  <2>1. OInv
    BY DEF IInv
  <2>2. Choices!DemandedCanBeFilled
    BY <2>1, OptionsFill
  <2> QED
    BY <2>1, <2>2 DEF OInv, ChoicesAgree
<1> QED
  BY <1>1, Invariant, PTL

\* A form that is saved has every field that the user did not leave out by a box
\* and that the chosen kind of form has.
THEOREM OnlyCompleteIsSaved == Spec => SavedIsComplete
<1> DEFINE A == result' = "saved" =>
                  \A f \in Choices!Fields :
                     \/ valid[f]
                     \/ f \in Choices!Boxes /\ box[f]
                     \/ f \in Choices!Prev /\ radio = "ssc"
<1>1. IInv /\ [Next]_vars => [A]_(Choices!vars)
  <2> SUFFICES ASSUME IInv, [Next]_vars, Choices!vars' # Choices!vars
               PROVE  A
    OBVIOUS
  <2>1. Choices!Next
    BY DEF Next, vars, choices, Choices!vars
  <2> QED
    BY <2>1, SavedStep DEF IInv
<1>2. [][A]_(Choices!vars) => SavedIsComplete
  BY DEF SavedIsComplete, Choices!SavedIsComplete
<1> HIDE DEF A
<1> QED
  BY <1>1, <1>2, Invariant, PTL DEF Spec

\* A form that verify_form lets pass has its codes in the first entries, each
\* once, in the group's list, with the partners the pair lines ask for and the
\* fourth subject among them, and no fewer than its kind demands.
THEOREM AcceptedAreSound == Spec => []AcceptedIsSound
<1>1. IInv => AcceptedIsSound
  BY DEF IInv, SInv, AcceptedIsSound
<1> QED
  BY <1>1, Invariant, PTL

\* A form that is refused breaks a rule, and the entry that is shown is one that
\* the message is about.
THEOREM RefusedAreFaulty == Spec => []RefusedForReason
<1>1. IInv => RefusedForReason
  BY DEF IInv, SInv, RefusedForReason
<1> QED
  BY <1>1, Invariant, PTL
=============================================================================
