--------------------------- MODULE FormFields_proofs ---------------------------
(***************************************************************************)
(* Proofs about the entries of a form, for any texts and whatever the      *)
(* handlers' conversions make of them, any lists of common codes and any   *)
(* entries the user works on.                                              *)
(***************************************************************************)
EXTENDS FormFields, WellFoundedInduction, TLAPS

Focusable == Entries \cup {"button3"}

\* What w ranges over.
Window == [text : [Entries -> Texts], max : [PrevNumbers -> {6, 10}],
           closed : SUBSET (1..Len(SubEntry)), focus : Focusable]

\* FitsBoard and CommonHeld of any window.
Fits(win) ==
    \A e \in PrevNumbers :
        /\ win.max[e] = IF win.text["combo_entry7"] \in LongBoards THEN 10 ELSE 6
        /\ Size(win.text[e]) <= win.max[e]
Holds(win) ==
    LET codes == CommonAll \o CommonOf(win.text["combo_entry1"])
    IN /\ win.closed = 1..Len(codes)
       /\ \A i \in 1..Len(codes) : win.text[SubEntry[i]] = codes[i]

-----------------------------------------------------------------------------
(* The entries *)

\* A set of numbers has a least one.
LEMMA LeastNumber ==
    ASSUME NEW S \in SUBSET Nat, S # {}
    PROVE  LET n == CHOOSE i \in S : \A j \in S : i <= j
           IN n \in S /\ \A j \in S : n <= j
<1>1. PICK i \in S : \A j \in Nat : <<j, i>> \in OpToRel(<, Nat) => j \notin S
  <2>1. IsWellFoundedOn(OpToRel(<, Nat), Nat)
    BY NatLessThanWellFounded
  <2> QED
    BY <2>1, WFMin, Zenon
<1>2. \A j \in S : ~(j < i)
  BY <1>1 DEF OpToRel
<1>3. \A j \in S : i <= j
  BY <1>2
<1> QED
  BY <1>3

\* The subject entries are numbered, each once.
LEMMA Numbering ==
    /\ Len(SubEntry) = 17
    /\ \A i, j \in 1..17 : SubEntry[i] = SubEntry[j] => i = j
<1>1. Len(SubEntry) = 17
  BY DEF SubEntry
<1>2. \A i, j \in 1..17 : SubEntry[i] = SubEntry[j] => i = j
  BY DEF SubEntry
<1> QED
  BY <1>1, <1>2

LEMMA IndexOf ==
    /\ \A i \in 1..17 : SubEntry[i] \in SubEntries /\ Index(SubEntry[i]) = i
    /\ \A e \in SubEntries : Index(e) \in 1..17 /\ SubEntry[Index(e)] = e
<1>1. \A i \in 1..17 : SubEntry[i] \in SubEntries
  BY Numbering DEF SubEntries
<1>2. \A e \in SubEntries : Index(e) \in 1..17 /\ SubEntry[Index(e)] = e
  BY Numbering DEF SubEntries, Index
<1> QED
  BY <1>1, <1>2, Numbering

\* The subject entries are no others.
LEMMA SubApart ==
    ASSUME NEW e \in SubEntries
    PROVE  e \notin Names \cup PrevNumbers \cup Combos \cup {"entry5", "entry8", "entry9"}
                    \cup {"entry6", "entry7", "entry10", "entry13", "entry14",
                          "combo_entry5"}
<1>1. PICK i \in 1..17 : e = SubEntry[i]
  BY Numbering DEF SubEntries
<1> QED
  BY <1>1 DEF SubEntry, Names, PrevNumbers, Combos

LEMMA EntriesAre ==
    /\ SubEntries \subseteq Entries /\ PrevNumbers \subseteq Entries /\ Combos \subseteq Entries
    /\ {"entry2", "entry3", "entry4", "entry5", "entry6", "entry8", "entry9", "entry13",
        "entry14", "combo_entry1", "combo_entry7", "combo_entry8"} \subseteq Entries
    /\ {"combo_entry1", "combo_entry7", "combo_entry8"} \subseteq Combos
BY DEF Entries, Numbers, Names, Years, PrevNumbers, Combos

-----------------------------------------------------------------------------
(* One entry *)

LEMMA TextsAre ==
    /\ {"", NoSection, "Male", "Female", "Science", "Dhaka", "Rajshahi"} \subseteq Texts
    /\ \A t \in Texts :
          /\ Upper(t) \in Texts /\ Letters(t) \in Texts /\ Digits(t) \in Texts
          /\ Strip(t) \in Texts /\ Padded(t) \in Texts /\ Successor(t) \in Texts
          /\ GenderOf(t) \in {"Male", "Female", "none"}
          /\ Size(t) \in Nat /\ Size(Digits(t)) \in Nat /\ Size(Digits(t)) <= Size(t)
          /\ \A n \in {3, 4, 6, 10, 40, 70} : Cut(t, n) \in Texts
          /\ \A n \in {6, 10} : Size(Cut(t, n)) \in Nat /\ Size(Cut(t, n)) <= n
    /\ Size("") = 0
<1>1. {"", NoSection, "Male", "Female", "Science", "Dhaka", "Rajshahi"} \subseteq Texts
  BY FieldsAssumption
<1>2. Size("") = 0
  BY FieldsAssumption
<1>3. ASSUME NEW t \in Texts
      PROVE  /\ Upper(t) \in Texts /\ Letters(t) \in Texts /\ Digits(t) \in Texts
             /\ Strip(t) \in Texts /\ Padded(t) \in Texts /\ Successor(t) \in Texts
             /\ GenderOf(t) \in {"Male", "Female", "none"}
             /\ Size(t) \in Nat /\ Size(Digits(t)) \in Nat /\ Size(Digits(t)) <= Size(t)
             /\ \A n \in {3, 4, 6, 10, 40, 70} : Cut(t, n) \in Texts
             /\ \A n \in {6, 10} : Size(Cut(t, n)) \in Nat /\ Size(Cut(t, n)) <= n
  <2>1. /\ Upper(t) \in Texts /\ Letters(t) \in Texts /\ Digits(t) \in Texts
        /\ Strip(t) \in Texts /\ Padded(t) \in Texts /\ Successor(t) \in Texts
    BY FieldsAssumption
  <2>2. GenderOf(t) \in {"Male", "Female", "none"}
    BY FieldsAssumption
  <2>3. \A u \in Texts : Size(u) \in Nat
    BY FieldsAssumption
  <2>4. Size(Digits(t)) <= Size(t)
    BY FieldsAssumption
  <2>5. \A n \in {3, 4, 6, 10, 40, 70} : Cut(t, n) \in Texts
    BY FieldsAssumption
  <2>6. \A n \in {6, 10} : Size(Cut(t, n)) <= n
    BY FieldsAssumption
  <2>7. \A n \in {6, 10} : Size(Cut(t, n)) \in Nat
    BY <2>3, <2>5
  <2> QED
    BY <2>1, <2>2, <2>3, <2>4, <2>5, <2>6, <2>7
<1> QED
  BY <1>1, <1>2, <1>3

LEMMA MaxLengths ==
    ASSUME NEW win \in Window, NEW e \in Entries
    PROVE  /\ MaxLength(win, e) \in {3, 4, 6, 10, 40, 70}
           /\ e \in PrevNumbers => MaxLength(win, e) = win.max[e] /\ win.max[e] \in {6, 10}
<1>1. e \in PrevNumbers => win.max[e] \in {6, 10}
  BY DEF Window
<1>2. CASE e \in PrevNumbers
  <2>1. e \notin Names \cup SubEntries \cup {"entry9"}
    BY <1>2, SubApart DEF PrevNumbers, Names
  <2>2. MaxLength(win, e) = win.max[e]
    BY <1>2, <2>1 DEF MaxLength
  <2> QED
    BY <1>1, <1>2, <2>2
<1>3. CASE e \notin PrevNumbers
  BY <1>3 DEF MaxLength
<1> QED
  BY <1>2, <1>3

\* What is left of a text is a text, and fits.
LEMMA KeptType ==
    ASSUME NEW win \in Window, NEW e \in Entries, NEW t \in Texts
    PROVE  /\ Kept(win, e, t) \in Texts
           /\ e \in PrevNumbers => Size(Kept(win, e, t)) <= win.max[e]
<1>1. ASSUME NEW x \in Texts
      PROVE  Corrected(e, x) \in Texts
  <2>1. Letters(Upper(x)) \in Texts /\ Digits(x) \in Texts /\ Upper(x) \in Texts
    BY TextsAre
  <2> QED
    BY <2>1 DEF Corrected
<1>2. Cut(t, MaxLength(win, e)) \in Texts
  <2>1. PICK n : n = MaxLength(win, e)
    OBVIOUS
  <2>2. n \in {3, 4, 6, 10, 40, 70}
    BY <2>1, MaxLengths
  <2> QED
    BY <2>1, <2>2, TextsAre
<1>3. Kept(win, e, t) \in Texts
  BY <1>1, <1>2 DEF Kept
<1>4. ASSUME e \in PrevNumbers
      PROVE  Size(Kept(win, e, t)) <= win.max[e]
  <2>1. e \notin Combos \cup Names \cup {"entry9"} /\ e \in Numbers
    BY <1>4 DEF PrevNumbers, Combos, Names, Numbers
  <2>2. PICK n \in {6, 10} : n = win.max[e] /\ n = MaxLength(win, e)
    BY <1>4, MaxLengths
  <2>3. Kept(win, e, t) = Digits(Cut(t, n))
    BY <2>1, <2>2 DEF Kept, Corrected
  <2>4. /\ Cut(t, n) \in Texts /\ Size(Cut(t, n)) \in Nat /\ Size(Cut(t, n)) <= n
    BY TextsAre
  <2>5. Size(Digits(Cut(t, n))) \in Nat /\ Size(Digits(Cut(t, n))) <= Size(Cut(t, n))
    BY <2>4, TextsAre
  <2> QED
    BY <2>2, <2>3, <2>4, <2>5
<1> QED
  BY <1>3, <1>4

\* The entry behind a full one is one, too.
LEMMA NextType ==
    ASSUME NEW win, NEW e \in Entries, NEW t, Full(win, e, t)
    PROVE  NextOf(e) \in Focusable
<1>1. e \notin Names \cup Combos \cup {"entry9"}
  BY DEF Full
<1>2. CASE e \in SubEntries
  <2>1. CASE e = "entry31"
    <3>1. NextOf(e) = "button3"
      BY <1>2, <2>1 DEF NextOf
    <3> QED
      BY <3>1 DEF Focusable
  <2>2. CASE e # "entry31"
    <3>1. Index(e) \in 1..17 /\ SubEntry[Index(e)] = e
      BY <1>2, IndexOf
    <3>2. SubEntry[17] = "entry31"
      BY DEF SubEntry
    <3>3. Index(e) + 1 \in 1..17
      BY <2>2, <3>1, <3>2
    <3>4. SubEntry[Index(e) + 1] \in Entries
      BY <3>3, IndexOf, EntriesAre
    <3>5. NextOf(e) = SubEntry[Index(e) + 1]
      BY <1>2, <2>2, SubApart DEF NextOf, PrevNumbers
    <3> QED
      BY <3>4, <3>5 DEF Focusable
  <2> QED
    BY <2>1, <2>2
<1>3. CASE e \notin SubEntries
  <2>1. e \in {"entry5", "entry6", "combo_entry5", "entry7", "entry8", "entry10", "entry11",
               "entry12", "entry13", "entry14"}
    BY <1>1, <1>3 DEF Entries, Numbers, Years, PrevNumbers
  <2>2. {"entry6", "combo_entry3", "entry7", "combo_entry6", "entry9", "entry11", "entry12",
         "entry13", "combo_entry8"} \subseteq Entries
    BY DEF Entries, Numbers, Years, PrevNumbers, Combos
  <2> QED
    BY <1>3, <2>1, <2>2 DEF NextOf, Focusable
<1> QED
  BY <1>2, <1>3

LEMMA FocussedKeeps ==
    ASSUME NEW win \in Window, NEW e \in Focusable, NEW new, new = Focussed(win, e)
    PROVE  /\ new \in Window
           /\ new.text = win.text /\ new.max = win.max /\ new.closed = win.closed
BY DEF Focussed, Window

\* An entry that is set by itself: nothing else changes but the focus.
LEMMA PlainKeeps ==
    ASSUME NEW win \in Window, NEW e \in Entries, NEW t \in Texts,
           NEW new, new = SetPlain(win, e, t)
    PROVE  /\ new \in Window
           /\ new.max = win.max /\ new.closed = win.closed
           /\ \A x \in Entries : x # e => new.text[x] = win.text[x]
           /\ e \in Combos => new.text[e] = t
           /\ e \in PrevNumbers =>
                new.text[e] = win.text[e] \/ Size(new.text[e]) <= win.max[e]
<1>1. CASE t = win.text[e]
  BY <1>1 DEF SetPlain
<1>2. CASE t # win.text[e]
  <2>1. PICK k : k = Kept(win, e, t)
    OBVIOUS
  <2>2. k \in Texts /\ (e \in PrevNumbers => Size(k) <= win.max[e])
    BY <2>1, KeptType
  <2>3. PICK set : set = [win EXCEPT !.text[e] = k]
    OBVIOUS
  <2>4. /\ set \in Window /\ set.text = [win.text EXCEPT ![e] = k]
        /\ set.max = win.max /\ set.closed = win.closed
    BY <2>2, <2>3 DEF Window
  <2>5. new = IF Full(win, e, k) THEN Focussed(set, NextOf(e)) ELSE set
    BY <1>2, <2>1, <2>3 DEF SetPlain
  <2>6. /\ new \in Window /\ new.text = set.text /\ new.max = set.max
        /\ new.closed = set.closed
    <3>1. CASE Full(win, e, k)
      BY <2>4, <2>5, <3>1, NextType, FocussedKeeps
    <3>2. CASE ~Full(win, e, k)
      BY <2>4, <2>5, <3>2
    <3> QED
      BY <3>1, <3>2
  <2>7. win.text \in [Entries -> Texts]
    BY DEF Window
  <2>8. new.text[e] = k /\ \A x \in Entries : x # e => new.text[x] = win.text[x]
    BY <2>4, <2>6, <2>7
  <2>9. e \in Combos => k = t
    BY <2>1 DEF Kept
  <2> QED
    BY <2>2, <2>4, <2>6, <2>8, <2>9
<1> QED
  BY <1>1, <1>2

LEMMA PlainFits ==
    ASSUME NEW win \in Window, NEW e \in Entries, NEW t \in Texts,
           e # "combo_entry7", Fits(win),
           NEW new, new = SetPlain(win, e, t)
    PROVE  Fits(new)
<1>1. /\ new.max = win.max
      /\ \A x \in Entries : x # e => new.text[x] = win.text[x]
      /\ e \in PrevNumbers =>
           new.text[e] = win.text[e] \/ Size(new.text[e]) <= win.max[e]
  BY PlainKeeps
<1>2. new.text["combo_entry7"] = win.text["combo_entry7"]
  <2>1. "combo_entry7" \in Entries
    BY EntriesAre
  <2> QED
    BY <1>1, <2>1
<1>3. ASSUME NEW x \in PrevNumbers
      PROVE  Size(new.text[x]) <= new.max[x]
  <2>1. x \in Entries
    BY EntriesAre
  <2>2. new.text[x] = win.text[x] \/ Size(new.text[x]) <= win.max[x]
    BY <1>1, <2>1
  <2> QED
    BY <1>1, <2>2 DEF Fits
<1> QED
  BY <1>1, <1>2, <1>3 DEF Fits

-----------------------------------------------------------------------------
(* What one entry sets off in others *)

LEMMA LimitKeeps ==
    ASSUME NEW win \in Window, NEW n \in {6, 10}, NEW new, new = Limit(win, n)
    PROVE  /\ new \in Window
           /\ new.closed = win.closed
           /\ \A e \in PrevNumbers : new.max[e] = n /\ Size(new.text[e]) <= n
           /\ \A e \in Entries \ PrevNumbers : new.text[e] = win.text[e]
<1> DEFINE text == [e \in Entries |-> IF e \in PrevNumbers THEN Cut(win.text[e], n)
                                                         ELSE win.text[e]]
           max == [e \in PrevNumbers |-> n]
<1>1. /\ win.text \in [Entries -> Texts] /\ win.max \in [PrevNumbers -> {6, 10}]
      /\ win.closed \in SUBSET (1..Len(SubEntry)) /\ win.focus \in Focusable
      /\ DOMAIN win = {"text", "max", "closed", "focus"}
  BY DEF Window
<1>2. new = [win EXCEPT !.max = max, !.text = text]
  BY DEF Limit
<1>3. \A e \in Entries : win.text[e] \in Texts
  BY <1>1
<1>4. \A t \in Texts : Cut(t, n) \in Texts /\ Size(Cut(t, n)) <= n
  BY TextsAre
<1>5. text \in [Entries -> Texts] /\ max \in [PrevNumbers -> {6, 10}]
  BY <1>3, <1>4
<1>6. /\ \A e \in PrevNumbers : max[e] = n /\ Size(text[e]) <= n
      /\ \A e \in Entries \ PrevNumbers : text[e] = win.text[e]
  BY <1>3, <1>4, EntriesAre
<1> HIDE DEF text, max
<1>7. /\ new.text = text /\ new.max = max /\ new.closed = win.closed
      /\ new \in Window
  BY <1>2, <1>5 DEF Window
<1> QED
  BY <1>6, <1>7

\* on_combo_entry7_changed leaves numbers that fit the board that is chosen,
\* whatever fitted before.
LEMMA BoardFits ==
    ASSUME NEW win \in Window, NEW b \in Texts, Fits(win), NEW new, new = SetBoard(win, b)
    PROVE  /\ new \in Window /\ Fits(new) /\ new.closed = win.closed
           /\ \A e \in Entries \ (PrevNumbers \cup {"combo_entry7"}) :
                 new.text[e] = win.text[e]
<1>1. CASE b = win.text["combo_entry7"]
  BY <1>1 DEF SetBoard
<1>2. CASE b # win.text["combo_entry7"]
  <2> DEFINE c == "combo_entry7"
  <2>1. c \in Entries /\ c \in Combos /\ c \notin PrevNumbers
    BY EntriesAre DEF PrevNumbers
  <2>2. PICK set : set = SetPlain(win, c, b)
    OBVIOUS
  <2>3. /\ set \in Window /\ set.closed = win.closed /\ set.text[c] = b
        /\ \A x \in Entries : x # c => set.text[x] = win.text[x]
    <3> HIDE DEF c
    <3> QED
      BY <2>1, <2>2, PlainKeeps
  <2>4. PICK emptied : emptied = IF signal THEN Limit(set, 6) ELSE set
    OBVIOUS
  <2>5. PICK n \in {6, 10} : n = IF b \in LongBoards THEN 10 ELSE 6
    OBVIOUS
  <2>6. new = Limit(emptied, n)
    BY <1>2, <2>2, <2>4, <2>5 DEF SetBoard
  <2>7. /\ emptied \in Window /\ emptied.closed = win.closed
        /\ \A e \in Entries \ PrevNumbers : emptied.text[e] = set.text[e]
    <3>1. CASE signal
      BY <2>3, <2>4, <3>1, LimitKeeps
    <3>2. CASE ~signal
      BY <2>3, <2>4, <3>2
    <3> QED
      BY <3>1, <3>2
  <2>8. /\ new \in Window /\ new.closed = emptied.closed
        /\ \A e \in PrevNumbers : new.max[e] = n /\ Size(new.text[e]) <= n
        /\ \A e \in Entries \ PrevNumbers : new.text[e] = emptied.text[e]
    BY <2>6, <2>7, LimitKeeps
  <2>9. new.text[c] = b
    <3> HIDE DEF c
    <3> QED
      BY <2>1, <2>3, <2>7, <2>8
  <2>10. Fits(new)
    BY <2>5, <2>8, <2>9 DEF Fits
  <2> QED
    BY <2>3, <2>7, <2>8, <2>10
<1> QED
  BY <1>1, <1>2

\* update_gender, when a name is typed.
LEMMA NameKeeps ==
    ASSUME NEW win \in Window, NEW t \in Texts, Fits(win), NEW new, new = SetName(win, t)
    PROVE  /\ new \in Window /\ Fits(new) /\ new.closed = win.closed
           /\ \A e \in Entries \ {"entry2", "combo_entry8"} : new.text[e] = win.text[e]
<1>1. PICK set : set = SetPlain(win, "entry2", t)
  OBVIOUS
<1>2. /\ "entry2" \in Entries /\ "combo_entry8" \in Entries
      /\ "entry2" # "combo_entry7" /\ "combo_entry8" # "combo_entry7"
  BY EntriesAre
<1>3. /\ set \in Window /\ set.closed = win.closed
      /\ \A x \in Entries : x # "entry2" => set.text[x] = win.text[x]
  BY <1>1, <1>2, PlainKeeps
<1>4. Fits(set)
  BY <1>1, <1>2, PlainFits
<1>5. PICK g : g = GenderOf(set.text["entry2"])
  OBVIOUS
<1>6. new = set \/ (new = SetPlain(set, "combo_entry8", g) /\ g # "none")
  BY <1>1, <1>5 DEF SetName
<1>7. CASE new = set
  BY <1>3, <1>4, <1>7
<1>8. CASE new = SetPlain(set, "combo_entry8", g) /\ g # "none"
  <2>1. set.text["entry2"] \in Texts
    BY <1>2, <1>3 DEF Window
  <2>2. g \in Texts
    BY <1>5, <1>8, <2>1, TextsAre
  <2>3. /\ new \in Window /\ new.closed = set.closed
        /\ \A x \in Entries : x # "combo_entry8" => new.text[x] = set.text[x]
    <3>1. set \in Window /\ "combo_entry8" \in Entries /\ new = SetPlain(set, "combo_entry8", g)
      BY <1>2, <1>3, <1>8
    <3> QED
      BY <2>2, <3>1, PlainKeeps, SMTT(20)
  <2>4. Fits(new)
    BY <1>2, <1>3, <1>4, <1>8, <2>2, PlainFits
  <2> QED
    BY <1>3, <2>3, <2>4
<1> QED
  BY <1>6, <1>7, <1>8

\* A session's end follows its start.
LEMMA StartKeeps ==
    ASSUME NEW win \in Window, NEW t \in Texts, Fits(win),
           NEW new, new = SetSessionStart(win, t)
    PROVE  /\ new \in Window /\ Fits(new) /\ new.closed = win.closed
           /\ \A e \in Entries \ {"entry13", "entry14"} : new.text[e] = win.text[e]
<1>1. PICK set : set = SetPlain(win, "entry13", t)
  OBVIOUS
<1>2. /\ "entry13" \in Entries /\ "entry14" \in Entries
      /\ "entry13" # "combo_entry7" /\ "entry14" # "combo_entry7"
      /\ "combo_entry8" \in Focusable
  BY EntriesAre DEF Focusable
<1>3. /\ set \in Window /\ set.closed = win.closed
      /\ \A x \in Entries : x # "entry13" => set.text[x] = win.text[x]
  BY <1>1, <1>2, PlainKeeps
<1>4. Fits(set)
  BY <1>1, <1>2, PlainFits
<1>5. PICK next : next = Successor(set.text["entry13"])
  OBVIOUS
<1>6. PICK both : both = SetPlain(set, "entry14", next)
  OBVIOUS
<1>7. new = set \/ new = Focussed(both, "combo_entry8")
  BY <1>1, <1>5, <1>6 DEF SetSessionStart
<1>8. /\ both \in Window /\ both.closed = set.closed /\ Fits(both)
      /\ \A x \in Entries : x # "entry14" => both.text[x] = set.text[x]
  <2>1. set.text["entry13"] \in Texts
    BY <1>2, <1>3 DEF Window
  <2>2. next \in Texts
    BY <1>5, <2>1, TextsAre
  <2>3. /\ both \in Window /\ both.closed = set.closed
        /\ \A x \in Entries : x # "entry14" => both.text[x] = set.text[x]
    <3>1. set \in Window /\ "entry14" \in Entries
      BY <1>2, <1>3
    <3> QED
      BY <1>6, <2>2, <3>1, PlainKeeps, SMTT(20)
  <2>4. Fits(both)
    BY <1>2, <1>3, <1>4, <1>6, <2>2, PlainFits
  <2> QED
    BY <2>3, <2>4
<1>9. CASE new = set
  BY <1>3, <1>4, <1>9
<1>10. CASE new = Focussed(both, "combo_entry8")
  <2>1. /\ new \in Window
        /\ new.text = both.text /\ new.max = both.max /\ new.closed = both.closed
    BY <1>2, <1>8, <1>10, FocussedKeeps
  <2>2. Fits(new)
    BY <1>8, <2>1 DEF Fits
  <2> QED
    BY <1>3, <1>8, <2>1, <2>2
<1> QED
  BY <1>7, <1>9, <1>10

-----------------------------------------------------------------------------
(* The codes of a group *)

LEMMA CodesAre ==
    /\ CommonAll \in Seq(Texts)
    /\ \A g \in Texts : CommonOf(g) \in Seq(Texts) /\ Len(CommonAll) + Len(CommonOf(g)) < Len(SubEntry)
<1>1. CommonAll \in Seq(Texts) /\ \A g \in Texts : CommonOf(g) \in Seq(Texts)
  BY FieldsAssumption
<1>2. \A g \in Texts : Len(CommonAll) + Len(CommonOf(g)) < Len(SubEntry)
  BY FieldsAssumption
<1> QED
  BY <1>1, <1>2

\* A list of n closes its entries, and those behind it are open.
Lists(win, from, list, n, new) ==
    /\ new \in Window /\ new.max = win.max
    /\ \A i : i \in new.closed <=>
         (i \in win.closed /\ i <= from) \/ i \in from + 1..from + n
    /\ \A e \in Entries \ SubEntries : new.text[e] = win.text[e]
    /\ \A i \in 1..from : new.text[SubEntry[i]] = win.text[SubEntry[i]]
    /\ \A i \in 1..n : new.text[SubEntry[from + i]] = list[i]

LEMMA LoadKeeps ==
    ASSUME NEW win \in Window, NEW from \in Nat, NEW list \in Seq(Texts), NEW n \in Nat,
           n = Len(list), from + n < Len(SubEntry), NEW new, new = LoadCommon(win, from, list)
    PROVE  Lists(win, from, list, n, new)
<1> DEFINE In(e) == e \in SubEntries /\ Index(e) - from \in 1..Len(list)
           text == [e \in Entries |-> IF In(e) THEN list[Index(e) - from] ELSE win.text[e]]
           closed == {i \in win.closed : i <= from} \cup (from + 1..from + Len(list))
<1>0. Len(SubEntry) = 17 /\ from + n < 17
  BY Numbering
<1>1. /\ win.text \in [Entries -> Texts] /\ win.max \in [PrevNumbers -> {6, 10}]
      /\ win.closed \in SUBSET (1..Len(SubEntry)) /\ win.focus \in Focusable
      /\ DOMAIN win = {"text", "max", "closed", "focus"}
  BY DEF Window
<1>2. new = [win EXCEPT !.text = text, !.closed = closed]
  BY DEF LoadCommon
<1>3. \A i \in 1..n : list[i] \in Texts
  OBVIOUS
<1>4. text \in [Entries -> Texts]
  <2>1. ASSUME NEW e \in Entries
        PROVE  text[e] \in Texts
    <3>1. CASE In(e)
      BY <1>3, <3>1
    <3>2. CASE ~In(e)
      BY <1>1, <3>2
    <3> QED
      BY <3>1, <3>2
  <2> QED
    BY <2>1
<1>5. closed \in SUBSET (1..Len(SubEntry))
  <2>1. Len(SubEntry) = 17
    BY Numbering
  <2>2. ASSUME NEW i \in from + 1..from + n
        PROVE  i \in 1..17
    BY <1>0
  <2> QED
    BY <1>1, <2>1, <2>2
<1>6. \A e \in Entries \ SubEntries : text[e] = win.text[e]
  OBVIOUS
<1>7. \A i \in 1..17 : SubEntry[i] \in SubEntries /\ Index(SubEntry[i]) = i
                       /\ SubEntry[i] \in Entries
  BY IndexOf, EntriesAre
<1>8. ASSUME NEW i \in 1..from
      PROVE  text[SubEntry[i]] = win.text[SubEntry[i]]
  <2>1. i \in 1..17
    BY <1>0
  <2>2. Index(SubEntry[i]) = i
    BY <1>7, <2>1
  <2>3. ~(i - from \in 1..Len(list))
    OBVIOUS
  <2>4. ~In(SubEntry[i])
    BY <2>2, <2>3
  <2> QED
    BY <1>7, <2>1, <2>4
<1>9. ASSUME NEW i \in 1..n
      PROVE  text[SubEntry[from + i]] = list[i]
  <2>1. from + i \in 1..17 /\ (from + i) - from = i
    BY <1>0
  <2>2. In(SubEntry[from + i]) /\ Index(SubEntry[from + i]) - from = i
    BY <1>7, <2>1
  <2> QED
    BY <1>7, <2>1, <2>2
<1>10. \A i : i \in closed <=> (i \in win.closed /\ i <= from) \/ i \in from + 1..from + n
  OBVIOUS
<1> HIDE DEF text, closed
<1>11. /\ new.text = text /\ new.max = win.max /\ new.closed = closed
       /\ new \in Window
  BY <1>1, <1>2, <1>4, <1>5 DEF Window
<1> QED
  BY <1>6, <1>8, <1>9, <1>10, <1>11 DEF Lists

LEMMA ClearKeeps ==
    ASSUME NEW win \in Window, NEW from \in Nat, from < Len(SubEntry),
           NEW new, new = ClearFrom(win, from)
    PROVE  /\ new \in Window /\ new.max = win.max /\ new.closed = win.closed
           /\ \A e \in Entries \ SubEntries : new.text[e] = win.text[e]
           /\ \A i \in 1..from : new.text[SubEntry[i]] = win.text[SubEntry[i]]
<1> DEFINE text == [e \in Entries |-> IF e \in SubEntries /\ Index(e) > from THEN ""
                                    ELSE win.text[e]]
<1>1. /\ win.text \in [Entries -> Texts] /\ win.max \in [PrevNumbers -> {6, 10}]
      /\ win.closed \in SUBSET (1..Len(SubEntry)) /\ win.focus \in Focusable
      /\ DOMAIN win = {"text", "max", "closed", "focus"}
  BY DEF Window
<1>2. new = [win EXCEPT !.text = text]
  BY DEF ClearFrom
<1>3. text \in [Entries -> Texts]
  BY <1>1, TextsAre
<1>4. \A e \in Entries \ SubEntries : text[e] = win.text[e]
  OBVIOUS
<1>5. ASSUME NEW i \in 1..from
      PROVE  text[SubEntry[i]] = win.text[SubEntry[i]]
  <2>1. i \in 1..17
    BY Numbering
  <2>2. SubEntry[i] \in Entries /\ Index(SubEntry[i]) = i
    BY <2>1, IndexOf, EntriesAre
  <2>3. ~(Index(SubEntry[i]) > from)
    BY <2>2
  <2> QED
    BY <2>2, <2>3
<1> HIDE DEF text
<1>6. /\ new.text = text /\ new.max = win.max /\ new.closed = win.closed
      /\ new \in Window
  BY <1>1, <1>2, <1>3 DEF Window
<1> QED
  BY <1>4, <1>5, <1>6

\* Two lists, one behind the other.
Both(win, codes, new) ==
    /\ new \in Window /\ new.max = win.max
    /\ \A e \in Entries \ SubEntries : new.text[e] = win.text[e]
    /\ new.closed = 1..Len(codes)
    /\ \A i \in 1..Len(codes) : new.text[SubEntry[i]] = codes[i]

LEMMA TwoLists ==
    ASSUME NEW win \in Window, NEW one \in Seq(Texts), NEW two \in Seq(Texts),
           Len(one) + Len(two) < Len(SubEntry),
           NEW new, new = LoadCommon(LoadCommon(win, 0, one), Len(one), two)
    PROVE  Both(win, one \o two, new)
<1>1. PICK m \in Nat : m = Len(one)
  OBVIOUS
<1>2. PICK n \in Nat : n = Len(two)
  OBVIOUS
<1>3. PICK z \in Nat : z = 0
  OBVIOUS
<1>4. PICK first : first = LoadCommon(win, z, one)
  OBVIOUS
<1>5. /\ z + m < Len(SubEntry) /\ m + n < Len(SubEntry)
  BY <1>1, <1>2, <1>3
<1>6. /\ first \in Window /\ first.max = win.max
      /\ \A i : i \in first.closed <=> (i \in win.closed /\ i <= z) \/ i \in z + 1..z + m
      /\ \A e \in Entries \ SubEntries : first.text[e] = win.text[e]
      /\ \A i \in 1..m : first.text[SubEntry[z + i]] = one[i]
  <2>1. z \in Nat /\ m \in Nat /\ m = Len(one) /\ z + m < Len(SubEntry)
    BY <1>1, <1>3, <1>5
  <2>2. Lists(win, z, one, m, first)
    BY <1>4, <2>1, LoadKeeps, Zenon
  <2> QED
    BY <2>2 DEF Lists
<1>7. new = LoadCommon(first, m, two)
  BY <1>1, <1>3, <1>4
<1>8. /\ new \in Window /\ new.max = first.max
      /\ \A i : i \in new.closed <=> (i \in first.closed /\ i <= m) \/ i \in m + 1..m + n
      /\ \A e \in Entries \ SubEntries : new.text[e] = first.text[e]
      /\ \A i \in 1..m : new.text[SubEntry[i]] = first.text[SubEntry[i]]
      /\ \A i \in 1..n : new.text[SubEntry[m + i]] = two[i]
  <2>1. first \in Window /\ m \in Nat /\ n \in Nat /\ n = Len(two) /\ m + n < Len(SubEntry)
    BY <1>2, <1>5, <1>6
  <2>2. Lists(first, m, two, n, new)
    BY <1>7, <2>1, LoadKeeps, Zenon
  <2> QED
    BY <2>2 DEF Lists
<1>9. Len(one \o two) = m + n /\ m + n < Len(SubEntry)
  BY <1>1, <1>2, <1>5
<1>10. \A i : i \in first.closed <=> i \in 1..m
  <2>1. \A i \in win.closed : i \in Nat /\ i >= 1
    BY DEF Window
  <2>2. \A i : ~(i \in win.closed /\ i <= z)
    BY <1>3, <2>1
  <2>3. z + 1..z + m = 1..m
    BY <1>3
  <2> QED
    BY <1>6, <2>2, <2>3
<1>11. new.closed = 1..m + n
  <2>1. \A i : i \in new.closed <=> (i \in 1..m /\ i <= m) \/ i \in m + 1..m + n
    BY <1>8, <1>10
  <2>2. \A i : ((i \in 1..m /\ i <= m) \/ i \in m + 1..m + n) <=> i \in 1..m + n
    OBVIOUS
  <2> QED
    BY <2>1, <2>2
<1>12. ASSUME NEW i \in 1..m + n
       PROVE  new.text[SubEntry[i]] = (one \o two)[i]
  <2>1. CASE i <= m
    <3>1. i \in 1..m /\ z + i = i
      BY <1>3, <2>1
    <3>2. new.text[SubEntry[i]] = one[i]
      BY <1>6, <1>8, <3>1
    <3>3. (one \o two)[i] = one[i]
      BY <1>1, <2>1
    <3> QED
      BY <3>2, <3>3
  <2>2. CASE i > m
    <3>1. PICK j \in 1..n : i = m + j
      <4>1. i - m \in 1..n /\ i = m + (i - m)
        BY <2>2
      <4> QED
        BY <4>1
    <3>2. new.text[SubEntry[i]] = two[j]
      BY <1>8, <3>1
    <3>3. (one \o two)[i] = two[j]
      BY <1>1, <1>2, <3>1
    <3> QED
      BY <3>2, <3>3
  <2>3. i <= m \/ i > m
    OBVIOUS
  <2> QED
    BY <2>1, <2>2, <2>3, Zenon
<1>13. \A e \in Entries \ SubEntries : new.text[e] = win.text[e]
  BY <1>6, <1>8
<1>14. \A i \in 1..Len(one \o two) : new.text[SubEntry[i]] = (one \o two)[i]
  BY <1>9, <1>12
<1> QED
  BY <1>6, <1>8, <1>9, <1>11, <1>13, <1>14, Zenon DEF Both

\* on_combo_entry1_changed closes the entries of the new group's codes and opens
\* all others, whatever the old group's were.
LEMMA GroupKeeps ==
    ASSUME NEW win \in Window, NEW g \in Texts, Fits(win), NEW new, new = SetGroup(win, g)
    PROVE  /\ new \in Window /\ Fits(new)
           /\ Holds(new) \/ new = win
<1>1. CASE g = win.text["combo_entry1"]
  BY <1>1 DEF SetGroup
<1>2. CASE g # win.text["combo_entry1"]
  <2> DEFINE c == "combo_entry1"
             of == CommonOf(g)
             codes == CommonAll \o of
  <2>1. /\ c \in Entries /\ c \in Combos /\ c # "combo_entry7" /\ c \notin SubEntries
        /\ c \in Focusable
    BY EntriesAre, SubApart DEF Focusable
  <2>2. PICK set : set = SetPlain(win, c, g)
    OBVIOUS
  <2> HIDE DEF c
  <2>3. set \in Window /\ set.text[c] = g
    BY <2>1, <2>2, PlainKeeps
  <2>4. Fits(set)
    BY <2>1, <2>2, PlainFits
  <2>5. /\ CommonAll \in Seq(Texts) /\ of \in Seq(Texts)
        /\ Len(CommonAll) + Len(of) < Len(SubEntry)
    BY CodesAre
  <2>6. PICK own : own = LoadCommon(LoadCommon(set, 0, CommonAll), Len(CommonAll), of)
    OBVIOUS
  <2>7. PICK n : n = Len(CommonAll) + Len(of)
    OBVIOUS
  <2>8. PICK clear : clear = ClearFrom(own, n)
    OBVIOUS
  <2>9. new = Focussed(clear, c)
    BY <1>2, <2>2, <2>6, <2>7, <2>8 DEF SetGroup, c
  <2> HIDE DEF of
  <2>10. /\ own \in Window /\ own.max = set.max
         /\ \A e \in Entries \ SubEntries : own.text[e] = set.text[e]
         /\ own.closed = 1..Len(codes)
         /\ \A i \in 1..Len(codes) : own.text[SubEntry[i]] = codes[i]
    <3>1. /\ set \in Window /\ CommonAll \in Seq(Texts) /\ of \in Seq(Texts)
          /\ Len(CommonAll) + Len(of) < Len(SubEntry)
      BY <2>3, <2>5
    <3>2. Both(set, codes, own)
      BY <2>6, <3>1, TwoLists, Zenon
    <3> QED
      BY <3>2 DEF Both
  <2>11. n \in Nat /\ n < Len(SubEntry) /\ n = Len(codes)
    BY <2>5, <2>7
  <2>12. /\ clear \in Window /\ clear.max = own.max /\ clear.closed = own.closed
         /\ \A e \in Entries \ SubEntries : clear.text[e] = own.text[e]
         /\ \A i \in 1..n : clear.text[SubEntry[i]] = own.text[SubEntry[i]]
    BY <2>8, <2>10, <2>11, ClearKeeps
  <2>13. /\ new \in Window
         /\ new.text = clear.text /\ new.max = clear.max /\ new.closed = clear.closed
    BY <2>1, <2>9, <2>12, FocussedKeeps
  <2>14. \A e \in Entries \ SubEntries : new.text[e] = set.text[e]
    BY <2>10, <2>12, <2>13
  <2>15. \A i \in 1..Len(codes) : new.text[SubEntry[i]] = codes[i]
    BY <2>10, <2>11, <2>12, <2>13
  <2>16. new.closed = 1..Len(codes) /\ new.max = set.max
    BY <2>10, <2>12, <2>13
  <2>17. new.text[c] = g
    BY <2>1, <2>3, <2>14
  <2>18. Holds(new)
    BY <2>15, <2>16, <2>17 DEF Holds, c, of
  <2>19. Fits(new)
    <3>1. \A e \in PrevNumbers : new.text[e] = set.text[e]
      BY <2>14, EntriesAre, SubApart
    <3>2. new.text["combo_entry7"] = set.text["combo_entry7"]
      BY <2>14, EntriesAre, SubApart
    <3> QED
      BY <2>4, <2>16, <3>1, <3>2 DEF Fits
  <2> QED
    BY <2>13, <2>18, <2>19
<1> QED
  BY <1>1, <1>2

-----------------------------------------------------------------------------
(* Any entry *)

\* Every handler leaves a window whose numbers fit the board.
LEMMA SetKeeps ==
    ASSUME NEW win \in Window, NEW e \in Entries, NEW t \in Texts, Fits(win),
           NEW new, new = SetText(win, e, t)
    PROVE  new \in Window /\ Fits(new)
<1>1. CASE e = "entry2"
  BY <1>1, NameKeeps DEF SetText
<1>2. CASE e = "entry13"
  BY <1>2, StartKeeps DEF SetText
<1>3. CASE e = "combo_entry1"
  BY <1>3, GroupKeeps DEF SetText
<1>4. CASE e = "combo_entry7"
  BY <1>4, BoardFits DEF SetText
<1>5. CASE e \notin {"entry2", "entry13", "combo_entry1", "combo_entry7"}
  <2>1. new = SetPlain(win, e, t) /\ e # "combo_entry7"
    BY <1>5 DEF SetText
  <2> QED
    BY <2>1, PlainKeeps, PlainFits
<1> QED
  BY <1>1, <1>2, <1>3, <1>4, <1>5

\* And none but the group's touches the codes of the group, unless one of these
\* is what is typed.
LEMMA SetHolds ==
    ASSUME NEW win \in Window, NEW e \in Entries, NEW t \in Texts, Fits(win), Holds(win),
           e \in SubEntries => Index(e) \notin win.closed,
           NEW new, new = SetText(win, e, t)
    PROVE  Holds(new)
<1> DEFINE codes == CommonAll \o CommonOf(win.text["combo_entry1"])
<1>1. CASE e = "combo_entry1"
  BY <1>1, GroupKeeps DEF SetText
<1>2. CASE e # "combo_entry1"
  <2>1. new.closed = win.closed
    <3>1. CASE e = "entry2"
      BY <3>1, NameKeeps DEF SetText
    <3>2. CASE e = "entry13"
      BY <3>2, StartKeeps DEF SetText
    <3>3. CASE e = "combo_entry7"
      BY <3>3, BoardFits DEF SetText
    <3>4. CASE e \notin {"entry2", "entry13", "combo_entry1", "combo_entry7"}
      <4>1. new = SetPlain(win, e, t)
        BY <3>4 DEF SetText
      <4> QED
        BY <4>1, PlainKeeps
    <3> QED
      BY <1>2, <3>1, <3>2, <3>3, <3>4
  <2>2. \A x \in SubEntries \cup {"combo_entry1"} : x # e => new.text[x] = win.text[x]
    <3>1. \A x \in SubEntries \cup {"combo_entry1"} :
             /\ x \in Entries
             /\ x \notin PrevNumbers \cup {"entry2", "entry13", "entry14", "combo_entry7",
                                           "combo_entry8"}
      BY EntriesAre, SubApart DEF Names, Combos, PrevNumbers
    <3>2. CASE e = "entry2"
      BY <3>1, <3>2, NameKeeps DEF SetText
    <3>3. CASE e = "entry13"
      BY <3>1, <3>3, StartKeeps DEF SetText
    <3>4. CASE e = "combo_entry7"
      BY <3>1, <3>4, BoardFits DEF SetText
    <3>5. CASE e \notin {"entry2", "entry13", "combo_entry1", "combo_entry7"}
      <4>1. new = SetPlain(win, e, t)
        BY <3>5 DEF SetText
      <4> QED
        BY <3>1, <4>1, PlainKeeps
    <3> QED
      BY <1>2, <3>2, <3>3, <3>4, <3>5
  <2>3. new.text["combo_entry1"] = win.text["combo_entry1"]
    BY <1>2, <2>2
  <2>4. ASSUME NEW i \in 1..Len(codes)
        PROVE  new.text[SubEntry[i]] = codes[i]
    <3>1. win.closed = 1..Len(codes) /\ win.text[SubEntry[i]] = codes[i]
      BY DEF Holds
    <3>2. i \in win.closed /\ win.closed \subseteq 1..17
      BY <3>1, Numbering DEF Window
    <3>3. SubEntry[i] \in SubEntries /\ Index(SubEntry[i]) = i
      BY <3>2, IndexOf
    <3>4. SubEntry[i] # e
      BY <3>2, <3>3
    <3> QED
      BY <2>2, <3>1, <3>3, <3>4
  <2> QED
    BY <2>1, <2>3, <2>4 DEF Holds
<1> QED
  BY <1>1, <1>2

-----------------------------------------------------------------------------
(* One entry after the other *)

\* The windows in between, one by one, with the last.
Fills(filled, win, order, texts, new) ==
    /\ filled[0] = win /\ filled[Len(order)] = new
    /\ \A n \in 1..Len(order) :
          filled[n] = SetText(filled[n - 1], order[n], texts[order[n]])

\* SetAll is what its recursion says: these windows exist.
LEMMA Filling ==
    ASSUME NEW win, NEW order \in Seq(Entries), NEW texts
    PROVE  \E filled : Fills(filled, win, order, texts, SetAll(win, order, texts))
<1> DEFINE Step(f, n) == IF n = 0 THEN win
                         ELSE SetText(f[n - 1], order[n], texts[order[n]])
           Good(m) == \E f : f = [n \in 0..m |-> Step(f, n)]
           bad == {m \in Nat : ~Good(m)}
           last == Len(order)
<1>1. last \in Nat
  OBVIOUS
<1>2. Good(last)
  <2> SUFFICES ASSUME bad # {}
               PROVE  FALSE
    BY <1>1
  <2>1. PICK m \in bad : \A j \in bad : m <= j
    <3>1. bad \in SUBSET Nat
      OBVIOUS
    <3> HIDE DEF bad
    <3> QED
      BY <3>1, LeastNumber
  <2>2. m \in Nat /\ ~Good(m)
    BY <2>1
  <2>3. CASE m = 0
    <3>1. [n \in 0..0 |-> win] = [n \in 0..0 |-> Step([i \in 0..0 |-> win], n)]
      OBVIOUS
    <3> QED
      BY <2>2, <2>3, <3>1
  <2>4. CASE m # 0
    <3>1. m - 1 \in Nat /\ ~(m <= m - 1)
      BY <2>2, <2>4
    <3>2. Good(m - 1)
      BY <2>1, <3>1
    <3>3. PICK f : f = [n \in 0..m - 1 |-> Step(f, n)]
      BY <3>2
    <3> DEFINE g == [n \in 0..m |-> Step(f, n)]
    <3>4. \A n \in 0..m - 1 : g[n] = f[n]
      BY <2>2, <3>3
    <3>5. \A n \in 0..m : Step(g, n) = Step(f, n)
      BY <2>2, <3>4, SMTT(20)
    <3>6. g = [n \in 0..m |-> Step(g, n)]
      BY <3>5
    <3> QED
      BY <2>2, <3>6
  <2> QED
    BY <2>3, <2>4
<1> DEFINE filled == CHOOSE f : f = [n \in 0..last |-> Step(f, n)]
<1>3. filled = [n \in 0..last |-> Step(filled, n)]
  BY <1>2
<1>4. SetAll(win, order, texts) = filled[last]
  BY DEF SetAll
<1> HIDE DEF filled
<1>5. \A n \in 1..last : filled[n] = SetText(filled[n - 1], order[n], texts[order[n]])
  BY <1>3
<1>6. filled[0] = win
  BY <1>1, <1>3
<1> QED
  BY <1>4, <1>5, <1>6 DEF Fills

\* What every handler keeps, a program that sets one entry after the other keeps.
LEMMA SetAllKeeps ==
    ASSUME NEW win \in Window, Fits(win), NEW order \in Seq(Entries),
           NEW texts \in [Entries -> Texts], NEW new, new = SetAll(win, order, texts)
    PROVE  /\ new \in Window /\ Fits(new)
           /\ Holds(win) /\ (\A n \in 1..Len(order) : order[n] \notin SubEntries) => Holds(new)
<1>1. PICK filled : Fills(filled, win, order, texts, new)
  BY Filling
<1> DEFINE Quiet == Holds(win) /\ \A n \in 1..Len(order) : order[n] \notin SubEntries
           Right(n) == /\ filled[n] \in Window /\ Fits(filled[n])
                       /\ Quiet => Holds(filled[n])
           wrong == {n \in 0..Len(order) : ~Right(n)}
<1>2. ASSUME NEW n \in 1..Len(order), Right(n - 1)
      PROVE  Right(n)
  <2>1. PICK e \in Entries : e = order[n]
    OBVIOUS
  <2>2. PICK t \in Texts : t = texts[e]
    OBVIOUS
  <2>3. PICK before : before = filled[n - 1]
    OBVIOUS
  <2>4. PICK after : after = filled[n]
    OBVIOUS
  <2>5. before \in Window /\ Fits(before) /\ (Quiet => Holds(before))
    BY <1>2, <2>3
  <2>6. after = SetText(before, e, t)
    BY <1>1, <2>1, <2>2, <2>3, <2>4 DEF Fills
  <2>7. Quiet => e \notin SubEntries
    BY <2>1
  <2> HIDE DEF Quiet
  <2>8. after \in Window /\ Fits(after)
    BY <2>5, <2>6, SetKeeps
  <2>9. ASSUME Quiet
        PROVE  Holds(after)
    BY <2>5, <2>6, <2>7, <2>9, SetHolds
  <2> QED
    BY <2>4, <2>8, <2>9
<1>3. Len(order) \in Nat
  OBVIOUS
<1>4. Right(0)
  BY <1>1 DEF Fills
<1>5. wrong = {}
  <2> SUFFICES ASSUME wrong # {}
               PROVE  FALSE
    OBVIOUS
  <2>1. PICK n \in wrong : \A j \in wrong : n <= j
    <3>1. wrong \in SUBSET Nat
      BY <1>3
    <3> HIDE DEF wrong
    <3> QED
      BY <3>1, LeastNumber
  <2>2. n \in 0..Len(order) /\ ~Right(n)
    BY <2>1
  <2> HIDE DEF Right
  <2>3. n # 0
    BY <1>4, <2>2
  <2>4. n \in 1..Len(order) /\ n - 1 \in 0..Len(order) /\ ~(n <= n - 1)
    BY <1>3, <2>2, <2>3
  <2>5. Right(n - 1)
    BY <2>1, <2>4
  <2> QED
    BY <1>2, <2>2, <2>4, <2>5
<1>6. Right(Len(order))
  BY <1>3, <1>5
<1> QED
  BY <1>1, <1>6 DEF Fills

-----------------------------------------------------------------------------
(* The actions *)

IInv == TypeOK /\ DependentsFollow

LEMMA TypeIs == TypeOK <=> /\ work \in Works /\ signal \in BOOLEAN
                           /\ open \in {"form", "editor", "none"}
                           /\ w \in Window
                           /\ (file = <<>> \/ file \in [Entries -> Texts])
BY DEF TypeOK, Window, Focusable

LEMMA FollowIs == DependentsFollow <=> Fits(w) /\ (open = "form" => Holds(w))
BY DEF DependentsFollow, FitsBoard, CommonHeld, Fits, Holds

LEMMA IsSeq ==
    ASSUME NEW S, NEW n \in Nat, NEW s \in [1..n -> S]
    PROVE  s \in Seq(S)
OBVIOUS

LEMMA OrdersAre ==
    /\ LoadOrder \in Seq(Entries)
    /\ Cleared \in Seq(Entries) /\ \A n \in 1..Len(Cleared) : Cleared[n] \notin SubEntries
<1>1. << "entry2", "entry3", "entry4", "combo_entry1", "entry5", "combo_entry2",
         "entry6", "combo_entry3", "combo_entry4", "combo_entry5", "entry7",
         "combo_entry6", "entry8", "entry9", "combo_entry7", "entry10",
         "entry11", "entry12", "entry13", "entry14", "combo_entry8",
         "combo_entry9" >> \in Seq(Entries)
  BY DEF Entries, Names, Numbers, Years, PrevNumbers, Combos
<1>2. SubEntry \in Seq(Entries)
  <2>1. SubEntry = [i \in 1..17 |-> SubEntry[i]]
    BY DEF SubEntry
  <2>2. \A i \in 1..17 : SubEntry[i] \in Entries
    BY IndexOf, EntriesAre
  <2> DEFINE n == 17
  <2>3. n \in Nat /\ SubEntry \in [1..n -> Entries]
    BY <2>1, <2>2
  <2> HIDE DEF n
  <2> QED
    BY <2>3, IsSeq
<1>3. LoadOrder \in Seq(Entries)
  <2>1. \A a, b \in Seq(Entries) : a \o b \in Seq(Entries)
    OBVIOUS
  <2> QED
    BY <1>1, <1>2, <2>1, Zenon DEF LoadOrder
<1>4. Cleared \in Seq(Entries)
  BY DEF Cleared, Entries, Names, Numbers, PrevNumbers
<1>5. \A n \in 1..Len(Cleared) : Cleared[n] \in Names \cup {"entry6"} \cup PrevNumbers
  BY DEF Cleared, Names, PrevNumbers
<1>6. \A n \in 1..Len(Cleared) : Cleared[n] \notin SubEntries
  BY <1>5, SubApart
<1> QED
  BY <1>3, <1>4, <1>6

\* The entry a check points at is one.
LEMMA PlacesAre ==
    ASSUME NEW x, NEW session, NEW i \in 1..Len(Checks(x, session))
    PROVE  Checks(x, session)[i].at \in Entries \cup {""}
<1>1. {"entry2", "entry3", "entry4", "entry5", "entry6", "combo_entry5", "entry7", "entry8",
       "entry10", "entry11", "entry13", "entry14"} \subseteq Entries
  BY DEF Entries, Names, Numbers, Years, PrevNumbers
<1> DEFINE c == Checks(x, session)
<1>2. Len(c) = 16
  BY DEF Checks
<1>3. /\ c[1].at = "entry2" /\ c[2].at = "entry3" /\ c[3].at = "entry4"
      /\ c[4].at = "entry5" /\ c[5].at = "entry6" /\ c[6].at = "combo_entry5"
      /\ c[7].at = "entry7" /\ c[8].at = "entry8" /\ c[9].at = "entry10"
      /\ c[10].at = "entry11" /\ c[11].at = "" /\ c[12].at = "entry13"
      /\ c[13].at = "" /\ c[14].at = "entry14" /\ c[15].at = "entry13"
      /\ c[16].at = ""
  BY DEF Checks
<1> HIDE DEF c
<1>4. i \in 1..16
  BY <1>2 DEF c
<1>5. \/ i = 1 \/ i = 2 \/ i = 3 \/ i = 4 \/ i = 5 \/ i = 6 \/ i = 7 \/ i = 8
      \/ i = 9 \/ i = 10 \/ i = 11 \/ i = 12 \/ i = 13 \/ i = 14 \/ i = 15 \/ i = 16
  BY <1>4
<1>6. c[i].at \in {"entry2", "entry3", "entry4", "entry5", "entry6", "combo_entry5", "entry7",
                   "entry8", "entry10", "entry11", "entry13", "entry14"} \cup {""}
  BY <1>3, <1>5, ZenonT(40)
<1>7. c[i].at \in Entries \cup {""}
  BY <1>1, <1>6, Zenon
<1> QED
  BY <1>7 DEF c

LEMMA RebukedKeeps ==
    ASSUME NEW win \in Window, Refused(win) # {}, NEW new, new = Rebuked(win)
    PROVE  /\ new \in Window
           /\ new.text = win.text /\ new.max = win.max /\ new.closed = win.closed
<1> DEFINE c == Checks(win.text, AllSession)
           i == CHOOSE i \in Refused(win) : \A j \in Refused(win) : i <= j
<1>1. i \in Refused(win)
  <2>1. Refused(win) \in SUBSET Nat
    BY DEF Refused
  <2> QED
    BY <2>1, LeastNumber
<1>2. i \in 1..Len(c)
  BY <1>1 DEF Refused
<1>3. c[i].at \in Entries \cup {""}
  <2> HIDE DEF i
  <2> QED
    BY <1>2, PlacesAre
<1>4. new = IF c[i].at = "" THEN win ELSE Focussed(win, c[i].at)
  BY DEF Rebuked
<1> HIDE DEF c, i
<1>5. CASE c[i].at = ""
  BY <1>4, <1>5
<1>6. CASE c[i].at # ""
  <2>1. c[i].at \in Focusable
    BY <1>3, <1>6 DEF Focusable
  <2> QED
    BY <1>4, <1>6, <2>1, FocussedKeeps
<1> QED
  BY <1>5, <1>6

LEMMA Same ==
    ASSUME NEW win \in Window, NEW new \in Window,
           new.text = win.text, new.max = win.max, new.closed = win.closed
    PROVE  /\ Fits(win) => Fits(new)
           /\ Holds(win) => Holds(new)
BY DEF Fits, Holds

\* The windows as they are built.
LEMMA NewFormIs == NewForm \in Window /\ Fits(NewForm) /\ Holds(NewForm)
<1> DEFINE text == [Filled EXCEPT !["combo_entry1"] = "Science", !["combo_entry7"] = "Dhaka"]
           max == [e \in PrevNumbers |-> 6]
           of == CommonOf("Science")
           codes == CommonAll \o of
<1>1. PICK empty : empty = [text |-> text, max |-> max, closed |-> {}, focus |-> "entry2"]
  OBVIOUS
<1>2. Filled \in [Entries -> Texts] /\ \A e \in PrevNumbers : Size(Filled[e]) <= 6
  BY FieldsAssumption
<1>3. text \in [Entries -> Texts]
  BY <1>2, TextsAre
<1>4. \A e \in PrevNumbers : max[e] = 6 /\ Size(text[e]) <= 6
  BY <1>2, EntriesAre DEF PrevNumbers
<1>5. text["combo_entry7"] = "Dhaka" /\ text["combo_entry1"] = "Science"
  BY <1>2, EntriesAre
<1>6. max \in [PrevNumbers -> {6, 10}] /\ "entry2" \in Focusable
  BY EntriesAre DEF Focusable
<1> HIDE DEF text, max
<1>7. empty \in Window /\ empty.text = text /\ empty.max = max
  BY <1>1, <1>3, <1>6 DEF Window
<1>8. /\ CommonAll \in Seq(Texts) /\ of \in Seq(Texts)
      /\ Len(CommonAll) + Len(of) < Len(SubEntry)
  BY CodesAre, TextsAre
<1>9. NewForm = LoadCommon(LoadCommon(empty, 0, CommonAll), Len(CommonAll), of)
  BY <1>1 DEF NewForm, text, max
<1> HIDE DEF of
<1>10. Both(empty, codes, NewForm)
  BY <1>7, <1>8, <1>9, TwoLists, Zenon
<1>11. NewForm \in Window /\ \A e \in Entries \ SubEntries : NewForm.text[e] = text[e]
  BY <1>7, <1>10 DEF Both
<1>12. /\ NewForm.text["combo_entry7"] = "Dhaka" /\ NewForm.text["combo_entry1"] = "Science"
       /\ \A e \in PrevNumbers : NewForm.text[e] = text[e]
  BY <1>5, <1>11, EntriesAre, SubApart
<1>13. Fits(NewForm)
  <2>1. NewForm.max = max
    BY <1>7, <1>10 DEF Both
  <2>2. "Dhaka" \notin LongBoards
    BY DEF LongBoards
  <2> QED
    BY <1>4, <1>12, <2>1, <2>2 DEF Fits
<1>14. Holds(NewForm)
  BY <1>10, <1>12 DEF Both, Holds, of
<1> QED
  BY <1>11, <1>13, <1>14

LEMMA NewEditorIs == NewEditor \in Window /\ Fits(NewEditor)
<1>1. NewEditor.text \in [Entries -> Texts]
  BY TextsAre DEF NewEditor
<1>2. NewEditor \in Window
  BY <1>1, EntriesAre DEF NewEditor, Window, Focusable
<1>3. NewEditor.text["combo_entry7"] = "Rajshahi"
  BY EntriesAre DEF NewEditor
<1>4. \A e \in PrevNumbers : NewEditor.max[e] = 6 /\ NewEditor.text[e] = ""
  BY EntriesAre DEF NewEditor, PrevNumbers
<1>5. "Rajshahi" \notin LongBoards
  BY DEF LongBoards
<1>6. Size("") <= 6
  <2> DEFINE s == Size("")
  <2>1. s = 0
    BY FieldsAssumption
  <2> HIDE DEF s
  <2>2. s <= 6
    BY <2>1
  <2> QED
    BY <2>2 DEF s
<1>7. Fits(NewEditor)
  BY <1>3, <1>4, <1>5, <1>6 DEF Fits
<1> QED
  BY <1>2, <1>7

\* Whatever the file says, it is loaded into a window whose numbers fit.
LEMMA EditorIs ==
    ASSUME NEW f \in [Entries -> Texts], NEW new, new = EditorWith(f)
    PROVE  new \in Window /\ Fits(new)
<1> DEFINE texts == [e \in Entries |-> Loaded(f, e)]
<1>1. PICK all : all = SetAll(NewEditor, LoadOrder, texts)
  OBVIOUS
<1>2. new = Focussed(all, "entry2")
  BY <1>1 DEF EditorWith
<1>3. texts \in [Entries -> Texts]
  BY TextsAre DEF Loaded
<1> HIDE DEF texts
<1>4. all \in Window /\ Fits(all)
  BY <1>1, <1>3, NewEditorIs, OrdersAre, SetAllKeeps
<1>5. "entry2" \in Focusable
  BY EntriesAre DEF Focusable
<1> QED
  BY <1>2, <1>4, <1>5, FocussedKeeps, Same

LEMMA InitKeeps ==
    ASSUME Init
    PROVE  IInv
<1>1. /\ work \in Works /\ signal \in BOOLEAN /\ open = "form" /\ w = NewForm /\ file = <<>>
  BY DEF Init
<1>2. w \in Window /\ Fits(w) /\ Holds(w)
  BY <1>1, NewFormIs
<1> QED
  BY <1>1, <1>2, TypeIs, FollowIs DEF IInv

\* What w and file become, with all that stays as it is.
After ==
    /\ UNCHANGED <<work, signal>> /\ open' \in {"form", "editor", "none"}
    /\ w' \in Window /\ Fits(w') /\ (open' = "form" => Holds(w'))
    /\ file' = file \/ file' \in [Entries -> Texts]

LEMMA AfterIs ==
    ASSUME IInv, After
    PROVE  IInv'
<1>1. /\ work' \in Works /\ signal' \in BOOLEAN
      /\ (file' = <<>> \/ file' \in [Entries -> Texts])
  BY TypeIs DEF IInv, After
<1>2. /\ w' \in [text : [Entries -> Texts], max : [PrevNumbers -> {6, 10}],
                 closed : SUBSET (1..Len(SubEntry)), focus : Entries \cup {"button3"}]
      /\ open' \in {"form", "editor", "none"}
  BY DEF After, Window, Focusable
<1>3. TypeOK'
  BY <1>1, <1>2 DEF TypeOK
<1>4. FitsBoard' /\ CommonHeld'
  BY DEF After, Fits, Holds, FitsBoard, CommonHeld
<1> QED
  BY <1>3, <1>4 DEF IInv, DependentsFollow

LEMMA WrittenIs ==
    ASSUME NEW win \in Window
    PROVE  Written(win) \in [Entries -> Texts]
<1>1. \A e \in Entries : win.text[e] \in Texts
  BY DEF Window
<1> QED
  BY <1>1, TextsAre DEF Written

LEMMA TypeKeeps ==
    ASSUME IInv, NEW e \in work.varying, NEW t \in Inputs(e), Type(e, t)
    PROVE  After
<1>1. /\ w' = SetText(Focussed(w, e), e, t)
      /\ open # "none" /\ Editable(e)
      /\ UNCHANGED <<work, signal, open, file>>
  BY DEF Type
<1>2. w \in Window /\ Fits(w) /\ (open = "form" => Holds(w))
  BY TypeIs, FollowIs DEF IInv
<1>3. work \in Works /\ open \in {"form", "editor", "none"}
  BY DEF IInv, TypeOK
<1>4. e \in Entries /\ t \in Texts /\ e \in Focusable
  BY <1>3, FieldsAssumption DEF Focusable
<1>5. PICK at : at = Focussed(w, e)
  OBVIOUS
<1>6. PICK new : new = SetText(at, e, t)
  OBVIOUS
<1>7. /\ at \in Window /\ Fits(at) /\ (Holds(w) => Holds(at))
      /\ at.closed = w.closed
  BY <1>2, <1>4, <1>5, FocussedKeeps, Same
<1>8. new \in Window /\ Fits(new)
  BY <1>4, <1>6, <1>7, SetKeeps
<1>9. ASSUME open = "form"
      PROVE  Holds(new)
  <2>1. e \in SubEntries => Index(e) \notin at.closed
    BY <1>1, <1>7 DEF Editable
  <2>2. Holds(at)
    BY <1>2, <1>7, <1>9
  <2> QED
    BY <1>4, <1>6, <1>7, <2>1, <2>2, SetHolds
<1>10. w' = new
  BY <1>1, <1>5, <1>6
<1> QED
  BY <1>1, <1>3, <1>8, <1>9, <1>10 DEF After

LEMMA SaveFormKeeps ==
    ASSUME IInv, SaveForm
    PROVE  After
<1>1. w \in Window /\ Fits(w) /\ Holds(w) /\ open = "form"
  BY TypeIs, FollowIs DEF IInv, SaveForm
<1>2. UNCHANGED <<work, signal, open>>
  BY DEF SaveForm
<1>3. CASE Refused(w) # {}
  <2>1. w' = Rebuked(w) /\ file' = file
    BY <1>3 DEF SaveForm
  <2>2. PICK new : new = Rebuked(w)
    OBVIOUS
  <2>3. new \in Window /\ Fits(new) /\ Holds(new)
    BY <1>1, <1>3, <2>2, RebukedKeeps, Same
  <2> QED
    BY <1>1, <1>2, <2>1, <2>2, <2>3 DEF After
<1>4. CASE Refused(w) = {}
  <2> DEFINE texts == [e \in Entries |-> ""]
  <2>1. file' = Written(w) /\ w' = Focussed(SetAll(w, Cleared, texts), "entry2")
    BY <1>4 DEF SaveForm
  <2>2. texts \in [Entries -> Texts]
    BY TextsAre
  <2> HIDE DEF texts
  <2>3. PICK all : all = SetAll(w, Cleared, texts)
    OBVIOUS
  <2>4. all \in Window /\ Fits(all) /\ Holds(all)
    BY <1>1, <2>2, <2>3, OrdersAre, SetAllKeeps
  <2>5. PICK new : new = Focussed(all, "entry2")
    OBVIOUS
  <2>6. "entry2" \in Focusable
    BY EntriesAre DEF Focusable
  <2>7. new \in Window /\ Fits(new) /\ Holds(new)
    BY <2>4, <2>5, <2>6, FocussedKeeps, Same
  <2>8. file' \in [Entries -> Texts]
    BY <1>1, <2>1, WrittenIs
  <2> QED
    BY <1>1, <1>2, <2>1, <2>3, <2>5, <2>7, <2>8 DEF After
<1> QED
  BY <1>3, <1>4

LEMMA OpenEditorKeeps ==
    ASSUME IInv, OpenEditor
    PROVE  After
<1>1. file \in [Entries -> Texts]
  BY TypeIs DEF IInv, OpenEditor
<1>2. PICK new : new = EditorWith(file)
  OBVIOUS
<1>3. new \in Window /\ Fits(new)
  BY <1>1, <1>2, EditorIs
<1> QED
  BY <1>2, <1>3 DEF OpenEditor, After

LEMMA SaveEditKeeps ==
    ASSUME IInv, SaveEdit
    PROVE  After
<1>1. w \in Window /\ Fits(w) /\ open = "editor"
  BY TypeIs, FollowIs DEF IInv, SaveEdit
<1>2. UNCHANGED <<work, signal>>
  BY DEF SaveEdit
<1>3. CASE Refused(w) # {}
  <2>1. w' = Rebuked(w) /\ file' = file /\ open' = open
    BY <1>3 DEF SaveEdit
  <2>2. PICK new : new = Rebuked(w)
    OBVIOUS
  <2>3. new \in Window /\ Fits(new)
    BY <1>1, <1>3, <2>2, RebukedKeeps, Same
  <2> QED
    BY <1>1, <1>2, <2>1, <2>2, <2>3 DEF After
<1>4. CASE Refused(w) = {}
  <2>1. file' = Written(w) /\ open' = "none" /\ w' = NewEditor
    BY <1>4 DEF SaveEdit
  <2>2. file' \in [Entries -> Texts]
    BY <1>1, <2>1, WrittenIs
  <2> QED
    BY <1>2, <2>1, <2>2, NewEditorIs DEF After
<1> QED
  BY <1>3, <1>4

LEMMA CloseEditorKeeps ==
    ASSUME IInv, CloseEditor
    PROVE  After
<1>1. open' = "none" /\ w' = NewEditor /\ UNCHANGED <<work, signal, file>>
  BY DEF CloseEditor
<1> QED
  BY <1>1, NewEditorIs DEF After

LEMMA StepKeeps ==
    ASSUME IInv, [Next]_vars
    PROVE  IInv'
<1>1. ASSUME NEW e \in work.varying, NEW t \in Inputs(e), Type(e, t)
      PROVE  IInv'
  BY <1>1, TypeKeeps, AfterIs
<1>2. CASE SaveForm
  BY <1>2, SaveFormKeeps, AfterIs
<1>3. CASE OpenEditor
  BY <1>3, OpenEditorKeeps, AfterIs
<1>4. CASE SaveEdit
  BY <1>4, SaveEditKeeps, AfterIs
<1>5. CASE CloseEditor
  BY <1>5, CloseEditorKeeps, AfterIs
<1>6. CASE UNCHANGED vars
  BY <1>6
  DEF vars, IInv, TypeOK, DependentsFollow, FitsBoard, CommonHeld
<1> QED
  BY <1>1, <1>2, <1>3, <1>4, <1>5, <1>6 DEF Next

LEMMA Invariant == Spec => []IInv
<1>1. Init => IInv
  BY InitKeeps
<1>2. IInv /\ [Next]_vars => IInv'
  BY StepKeeps
<1> QED
  BY <1>1, <1>2, PTL DEF Spec

-----------------------------------------------------------------------------
(* The theorems *)

\* Every entry holds a text, every length is one of the two that are set, the
\* codes that are closed and the entry with the focus are there.
THEOREM TypeCorrect == Spec => []TypeOK
<1>1. IInv => TypeOK
  BY DEF IInv
<1> QED
  BY <1>1, Invariant, PTL

\* The previous numbers have the length of the board that is chosen, and exactly
\* the common codes of the group that is chosen are filled in and closed, in
\* whatever order entries are typed, chosen, cleared and loaded.
THEOREM DependentsAlwaysFollow == Spec => []DependentsFollow
<1>1. IInv => DependentsFollow
  BY DEF IInv
<1> QED
  BY <1>1, Invariant, PTL
=============================================================================
