------------------------------ MODULE FormFields ------------------------------
(***************************************************************************)
(* The entries of a student's form.  The same widgets are built twice: in  *)
(* the form window (window2, interface.c) where new forms are typed, and   *)
(* in the editor's window (window3, editor.c), filled from a saved file by *)
(* load_student_info.  Every change of an entry runs a handler that        *)
(* corrects the text, may change other entries (the name sets the gender,  *)
(* a session's start its end, the group the subject codes, the previous    *)
(* board the length of the numbers) and moves the focus.  The handlers run *)
(* for the user and for the program alike, so what is loaded depends on    *)
(* the order in which it is loaded.                                        *)
(*                                                                         *)
(* A text is a value of Texts; what the handlers do to its characters is   *)
(* given by the operators below.                                           *)
(***************************************************************************)
EXTENDS Naturals, Sequences

CONSTANTS
    Texts,
    NoSection,          \* the blank in the place of a section
    Size(_),            \* strlen
    Cut(_, _),          \* the text as far as a maximum length admits it
    Upper(_),           \* strupper
    Letters(_),         \* the longest prefix in ACCEPTCHARS
    Digits(_),          \* the longest prefix in ACCEPTNUMBERS
    Strip(_),           \* without the blanks sscanf skips
    Value(_),           \* atoi
    Padded(_),          \* printed as %04d
    Successor(_),       \* the number after it
    GenderOf(_),        \* update_gender: "Male", "Female" or "none"
    GoodName(_),        \* what verify_name accepts
    Month(_),           \* days of the month, for verify_date
    Filled,             \* the texts of a new form that are typed already
    Works,              \* bound: sets of entries the user works on, with the
                        \* checks that the options leave out meanwhile
    Inputs(_),          \* what she types into them, or chooses
    CommonAll,          \* sub_common_all.txt
    CommonOf(_),        \* the common codes of a group
    CodesAccepted(_, _),\* verify_subject_codes_by_group
    Ssc                 \* is_ssc

SubEntry == << "entry15", "entry16", "entry17", "entry18", "entry19",
               "entry20", "entry21", "entry22", "entry23", "entry24",
               "entry25", "entry26", "entry27", "entry28", "entry29",
               "entry30", "entry31" >>
Index(e) == CHOOSE i \in 1..Len(SubEntry) : SubEntry[i] = e
SubEntries == {SubEntry[i] : i \in 1..Len(SubEntry)}

Names == {"entry2", "entry3", "entry4"}
Years == {"entry10", "entry13", "entry14", "combo_entry5"}
PrevNumbers == {"entry11", "entry12"}
Numbers == {"entry6", "entry7"} \cup Years \cup PrevNumbers \cup SubEntries

\* Combos whose entry only takes a choice from the list.
Combos == {"combo_entry1", "combo_entry2", "combo_entry3", "combo_entry4",
            "combo_entry6", "combo_entry7", "combo_entry8", "combo_entry9"}

Entries == Names \cup Numbers \cup Combos \cup {"entry5", "entry8", "entry9"}

ASSUME FieldsAssumption ==
    /\ \A work \in Works : work.varying \subseteq Entries
    /\ Filled \in [Entries -> Texts] /\ \A e \in PrevNumbers : Size(Filled[e]) <= 6
    /\ {"", NoSection, "Male", "Female", "Science", "Dhaka", "Rajshahi"} \subseteq Texts
    /\ \A t \in Texts :
          /\ {Upper(t), Letters(t), Digits(t), Strip(t), Padded(t), Successor(t)} \subseteq Texts
          /\ GenderOf(t) \in {"Male", "Female", "none"}
          /\ Size(t) \in Nat /\ Size(Digits(t)) <= Size(t)
          /\ \A n \in {3, 4, 6, 10, 40, 70} : Cut(t, n) \in Texts
          /\ \A n \in {6, 10} : Size(Cut(t, n)) <= n
    /\ Size("") = 0
    /\ \A e \in Entries : Inputs(e) \subseteq Texts
    /\ CommonAll \in Seq(Texts)
    \* every list leaves the fourth subject's entry free
    /\ \A g \in Texts : /\ CommonOf(g) \in Seq(Texts)
                        /\ Len(CommonAll) + Len(CommonOf(g)) < Len(SubEntry)
    /\ Ssc \in BOOLEAN

VARIABLES
    work,       \* one of Works
    signal,     \* gtk_entry_set_text signals the deletion of the old text,
                \* too, as GTK did before it froze the signals
    open,       \* "form", "editor" or "none"
    w,          \* the window that is open; NewEditor when none is
    file        \* the saved form, or <<>>

vars == <<work, signal, open, w, file>>

-----------------------------------------------------------------------------
(* A window: the texts of its entries, the maximum lengths that change, the *)
(* subject entries that cannot be edited, and the entry that has the focus. *)

MaxLength(win, e) ==
    CASE e \in Names -> 40
      [] e \in PrevNumbers -> win.max[e]
      [] e \in SubEntries -> 3
      [] e = "entry9" -> 70
      [] OTHER -> 4

\* An entry's own handler corrects what was typed into it.
Corrected(e, t) ==
    CASE e \in Names -> Letters(Upper(t))
      [] e \in Numbers -> Digits(t)
      [] e = "entry9" -> Upper(t)
      [] OTHER -> t

\* What is left of a text in an entry: insertion stops at the maximum length.
Kept(win, e, t) ==
    IF e \in Combos THEN t ELSE Corrected(e, Cut(t, MaxLength(win, e)))

\* The entry that gets the focus when this one is full.
NextOf(e) ==
    CASE e \in SubEntries ->
             IF e = "entry31" THEN "button3" ELSE SubEntry[Index(e) + 1]
      [] e = "entry5" -> "entry6"
      [] e = "entry6" -> "combo_entry3"
      [] e = "combo_entry5" -> "entry7"
      [] e = "entry7" -> "combo_entry6"
      [] e = "entry8" -> "entry9"
      [] e = "entry10" -> "entry11"
      [] e = "entry11" -> "entry12"
      [] e = "entry12" -> "entry13"
      [] e \in {"entry13", "entry14"} -> "combo_entry8"

Full(win, e, t) == e \notin Names \cup Combos \cup {"entry9"} /\ Size(t) >= MaxLength(win, e)

Focussed(win, e) == [win EXCEPT !.focus = e]

\* gtk_entry_set_text on an entry whose handler looks at nothing else.
SetPlain(win, e, t) ==
    IF t = win.text[e] THEN win
    ELSE LET k == Kept(win, e, t)
             new == [win EXCEPT !.text[e] = k]
         IN IF Full(win, e, k) THEN Focussed(new, NextOf(e)) ELSE new

\* on_entry2_changed and update_gender
SetName(win, t) ==
    LET new == SetPlain(win, "entry2", t)
        g == GenderOf(new.text["entry2"])
    IN IF t = win.text["entry2"] \/ g = "none" THEN new
       ELSE SetPlain(new, "combo_entry8", g)

\* on_entry13_changed
SetSessionStart(win, t) ==
    LET new == SetPlain(win, "entry13", t)
        s == new.text["entry13"]
    IN IF t # win.text["entry13"] /\ Full(win, "entry13", s)
       THEN Focussed(SetPlain(new, "entry14", Successor(s)), "combo_entry8")
       ELSE new

LongBoards == {"Technical", "Others"}

\* Mutant of Limit: the terminating null is counted.
Limit_WithNull(win, n) ==
    [win EXCEPT !.max = [e \in PrevNumbers |-> n + 1],
                !.text = [e \in Entries |->
                            IF e \in PrevNumbers THEN Cut(@[e], n + 1) ELSE @[e]]]

\* gtk_entry_set_max_length for the roll, then the registration number, cuts
\* what is longer.
Limit(win, n) ==
    [win EXCEPT !.max = [e \in PrevNumbers |-> n],
                !.text = [e \in Entries |->
                            IF e \in PrevNumbers THEN Cut(@[e], n) ELSE @[e]]]

\* on_combo_entry7_changed
SetBoard(win, b) ==
    LET new == SetPlain(win, "combo_entry7", b)
        emptied == IF signal THEN Limit(new, 6) ELSE new
    IN IF b = win.text["combo_entry7"] THEN win
       ELSE Limit(emptied, IF b \in LongBoards THEN 10 ELSE 6)

\* Mutant of LoadCommon: entries that were filled for the former group stay closed.
LoadCommon_StayClosed(win, from, codes) ==
    [win EXCEPT
        !.text = [e \in Entries |->
                    IF e \in SubEntries /\ Index(e) - from \in 1..Len(codes)
                    THEN codes[Index(e) - from] ELSE @[e]],
        !.closed = @ \cup (from + 1..from + Len(codes))]

\* load_sub_common, from the entry behind the first "from" ones: the codes
\* cannot be edited, the entries behind them can.
LoadCommon(win, from, codes) ==
    [win EXCEPT
        !.text = [e \in Entries |->
                    IF e \in SubEntries /\ Index(e) - from \in 1..Len(codes)
                    THEN codes[Index(e) - from] ELSE @[e]],
        !.closed = {i \in @ : i <= from} \cup (from + 1..from + Len(codes))]

\* clear_sub_entry
ClearFrom(win, from) ==
    [win EXCEPT !.text = [e \in Entries |->
        IF e \in SubEntries /\ Index(e) > from THEN "" ELSE @[e]]]

\* on_combo_entry1_changed
SetGroup(win, g) ==
    IF g = win.text["combo_entry1"] THEN win
    ELSE LET all == LoadCommon(SetPlain(win, "combo_entry1", g), 0, CommonAll)
             own == LoadCommon(all, Len(CommonAll), CommonOf(g))
         IN Focussed(ClearFrom(own, Len(CommonAll) + Len(CommonOf(g))), "combo_entry1")

\* gtk_entry_set_text, with the handler of the entry.
SetText(win, e, t) ==
    CASE e = "entry2" -> SetName(win, t)
      [] e = "entry13" -> SetSessionStart(win, t)
      [] e = "combo_entry1" -> SetGroup(win, t)
      [] e = "combo_entry7" -> SetBoard(win, t)
      [] OTHER -> SetPlain(win, e, t)

\* The same for one entry after the other.
SetAll(win, order, texts) ==
    LET filled[n \in 0..Len(order)] ==
            IF n = 0 THEN win ELSE SetText(filled[n - 1], order[n], texts[order[n]])
    IN filled[Len(order)]

-----------------------------------------------------------------------------
(* The two windows *)

\* create_window2: the texts of a new form, the board of S. S. C. "Dhaka", and
\* the common codes of Science, the first group of the list.
NewForm ==
    LET empty == [text |-> [Filled EXCEPT !["combo_entry1"] = "Science",
                                          !["combo_entry7"] = "Dhaka"],
                  max |-> [e \in PrevNumbers |-> 6],
                  closed |-> {}, focus |-> "entry2"]
    IN LoadCommon(LoadCommon(empty, 0, CommonAll), Len(CommonAll), CommonOf("Science"))

\* edit_student_info: no code is filled in, the first board is "Rajshahi".
NewEditor ==
    [text |-> [e \in Entries |-> CASE e = "combo_entry1" -> "Science"
                                   [] e = "combo_entry7" -> "Rajshahi"
                                   [] e = "combo_entry8" -> "Male"
                                   [] e = "combo_entry6" -> NoSection
                                   [] OTHER -> ""],
     max |-> [e \in PrevNumbers |-> 6],
     closed |-> {}, focus |-> "entry2"]

\* The lines of a form file, by the entry they come from.
Written(win) ==
    [e \in Entries |-> IF e \in {"entry6", "entry7"} THEN Padded(win.text[e])
                                                    ELSE win.text[e]]

\* What load_student_info makes of a line: blanks are skipped, a section that
\* was one is put back, and a session without a start is not read at all.
Loaded(f, e) ==
    IF e = "combo_entry6" /\ Strip(f[e]) = "" THEN NoSection
    ELSE IF e = "entry14" /\ f["entry13"] = "" THEN ""
    ELSE Strip(f[e])

\* Mutant of LoadOrder: the previous board comes after the numbers that depend on it.
LoadOrder_Board ==
    << "entry2", "entry3", "entry4", "combo_entry1", "entry5", "combo_entry2",
       "entry6", "combo_entry3", "combo_entry4", "combo_entry5", "entry7",
       "combo_entry6", "entry8", "entry9", "entry10", "entry11", "entry12",
       "combo_entry7", "entry13", "entry14", "combo_entry8", "combo_entry9" >>
    \o SubEntry

\* The order of the lines, and of the entries load_student_info sets.
LoadOrder ==
    << "entry2", "entry3", "entry4", "combo_entry1", "entry5", "combo_entry2",
       "entry6", "combo_entry3", "combo_entry4", "combo_entry5", "entry7",
       "combo_entry6", "entry8", "entry9", "combo_entry7", "entry10",
       "entry11", "entry12", "entry13", "entry14", "combo_entry8",
       "combo_entry9" >>
    \o SubEntry

\* load_student_info, then the focus on the name.
EditorWith(f) ==
    Focussed(SetAll(NewEditor, LoadOrder, [e \in Entries |-> Loaded(f, e)]), "entry2")

-----------------------------------------------------------------------------
(* verify_form *)

BadNumber(t) == Size(t) < 1 \/ Digits(t) # t
BadYear(t) == Size(t) < 4 \/ BadNumber(t)

\* verify_date asks only for the month's days; a year has 29 days of February
\* by the calendar's rule.
BadDate(day, month, year) ==
    LET leap == (year % 4 = 0 /\ year % 100 # 0) \/ year % 400 = 0
    IN day > (IF month = "Feb" /\ leap THEN 29 ELSE Month(month))

\* The checks in their order: what is refused, by which option or kind of form
\* it is left out, and the entry that gets the focus ("" where none does).
Checks(x, session) == <<
    [bad |-> ~GoodName(x["entry2"]), id |-> "student_name", at |-> "entry2"],
    [bad |-> ~GoodName(x["entry3"]), id |-> "fa_name", at |-> "entry3"],
    [bad |-> ~GoodName(x["entry4"]), id |-> "mo_name", at |-> "entry4"],
    [bad |-> BadNumber(x["entry5"]), id |-> "session", at |-> "entry5"],
    [bad |-> Value(x["entry6"]) < 1 \/ BadNumber(x["entry6"]), id |-> "class_roll",
     at |-> "entry6"],
    [bad |-> \/ BadYear(x["combo_entry5"])
             \/ BadDate(Value(x["combo_entry3"]), x["combo_entry4"], Value(x["combo_entry5"]))
             \/ Value(x["combo_entry5"]) + 10 > session
             \/ Value(x["combo_entry5"]) + 30 <= session,
     id |-> "birthdate", at |-> "combo_entry5"],
    [bad |-> BadNumber(x["entry7"]), id |-> "totlist", at |-> "entry7"],
    [bad |-> BadNumber(x["entry8"]), id |-> "college_code", at |-> "entry8"],
    [bad |-> BadYear(x["entry10"]) \/ Value(x["entry10"]) >= session, id |-> "prev_year",
     at |-> "entry10"],
    [bad |-> Size(x["entry11"]) < 6 \/ BadNumber(x["entry11"]), id |-> "prev_roll",
     at |-> "entry11"],
    [bad |-> Size(x["entry12"]) < 6 \/ BadNumber(x["entry12"]), id |-> "prev_reg", at |-> ""],
    [bad |-> BadYear(x["entry13"]) \/ Value(x["entry13"]) >= session, id |-> "prev_sess",
     at |-> "entry13"],
    [bad |-> BadYear(x["entry14"]), id |-> "prev_sess", at |-> ""],
    [bad |-> Value(x["entry14"]) >= session, id |-> "prev_sess", at |-> "entry14"],
    [bad |-> Value(x["entry13"]) + 1 # Value(x["entry14"]), id |-> "prev_sess",
     at |-> "entry13"],
    [bad |-> ~CodesAccepted(x["combo_entry1"], [i \in 1..Len(SubEntry) |-> x[SubEntry[i]]]),
     id |-> "subjects", at |-> ""] >>

\* all_session, the session of the query window, is what fills entry5 of a new
\* form; the editor's entry5 is the form's own.
AllSession == Value(Filled["entry5"])

\* The places of the checks that fail and are not jumped over.
Refused(win) ==
    LET c == Checks(win.text, AllSession)
    IN {i \in 1..Len(c) :
          /\ c[i].bad /\ c[i].id \notin work.ignored
          /\ Ssc => c[i].id \notin {"prev_year", "prev_roll", "prev_reg", "prev_sess"}}

\* The first of them is reported.
Rebuked(win) ==
    LET i == CHOOSE i \in Refused(win) : \A j \in Refused(win) : i <= j
        at == Checks(win.text, AllSession)[i].at
    IN IF at = "" THEN win ELSE Focussed(win, at)

-----------------------------------------------------------------------------
(* Actions *)

Init ==
    /\ work \in Works /\ signal \in BOOLEAN
    /\ open = "form" /\ w = NewForm /\ file = <<>>

\* S. S. C. has no use for what was before.
Sensitive(e) == Ssc => e \notin PrevNumbers \cup {"combo_entry7", "entry10", "entry13", "entry14"}

\* In the form window session and institution are given; in the editor's
\* window they are not protected.
Editable(e) ==
    /\ Sensitive(e)
    /\ e \in SubEntries => Index(e) \notin w.closed
    /\ open = "form" => e \notin {"entry5", "entry8", "entry9"}

\* The user replaces the text of an entry, or chooses from a combo's list.
Type(e, t) ==
    /\ open # "none" /\ Editable(e) /\ t # w.text[e]
    /\ w' = SetText(Focussed(w, e), e, t)
    /\ UNCHANGED <<work, signal, open, file>>

\* Entries that verify_form clears after it has saved a new form, in order.
Cleared == << "entry2", "entry3", "entry4", "entry6", "entry11", "entry12" >>

\* on_button3_clicked
SaveForm ==
    /\ open = "form"
    /\ IF Refused(w) # {}
         THEN w' = Rebuked(w) /\ UNCHANGED file
         ELSE /\ file' = Written(w)
              /\ w' = Focussed(SetAll(w, Cleared, [e \in Entries |-> ""]), "entry2")
    /\ UNCHANGED <<work, signal, open>>

\* editor_edit_clicked; the form window is left as it is and not followed.
OpenEditor ==
    /\ open # "editor" /\ file # <<>>
    /\ open' = "editor" /\ w' = EditorWith(file)
    /\ UNCHANGED <<work, signal, file>>

\* editor_info_save_clicked
SaveEdit ==
    /\ open = "editor"
    /\ IF Refused(w) # {}
         THEN w' = Rebuked(w) /\ UNCHANGED <<open, file>>
         ELSE file' = Written(w) /\ open' = "none" /\ w' = NewEditor
    /\ UNCHANGED <<work, signal>>

\* on_window3_delete_event
CloseEditor ==
    /\ open = "editor" /\ open' = "none" /\ w' = NewEditor
    /\ UNCHANGED <<work, signal, file>>

Next ==
    \/ \E e \in work.varying : \E t \in Inputs(e) : Type(e, t)
    \/ SaveForm \/ OpenEditor \/ SaveEdit \/ CloseEditor

Spec == Init /\ [][Next]_vars

-----------------------------------------------------------------------------
(* Properties *)

\* Types of the variables.
TypeOK ==
    /\ work \in Works /\ signal \in BOOLEAN
    /\ open \in {"form", "editor", "none"}
    /\ w \in [text : [Entries -> Texts], max : [PrevNumbers -> {6, 10}],
               closed : SUBSET (1..Len(SubEntry)),
               focus : Entries \cup {"button3"}]
    /\ file = <<>> \/ file \in [Entries -> Texts]

\* A form opened in the editor and saved unchanged is the same form: the
\* handlers that load_student_info sets off while it fills in entry after entry
\* (gender by name, end of session by start, numbers cut to the board's length,
\* codes of the group) leave nothing else than what the file says.  Only blanks
\* before a name and the end of a session without a start get lost.
SameAgain(f) ==
    LET again == Written(EditorWith(f))
    IN \A e \in Entries :
          \/ again[e] = f[e]
          \/ e \in Names /\ again[e] = Strip(f[e])
          \/ e = "entry14" /\ f["entry13"] = "" /\ again[e] = ""
ResaveKeepsFile == [][file' # file => SameAgain(file')]_vars

\* What verify_form accepted once it accepts again when the form is opened in
\* the editor, where it starts from the padded and stripped texts of the file.
SavedIsAcceptable == [][file' # file => Refused(EditorWith(file')) = {}]_vars

\* A saved form is the same form, and an acceptable one, when the editor loads
\* it again and the operator saves it unchanged.
SavedIsKept == ResaveKeepsFile /\ SavedIsAcceptable

\* The previous roll and registration number have the length of the board that
\* is chosen, in whatever order they are typed, chosen and loaded: a number of
\* ten digits never stays under a board of six (on_combo_entry7_changed).
FitsBoard ==
    \A e \in PrevNumbers :
        /\ w.max[e] = IF w.text["combo_entry7"] \in LongBoards THEN 10 ELSE 6
        /\ Size(w.text[e]) <= w.max[e]

\* In the form window the codes that all take, then those of the group, stand
\* in the first entries and cannot be edited; all the others can.
CommonHeld ==
    open = "form" =>
        LET codes == CommonAll \o CommonOf(w.text["combo_entry1"])
        IN /\ w.closed = 1..Len(codes)
           /\ \A i \in 1..Len(codes) : w.text[SubEntry[i]] = codes[i]

\* What one entry says of others: the numbers have the length of the previous
\* board, the common codes are those of the group.
DependentsFollow == FitsBoard /\ CommonHeld
==============================================================================
