------------------------------- MODULE Options -------------------------------
(***************************************************************************)
(* What the client asks for in a form.  The introduction window chooses    *)
(* between the S. S. C. and the H. S. C. form, the query window opens the  *)
(* form window for it, and the options window of the editor lets the user  *)
(* leave entries out.  Four things have to agree: the box the user sees,   *)
(* the ignore_* flag, whether the entry can be typed into, and what        *)
(* verify_form demands.  The box handlers turn the flag and the entry over *)
(* one by one (^= 1), and never look at the box.                           *)
(***************************************************************************)
EXTENDS Naturals, Sequences

CONSTANT
    Varying     \* the fields that can be missing; the others are filled in

\* The radio buttons of the introduction window: radiobutton1 and 2.
Radios == {"ssc", "hsc"}

Prev == {"prev_year", "prev_roll", "prev_reg", "prev_sess"}

\* The boxes of the options window: no box for the TOT list.
Boxes == {"fa_name", "mo_name", "birthdate", "photo"} \cup Prev

\* The checks of verify_form, in their order.
Checks == << "student_name", "fa_name", "mo_name", "session", "class_roll",
             "birthdate", "totlist", "college_code", "prev_year", "prev_roll",
             "prev_reg", "prev_sess", "subjects" >>
Fields == {Checks[i] : i \in 1..Len(Checks)}

\* What the constant has to satisfy.
OptionsAssumption == Varying \subseteq Fields

\* Entries of window2 by the name verify_form has for them: "combo5", where the
\* handler looks for the date of birth, is not hooked up.
WidgetsOf(b) ==
    CASE b = "fa_name"   -> {"entry3"}
      [] b = "mo_name"   -> {"entry4"}
      [] b = "birthdate" -> {}
      [] b = "prev_year" -> {"entry10"}
      [] b = "prev_roll" -> {"entry11"}
      [] b = "prev_reg"  -> {"entry12"}
      [] b = "prev_sess" -> {"entry13", "entry14"}
      [] b = "photo"     -> {"button4"}
      [] OTHER           -> {}

Widgets == {"combo7"} \cup UNION {WidgetsOf(b) : b \in Boxes}

VARIABLES
    window,     \* the window that is open: "window1", "q_window", "window2"
    radio,      \* the active radio button
    toggles,    \* "toggled" signals still to be handled
    is_ssc,
    ignore,     \* the ignore_* flags
    sensitive,  \* the entries that take input
    box,        \* the boxes that are checked
    options,    \* options_window: "none", "shown", "hidden" or "destroyed"
    valid,      \* fields with an acceptable text
    result      \* what the last Save said: "saved", "unsaved" or the field refused

vars == <<window, radio, toggles, is_ssc, ignore, sensitive, box, options,
          valid, result>>

Ignorable == Boxes \cup {"totlist"}

Init ==
    /\ window = "window1"
    /\ radio = "ssc" /\ is_ssc = TRUE /\ toggles = <<>>
    /\ ignore = [b \in Ignorable |-> FALSE]
    /\ sensitive = [w \in Widgets |-> TRUE]
    /\ box = [b \in Boxes |-> FALSE]
    /\ options = "none"
    /\ valid = [f \in Fields |-> f \notin Varying]
    /\ result = "none"

-----------------------------------------------------------------------------
(* The introduction and the query *)

\* A click on the other radio button: GTK emits "toggled" of the button that
\* is released, then of the one that is now active.
ClickRadio(r) ==
    /\ window = "window1" /\ toggles = <<>> /\ r # radio
    /\ radio' = r /\ toggles' = <<radio, r>>
    /\ UNCHANGED <<window, is_ssc, ignore, sensitive, box, options, valid, result>>

\* on_radiobutton1_toggled and on_radiobutton2_toggled set is_ssc by the
\* button that was toggled, on or off.
RadioToggled ==
    /\ toggles # <<>>
    /\ is_ssc' = (Head(toggles) = "ssc")
    /\ toggles' = Tail(toggles)
    /\ UNCHANGED <<window, radio, ignore, sensitive, box, options, valid, result>>

\* on_button1_clicked
Forward ==
    /\ window = "window1" /\ toggles = <<>>
    /\ window' = "q_window"
    /\ UNCHANGED <<radio, toggles, is_ssc, ignore, sensitive, box, options,
                   valid, result>>

init_ignored == [b \in Ignorable |-> b = "photo"]

\* The entries S. S. C. does without.
SscDisabled == {"combo7", "entry10", "entry11", "entry12", "entry13", "entry14"}

\* q_okbutton_clicked: the flags first, then create_window2, which looks at
\* ignore_photo, then the entries that S. S. C. has no use for.
QueryOk ==
    /\ window = "q_window" /\ window' = "window2"
    /\ ignore' = init_ignored
    /\ sensitive' = [w \in Widgets |->
                        /\ ~(w = "button4" /\ init_ignored["photo"])
                        /\ ~(is_ssc /\ w \in SscDisabled)]
    /\ UNCHANGED <<radio, toggles, is_ssc, box, options, valid, result>>

-----------------------------------------------------------------------------
(* The options window *)

\* Mutant of OpenOptions: A destroyed window is built anew, with unchecked boxes and the old flags.
OpenOptions_Rebuilt ==
    /\ window = "window2" /\ options # "shown"
    /\ options' = "shown"
    /\ box' = IF options = "hidden" THEN box ELSE [b \in Boxes |-> FALSE]
    /\ result' = "none"
    /\ UNCHANGED <<window, radio, toggles, is_ssc, ignore, sensitive, valid>>

\* create_options_window: one window for the life of the program.
OpenOptions ==
    /\ window = "window2" /\ options \in {"none", "hidden"}
    /\ options' = "shown"
    /\ box' = IF options = "none" THEN [b \in Boxes |-> FALSE] ELSE box
    /\ result' = "none"
    /\ UNCHANGED <<window, radio, toggles, is_ssc, ignore, sensitive, valid>>

\* The Close button (on_ignore_close_clicked) hides the window.
CloseOptions ==
    /\ options = "shown"
    /\ options' = "hidden" /\ result' = "none"
    /\ UNCHANGED <<window, radio, toggles, is_ssc, ignore, sensitive, box, valid>>

\* "delete_event" is connected to gtk_widget_hide, which returns nothing: by
\* the value GTK then finds it goes on to destroy the window or not, and
\* options_window keeps pointing at it.  Opening it again is undefined.
DeleteOptions ==
    /\ options = "shown"
    /\ options' \in {"hidden", "destroyed"} /\ result' = "none"
    /\ UNCHANGED <<window, radio, toggles, is_ssc, ignore, sensitive, box, valid>>

\* on_prev_*_toggled return at once for S. S. C.; on_birthdate_toggled finds
\* no entry to work on.
HandlerActs(b) ==
    /\ b \in Prev => ~is_ssc
    /\ b # "birthdate"

ClickBox(b) ==
    /\ options = "shown"
    /\ box' = [box EXCEPT ![b] = ~@]
    /\ IF HandlerActs(b)
         THEN /\ ignore' = [ignore EXCEPT ![b] = ~@]
              /\ sensitive' = [w \in Widgets |-> IF w \in WidgetsOf(b)
                                 THEN ~sensitive[w] ELSE sensitive[w]]
         ELSE UNCHANGED <<ignore, sensitive>>
    /\ result' = "none"
    /\ UNCHANGED <<window, radio, toggles, is_ssc, options, valid>>

-----------------------------------------------------------------------------
(* The form window *)

\* The user fills in or spoils an entry that takes input.
Type(f) ==
    /\ window = "window2" /\ f \in Varying
    /\ \A w \in WidgetsOf(f) : sensitive[w]
    /\ valid' = [valid EXCEPT ![f] = ~@] /\ result' = "none"
    /\ UNCHANGED <<window, radio, toggles, is_ssc, ignore, sensitive, box, options>>

\* Mutant of Demanded: The label that S. S. C. jumps to stands behind the subject codes.
Demanded_NoSubjects(f) ==
    /\ f \in Ignorable => ~ignore[f]
    /\ f \in Prev \cup {"subjects"} => ~is_ssc

\* The checks that verify_form does not jump over.
Demanded(f) ==
    /\ f \in Ignorable => ~ignore[f]
    /\ f \in Prev => ~is_ssc

Refused == {i \in 1..Len(Checks) : Demanded(Checks[i]) /\ ~valid[Checks[i]]}

\* Entries that are cleared after a form was saved.
Cleared == {"student_name", "fa_name", "mo_name", "class_roll", "prev_roll",
            "prev_reg"}

\* verify_form of the Save button: the first check that fails is reported.
Save ==
    /\ window = "window2"
    /\ IF Refused = {}
         THEN /\ result' = "saved"
              /\ valid' = [f \in Fields |-> valid[f] /\ (f \in Cleared => f \notin Varying)]
         ELSE /\ result' = Checks[CHOOSE i \in Refused : \A j \in Refused : i <= j]
              /\ UNCHANGED valid
    /\ UNCHANGED <<window, radio, toggles, is_ssc, ignore, sensitive, box, options>>

\* The file of an accepted form cannot be opened: nothing is cleared.
SaveFails ==
    /\ window = "window2"
    /\ Refused = {}
    /\ result' = "unsaved"
    /\ UNCHANGED <<window, radio, toggles, is_ssc, ignore, sensitive, box, options,
                   valid>>

Next ==
    \/ \E r \in Radios : ClickRadio(r)
    \/ RadioToggled \/ Forward \/ QueryOk
    \/ OpenOptions \/ CloseOptions \/ DeleteOptions
    \/ \E b \in Boxes : ClickBox(b)
    \/ \E f \in Varying : Type(f)
    \/ Save \/ SaveFails

Spec == Init /\ [][Next]_vars

-----------------------------------------------------------------------------
(* Properties *)

\* Types of the variables.
TypeOK ==
    /\ window \in {"window1", "q_window", "window2"}
    /\ radio \in Radios /\ is_ssc \in BOOLEAN
    /\ toggles \in Seq(Radios) /\ Len(toggles) <= 2
    /\ ignore \in [Ignorable -> BOOLEAN]
    /\ sensitive \in [Widgets -> BOOLEAN]
    /\ box \in [Boxes -> BOOLEAN]
    /\ options \in {"none", "shown", "hidden", "destroyed"}
    /\ valid \in [Fields -> BOOLEAN]
    /\ result \in Fields \cup {"none", "saved", "unsaved"}

\* When the signals of a click are handled, is_ssc is what the active button
\* says, although each handler sets it without looking whether its button was
\* switched on or off (on_radiobutton1_toggled, on_radiobutton2_toggled).
RadioMeansSsc == toggles = <<>> => (is_ssc <=> radio = "ssc")

\* What verify_form demands can be typed in: flag and sensitivity, each turned
\* over on its own by the box handlers and set by q_okbutton_clicked, never
\* leave the user with an entry that is refused and cannot be reached.
DemandedCanBeFilled ==
    window = "window2" =>
        \A f \in Fields : Demanded(f) => \A w \in WidgetsOf(f) : sensitive[w]

\* The boxes on the screen and the flags of verify_form agree, whatever was
\* clicked, closed and opened again, wherever the handler acts at all: a
\* checked box leaves the entry out, for the photo it asks for it.
BoxesAgree ==
    options # "none" =>
        \A b \in Boxes : HandlerActs(b) => (ignore[b] <=> (box[b] # (b = "photo")))

\* A form is saved only if every field is acceptable that the user did not
\* leave out by a box, and that the chosen kind of form has.
SavedIsComplete ==
    [][result' = "saved" =>
         \A f \in Fields :
            \/ valid[f]
            \/ f \in Boxes /\ box[f]
            \/ f \in Prev /\ radio = "ssc"]_vars
=============================================================================
