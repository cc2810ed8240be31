------------------------------- MODULE StartQuery -------------------------------
(***************************************************************************)
(* The windows before the forms: the introduction with the kind of form,   *)
(* and the query for the session and the institution.  What is entered     *)
(* there names the directory of the forms for the whole run (fix_info_path)*)
(* and is the user at the server.  The session is completed after four     *)
(* characters unless it has been longer before, the institution is looked  *)
(* up at every change, and the OK button is shown and hidden by both       *)
(* entries' handlers.                                                      *)
(*                                                                         *)
(* A digit is "d"; what is not a digit or a hyphen is "x".  A code is one  *)
(* of CodeTexts, as the entry drops everything from the first other        *)
(* character on.                                                           *)
(***************************************************************************)
EXTENDS Naturals, Sequences

CONSTANTS
    CodeTexts,  \* texts of the institution's entry
    NoCode,     \* the empty one
    Name(_),    \* the institution's name in college.txt, or None
    None

\* What the constants have to satisfy.
QueryAssumption == NoCode \in CodeTexts /\ Name(NoCode) = None

VARIABLES
    stage,      \* "intro", "query", "forms" or "ended"
    is_ssc,
    sess,       \* the session's entry
    prevlen,    \* the longest it has been
    backspaced, \* history: whether something has been deleted from it
    code,       \* the institution's entry
    editable,   \* whether a code may be typed
    label,      \* the name shown, or None before and after a code not found
    ok,         \* whether the OK button is visible
    globals     \* session, code and name as q_okbutton_clicked sets them

query == <<sess, prevlen, backspaced, code, editable, label, ok>>
vars  == <<stage, is_ssc, query, globals>>

Larger(a, b) == IF a >= b THEN a ELSE b
Times(n, ch) == [i \in 1..n |-> ch]

\* The longest prefix of characters in a set.
Prefix(t, accepted) ==
    LET bad == {i \in DOMAIN t : t[i] \notin accepted}
    IN IF bad = {} THEN t
       ELSE SubSeq(t, 1, (CHOOSE i \in bad : \A j \in bad : i <= j) - 1)

Init ==
    /\ stage = "intro" /\ is_ssc = TRUE
    /\ sess = <<>> /\ prevlen = 0 /\ backspaced = FALSE
    /\ code = NoCode /\ editable = FALSE /\ label = None /\ ok = FALSE
    /\ globals = <<>>

\* on_radiobutton1_toggled, on_radiobutton2_toggled
Toggle ==
    /\ stage = "intro" /\ is_ssc' = ~is_ssc
    /\ UNCHANGED <<stage, query, globals>>

\* on_button1_clicked
Start ==
    /\ stage = "intro" /\ stage' = "query"
    /\ UNCHANGED <<is_ssc, query, globals>>

-----------------------------------------------------------------------------
(* The session *)

\* "%04d-%04d" of the number the text begins with, and the next one.
Completed(t) ==
    IF t[1] = "-" /\ t[2] = "d"
    THEN <<"-", "d", "d", "d", "-", "-", "d", "d", "d">>
    ELSE Times(4, "d") \o <<"-">> \o Times(4, "d")

\* Mutant of SessionChanged: the button is left when the session gets shorter.
SessionChanged_KeepOk(typed) ==
    LET val == Prefix(typed, {"d", "-"})
        longest == Larger(prevlen, Len(val))
        text == IF Len(val) = 4 /\ longest = 4 THEN Completed(val) ELSE val
    IN /\ sess' = text /\ prevlen' = Larger(longest, Len(text))
       /\ editable' = (Len(val) >= 4)
       /\ ok' = (ok \/ (Len(val) >= 4 /\ Name(code) # None))
       /\ UNCHANGED <<code, label>>

\* q_sess_entry_changed
SessionChanged(typed) ==
    LET val == Prefix(typed, {"d", "-"})
        longest == Larger(prevlen, Len(val))
        text == IF Len(val) = 4 /\ longest = 4 THEN Completed(val) ELSE val
    IN /\ sess' = text /\ prevlen' = Larger(longest, Len(text))
       /\ editable' = (Len(val) >= 4)
       /\ ok' = (Len(val) >= 4 /\ (ok \/ Name(code) # None))
       /\ UNCHANGED <<code, label>>

\* A character is typed anywhere in the entry, which takes nine.
Insert(i, ch) ==
    /\ stage = "query" /\ Len(sess) < 9 /\ i <= Len(sess)
    /\ LET typed == SubSeq(sess, 1, i) \o <<ch>> \o SubSeq(sess, i + 1, Len(sess))
       IN /\ SessionChanged(typed)
          /\ backspaced' = (backspaced \/ (ch = "x" /\ i < Len(sess)))
    /\ UNCHANGED <<stage, is_ssc, globals>>

\* Characters are deleted: one, or what is selected.
Erase(i, n) ==
    /\ stage = "query" /\ i + n <= Len(sess)
    /\ SessionChanged(SubSeq(sess, 1, i) \o SubSeq(sess, i + n + 1, Len(sess)))
    /\ backspaced' = TRUE
    /\ UNCHANGED <<stage, is_ssc, globals>>

-----------------------------------------------------------------------------
(* The institution *)

\* q_col_entry_changed
TypeCode(c) ==
    /\ stage = "query" /\ editable /\ c # code
    /\ code' = c /\ label' = Name(c) /\ ok' = (Name(c) # None)
    /\ UNCHANGED <<stage, is_ssc, sess, prevlen, backspaced, editable, globals>>

\* q_okbutton_clicked and fix_info_path: the window is destroyed.
Ok ==
    /\ stage = "query" /\ ok
    /\ globals' = [session |-> Prefix(sess, {"d"}), code |-> code, name |-> label]
    /\ stage' = "forms"
    /\ UNCHANGED <<is_ssc, query>>

\* on_window1_delete_event, on_q_window_delete
Quit ==
    /\ stage \in {"intro", "query"} /\ stage' = "ended"
    /\ UNCHANGED <<is_ssc, query, globals>>

Next ==
    \/ Toggle \/ Start \/ Ok \/ Quit
    \/ \E i \in 0..8 : \E ch \in {"d", "-", "x"} : Insert(i, ch)
    \/ \E i \in 0..8 : \E n \in 1..9 : Erase(i, n)
    \/ \E c \in CodeTexts : TypeCode(c)

Spec == Init /\ [][Next]_vars

-----------------------------------------------------------------------------
(* Properties *)

\* Types of the variables; the session's entry holds nine characters.
TypeOK ==
    /\ stage \in {"intro", "query", "forms", "ended"} /\ is_ssc \in BOOLEAN
    /\ Len(sess) <= 9 /\ \A i \in DOMAIN sess : sess[i] \in {"d", "-"}
    /\ prevlen \in 0..9 /\ code \in CodeTexts
    /\ {editable, ok, backspaced} \subseteq BOOLEAN

\* The manual: "As soon as the name of institution is found in the database, a
\* 'OK' button below the name of the institution will be visible", once there is
\* a session; and it is gone when either is taken back.  Two handlers show and
\* hide it, each looking at the other's entry at most in part.
OkIffReady == ok <=> Len(sess) >= 4 /\ Name(code) # None

\* The forms are kept and sent under the institution whose name was shown.
NameOfCode ==
    stage = "forms" => globals.name # None /\ globals.name = Name(globals.code)
================================================================================
