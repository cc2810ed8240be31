------------------------------ MODULE MCClient ------------------------------
(***************************************************************************)
(* Three parts of the client that share no state, checked in one run: the  *)
(* windows before the forms, the options of a form and the rules of its    *)
(* subject codes.  moving, chosen with the initial state, says which of    *)
(* them moves; the others stay as they are.                                *)
(***************************************************************************)
EXTENDS Integers, Sequences

CONSTANTS
    empty, c1025, c1026, other,     \* texts of the institution's entry
    None,
    NumTotalSub, WithMin, WithoutMin

VARIABLES
    moving,     \* "query", "options" or "subjects"
    stage, is_ssc, sess, prevlen, backspaced, code, editable, label, ok, globals,
    window, radio, toggles, ssc, ignore, sensitive, box, options, valid, result,
    codes, held, verdict, focus, readable, pairhtable

query    == <<stage, is_ssc, sess, prevlen, backspaced, code, editable, label,
              ok, globals>>
choices  == <<window, radio, toggles, ssc, ignore, sensitive, box, options,
              valid, result>>
subjects == <<codes, held, verdict, focus, readable, pairhtable>>
vars     == <<moving, query, choices, subjects>>

\* Two institutions, and a code of none.
MCCodeTexts == {empty, c1025, c1026, other}
MCName(c) == CASE c = c1025 -> "RAJSHAHI GOVT. COLLEGE"
               [] c = c1026 -> "RAJSHAHI PUBLIC. COLLEGE"
               [] OTHER -> None

\* The fields that can be missing.
MCVarying == {"fa_name", "birthdate", "prev_sess", "subjects"}

\* A few codes of the Science and Home Economics lists, with the shipped pairs
\* and special codes.
MCSubList == {107, 108, 127, 129, 180, 183, 191, 192, 193}
MCFourth == {127, 180}
MCSpecial == {180, 192}
MCPairs == << <<107, 108>>, <<108, 107>>, <<192, 2, 191, 193>>, <<191, 192>>, <<193, 192>>,
              <<180>> >>
\* A lone code, a special one, and the three that belong together; codes that
\* are too short or in no list, and a pair.
MCCodes == {{0, 127, 180, 191, 192, 193}, {0, 19, 107, 108, 127, 999}}

Query == INSTANCE StartQuery
           WITH CodeTexts <- MCCodeTexts, NoCode <- empty, Name <- MCName
Choices == INSTANCE Options WITH Varying <- MCVarying, is_ssc <- ssc
Subjects == INSTANCE Subjects
           WITH Codes <- MCCodes, SubList <- MCSubList, FourthList <- MCFourth,
                Special <- MCSpecial, PairLines <- MCPairs

ASSUME ClientAssumption ==
    /\ Query!QueryAssumption /\ Choices!OptionsAssumption
    /\ Subjects!SubjectsAssumption

Init ==
    /\ moving \in {"query", "options", "subjects"}
    /\ Query!Init /\ Choices!Init
    /\ IF moving = "subjects" THEN Subjects!Init
       ELSE codes = <<>> /\ held = {} /\ verdict = "none" /\ focus = 0
            /\ readable = {} /\ pairhtable = FALSE

Next ==
    /\ UNCHANGED moving
    /\ \/ moving = "query" /\ Query!Next /\ UNCHANGED <<choices, subjects>>
       \/ moving = "options" /\ Choices!Next /\ UNCHANGED <<query, subjects>>
       \/ moving = "subjects" /\ Subjects!Next /\ UNCHANGED <<query, choices>>

Spec == Init /\ [][Next]_vars

-----------------------------------------------------------------------------
(* The properties of the parts *)

\* Types of the parts: the session's entry is cut where it is shown, at most
\* the two signals of one click are waiting, the focus is in the form.
ClientTypeOK ==
    /\ Query!TypeOK /\ Choices!TypeOK
    /\ moving = "subjects" => Subjects!TypeOK

\* The OK button is shown exactly while there are a session and an
\* institution, and the institution the forms are kept under is the one whose
\* name was shown (project2/src/callbacks.c).
QueryIsAnswered == Query!OkIffReady /\ Query!NameOfCode

\* is_ssc is what the active radio button says, the boxes of the options window
\* and the ignore_* flags agree, and what verify_form demands can be typed in.
ChoicesAgree ==
    Choices!RadioMeansSsc /\ Choices!BoxesAgree /\ Choices!DemandedCanBeFilled

\* Only a form that has all the user did not leave out is saved.
SavedIsComplete == Choices!SavedIsComplete

\* No form is accepted that the rules of the subject codes forbid.
AcceptedIsSound == moving = "subjects" => Subjects!AcceptedIsSound

\* A form that keeps the rules is accepted, and the entry that gets the focus
\* is the one the message is about.
RefusedForReason ==
    moving = "subjects" => Subjects!RuledIsAccepted /\ Subjects!FaultIsShown
=============================================================================
