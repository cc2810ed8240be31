----------------------------- MODULE MCFormFields -----------------------------
(* Instances of FormFields: the texts of one institution's forms, and what    *)
(* the handlers make of them.  Longer texts stand for all of their length.    *)
EXTENDS FormFields

MCTexts == {"", " ", "A", "md x", "MD X", " MST Y", "MST Y", "MST Y7", "MALE", "7", "0007",
            "0000", "12", "0012", "12x", "2003", "2004", "2005", "1990", "3006",
            "123456", "1234567890", "2003x", "2004x", "101", "102", "107", "109", "121", "13",
            "Science", "Arts", "Dhaka", "Rajshahi", "Technical", "Others", "Male", "Female",
            "Islam", "Jan", "1", "COLLEGE", "2", "3", "4", "8"}

MCSize(t) ==
    CASE t = "" -> 0
      [] t \in {" ", "A", "7", "1", "2", "3", "4", "8"} -> 1
      [] t \in {"12", "13"} -> 2
      [] t \in {"12x", "101", "102", "107", "109", "121", "Jan"} -> 3
      [] t \in {"md x", "MD X", "MALE", "0007", "0000", "0012", "2003", "2004", "2005",
                "1990", "3006", "Arts", "Male"} -> 4
      [] t \in {"2003x", "2004x", "MST Y", "Dhaka", "Islam"} -> 5
      [] t = "1234567890" -> 10
      [] OTHER -> 6

MCCut(t, n) ==
    CASE t = "1234567890" /\ n = 6 -> "123456"
      [] t = "2003x" /\ n = 4 -> "2003"
      [] t = "2004x" /\ n = 4 -> "2004"
      [] OTHER -> t

MCUpper(t) == IF t = "md x" THEN "MD X" ELSE t
MCLetters(t) == IF t = "MST Y7" THEN "MST Y" ELSE t
MCDigits(t) ==
    CASE t = "12x" -> "12"
      [] t \in {" ", "A", "MD X"} -> ""
      [] OTHER -> t
MCStrip(t) == CASE t = " " -> "" [] t = " MST Y" -> "MST Y" [] OTHER -> t
MCGenderOf(t) == CASE t = "MD X" -> "Male" [] t \in {"MST Y"} -> "Female" [] OTHER -> "none"
MCGoodName(t) == t \in {"A", "MD X", "MST Y", "MALE"}

MCValue(t) ==
    CASE t \in {"1"} -> 1 [] t \in {"7", "0007"} -> 7 [] t \in {"12", "0012"} -> 12
      [] t = "2003" -> 2003 [] t = "2004" -> 2004 [] t = "2005" -> 2005
      [] t = "1990" -> 1990 [] t = "3006" -> 3006 [] OTHER -> 0
MCPadded(t) ==
    CASE t \in {"7", "0007"} -> "0007" [] t \in {"12", "0012"} -> "0012" [] OTHER -> "0000"
MCSuccessor(t) == CASE t = "2003" -> "2004" [] t = "2004" -> "2005" [] OTHER -> "1"
MCMonth(m) == CASE m = "Feb" -> 28 [] m \in {"Apr", "Jun", "Sep", "Nov"} -> 30 [] OTHER -> 31

MCFilled ==
    [e \in Entries |->
        CASE e \in Names -> "A"
          [] e = "combo_entry1" -> "Science"
          [] e = "entry5" -> "2005"
          [] e = "combo_entry2" -> "Rajshahi"
          [] e = "combo_entry3" -> "1"
          [] e = "combo_entry4" -> "Jan"
          [] e = "combo_entry5" -> "1990"
          [] e \in {"entry6", "entry7"} -> "7"
          [] e = "combo_entry6" -> " "
          [] e = "entry8" -> "3006"
          [] e = "entry9" -> "COLLEGE"
          [] e = "combo_entry7" -> "Dhaka"
          [] e = "entry10" -> "2004"
          [] e \in PrevNumbers -> "123456"
          [] e = "entry13" -> "2003"
          [] e = "entry14" -> "2004"
          [] e = "combo_entry8" -> "Male"
          [] e = "combo_entry9" -> "Islam"
          [] OTHER -> ""]

MCInputs(e) ==
    CASE e = "entry2" -> {"md x", " MST Y"}
      [] e = "entry6" -> {"12x"}
      [] e = "combo_entry1" -> {"Science", "Arts"}
      [] e = "combo_entry6" -> {" ", "A"}
      [] e = "combo_entry7" -> {"Dhaka", "Technical", "Others"}
      [] e \in PrevNumbers -> {"123456", "1234567890"}
      [] e = "entry13" -> {"", "2003x"}
      [] e = "entry14" -> {"", "2004x"}
      [] e = "combo_entry8" -> {"Male", "Female"}
      [] e \in SubEntries -> {"12x", "121"}
      [] OTHER -> {}

MCCommonAll == <<"101", "107">>
MCCommonOf(g) == IF g = "Arts" THEN <<"109">> ELSE <<>>
MCCodesAccepted(g, codes) ==
    \A i, j \in 1..Len(codes) : (i # j /\ codes[i] # "") => codes[i] # codes[j]

\* The name and the gender, the section, the numbers and their board; the
\* group, its codes and the previous session.
MCWorks ==
    {[varying |-> {"entry2", "entry11", "combo_entry6", "combo_entry7", "combo_entry8"},
      ignored |-> {}],
     [varying |-> {"combo_entry1", "entry6", "entry13", "entry14", "entry17"},
      ignored |-> {"prev_sess"}]}
==============================================================================
