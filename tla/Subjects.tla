-------------------------------- MODULE Subjects --------------------------------
(***************************************************************************)
(* The rules about the subject codes of a form, which verify_form checks   *)
(* last (verify_subject_codes_by_group, paircheck).  The lists of codes    *)
(* are read from files at every check; the table of pairs is read once and *)
(* kept.  The last entry takes the fourth subject's first paper, which has *)
(* to be among the other entries, too.                                     *)
(***************************************************************************)
EXTENDS Integers, FiniteSets, Sequences

CONSTANTS
    Codes,          \* sets of what the entries can hold; 0 is the empty entry
    NumTotalSub,    \* entries, with that of the fourth subject (17)
    WithMin,        \* codes demanded with a fourth subject (12)
    WithoutMin,     \* codes demanded without (10)
    SubList, FourthList, Special,   \* what the files say
    PairLines       \* the lines of pair.txt, as sequences of numbers

\* The lines the shipped files have, as doc/format.html describes them: a code and
\* those of which one has to be there, or after a 2 the two that both have to be.
PairLineOk(line) ==
    \/ \A i \in 2..Len(line) : line[i] # 2
    \/ Len(line) = 4 /\ line[2] = 2 /\ line[3] \notin {1, 2} /\ line[4] \notin {1, 2}

\* What the constants have to satisfy.
SubjectsAssumption ==
    /\ Codes \subseteq SUBSET (0..999) /\ \A C \in Codes : 0 \in C
    /\ Special \subseteq 1..999 /\ SubList \subseteq 100..999
    /\ NumTotalSub \in Nat /\ WithMin \in Nat /\ WithoutMin \in 1..WithMin
    \* else verify_subject_codes_by_group reads past the last entry
    /\ WithMin + Cardinality(Special) + 1 <= NumTotalSub
    /\ PairLines \in Seq(Seq(Nat)) /\ \A i \in DOMAIN PairLines : PairLineOk(PairLines[i])

Entries == 1..NumTotalSub

VARIABLES
    codes,      \* the entries
    verdict,    \* what the last check said of them, or "none"
    focus,      \* the entry it pointed at, or 0
    held,       \* the codes that can be entered
    readable,   \* the files that can be opened
    pairhtable  \* whether the table of pairs has been read

vars == <<codes, held, verdict, focus, readable, pairhtable>>

Fourth(c) == c[NumTotalSub]

\* Mutant of TotalSub: the loop is left at the first special code.
TotalSub_Break(c) ==
    (IF Fourth(c) = 0 THEN WithoutMin ELSE WithMin)
    + (IF \E i \in Entries : c[i] \in Special THEN 1 ELSE 0)

\* How many entries are demanded: one more for each special code, the fourth
\* subject's entry included.
TotalSub(c) ==
    (IF Fourth(c) = 0 THEN WithoutMin ELSE WithMin)
    + Cardinality({i \in Entries : c[i] \in Special})

\* What is wrong with an entry, in the order of the checks.
EntryFault(c, i) ==
    CASE c[i] = 0 -> "empty"
      [] c[i] \in 1..99 -> "short"
      [] c[i] \in 100..999 \ SubList -> "unlisted"
      [] c[i] \in SubList /\ (\E j \in 1..i-1 : c[j] = c[i]) -> "duplicate"
      [] OTHER -> "none"

\* The table of pairs: a line without partners is skipped, and of two lines with
\* one key the later counts.
PairLinesOf(key) == {i \in DOMAIN PairLines : PairLines[i][1] = key /\ Len(PairLines[i]) > 1}
Partners(key) == Tail(PairLines[CHOOSE i \in PairLinesOf(key) : \A j \in PairLinesOf(key) : j <= i])

\* Mutant of Matching: the number 2 is passed over like the number 1.
Matching_AnyOne(partners, filled) ==
    \E i \in DOMAIN partners : partners[i] \notin {1, 2} /\ partners[i] \in filled

\* The inner loop of paircheck: before a 2 one partner that is filled in is
\* enough, after it two of them with no other 2 between.
Matching(partners, filled) ==
    LET hits == {i \in DOMAIN partners : partners[i] \in filled \ {1, 2}}
    IN \E i \in hits :
          \/ \A k \in 1..i : partners[k] # 2
          \/ \E j \in hits : j < i /\ \A k \in j..i : partners[k] # 2

\* The positions, among the first n entries, of codes whose partners are missing.
Mismatched(c, n) ==
    LET filled == {c[i] : i \in 1..n}
    IN {i \in 1..n : PairLinesOf(c[i]) # {} /\ ~Matching(Partners(c[i]), filled)}

Least(S) == CHOOSE i \in S : \A j \in S : i <= j

\* Mutant of PairFault: the number of the entry widget is taken for its position.
PairFault_Widget(c, n) == IF Mismatched(c, n) = {} THEN 0 ELSE Least(Mismatched(c, n)) + 14

\* paircheck: the first mismatch, or 0.
PairFault(c, n) == IF Mismatched(c, n) = {} THEN 0 ELSE Least(Mismatched(c, n))

\* verify_subject_codes_by_group: what it says, and the entry that gets the focus.
Verdict(c) ==
    LET Says(what, at) == [what |-> what, at |-> at]
        n == TotalSub(c)
        faulty == {i \in Entries : i <= n /\ EntryFault(c, i) # "none"}
        extra == {i \in Entries \ {NumTotalSub} : i > n /\ c[i] # 0}
    IN CASE ~({"sub", "fourth"} \subseteq readable) -> Says("error", 0)
         [] OTHER ->
            IF Fourth(c) # 0 /\ Fourth(c) < 100 THEN Says("short", NumTotalSub)
            ELSE IF Fourth(c) # 0 /\ Fourth(c) \notin FourthList
              THEN Says("fourth", NumTotalSub)
            ELSE IF "special" \notin readable THEN Says("error", 0)
            ELSE IF faulty # {} THEN Says(EntryFault(c, Least(faulty)), Least(faulty))
            ELSE IF "pair" \notin readable /\ ~pairhtable THEN Says("error", 0)
            ELSE IF PairFault(c, n) # 0 THEN Says("pair", PairFault(c, n))
            ELSE IF n >= WithMin /\ (\A i \in 1..n : c[i] # Fourth(c)) THEN Says("nofourth", 0)
            ELSE IF extra # {} THEN Says("extra", Least(extra))
            ELSE Says("ok", 0)

\* Verdicts that are only reached once paircheck has read the table.
Paired == {"pair", "nofourth", "extra", "ok"}

\* A form that was typed, or loaded in the editor.
Init ==
    /\ held \in Codes /\ codes \in [Entries -> held]
    /\ verdict = "none" /\ focus = 0
    /\ readable = {"sub", "fourth", "special", "pair"} /\ pairhtable = FALSE

\* The form is saved, and the codes are checked.
Verify ==
    LET v == Verdict(codes)
    IN /\ verdict = "none"
       /\ verdict' = v.what /\ focus' = v.at
       /\ pairhtable' = (pairhtable \/ v.what \in Paired)
       /\ UNCHANGED <<codes, held, readable>>

\* The operator changes the entry that was shown to her.
Correct(c) ==
    /\ verdict \notin {"none", "ok"} /\ focus # 0
    /\ codes' = [codes EXCEPT ![focus] = c]
    /\ verdict' = "none" /\ focus' = 0
    /\ UNCHANGED <<held, readable, pairhtable>>

\* She tries again what failed for a file.
Retry ==
    /\ verdict = "error" /\ verdict' = "none"
    /\ UNCHANGED <<codes, held, focus, readable, pairhtable>>

\* The file can no longer be opened: the medium is removed.
Vanish(f) ==
    /\ verdict = "none" /\ f \in readable
    /\ readable' = readable \ {f}
    /\ UNCHANGED <<codes, held, verdict, focus, pairhtable>>

Next ==
    \/ Verify \/ Retry
    \/ \E c \in held : Correct(c)
    \/ \E f \in readable : Vanish(f)

Spec == Init /\ [][Next]_vars

-----------------------------------------------------------------------------
(* The rules, as the manual of the files and the messages state them *)

Filled(c) == {c[i] : i \in Entries \ {NumTotalSub}} \ {0}
NumFilled(c) == Cardinality({i \in Entries \ {NumTotalSub} : c[i] # 0})

\* "code1 code2 < both must be matched"; "code3 002 code7 code8 < all (excluding
\* 002) must be matched".
LineKept(k, filled) ==
    PairLinesOf(k) = {} \/
        LET line == Partners(k)
            listed == {line[i] : i \in DOMAIN line} \ {1, 2}
        IN IF line[1] = 2 THEN listed \subseteq filled ELSE listed \cap filled # {}
PairRule(filled) == \A k \in filled : LineKept(k, filled)

\* The codes stand in the first entries, each once, all of them in the group's
\* list, with their partners, and with the fourth subject if there is one.
Sound(c) ==
    /\ \A i \in Entries \ {NumTotalSub} : (c[i] # 0) = (i <= NumFilled(c))
    /\ Cardinality(Filled(c)) = NumFilled(c)
    /\ Filled(c) \subseteq SubList
    /\ PairRule(Filled(c))
    /\ Fourth(c) # 0 => Fourth(c) \in FourthList \cap Filled(c)

\* As many as the kind of form demands, and one more for each special code.
Counted(c) ==
    NumFilled(c) = (IF Fourth(c) = 0 THEN WithoutMin ELSE WithMin)
                   + Cardinality(Filled(c) \cap Special)

Verdicts == {"none", "error", "empty", "short", "unlisted", "duplicate", "fourth", "pair",
             "nofourth", "extra", "ok"}

\* Types of the variables.
TypeOK ==
    /\ held \in Codes /\ codes \in [Entries -> held] /\ verdict \in Verdicts
    /\ focus \in 0..NumTotalSub
    /\ readable \subseteq {"sub", "fourth", "special", "pair"} /\ pairhtable \in BOOLEAN

\* No check order, no early return and no unreadable file lets a form pass that
\* the rules forbid; a form has no fewer codes than the rules demand.
AcceptedIsSound ==
    verdict = "ok" =>
        /\ Sound(codes)
        /\ NumFilled(codes) >= (IF Fourth(codes) = 0 THEN WithoutMin ELSE WithMin)
                               + Cardinality(Filled(codes) \cap Special)

\* And a form that keeps the rules passes as long as the files are readable,
\* except that a special code is not counted as the fourth
\* subject's only, and that as many codes as with a fourth subject need one.
RuledIsAccepted ==
    verdict \notin {"none", "error", "ok"} =>
        \/ ~(Sound(codes) /\ Counted(codes))
        \/ Fourth(codes) \in Special
        \/ Fourth(codes) = 0 /\ NumFilled(codes) >= WithMin

\* The entry that is given the focus is the one the message is about: the pair
\* that fails is counted in a list of the codes demanded, not in the entries.
FaultIsShown ==
    focus # 0 =>
        /\ verdict = "pair" => ~LineKept(codes[focus], {codes[i] : i \in 1..TotalSub(codes)})
        /\ verdict = "duplicate" => \E j \in 1..focus-1 : codes[j] = codes[focus]
        /\ verdict \in {"extra", "unlisted", "short", "fourth"} => codes[focus] # 0
================================================================================
