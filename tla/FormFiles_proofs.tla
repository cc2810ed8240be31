--------------------------- MODULE FormFiles_proofs ---------------------------
(***************************************************************************)
(* Proofs about FormFiles: type correctness, that the list is the          *)
(* directory, that saved forms are found, sent ones are what was sent and  *)
(* pictures are their students'; for any students, headers, edit windows   *)
(* and edits.                                                              *)
(***************************************************************************)
EXTENDS FormFiles, TLAPS

-----------------------------------------------------------------------------
(* File names *)

\* The forms of a use are among those the form window lets one type.
LEMMA HeaderTypes ==
    /\ \A u \in Uses : u.headers \subseteq Headers /\ u.windows \subseteq Windows
    /\ \A h \in Headers : /\ h \in [gender : Genders, roll : Nat, section : Sections,
                                    tot : Nat, group : Groups]
                          /\ FileName(h) \in Files
BY FilesAssumption DEF Headers, Windows, Files

\* Different groups have different letters, although one has none of its own.
LEMMA GroupsDiffer ==
    ASSUME NEW g \in Groups, NEW h \in Groups, GroupChar(g) = GroupChar(h)
    PROVE  g = h
<1> DEFINE Known(x) == \E i \in 1..9 : GroupNames[i] = x
           At(x) == CHOOSE i \in 1..9 : GroupNames[i] = x
<1>1. \A x \in Groups : Known(x) \/ x = "Home Economics"
  <2>1. /\ GroupNames[1] = "Science" /\ GroupNames[2] = "Social Science"
        /\ GroupNames[3] = "Arts" /\ GroupNames[4] = "Commerce"
        /\ GroupNames[5] = "Agriculture" /\ GroupNames[7] = "Islamic Studies"
        /\ GroupNames[8] = "Music" /\ GroupNames[9] = "Business"
    BY DEF GroupNames
  <2>2. \A i \in 1..9 : Known(GroupNames[i])
    OBVIOUS
  <2>4. {1, 2, 3, 4, 5, 7, 8, 9} \subseteq 1..9
    OBVIOUS
  <2> HIDE DEF Known
  <2>5. \A i \in {1, 2, 3, 4, 5, 7, 8, 9} : Known(GroupNames[i])
    BY <2>2, <2>4
  <2>3. /\ Known("Science") /\ Known("Social Science") /\ Known("Arts")
        /\ Known("Commerce") /\ Known("Agriculture") /\ Known("Islamic Studies")
        /\ Known("Music") /\ Known("Business")
    BY <2>1, <2>5
  <2> QED
    BY <2>3 DEF Groups
<1>2. \A x : Known(x) => At(x) \in 1..9 /\ GroupNames[At(x)] = x
  OBVIOUS
<1>3. \A x : GroupChar(x) = IF Known(x) THEN At(x) - 1 ELSE 9
  BY DEF GroupChar
<1> HIDE DEF Known, At
<1>4. CASE Known(g) /\ Known(h)
  BY <1>2, <1>3, <1>4
<1>5. CASE ~Known(g) /\ ~Known(h)
  BY <1>1, <1>5
<1>6. \A x : Known(x) => GroupChar(x) # 9
  BY <1>2, <1>3
<1>7. \A x : ~Known(x) => GroupChar(x) = 9
  BY <1>3
<1> QED
  BY <1>4, <1>5, <1>6, <1>7

\* Names do not run together: a file's name tells everything its header says.
LEMMA NamesDiffer ==
    ASSUME NEW g \in Headers, NEW h \in Headers, FileName(g) = FileName(h)
    PROVE  g = h
<1> DEFINE sex(x) == IF x.gender = "Male" THEN "M" ELSE "F"
           part(x) == IF x.section = " " THEN "_" ELSE x.section
<1>1. /\ sex(g) = sex(h) /\ g.roll = h.roll /\ part(g) = part(h) /\ g.tot = h.tot
      /\ GroupChar(g.group) = GroupChar(h.group)
  <2>1. \A x : FileName(x) = <<sex(x), x.roll, part(x), x.tot, GroupChar(x.group)>>
    BY DEF FileName
  <2> HIDE DEF sex, part
  <2>2. <<sex(g), g.roll, part(g), g.tot, GroupChar(g.group)>>
           = <<sex(h), h.roll, part(h), h.tot, GroupChar(h.group)>>
    BY <2>1
  <2> QED
    BY <2>2
<1>2. /\ g \in [gender : Genders, roll : Nat, section : Sections, tot : Nat, group : Groups]
      /\ h \in [gender : Genders, roll : Nat, section : Sections, tot : Nat, group : Groups]
  BY HeaderTypes
<1>3. g.gender = h.gender
  <2>1. g.gender \in {"Male", "Female"} /\ h.gender \in {"Male", "Female"}
    BY <1>2 DEF Genders
  <2>2. \A x \in {g, h} : IF x.gender = "Male" THEN sex(x) = "M" ELSE sex(x) = "F"
    OBVIOUS
  <2>3. sex(g) = sex(h)
    BY <1>1
  <2> HIDE DEF sex
  <2> QED
    BY <2>1, <2>2, <2>3
<1>4. g.section = h.section
  <2>1. g.section \in Sections /\ h.section \in Sections
    BY <1>2
  <2>4. "_" \notin Sections
    BY DEF Sections
  <2>2. \A x \in {g, h} : IF x.section = " " THEN part(x) = "_"
                                            ELSE part(x) = x.section
    OBVIOUS
  <2>3. part(g) = part(h)
    BY <1>1
  <2> HIDE DEF part
  <2> QED
    BY <2>1, <2>2, <2>3, <2>4
<1>5. g.group = h.group
  BY <1>1, <1>2, GroupsDiffer
<1> QED
  BY <1>1, <1>2, <1>3, <1>4, <1>5

-----------------------------------------------------------------------------
(* The inductive invariant *)

\* A form lies under the name it says.
Named == \A n \in Files : dir[n] # None => FileName(dir[n].header) = n

\* The selected row is there.
Chosen == selected # None => list[selected] # None

\* Who is still to be typed has no form and no edit window.
Typed ==
    ~ended =>
      /\ typing \notin todo
      /\ \A n \in Files : dir[n] # None => dir[n].who \notin todo \cup {typing}
      /\ \A i \in Windows : edits[i] # None => edits[i].who \notin todo \cup {typing}

\* The picture that path leads to, among p, is that of s, or s is in c.
Shown(path, p) == IF path[1] = "own" THEN path[2] ELSE p[path[2]]
Fits(path, s, p, c) ==
    Shown(path, p) # None /\ (Shown(path, p) = s \/ s \in c)

\* The paths that a window would save with fit, and so do the pictures saved.
Framed == ~ended /\ typing # None /\ frame # None => Fits(frame, typing, pics, carried)
Lends ==
    ~ended => \A i \in Windows : edits[i] # None /\ edits[i].path # None =>
                 Fits(edits[i].path, edits[i].who, pics, carried)
Held ==
    \A n \in Files : dir[n] # None /\ dir[n].photo =>
        Fits(Beside(n), dir[n].who, pics, carried)

IInv ==
    /\ TypeOK
    /\ Named /\ ListIsTrue /\ Chosen /\ SentIsCurrent /\ SavedIsFound
    /\ Typed /\ Framed /\ Lends /\ Held

\* A path is the student's own, or leads beside a form.
LEMMA PathCases ==
    /\ \A s : Own(s)[1] = "own" /\ Own(s)[2] = s
    /\ \A n : Beside(n)[1] = "beside" /\ Beside(n)[2] = n
    /\ \A s, n : Own(s) # Beside(n)
    /\ \A path \in Paths : \/ \E s \in Students : path = Own(s)
                           \/ \E n \in Files : path = Beside(n)
BY DEF Own, Beside, Paths

\* What a path shows is a student, or nobody.
LEMMA ShownType ==
    ASSUME TypeOK, NEW path \in Paths
    PROVE  Shown(path, pics) \in Students \cup {None}
<1>1. CASE \E s \in Students : path = Own(s)
  BY <1>1, PathCases DEF Shown
<1>2. CASE \E n \in Files : path = Beside(n)
  <2>1. PICK n \in Files : path = Beside(n)
    BY <1>2
  <2>2. Shown(path, pics) = pics[n]
    BY <2>1, PathCases DEF Shown
  <2> QED
    BY <2>2 DEF TypeOK
<1> QED
  BY <1>1, <1>2, PathCases

\* A path goes on to fit: what lies beside n may be another picture only if the
\* path does not lead there, or s is in c2 by now.
LEMMA FitsLater ==
    ASSUME NEW path \in Paths, NEW s, NEW p, NEW c, NEW p2, NEW c2, NEW n,
           Fits(path, s, p, c), c \subseteq c2,
           \A m \in Files : m # n => p2[m] = p[m],
           path = Beside(n) => Fits(path, s, p2, c2)
    PROVE  Fits(path, s, p2, c2)
<1>1. CASE \E t \in Students : path = Own(t)
  BY <1>1, PathCases DEF Fits, Shown
<1>2. CASE \E m \in Files : path = Beside(m) /\ m # n
  <2>1. PICK m \in Files : path = Beside(m) /\ m # n
    BY <1>2
  <2>2. Shown(path, p2) = p2[m] /\ Shown(path, p) = p[m] /\ p2[m] = p[m]
    BY <2>1, PathCases DEF Shown
  <2> QED
    BY <2>2 DEF Fits
<1> QED
  BY <1>1, <1>2, PathCases

-----------------------------------------------------------------------------
(* Writing a form *)

\* What verify_form leaves behind under the name of what it has written, when
\* the path of the window fits.
LEMMA WriteEffect ==
    ASSUME TypeOK, NEW s \in Students, NEW h \in Headers, NEW e \in 0..MaxEdits,
           NEW path \in Paths \cup {None}, Write(s, h, e, path),
           path # None => Fits(path, s, pics, carried)
    PROVE  /\ FileName(h) \in Files
           /\ \E r \in Forms : /\ dir' = [dir EXCEPT ![FileName(h)] = r]
                               /\ r.who = s /\ r.header = h /\ ~r.sent
                               /\ r.photo => path # None
           /\ pics' \in [Files -> Students \cup {None}]
           /\ \A m \in Files : m # FileName(h) => pics'[m] = pics[m]
           /\ pics[FileName(h)] # None => pics'[FileName(h)] # None
           /\ path = None => pics' = pics
           /\ path # None => Fits(Beside(FileName(h)), s, pics', carried)
           /\ Fits(Beside(FileName(h)), s, pics, carried) =>
                 Fits(Beside(FileName(h)), s, pics', carried)
<1> DEFINE n == FileName(h)
           r == [who |-> s, header |-> h, edit |-> e, sent |-> FALSE,
                 photo |-> path # None]
<1>1. n \in Files
  BY HeaderTypes
<1>2. r \in Forms /\ dir' = [dir EXCEPT ![n] = r]
  BY DEF Forms, Write
<1>3. /\ r.who = s /\ r.header = h /\ ~r.sent /\ (r.photo => path # None)
  OBVIOUS
<1>4. PictureAt(path) = Shown(path, pics)
  BY DEF PictureAt, Shown
<1>5. pics \in [Files -> Students \cup {None}]
  BY DEF TypeOK
<1>6. \A p : Shown(Beside(n), p) = p[n]
  BY PathCases DEF Shown
<1> HIDE DEF n, r
<1>7. \/ pics' = pics /\ (path = None \/ path = Beside(n))
      \/ /\ path # None /\ path \in Paths /\ Shown(path, pics) # None
         /\ pics' = [pics EXCEPT ![n] = Shown(path, pics)]
  BY <1>4 DEF Write, CopyPhoto, Fits, n
<1>8. pics' \in [Files -> Students \cup {None}]
  <2>1. path # None => Shown(path, pics) \in Students \cup {None}
    BY ShownType
  <2> QED
    BY <1>1, <1>5, <1>7, <2>1
<1>9. /\ \A m \in Files : m # n => pics'[m] = pics[m]
      /\ pics[n] # None => pics'[n] # None
      /\ path = None => pics' = pics
  BY <1>1, <1>5, <1>7
<1>10. path # None => Fits(Beside(n), s, pics', carried)
  BY <1>1, <1>5, <1>6, <1>7 DEF Fits
<1>11. Fits(Beside(n), s, pics, carried) => Fits(Beside(n), s, pics', carried)
  BY <1>7, <1>10
<1> QED
  BY <1>1, <1>2, <1>3, <1>8, <1>9, <1>10, <1>11 DEF n

\* The directory after it: forms lie under their names, what is marked sent was
\* sent, saved forms are found, and pictures fit.
LEMMA WriteKeeps ==
    ASSUME IInv, NEW s \in Students, NEW h \in Headers, NEW e \in 0..MaxEdits,
           NEW path \in Paths \cup {None}, Write(s, h, e, path),
           path # None => Fits(path, s, pics, carried), carried \subseteq carried'
    PROVE  /\ dir' \in [Files -> Forms \cup {None}]
           /\ saved' \subseteq Students /\ replaced' \subseteq Students
           /\ UNCHANGED <<use, server>>
           /\ Named' /\ SentIsCurrent' /\ SavedIsFound' /\ Held'
           /\ \A m \in Files : dir'[m] # None =>
                 dir'[m].who = s \/ (dir[m] # None /\ dir'[m].who = dir[m].who)
<1> DEFINE n == FileName(h)
<1>1. /\ n \in Files
      /\ pics' \in [Files -> Students \cup {None}]
      /\ \A m \in Files : m # n => pics'[m] = pics[m]
      /\ path # None => Fits(Beside(n), s, pics', carried)
  BY WriteEffect DEF IInv
<1>2. PICK r \in Forms : /\ dir' = [dir EXCEPT ![n] = r]
                         /\ r.who = s /\ r.header = h /\ ~r.sent
                         /\ r.photo => path # None
  BY WriteEffect DEF IInv
<1>3. FileName(h) = n
  OBVIOUS
<1> HIDE DEF n
<1>4. dir \in [Files -> Forms \cup {None}] /\ r # None
  BY NoneAssumption DEF IInv, TypeOK
<1>5. dir'[n] = r /\ \A m \in Files : m # n => dir'[m] = dir[m]
  BY <1>1, <1>2, <1>4
<1>6. dir' \in [Files -> Forms \cup {None}]
  BY <1>1, <1>2, <1>4
<1>7. \A m \in Files : dir[m] # None => dir[m] \in Forms /\ dir[m].who \in Students
                                        /\ dir[m].header \in Headers
  BY <1>4 DEF Forms
<1>8. /\ saved' = saved \cup {s}
      /\ replaced' = (replaced \ {s}) \cup
             (IF dir[n] # None /\ dir[n].header = h THEN {dir[n].who} \ {s} ELSE {})
      /\ UNCHANGED <<use, server>>
  BY DEF Write, n
<1>9. saved' \subseteq Students /\ replaced' \subseteq Students
  BY <1>1, <1>7, <1>8 DEF IInv, TypeOK
<1>10. Named'
  BY <1>2, <1>3, <1>5 DEF IInv, Named
<1>11. SentIsCurrent'
  BY <1>2, <1>5, <1>8 DEF IInv, SentIsCurrent
<1>12. SavedIsFound'
  <2> SUFFICES ASSUME NEW t \in saved' \ replaced'
               PROVE  \E m \in Files : dir'[m] # None /\ dir'[m].who = t
    BY DEF SavedIsFound
  <2>1. CASE t = s
    BY <1>1, <1>2, <1>4, <1>5, <2>1
  <2>2. CASE t # s
    <3>1. t \in saved \ replaced
      BY <1>8, <2>2
    <3>2. PICK m \in Files : dir[m] # None /\ dir[m].who = t
      BY <3>1 DEF IInv, SavedIsFound
    <3>3. CASE m # n
      BY <1>5, <3>2, <3>3
    <3>4. CASE m = n
      <4>1. FileName(dir[n].header) = FileName(h)
        BY <1>1, <1>3, <3>2, <3>4 DEF IInv, Named
      <4>2. dir[n].header = h
        BY <1>1, <1>7, <3>2, <3>4, <4>1, NamesDiffer
      <4>3. t \in replaced'
        BY <1>8, <2>2, <3>2, <3>4, <4>2
      <4> QED
        BY <4>3
    <3> QED
      BY <3>3, <3>4
  <2> QED
    BY <2>1, <2>2
<1>13. Held'
  <2> SUFFICES ASSUME NEW m \in Files, dir'[m] # None, dir'[m].photo
               PROVE  Fits(Beside(m), dir'[m].who, pics', carried')
    BY DEF Held
  <2>1. CASE m = n
    <3>1. Fits(Beside(n), s, pics', carried)
      BY <1>1, <1>2, <1>5, <2>1
    <3> QED
      BY <1>2, <1>5, <2>1, <3>1 DEF Fits
  <2>2. CASE m # n
    <3>1. Fits(Beside(m), dir[m].who, pics, carried)
      BY <1>5, <2>2 DEF IInv, Held
    <3>2. \A p : Shown(Beside(m), p) = p[m]
      BY PathCases DEF Shown
    <3> QED
      BY <1>1, <1>5, <2>2, <3>1, <3>2 DEF Fits
  <2> QED
    BY <2>1, <2>2
<1> QED
  BY <1>2, <1>5, <1>6, <1>8, <1>9, <1>10, <1>11, <1>12, <1>13

\* The path of an edit window goes on to fit when a form is written.
LEMMA LentKept ==
    ASSUME IInv, ~ended, NEW s \in Students, NEW h \in Headers, NEW e \in 0..MaxEdits,
           NEW path \in Paths \cup {None}, Write(s, h, e, path),
           path # None => Fits(path, s, pics, carried), carried \subseteq carried',
           Lent(FileName(h), s) \subseteq carried',
           NEW j \in Windows, edits[j] # None, edits[j].path # None
    PROVE  Fits(edits[j].path, edits[j].who, pics', carried')
<1> DEFINE n == FileName(h)
           q == edits[j].path
           t == edits[j].who
<1>1. q \in Paths /\ Fits(q, t, pics, carried)
  BY DEF IInv, TypeOK, Lends
<1>2. /\ n \in Files
      /\ \A m \in Files : m # n => pics'[m] = pics[m]
      /\ pics[n] # None => pics'[n] # None
      /\ Fits(Beside(n), s, pics, carried) => Fits(Beside(n), s, pics', carried)
  BY WriteEffect DEF IInv
<1>3. \A p : Shown(Beside(n), p) = p[n]
  BY PathCases DEF Shown
<1>4. q = Beside(n) /\ t # s => t \in carried'
  BY DEF Lent
<1> HIDE DEF n, q, t
<1>5. q = Beside(n) => Fits(q, t, pics', carried')
  <2>1. CASE t = s
    BY <1>1, <1>2, <2>1 DEF Fits
  <2>2. CASE t # s
    BY <1>1, <1>2, <1>3, <1>4, <2>2 DEF Fits
  <2> QED
    BY <2>1, <2>2
<1>6. Fits(q, t, pics', carried')
  BY <1>1, <1>2, <1>5, FitsLater
<1> QED
  BY <1>6 DEF q, t

\* The list is the directory after it has been read anew.
LEMMA ListRead ==
    ASSUME dir' \in [Files -> Forms \cup {None}], Named', Refreshed(dir')
    PROVE  /\ list' \in [Files -> [who : Students, header : Headers, sent : BOOLEAN]
                                    \cup {None}]
           /\ selected' \in Files \cup {None}
           /\ ListIsTrue' /\ Chosen'
<1>1. list' = Rows(dir') /\ selected' = None
  BY DEF Refreshed
<1>2. \A n \in Files : dir'[n] # None =>
         /\ Row(dir'[n]) \in [who : Students, header : Headers, sent : BOOLEAN]
         /\ Row(dir'[n]).header = dir'[n].header
  BY DEF Forms, Row
<1>3. \A n \in Files : list'[n] = IF dir'[n] = None THEN None ELSE Row(dir'[n])
  BY <1>1 DEF Rows
<1>4. list' \in [Files -> [who : Students, header : Headers, sent : BOOLEAN] \cup {None}]
  BY <1>1, <1>2 DEF Rows
<1>5. RowNamesFile'
  BY <1>2, <1>3 DEF RowNamesFile, Named
<1> QED
  BY <1>1, <1>4, <1>5 DEF ListIsTrue, ListIsDirectory, Chosen

-----------------------------------------------------------------------------
(* Every step keeps the invariant *)

\* Save: the form written is found, and the list shows it.
LEMMA SaveInv == ASSUME IInv, NEW h \in use.headers, Save(h) PROVE IInv'
<1>1. h \in Headers /\ typing \in Students /\ 0 \in 0..MaxEdits
  BY HeaderTypes, FilesAssumption DEF IInv, TypeOK, Save
<1>2. frame \in Paths \cup {None} /\ (frame # None => Fits(frame, typing, pics, carried))
  BY DEF IInv, TypeOK, Paths, Framed, Save
<1>3. Write(typing, h, 0, frame) /\ Refreshed(dir') /\ NextForm(FileName(h))
  BY DEF Save
<1>4. /\ carried \subseteq carried' /\ Lent(FileName(h), typing) \subseteq carried'
      /\ frame # None /\ typing' # None => typing' \in carried'
  BY <1>3 DEF NextForm
<1>5. /\ dir' \in [Files -> Forms \cup {None}]
      /\ saved' \subseteq Students /\ replaced' \subseteq Students
      /\ UNCHANGED <<use, server>>
      /\ Named' /\ SentIsCurrent' /\ SavedIsFound' /\ Held'
      /\ \A m \in Files : dir'[m] # None =>
            dir'[m].who = typing \/ (dir[m] # None /\ dir'[m].who = dir[m].who)
  BY <1>1, <1>2, <1>3, <1>4, WriteKeeps
<1>6. pics' \in [Files -> Students \cup {None}]
  BY <1>1, <1>2, <1>3, WriteEffect DEF IInv
<1>7. /\ list' \in [Files -> [who : Students, header : Headers, sent : BOOLEAN] \cup {None}]
      /\ selected' \in Files \cup {None} /\ ListIsTrue' /\ Chosen'
  BY <1>3, <1>5, ListRead
<1>8. UNCHANGED <<frame, edits, ended>> /\ ~ended
  BY DEF Save
<1>9. /\ typing' \in Students \cup {None} /\ todo' \subseteq Students
      /\ typing' \notin todo' /\ typing' # typing /\ typing \notin todo'
      /\ todo' \cup {typing'} \subseteq todo \cup {None}
  BY <1>1, <1>3, <1>8, NoneAssumption DEF NextForm, IInv, TypeOK, Typed
<1>10. carried' \subseteq Students
  BY <1>3, <1>9 DEF NextForm, Lent, IInv, TypeOK
<1>11. TypeOK'
  BY <1>5, <1>6, <1>7, <1>8, <1>9, <1>10 DEF IInv, TypeOK
<1>12. Typed'
  <2>1. \A n \in Files : dir'[n] # None => dir'[n].who \in Students
    BY <1>5 DEF Forms
  <2>2. \A i \in Windows : edits[i] # None => edits[i].who \in Students
    BY DEF IInv, TypeOK
  <2>3. /\ \A n \in Files : dir[n] # None => dir[n].who \notin todo \cup {typing}
        /\ \A i \in Windows : edits[i] # None => edits[i].who \notin todo \cup {typing}
    BY <1>8 DEF IInv, Typed
  <2> QED
    BY <1>1, <1>5, <1>8, <1>9, <2>1, <2>2, <2>3, NoneAssumption DEF Typed
<1>13. Framed'
  <2> SUFFICES ASSUME typing' # None, frame # None
               PROVE  Fits(frame, typing', pics', carried')
    BY <1>8 DEF Framed
  <2>1. PICK s \in Students : frame = Own(s)
    BY DEF IInv, TypeOK
  <2>2. Shown(frame, pics') = s /\ s # None
    BY <2>1, PathCases, NoneAssumption DEF Shown
  <2> QED
    BY <1>4, <2>2 DEF Fits
<1>14. Lends'
  BY <1>1, <1>2, <1>3, <1>4, <1>8, LentKept DEF Lends
<1> QED
  BY <1>5, <1>7, <1>11, <1>12, <1>13, <1>14 DEF IInv

\* Save and exit: as Save, for a list and windows that are gone.
LEMMA SaveAndExitInv == ASSUME IInv, NEW h \in use.headers, SaveAndExit(h) PROVE IInv'
<1>1. h \in Headers /\ typing \in Students /\ 0 \in 0..MaxEdits
  BY HeaderTypes, FilesAssumption DEF IInv, TypeOK, SaveAndExit
<1>2. frame \in Paths \cup {None} /\ (frame # None => Fits(frame, typing, pics, carried))
  BY DEF IInv, TypeOK, Paths, Framed, SaveAndExit
<1>3. Write(typing, h, 0, frame) /\ ended'
      /\ UNCHANGED <<list, selected, typing, todo, frame, edits, carried>>
  BY DEF SaveAndExit
<1>4. /\ dir' \in [Files -> Forms \cup {None}]
      /\ saved' \subseteq Students /\ replaced' \subseteq Students
      /\ UNCHANGED <<use, server>>
      /\ Named' /\ SentIsCurrent' /\ SavedIsFound' /\ Held'
  BY <1>1, <1>2, <1>3, WriteKeeps
<1>5. pics' \in [Files -> Students \cup {None}]
  BY <1>1, <1>2, <1>3, WriteEffect DEF IInv
<1>6. TypeOK'
  BY <1>3, <1>4, <1>5 DEF IInv, TypeOK
<1>7. ListIsTrue' /\ Chosen'
  BY <1>3 DEF IInv, ListIsTrue, ListIsDirectory, RowNamesFile, Chosen
<1> QED
  BY <1>3, <1>4, <1>6, <1>7 DEF IInv, Typed, Framed, Lends

\* Saving an edit window, under the name of what it says now.
LEMMA SaveEditInv ==
    ASSUME IInv, NEW i \in use.windows, NEW h \in use.headers, SaveEdit(i, h)
    PROVE  IInv'
<1> DEFINE w == edits[i]
<1>1. /\ i \in Windows /\ h \in Headers /\ w # None /\ w.who \in Students
      /\ w.edit + 1 \in 0..MaxEdits /\ w.path \in Paths \cup {None}
  BY HeaderTypes, FilesAssumption DEF IInv, TypeOK, SaveEdit
<1>2. w.path # None => Fits(w.path, w.who, pics, carried)
  BY <1>1 DEF IInv, Lends, SaveEdit
<1>3. /\ Write(w.who, h, w.edit + 1, w.path) /\ Refreshed(dir')
      /\ edits' = [edits EXCEPT ![i] = None]
      /\ carried' = carried \cup Lent(FileName(h), w.who)
      /\ UNCHANGED <<typing, todo, frame, ended>> /\ ~ended
  BY DEF SaveEdit
<1>4. carried \subseteq carried' /\ Lent(FileName(h), w.who) \subseteq carried'
  BY <1>3
<1>5. /\ dir' \in [Files -> Forms \cup {None}]
      /\ saved' \subseteq Students /\ replaced' \subseteq Students
      /\ UNCHANGED <<use, server>>
      /\ Named' /\ SentIsCurrent' /\ SavedIsFound' /\ Held'
      /\ \A m \in Files : dir'[m] # None =>
            dir'[m].who = w.who \/ (dir[m] # None /\ dir'[m].who = dir[m].who)
  BY <1>1, <1>2, <1>3, <1>4, WriteKeeps
<1>6. pics' \in [Files -> Students \cup {None}]
  BY <1>1, <1>2, <1>3, WriteEffect DEF IInv
<1>7. /\ list' \in [Files -> [who : Students, header : Headers, sent : BOOLEAN] \cup {None}]
      /\ selected' \in Files \cup {None} /\ ListIsTrue' /\ Chosen'
  BY <1>3, <1>5, ListRead
<1>8. carried' \subseteq Students
  BY <1>3 DEF Lent, IInv, TypeOK
<1>9. \A j \in Windows : edits'[j] # None => edits'[j] = edits[j]
  BY <1>1, <1>3 DEF IInv, TypeOK
<1>10. TypeOK'
  BY <1>1, <1>3, <1>5, <1>6, <1>7, <1>8 DEF IInv, TypeOK
<1>11. Typed'
  <2>1. w.who \notin todo \cup {typing}
    BY <1>1, <1>3 DEF IInv, Typed
  <2> QED
    BY <1>3, <1>5, <1>9, <2>1 DEF IInv, Typed
<1>12. Framed'
  <2> SUFFICES ASSUME typing # None, frame # None
               PROVE  Fits(frame, typing, pics', carried')
    BY <1>3 DEF Framed
  <2>1. PICK s \in Students : frame = Own(s)
    BY DEF IInv, TypeOK
  <2>2. Fits(frame, typing, pics, carried)
    BY <1>3 DEF IInv, Framed
  <2>3. Shown(frame, pics') = Shown(frame, pics)
    BY <2>1, PathCases DEF Shown
  <2> QED
    BY <1>4, <2>2, <2>3 DEF Fits
<1>13. Lends'
  <2> SUFFICES ASSUME NEW j \in Windows, edits'[j] # None, edits'[j].path # None
               PROVE  Fits(edits'[j].path, edits'[j].who, pics', carried')
    BY DEF Lends
  <2>1. edits'[j] = edits[j]
    BY <1>9
  <2>2. Fits(edits[j].path, edits[j].who, pics', carried')
    BY <1>1, <1>2, <1>3, <1>4, <2>1, LentKept
  <2> QED
    BY <2>1, <2>2
<1> QED
  BY <1>5, <1>7, <1>10, <1>11, <1>12, <1>13 DEF IInv

\* A picture in the frame is that of the form that is typed.
LEMMA AddPhotoInv == ASSUME IInv, AddPhoto PROVE IInv'
<1>1. /\ ~ended /\ typing \in use.pictured /\ frame' = Own(typing)
      /\ carried' = carried \ {typing}
      /\ UNCHANGED <<store, list, selected, typing, todo, edits, ended, saved,
                     replaced>>
  BY DEF AddPhoto
<1>2. typing \in Students
  BY <1>1, FilesAssumption DEF IInv, TypeOK
<1>3. TypeOK'
  BY <1>1, <1>2 DEF IInv, TypeOK, store
<1>4. Named' /\ ListIsTrue' /\ Chosen' /\ SentIsCurrent' /\ SavedIsFound' /\ Typed'
  BY <1>1 DEF IInv, Named, ListIsTrue, ListIsDirectory, RowNamesFile, Chosen,
              SentIsCurrent, SavedIsFound, Typed, store
<1>5. /\ \A n \in Files : dir[n] # None => dir[n].who # typing
      /\ \A i \in Windows : edits[i] # None => edits[i].who # typing
  BY <1>1 DEF IInv, Typed
<1>6. Framed'
  <2>1. Shown(frame', pics') = typing /\ typing # None
    BY <1>1, <1>2, PathCases, NoneAssumption DEF Shown
  <2> QED
    BY <1>1, <2>1 DEF Framed, Fits
<1>7. \A path, s, p : s # typing /\ Fits(path, s, p, carried) => Fits(path, s, p, carried')
  BY <1>1 DEF Fits
<1>8. Held'
  BY <1>1, <1>5, <1>7 DEF IInv, Held, store
<1>9. Lends'
  BY <1>1, <1>5, <1>7 DEF IInv, Lends, store
<1> QED
  BY <1>3, <1>4, <1>6, <1>8, <1>9 DEF IInv

\* Selecting a row, whose columns say which form it is.
LEMMA SelectInv == ASSUME IInv, NEW n \in Files, Select(n) PROVE IInv'
<1>1. /\ list[n] # None /\ selected' = n
      /\ UNCHANGED <<store, hist, list, typing, todo, frame, edits, ended>>
  BY DEF Select
<1>2. TypeOK'
  BY <1>1 DEF IInv, TypeOK, store, hist
<1> QED
  BY <1>1, <1>2 DEF IInv, Named, ListIsTrue, ListIsDirectory, RowNamesFile, Chosen,
                    SentIsCurrent, SavedIsFound, Typed, Framed, Lends, Held, store, hist

\* As long as the program runs the file of the selected row is there.
LEMMA SelectedIsThere ==
    ASSUME IInv, ~ended, selected # None
    PROVE  SelectedFile \in Files /\ dir[SelectedFile] # None /\ SelectedFile = selected
<1>1. selected \in Files /\ list[selected] # None /\ SelectedFile = selected
  BY DEF IInv, TypeOK, Chosen, ListIsTrue, RowNamesFile, SelectedFile
<1>2. list = Rows(dir)
  BY <1>1 DEF IInv, ListIsTrue, ListIsDirectory
<1> QED
  BY <1>1, <1>2 DEF Rows

\* A step that changes nothing but the edit window i.
LEMMA WindowInv ==
    ASSUME IInv, NEW i \in Windows,
           NEW w \in {None} \cup [who : Students, header : Headers, edit : 0..MaxEdits,
                                  path : Paths \cup {None}],
           edits' = [edits EXCEPT ![i] = w],
           UNCHANGED <<store, hist, list, selected, typing, todo, frame, ended>>,
           w # None /\ w.path # None => Fits(w.path, w.who, pics, carried),
           ~ended /\ w # None => w.who \notin todo \cup {typing}
    PROVE  IInv'
<1>1. \A j \in Windows : edits'[j] = w \/ edits'[j] = edits[j]
  BY DEF IInv, TypeOK
<1>2. TypeOK'
  BY DEF IInv, TypeOK, store, hist
<1>3. Lends'
  BY <1>1 DEF IInv, Lends, store, hist
<1>4. Typed'
  BY <1>1 DEF IInv, Typed, store, hist
<1> QED
  BY <1>2, <1>3, <1>4 DEF IInv, Named, ListIsTrue, ListIsDirectory, RowNamesFile, Chosen,
                    SentIsCurrent, SavedIsFound, Framed, Held, store, hist

\* Editing lends the selected form and its path to a window.
LEMMA EditInv == ASSUME IInv, NEW i \in use.windows, Edit(i) PROVE IInv'
<1> DEFINE n == SelectedFile
           f == dir[n]
           w == [who |-> f.who, header |-> f.header, edit |-> f.edit,
                 path |-> IF f.photo THEN Beside(n) ELSE None]
<1>1. i \in Windows /\ ~ended /\ selected # None /\ edits' = [edits EXCEPT ![i] = w]
      /\ UNCHANGED <<store, hist, list, selected, typing, todo, frame, ended>>
  BY HeaderTypes DEF IInv, TypeOK, Edit
<1>2. n \in Files /\ f # None
  BY <1>1, SelectedIsThere
<1>3. f \in Forms
  BY <1>2 DEF IInv, TypeOK
<1>4. w \in [who : Students, header : Headers, edit : 0..MaxEdits, path : Paths \cup {None}]
  BY <1>2, <1>3 DEF Forms, Paths
<1>5. w.path # None => Fits(w.path, w.who, pics, carried)
  BY <1>2 DEF IInv, Held
<1>6. w.who \notin todo \cup {typing}
  BY <1>1, <1>2 DEF IInv, Typed
<1> HIDE DEF w
<1> QED
  BY <1>1, <1>4, <1>5, <1>6, WindowInv

\* A picture in an edit window is that of the form edited there.
LEMMA EditPhotoInv == ASSUME IInv, NEW i \in use.windows, EditPhoto(i) PROVE IInv'
<1> DEFINE w == [edits[i] EXCEPT !.path = Own(edits[i].who)]
<1>1. /\ i \in Windows /\ ~ended /\ edits[i] # None
      /\ edits' = [edits EXCEPT ![i].path = Own(edits[i].who)]
      /\ UNCHANGED <<store, hist, list, selected, typing, todo, frame, ended>>
  BY HeaderTypes DEF IInv, TypeOK, EditPhoto
<1>2. edits[i] \in [who : Students, header : Headers, edit : 0..MaxEdits,
                    path : Paths \cup {None}]
  BY <1>1 DEF IInv, TypeOK
<1>3. /\ w \in [who : Students, header : Headers, edit : 0..MaxEdits,
                path : Paths \cup {None}]
      /\ w.path = Own(edits[i].who) /\ w.who = edits[i].who
  BY <1>2 DEF Paths
<1>4. edits' = [edits EXCEPT ![i] = w]
  BY <1>1, <1>2 DEF IInv, TypeOK
<1> HIDE DEF w
<1>5. Fits(w.path, w.who, pics, carried)
  BY <1>2, <1>3, PathCases, NoneAssumption DEF Fits, Shown
<1>6. w.who \notin todo \cup {typing}
  BY <1>1, <1>3 DEF IInv, Typed
<1> QED
  BY <1>1, <1>3, <1>4, <1>5, <1>6, WindowInv

\* Closing an edit window.
LEMMA CloseEditInv == ASSUME IInv, NEW i \in use.windows, CloseEdit(i) PROVE IInv'
<1>1. /\ i \in Windows /\ edits' = [edits EXCEPT ![i] = None]
      /\ UNCHANGED <<store, hist, list, selected, typing, todo, frame, ended>>
  BY HeaderTypes DEF IInv, TypeOK, CloseEdit
<1> QED
  BY <1>1, WindowInv

\* Sending marks the form that was sent, in its file and in its row.
LEMMA SendInv == ASSUME IInv, NEW n \in Files, Send(n) PROVE IInv'
<1> DEFINE f == [dir[n] EXCEPT !.sent = TRUE]
<1>1. /\ dir[n] # None
      /\ server' = [server EXCEPT ![n] = f] /\ dir' = [dir EXCEPT ![n].sent = TRUE]
      /\ Refreshed(dir')
      /\ UNCHANGED <<use, pics, hist, typing, todo, frame, edits, ended>>
  BY DEF Send
<1>2. dir \in [Files -> Forms \cup {None}] /\ dir[n] \in Forms
  BY <1>1 DEF IInv, TypeOK
<1>3. /\ f \in Forms /\ f.who = dir[n].who /\ f.header = dir[n].header
      /\ f.photo = dir[n].photo
  BY <1>2 DEF Forms
<1>4. dir' = [dir EXCEPT ![n] = f]
  BY <1>1, <1>2
<1> HIDE DEF f
<1>5. f # None
  BY <1>3, NoneAssumption
<1>6. /\ dir' \in [Files -> Forms \cup {None}]
      /\ \A m \in Files : /\ dir'[m] # None <=> dir[m] # None
                          /\ dir[m] # None => /\ dir'[m].who = dir[m].who
                                              /\ dir'[m].header = dir[m].header
                                              /\ dir'[m].photo = dir[m].photo
  BY <1>1, <1>2, <1>3, <1>4, <1>5
<1>7. Named' /\ Held' /\ Typed' /\ Framed' /\ Lends' /\ SavedIsFound'
  BY <1>1, <1>6 DEF IInv, Named, Held, Typed, Framed, Lends, SavedIsFound, hist
<1>8. SentIsCurrent'
  BY <1>1, <1>2, <1>4 DEF IInv, TypeOK, SentIsCurrent
<1>9. /\ list' \in [Files -> [who : Students, header : Headers, sent : BOOLEAN] \cup {None}]
      /\ selected' \in Files \cup {None} /\ ListIsTrue' /\ Chosen'
  BY <1>1, <1>6, <1>7, ListRead
<1>10. TypeOK'
  BY <1>1, <1>3, <1>6, <1>9 DEF IInv, TypeOK, hist
<1> QED
  BY <1>7, <1>8, <1>9, <1>10 DEF IInv

\* Leaving the program.
LEMMA ExitInv == ASSUME IInv, Exit PROVE IInv'
<1>1. ended' /\ ended' \in BOOLEAN
      /\ UNCHANGED <<store, hist, list, selected, typing, todo, frame, edits>>
  BY DEF Exit
<1>2. TypeOK'
  BY <1>1 DEF IInv, TypeOK, store, hist
<1> QED
  BY <1>1, <1>2 DEF IInv, Named, ListIsTrue, ListIsDirectory, RowNamesFile, Chosen,
                    SentIsCurrent, SavedIsFound, Typed, Framed, Lends, Held, store, hist

\* The invariant at the start, with an empty directory.
LEMMA InitInv == Init => IInv
<1> SUFFICES ASSUME Init PROVE IInv
  OBVIOUS
<1>1. TypeOK
  BY DEF Init, TypeOK, Rows
<1> QED
  BY <1>1 DEF Init, IInv, Named, ListIsTrue, ListIsDirectory, RowNamesFile, Chosen,
              SentIsCurrent, SavedIsFound, Typed, Framed, Lends, Held, Rows

\* Every step keeps the invariant.
LEMMA NextInv == IInv /\ [Next]_vars => IInv'
<1> SUFFICES ASSUME IInv, [Next]_vars PROVE IInv'
  OBVIOUS
<1>1. CASE UNCHANGED vars
  BY <1>1 DEF vars, gui, store, hist, IInv, TypeOK, Named, ListIsTrue, ListIsDirectory,
              RowNamesFile, Chosen, SentIsCurrent, SavedIsFound, Typed, Framed, Lends, Held
<1>2. CASE Next
  BY <1>2, SaveInv, SaveAndExitInv, SaveEditInv, EditInv, EditPhotoInv, CloseEditInv,
     SelectInv, SendInv, AddPhotoInv, ExitInv DEF Next
<1> QED
  BY <1>1, <1>2

\* The invariant holds throughout.
LEMMA Inductive == Spec => []IInv
BY InitInv, NextInv, PTL DEF Spec

-----------------------------------------------------------------------------
(* The theorems *)

\* Type correctness.
THEOREM TypeCorrect == Spec => []TypeOK
BY Inductive, PTL DEF IInv

\* The editor's list shows the files there are, with the flags they have, and the
\* columns of a row lead back to the file it was read from.
THEOREM ListsAreTrue == Spec => []ListIsTrue
BY Inductive, PTL DEF IInv

\* A form marked as sent is the one the server was sent under its name.
THEOREM MarkedIsSent == Spec => []SentIsCurrent
BY Inductive, PTL DEF IInv

\* A saved form is found, unless it was replaced by one that says the same of
\* gender, roll, section, TOT list and group.
THEOREM SavedAreFound == Spec => []SavedIsFound
BY Inductive, PTL DEF IInv

\* A form with a picture has its student's, or an earlier student's that was
\* attached to the frame or came to lie under the name of an open form.
THEOREM PhotosFit == Spec => []PhotoIsOwnOrCarried
<1>1. IInv => PhotoIsOwnOrCarried
  <2>1. \A n : Shown(Beside(n), pics) = pics[n]
    BY PathCases DEF Shown
  <2> QED
    BY <2>1 DEF IInv, Held, Fits, PhotoIsOwnOrCarried
<1> QED
  BY <1>1, Inductive, PTL
===============================================================================
