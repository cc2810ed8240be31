------------------------------- MODULE FormFiles -------------------------------
(***************************************************************************)
(* The directory of an institution's forms at the client.  A form is saved *)
(* by verify_form into a file named by what the form says (gender, roll,   *)
(* section, TOT list, group), from the form window or from an edit window; *)
(* the editor lists the directory, opens the forms and sends them.  The    *)
(* picture of a student is copied beside the form, under its name.         *)
(* Nothing links a window to the file it came from: the name is all.       *)
(* Three handlers of the editor, which delete a form, empty the list and   *)
(* close, are connected to no button (editor.c:228) and are no actions.    *)
(***************************************************************************)
EXTENDS Naturals, FiniteSets

CONSTANTS
    Students,
    Uses,       \* what a run of the program is used for; each has
                \* headers: what forms say of gender, roll, section, TOT, group,
                \* windows: bound, edit windows open at a time,
                \* photos: whether the options let pictures be loaded in the
                \* form window, pictured: the students who have one,
                \* online: whether there is a server to send the forms to
    MaxEdits,   \* bound: how often a form is changed in the editor
    None

Headers == UNION {u.headers : u \in Uses}
Windows == UNION {u.windows : u \in Uses}

\* What the lists of the form window offer, whose entries cannot be typed in.
Genders  == {"Male", "Female"}
Sections == {" ", "A", "B", "C", "D", "E", "F"}
Groups   == {"Science", "Social Science", "Arts", "Commerce", "Agriculture",
             "Home Economics", "Islamic Studies", "Music", "Business"}

ASSUME FilesAssumption ==
    /\ MaxEdits \in Nat /\ Students # {}
    /\ \A u \in Uses : /\ u.headers # {} /\ u.pictured \subseteq Students
                      /\ u.headers \subseteq [gender : Genders, roll : Nat,
                            section : Sections, tot : Nat, group : Groups]
                      /\ {u.photos, u.online} \subseteq BOOLEAN

\* The numbers of the groups, and the letter of one construct_filename does not
\* know: it looks for "home_eco".
GroupNames == << "Science", "Social Science", "Arts", "Commerce", "Agriculture",
                 "home_eco", "Islamic Studies", "Music", "Business" >>
GroupChar(g) ==
    IF \E i \in 1..9 : GroupNames[i] = g
    THEN (CHOOSE i \in 1..9 : GroupNames[i] = g) - 1 ELSE 9

\* Mutant of FileName: the section is left out.
FileName_NoSection(h) ==
    << IF h.gender = "Male" THEN "M" ELSE "F", h.roll, "_", h.tot, GroupChar(h.group) >>

\* construct_filename; the "u" of an unknown group is 9 here.
FileName(h) ==
    << IF h.gender = "Male" THEN "M" ELSE "F", h.roll,
       IF h.section = " " THEN "_" ELSE h.section, h.tot, GroupChar(h.group) >>

Files == {FileName(h) : h \in Headers}

\* What a file may hold.
Forms == [who : Students, header : Headers, edit : 0..MaxEdits, sent : BOOLEAN,
          photo : BOOLEAN]

ASSUME NoneAssumption == None \notin Students \cup Forms

VARIABLES
    use,        \* one of Uses
    dir,        \* dir[n]: the form in the file, or None
    pics,       \* pics[n]: whose picture lies beside it, or None
    server,     \* server[n]: the form last sent under the name
    list,       \* the rows of the editor's list
    selected,   \* the selected row, or None
    typing,     \* the student whose form is typed in the form window
    todo,       \* students still to be typed
    frame,      \* the path attached to the form window's photo frame
    edits,      \* the edit windows: what was loaded, and the picture's path
    ended,      \* the program has been left
    saved, replaced, carried    \* history: students, see the properties

store == <<use, dir, pics, server>>
gui   == <<list, selected, typing, todo, frame, edits, ended>>
hist  == <<saved, replaced, carried>>
vars  == <<store, gui, hist>>

\* Paths of pictures: the student's own file, or one beside a form.
Own(s)    == <<"own", s>>
Beside(n) == <<"beside", n>>
Paths == {Own(s) : s \in Students} \cup {Beside(n) : n \in Files}

\* What the header of a file tells, for a row of the list.
Row(f) == [who |-> f.who, header |-> f.header, sent |-> f.sent]

\* editor_load_data: one row for each form file.
Rows(d) == [n \in Files |-> IF d[n] = None THEN None ELSE Row(d[n])]

\* refresh_editor_list: the list anew, and nothing is selected.
Refreshed(d) == list' = Rows(d) /\ selected' = None

Init ==
    /\ use \in Uses
    /\ dir = [n \in Files |-> None] /\ pics = [n \in Files |-> None]
    /\ server = [n \in Files |-> None]
    /\ list = Rows(dir) /\ selected = None
    /\ typing \in Students /\ todo = Students \ {typing} /\ frame = None
    /\ edits = [i \in Windows |-> None] /\ ended = FALSE
    /\ saved = {} /\ replaced = {} /\ carried = {}

-----------------------------------------------------------------------------
(* Saving *)

\* Whose picture a path leads to, or None.
PictureAt(path) == IF path[1] = "own" THEN path[2] ELSE pics[path[2]]

\* Mutant of CopyPhoto: a picture that is there is not written over.
CopyPhoto_KeepOld(path, n) ==
    pics' = IF path = None \/ pics[n] # None \/ PictureAt(path) = None THEN pics
            ELSE [pics EXCEPT ![n] = PictureAt(path)]

\* copy_photo: nothing happens without a path, or if the picture is in place.
CopyPhoto(path, n) ==
    pics' = IF path = None \/ path = Beside(n) \/ PictureAt(path) = None THEN pics
            ELSE [pics EXCEPT ![n] = PictureAt(path)]

\* Mutant of Write: the sent flag of the file that is replaced is kept.
Write_KeepFlag(s, h, edit, path) ==
    LET n == FileName(h)
    IN /\ dir' = [dir EXCEPT ![n] =
                    [who |-> s, header |-> h, edit |-> edit,
                     sent |-> dir[n] # None /\ dir[n].sent, photo |-> path # None]]
       /\ CopyPhoto(path, n)
       /\ saved' = saved \cup {s}
       /\ replaced' = (replaced \ {s}) \cup
             (IF dir[n] # None /\ dir[n].header = h THEN {dir[n].who} \ {s} ELSE {})
       /\ UNCHANGED <<use, server>>

\* The end of verify_form: the file of that name is written, whosever it was.
Write(s, h, edit, path) ==
    LET n == FileName(h)
    IN /\ dir' = [dir EXCEPT ![n] =
                    [who |-> s, header |-> h, edit |-> edit, sent |-> FALSE,
                     photo |-> path # None]]
       /\ CopyPhoto(path, n)
       /\ saved' = saved \cup {s}
       /\ replaced' = (replaced \ {s}) \cup
             (IF dir[n] # None /\ dir[n].header = h THEN {dir[n].who} \ {s} ELSE {})
       /\ UNCHANGED <<use, server>>

\* add_photo in the form window.
AddPhoto ==
    /\ ~ended /\ use.photos /\ typing \in use.pictured
    /\ frame' = Own(typing) /\ carried' = carried \ {typing}
    /\ UNCHANGED <<store, list, selected, typing, todo, edits, ended, saved,
                   replaced>>

\* Those whose picture is lent to an edit window from the name s saves under.
Lent(n, s) ==
    {edits[i].who : i \in {j \in Windows : edits[j] # None /\ edits[j].path = Beside(n)}}
        \ {s}

\* The next form is typed; the frame is emptied, not what is attached to it.
NextForm(n) ==
    /\ IF todo = {} THEN typing' = None ELSE typing' \in todo
    /\ todo' = todo \ {typing'}
    /\ carried' = carried \cup Lent(n, typing) \cup
                     (IF frame = None THEN {} ELSE {typing'} \ {None})

\* on_button3_clicked, with a form that verify_form accepts.
Save(h) ==
    /\ ~ended /\ typing # None
    /\ Write(typing, h, 0, frame)
    /\ Refreshed(dir') /\ NextForm(FileName(h))
    /\ UNCHANGED <<frame, edits, ended>>

\* on_savexit_clicked: the program ends, the list is left as it is.
SaveAndExit(h) ==
    /\ ~ended /\ typing # None
    /\ Write(typing, h, 0, frame)
    /\ ended' = TRUE
    /\ UNCHANGED <<list, selected, typing, todo, frame, edits, carried>>

-----------------------------------------------------------------------------
(* The editor *)

\* editor_tree_selection_changed_cb
Select(n) ==
    /\ ~ended /\ list[n] # None /\ n # selected
    /\ selected' = n
    /\ UNCHANGED <<store, hist, list, typing, todo, frame, edits, ended>>

\* The file of the selected row, named anew from the row's columns.
SelectedFile == FileName(list[selected].header)

\* Mutant of Edit: an empty PHOTO line is attached like a path.
Edit_EmptyPath(i) ==
    /\ ~ended /\ selected # None /\ edits[i] = None
    /\ LET f == dir[SelectedFile]
       IN edits' = [edits EXCEPT ![i] =
             [who |-> f.who, header |-> f.header, edit |-> f.edit,
              path |-> IF f.photo THEN Beside(SelectedFile) ELSE <<>>]]
    /\ UNCHANGED <<store, hist, list, selected, typing, todo, frame, ended>>

\* editor_edit_clicked: the file is read into a window of its own, which does
\* not remember the file.
Edit(i) ==
    /\ ~ended /\ selected # None /\ edits[i] = None
    /\ LET f == dir[SelectedFile]
       IN edits' = [edits EXCEPT ![i] =
             [who |-> f.who, header |-> f.header, edit |-> f.edit,
              path |-> IF f.photo THEN Beside(SelectedFile) ELSE None]]
    /\ UNCHANGED <<store, hist, list, selected, typing, todo, frame, ended>>

\* add_photo in an edit window, whose button is never switched off.
EditPhoto(i) ==
    /\ ~ended /\ edits[i] # None /\ edits[i].who \in use.pictured
    /\ edits' = [edits EXCEPT ![i].path = Own(edits[i].who)]
    /\ UNCHANGED <<store, hist, list, selected, typing, todo, frame, ended>>

\* Mutant of SaveEdit: the list is not read again.
SaveEdit_NoRefresh(i, h) ==
    /\ ~ended /\ edits[i] # None /\ edits[i].edit < MaxEdits
    /\ Write(edits[i].who, h, edits[i].edit + 1, edits[i].path)
    /\ edits' = [edits EXCEPT ![i] = None]
    /\ carried' = carried \cup Lent(FileName(h), edits[i].who)
    /\ UNCHANGED <<list, selected, typing, todo, frame, ended>>

\* editor_info_save_clicked: under the name of what the window says now.
SaveEdit(i, h) ==
    /\ ~ended /\ edits[i] # None /\ edits[i].edit < MaxEdits
    /\ Write(edits[i].who, h, edits[i].edit + 1, edits[i].path)
    /\ Refreshed(dir')
    /\ edits' = [edits EXCEPT ![i] = None]
    /\ carried' = carried \cup Lent(FileName(h), edits[i].who)
    /\ UNCHANGED <<typing, todo, frame, ended>>

\* on_window3_delete_event
CloseEdit(i) ==
    /\ ~ended /\ edits[i] # None
    /\ edits' = [edits EXCEPT ![i] = None]
    /\ UNCHANGED <<store, hist, list, selected, typing, todo, frame, ended>>

\* apply_form answered with 500: what was read is what is marked, as no event
\* is handled in between.  How a transfer gets there is the subject of Transfer.
Send(n) ==
    /\ ~ended /\ use.online /\ dir[n] # None /\ ~dir[n].sent
    /\ server' = [server EXCEPT ![n] = [dir[n] EXCEPT !.sent = TRUE]]
    /\ dir' = [dir EXCEPT ![n].sent = TRUE]
    /\ Refreshed(dir')
    /\ UNCHANGED <<use, pics, hist, typing, todo, frame, edits, ended>>

\* on_button2_clicked of the form window, on_okbutton1_clicked of a dialog.
Exit ==
    /\ ~ended /\ ended' = TRUE
    /\ UNCHANGED <<store, hist, list, selected, typing, todo, frame, edits>>

Next ==
    \/ \E h \in use.headers : Save(h) \/ SaveAndExit(h)
    \/ \E h \in use.headers : \E i \in use.windows : SaveEdit(i, h)
    \/ \E i \in use.windows : Edit(i) \/ EditPhoto(i) \/ CloseEdit(i)
    \/ \E n \in Files : Select(n) \/ Send(n)
    \/ AddPhoto \/ Exit

Spec == Init /\ [][Next]_vars

-----------------------------------------------------------------------------
(* Properties *)

\* Types of the variables.
TypeOK ==
    /\ use \in Uses
    /\ dir \in [Files -> Forms \cup {None}]
    /\ server \in [Files -> Forms \cup {None}]
    /\ pics \in [Files -> Students \cup {None}]
    /\ list \in [Files -> [who : Students, header : Headers, sent : BOOLEAN] \cup {None}]
    /\ selected \in Files \cup {None}
    /\ typing \in Students \cup {None} /\ todo \subseteq Students
    /\ frame \in {Own(s) : s \in Students} \cup {None}
    /\ edits \in [Windows -> {None} \cup
           [who : Students, header : Headers, edit : 0..MaxEdits, path : Paths \cup {None}]]
    /\ ended \in BOOLEAN
    /\ saved \subseteq Students /\ replaced \subseteq Students
    /\ carried \subseteq Students

\* The manual: "If the form is successfully saved, you can see an entry of this
\* form in the 'Information Editor' window".  As long as the program runs the
\* list shows the files there are, with the flags they have, whichever window
\* saved or sent them.
ListIsDirectory == ended \/ list = Rows(dir)

\* The row that is edited is found again by its columns: the name
\* that construct_filename makes of them is the file the row was read from.
RowNamesFile == \A n \in Files : list[n] # None => FileName(list[n].header) = n

\* The list shows the directory, and a row leads back to its own file.
ListIsTrue == ListIsDirectory /\ RowNamesFile

\* A form that was saved is there, unless the operator saved another student's
\* form that agrees with it in gender, roll, section, TOT list and group: names
\* do not run together otherwise, in any order of saves from the form window and
\* from edit windows that are open at the same time.
SavedIsFound ==
    \A s \in saved \ replaced :
        \E n \in Files : dir[n] # None /\ dir[n].who = s

\* A form marked as sent is the one the server was sent under its name: no save,
\* from whatever window, leaves the mark on a form it changed.
SentIsCurrent == \A n \in Files : dir[n] # None /\ dir[n].sent => server[n] = dir[n]

\* A form with a picture has the picture of its student, unless the form was
\* typed while an earlier student's picture was attached to the frame, or open in
\* the editor while another student's form was saved under its name.
PhotoIsOwnOrCarried ==
    \A n \in Files :
        dir[n] # None /\ dir[n].photo =>
            pics[n] = dir[n].who \/ dir[n].who \in carried
================================================================================
