# Verification of the eSIF client and server

TLA+ models, TLC model checking and TLAPS proofs about the electronic Student
Information Form system: a GTK client in which an institution types its
students' registration forms (`project2/`), a threaded server of the education
board that receives them over TCP and stores them (`server/`), and the tools
around the two. Source paths below are relative to the repository.

## 1. The system

| Part | Code | State | Operations |
|---|---|---|---|
| Command loop, form store | `server/eduserver.c` 517-732, `server/regdb.c` | per thread: txtdir, regkey, stream, regbuf, regbufsize, database handle and its page cache; text files; one Berkeley DB file per institution and year | BINARY, FILENAME, a form line, ".", QUIT, end of file, receive timeout, SIGTERM |
| Login dialogue | `server/eduserver.c` 274-515 | thread's copy of the institution's record | magic, USER, PASS, refusals 301-305 |
| Password database | `server/password.c`, `eduserver.c` 736-778 | one handle shared by all threads, its page cache | lookup, reload on SIGHUP |
| Password tools | `server/inspass.c`, `delpass.c`, `dispass.c`, `enapass.c`, `getpass.c`, `showpassdb.c` | a private handle on the same file | insert, delete, disable, enable, show |
| Line and block I/O | `server/support.c`, client copies in `project2/src/myfuncs.c` | a read buffer per thread (server), one static buffer (client) | readline, readn, writen |
| Images | `eduserver.c` 824-870, `myfuncs.c` 4545-4638 | image file | BINARY, raw bytes, 500/300/310 |
| Control script | `server/rc.eduserver` | pid file, listening port | start, stop, restart, reload |
| New-data watcher | `server/sync-data.sh`, `test-client/listen.c` | file times of two polls | poll, notify, listen |
| Form transfer | `myfuncs.c` 1000-1569, 2717-2997 | socket, password, cancel flag, the `sent` flag in each form file | Send, Cancel, connect, authenticate, send forms, mark as sent |
| Address of the server | `myfuncs.c` 1083-1215, 2409-2500 | lookup_ok, webaddr, website.txt | lookup, connect, password window |
| Verification, form files | `myfuncs.c` 152-960, 1577-2185, 4376-4420; `callbacks.c`; `editor.c` | the form's widgets, the form file, pictures | type, verify, save, name the file, load again |
| Start windows | `callbacks.c` 60-200, `myfuncs.c` 3168-3560 | kind of form, session, institution | choose, type, look up, OK |
| Subject rules | `myfuncs.c` 1605-2082 | hash tables of codes and pairs | check codes by group |
| Editor and options | `project2/src/editor.c`, `callbacks.c`, `myfuncs.c` 4114-4371 | list of stored forms, ignore flags | load, edit, send, toggle |

How they interact: the client sends lines over one TCP connection; a server
thread answers with three-digit codes. A form's lines have no length or
checksum: a line `.` ends it, and only then is it answered with `500`. The
client sets a form's `sent` flag on that answer and never sends it again, so
the answer is a promise. The server keeps each form twice, as a text file and
as a record in the institution's database. Threads share the process (stdio
streams flushed at `exit`, the heap, the password handle) but not the
registration databases: every session opens its institution's file anew, with
a page cache of its own and no Berkeley DB environment, hence no locking.

What is hard about it:

* two sessions of one institution (two PCs, or a client that reconnects before
  its old session times out) on one database file and one text file;
* the server dying, or being stopped by `rc.eduserver`, with answered records
  still in the caches of open sessions;
* clients that vanish inside a form; forms longer than `regbuf`;
* results the code does not look at (`DB->put`, `fclose`, `setsockopt`);
* the client's event pump: a user who cancels, edits or sends again while a
  transfer is under way re-enters the transfer code;
* a password file edited by tools while the server reads it through a cache.

What makes each part correct:

* Form store: a record is a form its institution handed over whole; an
  answered form stays until a newer one is put and is on record when its session
  has ended; a session ends with its client.
* Login: a verdict rests on the client's own record; a reload shows what the
  tools stored.
* Password tools: a reported edit stays; flags change only on records that
  exist.
* Line and block I/O: however the stream is cut, bytes come once and in order,
  lines are those of `fgets`, and a raw part is read where it begins.
* Images: an image that is called transferred is whole at the server; whatever
  becomes of it, the next command is the next line the client sent as one.
* Control script: after `restart` a server runs, and the pid file names it; a
  reload is a reload.
* Watcher: only news is reported, and what is found changed comes to be shown.
* Address of the server: what is used without a lookup has worked or is what
  the file says; a server that is where the file says can be reached again.
* Transfer: a form marked as sent is the record of its name at the server; no
  line of one transfer gets into another; a transfer ends, or is one that can
  be ended at the terminal.
* Start windows: OK is there when session and institution are; forms belong to
  the institution whose name was shown.
* Options: what the user sees, the flags, what can be typed and what is
  demanded agree.
* Entries: what the editor loads is what was saved; what hangs on another
  entry follows it.
* Subject rules: a set of codes is accepted if and only if the rules allow it.
* Form files: the list shows the files there are; names do not run together; a
  form marked as sent is what was sent; a picture is its student's.

## 2. Modules

| Module | Models | Properties |
|---|---|---|
| `FormStore` | command loop, stream, regbuf, handle cache, exit and restart | `TypeOK`, `RecordIsWhole`, `AnsweredIsKept`, `AnsweredText`, `GoneIsReleased`, `ImplementsRegistry` |
| `Registry` | abstract: sessions, forms handed over, answers, and the records that have to be there for them | refined by `FormStore` |
| `PassFile` | the password file and the programs that edit it | `EditIsKept` |
| `Login` | composes `PassFile` with the server: dialogue, shared handle, signals, clock | `TypeOK`, `VerdictRests`, `ReloadedIsCurrent`; violated: `LookupIsOwn` |
| `LineIO` | `writen`, `readn`, `readline` over one connection | `ReadAsWritten`, `NothingHangs` |
| `ImageTransfer` | `send_photo` against `accept_binary` | `PhotosAreWhole`, `FormsGoOn`, `NothingHangs`; violated: `PhotosArrive` |
| `Transfer` | `apply_forms` with the event loop, composed with the server's threads | `TypeOK`, `SentIsStored`, `RecordIsOneForm`, `AnswerIsOurs`, `NothingLeaks`, `TransferEnds`, `ImplementsSubmission`; violated: `SentMeansStored` |
| `Submission` | abstract: forms saved, arrived, confirmed | refined by `Transfer` |
| `Connection` | lookup, previous address, password window, moving server | `AddressIsKnown`, `ServerIsFound` |
| `RcServer` | `rc.eduserver` and the processes it starts | `ScriptIsObeyed`, `NothingHangs`; violated: `RestartServes` |
| `SyncWatch` | `sync-data.sh` and the listener | `NotesAreRight` |
| `StartQuery` | introduction and query windows | `QueryIsAnswered` |
| `Options` | radio buttons, options window, what `verify_form` demands | `ChoicesAgree`, `SavedIsComplete` |
| `Subjects` | `verify_subject_codes_by_group`, `paircheck` | `AcceptedIsSound`, `RefusedForReason` |
| `FormFields` | entries and their handlers, `verify_form`, `load_student_info` | `TypeOK`, `DependentsFollow`, `SavedIsKept` |
| `FormFiles` | file names, directory, list, edit windows, pictures, sent mark | `TypeOK`, `ListIsTrue`, `SentIsCurrent`, `SavedIsFound`, `PhotoIsOwnOrCarried` |
| `MCFormStore`, `MCLogin`, `MCTransfer`, `MCImageTransfer`, `MCFormFields`, `MCFormFiles` | instances for TLC | |
| `MCNetwork` | `LineIO`, `Connection`, `ImageTransfer`, `RcServer`, `SyncWatch` in one run | `NetworkTypeOK` and those above |
| `MCClient` | `StartQuery`, `Options`, `Subjects` in one run | `ClientTypeOK` and those above |
| `FormStore_proofs`, `Login_proofs` (with the tools'), `Transfer_proofs`, `FormFields_proofs`, `FormFiles_proofs`, `ImageTransfer_proofs`, `Network_proofs` (with `LineIO`'s), `Client_proofs` | proofs | theorems |

`MCNetwork` and `MCClient` are sums, not products: their parts share no state,
so `moving`, chosen with the initial state and never changed, says which of
them moves, and the states of the run are those of the parts, one after
another. A property of a part is checked as it stands in the part's module,
which instantiates it over the variables of the sum; liveness is asked only of
the part that moves, under the fairness of its own specification.

The parts that do share state are composed for real: `Login` with `PassFile`
(one file, tools and server), `Transfer` with the server's threads (two byte
streams, the database), `ImageTransfer`, `SyncWatch` and `RcServer` with both
sides of theirs.

### FormStore

One thread per connection, with `pc[t]`: `idle` (no client, or one that has
not proved who it is), `cmd` (readline of the outer loop), `body` (readline of
a form line), `put` (between `fclose` and `reg_insertdb`), `ack` (between
`reg_insertdb` and the answer), `free` (at `free_resource`). An action is what
a thread does between two points where another thread, the client or a signal
can come in between; the whole branch of the code, its calls included, is one
action.

| Code | Model |
|---|---|
| `txtdir`, `regdbp` of a session | `college[t]`: a year and an institution |
| `regkey`, the file name without `.txt` | `key[t]` |
| `stfile`'s buffer | `stream[t]`, put over the file from offset 0 by `Overlay` |
| `regbuf`, `regbufsize` | `regbuf[t]` as lines, `regbufsize[t]` in bytes |
| `regdbp`'s page cache | `cache[t]`, `loaded[t]`, `dirty[t]` |
| files below `TXTROOT3`, `BDBROOT3` | `text`, `disk` |
| `errno == EWOULDBLOCK` left behind by an earlier send | `stale[t]` |

The database is taken as Berkeley DB works for a handle without an environment
and without `DB_THREAD`: pages are read when first needed and written when the
cache is full or the handle is closed, a page at a time, so that writing one
record may write back others as they were read (`WritePages`). `DB->put` with
flags 0 replaces. Streams of a dying process are flushed by `exit` in any order
(`FlushOpen`, `FlushLeaked`) but not by SIGKILL.

A thread whose client has hung up or fallen silent (`gone`) sees nothing but an
end of file or a timeout from then on; at `free_resource` neither that nor
`errno` matters any more (`GotoFree`). Once a line has run past the end of
`regbuf` (`heapbad`), the process may be ended by the C library at any step.

History variables (`got`, `complete`, `promised`, `settled`, `mishap`) say what
clients sent and were told; no action's guard reads them, except that
`Len(got[t])` is the length of the form so far for the bound `MaxBody`.

Left out: the lines' text (a line is a model value with a size); an admission
whose database cannot be opened (the thread ends with nothing changed); the
moment of `exit` in which other threads still run. Image bytes inside BINARY
are another module's subject.

`AnsweredIsKept` is the server's promise: once a form is answered, its record
is the one sent until a newer one is put, whatever aborted transfers, full
disks and vanished clients come after. The code breaks it in three ways, and
the property names them, so that TLC and the proof show there is no fourth:
sessions of one institution that overlap, a `DB->put` that fails, and the end
of the process before the session's handle is closed. What is lost in these
ways is what the code does; the properties only show that nothing else is.
`AnsweredText` says the
same of the text file, which dies in other ways: `exit` does flush streams,
`fclose` can fail unseen, and a form longer than `regbuf` leaves a stream open
that is flushed over newer text later.

`Registry` says what an institution gets for its answers, without threads,
caches or pages. Its state is what has been handed over, answered and put on
record, whether a session goes on (`busy`), and what has gone wrong
(`trouble`: sessions that overlapped, a put that failed, a server stopped inside
a session). `Leave` is its promise: when the last session of an institution
ends without trouble, every form answered is on record. `MayBecome` says
that before that a record is never lost and changes only into a form handed
over, the answered one if there is one; only sessions that overlapped may take
a record away or bring an older one back. `FormStore` implements it through
`InSession` and `Trouble`.

### PassFile

A tool is a process with a handle, hence a page cache, of its own; one of its
actions is an iteration of the loop in `main`, which the person at the terminal
may let wait as long as she likes. `ReadPages` reads the page of a college and
with it any others (`\E S`); `WritePages` writes pages whole, what was changed
on them and what was only read: this is how one tool undoes another's edit of
another college.

| Code | Model |
|---|---|
| `pass.db` | `file`: a record or none per college |
| `struct password` | `Record`: digest, `disabled`, start and end |
| the handle's page cache, pages to write | `sees[p]`, `unsaved[p]` |
| `pwd` in `main` of `dispass.c`, `enapass.c` | `pwd[p]`, which outlives the iteration |
| `pass_insertdb(..., 1)`, `pass_deletedb` | `Stored` |
| `pass_getdb` with its test `< 0` | `Toggle` (found or not), `ToggleBlind` (an error number) |
| `pass_initdb`, `pass_exitdb` | `Open`, `Close` |

`EditIsKept` is what the "key stored" of a tool is worth: until the next edit
of the college every tool sees that record, and the file holds it as soon as no
tool has it to write. The history `wanted` holds the promise; it becomes
`Unsure` where the code keeps none, for a tool that ran beside another
(`shared`) and for one that was interrupted, and nowhere else.

Left out: a `DB->put` or `DB->del` that fails, since the tools report it and
change nothing; `getpass` and `showpassdb`, which only read.

### Login

One thread per connection; `pc[t]` names the call it is about to make:
`magic`, `user` (`lookup_user`), `copy` (between `DB->get` and `memcpy` in
`pass_getdb`), `judge` (the checks of `eduserver.c` 420-449), `pass`, and `in`, where
`FormStore` goes on.

| Code | Model |
|---|---|
| `passdbp` | `handle`: open, closed but still set, NULL; none while no server runs |
| its page cache | `view` |
| the memory `DB->get` returns a record in | `retbuf`, one for all threads (no `DB_THREAD`, no `DB_DBT_MALLOC`) |
| `passbuf` of `manage_client` | `passbuf[t]`, zeroed for each connection |
| `reload_passdb`, `handle_signal` | `ReloadCloses`, `ReloadOpens`; `TermCloses`, `TermClears`, `Exit` |
| use of a closed handle | `GetClosed`, `Copy` with any record, `Crash` |
| `time(NULL)` | `now` |

History variables say what was true when it mattered: `held` (the records the
file has had since the handle was opened), `basis` (`held` of the client's
college at the time of the lookup), `judged`, `sent`, `verdict`, and `spoilt`
(what came between a thread's lookup and its copy).

`VerdictRests` says that every answer, refusals included, is right by a record
that the file held for this client's college between the last opening of the
handle and the lookup. Four things make a thread go by something else, and the
property names them: another thread's lookup or a reload between `DB->get` and
`memcpy`, a `DB->get` that fails with an error number, and the end of the
process. `ReloadedIsCurrent` ties the server to the tools: as long as the file
has not changed since the handle was opened, what the server has cached of a
college is the last edit a tool has promised.

A thread that starts anew or is dropped has the buffers and the history of a
new one (`Fresh`).

Left out: a second signal while a handler runs; inner pages of the database
that no longer fit together because the file changes under the reader; the
digest of the magic and of passwords (compared as values).

### LineIO

| Code | Model |
|---|---|
| bytes on their way | `text`, of which `sent` are written and `taken` read |
| `nleft` of `writen` | `wleft` |
| `rl_cnt`, `rl_bufptr`, `rl_buf` | the same |
| `ptr`, the caller's buffer | `ptr`; `start` counts what earlier calls got |
| the result | `ret` |

A `read` gives any part of what is there, a `write` takes any part of what is
left; a connection may be closed after any byte and reset at any point. An
exchange alternates raw parts and lines as the protocol does. The model keeps
`n` as the code computes it, one more than the bytes stored for a line that
fills the buffer or ends without a newline (`Count`, `server/support.c` 139).
`ReadAsWritten` needs `Answered`, that a part is answered before the next is
written: without it `readline` reads ahead what `readn` does not find. Left
out: EINTR, which repeats the call; a `read` that fails for another reason than
a reset.

### Connection

| Code | Model |
|---|---|
| `website.txt` | `given`, an address or none beside the host's name |
| `lookup_ok`, `webaddr`, `pass` | the same |
| the address of `connect` | `target` |
| `ask_pass`, which wipes and reads `website` and `webaddr` | `ask_pass`, `ReadWebsite` |
| `init_connection` | `Lookup`, `LookupFails`, `UsePrevious` |

The world is a name server that comes and goes (`dns`), and a server that
moves (`home`).

### Transfer, Submission

The client has one thread. A frame of `stack` is one activation of
`apply_forms`; where the code runs `while (gtk_events_pending())
gtk_main_iteration()` (`Pumping`), any action of the operator may come, among
them another Send, which pushes a frame over the same globals.

| Code | Model |
|---|---|
| form files and their `sent` line | `file[f]`: version, `sent` |
| `sockfd`; what descriptor 0 is | `sockfd`; `fd0` |
| `pass`, `submit_cancelled` | `pass`, `cancelled` |
| the password and the transfer window | `asking`, `window` |
| `read_buf` of `my_read`, static | `inbuf`, lines read and not returned |
| a connection and the server's thread | `conn[c]`: `srv`, `link`, `open`, `c2s`, `s2c`, `name`, `body` |
| the server's database | `db[f]`, a sequence of lines |

A connection breaks with both ends told (`Cut`), goes dead without a word
(`Silence`), or ends with the client (`Crash`). `SentIsStored` excepts two
mishaps, which `mishap` records where they happen: a form's file that cannot be
opened after its FILENAME (`open`), and a form of an abandoned session that the
server stores late (`late`). A third exception is the history variable `shut`:
a transfer inside another one leaves `sockfd` 0; when the outer one's login
fails on that, it closes descriptor 0, the next socket gets that number, and
from then on sessions stay open, their lines and answers can come to a transfer
that has not made them, and with four connections and more one form's lines
reach another's record. TLC found each of the properties violated there; up to
that close they hold, which section 4 proves. `strange` notes that a
transfer took for its answer a line of a connection that is not its `own`.

A transfer that fails to open the directory takes its window away and says QUIT
(`OpenDirFails`); a file that cannot be opened to look at its header is passed
over (`SkipFile`), and one that cannot be opened to be sent is the mishap `open`.

With `sockfd` 0 and descriptor 0 still standard input, `readline` reads what the
program was started from. From a file or a pipe that is an end of file; on a
terminal it waits until somebody types a line (`AtTerminal`), which is no answer
of the protocol and makes the transfer fail like an end of file (`ReadFails`).
Nobody is obliged to type anything: the fairness of the client's thread
(`Proceed`) is without the steps it takes there. So `TransferEnds` promises only
that a transfer ends *or* is one that had another inside of it and waits at the
terminal. Without the second disjunct TLC finds the outer of two transfers
waiting for ever.

`Submission` has no connection: forms are saved, arrive and are confirmed; a
confirmed form is not touched until it is saved again. Its `loose` forms are
those whose record may be anything after a mishap, and `Transfer` implements it
whatever breaks, with `loose` the forms that have a mishap, or all once `shut`.
Left out: what `apply_forms` shows on its window, and photos, which
`ImageTransfer` has.

### ImageTransfer

A session sends its forms in turn, a form's lines being one item, and after the
answer its photo. `nleft` is a `size_t` and counts modulo `Width`; `i` is the
size that `accept_binary` asks `read` for, which is set only while more than
the buffer is left. Faults: a missing photo, an image file that cannot be
created, a full disk (what was read is gone, and a part of it may be in the
file), a photo that grows after its size was announced, a timeout, a lost
connection. After a timeout an image is still answered with 300, but `errno`
stays `EWOULDBLOCK`, so that the command loop takes it for a timeout of the
next line and ends the session.

### RcServer

`proc[p]` follows a server through `bind`, the installing of its handlers and
`pass_initdb`; a signal before the handlers ends it by default. The script
knows only `pidfile` and `lock`. `obedient` operators call `start` only after
`stop`, as the manual asks; others do anything. Left out: `status` and unknown
options, which change nothing, and the log.

### SyncWatch

A file's time is in seconds; what matters of it is whether it is this second's
(`now`) and whether it differs from the noted one (`differs`). The listener
reads one connection at a time, from a queue of `Backlog`; peers may connect
and say nothing, and the listener may stop and come back. Left out: the
script's exit on a signal; `dataview`, which does nothing.

### StartQuery, Options, Subjects

`StartQuery` has the two windows before the forms. A session is a sequence of
digits, hyphens and others; characters are typed and erased anywhere. The
handlers complete the session at four characters, cut it at the first other
character and show or hide the OK button.

`Options` has the introduction's radio buttons with their two `toggled`
signals, the options window with its boxes, its Close button and its title bar
(whose `delete_event` returns what happens to be in a register, hence
`options' \in {"hidden", "destroyed"}`), what `q_okbutton_clicked` switches
off, and the order and jumps of `verify_form`'s checks. An accepted form whose
file cannot be opened is not saved and stays in the window (`SaveFails`). A box whose handler
does not act is left out of `BoxesAgree`; the one of the date of birth is listed in
section 3.

`Subjects` translates `verify_subject_codes_by_group` with its order of checks
and early returns, `paircheck` with `found` and `matched`, and the table of
pairs, built at the first check and kept. `Sound` and `Counted` state the rules
apart from that code, from the messages and from what the head of the file of
pairs says of its lines. `PairLineOk` is the shape of the lines in the three
`pair.txt` of the repository; of a line with two 2s, or one 2 and a single code,
code and rules say different things.

### FormFields

A window is a record of the texts of its entries, the lengths that change, the
subject entries that are closed and the focus. `SetText` is
`gtk_entry_set_text` with the handler that it sets off; typing and
`load_student_info` go through the same operators, the latter in the order of
`LoadOrder`. What the handlers do with characters is given by operators that
the instance defines over a set of texts (`Cut`, `Upper`, `Letters`,
`Digits`...). `signal` says whether setting a text signals the deletion of the
old one, which GTK versions do or do not.

### FormFiles

A form is its student, what the header of its file says (`FileName` makes the
name of it as `construct_filename` does), how often it was edited, whether it
is marked as sent and whether it has a picture.

| Code | Model |
|---|---|
| the institution's directory | `dir` by name, `pics` |
| rows of the list store, the selected one | `list`, `selected` |
| the path attached to the frame as "photo" | `frame` in the form window, `path` of an edit window |
| edit windows | `edits`; they are not modal and do not know their file |
| what the server was sent | `server` |

The editor window has the buttons Edit, Send, Entry Form and Preferences, of
which the last two change nothing here. `editor_delete_clicked`, whose button is
commented out (`editor.c` 228-236), `editor_clear_clicked` and
`editor_close_clicked`, which are connected nowhere, are no events of the
program and have no actions; the program is left by the form window's buttons
and by the dialog that asks whether to leave. So the list has no excuse: as long
as the program runs it is the directory (`ListIsDirectory`).

`carried` marks the students whose form got another's picture in one of the
two ways the code has for it; `replaced`, those whose form another student's
has overwritten under the same name. `FilesAssumption` takes gender, section
and group from the lists of the form window, whose entries cannot be typed in
(`interface.c` 540-556, 1365-1381, 1579-1588): that is why names do not run
together, although a name has no separator and "Home Economics" no letter of
its own.

## 3. Runs

| Run | Instance | Question |
|---|---|---|
| `store` | 2 threads, 1 institution and name, 2 forms of up to 3 lines of 2 bytes, `regbuf` of 3 bytes; failing put, full disk, early page writes, SIGTERM, SIGKILL; fair | do overlapping sessions, overruns, faults and exits break more than they must? is every answered form on record when its session has ended (`Registry`)? is a session released? |
| `login` | 2 threads, 2 tools, 2 colleges, 2 edits, clock to 3; SIGHUP, SIGTERM, interrupts, failing reads, full caches; two clients, or a client and a tool, or two tools at a time | are verdicts about each client's own college, reloads and edits right while all this goes on? |
| `transfer` | 2 forms; a scene with nested transfers, saves and cancels, 3 connections; one with cuts, refused passwords and timeouts, 2 connections; fair | is an answer ours? does a transfer end, or wait at the terminal only where a nested one left it there? |
| `transfer_faults` | 2 forms, 2 connections; a scene with every fault and cancels, one with saves while connections break, one with failing transfers inside each other | is a form marked as sent at the server? is a record one form? is `Submission` implemented whatever breaks? |
| `network` | the five parts: 4 parts of 11 bytes with lines to 2, 2 addresses and a move, 2 photos of 0, 2 and 3 units with a buffer of 2, 2 server processes and a change of the file, 2 files with 2 changes; fair | the properties of the five |
| `client` | the three parts: sessions of up to 9 characters and 3 codes, 4 fields that may be missing and all boxes, 6 entries over two sets of 6 codes | the properties of the three |
| `fields` | two sets of 5 entries with 1 to 3 inputs each; both kinds of GTK | is what is loaded what was saved? |
| `files` | 2 students; 2 forms and 2 edit windows with sending, 2 forms with pictures, 3 forms of one roll; 2 edits of a form | do list, names, marks and pictures hold? |
| `login_lookup` (violated) | 2 threads, 2 colleges | does a lookup give the record of its own key? |
| `transfer_misfile` (violated) | 2 forms, a file that cannot be opened | is a form marked as sent at the server? |
| `image_small` (violated) | 2 photos, no fault | do photos of all sizes arrive? |
| `rc_restart` (violated) | 2 processes | does a restart leave a server? |

Bounds. In `store`, `MaxForms` = 2 is the least with which one form can spoil
another: an answered one and a later, aborted or overlapping one. `MaxBody` = 3
lines of 2 bytes with `MaxInfo` = 3 take `regbufsize` from 0 to 2 and to 4: the
first line fits, the second runs one byte past `regbuf` (so that forms are
answered, stored and killed with the heap damaged) and the third finds it full.
A line that fills `regbuf` exactly is a special case of one that does not run
past it. Two threads are enough for an overlap; that other institutions and
names are left alone is what the proofs cover.

In `login` the full product of two clients, two tools and two colleges is out of
reach, and most of it is repetition: a tool meets the server only through the
file, and a tool's steps do not depend on clients or on the clock. The
constraint `Regimes` keeps three parts of it. `ClientsAlone` is two clients of
the same college or of two, at every time, with the file as it was at the start
(every record, or none), and with every signal, eviction and failing read: here
one thread's lookup comes between the other's `DB->get` and `memcpy`, and an
answer meant for another college would show. `ClientAndTool` is one client, of
either college, while one tool edits one of them and may be interrupted, and
while the handle is reloaded (the server is stopped and started in the first
part only). `ToolsAlone` is two tools and two edits of either college,
overlapping or not, with a server that has read nothing. Two edits are one
before and one after another, or one of each tool; with the one window `[2, 2]`
and the clock from 1 to 3 a client comes before it, in it and after it. A
refused client is forgotten at once, since what follows is what follows a
dropped connection. What the parts leave out, two clients and tools at a time,
is covered by the proofs, which know no such limit. Threads and tools are
symmetric, and no liveness property is checked under symmetry.

`MaxDepth` = 2 activations of `apply_forms` and 3 connections are one transfer
inside another and one after it: what a nesting leaves behind (`sockfd` 0,
descriptor 0 closed) shows only in the next, which `transfer` has. In
`transfer_faults` 2 connections are a session that breaks and the one after it,
or a nesting; that more of either make no difference to its properties is what
the proofs show. Forms are saved again only in the scenes where that can
matter, between two connections of which the first broke, and inside a nesting.
Two versions of a form are an edit between being sent and being answered.

In `network`, a buffer of 3 bytes and texts with newlines at every place of the
first lines give lines that fit, fill and overrun it; photos of 0, 2 and 3
units are empty, at and above a buffer of 2. Two
processes are a server and its successor; two changes of a file are one that is
noted and one that is not. In `client`, nine characters are all the session's
entry takes; six entries with three or one demanded play the part of 17 with
twelve and ten, and keep a lone code, a special one, a triple and a pair. In
`files` two students and two windows are the least for one form open twice,
replaced or renamed.

`CHECK_DEADLOCK FALSE` is set where the system may stop: `transfer*` (no connection is left), `network`, `client` (the
program has ended or all is sent), `files` (the program was left).

Fairness. In `store` a thread that can run runs, and a `read` by a thread whose
client is gone ends, since the kernel reports the end of file or, after
`SO_RCVTIMEO` (60 s, set at `eduserver.c` 325-341), `EWOULDBLOCK`. In
`transfer` the client's thread goes on when it can, except where it reads the
terminal, and so do the server's, whose receive timeout is an action of its own;
nothing is assumed of the operator, who need not type a line either. In `network` both ends of a connection go on when they can, signals
are delivered and processes run (`RcServer`), script and listener run and time
passes (`SyncWatch`); for `Connection` strong fairness says that the operator
goes on trying with the right password and that the network lets him through
again and again, which is the premise of the property and not of the code.
Nothing is assumed of faults, of the end of a peer's silence, or of restarts.

What the violated runs show:

* `login_lookup`: two threads look up two colleges; the second `DB->get`
  replaces the record in the handle's memory before the first `memcpy`
  (`password.c` 106), and the first client is judged, and its password
  compared, by the other's record. `password.h` line 60 promises the data of
  the given key.
* `transfer_misfile`: FILENAME is written before the form's file is opened; if
  it cannot be (`myfuncs.c` 1464), the next form goes under its name, and that
  next form is marked "sent successfully, feedback got" (1532).
* `image_small`: for a photo that fits the buffer `accept_binary` asks `read`
  for 0 bytes (`eduserver.c` 847), takes the 0 for an end of file and answers
  300. `server/doc/format.html` line 10: "Size as much small as possible".
* `rc_restart`: the new process finds the port taken, exits, and its pid is
  written over the old one's (`rc.eduserver` 111), so that no server runs
  afterwards. `server/doc/rc.eduserver.html` line 26: "it just stops the
  running server and then starts it again."

Other places where code and text differ, met while modelling. The models have
them; no run is kept for them, and the properties above except them by name
where they would break.

* `server/eduserver.c` 744, `dispass.c`, `enapass.c` 30: the result of
  `pass_getdb` is tested with `< 0`, and error numbers are positive. A failed
  lookup counts as "found" (735), and a tool stores a record for a college that
  does not "really" exist (`Grounds` and `ToggleBlind` have it).
* `server/eduserver.c` 442: the end of the window (`password.h` 37, "end time
  of sending form") is compared once, when USER is received.
* `project2/src/myfuncs.c` 1106: "use previous successful address" (1104) takes
  what `ask_pass` has just read from `website.txt`, which may be none.
* `myfuncs.c` 1510: without the receive timeout (commented out at 1142-1156) a
  dead connection leaves the client waiting; `user-manual.html` 100 announces a
  message. `TransferEnds` is therefore asked without `silence`.
* `myfuncs.c` 1274: after a nested transfer the outer one closes descriptor 0,
  and the tests `sockfd > 0` (1390, 1413) leave the next session open; lines of
  a later transfer can overwrite a form that is marked as sent (`shut`).
* `callbacks.c` 1582: the box of the date of birth ("Check to ignore",
  `myfuncs.c` 4208) does nothing, since `combo5` is not hooked up
  (`interface.c` 1924).
* `myfuncs.c` 851: "clear photo" leaves the path attached to the frame, and the
  next student's form gets the picture (`carried`).
* `myfuncs.c` 4396: `construct_filename` compares the group with `home_eco`,
  the lists say "Home Economics", which `format.html` 29 numbers 5; the name
  gets `u`.
* `myfuncs.c` 1817, 1718: two special codes without a fourth subject are
  refused although "any number of special subject codes are allowed" (1727),
  and a special code that is the fourth subject is counted twice (1714).
* `myfuncs.c` 3446, 3456: a session need not be "nnnn-nnnn" (3297), and is
  completed after a backspace although 3439 says it is not.
* `server/sync-data.sh` 44: a change between two rounds, or a second one in the
  second of the first `stat`, is never reported (25: "notify client machine
  when new data arrived").

## 4. Proofs

All theorems hold for every number of threads, institutions, names, lines and
sizes under `ConstantsAssumption`, which TLC evaluates in every run.

* `TypeCorrect`: `TypeOK` is inductive. Its numeric part bounds the overrun:
  `regbufsize` stays below `MaxInfo + MaxLine`.
* `RecordsAreWhole`: `RecordIsWhole` is not inductive. `WholeInv` adds that
  `regbuf` is the form received while it is read, that it has been handed over
  once the `.` has come, and that idle threads have empty caches, so that
  serving another institution starts with nothing of the last.
* `ImplementsTheRegistry`: that no record is lost, and that a session that ends
  leaves what it answered on record, needs `WholeInv` and `KeptInv` together,
  and `CleanInv`: without overlap, what a handle has read and need not write is
  what is on disk, and what it has to write, or is about to answer, has been
  handed over. Admissions are `Enter`, "." an `Offer`, `reg_insertdb` a
  `Put`, "500" a `Promise`, an early page a `WriteBack`, the end of a thread a
  `Leave`, of the process a `Stop`, and every other step a stutter
  (`RefineNext`).
* `AnswersAreKept`: `KeptInv` adds that busy threads of one institution mean an
  overlap, that a loaded handle's clean records are those of the disk, and
  that between put and answer the handle holds what is about to be promised.
  The lemmas take the actions one by one; `KeptByMove` covers those that touch
  no handle.
* `TextsAreKept`: `InForm` follows a form from its FILENAME to its "500": nobody
  is promised the text meanwhile, the file is empty while the stream fills, the
  stream is what was received, and once it is closed the file is. `LeaksBlamed`
  says that a stream left open is remembered by `mishap`, so that its flush at
  exit meets only institutions that nothing is claimed of. `TextByThread` shows
  that a thread disturbs only the form it is in; `KeptInv` gives that nobody
  else is in a form of the same institution.

The theorems about `PassFile` and `Login` hold for every number of tools,
threads, colleges, records and times under `PassFileAssumption` and
`LoginAssumption`.

* `ToolTypeCorrect`, `EditsAreKept`: `EditIsKept` needs `KeptInv`, that two
  running tools are both marked `shared`, and that what a shared tool has yet
  to write is `Unsure`. Then a tool that writes a page writes what was wanted
  or what nobody was promised.
* `TogglesOnlyWhatExists`: `ToggledExists` under `"get" \notin Faults`: without
  a failing `DB->get` the tools change only records that exist.
* `TypeCorrect` of `Login`: type correctness beside the tools.
* `VerdictsRest`: `SeenInv` adds to `VerdictRests` that every page in `view`
  shows a record of `held` (`CacheSeen`), and that from `DB->get` on a thread
  whose lookup is not spoilt has a record of its basis at hand, in `retbuf`
  while it is at `copy` and in `passbuf` after it (`GoesBy`).
* `ToolsAreUndisturbed`: `Spec => ToolSpec`: the server never writes the file,
  so that what is proved of the tools alone holds beside it.
* `ReloadsAreCurrent`: follows from `CacheSeen` and, through
  `ToolsAreUndisturbed`, from `EditsAreKept`.

The theorems about `Transfer` hold for any number of forms, versions,
connections and transfers inside each other, and for any scenes, under
`TransferAssumption`.

* `TypeCorrect`: `TypeOK` is inductive. It says of the lines on a connection
  that each is a FILENAME, a text of a form, or a word of the protocol, and of
  a session that it has a name and a body only while it is in a form.
* `SentMeansAtServer`, `RecordsAreForms`, `AnswersAreOurs`, `NothingIsLeft`:
  the inductive invariant is `IInv`, the conjunction of `TypeOK`, `Sound`
  unless `shut`, and `Alone` unless `nested`.
  `SentIsStored` alone is not inductive: a "500" on its way sets the flag. So
  `Sound` ties the connection behind `sockfd` to the frame that made it
  (`Owned`): `Phase` says, for each point a frame can be at, which lines the
  session still has before it (`Talk`) and that a "500" for the form that is
  waited for means its text is stored. The same must be said of every other
  connection, whose transfer is gone but whose lines may still be taken
  (`Shape`): they are of one form (`Regular`), or name only forms that could
  not be opened (`Astray`), and `Dots` says that the end of a form is before a
  session only while that form is not sent. `Line(k, n)` counts lines from the
  form's FILENAME on, so that a line taken moves nothing. `Frames` says that
  all activations but the top one are in an event loop, where nothing is
  waited for except in the login.
  `Alone`, for `NothingLeaks`, says that the only open connection is the one
  behind `sockfd`.
* `Implements`: under `IInv` a `Save` is a `Change`, `ServerStores` an `Arrive`
  or, for a loose form, a `Mishap`, `FormAnswered` a `Confirm`, and every other
  step a `Mishap` that touches no record, or a stutter.

The proof is what showed that the properties need `shut`: `Globals` (descriptor
0 is standard input, and `my_read` keeps no line between two calls) is kept by
every step but the closing of a `sockfd` of 0.

The theorems about `FormFiles` hold for any students, headers that the form
window lets one choose, edit windows, sets of pictures and number of edits under
`FilesAssumption`.

* `TypeCorrect`, `ListsAreTrue`, `MarkedIsSent`, `SavedAreFound`, `PhotosFit`:
  the inductive invariant is `IInv`. `Named` says that a form lies under the
  name its header gives, which `ListIsTrue` needs for every row, and which with
  the injectivity of `FileName` (`NamesDiffer`) makes a save replace only a form
  of the same header. `Chosen` says that the selected row is there, `Typed` that
  whoever is typed or still to be typed has no form and no edit window yet. For the
  pictures, `Fits` says of a path and a student that the path leads to the
  student's picture, or that the student is `carried`. It holds for what is
  attached to the frame (`Framed`), for each edit window (`Lends`) and beside each
  file with a picture (`Held`). A save may put another picture beside a file
  that an edit window has open; `Lent` is who that window belongs to, and
  `LentKept` shows that nobody else's path is affected.

The theorems about `ImageTransfer` hold for any number of forms, sizes of photos,
of the buffer and of chunks, and any faults under `ImageAssumption`, which TLC
evaluates in `network`.

* `TypeCorrect`, `PhotosWhole`, `FormsStillGo`: the inductive invariant is
  `IInv`. `KeptIsWhole` alone is not inductive: a 500 on its way says nothing
  of the file. `Talk` gives, for each point that `send_photo` can be at, the
  answers on their way and what they say of the server: it takes the photo of
  `cur` (`Receiving`: what the file has, what is on its way and what is yet to
  be written add up to the photo), it has all of it (`Whole`), or something
  went wrong (`Failed`). `Stream` is why nothing else gets into the file: one
  line, or units, is all that is ever on its way, since the client waits for
  an answer before the next line. Where units are left that no image expects,
  the session is about to end (`Off`), and that is never without a broken
  connection or a photo given up before (`LostBefore`), which is what
  `FormsGoOn` needs.
  The sum in `Receiving` is what a photo that grows breaks, so that `KeptIsWhole`
  excepts it. `NothingSwallowed` holds even then: both sides wait.

`Network_proofs` proves what `network` runs, from `NetworkAssumption`, for any
number of processes, addresses, files and changes, all texts, divisions into
parts, sizes of the buffer and sets of bytes.

* `ReadsAsWritten`, `LinesTyped`: the inductive invariant of `LineIO` is `IInv`.
  `Position` says that the writer is not past the reader's part and that nothing
  is read that was not written; `InCall`, that a call stays within its part.
  `RawExact` needs `Position`: what `readline` reads ahead has been written, and
  so belongs to the reader's part as long as parts are answered one by one; at
  the end of the part nothing is left in the buffer.
* `PhotosWhole`, `FormsStillGo`, `TypeCorrect`: a step of the run is a step of
  one part (`PartsSteps`), so that each part behaves as its own specification
  says (`PartsBehave`), and what is proved of `ImageTransfer` holds in the run.
* `AddressKnown`: `TargetIsCurrent` adds that the address of a connection is
  the one in memory, for a login proves the first and keeps the second, and
  that a login is begun only where a server can be.
* `ScriptObeyed`: in `ScriptInv`, `Numbered` says that the processes born are
  the first n, `OneStays` that for an obedient operator only the n-th can live
  without a TERM before it, and that the pid file names it from `WritePid` on,
  and `RestartLeaves` that the process a restart has forked is alive and not
  signalled as long as its bind succeeds. `PidNamesServer` and
  `RestartUnlessHeld`, which speak of quiet states only, are not inductive. The
  proof needs that `None` is no pid.
* `OnlyNews`: `NewsIsNew` says that a file whose time differs from the one
  noted in this round has changed since its last note. That `ls` has a first
  name to give is the well-foundedness of the natural numbers (`LeastNumber`).

`Client_proofs` proves what `client` runs, from `ClientAssumption`, for any names
of institutions, any fields that can be missing, any lists of codes and pairs
of the shape `PairLineOk`, and forms of any length: of the lists in `MCClient`
the proofs use nothing but that assumption.

* `QueriesAnswered`: neither handler looks at both entries; each relies on what
  the other left. `QInv` says what that is: a code can be typed exactly while
  there is a session, and the label is the name of the code.
* `ChoicesAlwaysAgree`: `OInv` says that the last signal that waits is the active
  button's, that none waits outside the first window, and that an entry is
  sensitive exactly if its flag is down and the kind of form has it
  (`DemandedCanBeFilled` follows, `OptionsFill`). No two boxes share an entry
  (`OwnWidgets`).
* `OnlyCompleteIsSaved`: by the same invariant, a step that saves.
* `AcceptedAreSound`, `RefusedAreFaulty`: `Verdict` is split into its ways out
  (`VerdictWays`), each with what the checks before it have shown. What remains
  is to compare two ways to count: the code goes through positions, the rules
  speak of sets, and they agree exactly if no code is there twice
  (`ImageCount`, `FilledForm`, `SpecialCount`). `paircheck`, which
  reads a line once with a flag and a counter, says what the head of the file
  says only of lines that have no 2, or a 2 with two codes after it
  (`PairsMatch`); all shipped lines are such.

The theorems about `FormFields` hold for any texts and whatever the conversions
make of them within `FieldsAssumption` (digits are no more than the characters
they are taken from, and a text that is cut is no longer than the cut), any lists
of common codes that leave an entry free, and any entries worked on.

* `DependentsAlwaysFollow`, `TypeCorrect`: `TypeOK` and `DependentsFollow` together
  are inductive. Every handler keeps the numbers within the length of the board
  (`SetKeeps`), although one handler sets texts whose handlers set others; none
  but the group's touches the codes of the group (`SetHolds`), and the group's,
  which first opens and clears what the last group closed, then loads two lists,
  leaves the entries beyond them alone (`GroupKeeps`, `TwoLists`). What holds of
  one entry that is set holds of the loops in `load_student_info` and in "Clear"
  (`SetAllKeeps`): `SetAll` is a recursive function, and both that its windows
  exist (`Filling`) and that all of them are right follow from the least index
  at which they would not.

Only model-checked: `SavedIsKept`, which a proof would have to follow through
the texts of every entry from the window to the file and back; and liveness
(`TransferEnds` and the others), which TLAPS cannot state with `ENABLED`.

## 5. Plan

Done: all modules of section 2, with their runs, and the proofs of section 4.
Next, in this order:

1. A proof of `SavedIsKept`, entry by entry.
2. A second instance of `FormStore` with two institutions and two names, whose
   isolation is proved but no longer run.
3. A module that ties `FormStore`'s admission to the phase `in` of `Login`.

## 6. Not modelled

* `server/showregdb.c`: a report that reads every record and prints its lines;
  it changes no state.
* `benchmark/`: a non-interactive older copy of the client's transfer code,
  used to load the server; what it sends is among what `Transfer` and
  `FormStore` take.
* `project2/src/educlient.c`: an early console client of an older protocol,
  not built by the Makefile.
* `passmgmt/`: a generated window with empty callbacks.
* Widget code written by the GUI builder (`interface.c`) beyond the entries,
  lengths and signals that `FormFields` and `Options` have.
* The GTK runtime shipped on the disc (`RajshahiCopy/`) and its headers:
  third-party.
* Hashing of passwords (compared as values), the wording of messages, layout.
* In `server/eduserver.c`: two signals at the same time, and the moment of
  `exit` in which other threads still run.
