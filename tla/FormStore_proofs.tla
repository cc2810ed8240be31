--------------------------- MODULE FormStore_proofs ---------------------------
(***************************************************************************)
(* Proofs about FormStore, for every number of threads, institutions and   *)
(* forms, every line length and every choice of the environment's faults.  *)
(***************************************************************************)
EXTENDS FormStore, TLAPS

-----------------------------------------------------------------------------
(* Type correctness *)

LEMMA OverlayType ==
    ASSUME NEW new \in Body, NEW old \in Contents
    PROVE  Overlay(new, old) \in Body
<1>1. CASE old = NoBody \/ Len(new) >= Len(old)
  BY <1>1 DEF Overlay
<1>2. CASE ~(old = NoBody \/ Len(new) >= Len(old))
  <2>1. old \in Seq(Lines) /\ new \in Seq(Lines)
    BY <1>2 DEF Contents, Body
  <2>2. SubSeq(old, Len(new) + 1, Len(old)) \in Seq(Lines)
    BY <2>1
  <2>3. QED
    BY <1>2, <2>1, <2>2 DEF Overlay, Body
<1>3. QED
  BY <1>1, <1>2

\* What a nested EXCEPT does to a function of functions.
LEMMA UpdateType ==
    ASSUME NEW A, NEW B, NEW S, NEW f \in [A -> [B -> S]],
           NEW a \in A, NEW b \in B, NEW v \in S
    PROVE  [f EXCEPT ![a][b] = v] \in [A -> [B -> S]]
<1>1. [f[a] EXCEPT ![b] = v] \in [B -> S]
  OBVIOUS
<1>2. QED
  BY <1>1

LEMMA FcloseType ==
    ASSUME TypeOK, NEW t \in Threads, Fclose(t)
    PROVE  /\ text' \in [Colleges -> [Keys -> Contents]]
           /\ mishap' \in [Colleges -> SUBSET Mishaps]
<1>1. Overlay(stream[t], text[college[t]][key[t]]) \in Contents
  BY OverlayType DEF TypeOK, Contents
<1>2. /\ text \in [Colleges -> [Keys -> Contents]]
      /\ mishap \in [Colleges -> SUBSET Mishaps]
      /\ college[t] \in Colleges /\ key[t] \in Keys
  BY DEF TypeOK
<1>3. [text EXCEPT ![college[t]][key[t]] = Overlay(stream[t], @)]
        \in [Colleges -> [Keys -> Contents]]
  BY <1>1, <1>2, UpdateType
<1>4. [mishap EXCEPT ![college[t]] = @ \cup {"text"}]
        \in [Colleges -> SUBSET Mishaps]
  BY <1>2 DEF Mishaps
<1>5. QED
  BY <1>2, <1>3, <1>4 DEF Fclose, Blame

LEMMA InitType == Init => TypeOK
<1> SUFFICES ASSUME Init PROVE TypeOK
  OBVIOUS
<1> USE ConstantsAssumption
<1>1. <<>> \in Body
  BY DEF Body
<1>2. /\ (CHOOSE c \in Colleges : TRUE) \in Colleges
      /\ (CHOOSE k \in Keys : TRUE) \in Keys
  OBVIOUS
<1>3. NoBody \in Contents /\ 0 \in 0..(MaxInfo + MaxLine - 1)
  BY DEF Contents
<1>4. /\ cache \in [Threads -> [Keys -> Contents]]
      /\ text \in [Colleges -> [Keys -> Contents]]
      /\ disk \in [Colleges -> [Keys -> Contents]]
      /\ promised \in [Colleges -> [Keys -> Contents]]
  BY <1>3 DEF Init
<1>5. /\ complete \in [Colleges -> [Keys -> SUBSET Body]]
      /\ settled \in [Colleges -> [Keys -> BOOLEAN]]
  BY DEF Init
<1>6. /\ regbufsize \in [Threads -> 0..(MaxInfo + MaxLine - 1)]
      /\ college \in [Threads -> Colleges] /\ key \in [Threads -> Keys]
  BY <1>2, <1>3 DEF Init
<1>7. QED
  BY <1>1, <1>4, <1>5, <1>6 DEF Init, TypeOK, Phases

LEMMA NextType == TypeOK /\ [Next]_vars => TypeOK'
<1> SUFFICES ASSUME TypeOK, [Next]_vars PROVE TypeOK'
  OBVIOUS
<1> USE ConstantsAssumption DEF vars, process, thread, memory, handle, files,
        history, At, Goto, GotoFree
<1>0. <<>> \in Body
  BY DEF Body
<1>1. ASSUME NEW t \in Threads, NEW c \in Colleges, Admit(t, c) PROVE TypeOK'
  <2>1. mishap' \in [Colleges -> SUBSET Mishaps]
    <3>1. mishap \in [Colleges -> SUBSET Mishaps] /\ "overlap" \in Mishaps
      BY DEF TypeOK, Mishaps
    <3>2. CASE mishap' = mishap
      BY <3>1, <3>2
    <3>3. CASE Blame(c, "overlap")
      BY <3>1, <3>3 DEF Blame
    <3>4. QED
      BY <1>1, <3>2, <3>3 DEF Admit
  <2>2. QED
    BY <1>1, <2>1 DEF Admit, TypeOK, Phases
<1>2. ASSUME NEW t \in Threads, HangUp(t) PROVE TypeOK'
  BY <1>2 DEF HangUp, TypeOK
<1>3. ASSUME NEW t \in Threads, EndSession(t) PROVE TypeOK'
  BY <1>3 DEF EndSession, TypeOK, Phases
<1>4. ASSUME NEW t \in Threads, NEW timedout \in BOOLEAN, Binary(t, timedout)
      PROVE  TypeOK'
  BY <1>4 DEF Binary, TypeOK
<1>5. ASSUME NEW t \in Threads, NEW k \in Keys, Filename(t, k) PROVE TypeOK'
  BY <1>0, <1>5 DEF Filename, RegBufReset, TypeOK, Phases, Contents
<1>6. ASSUME NEW t \in Threads, NEW k \in Keys, Evict(t, k) PROVE TypeOK'
  BY <1>6 DEF Evict, WritePages, TypeOK
<1>7. ASSUME NEW t \in Threads, NEW l \in Lines, Line(t, l) PROVE TypeOK'
  <2>1. /\ Append(got[t], l) \in Body /\ Append(stream[t], l) \in Body
        /\ Append(regbuf[t], l) \in Body
    BY DEF TypeOK, Body
  <2>2. regbufsize[t] + LineSize[l] \in 0..(MaxInfo + MaxLine - 1)
    <3>1. regbufsize[t] \in Nat /\ regbufsize[t] < MaxInfo
      BY <1>7 DEF Line, RegBufFull, TypeOK
    <3>2. LineSize[l] \in 1..MaxLine
      OBVIOUS
    <3>3. QED
      BY <3>1, <3>2
  <2>3. QED
    BY <1>7, <2>1, <2>2 DEF Line, TypeOK
<1>8. ASSUME NEW t \in Threads, NEW l \in Lines, LineTooMany(t, l)
      PROVE  TypeOK'
  <2>1. Append(got[t], l) \in Body /\ Append(stream[t], l) \in Body
    BY DEF TypeOK, Body
  <2>2. leaked' \subseteq Leak
    <3>1. college[t] \in Colleges /\ key[t] \in Keys /\ leaked \subseteq Leak
      BY DEF TypeOK
    <3>2. [college |-> college[t], key |-> key[t],
           body |-> Append(stream[t], l)] \in Leak
      BY <2>1, <3>1 DEF Leak
    <3>3. QED
      BY <1>8, <3>1, <3>2 DEF LineTooMany
  <2>3. mishap' \in [Colleges -> SUBSET Mishaps]
    BY <1>8 DEF LineTooMany, Blame, TypeOK, Mishaps
  <2>4. QED
    BY <1>0, <1>8, <2>1, <2>2, <2>3 DEF LineTooMany, TypeOK, Phases
<1>9. ASSUME NEW t \in Threads, FputsFails(t) PROVE TypeOK'
  BY <1>0, <1>9, FcloseType DEF FputsFails, TypeOK, Phases
<1>10. ASSUME NEW t \in Threads, Abandon(t) PROVE TypeOK'
  BY <1>0, <1>10, FcloseType DEF Abandon, TypeOK, Phases
<1>11. ASSUME NEW t \in Threads, EndOfForm(t) PROVE TypeOK'
  <2>1. complete' \in [Colleges -> [Keys -> SUBSET Body]]
    <3>1. /\ complete \in [Colleges -> [Keys -> SUBSET Body]]
          /\ college[t] \in Colleges /\ key[t] \in Keys /\ got[t] \in Body
      BY DEF TypeOK
    <3>2. complete[college[t]][key[t]] \cup {got[t]} \in SUBSET Body
      BY <3>1
    <3>3. QED
      BY <1>11, <3>1, <3>2, UpdateType DEF EndOfForm
  <2>2. text' \in [Colleges -> [Keys -> Contents]]
    BY <1>11, FcloseType DEF EndOfForm
  <2>3. mishap' \in [Colleges -> SUBSET Mishaps]
    BY <1>11, FcloseType DEF EndOfForm
  <2>4. QED
    BY <1>0, <1>11, <2>1, <2>2, <2>3 DEF EndOfForm, TypeOK, Phases
<1>12. ASSUME NEW t \in Threads, RegInsert(t) PROVE TypeOK'
  <2> DEFINE seen == IF loaded[t] THEN cache[t] ELSE disk[college[t]]
  <2>1. /\ college[t] \in Colleges /\ key[t] \in Keys
        /\ regbuf[t] \in Contents /\ NoBody \in Contents
        /\ cache \in [Threads -> [Keys -> Contents]]
        /\ disk \in [Colleges -> [Keys -> Contents]]
        /\ promised \in [Colleges -> [Keys -> Contents]]
        /\ mishap \in [Colleges -> SUBSET Mishaps]
    BY DEF TypeOK, Contents
  <2>2. seen \in [Keys -> Contents]
    BY <2>1
  <2>3. [cache EXCEPT ![t] = DbPut(seen, key[t], regbuf[t])]
          \in [Threads -> [Keys -> Contents]]
    BY <2>1, <2>2 DEF DbPut
  <2>4. cache' \in [Threads -> [Keys -> Contents]]
    <3>1. \/ cache' = [cache EXCEPT ![t] = DbPut(seen, key[t], regbuf[t])]
          \/ cache' = cache
      BY <1>12 DEF RegInsert, handle
    <3>2. CASE cache' = cache
      BY <2>1, <3>2
    <3> QED
      BY <2>3, <3>1, <3>2
  <2>5. mishap' \in [Colleges -> SUBSET Mishaps]
    <3>1. \/ mishap' = [mishap EXCEPT ![college[t]] = @ \cup {"put"}]
          \/ mishap' = mishap
      BY <1>12 DEF RegInsert, Blame
    <3>2. "put" \in Mishaps
      BY DEF Mishaps
    <3> QED
      BY <2>1, <3>1, <3>2
  <2>6. promised' \in [Colleges -> [Keys -> Contents]]
    <3>1. promised' = [promised EXCEPT ![college[t]][key[t]] = NoBody]
      BY <1>12 DEF RegInsert
    <3>2. QED
      BY <2>1, <3>1, UpdateType
  <2>7. /\ dirty' \in [Threads -> SUBSET Keys]
        /\ loaded' \in [Threads -> BOOLEAN]
    <3>1. loaded \in [Threads -> BOOLEAN] /\ dirty \in [Threads -> SUBSET Keys]
      BY DEF TypeOK
    <3>2. \/ UNCHANGED <<loaded, dirty>>
          \/ /\ loaded' = [loaded EXCEPT ![t] = TRUE]
             /\ dirty' = [dirty EXCEPT ![t] = @ \cup {key[t]}]
      BY <1>12 DEF RegInsert
    <3>3. key[t] \in Keys /\ dirty[t] \in SUBSET Keys
      BY <2>1, <3>1
    <3>4. [dirty EXCEPT ![t] = @ \cup {key[t]}] \in [Threads -> SUBSET Keys]
      BY <3>1, <3>3
    <3>5. [loaded EXCEPT ![t] = TRUE] \in [Threads -> BOOLEAN]
      BY <3>1
    <3>6. QED
      BY <3>1, <3>2, <3>4, <3>5
  <2>8. QED
    BY <1>12, <2>4, <2>5, <2>6, <2>7 DEF RegInsert, TypeOK, Phases
<1>13. ASSUME NEW t \in Threads, Answer(t) PROVE TypeOK'
  <2>1. promised' \in [Colleges -> [Keys -> Contents]]
    <3>1. /\ promised \in [Colleges -> [Keys -> Contents]]
          /\ got[t] \in Contents
          /\ college[t] \in Colleges /\ key[t] \in Keys
      BY DEF TypeOK, Contents
    <3>2. QED
      BY <1>13, <3>1, UpdateType DEF Answer
  <2>2. settled' \in [Colleges -> [Keys -> BOOLEAN]]
    <3>1. /\ settled \in [Colleges -> [Keys -> BOOLEAN]]
          /\ college[t] \in Colleges /\ key[t] \in Keys
      BY DEF TypeOK
    <3>2. [settled EXCEPT ![college[t]][key[t]] = TRUE]
            \in [Colleges -> [Keys -> BOOLEAN]]
      BY <3>1
    <3>3. QED
      BY <1>13, <3>2 DEF Answer
  <2>3. QED
    BY <1>13, <2>1, <2>2 DEF Answer, TypeOK, Phases
<1>14. ASSUME NEW t \in Threads, AnswerFails(t) PROVE TypeOK'
  BY <1>14 DEF AnswerFails, TypeOK, Phases
<1>15. ASSUME NEW t \in Threads, FreeResource(t) PROVE TypeOK'
  <2>1. NoBody \in Contents /\ 0 \in 0..(MaxInfo + MaxLine - 1)
    BY DEF Contents
  <2>2. disk' \in [Colleges -> [Keys -> Contents]]
    <3>1. /\ disk \in [Colleges -> [Keys -> Contents]]
          /\ cache \in [Threads -> [Keys -> Contents]]
      BY DEF TypeOK
    <3>2. CASE disk' = disk
      BY <3>1, <3>2
    <3>3. ASSUME NEW S \in SUBSET Keys, WritePages(t, S)
          PROVE  disk' \in [Colleges -> [Keys -> Contents]]
      BY <3>1, <3>3 DEF WritePages
    <3>4. QED
      BY <1>15, <3>2, <3>3 DEF FreeResource
  <2>3. cache' \in [Threads -> [Keys -> Contents]]
    BY <1>15, <2>1 DEF FreeResource, TypeOK
  <2>4. /\ regbuf' \in [Threads -> Body]
        /\ regbufsize' \in [Threads -> 0..(MaxInfo + MaxLine - 1)]
    BY <1>0, <1>15, <2>1 DEF FreeResource, RegBufReset, TypeOK
  <2>5. QED
    BY <1>0, <1>15, <2>2, <2>3, <2>4 DEF FreeResource, TypeOK, Phases
<1>16. ASSUME NEW t \in Threads, FlushOpen(t) PROVE TypeOK'
  <2>1. /\ text \in [Colleges -> [Keys -> Contents]]
        /\ college[t] \in Colleges /\ key[t] \in Keys
        /\ stream[t] \in Body
    BY DEF TypeOK
  <2>2. Overlay(stream[t], text[college[t]][key[t]]) \in Contents
    BY <2>1, OverlayType DEF Contents
  <2>3. text' \in [Colleges -> [Keys -> Contents]]
    BY <1>16, <2>1, <2>2, UpdateType DEF FlushOpen
  <2>4. QED
    BY <1>0, <1>16, <2>3 DEF FlushOpen, TypeOK
<1>17. ASSUME NEW s \in leaked, FlushLeaked(s) PROVE TypeOK'
  <2>1. /\ text \in [Colleges -> [Keys -> Contents]]
        /\ s.college \in Colleges /\ s.key \in Keys /\ s.body \in Body
    BY DEF TypeOK, Leak
  <2>2. Overlay(s.body, text[s.college][s.key]) \in Contents
    BY <2>1, OverlayType DEF Contents
  <2>3. text' \in [Colleges -> [Keys -> Contents]]
    BY <1>17, <2>1, <2>2, UpdateType DEF FlushLeaked
  <2>4. QED
    BY <1>17, <2>3 DEF FlushLeaked, TypeOK
<1>18. ASSUME ProcessEnds PROVE TypeOK'
  <2>1. NoBody \in Contents /\ 0 \in 0..(MaxInfo + MaxLine - 1)
    BY DEF Contents
  <2>2. cache' \in [Threads -> [Keys -> Contents]]
    BY <1>18, <2>1 DEF ProcessEnds
  <2>3. mishap' \in [Colleges -> SUBSET Mishaps]
    BY <1>18 DEF ProcessEnds, TypeOK, Mishaps
  <2>4. regbufsize' \in [Threads -> 0..(MaxInfo + MaxLine - 1)]
    BY <1>18, <2>1 DEF ProcessEnds
  <2>5. QED
    BY <1>0, <1>18, <2>2, <2>3, <2>4 DEF ProcessEnds, TypeOK, Phases
<1>19. CASE HandleSignal
  BY <1>19 DEF HandleSignal, TypeOK
<1>20. CASE Start
  BY <1>20 DEF Start, TypeOK
<1>21. CASE UNCHANGED vars
  BY <1>21 DEF TypeOK
<1>22. QED
  BY <1>1, <1>2, <1>3, <1>4, <1>5, <1>6, <1>7, <1>8, <1>9, <1>10, <1>11,
     <1>12, <1>13, <1>14, <1>15, <1>16, <1>17, <1>18, <1>19, <1>20, <1>21
     DEF Next, ThreadStep, Exit, Crash

\* Type correctness: in particular regbufsize never passes the end of regbuf
\* by a whole line, however long the lines are.
THEOREM TypeCorrect == Spec => []TypeOK
<1>1. QED
  BY InitType, NextType, PTL DEF Spec

-----------------------------------------------------------------------------
(* Records are whole forms *)

Whole(c, k) == complete[c][k] \cup {NoBody}

\* RecordIsWhole is not inductive: what a put makes a record of is regbuf,
\* which is the form received as long as the thread reads it, and a form that
\* has been handed over once the "." has come; a handle's cache holds nothing
\* of another institution since an idle thread has no cache at all.
WholeInv ==
    /\ \A t \in Threads : pc[t] = "body" => regbuf[t] = got[t]
    /\ \A t \in Threads :
          pc[t] = "put" => regbuf[t] \in complete[college[t]][key[t]]
    /\ \A t \in Threads, k \in Keys : cache[t][k] \in Whole(college[t], k)
    /\ \A t \in Threads, k \in Keys : pc[t] = "idle" => cache[t][k] = NoBody
    /\ \A c \in Colleges, k \in Keys : disk[c][k] \in Whole(c, k)

LEMMA WholeInit == Init => WholeInv
  BY DEF Init, WholeInv, Whole

\* A form once handed over stays handed over.
LEMMA OffersGrow ==
    ASSUME TypeOK, NEW t \in Threads, EndOfForm(t)
    PROVE  /\ complete' = [complete EXCEPT ![college[t]][key[t]] = @ \cup {got[t]}]
           /\ \A c \in Colleges, k \in Keys :
                 complete[c][k] \subseteq complete'[c][k]
           /\ got[t] \in complete'[college[t]][key[t]]
<1>1. /\ complete \in [Colleges -> [Keys -> SUBSET Body]]
      /\ college[t] \in Colleges /\ key[t] \in Keys
  BY DEF TypeOK
<1>2. complete' = [complete EXCEPT ![college[t]][key[t]] = @ \cup {got[t]}]
  BY DEF EndOfForm
<1>3. QED
  BY <1>1, <1>2

\* What a write of some pages does to the database files.
LEMMA WritePagesEffect ==
    ASSUME TypeOK, NEW t \in Threads, NEW S \in SUBSET Keys, WritePages(t, S)
    PROVE  \A c \in Colleges, k \in Keys :
              disk'[c][k] = IF c = college[t] /\ k \in S THEN cache[t][k]
                            ELSE disk[c][k]
  BY DEF WritePages, TypeOK

LEMMA WholeNext == TypeOK /\ WholeInv /\ [Next]_vars => WholeInv'
<1> SUFFICES ASSUME TypeOK, WholeInv, [Next]_vars PROVE WholeInv'
  OBVIOUS
<1> USE DEF vars, process, thread, memory, handle, files, history, At, Goto,
            GotoFree
<1>1. ASSUME NEW t \in Threads, NEW c \in Colleges, Admit(t, c)
      PROVE  WholeInv'
  <2>1. cache' = cache /\ disk' = disk /\ complete' = complete
    BY <1>1 DEF Admit
  <2>2. \A k \in Keys : cache[t][k] = NoBody
    BY <1>1 DEF Admit, WholeInv
  <2>3. \A u \in Threads, k \in Keys : cache'[u][k] \in Whole(college[u], k)'
    BY <1>1, <2>1, <2>2 DEF Admit, WholeInv, Whole, TypeOK
  <2>4. QED
    BY <1>1, <2>1, <2>3 DEF Admit, WholeInv, Whole, TypeOK
<1>2. ASSUME NEW t \in Threads, HangUp(t) PROVE WholeInv'
  BY <1>2 DEF HangUp, WholeInv, Whole
<1>3. ASSUME NEW t \in Threads, EndSession(t) PROVE WholeInv'
  BY <1>3 DEF EndSession, WholeInv, Whole, TypeOK
<1>4. ASSUME NEW t \in Threads, NEW timedout \in BOOLEAN, Binary(t, timedout)
      PROVE  WholeInv'
  BY <1>4 DEF Binary, WholeInv, Whole
<1>5. ASSUME NEW t \in Threads, NEW k \in Keys, Filename(t, k)
      PROVE  WholeInv'
  BY <1>5 DEF Filename, RegBufReset, WholeInv, Whole, TypeOK
<1>6. ASSUME NEW t \in Threads, NEW k \in Keys, Evict(t, k) PROVE WholeInv'
  <2>1. \A c \in Colleges, j \in Keys : disk'[c][j] \in Whole(c, j)
    BY <1>6, WritePagesEffect DEF Evict, WholeInv
  <2>2. QED
    BY <1>6, <2>1 DEF Evict, WholeInv, Whole
<1>7. ASSUME NEW t \in Threads, NEW l \in Lines, Line(t, l) PROVE WholeInv'
  BY <1>7 DEF Line, WholeInv, Whole, TypeOK
<1>8. ASSUME NEW t \in Threads, NEW l \in Lines, LineTooMany(t, l)
      PROVE  WholeInv'
  BY <1>8 DEF LineTooMany, WholeInv, Whole, TypeOK
<1>9. ASSUME NEW t \in Threads, FputsFails(t) PROVE WholeInv'
  BY <1>9 DEF FputsFails, WholeInv, Whole, TypeOK
<1>10. ASSUME NEW t \in Threads, Abandon(t) PROVE WholeInv'
  BY <1>10 DEF Abandon, WholeInv, Whole, TypeOK
<1>11. ASSUME NEW t \in Threads, EndOfForm(t) PROVE WholeInv'
  <2>1. /\ UNCHANGED <<cache, disk, regbuf, got, college, key>>
        /\ pc' = [pc EXCEPT ![t] = "put"]
        /\ regbuf[t] = got[t]
    BY <1>11 DEF EndOfForm, WholeInv
  <2>2. \A c \in Colleges, k \in Keys : Whole(c, k) \subseteq Whole(c, k)'
    BY <1>11, OffersGrow DEF Whole
  <2>3. \A u \in Threads :
           pc'[u] = "put" => regbuf'[u] \in complete'[college'[u]][key'[u]]
    BY <1>11, <2>1, OffersGrow DEF WholeInv, TypeOK
  <2>4. /\ \A c \in Colleges, k \in Keys : disk'[c][k] \in Whole(c, k)'
        /\ \A u \in Threads, k \in Keys : cache'[u][k] \in Whole(college[u], k)'
    BY <2>1, <2>2 DEF WholeInv, Whole, TypeOK
  <2>5. QED
    BY <2>1, <2>3, <2>4 DEF WholeInv, TypeOK
<1>12. ASSUME NEW t \in Threads, RegInsert(t) PROVE WholeInv'
  <2>1. /\ UNCHANGED <<complete, college, key, disk, regbuf, got>>
        /\ pc' = [pc EXCEPT ![t] = "ack"]
        /\ college[t] \in Colleges /\ key[t] \in Keys
    BY <1>12 DEF RegInsert, TypeOK
  <2>2. regbuf[t] \in Whole(college[t], key[t])
    BY <1>12 DEF RegInsert, WholeInv, Whole
  <2>3. \A u \in Threads, k \in Keys : cache'[u][k] \in Whole(college[u], k)
    <3>1. CASE cache' = cache
      BY <3>1 DEF WholeInv
    <3>2. CASE cache' = [cache EXCEPT ![t] =
                  DbPut(IF loaded[t] THEN cache[t] ELSE disk[college[t]],
                        key[t], regbuf[t])]
      BY <2>1, <2>2, <3>2 DEF DbPut, WholeInv, TypeOK
    <3>3. QED
      BY <1>12, <3>1, <3>2 DEF RegInsert
  <2>4. \A u \in Threads, k \in Keys : pc'[u] = "idle" => cache'[u][k] = NoBody
    BY <1>12, <2>1 DEF RegInsert, WholeInv, TypeOK
  <2>5. QED
    BY <2>1, <2>3, <2>4 DEF WholeInv, Whole, TypeOK
<1>13. ASSUME NEW t \in Threads, Answer(t) PROVE WholeInv'
  BY <1>13 DEF Answer, WholeInv, Whole, TypeOK
<1>14. ASSUME NEW t \in Threads, AnswerFails(t) PROVE WholeInv'
  BY <1>14 DEF AnswerFails, WholeInv, Whole, TypeOK
<1>15. ASSUME NEW t \in Threads, FreeResource(t) PROVE WholeInv'
  <2>1. \A c \in Colleges, k \in Keys : disk'[c][k] \in Whole(c, k)
    <3>1. CASE disk' = disk
      BY <3>1 DEF WholeInv
    <3>2. ASSUME NEW S \in SUBSET Keys, WritePages(t, S)
          PROVE  \A c \in Colleges, k \in Keys : disk'[c][k] \in Whole(c, k)
      BY <3>2, WritePagesEffect DEF WholeInv
    <3>3. QED
      BY <1>15, <3>1, <3>2 DEF FreeResource
  <2>2. \A u \in Threads, k \in Keys :
           /\ cache'[u][k] \in Whole(college[u], k)
           /\ pc'[u] = "idle" => cache'[u][k] = NoBody
    BY <1>15 DEF FreeResource, WholeInv, Whole, TypeOK
  <2>3. \A u \in Threads : pc'[u] # "idle" => /\ u # t
                                              /\ pc'[u] = pc[u]
                                              /\ regbuf'[u] = regbuf[u]
                                              /\ got'[u] = got[u]
    BY <1>15 DEF FreeResource, RegBufReset, TypeOK
  <2>4. UNCHANGED <<complete, college, key>>
    BY <1>15 DEF FreeResource
  <2>5. QED
    BY <2>1, <2>2, <2>3, <2>4 DEF WholeInv, Whole
<1>16. ASSUME NEW t \in Threads, FlushOpen(t) PROVE WholeInv'
  BY <1>16 DEF FlushOpen, WholeInv, Whole
<1>17. ASSUME NEW s \in leaked, FlushLeaked(s) PROVE WholeInv'
  BY <1>17 DEF FlushLeaked, WholeInv, Whole
<1>18. ASSUME ProcessEnds PROVE WholeInv'
  BY <1>18 DEF ProcessEnds, WholeInv, Whole
<1>19. CASE HandleSignal
  BY <1>19 DEF HandleSignal, WholeInv, Whole
<1>20. CASE Start
  BY <1>20 DEF Start, WholeInv, Whole
<1>21. CASE UNCHANGED vars
  BY <1>21 DEF WholeInv, Whole
<1>22. QED
  BY <1>1, <1>2, <1>3, <1>4, <1>5, <1>6, <1>7, <1>8, <1>9, <1>10, <1>11,
     <1>12, <1>13, <1>14, <1>15, <1>16, <1>17, <1>18, <1>19, <1>20, <1>21
     DEF Next, ThreadStep, Exit, Crash

\* A record, on disk or in a handle's cache, is a form that a client of the
\* institution handed over as a whole under the record's name.
THEOREM RecordsAreWhole == Spec => []RecordIsWhole
<1>1. TypeOK /\ WholeInv => RecordIsWhole
  BY DEF TypeOK, WholeInv, Whole, RecordIsWhole, Serving
<1>2. QED
  BY <1>1, InitType, NextType, WholeInit, WholeNext, PTL DEF Spec

-----------------------------------------------------------------------------
(***************************************************************************)
(* An answered form is kept: what a client was told with "500" is the      *)
(* record of its form until it puts another, unless sessions overlap, a    *)
(* put fails unnoticed or the process ends inside the session.             *)
(***************************************************************************)

Quiet(c) == mishap[c] \cap {"overlap", "put", "exit"} = {}

\* The record of form k of c is b, for whoever looks: the thread serving c
\* through its handle, and everybody else on disk.
OnRecord(c, k, b) ==
    /\ \A t \in Serving(c) : loaded[t] => cache[t][k] = b
    /\ (\A t \in Serving(c) : ~loaded[t]) => disk[c][k] = b

\* AnsweredIsKept is not inductive: that closing a handle keeps what it saw
\* rests on its clean records being those of the disk, and that an answer
\* speaks of what the handle saw on the put before it having been made.
KeptInv ==
    /\ \A t, u \in Threads :
          /\ Busy(t) /\ Busy(u) /\ t # u
          /\ college[t] = college[u]
          => "overlap" \in mishap[college[t]]
    /\ \A t \in Threads : ~Busy(t) => ~loaded[t] /\ dirty[t] = {}
    /\ \A t \in Threads : dirty[t] # {} => loaded[t]
    /\ \A t \in Threads, k \in Keys :
          loaded[t] /\ Quiet(college[t]) /\ k \notin dirty[t]
          => cache[t][k] = disk[college[t]][k]
    /\ \A t \in Threads : pc[t] \in {"body", "put"} => regbuf[t] = got[t]
    /\ \A t \in Threads :
          pc[t] = "ack" /\ Quiet(college[t])
          => loaded[t] /\ cache[t][key[t]] = got[t]
    /\ \A c \in Colleges, k \in Keys :
          Quiet(c) /\ promised[c][k] # NoBody => OnRecord(c, k, promised[c][k])

-----------------------------------------------------------------------------
LEMMA KeptInit == Init => KeptInv
  BY DEF Init, KeptInv, OnRecord, Serving, Busy

\* Blame only adds: a college that is quiet after a step was quiet before it.
LEMMA StillQuiet ==
    ASSUME TypeOK, NEW d \in Colleges, NEW what,
           Blame(d, what) \/ UNCHANGED mishap
    PROVE  \A c \in Colleges : /\ mishap[c] \subseteq mishap'[c]
                               /\ Quiet(c)' => Quiet(c)
<1>1. \A c \in Colleges : mishap[c] \subseteq mishap'[c]
  <2>1. mishap \in [Colleges -> SUBSET Mishaps]
    BY DEF TypeOK
  <2>2. CASE UNCHANGED mishap
    BY <2>2
  <2>3. CASE mishap' = [mishap EXCEPT ![d] = @ \cup {what}]
    BY <2>1, <2>3
  <2>4. QED
    BY <2>2, <2>3 DEF Blame
<1>2. QED
  BY <1>1 DEF Quiet

\* A step that moves one busy thread, closing its stream maybe, and touches
\* no handle and no record leaves KeptInv alone.
LEMMA KeptByMove ==
    ASSUME TypeOK, KeptInv, NEW t \in Threads, NEW phase \in Phases,
           Busy(t), phase \notin {"idle", "ack"},
           Goto(t, phase),
           phase = "body" => regbuf'[t] = got'[t],
           phase = "put" => regbuf'[t] = got'[t],
           \A u \in Threads \ {t} : /\ regbuf'[u] = regbuf[u]
                                    /\ got'[u] = got[u]
                                    /\ key'[u] = key[u],
           \A c \in Colleges : mishap[c] \subseteq mishap'[c],
           UNCHANGED <<college, handle, disk, promised>>
    PROVE  KeptInv'
<1> USE DEF handle, Goto, Busy
<1>1. \A u \in Threads : Busy(u)' <=> Busy(u)
  BY DEF TypeOK
<1>2. \A c \in Colleges : Quiet(c)' => Quiet(c)
  BY DEF Quiet
<1>3. \A u \in Threads : college[u] \in Colleges
  BY DEF TypeOK
<1>4. \A c \in Colleges : Serving(c)' = Serving(c)
  BY <1>1 DEF Serving
<1>5. \A c \in Colleges, k \in Keys :
         Quiet(c)' /\ promised[c][k] # NoBody => OnRecord(c, k, promised[c][k])'
  BY <1>2, <1>4 DEF KeptInv, OnRecord
<1>6. \A u, v \in Threads :
         /\ Busy(u)' /\ Busy(v)' /\ u # v
         /\ college[u] = college[v]
         => "overlap" \in mishap'[college[u]]
  BY <1>1, <1>3 DEF KeptInv
<1>7. \A u \in Threads : pc'[u] \in {"body", "put"} => regbuf'[u] = got'[u]
  BY DEF KeptInv, TypeOK
<1>8. \A u \in Threads :
         pc'[u] = "ack" /\ Quiet(college[u])'
         => loaded[u] /\ cache[u][key'[u]] = got'[u]
  BY <1>2, <1>3 DEF KeptInv, TypeOK
<1>9. /\ \A u \in Threads : ~Busy(u)' => ~loaded[u] /\ dirty[u] = {}
      /\ \A u \in Threads : dirty[u] # {} => loaded[u]
  BY <1>1 DEF KeptInv
<1>10. \A u \in Threads, k \in Keys :
          loaded[u] /\ Quiet(college[u])' /\ k \notin dirty[u]
          => cache[u][k] = disk[college[u]][k]
  BY <1>2, <1>3 DEF KeptInv
<1>11. college' = college /\ cache' = cache /\ loaded' = loaded
       /\ dirty' = dirty /\ disk' = disk /\ promised' = promised
  OBVIOUS
<1>12. QED
  BY <1>5, <1>6, <1>7, <1>8, <1>9, <1>10, <1>11 DEF KeptInv, Quiet

\* A thread writes pages S: among sessions that do not overlap, records it
\* has not changed are written as they are on disk already.
LEMMA QuietWrite ==
    ASSUME TypeOK, KeptInv, NEW t \in Threads, NEW S \in SUBSET Keys,
           WritePages(t, S), loaded[t]
    PROVE  \A c \in Colleges, k \in Keys :
              Quiet(c) => disk'[c][k] = IF c = college[t] /\ k \in dirty[t] \cap S
                                        THEN cache[t][k] ELSE disk[c][k]
<1>1. \A c \in Colleges, k \in Keys :
         disk'[c][k] = IF c = college[t] /\ k \in S THEN cache[t][k]
                       ELSE disk[c][k]
  BY WritePagesEffect
<1>2. \A k \in Keys : Quiet(college[t]) /\ k \notin dirty[t]
                      => cache[t][k] = disk[college[t]][k]
  BY DEF KeptInv
<1>3. QED
  BY <1>1, <1>2

\* In a quiet college a busy thread is alone.
LEMMA Alone ==
    ASSUME TypeOK, KeptInv, NEW t \in Threads, Busy(t), Quiet(college[t]),
           NEW u \in Serving(college[t])
    PROVE  u = t
  BY DEF KeptInv, Serving, Quiet, TypeOK

LEMMA KeptAdmit ==
    ASSUME TypeOK, KeptInv, NEW t \in Threads, NEW d \in Colleges, Admit(t, d)
    PROVE  KeptInv'
<1> USE DEF memory, handle, files, Goto, At
<1>1. /\ pc[t] = "idle" /\ pc' = [pc EXCEPT ![t] = "cmd"]
      /\ college' = [college EXCEPT ![t] = d]
      /\ UNCHANGED <<key, regbuf, got, cache, loaded, dirty, disk, promised>>
  BY DEF Admit
<1>2. /\ \A c \in Colleges : mishap[c] \subseteq mishap'[c]
      /\ \A c \in Colleges : Quiet(c)' => Quiet(c)
  BY StillQuiet DEF Admit
<1>3. ~loaded[t] /\ dirty[t] = {}
  BY <1>1 DEF KeptInv, Busy
<1>4. Serving(d) # {} => "overlap" \in mishap'[d]
  BY DEF Admit, Blame, TypeOK
<1>5. \A u \in Threads : u # t => /\ Busy(u)' <=> Busy(u)
                                  /\ pc'[u] = pc[u]
                                  /\ college'[u] = college[u]
  BY <1>1 DEF Busy, TypeOK
<1>6. pc'[t] = "cmd" /\ college'[t] = d
  BY <1>1 DEF TypeOK
<1>7. \A u \in Threads : college[u] \in Colleges /\ college'[u] \in Colleges
  BY <1>5, <1>6 DEF TypeOK
<1>8. \A u, v \in Threads :
         /\ Busy(u)' /\ Busy(v)' /\ u # v
         /\ college'[u] = college'[v]
         => "overlap" \in mishap'[college'[u]]
  <2>1. ASSUME NEW u \in Threads, u # t, Busy(u), college[u] = d
        PROVE  "overlap" \in mishap'[d]
    BY <1>4, <2>1 DEF Serving
  <2>2. ASSUME NEW u \in Threads \ {t}, NEW v \in Threads \ {t}, u # v,
               Busy(u), Busy(v), college[u] = college[v]
        PROVE  "overlap" \in mishap'[college[u]]
    BY <1>2, <1>7, <2>2 DEF KeptInv
  <2>3. QED
    BY <1>5, <1>6, <2>1, <2>2
<1>9. \A c \in Colleges, k \in Keys :
         Quiet(c)' /\ promised[c][k] # NoBody => OnRecord(c, k, promised[c][k])'
  <2>1. ASSUME NEW c \in Colleges
        PROVE  \A u \in Serving(c)' : loaded[u] => u \in Serving(c)
    BY <1>3, <1>5 DEF Serving
  <2>2. ASSUME NEW c \in Colleges, Quiet(c)',
               \A u \in Serving(c)' : ~loaded[u]
        PROVE  \A u \in Serving(c) : ~loaded[u]
    <3>1. ASSUME NEW u \in Serving(c), u # t
          PROVE  u \in Serving(c)'
      BY <1>5, <3>1 DEF Serving
    <3>2. QED
      BY <1>3, <2>2, <3>1
  <2>3. QED
    BY <1>1, <1>2, <2>1, <2>2 DEF KeptInv, OnRecord
<1>10. /\ \A u \in Threads : ~Busy(u)' => ~loaded[u] /\ dirty[u] = {}
       /\ \A u \in Threads : dirty[u] # {} => loaded[u]
       /\ \A u \in Threads : pc'[u] \in {"body", "put"} => regbuf[u] = got[u]
  BY <1>3, <1>5, <1>6 DEF KeptInv
<1>11. \A u \in Threads :
          /\ \A k \in Keys : loaded[u] /\ Quiet(college[u])' /\ k \notin dirty[u]
                => cache[u][k] = disk[college'[u]][k]
          /\ pc'[u] = "ack" /\ Quiet(college[u])'
                => loaded[u] /\ cache[u][key[u]] = got[u]
  BY <1>2, <1>3, <1>5, <1>6, <1>7 DEF KeptInv
<1>12. QED
  BY <1>1, <1>8, <1>9, <1>10, <1>11 DEF KeptInv, Quiet

LEMMA KeptRegInsert ==
    ASSUME TypeOK, KeptInv, NEW t \in Threads, RegInsert(t),
           NEW d \in Colleges, college[t] = d
    PROVE  KeptInv'
<1> USE DEF memory, handle, files, Goto, At
<1> DEFINE seen == IF loaded[t] THEN cache[t] ELSE disk[d]
<1>1. /\ pc[t] = "put" /\ pc' = [pc EXCEPT ![t] = "ack"]
      /\ UNCHANGED <<college, key, regbuf, got, disk>>
      /\ promised' = [promised EXCEPT ![d][key[t]] = NoBody]
      /\ key[t] \in Keys
  BY DEF RegInsert, TypeOK
<1>2. /\ \A c \in Colleges : mishap[c] \subseteq mishap'[c]
      /\ \A c \in Colleges : Quiet(c)' => Quiet(c)
  BY <1>1, StillQuiet DEF RegInsert
<1>3. \A u \in Threads : Busy(u)' <=> Busy(u)
  BY <1>1 DEF Busy, TypeOK
<1>4. \A u \in Threads : college[u] \in Colleges
  BY DEF TypeOK
<1>5. \A u \in Threads \ {t} : /\ cache'[u] = cache[u] /\ loaded'[u] = loaded[u]
                               /\ dirty'[u] = dirty[u] /\ pc'[u] = pc[u]
  BY <1>1 DEF RegInsert, TypeOK
<1>6. ASSUME Quiet(d)'
      PROVE  /\ loaded'[t] /\ dirty'[t] = dirty[t] \cup {key[t]}
             /\ cache'[t] = [seen EXCEPT ![key[t]] = regbuf[t]]
  <2>1. ~Blame(d, "put")
    <3>1. Blame(d, "put") => "put" \in mishap'[d]
      BY DEF Blame, TypeOK
    <3>2. QED
      BY <1>6, <3>1 DEF Quiet
  <2>2. QED
    BY <2>1 DEF RegInsert, DbPut, TypeOK
<1>7. seen \in [Keys -> Contents]
  BY <1>1 DEF TypeOK
<1>8. Quiet(d)' => /\ cache'[t][key[t]] = got[t]
                   /\ \A k \in Keys \ {key[t]} : cache'[t][k] = seen[k]
  BY <1>1, <1>6, <1>7 DEF KeptInv
<1>9. \A c \in Colleges : Serving(c)' = Serving(c)
  BY <1>1, <1>3 DEF Serving
<1>10. \A c \in Colleges, k \in Keys :
          Quiet(c)' /\ promised'[c][k] # NoBody
          => OnRecord(c, k, promised[c][k])' /\ promised'[c][k] = promised[c][k]
  <2>1. ASSUME NEW c \in Colleges, NEW k \in Keys, c # d,
               Quiet(c)', promised'[c][k] # NoBody
        PROVE  /\ OnRecord(c, k, promised[c][k])'
               /\ promised'[c][k] = promised[c][k]
    <3>1. promised'[c][k] = promised[c][k]
      BY <1>1, <2>1 DEF TypeOK
    <3>2. t \notin Serving(c)
      BY <2>1 DEF Serving
    <3>3. OnRecord(c, k, promised[c][k])
      BY <1>2, <2>1, <3>1 DEF KeptInv
    <3>4. \A u \in Serving(c) : u \in Threads \ {t}
      BY <3>2 DEF Serving
    <3>5. QED
      BY <1>1, <1>5, <1>9, <3>1, <3>3, <3>4 DEF OnRecord
  <2>2. ASSUME NEW k \in Keys, Quiet(d)', promised'[d][k] # NoBody
        PROVE  /\ OnRecord(d, k, promised[d][k])'
               /\ promised'[d][k] = promised[d][k]
    <3>1. k # key[t] /\ promised'[d][k] = promised[d][k]
      BY <1>1, <2>2 DEF TypeOK
    <3>2. OnRecord(d, k, promised[d][k])
      BY <1>1, <1>2, <2>2, <3>1 DEF KeptInv
    <3>3. t \in Serving(d) /\ \A u \in Serving(d) : u = t
      BY <1>1, <1>2, <2>2, Alone DEF Serving, Busy
    <3>4. seen[k] = promised[d][k]
      BY <3>2, <3>3 DEF OnRecord
    <3>5. cache'[t][k] = promised[d][k]
      BY <1>8, <2>2, <3>1, <3>4
    <3>6. QED
      BY <1>6, <1>9, <2>2, <3>1, <3>3, <3>5 DEF OnRecord
  <2>3. QED
    BY <2>1, <2>2
<1>11. \A u, v \in Threads :
          /\ Busy(u)' /\ Busy(v)' /\ u # v
          /\ college[u] = college[v]
          => "overlap" \in mishap'[college[u]]
  BY <1>2, <1>3, <1>4 DEF KeptInv
<1>12. /\ Busy(t)
       /\ dirty'[t] # {} => loaded'[t]
       /\ \A u \in Threads \ {t} : ~Busy(u) => ~loaded[u] /\ dirty[u] = {}
       /\ \A u \in Threads \ {t} : dirty[u] # {} => loaded[u]
  BY <1>1 DEF KeptInv, Busy, RegInsert, TypeOK
<1>13. \A k \in Keys :
          loaded'[t] /\ Quiet(d)' /\ k \notin dirty'[t] => cache'[t][k] = disk[d][k]
  BY <1>2, <1>4, <1>6, <1>8, <1>7 DEF KeptInv
<1>14. pc'[t] = "ack" /\ (Quiet(d)' => loaded'[t] /\ cache'[t][key[t]] = got[t])
  BY <1>1, <1>6, <1>8 DEF TypeOK
<1>15. \A u \in Threads \ {t} :
          /\ \A k \in Keys : loaded[u] /\ Quiet(college[u])' /\ k \notin dirty[u]
                => cache[u][k] = disk[college[u]][k]
          /\ pc[u] = "ack" /\ Quiet(college[u])'
                => loaded[u] /\ cache[u][key[u]] = got[u]
          /\ pc[u] \in {"body", "put"} => regbuf[u] = got[u]
  BY <1>1, <1>2, <1>4 DEF KeptInv
<1>16. /\ \A u \in Threads : ~Busy(u)' => ~loaded'[u] /\ dirty'[u] = {}
       /\ \A u \in Threads : dirty'[u] # {} => loaded'[u]
  BY <1>3, <1>5, <1>12
<1>17. \A u \in Threads :
          /\ \A k \in Keys : loaded'[u] /\ Quiet(college[u])' /\ k \notin dirty'[u]
                => cache'[u][k] = disk[college[u]][k]
          /\ pc'[u] = "ack" /\ Quiet(college[u])'
                => loaded'[u] /\ cache'[u][key[u]] = got[u]
          /\ pc'[u] \in {"body", "put"} => regbuf[u] = got[u]
  BY <1>1, <1>5, <1>13, <1>14, <1>15
<1>18. college' = college /\ key' = key /\ regbuf' = regbuf /\ got' = got
       /\ disk' = disk
  BY <1>1
<1>19. QED
  BY <1>10, <1>11, <1>16, <1>17, <1>18 DEF KeptInv, Quiet, OnRecord

LEMMA KeptAnswer ==
    ASSUME TypeOK, KeptInv, NEW t \in Threads, Answer(t),
           NEW d \in Colleges, college[t] = d
    PROVE  KeptInv'
<1> USE DEF memory, handle, files, Goto, At
<1>1. /\ pc[t] = "ack" /\ pc' = [pc EXCEPT ![t] = "cmd"]
      /\ UNCHANGED <<college, key, regbuf, got, cache, loaded, dirty, disk,
                     mishap>>
      /\ promised' = [promised EXCEPT ![d][key[t]] = got[t]]
      /\ key[t] \in Keys
  BY DEF Answer, TypeOK
<1>2. \A u \in Threads : /\ Busy(u)' <=> Busy(u)
                         /\ pc'[u] \in {"body", "put", "ack"} => pc'[u] = pc[u]
  BY <1>1 DEF Busy, TypeOK
<1>3. \A c \in Colleges : Serving(c)' = Serving(c)
  BY <1>1, <1>2 DEF Serving
<1>4. ASSUME NEW c \in Colleges, NEW k \in Keys, Quiet(c),
             promised'[c][k] # NoBody
      PROVE  OnRecord(c, k, promised[c][k])'
  <2>1. CASE c = d /\ k = key[t]
    <3>1. promised'[c][k] = got[t]
      BY <1>1, <2>1 DEF TypeOK
    <3>2. loaded[t] /\ cache[t][k] = got[t]
      BY <1>1, <1>4, <2>1 DEF KeptInv
    <3>3. t \in Serving(c) /\ \A u \in Serving(c) : u = t
      BY <1>1, <1>4, <2>1, Alone DEF Serving, Busy
    <3>4. QED
      BY <1>1, <1>3, <3>1, <3>2, <3>3 DEF OnRecord
  <2>2. CASE c # d \/ k # key[t]
    <3>1. promised'[c][k] = promised[c][k]
      BY <1>1, <2>2 DEF TypeOK
    <3>2. OnRecord(c, k, promised[c][k])
      BY <1>4, <3>1 DEF KeptInv
    <3>3. QED
      BY <1>1, <1>3, <3>1, <3>2 DEF OnRecord
  <2>3. QED
    BY <2>1, <2>2
<1>5. QED
  BY <1>1, <1>2, <1>4 DEF KeptInv, Quiet

LEMMA KeptEvict ==
    ASSUME TypeOK, KeptInv, NEW t \in Threads, NEW j \in Keys, Evict(t, j),
           NEW d \in Colleges, college[t] = d
    PROVE  KeptInv'
<1> USE DEF memory, handle, files, thread, history, Goto, At
<1>1. /\ UNCHANGED <<pc, college, key, regbuf, got, cache, loaded, mishap,
                     promised>>
      /\ dirty' = [dirty EXCEPT ![t] = @ \ {j}]
      /\ j \in dirty[t] /\ WritePages(t, {j})
  BY DEF Evict
<1>2. loaded[t] /\ Busy(t)
  BY <1>1 DEF KeptInv
<1>3. \A c \in Colleges, k \in Keys :
         Quiet(c) => disk'[c][k] = IF c = d /\ k = j THEN cache[t][k]
                                   ELSE disk[c][k]
  BY <1>1, <1>2, QuietWrite
<1>4. \A u \in Threads : dirty'[u] = IF u = t THEN dirty[t] \ {j} ELSE dirty[u]
  BY <1>1 DEF TypeOK
<1>5. \A u \in Threads : Busy(u)' <=> Busy(u)
  BY <1>1 DEF Busy
<1>6. \A c \in Colleges : Serving(c)' = Serving(c)
  BY <1>1, <1>5 DEF Serving
<1>7. ASSUME NEW u \in Threads, NEW k \in Keys, loaded[u], Quiet(college[u]),
             k \notin dirty'[u]
      PROVE  cache[u][k] = disk'[college[u]][k]
  <2>1. college[u] \in Colleges
    BY DEF TypeOK
  <2>2. CASE u = t
    BY <1>3, <1>4, <1>7, <2>1, <2>2 DEF KeptInv
  <2>3. CASE u # t
    <3>1. college[u] # d
      BY <1>2, <1>7, <2>3 DEF KeptInv, Quiet
    <3>2. QED
      BY <1>3, <1>4, <1>7, <2>1, <2>3, <3>1 DEF KeptInv
  <2>4. QED
    BY <2>2, <2>3
<1>8. ASSUME NEW c \in Colleges, NEW k \in Keys, Quiet(c),
             promised[c][k] # NoBody
      PROVE  OnRecord(c, k, promised[c][k])'
  <2>1. OnRecord(c, k, promised[c][k])
    BY <1>8 DEF KeptInv
  <2>2. (\A u \in Serving(c) : ~loaded[u]) => c # d
    BY <1>2 DEF Serving
  <2>3. QED
    BY <1>1, <1>3, <1>6, <1>8, <2>1, <2>2 DEF OnRecord
<1>9. /\ \A u \in Threads : ~Busy(u)' => ~loaded[u] /\ dirty'[u] = {}
      /\ \A u \in Threads : dirty'[u] # {} => loaded[u]
  BY <1>2, <1>4, <1>5 DEF KeptInv
<1>10. QED
  BY <1>1, <1>5, <1>7, <1>8, <1>9 DEF KeptInv, Quiet

LEMMA KeptFreeResource ==
    ASSUME TypeOK, KeptInv, NEW t \in Threads, FreeResource(t),
           NEW d \in Colleges, college[t] = d
    PROVE  KeptInv'
<1> USE DEF memory, handle, files, thread, Goto, At
<1>1. /\ UNCHANGED <<college, key, promised, mishap>>
      /\ pc[t] = "free" /\ pc' = [pc EXCEPT ![t] = "idle"]
      /\ loaded' = [loaded EXCEPT ![t] = FALSE]
      /\ dirty' = [dirty EXCEPT ![t] = {}]
  BY DEF FreeResource
<1>2. \A u \in Threads \ {t} : /\ cache'[u] = cache[u] /\ regbuf'[u] = regbuf[u]
                               /\ got'[u] = got[u] /\ pc'[u] = pc[u]
                               /\ loaded'[u] = loaded[u] /\ dirty'[u] = dirty[u]
  BY <1>1 DEF FreeResource, RegBufReset, TypeOK
<1>3. pc'[t] = "idle" /\ ~loaded'[t] /\ dirty'[t] = {} /\ Busy(t)
  BY <1>1 DEF Busy, TypeOK
<1>4. \A u \in Threads \ {t} : Busy(u)' <=> Busy(u)
  BY <1>2 DEF Busy
<1>5. ASSUME NEW c \in Colleges, c # d
      PROVE  Serving(c)' = Serving(c) /\ disk'[c] = disk[c]
  <2>1. disk'[c] = disk[c]
    BY <1>5 DEF FreeResource, WritePages, TypeOK
  <2>2. QED
    BY <1>1, <1>3, <1>4, <1>5, <2>1 DEF Serving, Busy
<1>6. ASSUME Quiet(d)
      PROVE  \A u \in Threads \ {t} : Busy(u) => college[u] # d
  BY <1>3, <1>6, Alone DEF Serving
<1>7. ASSUME Quiet(d), NEW k \in Keys
      PROVE  disk'[d][k] = IF loaded[t] THEN cache[t][k] ELSE disk[d][k]
  <2>1. CASE dirty[t] = {}
    BY <1>7, <2>1 DEF FreeResource, KeptInv
  <2>2. CASE dirty[t] # {}
    <3>1. PICK S \in SUBSET Keys : dirty[t] \subseteq S /\ WritePages(t, S)
      BY <2>2 DEF FreeResource
    <3>2. loaded[t]
      BY <2>2 DEF KeptInv
    <3>3. disk'[d][k] = IF k \in dirty[t] THEN cache[t][k] ELSE disk[d][k]
      BY <1>7, <3>1, <3>2, QuietWrite
    <3>4. QED
      BY <1>7, <3>2, <3>3 DEF KeptInv
  <2>3. QED
    BY <2>1, <2>2
<1>8. ASSUME NEW c \in Colleges, NEW k \in Keys, Quiet(c),
             promised[c][k] # NoBody
      PROVE  OnRecord(c, k, promised[c][k])'
  <2>1. OnRecord(c, k, promised[c][k])
    BY <1>8 DEF KeptInv
  <2>2. CASE c # d
    <3>1. \A u \in Serving(c) : u \in Threads \ {t}
      BY <2>2 DEF Serving
    <3>2. QED
      BY <1>1, <1>2, <1>5, <2>1, <2>2, <3>1 DEF OnRecord
  <2>3. CASE c = d
    <3>1. t \in Serving(d) /\ \A u \in Serving(d) : u = t
      BY <1>3, <1>6, <1>8, <2>3 DEF Serving
    <3>2. disk'[d][k] = promised[d][k]
      BY <1>7, <1>8, <2>1, <2>3, <3>1 DEF OnRecord
    <3>3. Serving(d)' = {}
      BY <1>1, <1>3, <1>4, <1>6, <1>8, <2>3 DEF Serving, Busy
    <3>4. QED
      BY <1>1, <2>3, <3>2, <3>3 DEF OnRecord
  <2>4. QED
    BY <2>2, <2>3
<1>9. ASSUME NEW u \in Threads, NEW k \in Keys, loaded'[u],
             Quiet(college[u]), k \notin dirty'[u]
      PROVE  cache'[u][k] = disk'[college[u]][k]
  <2>1. u # t /\ loaded[u] /\ Busy(u) /\ college[u] \in Colleges
    BY <1>2, <1>3, <1>9 DEF KeptInv, TypeOK
  <2>2. college[u] # d
    BY <1>6, <1>9, <2>1
  <2>3. QED
    BY <1>2, <1>5, <1>9, <2>1, <2>2 DEF KeptInv
<1>10. /\ \A u \in Threads : ~Busy(u)' => ~loaded'[u] /\ dirty'[u] = {}
       /\ \A u \in Threads : dirty'[u] # {} => loaded'[u]
  BY <1>2, <1>3, <1>4 DEF KeptInv
<1>11. \A u \in Threads :
          /\ pc'[u] \in {"body", "put"} => regbuf'[u] = got'[u]
          /\ pc'[u] = "ack" /\ Quiet(college[u])
                => loaded'[u] /\ cache'[u][key[u]] = got'[u]
  BY <1>2, <1>3 DEF KeptInv
<1>12. \A u, v \in Threads :
          /\ Busy(u)' /\ Busy(v)' /\ u # v
          /\ college[u] = college[v]
          => "overlap" \in mishap[college[u]]
  BY <1>3, <1>4 DEF KeptInv, Busy
<1>13. QED
  BY <1>1, <1>8, <1>9, <1>10, <1>11, <1>12 DEF KeptInv, Quiet

LEMMA KeptProcessEnds ==
    ASSUME TypeOK, KeptInv, ProcessEnds
    PROVE  KeptInv'
<1> USE DEF files
<1>1. /\ pc' = [t \in Threads |-> "idle"]
      /\ loaded' = [t \in Threads |-> FALSE]
      /\ dirty' = [t \in Threads |-> {}]
      /\ UNCHANGED <<disk, promised, college>>
  BY DEF ProcessEnds
<1>2. \A t \in Threads : ~Busy(t)' /\ ~loaded'[t] /\ dirty'[t] = {}
  BY <1>1 DEF Busy
<1>3. ASSUME NEW c \in Colleges, Quiet(c)'
      PROVE  Quiet(c) /\ Serving(c) = {}
  <2>1. mishap'[c] = mishap[c] \cup (IF Serving(c) = {} THEN {} ELSE {"exit"})
    BY DEF ProcessEnds
  <2>2. QED
    BY <1>3, <2>1 DEF Quiet
<1>4. ASSUME NEW c \in Colleges, NEW k \in Keys, Quiet(c)',
             promised[c][k] # NoBody
      PROVE  OnRecord(c, k, promised[c][k])'
  <2>1. disk[c][k] = promised[c][k]
    BY <1>3, <1>4 DEF KeptInv, OnRecord
  <2>2. QED
    BY <1>1, <1>2, <2>1 DEF OnRecord, Serving
<1>5. \A t \in Threads : pc'[t] = "idle"
  BY <1>1
<1>6. QED
  BY <1>1, <1>2, <1>4, <1>5 DEF KeptInv

LEMMA KeptNext == TypeOK /\ KeptInv /\ [Next]_vars => KeptInv'
<1> SUFFICES ASSUME TypeOK, KeptInv, [Next]_vars PROVE KeptInv'
  OBVIOUS
<1> USE DEF vars, process, thread, memory, handle, files, history, At
<1>0. \A t \in Threads : college[t] \in Colleges
  BY DEF TypeOK
<1>1. ASSUME NEW t \in Threads, NEW c \in Colleges, Admit(t, c)
      PROVE  KeptInv'
  BY <1>1, KeptAdmit
<1>2. ASSUME NEW t \in Threads, HangUp(t) PROVE KeptInv'
  BY <1>2 DEF HangUp, KeptInv, Busy, Quiet, OnRecord, Serving
<1>3. ASSUME NEW t \in Threads, EndSession(t) PROVE KeptInv'
  <2>1. Busy(t) /\ "free" \in Phases
    BY <1>3 DEF EndSession, Busy, Phases
  <2>2. QED
    BY <1>3, <2>1, KeptByMove DEF EndSession, GotoFree
<1>4. ASSUME NEW t \in Threads, NEW timedout \in BOOLEAN, Binary(t, timedout)
      PROVE  KeptInv'
  BY <1>4 DEF Binary, KeptInv, Busy, Quiet, OnRecord, Serving
<1>5. ASSUME NEW t \in Threads, NEW k \in Keys, Filename(t, k) PROVE KeptInv'
  <2>1. Busy(t) /\ "body" \in Phases
    BY <1>5 DEF Filename, Busy, Phases
  <2>2. /\ regbuf'[t] = got'[t]
        /\ \A u \in Threads \ {t} : /\ regbuf'[u] = regbuf[u]
                                    /\ got'[u] = got[u] /\ key'[u] = key[u]
    BY <1>5 DEF Filename, RegBufReset, TypeOK
  <2>3. QED
    BY <1>5, <2>1, <2>2, KeptByMove DEF Filename
<1>6. ASSUME NEW t \in Threads, NEW k \in Keys, Evict(t, k) PROVE KeptInv'
  BY <1>0, <1>6, KeptEvict
<1>7. ASSUME NEW t \in Threads, NEW l \in Lines, Line(t, l) PROVE KeptInv'
  <2>1. /\ Busy(t) /\ "body" \in Phases /\ pc' = [pc EXCEPT ![t] = "body"]
        /\ regbuf[t] = got[t]
    BY <1>7 DEF Line, Busy, Phases, KeptInv, TypeOK
  <2>2. /\ regbuf'[t] = got'[t]
        /\ \A u \in Threads \ {t} : /\ regbuf'[u] = regbuf[u]
                                    /\ got'[u] = got[u] /\ key'[u] = key[u]
    BY <1>7, <2>1 DEF Line, TypeOK
  <2>3. QED
    BY <1>7, <2>1, <2>2, KeptByMove DEF Line, Goto
<1>8. ASSUME NEW t \in Threads, NEW l \in Lines, LineTooMany(t, l)
      PROVE  KeptInv'
  <2>1. Busy(t) /\ "cmd" \in Phases
    BY <1>8 DEF LineTooMany, Busy, Phases
  <2>2. \A c \in Colleges : mishap[c] \subseteq mishap'[c]
    BY <1>0, <1>8, StillQuiet DEF LineTooMany
  <2>3. \A u \in Threads \ {t} : /\ regbuf'[u] = regbuf[u]
                                 /\ got'[u] = got[u] /\ key'[u] = key[u]
    BY <1>8 DEF LineTooMany, TypeOK
  <2>4. QED
    BY <1>8, <2>1, <2>2, <2>3, KeptByMove DEF LineTooMany
<1>9. ASSUME NEW t \in Threads, Fclose(t)
      PROVE  \A c \in Colleges : mishap[c] \subseteq mishap'[c]
  BY <1>0, <1>9, StillQuiet DEF Fclose
<1>10. ASSUME NEW t \in Threads, FputsFails(t) PROVE KeptInv'
  <2>1. Busy(t) /\ "cmd" \in Phases
    BY <1>10 DEF FputsFails, Busy, Phases
  <2>2. QED
    BY <1>9, <1>10, <2>1, KeptByMove DEF FputsFails
<1>11. ASSUME NEW t \in Threads, Abandon(t) PROVE KeptInv'
  <2>1. Busy(t) /\ "free" \in Phases
    BY <1>11 DEF Abandon, Busy, Phases
  <2>2. QED
    BY <1>9, <1>11, <2>1, KeptByMove DEF Abandon, GotoFree
<1>12. ASSUME NEW t \in Threads, EndOfForm(t) PROVE KeptInv'
  <2>1. Busy(t) /\ "put" \in Phases /\ regbuf'[t] = got'[t]
    BY <1>12 DEF EndOfForm, Busy, Phases, KeptInv
  <2>2. QED
    BY <1>9, <1>12, <2>1, KeptByMove DEF EndOfForm
<1>13. ASSUME NEW t \in Threads, RegInsert(t) PROVE KeptInv'
  BY <1>0, <1>13, KeptRegInsert
<1>14. ASSUME NEW t \in Threads, Answer(t) PROVE KeptInv'
  BY <1>0, <1>14, KeptAnswer
<1>15. ASSUME NEW t \in Threads, AnswerFails(t) PROVE KeptInv'
  <2>1. Busy(t) /\ "free" \in Phases
    BY <1>15 DEF AnswerFails, Busy, Phases
  <2>2. QED
    BY <1>15, <2>1, KeptByMove DEF AnswerFails, GotoFree
<1>16. ASSUME NEW t \in Threads, FreeResource(t) PROVE KeptInv'
  BY <1>0, <1>16, KeptFreeResource
<1>17. ASSUME \/ \E t \in Threads : FlushOpen(t)
              \/ \E s \in leaked : FlushLeaked(s)
              \/ HandleSignal \/ Start \/ UNCHANGED vars
       PROVE  KeptInv'
  <2>1. UNCHANGED <<pc, college, key, regbuf, got, handle, disk, promised, mishap>>
    BY <1>17 DEF FlushOpen, FlushLeaked, HandleSignal, Start
  <2>2. QED
    BY <2>1 DEF KeptInv, Busy, Quiet, OnRecord, Serving
<1>18. CASE Exit \/ Crash
  BY <1>18, KeptProcessEnds DEF Exit, Crash
<1>19. QED
  BY <1>1, <1>2, <1>3, <1>4, <1>5, <1>6, <1>7, <1>8, <1>10, <1>11, <1>12,
     <1>13, <1>14, <1>15, <1>16, <1>17, <1>18
     DEF Next, ThreadStep

\* The promise of the server's "500" for every number of sessions, forms and
\* institutions, and whatever else fails.
THEOREM AnswersAreKept == Spec => []AnsweredIsKept
<1>1. ASSUME TypeOK, KeptInv PROVE AnsweredIsKept
  <2> SUFFICES ASSUME NEW c \in Colleges, NEW k \in Keys, Quiet(c),
                      promised[c][k] # NoBody
               PROVE  View(c, k) = promised[c][k]
    BY DEF AnsweredIsKept, Quiet
  <2>1. OnRecord(c, k, promised[c][k])
    BY <1>1 DEF KeptInv
  <2>2. QED
    BY <2>1 DEF View, OnRecord
<1>2. QED
  BY <1>1, InitType, NextType, KeptInit, KeptNext, PTL DEF Spec

-----------------------------------------------------------------------------
(***************************************************************************)
(* FormStore implements Registry.                                          *)
(***************************************************************************)

\* What the pages of a handle are, whatever puts have failed and processes
\* have ended: the clean ones are those of the disk as long as sessions do not
\* overlap, the dirty ones are forms handed over; so is the form about to be
\* answered.  KeptInv says less of an institution that is not quiet.
CleanInv ==
    /\ \A t \in Threads, k \in Keys :
          /\ loaded[t] /\ k \notin dirty[t]
          /\ "overlap" \notin mishap[college[t]]
          => cache[t][k] = disk[college[t]][k]
    /\ \A t \in Threads : \A k \in dirty[t] :
          cache[t][k] \in complete[college[t]][k]
    /\ \A t \in Threads :
          pc[t] \in {"put", "ack"} => got[t] \in complete[college[t]][key[t]]

LEMMA CleanInit == Init => CleanInv
  BY DEF Init, CleanInv

\* A step that touches neither handles nor records, and starts no answer.
LEMMA CleanByMove ==
    ASSUME TypeOK, CleanInv, UNCHANGED <<college, handle, disk, complete>>,
           \A u \in Threads : pc'[u] \in {"put", "ack"} =>
              pc[u] \in {"put", "ack"} /\ got'[u] = got[u] /\ key'[u] = key[u],
           \A c \in Colleges : mishap[c] \subseteq mishap'[c]
    PROVE  CleanInv'
<1>1. \A u \in Threads : college[u] \in Colleges
  BY DEF TypeOK
<1>2. QED
  BY <1>1 DEF CleanInv, handle

LEMMA CleanAdmit ==
    ASSUME TypeOK, KeptInv, CleanInv, NEW t \in Threads, NEW d \in Colleges,
           Admit(t, d)
    PROVE  CleanInv'
<1>1. /\ pc[t] = "idle" /\ pc' = [pc EXCEPT ![t] = "cmd"]
      /\ college' = [college EXCEPT ![t] = d]
      /\ UNCHANGED <<key, got, cache, loaded, dirty, disk, complete>>
  BY DEF Admit, At, Goto, handle, files
<1>2. \A c \in Colleges : mishap[c] \subseteq mishap'[c]
  BY StillQuiet DEF Admit
<1>3. ~loaded[t] /\ dirty[t] = {}
  BY <1>1 DEF KeptInv, Busy
<1>4. /\ pc'[t] = "cmd"
      /\ \A u \in Threads : u # t => /\ pc'[u] = pc[u]
                                     /\ college'[u] = college[u]
                                     /\ college[u] \in Colleges
  BY <1>1 DEF TypeOK
<1>5. QED
  BY <1>1, <1>2, <1>3, <1>4 DEF CleanInv

LEMMA CleanEndOfForm ==
    ASSUME TypeOK, CleanInv, NEW t \in Threads, EndOfForm(t)
    PROVE  CleanInv'
<1>1. /\ UNCHANGED <<college, key, got, cache, loaded, dirty, disk>>
      /\ pc' = [pc EXCEPT ![t] = "put"]
  BY DEF EndOfForm, Goto, handle
<1>2. /\ \A c \in Colleges, k \in Keys : complete[c][k] \subseteq complete'[c][k]
      /\ got[t] \in complete'[college[t]][key[t]]
  BY OffersGrow
<1>3. /\ \A u \in Threads : college[u] \in Colleges /\ key[u] \in Keys
      /\ \A u \in Threads : dirty[u] \subseteq Keys
      /\ \A u \in Threads : u # t => pc'[u] = pc[u]
  BY <1>1 DEF TypeOK
<1>4. \A c \in Colleges : mishap[c] \subseteq mishap'[c]
  BY <1>3, StillQuiet DEF EndOfForm, Fclose
<1>5. \A u \in Threads, k \in Keys :
         /\ loaded[u] /\ k \notin dirty[u]
         /\ "overlap" \notin mishap'[college[u]]
         => cache[u][k] = disk[college[u]][k]
  BY <1>3, <1>4 DEF CleanInv
<1>6. \A u \in Threads : \A k \in dirty[u] :
         cache[u][k] \in complete'[college[u]][k]
  BY <1>2, <1>3 DEF CleanInv
<1>7. \A u \in Threads :
         pc'[u] \in {"put", "ack"} => got[u] \in complete'[college[u]][key[u]]
  BY <1>2, <1>3 DEF CleanInv
<1>8. QED
  BY <1>1, <1>5, <1>6, <1>7 DEF CleanInv

LEMMA CleanRegInsert ==
    ASSUME TypeOK, WholeInv, KeptInv, CleanInv, NEW t \in Threads, RegInsert(t),
           NEW d \in Colleges, college[t] = d
    PROVE  CleanInv'
<1> DEFINE seen == IF loaded[t] THEN cache[t] ELSE disk[d]
<1>1. /\ pc[t] = "put" /\ pc' = [pc EXCEPT ![t] = "ack"]
      /\ UNCHANGED <<college, key, got, disk, complete>>
      /\ key[t] \in Keys /\ regbuf[t] \in complete[d][key[t]]
      /\ got[t] \in complete[d][key[t]]
  BY DEF RegInsert, At, Goto, memory, files, TypeOK, WholeInv, CleanInv
<1>2. \A c \in Colleges : mishap[c] \subseteq mishap'[c]
  BY StillQuiet DEF RegInsert
<1>3. /\ \A u \in Threads : college[u] \in Colleges
      /\ \A u \in Threads : u # t => /\ pc'[u] = pc[u]
                                     /\ cache'[u] = cache[u]
                                     /\ loaded'[u] = loaded[u]
                                     /\ dirty'[u] = dirty[u]
  BY <1>1 DEF RegInsert, handle, TypeOK
<1>4. seen \in [Keys -> Contents] /\ dirty[t] \subseteq Keys
  BY DEF TypeOK
<1>5. CASE UNCHANGED handle
  BY <1>1, <1>2, <1>3, <1>5 DEF CleanInv, handle
<1>6. CASE /\ cache' = [cache EXCEPT ![t] = DbPut(seen, key[t], regbuf[t])]
           /\ loaded' = [loaded EXCEPT ![t] = TRUE]
           /\ dirty' = [dirty EXCEPT ![t] = @ \cup {key[t]}]
  <2>1. /\ cache'[t] = [seen EXCEPT ![key[t]] = regbuf[t]]
        /\ dirty'[t] = dirty[t] \cup {key[t]}
    BY <1>6 DEF DbPut, TypeOK
  <2>2. /\ cache'[t][key[t]] = regbuf[t]
        /\ \A k \in Keys \ {key[t]} : cache'[t][k] = seen[k]
    BY <1>1, <1>4, <2>1
  <2>3. \A k \in Keys :
           k \notin dirty'[t] /\ "overlap" \notin mishap'[d]
           => cache'[t][k] = disk[d][k]
    BY <1>2, <2>1, <2>2 DEF CleanInv
  <2>4. dirty[t] # {} => loaded[t]
    BY DEF KeptInv
  <2>5. \A k \in dirty'[t] : cache'[t][k] \in complete[d][k]
    <3>1. CASE loaded[t]
      BY <1>1, <1>4, <2>1, <2>2, <3>1 DEF CleanInv
    <3>2. CASE ~loaded[t]
      BY <1>1, <1>4, <2>1, <2>2, <2>4, <3>2
    <3>3. QED
      BY <3>1, <3>2
  <2>6. QED
    BY <1>1, <1>2, <1>3, <2>3, <2>5 DEF CleanInv
<1>7. QED
  BY <1>5, <1>6 DEF RegInsert

LEMMA CleanEvict ==
    ASSUME TypeOK, KeptInv, CleanInv, NEW t \in Threads, NEW j \in Keys,
           Evict(t, j)
    PROVE  CleanInv'
<1>1. /\ UNCHANGED <<pc, college, key, got, cache, loaded, mishap, complete>>
      /\ dirty' = [dirty EXCEPT ![t] = @ \ {j}]
      /\ j \in dirty[t] /\ WritePages(t, {j})
  BY DEF Evict, thread, history
<1>2. \A c \in Colleges, k \in Keys :
         disk'[c][k] = IF c = college[t] /\ k = j THEN cache[t][k]
                       ELSE disk[c][k]
  BY <1>1, WritePagesEffect
<1>3. \A u \in Threads : dirty'[u] = IF u = t THEN dirty[t] \ {j} ELSE dirty[u]
  BY <1>1 DEF TypeOK
<1>4. loaded[t] /\ Busy(t)
  BY <1>1 DEF KeptInv
<1>5. ASSUME NEW u \in Threads, NEW k \in Keys, loaded[u], k \notin dirty'[u],
             "overlap" \notin mishap[college[u]]
      PROVE  cache[u][k] = disk'[college[u]][k]
  <2>1. college[u] \in Colleges /\ Busy(u)
    BY <1>5 DEF KeptInv, TypeOK
  <2>2. CASE u = t
    BY <1>2, <1>3, <1>5, <2>1, <2>2 DEF CleanInv
  <2>3. CASE u # t
    <3>1. college[u] # college[t]
      BY <1>4, <1>5, <2>1, <2>3 DEF KeptInv
    <3>2. QED
      BY <1>2, <1>3, <1>5, <2>1, <2>3, <3>1 DEF CleanInv
  <2>4. QED
    BY <2>2, <2>3
<1>6. \A u \in Threads : \A k \in dirty'[u] :
         cache[u][k] \in complete[college[u]][k]
  BY <1>3 DEF CleanInv
<1>7. QED
  BY <1>1, <1>5, <1>6 DEF CleanInv

LEMMA CleanFreeResource ==
    ASSUME TypeOK, KeptInv, CleanInv, NEW t \in Threads, FreeResource(t)
    PROVE  CleanInv'
<1>1. /\ UNCHANGED <<college, key, complete, mishap>>
      /\ pc[t] = "free" /\ Busy(t)
      /\ pc' = [pc EXCEPT ![t] = "idle"]
      /\ loaded' = [loaded EXCEPT ![t] = FALSE]
      /\ dirty' = [dirty EXCEPT ![t] = {}]
  BY DEF FreeResource, At, Goto, Busy
<1>2. /\ pc'[t] = "idle" /\ ~loaded'[t] /\ dirty'[t] = {}
      /\ \A u \in Threads : u # t => /\ cache'[u] = cache[u]
                                     /\ got'[u] = got[u] /\ pc'[u] = pc[u]
                                     /\ loaded'[u] = loaded[u]
                                     /\ dirty'[u] = dirty[u]
  BY <1>1 DEF FreeResource, TypeOK
<1>3. \A c \in Colleges : c # college[t] => disk'[c] = disk[c]
  BY DEF FreeResource, WritePages, TypeOK
<1>4. ASSUME NEW u \in Threads, NEW k \in Keys, loaded'[u], k \notin dirty'[u],
             "overlap" \notin mishap[college[u]]
      PROVE  cache'[u][k] = disk'[college[u]][k]
  <2>1. u # t /\ loaded[u] /\ Busy(u) /\ college[u] \in Colleges
    BY <1>2, <1>4 DEF KeptInv, TypeOK
  <2>2. college[u] # college[t]
    BY <1>1, <1>4, <2>1 DEF KeptInv
  <2>3. QED
    BY <1>2, <1>3, <1>4, <2>1, <2>2 DEF CleanInv
<1>5. QED
  BY <1>1, <1>2, <1>4 DEF CleanInv

LEMMA CleanProcessEnds == ProcessEnds => CleanInv'
  BY DEF ProcessEnds, CleanInv

LEMMA CleanNext ==
    TypeOK /\ WholeInv /\ KeptInv /\ CleanInv /\ [Next]_vars => CleanInv'
<1> SUFFICES ASSUME TypeOK, WholeInv, KeptInv, CleanInv, [Next]_vars
             PROVE  CleanInv'
  OBVIOUS
<1>0. \A t \in Threads : college[t] \in Colleges
  BY DEF TypeOK
<1> USE DEF vars, process, thread, memory, handle, files, history, At, Goto,
            GotoFree
<1>1. ASSUME NEW t \in Threads, NEW c \in Colleges, Admit(t, c) PROVE CleanInv'
  BY <1>1, CleanAdmit
<1>2. ASSUME NEW t \in Threads,
             \/ HangUp(t) \/ EndSession(t) \/ Answer(t) \/ AnswerFails(t)
             \/ FlushOpen(t) \/ \E timedout \in BOOLEAN : Binary(t, timedout)
      PROVE  CleanInv'
  <2>1. /\ UNCHANGED <<college, key, got, handle, disk, complete, mishap>>
        /\ pc' = pc \/ pc' = [pc EXCEPT ![t] = "free"]
           \/ pc' = [pc EXCEPT ![t] = "cmd"]
    BY <1>2 DEF HangUp, EndSession, Answer, AnswerFails, FlushOpen, Binary
  <2>2. \A u \in Threads : pc'[u] \in {"put", "ack"} => pc[u] \in {"put", "ack"}
    BY <2>1 DEF TypeOK
  <2>3. QED
    BY <2>1, <2>2, CleanByMove
<1>3. ASSUME NEW t \in Threads,
             \/ \E k \in Keys : Filename(t, k)
             \/ \E l \in Lines : Line(t, l) \/ LineTooMany(t, l)
             \/ FputsFails(t) \/ Abandon(t)
      PROVE  CleanInv'
  <2>1. /\ UNCHANGED <<college, handle, disk, complete>>
        /\ pc[t] \in {"cmd", "body"}
        /\ \E phase \in {"cmd", "body", "free"} : pc' = [pc EXCEPT ![t] = phase]
        /\ \A u \in Threads : u # t => got'[u] = got[u] /\ key'[u] = key[u]
    BY <1>3 DEF Filename, Line, LineTooMany, FputsFails, Abandon, TypeOK
  <2>2. \A u \in Threads : pc'[u] \in {"put", "ack"}
                            => u # t /\ pc[u] \in {"put", "ack"}
    BY <2>1 DEF TypeOK
  <2>3. Fclose(t) \/ Blame(college[t], "leak") \/ UNCHANGED mishap
    BY <1>3 DEF Filename, Line, LineTooMany, FputsFails, Abandon
  <2>4. \A c \in Colleges : mishap[c] \subseteq mishap'[c]
    BY <1>0, <2>3, StillQuiet DEF Fclose
  <2>5. QED
    BY <2>1, <2>2, <2>4, CleanByMove
<1>4. ASSUME NEW t \in Threads, EndOfForm(t) PROVE CleanInv'
  BY <1>4, CleanEndOfForm
<1>5. ASSUME NEW t \in Threads, RegInsert(t) PROVE CleanInv'
  BY <1>0, <1>5, CleanRegInsert
<1>6. ASSUME NEW t \in Threads, NEW k \in Keys, Evict(t, k) PROVE CleanInv'
  BY <1>6, CleanEvict
<1>7. ASSUME NEW t \in Threads, FreeResource(t) PROVE CleanInv'
  BY <1>7, CleanFreeResource
<1>8. ASSUME \/ \E s \in leaked : FlushLeaked(s)
             \/ HandleSignal \/ Start \/ UNCHANGED vars
      PROVE  CleanInv'
  <2>1. UNCHANGED <<pc, college, key, got, handle, disk, complete, mishap>>
    BY <1>8 DEF FlushLeaked, HandleSignal, Start
  <2>2. QED
    BY <2>1, CleanByMove
<1>9. CASE Exit \/ Crash
  BY <1>9, CleanProcessEnds DEF Exit, Crash
<1>10. QED
  BY <1>1, <1>2, <1>3, <1>4, <1>5, <1>6, <1>7, <1>8, <1>9 DEF Next, ThreadStep

LEMMA RefineInit == Init => RegistryView!Init
<1> SUFFICES ASSUME Init PROVE RegistryView!Init
  OBVIOUS
<1>1. \A c \in Colleges : Serving(c) = {} /\ mishap[c] = {}
  BY DEF Init, Serving, Busy
<1>2. /\ InSession = [c \in Colleges |-> FALSE]
      /\ Trouble = [c \in Colleges |-> {}]
  BY <1>1 DEF InSession, Trouble
<1>3. QED
  BY <1>2 DEF Init, RegistryView!Init

\* No step that leaves every thread as busy as it was, serving whom it served,
\* starts or ends a session.
LEMMA SameSessions ==
    ASSUME UNCHANGED college, \A u \in Threads : Busy(u)' <=> Busy(u)
    PROVE  InSession' = InSession
  BY DEF InSession, Serving

LEMMA SameTrouble ==
    ASSUME TypeOK, NEW c \in Colleges,
           \/ UNCHANGED mishap \/ Blame(c, "text") \/ Blame(c, "leak")
    PROVE  Trouble' = Trouble
<1>1. \A d \in Colleges : \/ mishap'[d] = mishap[d]
                          \/ mishap'[d] = mishap[d] \cup {"text"}
                          \/ mishap'[d] = mishap[d] \cup {"leak"}
  BY DEF Blame, TypeOK
<1>2. \A d \in Colleges : mishap'[d] \cap {"overlap", "put", "exit"}
                           = mishap[d] \cap {"overlap", "put", "exit"}
  BY <1>1
<1>3. QED
  BY <1>2 DEF Trouble

\* What else goes wrong for c shows in Trouble.
LEMMA MoreTrouble ==
    ASSUME TypeOK, NEW c \in Colleges, NEW what \in {"overlap", "put", "exit"},
           Blame(c, what)
    PROVE  Trouble' = [Trouble EXCEPT ![c] = @ \cup {what}]
<1>1. \A d \in Colleges : mishap'[d] = IF d = c THEN mishap[c] \cup {what}
                                        ELSE mishap[d]
  BY DEF Blame, TypeOK
<1>2. QED
  BY <1>1 DEF Trouble

LEMMA BusyInSession ==
    ASSUME TypeOK, NEW t \in Threads, Busy(t)
    PROVE  college[t] \in Colleges /\ InSession[college[t]]
  BY DEF TypeOK, InSession, Serving

LEMMA RefineAdmit ==
    ASSUME TypeOK, NEW t \in Threads, NEW d \in Colleges, Admit(t, d)
    PROVE  RegistryView!Enter(d)
<1>1. /\ pc[t] = "idle" /\ pc' = [pc EXCEPT ![t] = "cmd"]
      /\ college' = [college EXCEPT ![t] = d]
      /\ UNCHANGED <<complete, disk, promised>>
      /\ IF Serving(d) = {} THEN UNCHANGED mishap ELSE Blame(d, "overlap")
  BY DEF Admit, At, Goto, files
<1>2. /\ Busy(t)' /\ college'[t] = d /\ ~Busy(t)
      /\ \A u \in Threads : u # t => /\ Busy(u)' <=> Busy(u)
                                     /\ college'[u] = college[u]
  BY <1>1 DEF Busy, TypeOK
<1>3. \A c \in Colleges : (Serving(c)' # {}) = (c = d \/ Serving(c) # {})
  BY <1>2 DEF Serving
<1>4. InSession' = [InSession EXCEPT ![d] = TRUE]
  BY <1>3 DEF InSession
<1>5. Trouble' = IF InSession[d] THEN [Trouble EXCEPT ![d] = @ \cup {"overlap"}]
                 ELSE Trouble
  BY <1>1, SameTrouble, MoreTrouble DEF InSession
<1>6. QED
  BY <1>1, <1>4, <1>5 DEF RegistryView!Enter

LEMMA RefineEndOfForm ==
    ASSUME TypeOK, NEW t \in Threads, EndOfForm(t)
    PROVE  RegistryView!Offer(college[t], key[t])
<1>1. /\ Busy(t) /\ UNCHANGED <<college, disk, promised>>
      /\ pc' = [pc EXCEPT ![t] = "put"]
      /\ UNCHANGED mishap \/ Blame(college[t], "text")
  BY DEF EndOfForm, Fclose, At, Goto, Busy
<1>2. InSession' = InSession
  <2>1. \A u \in Threads : Busy(u)' <=> Busy(u)
    BY <1>1 DEF Busy, TypeOK
  <2>2. QED
    BY <1>1, <2>1, SameSessions
<1>3. InSession[college[t]] /\ Trouble' = Trouble
  BY <1>1, BusyInSession, SameTrouble
<1>4. QED
  BY <1>1, <1>2, <1>3, OffersGrow DEF RegistryView!Offer

LEMMA RefineRegInsert ==
    ASSUME TypeOK, NEW t \in Threads, RegInsert(t)
    PROVE  RegistryView!Put(college[t], key[t])
<1>1. /\ Busy(t) /\ UNCHANGED <<college, disk, complete>>
      /\ pc' = [pc EXCEPT ![t] = "ack"]
      /\ promised' = [promised EXCEPT ![college[t]][key[t]] = NoBody]
      /\ UNCHANGED mishap \/ Blame(college[t], "put")
  BY DEF RegInsert, At, Goto, Busy, files
<1>2. InSession' = InSession
  <2>1. \A u \in Threads : Busy(u)' <=> Busy(u)
    BY <1>1 DEF Busy, TypeOK
  <2>2. QED
    BY <1>1, <2>1, SameSessions
<1>3. /\ InSession[college[t]]
      /\ \/ UNCHANGED Trouble
         \/ Trouble' = [Trouble EXCEPT ![college[t]] = @ \cup {"put"}]
  BY <1>1, BusyInSession, SameTrouble, MoreTrouble
<1>4. QED
  BY <1>1, <1>2, <1>3 DEF RegistryView!Put

LEMMA RefineAnswer ==
    ASSUME TypeOK, CleanInv, NEW t \in Threads, Answer(t)
    PROVE  RegistryView!Promise(college[t], key[t])
<1>1. /\ Busy(t) /\ UNCHANGED <<college, disk, complete, mishap>>
      /\ pc[t] = "ack" /\ pc' = [pc EXCEPT ![t] = "cmd"]
      /\ promised' = [promised EXCEPT ![college[t]][key[t]] = got[t]]
  BY DEF Answer, At, Goto, Busy, files
<1>2. InSession' = InSession
  <2>1. \A u \in Threads : Busy(u)' <=> Busy(u)
    BY <1>1 DEF Busy, TypeOK
  <2>2. QED
    BY <1>1, <2>1, SameSessions
<1>3. InSession[college[t]] /\ Trouble' = Trouble
  BY <1>1, BusyInSession, SameTrouble
<1>4. got[t] \in complete[college[t]][key[t]]
  BY <1>1 DEF CleanInv
<1>5. QED
  BY <1>1, <1>2, <1>3, <1>4 DEF RegistryView!Promise

\* Pages that a handle writes: outside an overlap, clean ones are on disk
\* already, dirty ones are forms handed over, and a form that has been answered
\* is what the handle holds under its name.
LEMMA WrittenPages ==
    ASSUME TypeOK, WholeInv, KeptInv, CleanInv, NEW t \in Threads, loaded[t],
           NEW S \in SUBSET Keys, WritePages(t, S)
    PROVE  RegistryView!Written(college[t])
<1>1. PICK c \in Colleges : c = college[t]
  BY DEF TypeOK
<1>2. disk' = [disk EXCEPT ![c] = disk'[c]]
  BY <1>1 DEF WritePages, TypeOK
<1>3. ASSUME NEW k \in Keys PROVE disk'[c][k] \in RegistryView!MayBecome(c, k)
  <2>1. disk'[c][k] = IF k \in S THEN cache[t][k] ELSE disk[c][k]
    BY <1>1, WritePagesEffect
  <2>2. Trouble[c] = mishap[c] \cap {"overlap", "put", "exit"}
    BY DEF Trouble
  <2>3. CASE k \notin S
    BY <2>1, <2>3 DEF RegistryView!MayBecome
  <2>4. CASE k \in S /\ "overlap" \in Trouble[c]
    BY <1>1, <2>1, <2>4 DEF RegistryView!MayBecome, WholeInv, Whole
  <2>5. CASE k \in S /\ "overlap" \notin Trouble[c] /\ k \notin dirty[t]
    BY <1>1, <2>1, <2>2, <2>5 DEF RegistryView!MayBecome, CleanInv
  <2>6. CASE k \in S /\ "overlap" \notin Trouble[c] /\ k \in dirty[t]
    <3>1. disk'[c][k] = cache[t][k] /\ cache[t][k] \in complete[c][k]
      BY <1>1, <2>1, <2>6 DEF CleanInv
    <3>2. Trouble[c] = {} /\ promised[c][k] # NoBody
          => cache[t][k] = promised[c][k]
      <4>1. t \in Serving(c)
        BY <1>1, <2>6 DEF KeptInv, Serving
      <4>2. QED
        BY <2>2, <4>1 DEF KeptInv, Quiet, OnRecord
    <3>3. QED
      BY <2>6, <3>1, <3>2 DEF RegistryView!MayBecome
  <2>7. QED
    BY <2>3, <2>4, <2>5, <2>6
<1>4. QED
  BY <1>1, <1>2, <1>3 DEF RegistryView!Written

LEMMA RefineEvict ==
    ASSUME TypeOK, WholeInv, KeptInv, CleanInv, NEW t \in Threads,
           NEW k \in Keys, Evict(t, k)
    PROVE  RegistryView!WriteBack(college[t])
<1>1. /\ k \in dirty[t] /\ WritePages(t, {k})
      /\ UNCHANGED <<pc, college, complete, promised, mishap>>
  BY DEF Evict, thread, history
<1>2. loaded[t] /\ Busy(t)
  BY <1>1 DEF KeptInv
<1>3. RegistryView!Written(college[t])
  BY <1>1, <1>2, WrittenPages
<1>4. InSession' = InSession
  BY <1>1, SameSessions DEF Busy
<1>5. InSession[college[t]] /\ Trouble' = Trouble
  BY <1>1, <1>2, BusyInSession, SameTrouble
<1>6. QED
  BY <1>1, <1>3, <1>4, <1>5 DEF RegistryView!WriteBack

\* The last session of an institution leaves what it was answered on record.
LEMMA RefineFreeResource ==
    ASSUME TypeOK, WholeInv, KeptInv, KeptInv', CleanInv, NEW t \in Threads,
           FreeResource(t), NEW c \in Colleges, college[t] = c
    PROVE  RegistryView!Leave(c)
<1>1. /\ Busy(t) /\ pc' = [pc EXCEPT ![t] = "idle"]
      /\ UNCHANGED <<college, complete, promised, mishap>>
  BY DEF FreeResource, At, Goto, Busy
<1>2. ~Busy(t)' /\ \A u \in Threads : u # t => (Busy(u)' <=> Busy(u))
  BY <1>1 DEF Busy, TypeOK
<1>3. RegistryView!Written(c)
  <2>1. CASE dirty[t] = {}
    <3>1. disk' = disk
      BY <2>1 DEF FreeResource
    <3>2. disk' = [disk EXCEPT ![c] = disk'[c]]
      BY <3>1 DEF TypeOK
    <3>3. QED
      BY <3>1, <3>2 DEF RegistryView!Written, RegistryView!MayBecome
  <2>2. CASE dirty[t] # {}
    <3>1. loaded[t] /\ \E S \in SUBSET Keys : WritePages(t, S)
      BY <2>2 DEF FreeResource, KeptInv
    <3>2. QED
      BY <3>1, WrittenPages
  <2>3. QED
    BY <2>1, <2>2
<1>4. InSession[c] /\ Trouble' = Trouble
  BY <1>1, BusyInSession, SameTrouble
<1>5. Trouble[c] = mishap[c] \cap {"overlap", "put", "exit"}
  BY DEF Trouble
<1>6. \A d \in Colleges \ {c} : Serving(d)' = Serving(d)
  BY <1>1, <1>2 DEF Serving
<1>7. CASE Serving(c)' = {}
  <2>1. InSession' = [InSession EXCEPT ![c] = FALSE]
    BY <1>6, <1>7 DEF InSession
  <2>2. ASSUME Trouble[c] = {}, NEW k \in Keys, promised[c][k] # NoBody
        PROVE  disk'[c][k] = promised[c][k]
    <3>1. Quiet(c)' /\ promised'[c][k] = promised[c][k]
      BY <1>1, <1>5, <2>2 DEF Quiet
    <3>2. OnRecord(c, k, promised[c][k])'
      BY <2>2, <3>1 DEF KeptInv
    <3>3. QED
      BY <1>7, <3>1, <3>2 DEF OnRecord
  <2>3. QED
    BY <1>1, <1>3, <1>4, <2>1, <2>2 DEF RegistryView!Leave
<1>8. CASE Serving(c)' # {}
  <2>1. PICK u \in Threads : u # t /\ Busy(u) /\ college[u] = c
    BY <1>1, <1>2, <1>8 DEF Serving
  <2>2. "overlap" \in Trouble[c]
    BY <1>1, <1>5, <2>1 DEF KeptInv
  <2>3. InSession' = InSession
    BY <1>1, <1>6, <1>8 DEF InSession, Serving
  <2>4. QED
    BY <1>1, <1>3, <1>4, <2>2, <2>3 DEF RegistryView!Leave
<1>9. QED
  BY <1>7, <1>8

LEMMA RefineProcessEnds ==
    ASSUME TypeOK, ProcessEnds PROVE RegistryView!Stop
<1>1. /\ \A t \in Threads : ~Busy(t)'
      /\ UNCHANGED <<complete, disk, promised>>
      /\ \A c \in Colleges :
            mishap'[c] = mishap[c] \cup (IF Serving(c) = {} THEN {} ELSE {"exit"})
  BY DEF ProcessEnds, Busy, files
<1>2. InSession' = [c \in Colleges |-> FALSE]
  BY <1>1 DEF InSession, Serving
<1>3. Trouble' = [c \in Colleges |->
                    Trouble[c] \cup (IF InSession[c] THEN {"exit"} ELSE {})]
  <2>1. \A c \in Colleges :
           mishap'[c] \cap {"overlap", "put", "exit"}
           = Trouble[c] \cup (IF InSession[c] THEN {"exit"} ELSE {})
    BY <1>1 DEF Trouble, InSession
  <2>2. QED
    BY <2>1 DEF Trouble
<1>4. QED
  BY <1>1, <1>2, <1>3 DEF RegistryView!Stop

LEMMA RefineNext ==
    TypeOK /\ WholeInv /\ KeptInv /\ KeptInv' /\ CleanInv /\ [Next]_vars
        => [RegistryView!Next]_(RegistryView!vars)
<1> SUFFICES ASSUME TypeOK, WholeInv, KeptInv, KeptInv', CleanInv, [Next]_vars
             PROVE  [RegistryView!Next]_(RegistryView!vars)
  OBVIOUS
<1>0. \A t \in Threads : college[t] \in Colleges /\ key[t] \in Keys
  BY DEF TypeOK
<1>1. ASSUME NEW t \in Threads,
             \/ \E c \in Colleges : Admit(t, c)
             \/ \E k \in Keys : Evict(t, k)
             \/ EndOfForm(t) \/ RegInsert(t) \/ Answer(t) \/ FreeResource(t)
      PROVE  RegistryView!Next
  BY <1>0, <1>1, RefineAdmit, RefineEvict, RefineEndOfForm, RefineRegInsert,
     RefineAnswer, RefineFreeResource DEF RegistryView!Next
<1>2. CASE Exit \/ Crash
  BY <1>2, RefineProcessEnds DEF Exit, Crash, RegistryView!Next
<1>3. ASSUME NEW t \in Threads,
             \/ HangUp(t) \/ EndSession(t) \/ AnswerFails(t) \/ FlushOpen(t)
             \/ \E timedout \in BOOLEAN : Binary(t, timedout)
             \/ \E k \in Keys : Filename(t, k)
             \/ \E l \in Lines : Line(t, l) \/ LineTooMany(t, l)
             \/ FputsFails(t) \/ Abandon(t)
      PROVE  UNCHANGED RegistryView!vars
  <2>1. UNCHANGED <<college, complete, disk, promised>>
    BY <1>3 DEF HangUp, EndSession, AnswerFails, FlushOpen, Binary, Filename,
         Line, LineTooMany, FputsFails, Abandon, files, history, thread, handle
  <2>2. \/ pc' = pc
        \/ pc[t] # "idle" /\ \E phase \in {"cmd", "body", "free"} :
                                 pc' = [pc EXCEPT ![t] = phase]
    BY <1>3 DEF HangUp, EndSession, AnswerFails, FlushOpen, Binary, Filename,
         Line, LineTooMany, FputsFails, Abandon, thread, At, Goto, GotoFree
  <2>3. InSession' = InSession
    <3>1. \A u \in Threads : Busy(u)' <=> Busy(u)
      BY <2>2 DEF Busy, TypeOK
    <3>2. QED
      BY <2>1, <3>1, SameSessions
  <2>4. \/ UNCHANGED mishap \/ Blame(college[t], "text")
        \/ Blame(college[t], "leak")
    BY <1>3 DEF HangUp, EndSession, AnswerFails, FlushOpen, Binary, Filename,
         Line, LineTooMany, FputsFails, Abandon, Fclose, history
  <2>5. Trouble' = Trouble
    BY <1>0, <2>4, SameTrouble
  <2>6. QED
    BY <2>1, <2>3, <2>5 DEF RegistryView!vars
<1>4. ASSUME \/ \E s \in leaked : FlushLeaked(s)
             \/ HandleSignal \/ Start \/ UNCHANGED vars
      PROVE  UNCHANGED RegistryView!vars
  <2>1. UNCHANGED <<pc, college, complete, disk, promised, mishap>>
    BY <1>4 DEF FlushLeaked, HandleSignal, Start, vars, thread, files, history
  <2>2. InSession' = InSession /\ Trouble' = Trouble
    BY <2>1 DEF InSession, Trouble, Serving, Busy
  <2>3. QED
    BY <2>1, <2>2 DEF RegistryView!vars
<1>5. QED
  BY <1>1, <1>2, <1>3, <1>4 DEF Next, ThreadStep

\* Whatever threads, crashes, evictions and lost puts do, the database of an
\* institution and the answers it gets change only as Registry says they may: in
\* particular a session that ends without trouble leaves every answered form
\* on record (server/eduserver.c, manage_client and reg_exitdb).
THEOREM ImplementsTheRegistry == Spec => ImplementsRegistry
<1>1. QED
  BY InitType, NextType, WholeInit, WholeNext, KeptInit, KeptNext, CleanInit,
     CleanNext, RefineInit, RefineNext, PTL
     DEF Spec, ImplementsRegistry, RegistryView!Spec

-----------------------------------------------------------------------------
(***************************************************************************)
(* The text file of an answered form holds the form, until its name is     *)
(* sent again, unless sessions overlap, the disk is full or an overlong    *)
(* form leaves a stream open.                                              *)
(***************************************************************************)

Still(c) == mishap[c] \cap {"overlap", "text", "leak"} = {}

\* What a thread has of a form, from its FILENAME to its "500": nobody has been
\* promised the text meanwhile, the file is empty while the stream fills, and
\* holds the form once the stream is closed.
InForm(t) ==
    /\ stream[t] # <<>> => pc[t] = "body"
    /\ pc[t] = "body" /\ server = "up" => stream[t] = got[t]
    /\ Still(college[t]) =>
         /\ pc[t] \in {"body", "put", "ack"} => ~settled[college[t]][key[t]]
         /\ pc[t] = "body" /\ server = "up" => text[college[t]][key[t]] = <<>>
         /\ pc[t] \in {"put", "ack"} => text[college[t]][key[t]] = got[t]

TextPromised(c, k) ==
    Still(c) /\ settled[c][k] /\ promised[c][k] # NoBody => text[c][k] = promised[c][k]

LeaksBlamed ==
    /\ server = "down" => leaked = {} /\ \A t \in Threads : ~Busy(t)
    /\ \A s \in leaked : "leak" \in mishap[s.college]

TextInv ==
    /\ LeaksBlamed /\ \A t \in Threads : InForm(t)
    /\ \A c \in Colleges, k \in Keys : TextPromised(c, k)

LEMMA TextInit == Init => TextInv
  BY DEF Init, TextInv, LeaksBlamed, InForm, TextPromised, Busy

LEMMA StillBefore ==
    ASSUME \A c \in Colleges : mishap[c] \subseteq mishap'[c]
    PROVE  \A c \in Colleges : Still(c)' => Still(c)
  BY DEF Still

\* A busy thread t moves and touches no file but that of its form: where its
\* college is still, no other thread is in a form of it.
LEMMA TextByThread ==
    ASSUME TypeOK, KeptInv, TextInv, NEW t \in Threads, Busy(t), server = "up",
           NEW d \in Colleges, d = college[t], NEW j \in Keys, j = key'[t],
           UNCHANGED <<server, leaked, college>>,
           \A u \in Threads \ {t} : /\ pc'[u] = pc[u] /\ key'[u] = key[u]
                                    /\ stream'[u] = stream[u] /\ got'[u] = got[u],
           \A c \in Colleges : mishap[c] \subseteq mishap'[c],
           \A c \in Colleges, k \in Keys : c # d \/ k # j =>
              /\ text'[c][k] = text[c][k] /\ settled'[c][k] = settled[c][k]
              /\ promised'[c][k] = promised[c][k],
           InForm(t)', TextPromised(d, j)'
    PROVE  TextInv'
<1>1. \A c \in Colleges : Still(c)' => Still(c)
  BY StillBefore
<1>2. \A u \in Threads : college[u] \in Colleges /\ key[u] \in Keys
  BY DEF TypeOK
<1>3. LeaksBlamed'
  <2>1. \A s \in leaked : s.college \in Colleges
    BY DEF TypeOK, Leak
  <2> QED
    BY <2>1 DEF TextInv, LeaksBlamed
<1>4. ASSUME NEW u \in Threads, u # t PROVE InForm(u)'
  <2>1. InForm(u)
    BY DEF TextInv
  <2>2. CASE Still(college[u])' /\ pc[u] \in {"body", "put", "ack"}
    <3>1. college[u] # college[t]
      BY <1>1, <1>2, <1>4, <2>2 DEF KeptInv, Busy, Still
    <3>2. /\ text'[college[u]][key[u]] = text[college[u]][key[u]]
          /\ settled'[college[u]][key[u]] = settled[college[u]][key[u]]
      BY <1>2, <3>1
    <3> QED
      BY <1>1, <1>2, <1>4, <2>1, <2>2, <3>2 DEF InForm
  <2>3. CASE ~(Still(college[u])' /\ pc[u] \in {"body", "put", "ack"})
    BY <1>4, <2>1, <2>3 DEF InForm
  <2> QED
    BY <2>2, <2>3
<1>5. ASSUME NEW c \in Colleges, NEW k \in Keys PROVE TextPromised(c, k)'
  <2>1. CASE c # d \/ k # j
    <3>1. TextPromised(c, k)
      BY DEF TextInv
    <3> QED
      BY <1>1, <2>1, <3>1 DEF TextPromised
  <2>2. CASE c = d /\ k = j
    BY <2>2
  <2> QED
    BY <2>1, <2>2
<1> QED
  BY <1>3, <1>4, <1>5 DEF TextInv

\* A thread that touches neither its form nor a file.
LEMMA TextAside ==
    ASSUME TypeOK, KeptInv, TextInv, NEW t \in Threads, Busy(t), server = "up",
           UNCHANGED <<server, leaked, college, key, stream, text, settled, promised>>,
           NEW phase \in {"cmd", "free", "idle"}, Goto(t, phase), pc[t] # "body",
           \A u \in Threads \ {t} : got'[u] = got[u],
           \A c \in Colleges : mishap[c] \subseteq mishap'[c]
    PROVE  TextInv'
<1>1. pc'[t] = phase /\ \A u \in Threads \ {t} : pc'[u] = pc[u]
  BY DEF Goto, TypeOK
<1>2. InForm(t)'
  BY <1>1 DEF TextInv, InForm
<1>3. PICK c \in Colleges, k \in Keys : c = college[t] /\ k = key[t]
  BY DEF TypeOK
<1>4. TextPromised(c, k)'
  BY <1>3, StillBefore DEF TextInv, TextPromised
<1> QED
  BY <1>1, <1>2, <1>3, <1>4, TextByThread

LEMMA TextAdmit ==
    ASSUME TypeOK, KeptInv, TextInv, NEW t \in Threads, NEW d \in Colleges, Admit(t, d)
    PROVE  TextInv'
<1>1. /\ server = "up" /\ pc' = [pc EXCEPT ![t] = "cmd"]
      /\ college' = [college EXCEPT ![t] = d]
      /\ UNCHANGED <<server, leaked, key, stream, text, got, promised, settled>>
      /\ Blame(d, "overlap") \/ UNCHANGED mishap
  BY DEF Admit, At, Goto, process, memory, files
<1>2. \A c \in Colleges : mishap[c] \subseteq mishap'[c]
  BY <1>1, StillQuiet
<1>3. \A c \in Colleges : Still(c)' => Still(c)
  BY <1>2, StillBefore
<1>4. pc[t] = "idle" /\ pc'[t] = "cmd" /\ \A u \in Threads \ {t} : pc'[u] = pc[u]
                                          /\ college'[u] = college[u]
  BY <1>1 DEF Admit, At, TypeOK
<1>5. LeaksBlamed'
  <2>1. \A s \in leaked : s.college \in Colleges
    BY DEF TypeOK, Leak
  <2> QED
    BY <1>1, <1>2, <2>1 DEF TextInv, LeaksBlamed
<1>6. ASSUME NEW u \in Threads PROVE InForm(u)'
  <2>1. InForm(u) /\ college[u] \in Colleges
    BY DEF TextInv, TypeOK
  <2> QED
    BY <1>1, <1>3, <1>4, <2>1 DEF InForm
<1>7. \A c \in Colleges, k \in Keys : TextPromised(c, k)'
  BY <1>1, <1>3 DEF TextInv, TextPromised
<1> QED
  BY <1>5, <1>6, <1>7 DEF TextInv

LEMMA TextFilename ==
    ASSUME TypeOK, KeptInv, TextInv, NEW t \in Threads, NEW k \in Keys, Filename(t, k)
    PROVE  TextInv'
<1>0. PICK c \in Colleges : c = college[t]
  BY DEF TypeOK
<1>1. /\ server = "up" /\ Busy(t) /\ pc' = [pc EXCEPT ![t] = "body"]
      /\ key' = [key EXCEPT ![t] = k]
      /\ text' = [text EXCEPT ![college[t]][k] = <<>>]
      /\ stream' = [stream EXCEPT ![t] = <<>>] /\ got' = [got EXCEPT ![t] = <<>>]
      /\ settled' = [settled EXCEPT ![college[t]][k] = FALSE]
      /\ UNCHANGED <<server, leaked, college, promised, mishap>>
  BY DEF Filename, At, Goto, Busy, process
<1>2. /\ pc'[t] = "body" /\ key'[t] = k /\ stream'[t] = <<>> /\ got'[t] = <<>>
      /\ \A u \in Threads \ {t} : /\ pc'[u] = pc[u] /\ key'[u] = key[u]
                                  /\ stream'[u] = stream[u] /\ got'[u] = got[u]
  BY <1>1 DEF TypeOK
<1>3. text'[c][k] = <<>> /\ settled'[c][k] = FALSE
  BY <1>0, <1>1 DEF TypeOK
<1>4. \A d \in Colleges, j \in Keys : d # c \/ j # k =>
         /\ text'[d][j] = text[d][j] /\ settled'[d][j] = settled[d][j]
         /\ promised'[d][j] = promised[d][j]
  BY <1>0, <1>1 DEF TypeOK
<1>7. \A d \in Colleges : mishap[d] \subseteq mishap'[d]
  BY <1>1
<1>5. InForm(t)'
  BY <1>0, <1>1, <1>2, <1>3 DEF InForm
<1>6. TextPromised(c, k)'
  BY <1>1, <1>3 DEF TextPromised
<1> QED
  BY <1>0, <1>1, <1>2, <1>4, <1>5, <1>6, <1>7, TextByThread

LEMMA TextLine ==
    ASSUME TypeOK, KeptInv, TextInv, NEW t \in Threads, NEW l \in Lines, Line(t, l)
    PROVE  TextInv'
<1>0. PICK c \in Colleges, k \in Keys : c = college[t] /\ k = key[t]
  BY DEF TypeOK
<1>1. /\ server = "up" /\ pc[t] = "body" /\ Busy(t)
      /\ got' = [got EXCEPT ![t] = Append(@, l)]
      /\ stream' = [stream EXCEPT ![t] = Append(@, l)]
      /\ UNCHANGED <<server, leaked, pc, college, key, text, promised, settled, mishap>>
  BY DEF Line, At, Busy, thread, files
<1>2. /\ got'[t] = Append(got[t], l) /\ stream'[t] = Append(stream[t], l)
      /\ \A u \in Threads \ {t} : stream'[u] = stream[u] /\ got'[u] = got[u]
  BY <1>1 DEF TypeOK
<1>3. InForm(t)'
  BY <1>1, <1>2 DEF TextInv, InForm, Still
<1>4. TextPromised(c, k)'
  BY <1>1 DEF TextInv, TextPromised, Still
<1> QED
  BY <1>0, <1>1, <1>2, <1>3, <1>4, TextByThread

\* A stream that is left open is blamed for what it may do later.
LEMMA TextLineTooMany ==
    ASSUME TypeOK, KeptInv, TextInv, NEW t \in Threads, NEW l \in Lines, LineTooMany(t, l)
    PROVE  TextInv'
<1>1. /\ server = "up" /\ pc[t] = "body" /\ pc' = [pc EXCEPT ![t] = "cmd"]
      /\ leaked' = leaked \cup {[college |-> college[t], key |-> key[t],
                                 body |-> Append(stream[t], l)]}
      /\ got' = [got EXCEPT ![t] = Append(@, l)] /\ stream' = [stream EXCEPT ![t] = <<>>]
      /\ mishap' = [mishap EXCEPT ![college[t]] = @ \cup {"leak"}]
      /\ UNCHANGED <<server, college, key, text, promised, settled>>
  BY DEF LineTooMany, At, Goto, Blame, files
<1>2. /\ college[t] \in Colleges /\ \A s \in leaked : s.college \in Colleges
      /\ \A u \in Threads : college[u] \in Colleges
  BY DEF TypeOK, Leak
<1>3. "leak" \in mishap'[college[t]] /\ \A c \in Colleges : mishap[c] \subseteq mishap'[c]
  BY <1>1, <1>2 DEF TypeOK
<1>4. \A c \in Colleges : Still(c)' => Still(c)
  BY <1>3, StillBefore
<1>5. LeaksBlamed'
  BY <1>1, <1>2, <1>3 DEF TextInv, LeaksBlamed
<1>6. ASSUME NEW u \in Threads PROVE InForm(u)'
  <2>1. InForm(u)
    BY DEF TextInv
  <2>2. CASE u = t
    BY <1>1, <2>2 DEF InForm, TypeOK
  <2>3. CASE u # t
    <3>1. pc'[u] = pc[u] /\ stream'[u] = stream[u] /\ got'[u] = got[u]
      BY <1>1, <2>3 DEF TypeOK
    <3> QED
      BY <1>1, <1>2, <1>4, <2>1, <3>1 DEF InForm
  <2> QED
    BY <2>2, <2>3
<1>7. \A c \in Colleges, k \in Keys : TextPromised(c, k)'
  BY <1>1, <1>4 DEF TextInv, TextPromised
<1> QED
  BY <1>5, <1>6, <1>7 DEF TextInv

\* A form ends, whole or not: its stream is closed.
LEMMA TextCloses ==
    ASSUME TypeOK, KeptInv, TextInv, NEW t \in Threads,
           FputsFails(t) \/ Abandon(t) \/ EndOfForm(t)
    PROVE  TextInv'
<1>0. PICK c \in Colleges, k \in Keys : c = college[t] /\ k = key[t]
  BY DEF TypeOK
<1>1. /\ server = "up" /\ pc[t] = "body" /\ Busy(t) /\ Fclose(t)
      /\ pc' = [pc EXCEPT ![t] = pc'[t]] /\ pc'[t] \in {"cmd", "free", "put"}
      /\ stream' = [stream EXCEPT ![t] = <<>>]
      /\ UNCHANGED <<server, leaked, college, key, got, promised, settled>>
  BY <1>0 DEF FputsFails, Abandon, EndOfForm, At, Goto, GotoFree, Busy, process,
              TypeOK
<1>2. /\ stream'[t] = <<>>
      /\ \A u \in Threads \ {t} : pc'[u] = pc[u] /\ stream'[u] = stream[u]
  BY <1>0, <1>1 DEF TypeOK
<1>3. \/ Blame(c, "text") /\ UNCHANGED text
      \/ UNCHANGED mishap /\ text' = [text EXCEPT ![c][k] = Overlay(stream[t], @)]
  BY <1>0, <1>1 DEF Fclose
<1>4. \A d \in Colleges : mishap[d] \subseteq mishap'[d]
  BY <1>0, <1>2, <1>3, StillQuiet
<1>5. \A d \in Colleges : Still(d)' => Still(d)
  BY <1>0, <1>4, StillBefore
<1>6. \A d \in Colleges, j \in Keys : d # c \/ j # k => text'[d][j] = text[d][j]
  BY <1>0, <1>2, <1>3 DEF TypeOK
<1>7. Still(c)' => /\ ~settled[c][k]
                   /\ text'[c][k] = got[t]
  <2> SUFFICES ASSUME Still(c)'
               PROVE  ~settled[c][k] /\ text'[c][k] = got[t]
    OBVIOUS
  <2>1. ~settled[c][k] /\ text[c][k] = <<>> /\ stream[t] = got[t]
    BY <1>0, <1>1, <1>2, <1>5 DEF TextInv, InForm
  <2>2. ~Blame(c, "text")
    <3>1. mishap \in [Colleges -> SUBSET Mishaps]
      BY DEF TypeOK
    <3>2. mishap' = [mishap EXCEPT ![c] = @ \cup {"text"}] => "text" \in mishap'[c]
      BY <3>1
    <3> QED
      BY <3>2 DEF Still, Blame
  <2>3. text'[c][k] = Overlay(got[t], <<>>)
    BY <1>0, <1>2, <1>3, <2>1, <2>2 DEF TypeOK
  <2>4. Overlay(got[t], <<>>) = got[t]
    <3>1. got[t] \in Seq(Lines)
      BY DEF TypeOK, Body
    <3> QED
      BY <3>1 DEF Overlay
  <2> QED
    BY <2>1, <2>3, <2>4
<1>8. InForm(t)'
  BY <1>0, <1>1, <1>2, <1>7 DEF InForm
<1>9. TextPromised(c, k)'
  BY <1>0, <1>1, <1>7 DEF TextPromised
<1> QED
  BY <1>0, <1>1, <1>2, <1>4, <1>6, <1>8, <1>9, TextByThread

LEMMA TextRegInsert ==
    ASSUME TypeOK, KeptInv, TextInv, NEW t \in Threads, RegInsert(t)
    PROVE  TextInv'
<1>0. PICK c \in Colleges, k \in Keys : c = college[t] /\ k = key[t]
  BY DEF TypeOK
<1>1. /\ server = "up" /\ pc[t] = "put" /\ Busy(t) /\ pc' = [pc EXCEPT ![t] = "ack"]
      /\ promised' = [promised EXCEPT ![c][k] = NoBody]
      /\ Blame(c, "put") \/ UNCHANGED mishap
      /\ UNCHANGED <<server, leaked, college, key, stream, got, text, settled>>
  BY <1>0 DEF RegInsert, At, Goto, Busy, process, memory, files
<1>2. /\ pc'[t] = "ack" /\ \A u \in Threads \ {t} : pc'[u] = pc[u]
  BY <1>0, <1>1 DEF TypeOK
<1>3. \A d \in Colleges : mishap[d] \subseteq mishap'[d]
  BY <1>0, <1>1, <1>2, StillQuiet
<1>4. Still(c)' => Still(c)
  BY <1>0, <1>2, <1>3, StillBefore
<1>5. InForm(t)'
  BY <1>0, <1>1, <1>2, <1>4 DEF TextInv, InForm
<1>6. promised'[c][k] = NoBody
      /\ \A d \in Colleges, j \in Keys : d # c \/ j # k => promised'[d][j] = promised[d][j]
  BY <1>0, <1>1, <1>2 DEF TypeOK
<1>7. TextPromised(c, k)'
  BY <1>0, <1>1, <1>6 DEF TextPromised
<1> QED
  BY <1>0, <1>1, <1>2, <1>3, <1>5, <1>6, <1>7, TextByThread

LEMMA TextAnswer ==
    ASSUME TypeOK, KeptInv, TextInv, NEW t \in Threads, Answer(t)
    PROVE  TextInv'
<1>0. PICK c \in Colleges, k \in Keys : c = college[t] /\ k = key[t]
  BY DEF TypeOK
<1>1. /\ server = "up" /\ pc[t] = "ack" /\ Busy(t) /\ pc' = [pc EXCEPT ![t] = "cmd"]
      /\ promised' = [promised EXCEPT ![c][k] = got[t]]
      /\ settled' = [settled EXCEPT ![c][k] = TRUE]
      /\ UNCHANGED <<server, leaked, college, key, stream, got, text, mishap>>
  BY <1>0 DEF Answer, At, Goto, Busy, process, memory, files
<1>2. /\ pc'[t] = "cmd" /\ \A u \in Threads \ {t} : pc'[u] = pc[u]
  BY <1>0, <1>1 DEF TypeOK
<1>3. InForm(t)'
  BY <1>0, <1>1, <1>2 DEF TextInv, InForm
<1>4. promised'[c][k] = got[t]
  BY <1>0, <1>1 DEF TypeOK
<1>5. /\ \A d \in Colleges, j \in Keys : d # c \/ j # k =>
            /\ text'[d][j] = text[d][j] /\ settled'[d][j] = settled[d][j]
            /\ promised'[d][j] = promised[d][j]
      /\ \A d \in Colleges : mishap[d] \subseteq mishap'[d]
  BY <1>0, <1>1 DEF TypeOK
<1>6. TextPromised(c, k)'
  <2>1. Still(c) => text[c][k] = got[t]
    BY <1>0, <1>1 DEF TextInv, InForm
  <2> QED
    BY <1>0, <1>1, <1>4, <2>1 DEF TextPromised, Still
<1>7. /\ k = key'[t]
      /\ \A u \in Threads \ {t} : /\ pc'[u] = pc[u] /\ key'[u] = key[u]
                                  /\ stream'[u] = stream[u] /\ got'[u] = got[u]
  BY <1>0, <1>1, <1>2
<1> QED
  BY <1>0, <1>1, <1>3, <1>5, <1>6, <1>7, TextByThread

\* exit flushes a stream into the file of a form that is being received.
LEMMA TextFlushOpen ==
    ASSUME TypeOK, KeptInv, TextInv, NEW t \in Threads, FlushOpen(t)
    PROVE  TextInv'
<1>0. PICK c \in Colleges, k \in Keys : c = college[t] /\ k = key[t]
  BY DEF TypeOK
<1>1. /\ server = "exiting" /\ stream[t] # <<>>
      /\ text' = [text EXCEPT ![c][k] = Overlay(stream[t], @)]
      /\ stream' = [stream EXCEPT ![t] = <<>>]
      /\ UNCHANGED <<server, leaked, pc, college, key, got, promised, settled, mishap>>
  BY <1>0 DEF FlushOpen, process, thread, history
<1>2. /\ stream'[t] = <<>> /\ \A u \in Threads \ {t} : stream'[u] = stream[u]
      /\ \A u \in Threads : college[u] \in Colleges /\ key[u] \in Keys
      /\ \A d \in Colleges, j \in Keys : d # c \/ j # k => text'[d][j] = text[d][j]
  BY <1>0, <1>1 DEF TypeOK
<1>3. pc[t] = "body" /\ (Still(c) => ~settled[c][k])
  BY <1>0, <1>1 DEF TextInv, InForm
<1>4. ASSUME NEW u \in Threads PROVE InForm(u)'
  <2>1. InForm(u)
    BY DEF TextInv
  <2>2. CASE Still(college[u]) /\ pc[u] \in {"put", "ack"}
    <3>1. college[u] # c
      BY <1>0, <1>2, <1>3, <2>2 DEF KeptInv, Busy, Still
    <3> QED
      BY <1>0, <1>1, <1>2, <2>1, <2>2, <3>1 DEF InForm, Still
  <2>3. CASE ~(Still(college[u]) /\ pc[u] \in {"put", "ack"})
    BY <1>0, <1>1, <1>2, <2>1, <2>3 DEF InForm, Still
  <2> QED
    BY <2>2, <2>3
<1>5. ASSUME NEW d \in Colleges, NEW j \in Keys PROVE TextPromised(d, j)'
  <2>1. TextPromised(d, j)
    BY DEF TextInv
  <2>2. CASE d # c \/ j # k
    BY <1>0, <1>1, <1>2, <2>1, <2>2 DEF TextPromised, Still
  <2>3. CASE d = c /\ j = k
    BY <1>0, <1>1, <1>3, <2>3 DEF TextPromised, Still
  <2> QED
    BY <2>2, <2>3
<1>6. LeaksBlamed'
  BY <1>0, <1>1 DEF TextInv, LeaksBlamed, Busy
<1> QED
  BY <1>4, <1>5, <1>6 DEF TextInv

\* It flushes streams that were left open, into whatever lies there now.
LEMMA TextFlushLeaked ==
    ASSUME TypeOK, KeptInv, TextInv, NEW s \in leaked, FlushLeaked(s)
    PROVE  TextInv'
<1>1. /\ server = "exiting" /\ leaked' = leaked \ {s}
      /\ text' = [text EXCEPT ![s.college][s.key] = Overlay(s.body, @)]
      /\ UNCHANGED <<server, pc, college, key, stream, got, promised, settled, mishap>>
  BY DEF FlushLeaked, thread, memory, history
<1>2. ~Still(s.college) /\ s.college \in Colleges
  BY DEF TextInv, LeaksBlamed, Still, TypeOK, Leak
<1>3. \A d \in Colleges : Still(d) => text'[d] = text[d]
  BY <1>1, <1>2 DEF TypeOK
<1>4. \A u \in Threads : college[u] \in Colleges
  BY DEF TypeOK
<1>5. \A u \in Threads : InForm(u)'
  BY <1>1, <1>3, <1>4 DEF TextInv, InForm, Still
<1>6. \A c \in Colleges, k \in Keys : TextPromised(c, k)'
  BY <1>1, <1>3 DEF TextInv, TextPromised, Still
<1>7. LeaksBlamed'
  BY <1>1 DEF TextInv, LeaksBlamed, Busy
<1> QED
  BY <1>5, <1>6, <1>7 DEF TextInv

LEMMA TextProcessEnds ==
    ASSUME TypeOK, TextInv, ProcessEnds PROVE TextInv'
<1>1. /\ leaked' = {} /\ \A t \in Threads : pc'[t] = "idle" /\ stream'[t] = <<>>
      /\ UNCHANGED <<text, promised, settled>>
      /\ \A c \in Colleges : mishap[c] \subseteq mishap'[c]
  BY DEF ProcessEnds, files
<1>2. \A t \in Threads : InForm(t)'
  BY <1>1 DEF InForm
<1>3. \A c \in Colleges, k \in Keys : TextPromised(c, k)'
  BY <1>1, StillBefore DEF TextInv, TextPromised
<1>4. LeaksBlamed'
  BY <1>1 DEF LeaksBlamed, Busy
<1> QED
  BY <1>2, <1>3, <1>4 DEF TextInv

LEMMA TextNext == TypeOK /\ KeptInv /\ TextInv /\ [Next]_vars => TextInv'
<1> SUFFICES ASSUME TypeOK, KeptInv, TextInv, [Next]_vars PROVE TextInv'
  OBVIOUS
<1>1. ASSUME NEW t \in Threads,
             HangUp(t) \/ (\E timedout \in BOOLEAN : Binary(t, timedout))
               \/ (\E k \in Keys : Evict(t, k))
      PROVE  TextInv'
  <2>1. UNCHANGED <<server, leaked, pc, college, key, stream, got, text, promised, settled,
                    mishap>>
    BY <1>1 DEF HangUp, Binary, Evict, process, thread, memory, files, history
  <2> QED
    BY <2>1 DEF TextInv, LeaksBlamed, InForm, TextPromised, Still, Busy
<1>2. ASSUME NEW t \in Threads, EndSession(t) \/ AnswerFails(t) PROVE TextInv'
  <2>1. /\ server = "up" /\ Busy(t) /\ pc[t] # "body" /\ Goto(t, "free")
        /\ UNCHANGED <<server, leaked, college, key, stream, got, text, promised, settled,
                       mishap>>
    BY <1>2 DEF EndSession, AnswerFails, At, GotoFree, Busy, process, memory, files,
                history
  <2> QED
    BY <2>1, TextAside
<1>3. ASSUME NEW t \in Threads, FreeResource(t) PROVE TextInv'
  <2>1. /\ server = "up" /\ Busy(t) /\ pc[t] # "body" /\ Goto(t, "idle")
        /\ got' = [got EXCEPT ![t] = <<>>]
        /\ UNCHANGED <<server, leaked, college, key, stream, text, promised, settled, mishap>>
    BY <1>3 DEF FreeResource, At, Busy, process
  <2>2. \A u \in Threads \ {t} : got'[u] = got[u]
    BY <2>1 DEF TypeOK
  <2> QED
    BY <2>1, <2>2, TextAside
<1>4. ASSUME HandleSignal \/ Start \/ UNCHANGED vars PROVE TextInv'
  <2>1. UNCHANGED <<leaked, pc, college, key, stream, got, text, promised, settled, mishap>>
    BY <1>4 DEF HandleSignal, Start, vars, process, thread, memory, files, history
  <2>2. server' = "up" => server = "up" \/ \A t \in Threads : ~Busy(t)
    BY <1>4 DEF HandleSignal, Start, vars, process, TextInv, LeaksBlamed
  <2>3. server' = "down" => server = "down"
    BY <1>4 DEF HandleSignal, Start, vars, process
  <2> QED
    BY <2>1, <2>2, <2>3 DEF TextInv, LeaksBlamed, InForm, TextPromised, Still, Busy
<1> QED
  BY <1>1, <1>2, <1>3, <1>4, TextAdmit, TextFilename, TextLine, TextLineTooMany, TextCloses,
     TextRegInsert, TextAnswer, TextFlushOpen, TextFlushLeaked, TextProcessEnds
     DEF Next, ThreadStep, Exit, Crash

\* Once a form is answered its text file holds it too, until the name is sent
\* again, for any number of sessions, forms and lines (server/eduserver.c, the
\* stream of manage_client).
THEOREM TextsAreKept == Spec => []AnsweredText
<1>1. TextInv => AnsweredText
  BY DEF TextInv, TextPromised, AnsweredText, Still
<1> QED
  BY <1>1, InitType, NextType, KeptInit, KeptNext, TextInit, TextNext, PTL DEF Spec
===============================================================================
