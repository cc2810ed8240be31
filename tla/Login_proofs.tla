----------------------------- MODULE Login_proofs -----------------------------
(***************************************************************************)
(* Proofs about Login and about PassFile, which it extends.  Of the tools  *)
(* alone: type correctness, and that a stored edit stays unless tools      *)
(* overlap or one is killed, for any number of tools, colleges and edits.  *)
(* Beside the server: type correctness, that the server's verdicts rest on *)
(* records the password file had, and that a reload makes it see what the  *)
(* tools stored; for any number of threads, tools, colleges and times.     *)
(***************************************************************************)
EXTENDS Login, TLAPS

-----------------------------------------------------------------------------
(* The tools alone *)


\* What pages read together leave in the cache.
LEMMA ReadPagesType ==
    ASSUME ToolTypeOK, NEW p \in Tools, NEW S \in SUBSET Colleges
    PROVE  /\ ReadPages(sees[p], S) \in [Colleges -> Entry \cup {Unread}]
           /\ \A u \in Colleges :
                 /\ u \in S => ReadPages(sees[p], S)[u] \in Entry
                 /\ sees[p][u] # Unread
                    => ReadPages(sees[p], S)[u] = sees[p][u]
                 /\ ReadPages(sees[p], S)[u] \in {sees[p][u], file[u]}
<1>1. sees[p] \in [Colleges -> Entry \cup {Unread}] BY DEF ToolTypeOK
<1>2. file \in [Colleges -> Entry] BY DEF ToolTypeOK
<1> QED BY <1>1, <1>2, PassFileAssumption DEF ReadPages

\* A record with its flag set or cleared is a record.
LEMMA FlaggedType ==
    ASSUME NEW p, NEW r \in Record
    PROVE  Flagged(p, r) \in Record
BY DEF Flagged, Record

-----------------------------------------------------------------------------
(* Type correctness *)

\* An edit in the cache keeps the types.
LEMMA StoredType ==
    ASSUME ToolTypeOK, NEW p \in Tools, NEW u \in Colleges, tool[p] # "off",
           NEW S \in SUBSET Colleges, u \in S, NEW e \in Entry,
           Stored(p, u, ReadPages(sees[p], S), e),
           UNCHANGED <<file, tool, shared>>, edits' = edits + 1,
           pwd' \in [Tools -> Entry]
    PROVE  ToolTypeOK'
<1> DEFINE cached == ReadPages(sees[p], S)
<1>1. cached \in [Colleges -> Entry \cup {Unread}] BY ReadPagesType
<1>2. /\ sees \in [Tools -> [Colleges -> Entry \cup {Unread}]]
      /\ unsaved \in [Tools -> SUBSET Colleges]
      /\ wanted \in [Colleges -> Entry \cup {Unsure}]
      /\ tool \in [Tools -> Programs \cup {"off"}]
      /\ edits \in Nat
  BY DEF ToolTypeOK
<1>3. /\ sees' = [sees EXCEPT ![p] = [cached EXCEPT ![u] = e]]
      /\ unsaved' = [unsaved EXCEPT ![p] = @ \cup {u}]
      /\ wanted' = [wanted EXCEPT ![u] = IF shared[p] THEN Unsure ELSE e]
  BY DEF Stored
<1>4. [cached EXCEPT ![u] = e] \in [Colleges -> Entry \cup {Unread}]
  BY <1>1
<1>5. sees' \in [Tools -> [Colleges -> Entry \cup {Unread}]]
  BY <1>2, <1>3, <1>4
<1>6. unsaved' \in [Tools -> SUBSET Colleges] BY <1>2, <1>3
<1>7. wanted' \in [Colleges -> Entry \cup {Unsure}] BY <1>2, <1>3
<1>8. ASSUME NEW q \in Tools, NEW v \in Colleges
      PROVE  /\ v \in unsaved'[q] => sees'[q][v] # Unread
             /\ sees'[q][v] # Unread => tool'[q] # "off"
  <2>1. /\ v \in unsaved[q] => sees[q][v] # Unread
        /\ sees[q][v] # Unread => tool[q] # "off"
    BY DEF ToolTypeOK
  <2>2. CASE q # p BY <1>2, <1>3, <2>1, <2>2
  <2>3. CASE q = p
    <3>1. sees'[q] = [cached EXCEPT ![u] = e] BY <1>2, <1>3, <2>3
    <3>2. unsaved'[q] = unsaved[q] \cup {u} BY <1>2, <1>3, <2>3
    <3>3. sees[q][v] # Unread => cached[v] = sees[q][v]
      BY ReadPagesType, <2>3
    <3>4. e # Unread BY PassFileAssumption
    <3> HIDE DEF cached
    <3> QED BY <1>1, <2>1, <2>3, <3>1, <3>2, <3>3, <3>4
  <2> QED BY <2>2, <2>3
<1>9. edits' \in Nat BY <1>2
<1> QED BY <1>5, <1>6, <1>7, <1>8, <1>9 DEF ToolTypeOK

\* A look in the cache keeps the types.
LEMMA MissedType ==
    ASSUME ToolTypeOK, NEW p \in Tools, tool[p] # "off",
           NEW S \in SUBSET Colleges,
           Missed(p, ReadPages(sees[p], S)),
           UNCHANGED <<file, tool, shared, pwd>>, edits' = edits + 1
    PROVE  ToolTypeOK'
<1> DEFINE cached == ReadPages(sees[p], S)
<1>1. cached \in [Colleges -> Entry \cup {Unread}] BY ReadPagesType
<1>2. /\ sees \in [Tools -> [Colleges -> Entry \cup {Unread}]]
      /\ edits \in Nat
  BY DEF ToolTypeOK
<1>3. /\ sees' = [sees EXCEPT ![p] = cached]
      /\ UNCHANGED <<unsaved, wanted>>
  BY DEF Missed
<1>4. sees' \in [Tools -> [Colleges -> Entry \cup {Unread}]]
  BY <1>1, <1>2, <1>3
<1>5. ASSUME NEW q \in Tools, NEW v \in Colleges
      PROVE  /\ v \in unsaved'[q] => sees'[q][v] # Unread
             /\ sees'[q][v] # Unread => tool'[q] # "off"
  <2>1. /\ v \in unsaved[q] => sees[q][v] # Unread
        /\ sees[q][v] # Unread => tool[q] # "off"
    BY DEF ToolTypeOK
  <2>2. q = p /\ sees[q][v] # Unread => cached[v] = sees[q][v]
    BY ReadPagesType
  <2> HIDE DEF cached
  <2> QED BY <1>2, <1>3, <2>1, <2>2
<1>6. edits' \in Nat BY <1>2
<1> QED BY <1>3, <1>4, <1>5, <1>6 DEF ToolTypeOK

\* Every step of a tool keeps the types.
LEMMA ToolStepType ==
    ASSUME ToolTypeOK, NEW p \in Tools, ToolStep(p)
    PROVE  ToolTypeOK'
<1> USE PassFileAssumption
<1>0. /\ file \in [Colleges -> Entry]
      /\ tool \in [Tools -> Programs \cup {"off"}]
      /\ sees \in [Tools -> [Colleges -> Entry \cup {Unread}]]
      /\ unsaved \in [Tools -> SUBSET Colleges]
      /\ pwd \in [Tools -> Entry]
      /\ shared \in [Tools -> BOOLEAN]
      /\ wanted \in [Colleges -> Entry \cup {Unsure}]
      /\ edits \in Nat
  BY DEF ToolTypeOK
<1>1. ASSUME NEW u \in Colleges, Insert(p, u) PROVE ToolTypeOK'
  <2>1. PICK S \in SUBSET Colleges, r \in Record :
           u \in S /\ Stored(p, u, ReadPages(sees[p], S), r)
    BY <1>1 DEF Insert
  <2> QED BY <1>0, <1>1, <2>1, StoredType DEF Insert, Edit, Entry
<1>2. ASSUME NEW u \in Colleges, Delete(p, u) PROVE ToolTypeOK'
  <2> DEFINE cached(S) == ReadPages(sees[p], S)
  <2>1. PICK S \in SUBSET Colleges :
           /\ u \in S
           /\ IF cached(S)[u] = NoRecord THEN Missed(p, cached(S))
              ELSE Stored(p, u, cached(S), NoRecord)
    BY <1>2 DEF Delete
  <2>2. CASE Missed(p, cached(S))
    BY <1>0, <1>2, <2>2, MissedType DEF Delete, Edit
  <2>3. CASE Stored(p, u, cached(S), NoRecord)
    BY <1>0, <1>2, <2>1, <2>3, StoredType DEF Delete, Edit, Entry
  <2> QED BY <2>1, <2>2, <2>3
<1>3. ASSUME NEW u \in Colleges, Toggle(p, u) PROVE ToolTypeOK'
  <2> DEFINE cached(S) == ReadPages(sees[p], S)
  <2>1. PICK S \in SUBSET Colleges :
           /\ u \in S
           /\ IF cached(S)[u] = NoRecord
              THEN Missed(p, cached(S)) /\ UNCHANGED pwd
              ELSE /\ pwd' = [pwd EXCEPT ![p] = Flagged(p, cached(S)[u])]
                   /\ Stored(p, u, cached(S), Flagged(p, cached(S)[u]))
    BY <1>3 DEF Toggle
  <2>2. CASE cached(S)[u] = NoRecord
    BY <1>0, <1>3, <2>1, <2>2, MissedType DEF Toggle, Edit
  <2>3. CASE cached(S)[u] # NoRecord
    <3>1. cached(S)[u] \in Entry BY <2>1, ReadPagesType
    <3>2. cached(S)[u] \in Record BY <2>3, <3>1 DEF Entry
    <3>3. PICK e : e = Flagged(p, cached(S)[u]) OBVIOUS
    <3>4. e \in Entry BY <3>2, <3>3, FlaggedType DEF Entry
    <3>5. /\ pwd' = [pwd EXCEPT ![p] = e]
          /\ Stored(p, u, cached(S), e)
      BY <2>1, <2>3, <3>3
    <3>6. pwd' \in [Tools -> Entry] BY <1>0, <3>4, <3>5
    <3> QED BY <1>0, <1>3, <2>1, <3>4, <3>5, <3>6, StoredType
            DEF Toggle, Edit
  <2> QED BY <2>2, <2>3
<1>4. ASSUME NEW u \in Colleges, ToggleBlind(p, u) PROVE ToolTypeOK'
  <2>1. PICK S \in SUBSET Colleges, r \in Record :
           /\ u \in S
           /\ pwd' = [pwd EXCEPT ![p] = Flagged(p, r)]
           /\ Stored(p, u, ReadPages(sees[p], S), Flagged(p, r))
    BY <1>4 DEF ToggleBlind
  <2>2. Flagged(p, r) \in Entry BY FlaggedType DEF Entry
  <2>3. pwd' \in [Tools -> Entry] BY <1>0, <2>1, <2>2
  <2> QED BY <1>0, <1>4, <2>1, <2>2, <2>3, StoredType DEF ToggleBlind, Edit
<1>5. ASSUME NEW program \in Programs, Open(p, program) PROVE ToolTypeOK'
  <2>1. tool' \in [Tools -> Programs \cup {"off"}] BY <1>0, <1>5 DEF Open
  <2>2. pwd' \in [Tools -> Entry] BY <1>0, <1>5 DEF Open, Entry
  <2>3. shared' \in [Tools -> BOOLEAN] BY <1>0, <1>5 DEF Open
  <2>4. wanted' \in [Colleges -> Entry \cup {Unsure}]
    BY <1>0, <1>5 DEF Open
  <2>5. ASSUME NEW q \in Tools, NEW v \in Colleges
        PROVE  /\ v \in unsaved'[q] => sees'[q][v] # Unread
               /\ sees'[q][v] # Unread => tool'[q] # "off"
    <3>1. /\ v \in unsaved[q] => sees[q][v] # Unread
          /\ sees[q][v] # Unread => tool[q] # "off"
      BY DEF ToolTypeOK
    <3> QED BY <1>0, <1>5, <3>1 DEF Open, Programs
  <2> QED BY <1>0, <1>5, <2>1, <2>2, <2>3, <2>4, <2>5 DEF Open, ToolTypeOK
<1>6. ASSUME Ended(p), UNCHANGED edits,
             file' \in [Colleges -> Entry],
             wanted' \in [Colleges -> Entry \cup {Unsure}]
      PROVE  ToolTypeOK'
  <2>1. tool' \in [Tools -> Programs \cup {"off"}] BY <1>0, <1>6 DEF Ended
  <2>2. unsaved' \in [Tools -> SUBSET Colleges] BY <1>0, <1>6 DEF Ended
  <2>3. shared' \in [Tools -> BOOLEAN] BY <1>0, <1>6 DEF Ended
  <2>4. sees' \in [Tools -> [Colleges -> Entry \cup {Unread}]]
    BY <1>0, <1>6 DEF Ended
  <2>6. pwd' \in [Tools -> Entry] BY <1>0, <1>6 DEF Ended, Entry
  <2>5. ASSUME NEW q \in Tools, NEW v \in Colleges
        PROVE  /\ v \in unsaved'[q] => sees'[q][v] # Unread
               /\ sees'[q][v] # Unread => tool'[q] # "off"
    <3>1. /\ v \in unsaved[q] => sees[q][v] # Unread
          /\ sees[q][v] # Unread => tool[q] # "off"
      BY DEF ToolTypeOK
    <3>2. CASE q = p BY <1>0, <1>6, <3>2 DEF Ended
    <3>3. CASE q # p BY <1>0, <1>6, <3>1, <3>3 DEF Ended
    <3> QED BY <3>2, <3>3
  <2> QED BY <1>0, <1>6, <2>1, <2>2, <2>3, <2>4, <2>5, <2>6 DEF ToolTypeOK
<1>7. ASSUME NEW S \in SUBSET Colleges,
             \A u \in S : sees[p][u] # Unread, WritePages(p, S)
      PROVE  file' \in [Colleges -> Entry]
  BY <1>0, <1>7 DEF WritePages
<1>8. ASSUME Close(p) PROVE ToolTypeOK'
  BY <1>0, <1>6, <1>7, <1>8 DEF Close
<1>9. ASSUME Kill(p) PROVE ToolTypeOK'
  <2>1. wanted' \in [Colleges -> Entry \cup {Unsure}]
    BY <1>0, <1>9 DEF Kill
  <2> QED BY <1>0, <1>6, <1>9, <2>1 DEF Kill
<1>10. ASSUME NEW S \in SUBSET Colleges, Evict(p, S) PROVE ToolTypeOK'
  <2>1. file' \in [Colleges -> Entry] BY <1>0, <1>7, <1>10 DEF Evict
  <2>2. unsaved' \in [Tools -> SUBSET Colleges] BY <1>0, <1>10 DEF Evict
  <2>3. [u \in Colleges |-> IF u \in S THEN Unread ELSE sees[p][u]]
           \in [Colleges -> Entry \cup {Unread}]
    BY <1>0
  <2>4. sees' = [sees EXCEPT ![p] =
                    [u \in Colleges |-> IF u \in S THEN Unread ELSE sees[p][u]]]
    BY <1>10 DEF Evict
  <2>5. sees' \in [Tools -> [Colleges -> Entry \cup {Unread}]]
    BY <1>0, <2>3, <2>4
  <2>6. ASSUME NEW q \in Tools, NEW v \in Colleges
        PROVE  /\ v \in unsaved'[q] => sees'[q][v] # Unread
               /\ sees'[q][v] # Unread => tool'[q] # "off"
    <3>1. /\ v \in unsaved[q] => sees[q][v] # Unread
          /\ sees[q][v] # Unread => tool[q] # "off"
      BY DEF ToolTypeOK
    <3>2. tool' = tool /\ unsaved' = [unsaved EXCEPT ![p] = @ \ S]
      BY <1>10 DEF Evict
    <3>3. CASE q = p BY <1>0, <2>4, <3>1, <3>2, <3>3
    <3>4. CASE q # p BY <1>0, <2>4, <3>1, <3>2, <3>4
    <3> QED BY <3>3, <3>4
  <2> QED BY <1>0, <1>10, <2>1, <2>2, <2>5, <2>6 DEF Evict, ToolTypeOK
<1> QED BY <1>1, <1>2, <1>3, <1>4, <1>5, <1>8, <1>9, <1>10 DEF ToolStep

\* The tools never put anything ill-typed in the file, whatever they do side
\* by side and wherever they are interrupted.
THEOREM ToolTypeCorrect == ToolSpec => []ToolTypeOK
<1>1. ToolInit => ToolTypeOK
  BY PassFileAssumption DEF ToolInit, ToolTypeOK, Entry
<1>2. ToolTypeOK /\ [ToolNext]_toolvars => ToolTypeOK'
  <2>1. ASSUME ToolTypeOK, ToolNext PROVE ToolTypeOK'
    BY <2>1, ToolStepType DEF ToolNext
  <2>2. ASSUME ToolTypeOK, UNCHANGED toolvars PROVE ToolTypeOK'
    BY <2>2 DEF toolvars, ToolTypeOK
  <2> QED BY <2>1, <2>2
<1> QED BY <1>1, <1>2, PTL DEF ToolSpec

-----------------------------------------------------------------------------
(* Edits are kept *)

\* Tools that run beside each other know it, in the history, and have nothing
\* unsaved that anybody relies on.
KeptInv ==
    /\ EditIsKept
    /\ \A p, q \in Tools :
          tool[p] # "off" /\ tool[q] # "off" /\ p # q => shared[p]
    /\ \A p \in Tools, u \in Colleges :
          shared[p] /\ u \in unsaved[p] => wanted[u] = Unsure

\* Where somebody relies on the record of u, a tool that reads finds it.
LEMMA FoundIsWanted ==
    ASSUME ToolTypeOK, KeptInv, NEW p \in Tools, tool[p] # "off",
           NEW S \in SUBSET Colleges, NEW u \in Colleges,
           wanted[u] # Unsure
    PROVE  ReadPages(sees[p], S)[u] \in {Unread, wanted[u]}
<1>1. CASE sees[p][u] # Unread
  <2>1. ReadPages(sees[p], S)[u] = sees[p][u] BY <1>1, ReadPagesType
  <2> QED BY <2>1 DEF KeptInv, EditIsKept
<1>2. CASE sees[p][u] = Unread
  <2>1. ASSUME NEW q \in Tools, u \in unsaved[q] PROVE FALSE
    <3>1. sees[q][u] # Unread BY <2>1 DEF ToolTypeOK
    <3>2. q # p /\ tool[q] # "off" BY <1>2, <3>1 DEF ToolTypeOK
    <3>3. shared[q] BY <3>2 DEF KeptInv
    <3> QED BY <2>1, <3>3 DEF KeptInv
  <2>2. file[u] = wanted[u] BY <2>1 DEF KeptInv, EditIsKept
  <2> QED BY <1>2, <2>2, ReadPagesType
<1> QED BY <1>1, <1>2

LEMMA StoredKeeps ==
    ASSUME ToolTypeOK, KeptInv, NEW p \in Tools, tool[p] # "off",
           NEW u \in Colleges, NEW S \in SUBSET Colleges, NEW e \in Entry,
           Stored(p, u, ReadPages(sees[p], S), e),
           UNCHANGED <<file, tool, shared>>
    PROVE  KeptInv'
<1> DEFINE cached == ReadPages(sees[p], S)
<1>1. cached \in [Colleges -> Entry \cup {Unread}] BY ReadPagesType
<1>2. /\ sees \in [Tools -> [Colleges -> Entry \cup {Unread}]]
      /\ unsaved \in [Tools -> SUBSET Colleges]
      /\ wanted \in [Colleges -> Entry \cup {Unsure}]
  BY DEF ToolTypeOK
<1>3. /\ sees' = [sees EXCEPT ![p] = [cached EXCEPT ![u] = e]]
      /\ unsaved' = [unsaved EXCEPT ![p] = @ \cup {u}]
      /\ wanted' = [wanted EXCEPT ![u] = IF shared[p] THEN Unsure ELSE e]
  BY DEF Stored
<1>4. ASSUME NEW v \in Colleges, wanted'[v] # Unsure
      PROVE  /\ \A q \in Tools : sees'[q][v] \in {Unread, wanted'[v]}
             /\ (\A q \in Tools : v \notin unsaved'[q])
                => file'[v] = wanted'[v]
  <2>1. CASE v = u
    <3>1. ~shared[p] /\ wanted'[v] = e BY <1>2, <1>3, <1>4, <2>1
    <3>2. ASSUME NEW q \in Tools PROVE sees'[q][v] \in {Unread, wanted'[v]}
      <4>1. CASE q = p
        <5> HIDE DEF cached
        <5> QED BY <1>1, <1>2, <1>3, <2>1, <3>1, <4>1
      <4>2. CASE q # p
        <5>1. tool[q] = "off" BY <3>1, <4>2 DEF KeptInv
        <5>2. sees[q][v] = Unread BY <5>1 DEF ToolTypeOK
        <5> QED BY <1>2, <1>3, <4>2, <5>2
      <4> QED BY <4>1, <4>2
    <3>3. v \in unsaved'[p] BY <1>2, <1>3, <2>1
    <3> QED BY <3>2, <3>3
  <2>2. CASE v # u
    <3>1. wanted'[v] = wanted[v] BY <1>2, <1>3, <2>2
    <3>2. wanted[v] # Unsure BY <1>4, <3>1
    <3>3. cached[v] \in {Unread, wanted[v]} BY <3>2, FoundIsWanted
    <3>4. ASSUME NEW q \in Tools PROVE sees'[q][v] \in {Unread, wanted[v]}
      <4>1. CASE q = p
        <5> HIDE DEF cached
        <5> QED BY <1>1, <1>2, <1>3, <2>2, <3>3, <4>1
      <4>2. CASE q # p
        <5>1. sees[q][v] \in {Unread, wanted[v]}
          BY <3>2 DEF KeptInv, EditIsKept
        <5> QED BY <1>2, <1>3, <4>2, <5>1
      <4> QED BY <4>1, <4>2
    <3>5. \A q \in Tools : v \in unsaved[q] => v \in unsaved'[q]
      BY <1>2, <1>3
    <3> QED BY <3>1, <3>2, <3>4, <3>5 DEF KeptInv, EditIsKept
  <2> QED BY <2>1, <2>2
<1>5. \A q, r \in Tools :
         tool'[q] # "off" /\ tool'[r] # "off" /\ q # r => shared'[q]
  BY DEF KeptInv
<1>6. ASSUME NEW q \in Tools, NEW v \in Colleges,
             shared'[q], v \in unsaved'[q]
      PROVE  wanted'[v] = Unsure
  <2>1. CASE v = u
    <3>1. CASE q = p BY <1>2, <1>3, <1>6, <2>1, <3>1
    <3>2. CASE q # p
      <4>1. v \in unsaved[q] BY <1>2, <1>3, <1>6, <3>2
      <4>2. tool[q] # "off" BY <4>1 DEF ToolTypeOK
      <4>3. shared[p] BY <3>2, <4>2 DEF KeptInv
      <4> QED BY <1>2, <1>3, <2>1, <4>3
    <3> QED BY <3>1, <3>2
  <2>2. CASE v # u
    <3>1. v \in unsaved[q] /\ shared[q] BY <1>2, <1>3, <1>6, <2>2
    <3> QED BY <1>2, <1>3, <2>2, <3>1 DEF KeptInv
  <2> QED BY <2>1, <2>2
<1> QED BY <1>4, <1>5, <1>6 DEF KeptInv, EditIsKept

LEMMA MissedKeeps ==
    ASSUME ToolTypeOK, KeptInv, NEW p \in Tools, tool[p] # "off",
           NEW S \in SUBSET Colleges,
           Missed(p, ReadPages(sees[p], S)),
           UNCHANGED <<file, tool, shared>>
    PROVE  KeptInv'
<1> DEFINE cached == ReadPages(sees[p], S)
<1>1. sees \in [Tools -> [Colleges -> Entry \cup {Unread}]]
  BY DEF ToolTypeOK
<1>2. sees' = [sees EXCEPT ![p] = cached] /\ UNCHANGED <<unsaved, wanted>>
  BY DEF Missed
<1>3. ASSUME NEW v \in Colleges, wanted[v] # Unsure, NEW q \in Tools
      PROVE  sees'[q][v] \in {Unread, wanted[v]}
  <2>1. cached[v] \in {Unread, wanted[v]} BY <1>3, FoundIsWanted
  <2>2. sees[q][v] \in {Unread, wanted[v]} BY <1>3 DEF KeptInv, EditIsKept
  <2> HIDE DEF cached
  <2> QED BY <1>1, <1>2, <2>1, <2>2
<1> QED BY <1>2, <1>3 DEF KeptInv, EditIsKept

\* A tool opens the file: what the others have unsaved is relied on no more.
LEMMA OpenKeeps ==
    ASSUME ToolTypeOK, KeptInv, NEW p \in Tools, NEW program \in Programs,
           Open(p, program)
    PROVE  KeptInv'
<1>1. /\ tool \in [Tools -> Programs \cup {"off"}]
      /\ wanted \in [Colleges -> Entry \cup {Unsure}]
      /\ shared \in [Tools -> BOOLEAN]
  BY DEF ToolTypeOK
<1>2. /\ tool' = [tool EXCEPT ![p] = program]
      /\ shared' = [q \in Tools |-> IF Running # {} /\ q \in Running \cup {p}
                                    THEN TRUE ELSE shared[q]]
      /\ wanted' = [u \in Colleges |->
                      IF \E q \in Running : u \in unsaved[q]
                      THEN Unsure ELSE wanted[u]]
      /\ UNCHANGED <<file, sees, unsaved>>
      /\ tool[p] = "off"
  BY DEF Open
<1>3. ASSUME NEW u \in Colleges, wanted'[u] # Unsure
      PROVE  wanted'[u] = wanted[u]
  BY <1>2, <1>3
<1>4. EditIsKept' BY <1>2, <1>3 DEF KeptInv, EditIsKept
<1>5. ASSUME NEW q \in Tools, NEW r \in Tools,
             tool'[q] # "off", tool'[r] # "off", q # r
      PROVE  shared'[q]
  <2>1. q \in Running \/ r \in Running BY <1>1, <1>2, <1>5 DEF Running
  <2>2. q \in Running \cup {p} BY <1>1, <1>2, <1>5 DEF Running
  <2> QED BY <1>2, <2>1, <2>2
<1>6. ASSUME NEW q \in Tools, NEW u \in Colleges, u \in unsaved'[q]
      PROVE  wanted'[u] = Unsure
  <2>1. q \in Running BY <1>2, <1>6 DEF ToolTypeOK, Running
  <2> QED BY <1>2, <1>6, <2>1
<1> QED BY <1>4, <1>5, <1>6 DEF KeptInv

\* The pages of S go to the file, those that changed among them.
LEMMA WriteKeeps ==
    ASSUME ToolTypeOK, KeptInv, NEW p \in Tools, NEW S \in SUBSET Colleges,
           \A u \in S : sees[p][u] # Unread,
           \/ WritePages(p, S)
           \/ S \cap unsaved[p] = {} /\ UNCHANGED file,
           NEW u \in Colleges, wanted[u] # Unsure,
           \A q \in Tools \ {p} : u \notin unsaved[q],
           u \notin unsaved[p] \ S
    PROVE  file'[u] = wanted[u]
<1>1. sees[p][u] \in {Unread, wanted[u]} BY DEF KeptInv, EditIsKept
<1>2. CASE WritePages(p, S)
  <2>1. CASE u \in S BY <1>1, <1>2, <2>1 DEF WritePages
  <2>2. CASE u \notin S
    BY <1>2, <2>2 DEF WritePages, KeptInv, EditIsKept
  <2> QED BY <2>1, <2>2
<1>3. CASE S \cap unsaved[p] = {} /\ UNCHANGED file
  BY <1>3 DEF KeptInv, EditIsKept
<1> QED BY <1>2, <1>3

LEMMA CloseKeeps ==
    ASSUME ToolTypeOK, KeptInv, NEW p \in Tools, Close(p)
    PROVE  KeptInv'
<1>1. PICK S \in SUBSET Colleges :
         /\ \A u \in S : sees[p][u] # Unread
         /\ unsaved[p] \subseteq S
         /\ WritePages(p, S)
  BY DEF Close
<1>2. /\ tool \in [Tools -> Programs \cup {"off"}]
      /\ sees \in [Tools -> [Colleges -> Entry \cup {Unread}]]
      /\ unsaved \in [Tools -> SUBSET Colleges]
      /\ shared \in [Tools -> BOOLEAN]
  BY DEF ToolTypeOK
<1>3. /\ tool' = [tool EXCEPT ![p] = "off"]
      /\ unsaved' = [unsaved EXCEPT ![p] = {}]
      /\ shared' = [shared EXCEPT ![p] = FALSE]
      /\ sees' = [sees EXCEPT ![p] = [u \in Colleges |-> Unread]]
      /\ wanted' = wanted
  BY DEF Close, Ended
<1>4. ASSUME NEW u \in Colleges, wanted[u] # Unsure, NEW q \in Tools
      PROVE  sees'[q][u] \in {Unread, wanted[u]}
  BY <1>2, <1>3, <1>4 DEF KeptInv, EditIsKept
<1>5. ASSUME NEW u \in Colleges, wanted[u] # Unsure,
             \A q \in Tools : u \notin unsaved'[q]
      PROVE  file'[u] = wanted[u]
  <2>1. \A q \in Tools \ {p} : u \notin unsaved[q] BY <1>2, <1>3, <1>5
  <2> QED BY <1>1, <1>5, <2>1, WriteKeeps
<1>6. EditIsKept' BY <1>3, <1>4, <1>5 DEF EditIsKept
<1>7. \A q, r \in Tools :
         tool'[q] # "off" /\ tool'[r] # "off" /\ q # r => shared'[q]
  BY <1>2, <1>3 DEF KeptInv
<1>8. \A q \in Tools, u \in Colleges :
         shared'[q] /\ u \in unsaved'[q] => wanted'[u] = Unsure
  BY <1>2, <1>3 DEF KeptInv
<1> QED BY <1>6, <1>7, <1>8 DEF KeptInv

LEMMA KillKeeps ==
    ASSUME ToolTypeOK, KeptInv, NEW p \in Tools, Kill(p)
    PROVE  KeptInv'
<1>1. /\ tool \in [Tools -> Programs \cup {"off"}]
      /\ sees \in [Tools -> [Colleges -> Entry \cup {Unread}]]
      /\ unsaved \in [Tools -> SUBSET Colleges]
      /\ shared \in [Tools -> BOOLEAN]
  BY DEF ToolTypeOK
<1>2. /\ tool' = [tool EXCEPT ![p] = "off"]
      /\ unsaved' = [unsaved EXCEPT ![p] = {}]
      /\ shared' = [shared EXCEPT ![p] = FALSE]
      /\ sees' = [sees EXCEPT ![p] = [u \in Colleges |-> Unread]]
      /\ wanted' = [u \in Colleges |->
                      IF u \in unsaved[p] THEN Unsure ELSE wanted[u]]
      /\ file' = file
  BY DEF Kill, Ended
<1>3. ASSUME NEW u \in Colleges, wanted'[u] # Unsure
      PROVE  wanted'[u] = wanted[u] /\ u \notin unsaved[p]
  BY <1>2, <1>3
<1>4. ASSUME NEW u \in Colleges, wanted'[u] # Unsure
      PROVE  /\ \A q \in Tools : sees'[q][u] \in {Unread, wanted'[u]}
             /\ (\A q \in Tools : u \notin unsaved'[q])
                => file'[u] = wanted'[u]
  <2>1. wanted[u] # Unsure BY <1>3, <1>4
  <2>2. \A q \in Tools : u \in unsaved[q] => u \in unsaved'[q]
    BY <1>1, <1>2, <1>3, <1>4
  <2>3. \A q \in Tools : sees'[q][u] \in {Unread, sees[q][u]}
    BY <1>1, <1>2
  <2> QED BY <1>2, <1>3, <1>4, <2>1, <2>2, <2>3 DEF KeptInv, EditIsKept
<1>5. EditIsKept' BY <1>4 DEF EditIsKept
<1>6. \A q, r \in Tools :
         tool'[q] # "off" /\ tool'[r] # "off" /\ q # r => shared'[q]
  BY <1>1, <1>2 DEF KeptInv
<1>7. \A q \in Tools, u \in Colleges :
         shared'[q] /\ u \in unsaved'[q] => wanted'[u] = Unsure
  BY <1>1, <1>2 DEF KeptInv
<1> QED BY <1>5, <1>6, <1>7 DEF KeptInv

LEMMA EvictKeeps ==
    ASSUME ToolTypeOK, KeptInv, NEW p \in Tools, NEW S \in SUBSET Colleges,
           Evict(p, S)
    PROVE  KeptInv'
<1>1. /\ sees \in [Tools -> [Colleges -> Entry \cup {Unread}]]
      /\ unsaved \in [Tools -> SUBSET Colleges]
  BY DEF ToolTypeOK
<1>2. /\ \A u \in S : sees[p][u] # Unread
      /\ \/ WritePages(p, S)
         \/ S \cap unsaved[p] = {} /\ UNCHANGED file
      /\ sees' = [sees EXCEPT ![p] = [u \in Colleges |->
                        IF u \in S THEN Unread ELSE sees[p][u]]]
      /\ unsaved' = [unsaved EXCEPT ![p] = unsaved[p] \ S]
      /\ UNCHANGED <<tool, shared, wanted>>
  BY <1>1 DEF Evict
<1>3. ASSUME NEW u \in Colleges, wanted[u] # Unsure, NEW q \in Tools
      PROVE  sees'[q][u] \in {Unread, wanted[u]}
  <2>1. sees[q][u] \in {Unread, wanted[u]} BY <1>3 DEF KeptInv, EditIsKept
  <2>2. sees'[q][u] \in {Unread, sees[q][u]} BY <1>1, <1>2
  <2> QED BY <2>1, <2>2
<1>4. ASSUME NEW u \in Colleges, wanted[u] # Unsure,
             \A q \in Tools : u \notin unsaved'[q]
      PROVE  file'[u] = wanted[u]
  <2>1. \A q \in Tools \ {p} : u \notin unsaved[q] BY <1>1, <1>2, <1>4
  <2>2. u \notin unsaved[p] \ S BY <1>1, <1>2, <1>4
  <2> QED BY <1>2, <1>4, <2>1, <2>2, WriteKeeps
<1>5. EditIsKept' BY <1>2, <1>3, <1>4 DEF EditIsKept
<1>6. \A q \in Tools, u \in Colleges :
         shared'[q] /\ u \in unsaved'[q] => wanted'[u] = Unsure
  BY <1>1, <1>2 DEF KeptInv
<1> QED BY <1>2, <1>5, <1>6 DEF KeptInv

\* Every step of a tool keeps the edits that somebody relies on.
LEMMA ToolStepKeeps ==
    ASSUME ToolTypeOK, KeptInv, NEW p \in Tools, ToolStep(p)
    PROVE  KeptInv'
<1>0. ASSUME NEW programs \in SUBSET Programs, Edit(p, programs)
      PROVE  tool[p] # "off" /\ UNCHANGED <<file, tool, shared>>
  BY <1>0 DEF Edit, Programs
<1>1. ASSUME NEW u \in Colleges, Insert(p, u) PROVE KeptInv'
  <2>1. tool[p] # "off" /\ UNCHANGED <<file, tool, shared>>
    BY <1>0, <1>1 DEF Insert, Programs
  <2> QED BY <1>1, <2>1, StoredKeeps DEF Insert, Entry
<1>2. ASSUME NEW u \in Colleges, Delete(p, u) PROVE KeptInv'
  <2>1. tool[p] # "off" /\ UNCHANGED <<file, tool, shared>>
    BY <1>0, <1>2 DEF Delete, Programs
  <2>2. PICK S \in SUBSET Colleges :
           \/ Missed(p, ReadPages(sees[p], S))
           \/ Stored(p, u, ReadPages(sees[p], S), NoRecord)
    BY <1>2 DEF Delete
  <2>3. NoRecord \in Entry BY DEF Entry
  <2> QED BY <2>1, <2>2, <2>3, MissedKeeps, StoredKeeps
<1>3. ASSUME NEW u \in Colleges, Toggle(p, u) PROVE KeptInv'
  <2>1. tool[p] # "off" /\ UNCHANGED <<file, tool, shared>>
    BY <1>0, <1>3 DEF Toggle, Programs
  <2> DEFINE cached(S) == ReadPages(sees[p], S)
  <2>2. PICK S \in SUBSET Colleges :
           /\ u \in S
           /\ IF cached(S)[u] = NoRecord THEN Missed(p, cached(S))
              ELSE Stored(p, u, cached(S), Flagged(p, cached(S)[u]))
    BY <1>3 DEF Toggle
  <2>3. CASE cached(S)[u] = NoRecord BY <2>1, <2>2, <2>3, MissedKeeps
  <2>4. CASE cached(S)[u] # NoRecord
    <3>1. cached(S)[u] \in Entry BY <2>2, ReadPagesType
    <3>2. cached(S)[u] \in Record BY <2>4, <3>1 DEF Entry
    <3>3. PICK e : e = Flagged(p, cached(S)[u]) OBVIOUS
    <3>4. e \in Entry BY <3>2, <3>3, FlaggedType DEF Entry
    <3>5. Stored(p, u, cached(S), e) BY <2>2, <2>4, <3>3
    <3> QED BY <2>1, <3>4, <3>5, StoredKeeps
  <2> QED BY <2>3, <2>4
<1>4. ASSUME NEW u \in Colleges, ToggleBlind(p, u) PROVE KeptInv'
  <2>1. tool[p] # "off" /\ UNCHANGED <<file, tool, shared>>
    BY <1>0, <1>4 DEF ToggleBlind, Programs
  <2>2. PICK S \in SUBSET Colleges, r \in Record :
           Stored(p, u, ReadPages(sees[p], S), Flagged(p, r))
    BY <1>4 DEF ToggleBlind
  <2>3. Flagged(p, r) \in Entry BY FlaggedType DEF Entry
  <2> QED BY <2>1, <2>2, <2>3, StoredKeeps
<1> QED BY <1>1, <1>2, <1>3, <1>4, OpenKeeps, CloseKeeps, KillKeeps,
           EvictKeeps DEF ToolStep

\* An edit that a tool reported as stored stays until the next edit of the
\* college, unless tools overlapped or one was killed (EditIsKept).
THEOREM EditsAreKept == ToolSpec => []EditIsKept
<1>1. ToolInit => KeptInv
  BY PassFileAssumption DEF ToolInit, KeptInv, EditIsKept
<1>2. ToolTypeOK /\ KeptInv /\ [ToolNext]_toolvars => KeptInv'
  <2>1. ASSUME ToolTypeOK, KeptInv, ToolNext PROVE KeptInv'
    BY <2>1, ToolStepKeeps DEF ToolNext
  <2>2. ASSUME KeptInv, UNCHANGED toolvars PROVE KeptInv'
    BY <2>2 DEF toolvars, KeptInv, EditIsKept
  <2> QED BY <2>1, <2>2
<1>3. KeptInv => EditIsKept BY DEF KeptInv
<1> QED BY <1>1, <1>2, <1>3, ToolTypeCorrect, PTL DEF ToolSpec

\* As long as no DB->get fails with an error number, dispass and enapass make
\* no record for a college that has none (ToggledExists).
THEOREM TogglesOnlyWhatExists ==
    ASSUME "get" \notin Faults
    PROVE  ToolSpec => ToggledExists
<1>1. ASSUME ToolTypeOK, ToolNext, NEW p \in Tools, NEW u \in Colleges,
             tool[p] \in {"dispass", "enapass"},
             u \in unsaved'[p] \ unsaved[p]
      PROVE  ReadPages(sees[p], {u})[u] # NoRecord
  <2>0. unsaved \in [Tools -> SUBSET Colleges] BY <1>1 DEF ToolTypeOK
  <2>1. PICK q \in Tools : ToolStep(q) BY <1>1 DEF ToolNext
  <2>2. CASE \E v \in Colleges : Toggle(q, v)
    <3>1. PICK v \in Colleges : Toggle(q, v) BY <2>2
    <3>2. PICK S \in SUBSET Colleges :
             /\ v \in S
             /\ \/ unsaved' = unsaved
                \/ /\ ReadPages(sees[q], S)[v] # NoRecord
                   /\ unsaved' = [unsaved EXCEPT ![q] = @ \cup {v}]
      BY <3>1 DEF Toggle, Missed, Stored
    <3>3. /\ q = p /\ v = u
          /\ ReadPages(sees[q], S)[v] # NoRecord
      BY <1>1, <2>0, <3>2
    <3> QED BY <3>2, <3>3 DEF ReadPages
  <2>3. CASE \E v \in Colleges : Insert(q, v) \/ Delete(q, v)
    <3>1. PICK v \in Colleges : Insert(q, v) \/ Delete(q, v) BY <2>3
    <3>2. tool[q] \in {"inspass", "delpass"}
      BY <3>1 DEF Insert, Delete, Edit
    <3>3. \/ unsaved' = unsaved
          \/ unsaved' = [unsaved EXCEPT ![q] = @ \cup {v}]
      BY <3>1 DEF Insert, Delete, Missed, Stored
    <3>4. q # p BY <1>1, <3>2
    <3> QED BY <1>1, <2>0, <3>3, <3>4
  <2>4. CASE \E v \in Colleges : ToggleBlind(q, v)
    BY <2>4 DEF ToggleBlind
  <2>5. CASE \/ \E program \in Programs : Open(q, program)
             \/ Close(q) \/ Kill(q)
             \/ \E S \in SUBSET Colleges : Evict(q, S)
    <3>1. \/ unsaved' = unsaved
          \/ unsaved' = [unsaved EXCEPT ![q] = {}]
          \/ \E S \in SUBSET Colleges :
                unsaved' = [unsaved EXCEPT ![q] = @ \ S]
      BY <2>5 DEF Open, Close, Kill, Ended, Evict
    <3> QED BY <1>1, <2>0, <3>1
  <2> QED BY <2>1, <2>2, <2>3, <2>4, <2>5 DEF ToolStep
<1>2. ToolTypeOK /\ [ToolNext]_toolvars
      => [\A p \in Tools, u \in Colleges :
            /\ tool[p] \in {"dispass", "enapass"}
            /\ u \in unsaved'[p] \ unsaved[p]
            => ReadPages(sees[p], {u})[u] # NoRecord]_toolvars
  <2>1. ASSUME ToolTypeOK, [ToolNext]_toolvars
        PROVE  [\A p \in Tools, u \in Colleges :
               /\ tool[p] \in {"dispass", "enapass"}
               /\ u \in unsaved'[p] \ unsaved[p]
               => ReadPages(sees[p], {u})[u] # NoRecord]_toolvars
    <3>1. CASE ToolNext BY <1>1, <2>1, <3>1
    <3>2. CASE UNCHANGED toolvars BY <3>2
    <3> QED BY <2>1, <3>1, <3>2
  <2> QED BY <2>1
<1> QED BY <1>2, ToolTypeCorrect, PTL DEF ToolSpec, ToggledExists

-----------------------------------------------------------------------------
(* The tools beside the server *)

\* The types of everything outside the password tools.
ServerTypeOK ==
    /\ handle \in {"open", "closed", "null", "none"}
    /\ signal \in {"none", "hup", "term"}
    /\ (handle = "closed") <=> (signal # "none" /\ handle # "null")
    /\ view \in [Colleges -> Entry \cup {Unread}]
    /\ retbuf \in Record \cup {Blank}
    /\ held \in [Colleges -> SUBSET Entry]
    /\ now \in 1..(MaxTime + 1)
DialogueTypeOK ==
    /\ pc \in [Threads -> Phases]
    /\ user \in [Threads -> Colleges]
    /\ passbuf \in [Threads -> Record \cup {Blank}]
    /\ basis \in [Threads -> SUBSET Entry]
    /\ judged \in [Threads -> Nat]
    /\ sent \in [Threads -> Passwords \cup {NoPass}]
    /\ verdict \in [Threads -> Verdicts]
    /\ spoilt \in [Threads -> SUBSET Spoilers]

LEMMA TypeParts == TypeOK <=> ToolTypeOK /\ ServerTypeOK /\ DialogueTypeOK
BY DEF TypeOK, ServerTypeOK, DialogueTypeOK

LEMMA TypePartsNext ==
    ToolTypeOK' /\ ServerTypeOK' /\ DialogueTypeOK' => TypeOK'
BY DEF TypeOK, ServerTypeOK, DialogueTypeOK

\* The handle's cache, after pages have been read through it.
LEMMA ViewType ==
    ASSUME TypeOK, NEW S \in SUBSET Colleges
    PROVE  /\ ReadPages(view, S) \in [Colleges -> Entry \cup {Unread}]
           /\ \A u \in Colleges :
                 /\ u \in S => ReadPages(view, S)[u] \in Entry
                 /\ ReadPages(view, S)[u] \in {view[u], file[u]}
<1>1. view \in [Colleges -> Entry \cup {Unread}] BY DEF TypeOK
<1>2. file \in [Colleges -> Entry] BY DEF TypeOK, ToolTypeOK
<1> QED BY <1>1, <1>2, PassFileAssumption DEF ReadPages

LEMMA SpoilType ==
    ASSUME TypeOK, NEW S, NEW what \in Spoilers, Spoil(S, what)
    PROVE  spoilt' \in [Threads -> SUBSET Spoilers]
<1>1. spoilt \in [Threads -> SUBSET Spoilers] BY DEF TypeOK
<1> QED BY <1>1 DEF Spoil

\* A thread that starts, or ends without a word, is a fresh one.
LEMMA FreshType ==
    ASSUME TypeOK, NEW S, Fresh(S), pc' \in [Threads -> Phases]
    PROVE  DialogueTypeOK'
<1>1. /\ user \in [Threads -> Colleges]
      /\ passbuf \in [Threads -> Record \cup {Blank}]
      /\ basis \in [Threads -> SUBSET Entry]
      /\ judged \in [Threads -> Nat]
      /\ sent \in [Threads -> Passwords \cup {NoPass}]
      /\ verdict \in [Threads -> Verdicts]
      /\ spoilt \in [Threads -> SUBSET Spoilers]
  BY DEF TypeOK
<1>2. Nobody \in Colleges BY LoginAssumption DEF Nobody
<1>3. user' \in [Threads -> Colleges] BY <1>1, <1>2 DEF Fresh
<1>4. passbuf' \in [Threads -> Record \cup {Blank}] BY <1>1 DEF Fresh
<1>5. basis' \in [Threads -> SUBSET Entry] BY <1>1 DEF Fresh
<1>6. judged' \in [Threads -> Nat] BY <1>1 DEF Fresh
<1>7. sent' \in [Threads -> Passwords \cup {NoPass}] BY <1>1 DEF Fresh
<1>8. verdict' \in [Threads -> Verdicts] BY <1>1 DEF Fresh, Verdicts
<1>9. spoilt' \in [Threads -> SUBSET Spoilers] BY <1>1 DEF Fresh
<1> QED
  BY <1>3, <1>4, <1>5, <1>6, <1>7, <1>8, <1>9 DEF DialogueTypeOK

\* A step of a thread keeps the types.
LEMMA ThreadStepType ==
    ASSUME TypeOK, NEW t \in Threads, ThreadStep(t)
    PROVE  TypeOK'
<1>0. /\ pc \in [Threads -> Phases]
      /\ user \in [Threads -> Colleges]
      /\ passbuf \in [Threads -> Record \cup {Blank}]
      /\ basis \in [Threads -> SUBSET Entry]
      /\ judged \in [Threads -> Nat]
      /\ sent \in [Threads -> Passwords \cup {NoPass}]
      /\ verdict \in [Threads -> Verdicts]
      /\ spoilt \in [Threads -> SUBSET Spoilers]
      /\ held \in [Colleges -> SUBSET Entry]
      /\ now \in 1..(MaxTime + 1)
      /\ retbuf \in Record \cup {Blank}
  BY DEF TypeOK
<1>1. ASSUME UNCHANGED toolvars PROVE ToolTypeOK'
  BY <1>1 DEF TypeOK, ToolTypeOK, toolvars
<1>2. ASSUME UNCHANGED <<handle, signal, view, retbuf, held, now>>
      PROVE  ServerTypeOK'
  BY <1>2 DEF TypeOK, ServerTypeOK
<1>3. ASSUME NEW phase \in Phases, Goto(t, phase)
      PROVE  pc' \in [Threads -> Phases]
  BY <1>0, <1>3 DEF Goto
<1>4. ASSUME NEW answer \in Verdicts, Refuse(t, answer)
      PROVE  pc' \in [Threads -> Phases] /\ verdict' \in [Threads -> Verdicts]
  BY <1>0, <1>4 DEF Refuse, Goto, Phases
<1>5. ASSUME Accept(t) \/ Drop(t) PROVE TypeOK'
  <2>1. pc' \in [Threads -> Phases]
    BY <1>3, <1>5 DEF Accept, Drop, Phases
  <2>2. DialogueTypeOK' BY <1>5, <2>1, FreshType DEF Accept, Drop
  <2> QED
    BY <1>1, <1>2, <1>5, <2>2, TypePartsNext DEF Accept, Drop, database
<1>6. ASSUME Magic(t) PROVE TypeOK'
  <2>1. pc' \in [Threads -> Phases] BY <1>3, <1>6 DEF Magic, Phases
  <2>2. UNCHANGED <<user, passbuf, basis, judged, sent, verdict, spoilt>>
    BY <1>6 DEF Magic
  <2>3. DialogueTypeOK' BY <1>0, <2>1, <2>2 DEF DialogueTypeOK
  <2> QED BY <1>1, <1>2, <1>6, <2>3, TypePartsNext DEF Magic, database
<1>7. ASSUME NEW u \in Colleges, LookupUser(t, u),
             pc' \in [Threads -> Phases], verdict' \in [Threads -> Verdicts],
             spoilt' \in [Threads -> SUBSET Spoilers],
             view' \in [Colleges -> Entry \cup {Unread}],
             retbuf' \in Record \cup {Blank}
      PROVE  TypeOK'
  <2>1. user' \in [Threads -> Colleges] BY <1>0, <1>7 DEF LookupUser
  <2>2. basis' \in [Threads -> SUBSET Entry] BY <1>0, <1>7 DEF LookupUser
  <2>3. UNCHANGED <<passbuf, judged, sent>> BY <1>7 DEF LookupUser
  <2>4. DialogueTypeOK' BY <1>0, <1>7, <2>1, <2>2, <2>3 DEF DialogueTypeOK
  <2>5. ServerTypeOK'
    BY <1>7 DEF LookupUser, TypeOK, ServerTypeOK
  <2> QED BY <1>1, <1>7, <2>4, <2>5, TypePartsNext DEF LookupUser
<1>8. view \in [Colleges -> Entry \cup {Unread}] BY DEF TypeOK
<1>9. ASSUME NEW u \in Colleges, GetMissing(t, u) PROVE TypeOK'
  <2>1. view' \in [Colleges -> Entry \cup {Unread}]
    BY <1>9, ViewType DEF GetMissing
  <2> QED BY <1>0, <1>4, <1>7, <1>9, <2>1 DEF GetMissing, Verdicts
<1>10. ASSUME NEW u \in Colleges, GetFound(t, u) PROVE TypeOK'
  <2>1. PICK S \in SUBSET Colleges : u \in S /\ view' = ReadPages(view, S)
    BY <1>10 DEF GetFound
  <2>2. view' \in [Colleges -> Entry \cup {Unread}] /\ view'[u] \in Entry
    BY <2>1, ViewType
  <2>3. spoilt' \in [Threads -> SUBSET Spoilers]
    BY <1>10, SpoilType DEF GetFound, Spoilers
  <2>4. retbuf' \in Record \cup {Blank} BY <1>10, <2>2 DEF GetFound, Entry
  <2> QED BY <1>0, <1>3, <1>7, <1>10, <2>2, <2>3, <2>4 DEF GetFound, Phases
<1>11. ASSUME NEW u \in Colleges,
              \/ GetFails(t, u) \/ NoHandle(t, u) \/ GetClosed(t, u)
       PROVE  TypeOK'
  <2>1. LookupUser(t, u) /\ UNCHANGED <<view, retbuf>>
    BY <1>11 DEF GetFails, NoHandle, GetClosed
  <2>2. spoilt' \in [Threads -> SUBSET Spoilers]
    BY <1>11, SpoilType DEF GetFails, NoHandle, GetClosed, Spoilers
  <2>3. \/ (Goto(t, "judge") \/ Goto(t, "copy")) /\ UNCHANGED verdict
        \/ Refuse(t, "no college")
    BY <1>11 DEF GetFails, NoHandle, GetClosed
  <2>4. pc' \in [Threads -> Phases] /\ verdict' \in [Threads -> Verdicts]
    BY <1>0, <1>3, <1>4, <2>3 DEF Phases, Verdicts
  <2> QED BY <1>0, <1>7, <1>8, <2>1, <2>2, <2>4
<1>12. ASSUME Copy(t) PROVE TypeOK'
  <2>1. pc' \in [Threads -> Phases] BY <1>3, <1>12 DEF Copy, Phases
  <2>2. PICK r \in IF "reload" \in spoilt[t] THEN Record ELSE {retbuf} :
           passbuf' = [passbuf EXCEPT ![t] = r]
    BY <1>12 DEF Copy
  <2>3. passbuf' \in [Threads -> Record \cup {Blank}] BY <1>0, <2>2
  <2>4. UNCHANGED <<user, basis, judged, sent, verdict, spoilt>>
    BY <1>12 DEF Copy
  <2>5. DialogueTypeOK' BY <1>0, <2>1, <2>3, <2>4 DEF DialogueTypeOK
  <2> QED BY <1>1, <1>2, <1>12, <2>5, TypePartsNext DEF Copy, database
<1>13. ASSUME Judge(t) PROVE TypeOK'
  <2>1. judged' \in [Threads -> Nat] BY <1>0, <1>13 DEF Judge
  <2>2. Objection(passbuf[t]) \in Verdicts BY DEF Objection, Verdicts
  <2>3. \/ Refuse(t, Objection(passbuf[t]))
        \/ Goto(t, "pass") /\ UNCHANGED verdict
    BY <1>13 DEF Judge
  <2>4. pc' \in [Threads -> Phases] /\ verdict' \in [Threads -> Verdicts]
    BY <1>0, <1>3, <1>4, <2>2, <2>3 DEF Phases
  <2>5. UNCHANGED <<user, passbuf, basis, sent, spoilt>>
    BY <1>13 DEF Judge
  <2>6. DialogueTypeOK' BY <1>0, <2>1, <2>4, <2>5 DEF DialogueTypeOK
  <2> QED BY <1>1, <1>2, <1>13, <2>6, TypePartsNext DEF Judge, database
<1>14. ASSUME NEW word \in Passwords \cup {NoPass}, Pass(t, word)
       PROVE  TypeOK'
  <2>1. sent' \in [Threads -> Passwords \cup {NoPass}]
    BY <1>0, <1>14 DEF Pass
  <2>2. \/ Goto(t, "in") /\ verdict' = [verdict EXCEPT ![t] = "admitted"]
        \/ Refuse(t, "mismatch")
    BY <1>14 DEF Pass
  <2>3. pc' \in [Threads -> Phases] /\ verdict' \in [Threads -> Verdicts]
    BY <1>0, <1>3, <1>4, <2>2 DEF Phases, Verdicts
  <2>4. UNCHANGED <<user, passbuf, basis, judged, spoilt>>
    BY <1>14 DEF Pass
  <2>5. DialogueTypeOK' BY <1>0, <2>1, <2>3, <2>4 DEF DialogueTypeOK
  <2> QED BY <1>1, <1>2, <1>14, <2>5, TypePartsNext DEF Pass, database
<1>15. ASSUME Crash(t) PROVE TypeOK'
  <2>1. pc' \in [Threads -> Phases]
    BY <1>15 DEF Crash, ProcessEnds, Phases
  <2>2. DialogueTypeOK'
    BY <1>15, <2>1, FreshType DEF Crash, ProcessEnds
  <2>3. ServerTypeOK'
    BY <1>15 DEF Crash, ProcessEnds, TypeOK, ServerTypeOK
  <2> QED BY <1>1, <1>15, <2>2, <2>3, TypePartsNext DEF Crash, ProcessEnds
<1> QED BY <1>5, <1>6, <1>9, <1>10, <1>11, <1>12, <1>13, <1>14, <1>15
        DEF ThreadStep

\* So does a step of the handle, of the clock or of a tool.
LEMMA OtherStepType ==
    ASSUME TypeOK,
           HandleStep \/ Tick \/ \E p \in Tools : ToolRuns(p)
    PROVE  TypeOK'
<1>0. /\ DialogueTypeOK
      /\ spoilt \in [Threads -> SUBSET Spoilers]
      /\ held \in [Colleges -> SUBSET Entry]
      /\ now \in 1..(MaxTime + 1)
      /\ file \in [Colleges -> Entry]
      /\ view \in [Colleges -> Entry \cup {Unread}]
  BY DEF TypeOK, DialogueTypeOK, ToolTypeOK
<1>1. ASSUME UNCHANGED toolvars PROVE ToolTypeOK'
  BY <1>1 DEF TypeOK, ToolTypeOK, toolvars
<1>2. ASSUME UNCHANGED dialogue PROVE DialogueTypeOK'
  BY <1>0, <1>2 DEF DialogueTypeOK, dialogue
<1>3. CASE ReloadCloses \/ TermCloses
  <2>1. PICK by \in {"hup", "term"} : Closing(by)
    BY <1>3 DEF ReloadCloses, TermCloses
  <2>2. spoilt' \in [Threads -> SUBSET Spoilers]
    BY <2>1, SpoilType DEF Closing, Spoilers
  <2>3. DialogueTypeOK' BY <1>0, <2>1, <2>2 DEF Closing, DialogueTypeOK
  <2>4. ServerTypeOK' BY <2>1 DEF Closing, TypeOK, ServerTypeOK
  <2> QED BY <1>1, <2>1, <2>3, <2>4, TypePartsNext DEF Closing
<1>4. ASSUME Opened PROVE /\ view' \in [Colleges -> Entry \cup {Unread}]
                          /\ held' \in [Colleges -> SUBSET Entry]
                          /\ handle' = "open"
  BY <1>0, <1>4 DEF Opened
<1>5. CASE ReloadOpens
  <2>1. ServerTypeOK' BY <1>4, <1>5 DEF ReloadOpens, TypeOK, ServerTypeOK
  <2> QED BY <1>1, <1>2, <1>5, <2>1, TypePartsNext DEF ReloadOpens
<1>6. CASE TermClears
  <2>1. ServerTypeOK' BY <1>6 DEF TermClears, TypeOK, ServerTypeOK
  <2> QED BY <1>1, <1>2, <1>6, <2>1, TypePartsNext DEF TermClears
<1>7. CASE Exit
  <2>1. pc' \in [Threads -> Phases]
    BY <1>7 DEF Exit, ProcessEnds, Phases
  <2>2. DialogueTypeOK'
    BY <1>7, <2>1, FreshType DEF Exit, ProcessEnds
  <2>3. ServerTypeOK' BY <1>7 DEF Exit, ProcessEnds, TypeOK, ServerTypeOK
  <2> QED BY <1>1, <1>7, <2>2, <2>3, TypePartsNext DEF Exit, ProcessEnds
<1>8. CASE Start
  <2>1. ServerTypeOK' BY <1>4, <1>8 DEF Start, TypeOK, ServerTypeOK
  <2> QED BY <1>1, <1>2, <1>8, <2>1, TypePartsNext DEF Start
<1>9. CASE \E S \in SUBSET Colleges : EvictView(S)
  <2>1. PICK S \in SUBSET Colleges : EvictView(S) BY <1>9
  <2>2. view' \in [Colleges -> Entry \cup {Unread}]
    BY <1>0, <2>1 DEF EvictView
  <2>3. ServerTypeOK' BY <2>1, <2>2 DEF EvictView, TypeOK, ServerTypeOK
  <2> QED BY <1>1, <1>2, <2>1, <2>3, TypePartsNext DEF EvictView
<1>10. CASE Tick
  <2>1. now' \in 1..(MaxTime + 1) BY <1>0, <1>10, LoginAssumption DEF Tick
  <2>2. ServerTypeOK' BY <1>10, <2>1 DEF Tick, TypeOK, ServerTypeOK, database
  <2> QED BY <1>1, <1>2, <1>10, <2>2, TypePartsNext DEF Tick
<1>11. CASE \E p \in Tools : ToolRuns(p)
  <2>1. PICK p \in Tools : ToolRuns(p) BY <1>11
  <2>2. ToolTypeOK' BY <2>1, ToolStepType DEF ToolRuns, TypeOK
  <2>3. held' \in [Colleges -> SUBSET Entry]
    BY <1>0, <2>1, <2>2 DEF ToolRuns, ToolTypeOK
  <2>4. ServerTypeOK' BY <2>1, <2>3 DEF ToolRuns, TypeOK, ServerTypeOK
  <2> QED BY <1>2, <2>1, <2>2, <2>4, TypePartsNext DEF ToolRuns
<1> QED BY <1>3, <1>5, <1>6, <1>7, <1>8, <1>9, <1>10, <1>11 DEF HandleStep

\* The types hold whatever clients, signals, tools and failures do.
THEOREM TypeCorrect == Spec => []TypeOK
<1>1. Init => TypeOK
  <2>1. ASSUME Init PROVE TypeOK
    <3>1. ToolTypeOK
      BY <2>1, PassFileAssumption
         DEF Init, ToolInit, ToolTypeOK, Entry
    <3>2. ServerTypeOK
      BY <2>1, <3>1, LoginAssumption DEF Init, ServerTypeOK, ToolTypeOK
    <3>3. Nobody \in Colleges BY LoginAssumption DEF Nobody
    <3>4. DialogueTypeOK
      BY <2>1, <3>3 DEF Init, DialogueTypeOK, Phases, Verdicts
    <3> QED BY <3>1, <3>2, <3>4, TypeParts
  <2> QED BY <2>1
<1>2. TypeOK /\ [Next]_vars => TypeOK'
  <2>1. ASSUME TypeOK, Next PROVE TypeOK'
    BY <2>1, ThreadStepType, OtherStepType DEF Next
  <2>2. ASSUME TypeOK, UNCHANGED vars PROVE TypeOK'
    BY <2>2 DEF vars, toolvars, database, dialogue, TypeOK, ToolTypeOK
  <2> QED BY <2>1, <2>2
<1> QED BY <1>1, <1>2, PTL DEF Spec

-----------------------------------------------------------------------------
(* Verdicts *)

\* Neither the file nor a page in the handle's cache holds a record that the
\* file has not had since the handle was opened.
CacheSeen ==
    \A u \in Colleges :
        /\ file[u] \in held[u]
        /\ view[u] \in held[u] \cup {Unread}

\* A thread whose lookup nothing spoilt works with a record of its basis, one
\* that it has no objection to once it waits for the password.  It has said
\* nothing final before the dialogue ends.
GoesBy(t) ==
    /\ pc[t] = "copy" /\ spoilt[t] = {} => retbuf \in Grounds(t)
    /\ pc[t] \in {"judge", "pass"} /\ spoilt[t] = {}
          => passbuf[t] \in Grounds(t)
    /\ pc[t] = "pass" =>
          /\ ~passbuf[t].disabled
          /\ ~(passbuf[t].window.start > judged[t])
          /\ ~(passbuf[t].window.end < judged[t])
    /\ pc[t] \in {"magic", "user", "copy", "judge", "pass"}
          => verdict[t] = "none"

\* VerdictRests, of one thread.
Rests(t) ==
    spoilt[t] = {} =>
        /\ verdict[t] = "no college" => NoRecord \in basis[t]
        /\ verdict[t] = "disabled" => \E r \in Grounds(t) : r.disabled
        /\ verdict[t] = "early" =>
              \E r \in Grounds(t) : r.window.start > judged[t]
        /\ verdict[t] = "expired" =>
              \E r \in Grounds(t) : r.window.end < judged[t]
        /\ verdict[t] = "mismatch" => \E r \in Grounds(t) : r.pass # sent[t]
        /\ verdict[t] = "admitted" =>
              \E r \in Grounds(t) :
                  /\ r.pass = sent[t] /\ ~r.disabled
                  /\ judged[t] \in r.window.start..r.window.end

SeenInv == CacheSeen /\ \A t \in Threads : GoesBy(t) /\ Rests(t)

\* A thread that a step leaves alone, or spoils, goes by what it went by.
LEMMA LeftAlone ==
    ASSUME SeenInv, NEW t \in Threads,
           pc'[t] = pc[t] \/ pc'[t] = "idle",
           pc'[t] = "copy" /\ spoilt'[t] = {} => retbuf' = retbuf,
           passbuf'[t] = passbuf[t], basis'[t] = basis[t],
           judged'[t] = judged[t], sent'[t] = sent[t],
           verdict'[t] = verdict[t],
           spoilt[t] \subseteq spoilt'[t]
    PROVE  GoesBy(t)' /\ Rests(t)'
<1>1. GoesBy(t) /\ Rests(t) BY DEF SeenInv
<1>2. spoilt'[t] = {} => spoilt[t] = {} OBVIOUS
<1>3. GoesBy(t)' BY <1>1, <1>2 DEF GoesBy, Grounds
<1>4. Rests(t)' BY <1>1, <1>2 DEF Rests, Grounds
<1> QED BY <1>3, <1>4

\* A thread that has said nothing yet has nothing to answer for.
LEMMA SaidNothing ==
    ASSUME NEW t \in Threads, verdict'[t] = "none"
    PROVE  Rests(t)'
BY DEF Rests

\* A fresh thread has nothing to go by and nothing to answer for.
LEMMA FreshSeen ==
    ASSUME NEW S, Fresh(S), NEW t \in Threads, t \in S,
           pc'[t] \in {"idle", "magic"}
    PROVE  GoesBy(t)' /\ Rests(t)'
<1>1. verdict'[t] = "none" BY DEF Fresh
<1> QED BY <1>1, SaidNothing DEF GoesBy

\* A fresh start of others leaves a thread alone.
LEMMA NotFresh ==
    ASSUME TypeOK, NEW S, Fresh(S), NEW t \in Threads, t \notin S
    PROVE  /\ passbuf'[t] = passbuf[t] /\ basis'[t] = basis[t]
           /\ judged'[t] = judged[t] /\ sent'[t] = sent[t]
           /\ verdict'[t] = verdict[t] /\ spoilt'[t] = spoilt[t]
BY DEF Fresh

\* The cache when pages of the file are read into it.
LEMMA ReadSeen ==
    ASSUME TypeOK, CacheSeen, NEW S \in SUBSET Colleges,
           view' = ReadPages(view, S), UNCHANGED <<file, held>>
    PROVE  CacheSeen'
<1>1. \A u \in Colleges : view'[u] \in {view[u], file[u]} BY ViewType
<1> QED BY <1>1 DEF CacheSeen

\* The dialogue up to the lookup, and its ends.
LEMMA PlainStepSeen ==
    ASSUME TypeOK, SeenInv, NEW t \in Threads,
           Accept(t) \/ Magic(t) \/ Drop(t) \/ Crash(t)
    PROVE  SeenInv'
<1>0. /\ pc \in [Threads -> Phases]
      /\ passbuf \in [Threads -> Record \cup {Blank}]
      /\ basis \in [Threads -> SUBSET Entry]
      /\ judged \in [Threads -> Nat]
      /\ sent \in [Threads -> Passwords \cup {NoPass}]
      /\ verdict \in [Threads -> Verdicts]
      /\ spoilt \in [Threads -> SUBSET Spoilers]
  BY DEF TypeOK
<1>1. UNCHANGED <<file, held, view, retbuf>>
  BY DEF Accept, Magic, Drop, Crash, ProcessEnds, toolvars, database
<1>2. CacheSeen' BY <1>1 DEF SeenInv, CacheSeen
<1>3. CASE Accept(t) \/ Drop(t)
  <2>0. /\ Fresh({t}) /\ pc' = [pc EXCEPT ![t] = pc'[t]]
        /\ pc'[t] \in {"idle", "magic"}
    BY <1>0, <1>3 DEF Accept, Drop, Goto
  <2>1. ASSUME NEW q \in Threads PROVE GoesBy(q)' /\ Rests(q)'
    <3>1. CASE q # t
      <4>1. pc'[q] = pc[q] BY <1>0, <2>0, <3>1
      <4>2. t # q /\ q \notin {t} BY <3>1
      <4> QED BY <1>1, <2>0, <4>1, <4>2, NotFresh, LeftAlone
    <3>2. CASE q = t
      BY <2>0, <3>2, FreshSeen
    <3> QED BY <3>1, <3>2
  <2> QED BY <1>2, <2>1 DEF SeenInv
<1>4. CASE Magic(t)
  <2>1. ASSUME NEW q \in Threads PROVE GoesBy(q)' /\ Rests(q)'
    <3>1. CASE q # t
      BY <1>0, <1>1, <1>4, <3>1, LeftAlone DEF Magic, Goto
    <3>2. CASE q = t
      <4>1. pc[t] = "magic" /\ pc'[t] = "user" /\ verdict' = verdict
        BY <1>0, <1>4 DEF Magic, Goto, At
      <4>2. verdict'[t] = "none" BY <4>1 DEF SeenInv, GoesBy
      <4> QED BY <3>2, <4>1, <4>2, SaidNothing DEF GoesBy
    <3> QED BY <3>1, <3>2
  <2> QED BY <1>2, <2>1 DEF SeenInv
<1>5. CASE Crash(t)
  <2>1. Fresh(Threads) /\ pc' = [q \in Threads |-> "idle"]
    BY <1>5 DEF Crash, ProcessEnds
  <2>2. ASSUME NEW q \in Threads PROVE GoesBy(q)' /\ Rests(q)'
    BY <2>1, FreshSeen
  <2> QED BY <1>2, <2>2 DEF SeenInv
<1> QED BY <1>3, <1>4, <1>5

\* The other threads while t looks its user up.
LEMMA LookupSeen ==
    ASSUME TypeOK, SeenInv, NEW t \in Threads, NEW u \in Colleges,
           LookupUser(t, u),
           \A q \in Threads \ {t} :
              /\ pc'[q] = pc[q] /\ verdict'[q] = verdict[q]
              /\ spoilt[q] \subseteq spoilt'[q]
              /\ pc[q] = "copy" /\ spoilt'[q] = {} => retbuf' = retbuf
    PROVE  \A q \in Threads \ {t} : GoesBy(q)' /\ Rests(q)'
<1>1. /\ basis \in [Threads -> SUBSET Entry]
      /\ basis' = [basis EXCEPT ![t] = held[u]]
      /\ UNCHANGED <<passbuf, judged, sent>>
  BY DEF TypeOK, LookupUser
<1> QED BY <1>1, LeftAlone

LEMMA GetSeen ==
    ASSUME TypeOK, SeenInv, NEW t \in Threads, NEW u \in Colleges,
           GetMissing(t, u) \/ GetFound(t, u)
    PROVE  SeenInv'
<1>0. /\ pc \in [Threads -> Phases]
      /\ basis \in [Threads -> SUBSET Entry]
      /\ verdict \in [Threads -> Verdicts]
      /\ spoilt \in [Threads -> SUBSET Spoilers]
      /\ held \in [Colleges -> SUBSET Entry]
  BY DEF TypeOK
<1>1. PICK S \in SUBSET Colleges : u \in S /\ view' = ReadPages(view, S)
  BY DEF GetMissing, GetFound
<1>2. LookupUser(t, u) BY DEF GetMissing, GetFound
<1>3. UNCHANGED <<file, held>> BY <1>2 DEF LookupUser, toolvars
<1>4. CacheSeen' BY <1>1, <1>3, ReadSeen DEF SeenInv
<1>5. view'[u] \in Entry BY <1>1, ViewType
<1>6. view'[u] \in held[u]
  BY <1>3, <1>4, <1>5, PassFileAssumption DEF CacheSeen
<1>7. basis'[t] = held[u] BY <1>0, <1>2 DEF LookupUser
<1>8. verdict[t] = "none" /\ pc[t] = "user"
  BY <1>2 DEF LookupUser, At, SeenInv, GoesBy
<1>9. CASE GetMissing(t, u)
  <2>1. /\ pc' = [pc EXCEPT ![t] = "idle"]
        /\ verdict' = [verdict EXCEPT ![t] = "no college"]
        /\ UNCHANGED <<retbuf, spoilt>>
        /\ view'[u] = NoRecord
    BY <1>9 DEF GetMissing, Refuse, Goto
  <2>2. \A q \in Threads \ {t} : GoesBy(q)' /\ Rests(q)'
    BY <1>0, <1>2, <2>1, LookupSeen
  <2>3. GoesBy(t)' BY <1>0, <2>1 DEF GoesBy
  <2>4. verdict'[t] = "no college" /\ NoRecord \in basis'[t]
    BY <1>0, <1>6, <1>7, <2>1
  <2>5. Rests(t)' BY <2>4 DEF Rests
  <2> QED BY <1>4, <2>2, <2>3, <2>5 DEF SeenInv
<1>10. CASE GetFound(t, u)
  <2>1. /\ pc' = [pc EXCEPT ![t] = "copy"]
        /\ retbuf' = view'[u] /\ view'[u] # NoRecord
        /\ spoilt' = [q \in Threads |-> IF q \in Copying
                         THEN spoilt[q] \cup {"race"} ELSE spoilt[q]]
        /\ verdict' = verdict
    BY <1>10 DEF GetFound, Goto, Spoil
  <2>2. ASSUME NEW q \in Threads \ {t}
        PROVE  /\ pc'[q] = pc[q] /\ verdict'[q] = verdict[q]
               /\ spoilt[q] \subseteq spoilt'[q]
               /\ pc[q] = "copy" /\ spoilt'[q] = {} => retbuf' = retbuf
    BY <1>0, <2>1 DEF Copying
  <2>3. \A q \in Threads \ {t} : GoesBy(q)' /\ Rests(q)'
    BY <1>2, <2>2, LookupSeen
  <2>4. pc'[t] = "copy" /\ verdict'[t] = "none" BY <1>0, <1>8, <2>1
  <2>5. retbuf' \in Grounds(t)' BY <1>6, <1>7, <2>1 DEF Grounds
  <2>6. GoesBy(t)' BY <2>4, <2>5 DEF GoesBy
  <2>7. Rests(t)' BY <2>4, SaidNothing
  <2> QED BY <1>4, <2>3, <2>6, <2>7 DEF SeenInv
<1> QED BY <1>9, <1>10

\* A lookup that goes wrong is spoilt, and promises nothing.
LEMMA SpoiltSeen ==
    ASSUME TypeOK, SeenInv, NEW t \in Threads, NEW u \in Colleges,
           GetFails(t, u) \/ NoHandle(t, u) \/ GetClosed(t, u)
    PROVE  SeenInv'
<1>0. /\ pc \in [Threads -> Phases]
      /\ verdict \in [Threads -> Verdicts]
      /\ spoilt \in [Threads -> SUBSET Spoilers]
  BY DEF TypeOK
<1>1. LookupUser(t, u) /\ UNCHANGED <<view, retbuf>>
  BY DEF GetFails, NoHandle, GetClosed
<1>2. CacheSeen' BY <1>1 DEF LookupUser, toolvars, SeenInv, CacheSeen
<1>3. PICK what \in Spoilers : Spoil({t}, what)
  BY DEF GetFails, NoHandle, GetClosed, Spoilers
<1>4. \/ (Goto(t, "judge") \/ Goto(t, "copy")) /\ UNCHANGED verdict
      \/ Refuse(t, "no college")
  BY DEF GetFails, NoHandle, GetClosed
<1>5. \A q \in Threads \ {t} :
         pc'[q] = pc[q] /\ verdict'[q] = verdict[q] /\ spoilt'[q] = spoilt[q]
  BY <1>0, <1>3, <1>4 DEF Goto, Refuse, Spoil
<1>6. \A q \in Threads \ {t} : GoesBy(q)' /\ Rests(q)'
  BY <1>1, <1>5, LookupSeen
<1>7. spoilt'[t] # {} BY <1>3 DEF Spoil
<1>8. verdict[t] = "none" BY <1>1 DEF LookupUser, At, SeenInv, GoesBy
<1>9. \/ pc'[t] \in {"judge", "copy"} /\ verdict'[t] = "none"
      \/ pc'[t] = "idle"
  BY <1>0, <1>4, <1>8 DEF Goto, Refuse
<1>10. GoesBy(t)' BY <1>7, <1>9 DEF GoesBy
<1>11. Rests(t)' BY <1>7 DEF Rests
<1> QED BY <1>2, <1>6, <1>10, <1>11 DEF SeenInv

LEMMA CopySeen ==
    ASSUME TypeOK, SeenInv, NEW t \in Threads, Copy(t)
    PROVE  SeenInv'
<1>0. /\ pc \in [Threads -> Phases]
      /\ passbuf \in [Threads -> Record \cup {Blank}]
  BY DEF TypeOK
<1>1. /\ pc[t] = "copy" /\ pc' = [pc EXCEPT ![t] = "judge"]
      /\ UNCHANGED <<file, held, view, retbuf, basis, judged, sent, verdict,
                     spoilt>>
  BY DEF Copy, At, Goto, toolvars, database
<1>2. CacheSeen' BY <1>1 DEF SeenInv, CacheSeen
<1>3. PICK r \in IF "reload" \in spoilt[t] THEN Record ELSE {retbuf} :
         passbuf' = [passbuf EXCEPT ![t] = r]
  BY DEF Copy
<1>4. ASSUME NEW q \in Threads, q # t PROVE GoesBy(q)' /\ Rests(q)'
  BY <1>0, <1>1, <1>3, <1>4, LeftAlone
<1>5. verdict[t] = "none" BY <1>1 DEF SeenInv, GoesBy
<1>6. spoilt[t] = {} => passbuf'[t] \in Grounds(t)
  BY <1>0, <1>1, <1>3 DEF SeenInv, GoesBy
<1>7. Grounds(t)' = Grounds(t) BY <1>1 DEF Grounds
<1>8. GoesBy(t)' BY <1>0, <1>1, <1>5, <1>6, <1>7 DEF GoesBy
<1>9. Rests(t)' BY <1>1, <1>5, SaidNothing
<1> QED BY <1>2, <1>4, <1>8, <1>9 DEF SeenInv

LEMMA JudgeSeen ==
    ASSUME TypeOK, SeenInv, NEW t \in Threads, Judge(t)
    PROVE  SeenInv'
<1>0. /\ pc \in [Threads -> Phases]
      /\ verdict \in [Threads -> Verdicts]
      /\ judged \in [Threads -> Nat]
  BY DEF TypeOK
<1>1. /\ pc[t] = "judge" /\ judged' = [judged EXCEPT ![t] = now]
      /\ UNCHANGED <<file, held, view, retbuf, passbuf, basis, sent, spoilt>>
  BY DEF Judge, At, toolvars, database
<1>2. CacheSeen' BY <1>1 DEF SeenInv, CacheSeen
<1>3. /\ verdict[t] = "none"
      /\ spoilt[t] = {} => passbuf[t] \in Grounds(t)
  BY <1>1 DEF SeenInv, GoesBy
<1>4. Grounds(t)' = Grounds(t) BY <1>1 DEF Grounds
<1>5. judged'[t] = now BY <1>0, <1>1
<1>6. CASE Objection(passbuf[t]) # "none"
  <2>1. /\ pc' = [pc EXCEPT ![t] = "idle"]
        /\ verdict' = [verdict EXCEPT ![t] = Objection(passbuf[t])]
    BY <1>6 DEF Judge, Refuse, Goto
  <2>2. ASSUME NEW q \in Threads, q # t PROVE GoesBy(q)' /\ Rests(q)'
    BY <1>0, <1>1, <2>1, <2>2, LeftAlone
  <2>3. GoesBy(t)' BY <1>0, <2>1 DEF GoesBy
  <2>4. verdict'[t] = Objection(passbuf[t]) BY <1>0, <2>1
  <2>5. \/ verdict'[t] = "disabled" /\ passbuf[t].disabled
        \/ verdict'[t] = "early" /\ passbuf[t].window.start > now
        \/ verdict'[t] = "expired" /\ passbuf[t].window.end < now
    BY <1>6, <2>4 DEF Objection
  <2>6. Rests(t)' BY <1>1, <1>3, <1>4, <1>5, <2>5 DEF Rests
  <2> QED BY <1>2, <2>2, <2>3, <2>6 DEF SeenInv
<1>7. CASE Objection(passbuf[t]) = "none"
  <2>1. pc' = [pc EXCEPT ![t] = "pass"] /\ verdict' = verdict
    BY <1>7 DEF Judge, Goto
  <2>2. ASSUME NEW q \in Threads, q # t PROVE GoesBy(q)' /\ Rests(q)'
    BY <1>0, <1>1, <2>1, <2>2, LeftAlone
  <2>3. /\ ~passbuf[t].disabled
        /\ ~(passbuf[t].window.start > now)
        /\ ~(passbuf[t].window.end < now)
    BY <1>7 DEF Objection
  <2>4. GoesBy(t)' BY <1>0, <1>1, <1>3, <1>4, <1>5, <2>1, <2>3 DEF GoesBy
  <2>5. Rests(t)' BY <1>3, <2>1, SaidNothing
  <2> QED BY <1>2, <2>2, <2>4, <2>5 DEF SeenInv
<1> QED BY <1>6, <1>7

LEMMA PassSeen ==
    ASSUME TypeOK, SeenInv, NEW t \in Threads,
           NEW word \in Passwords \cup {NoPass}, Pass(t, word)
    PROVE  SeenInv'
<1>0. /\ pc \in [Threads -> Phases]
      /\ verdict \in [Threads -> Verdicts]
      /\ judged \in [Threads -> Nat]
      /\ basis \in [Threads -> SUBSET Entry]
      /\ sent \in [Threads -> Passwords \cup {NoPass}]
  BY DEF TypeOK
<1>1. /\ pc[t] = "pass" /\ sent' = [sent EXCEPT ![t] = word]
      /\ UNCHANGED <<file, held, view, retbuf, passbuf, basis, judged,
                     spoilt>>
  BY DEF Pass, At, toolvars, database
<1>2. CacheSeen' BY <1>1 DEF SeenInv, CacheSeen
<1>3. /\ spoilt[t] = {} => passbuf[t] \in Grounds(t)
      /\ ~passbuf[t].disabled
      /\ ~(passbuf[t].window.start > judged[t])
      /\ ~(passbuf[t].window.end < judged[t])
  BY <1>1 DEF SeenInv, GoesBy
<1>4. Grounds(t)' = Grounds(t) BY <1>1 DEF Grounds
<1>5. sent'[t] = word BY <1>0, <1>1
<1>6. \/ /\ word = passbuf[t].pass /\ pc' = [pc EXCEPT ![t] = "in"]
         /\ verdict' = [verdict EXCEPT ![t] = "admitted"]
      \/ /\ word # passbuf[t].pass /\ pc' = [pc EXCEPT ![t] = "idle"]
         /\ verdict' = [verdict EXCEPT ![t] = "mismatch"]
  BY DEF Pass, Refuse, Goto
<1>7. ASSUME NEW q \in Threads, q # t PROVE GoesBy(q)' /\ Rests(q)'
  BY <1>0, <1>1, <1>6, <1>7, LeftAlone
<1>8. pc'[t] \in {"in", "idle"} BY <1>0, <1>6
<1>9. GoesBy(t)' BY <1>8 DEF GoesBy
<1>10. \/ verdict'[t] = "admitted" /\ passbuf[t].pass = word
       \/ verdict'[t] = "mismatch" /\ passbuf[t].pass # word
  BY <1>0, <1>6
<1>11. ASSUME spoilt[t] = {}
       PROVE  judged[t] \in passbuf[t].window.start..passbuf[t].window.end
  <2>1. passbuf[t] \in Record BY <1>0, <1>3, <1>11 DEF Grounds, Entry
  <2>2. passbuf[t].window.start \in Nat /\ passbuf[t].window.end \in Nat
    BY <2>1, PassFileAssumption DEF Record
  <2>3. judged[t] \in Nat BY <1>0
  <2> QED BY <1>3, <2>2, <2>3
<1>12. Rests(t)' BY <1>1, <1>3, <1>4, <1>5, <1>10, <1>11 DEF Rests
<1> QED BY <1>2, <1>7, <1>9, <1>12 DEF SeenInv

\* Signals, the cache, the clock and the tools.
LEMMA OtherStepSeen ==
    ASSUME TypeOK, SeenInv,
           HandleStep \/ Tick \/ \E p \in Tools : ToolRuns(p)
    PROVE  SeenInv'
<1>0. /\ pc \in [Threads -> Phases]
      /\ spoilt \in [Threads -> SUBSET Spoilers]
      /\ file \in [Colleges -> Entry]
      /\ view \in [Colleges -> Entry \cup {Unread}]
      /\ held \in [Colleges -> SUBSET Entry]
  BY DEF TypeOK, ToolTypeOK
<1>1. ASSUME NEW t \in Threads PROVE GoesBy(t)' /\ Rests(t)'
  <2>1. CASE Exit
    BY <2>1, FreshSeen DEF Exit, ProcessEnds
  <2>2. CASE ~Exit
    <3>1. /\ UNCHANGED <<pc, retbuf, passbuf, basis, judged, sent, verdict>>
          /\ \/ spoilt' = spoilt
             \/ spoilt' = [q \in Threads |-> IF q \in Copying
                              THEN spoilt[q] \cup {"reload"} ELSE spoilt[q]]
      BY <2>2 DEF HandleStep, ReloadCloses, ReloadOpens, TermCloses,
           TermClears, Start, EvictView, Closing, Spoil, Tick, ToolRuns,
           dialogue, database
    <3> QED BY <1>0, <3>1, LeftAlone
  <2> QED BY <2>1, <2>2
<1>2. ASSUME UNCHANGED <<file, view, held>> PROVE CacheSeen'
  BY <1>2 DEF SeenInv, CacheSeen
<1>3. ASSUME Opened, UNCHANGED file PROVE CacheSeen'
  BY <1>0, <1>3 DEF Opened, CacheSeen
<1>4. CASE HandleStep
  <2>1. ASSUME ReloadOpens \/ Start PROVE CacheSeen'
    BY <1>3, <2>1 DEF ReloadOpens, Start, toolvars
  <2>2. ASSUME ReloadCloses \/ TermCloses \/ TermClears \/ Exit
        PROVE  CacheSeen'
    BY <1>2, <2>2 DEF ReloadCloses, TermCloses, TermClears, Exit, Closing,
                      ProcessEnds, toolvars
  <2>3. ASSUME \E S \in SUBSET Colleges : EvictView(S) PROVE CacheSeen'
    BY <1>0, <2>3 DEF EvictView, toolvars, SeenInv, CacheSeen
  <2> QED BY <1>4, <2>1, <2>2, <2>3, <1>1 DEF HandleStep, SeenInv
<1>5. CASE Tick
  BY <1>1, <1>2, <1>5 DEF Tick, toolvars, database, SeenInv
<1>6. CASE \E p \in Tools : ToolRuns(p)
  <2>1. /\ held' = [u \in Colleges |-> held[u] \cup {file'[u]}]
        /\ view' = view
    BY <1>6 DEF ToolRuns
  <2>2. CacheSeen' BY <1>0, <2>1 DEF SeenInv, CacheSeen
  <2> QED BY <1>1, <2>2 DEF SeenInv
<1> QED BY <1>4, <1>5, <1>6

THEOREM SeenCorrect == Spec => []SeenInv
<1>1. Init => SeenInv
  BY PassFileAssumption
     DEF Init, ToolInit, SeenInv, CacheSeen, GoesBy, Rests
<1>2. TypeOK /\ SeenInv /\ [Next]_vars => SeenInv'
  <2>1. ASSUME TypeOK, SeenInv, Next PROVE SeenInv'
    BY <2>1, PlainStepSeen, GetSeen, SpoiltSeen, CopySeen, JudgeSeen,
       PassSeen, OtherStepSeen DEF Next, ThreadStep
  <2>2. ASSUME SeenInv, UNCHANGED vars PROVE SeenInv'
    BY <2>2 DEF vars, toolvars, database, dialogue, SeenInv, CacheSeen,
                GoesBy, Rests, Grounds
  <2> QED BY <2>1, <2>2
<1> QED BY <1>1, <1>2, TypeCorrect, PTL DEF Spec

\* What a client is told rests on a record that the file had for its own
\* college, unless one of the four spoilers got between (VerdictRests).
THEOREM VerdictsRest == Spec => []VerdictRests
<1>1. SeenInv => VerdictRests BY DEF SeenInv, Rests, VerdictRests
<1> QED BY <1>1, SeenCorrect, PTL

\* Whatever the server does, the tools behave as they do without it.
THEOREM ToolsAreUndisturbed == Spec => ToolSpec
<1>1. Init => ToolInit BY DEF Init
<1>2. [Next]_vars => [ToolNext]_toolvars
  <2>1. ASSUME NEW t \in Threads, ThreadStep(t) PROVE UNCHANGED toolvars
    BY <2>1 DEF ThreadStep, Accept, Magic, Drop, GetMissing, GetFound,
       GetFails, NoHandle, GetClosed, LookupUser, Copy, Judge, Crash,
       ProcessEnds, Pass
  <2>2. ASSUME HandleStep \/ Tick PROVE UNCHANGED toolvars
    BY <2>2 DEF HandleStep, ReloadCloses, ReloadOpens, TermCloses,
       TermClears, Closing, Exit, ProcessEnds, Start, EvictView, Tick
  <2>3. ASSUME NEW p \in Tools, ToolRuns(p) PROVE ToolNext
    BY <2>3 DEF ToolRuns, ToolNext
  <2>4. UNCHANGED vars => UNCHANGED toolvars BY DEF vars
  <2> QED BY <2>1, <2>2, <2>3, <2>4 DEF Next
<1> QED BY <1>1, <1>2, PTL DEF Spec, ToolSpec

\* After a reload, and until the file changes again, the server's cache holds
\* what the tools reported as stored (ReloadedIsCurrent).
THEOREM ReloadsAreCurrent == Spec => []ReloadedIsCurrent
<1>1. SeenInv /\ EditIsKept => ReloadedIsCurrent
  BY DEF SeenInv, CacheSeen, EditIsKept, ReloadedIsCurrent
<1> QED BY <1>1, SeenCorrect, ToolsAreUndisturbed, EditsAreKept, PTL
==============================================================================
