------------------------------- MODULE Registry -------------------------------
(***************************************************************************)
(* What the server promises an institution about its registration          *)
(* database, without threads, streams, buffers, caches or pages: sessions  *)
(* come and go; in one of them forms are handed over, and some of those    *)
(* are answered.  A session that ends without trouble leaves every form    *)
(* that has been answered on record.  Until then the records may lag       *)
(* behind, but none is lost and none is ever anything but a form handed    *)
(* over.  Sessions that overlap may lose records of each other; a put that *)
(* fails unnoticed and a server that is stopped lose answered forms, but   *)
(* no record.                                                              *)
(***************************************************************************)
CONSTANTS Colleges, Keys, NoBody

VARIABLES
    offered,    \* offered[c][k]: the forms handed over so far
    record,     \* record[c][k]: what the database file holds
    answered,   \* answered[c][k]: the form that c may rely on, if any
    busy,       \* busy[c]: a session of c goes on
    trouble     \* trouble[c]: what may break the promise to c, so far

vars == <<offered, record, answered, busy, trouble>>

Init ==
    /\ offered = [c \in Colleges |-> [k \in Keys |-> {}]]
    /\ record = [c \in Colleges |-> [k \in Keys |-> NoBody]]
    /\ answered = [c \in Colleges |-> [k \in Keys |-> NoBody]]
    /\ busy = [c \in Colleges |-> FALSE]
    /\ trouble = [c \in Colleges |-> {}]

\* A session begins, beside another maybe.
Enter(c) ==
    /\ busy' = [busy EXCEPT ![c] = TRUE]
    /\ trouble' = IF busy[c] THEN [trouble EXCEPT ![c] = @ \cup {"overlap"}]
                  ELSE trouble
    /\ UNCHANGED <<offered, record, answered>>

\* A client ends a form with ".": some b is among the offers afterwards.
Offer(c, k) ==
    /\ busy[c]
    /\ \E b \in offered'[c][k] :
          offered' = [offered EXCEPT ![c][k] = @ \cup {b}]
    /\ UNCHANGED <<record, answered, busy, trouble>>

\* The form is put: what was answered under its name before is no longer
\* promised, and this one not yet.  The put may fail.
Put(c, k) ==
    /\ busy[c]
    /\ answered' = [answered EXCEPT ![c][k] = NoBody]
    /\ \/ UNCHANGED trouble
       \/ trouble' = [trouble EXCEPT ![c] = @ \cup {"put"}]
    /\ UNCHANGED <<offered, record, busy>>

\* A form handed over is answered with 500.
Promise(c, k) ==
    /\ busy[c]
    /\ \E b \in offered[c][k] : answered' = [answered EXCEPT ![c][k] = b]
    /\ UNCHANGED <<offered, record, busy, trouble>>

\* What a write of pages may make of the record of form k: it stays, or gives
\* way to a form handed over, the answered one if there is one.  Only a
\* session beside another can bring back what had been replaced.
MayBecome(c, k) ==
    {record[c][k]} \cup
    (IF "overlap" \in trouble[c] THEN offered[c][k] \cup {NoBody}
     ELSE IF trouble[c] = {} /\ answered[c][k] # NoBody THEN {answered[c][k]}
     ELSE offered[c][k])

Written(c) ==
    /\ record' = [record EXCEPT ![c] = record'[c]]
    /\ \A k \in Keys : record'[c][k] \in MayBecome(c, k)

\* A session writes what it holds of the database, or some pages of it.
WriteBack(c) ==
    /\ busy[c]
    /\ Written(c)
    /\ UNCHANGED <<offered, answered, busy, trouble>>

\* A session ends: it writes, and if it was the only one and there has been
\* no trouble, what has been answered is on record from now on.
Leave(c) ==
    /\ busy[c]
    /\ Written(c)
    /\ \/ UNCHANGED busy /\ "overlap" \in trouble[c]
       \/ busy' = [busy EXCEPT ![c] = FALSE]
    /\ ~busy'[c] /\ trouble[c] = {}
          => \A k \in Keys : answered[c][k] \in {NoBody, record'[c][k]}
    /\ UNCHANGED <<offered, answered, trouble>>

\* The server is stopped, inside a session of some institutions.
Stop ==
    /\ busy' = [c \in Colleges |-> FALSE]
    /\ trouble' = [c \in Colleges |->
                    trouble[c] \cup (IF busy[c] THEN {"exit"} ELSE {})]
    /\ UNCHANGED <<offered, record, answered>>

Next ==
    \/ \E c \in Colleges :
          \/ Enter(c) \/ WriteBack(c) \/ Leave(c)
          \/ \E k \in Keys : Offer(c, k) \/ Put(c, k) \/ Promise(c, k)
    \/ Stop

Spec == Init /\ [][Next]_vars
==============================================================================
