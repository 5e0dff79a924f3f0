---------------------------- MODULE DocumentStore ----------------------------
(***************************************************************************)
(* What the document vault promises its users: a store in which a document *)
(* and its file are written at once.  Every file a document ever showed    *)
(* can be read for as long as the estate is kept, unless the volume lost   *)
(* it; a document that was archived stays archived; an erasure takes all   *)
(* documents together, and only after it are files deleted.                *)
(***************************************************************************)
CONSTANTS Doc, Key, Null

VARIABLES
  estate,    \* the estate is kept
  doc,       \* the rows readers see
  shown,     \* the files each document ever showed
  readable,  \* those of them that can be read
  lost       \* files the volume lost

vars == <<estate, doc, shown, readable, lost>>

Absent == [state |-> "absent", key |-> Null, links |-> {}, version |-> 0]

Shown == UNION {shown[d] : d \in Doc}

Init ==
  /\ estate = TRUE
  /\ doc = [d \in Doc |-> Absent]
  /\ shown = [d \in Doc |-> {}]
  /\ readable = {}
  /\ lost = {}

\* A document gets a file that none ever showed, and keeps its state.  Its previous
\* files are files it showed; of the number of the version nothing is promised.
Write(d, k) ==
  /\ estate
  /\ k \notin Shown
  /\ doc[d] = Absent => shown[d] = {}
  /\ doc' = [doc EXCEPT ![d] = doc'[d]]
  /\ doc'[d].state = IF doc[d] = Absent THEN "live" ELSE doc[d].state
  /\ doc'[d].key = k
  /\ doc'[d].links \subseteq shown[d]
  /\ shown' = [shown EXCEPT ![d] = @ \cup {k}]
  /\ readable' = readable \cup ({k} \ lost)
  /\ UNCHANGED <<estate, lost>>

Archive(d) ==
  /\ doc[d].state = "live"
  /\ doc' = [doc EXCEPT ![d].state = "archived"]
  /\ UNCHANGED <<estate, shown, readable, lost>>

Erase ==
  /\ estate
  /\ estate' = FALSE
  /\ doc' = [d \in Doc |-> Absent]
  /\ UNCHANGED <<shown, readable, lost>>

Delete(k) ==
  /\ ~estate
  /\ readable' = readable \ {k}
  /\ UNCHANGED <<estate, doc, shown, lost>>

Lose(k) ==
  /\ lost' = lost \cup {k}
  /\ readable' = readable \ {k}
  /\ UNCHANGED <<estate, doc, shown>>

Next ==
  \/ \E d \in Doc, k \in Key : Write(d, k)
  \/ \E d \in Doc : Archive(d)
  \/ Erase
  \/ \E k \in Key : Delete(k) \/ Lose(k)

Spec == Init /\ [][Next]_vars

-----------------------------------------------------------------------------
\* Every version a document ever showed is still to be had while the estate is kept.
VersionsKept == estate => Shown \subseteq readable \cup lost
=============================================================================
