---------------------------- MODULE FileArchive ------------------------------
(***************************************************************************)
(* What a versioned bucket promises, without stores or requests: the       *)
(* contents written to a file are its latest and its past, where each that *)
(* is replaced stays; one of them is current, as a rule the latest.  No    *)
(* content is written twice.                                               *)
(***************************************************************************)
CONSTANTS Files, Keys

VARIABLES
  current,   \* file -> the content that is shown, as a set of at most one key
  latest,    \* file -> the content written last, likewise
  past       \* file -> its earlier contents

archiveVars == <<current, latest, past>>

Used == UNION {latest[f] \cup past[f] : f \in Files}

Init ==
  /\ \E f \in Files, k \in Keys : current = [g \in Files |-> IF g = f THEN {k} ELSE {}]
  /\ latest = current
  /\ past = [f \in Files |-> {}]

\* A new file, or new content for an old one.
Write(f, k) ==
  /\ k \notin Used
  /\ current' = [current EXCEPT ![f] = {k}]
  /\ latest' = [latest EXCEPT ![f] = {k}]
  /\ past' = [past EXCEPT ![f] = @ \cup latest[f]]

\* A content that is still there is shown again.
Show(f, k) ==
  /\ k \in latest[f] \cup past[f]
  /\ current' = [current EXCEPT ![f] = {k}]
  /\ UNCHANGED <<latest, past>>

Next == \E f \in Files, k \in Keys : Write(f, k) \/ Show(f, k)

Spec == Init /\ [][Next]_archiveVars
=============================================================================
