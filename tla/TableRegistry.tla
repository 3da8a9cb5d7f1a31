---------------------------- MODULE TableRegistry ----------------------------
(***************************************************************************)
(* What the schema builder offers its users, without stores or requests:   *)
(* a set of usable tables.  A table is published at most once, never under *)
(* a name in use, and once it is gone it never comes back.                 *)
(***************************************************************************)
CONSTANT Tables      \* records [id, db, name]

VARIABLES
  usable,   \* the tables users can work with
  spent     \* the ids of all tables there have ever been

registryVars == <<usable, spent>>

Init == usable \subseteq Tables /\ spent = {t.id : t \in usable}

Publish(t) ==
  /\ t.id \notin spent
  /\ \A u \in usable : <<u.db, u.name>> # <<t.db, t.name>>
  /\ usable' = usable \cup {t}
  /\ spent' = spent \cup {t.id}

\* A table that was lost before it was published.
Lose(t) ==
  /\ spent' = spent \cup {t.id}
  /\ UNCHANGED usable

Retire ==
  /\ usable' \in SUBSET usable
  /\ UNCHANGED spent

Next == (\E t \in Tables : Publish(t) \/ Lose(t)) \/ Retire

Spec == Init /\ [][Next]_registryVars
=============================================================================
