----------------------------- MODULE MCTableData -----------------------------
(* TableData on two tables, one column name and four requests. *)
EXTENDS TableData, TLC

CONSTANTS ta, tb

MCStart == ta :> "a" @@ tb :> "b"
Plain    == [type |-> "uuid", nullable |-> TRUE,  unique |-> FALSE, default |-> Null]
Required == [type |-> "uuid", nullable |-> FALSE, unique |-> FALSE, default |-> Null]
Keyed    == [type |-> "text", nullable |-> FALSE, unique |-> TRUE,  default |-> Row0]
Rules    == {"cascade", "restrict", "set_null"}
Mix(n, kinds, shapes, keyed, rules) ==
  [requests |-> n, kinds |-> kinds, shapes |-> shapes, keyed |-> keyed, rules |-> rules]
MCMixes ==
  { Mix(4, {"create", "drop", "column"}, {Plain}, {}, {}),
    Mix(4, {"key", "drop", "create"}, {Plain}, {"c"}, {"restrict"}),
    Mix(3, {"column", "key", "drop", "create"}, {Plain, Keyed}, {"c"}, {"restrict"}),
    Mix(3, {"key", "drop", "create"}, {Plain}, {Pk}, {"restrict"}),
    Mix(3, {"column", "insert", "update", "read"}, {Plain, Required, Keyed}, {}, {}),
    Mix(3, {"key", "insert", "delete"}, {Plain}, {"c"}, {"cascade", "set_null"}),
    Mix(3, {"key", "insert", "delete"}, {Plain}, {Pk}, {"cascade"}),
    Mix(3, {"create", "drop", "insert", "update", "delete", "read"}, {Plain}, {}, {}) }
MCSymmetry == Permutations(Requests)
=============================================================================
