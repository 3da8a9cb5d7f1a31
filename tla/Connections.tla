----------------------------- MODULE Connections -----------------------------
(***************************************************************************)
(* Connected external databases (databases/connections.py, connectors.py). *)
(* A connection is tested before it is saved; a later test records its     *)
(* verdict; browsing reads the live schema and then, on a connection of    *)
(* its own, the rows.  Every connection first resolves the host and        *)
(* refuses unsuitable addresses, and the driver then resolves it again.    *)
(* The network outside answers as it likes.                                *)
(*                                                                         *)
(* Operators named X_Y are faulty variants of X that the properties are    *)
(* checked against.                                                        *)
(***************************************************************************)
EXTENDS Naturals, Sequences, FiniteSets

CONSTANTS
  NumClients,     \* how many requests are made about the connection
  Resolutions,    \* what the host may resolve to: sequences of address kinds
  BlockPrivate,   \* CONNECTED_DATABASE_BLOCK_PRIVATE_NETWORKS: the values tried
  MaxMoves        \* how often the outside changes

Clients == 1..NumClients   \* numbered in the order they begin

ASSUME ConnectionsAssumption == NumClients \in Nat /\ BlockPrivate \subseteq BOOLEAN /\ MaxMoves \in Nat

VARIABLES
  blocking,    \* the setting of this deployment
  resolution,  \* what the host resolves to now
  serverUp,    \* does the external server answer, with this password?
  hasTable,    \* does it have the table that is browsed?
  moves,
  status,         \* the ConnectedDatabase row: "none" before it, "gone" after it,
               \* or its status
  saves,       \* the tests whose verdict was saved, in order
  client         \* each client: what it does, where it stands, what it saw

outside == <<blocking, resolution, serverUp, hasTable, moves>>
connectionVars == <<outside, status, saves, client>>

Attributes ==
  [loopback4 |-> {"private", "loopback"},
   loopback6 |-> {"private", "loopback", "reserved"},
   private   |-> {"private"},
   linkLocal |-> {"private", "link_local"},
   public    |-> {}]
AlwaysUnsafe == {"link_local", "unspecified", "reserved", "multicast"}
PrivateNetwork == {"private", "loopback"}

\* assert_host_is_safe, one resolved address.
Acceptable(a) ==
  IF "loopback" \in Attributes[a] THEN ~blocking
  ELSE /\ Attributes[a] \cap AlwaysUnsafe = {}
       /\ blocking => Attributes[a] \cap PrivateNetwork = {}

HostIsSafe_First(r) == r # <<>> /\ Acceptable(r[1])
\* Every address has to be acceptable; a host that does not resolve is not.
HostIsSafe(r) == r # <<>> /\ \A i \in DOMAIN r : Acceptable(r[i])

-----------------------------------------------------------------------------
NoCall == [op |-> "none", at |-> "idle", dialled |-> {}, verdict |-> "none",
         looked |-> 0, raced |-> FALSE, second |-> FALSE]

ConnectionsInit ==
  /\ blocking \in BlockPrivate
  /\ resolution \in Resolutions /\ serverUp \in BOOLEAN /\ hasTable \in BOOLEAN /\ moves = 0
  /\ status = "none" /\ saves = <<>>
  /\ client = [c \in Clients |-> NoCall]

Outside ==
  /\ moves < MaxMoves /\ moves' = moves + 1
  /\ \/ resolution' \in Resolutions \ {resolution} /\ UNCHANGED <<serverUp, hasTable>>
     \/ serverUp' = ~serverUp /\ UNCHANGED <<resolution, hasTable>>
     \/ hasTable' = ~hasTable /\ UNCHANGED <<resolution, serverUp>>
  /\ UNCHANGED <<blocking, status, saves, client>>

Usable(s) == s \in {"connected", "unreachable"}

\* create_connected_database starts without a row, everything else loads it.
BeginCall(c) ==
  /\ client[c].at = "idle" /\ \A d \in 1..(c - 1) : client[d].at # "idle"
  /\ \E op \in {"create", "test", "schema", "rows", "delete"} :
       /\ IF op = "create" THEN \A d \in Clients : client[d].op # "create" ELSE Usable(status)
       /\ client' = [client EXCEPT ![c] = [NoCall EXCEPT !.op = op,
                                        !.at = IF op = "delete" THEN "save" ELSE "check"]]
  /\ UNCHANGED <<outside, status, saves>>

\* _connect: assert_host_is_safe ...
CheckHost(c) ==
  /\ client[c].at = "check"
  /\ client' = [client EXCEPT
       ![c].looked = moves,
       ![c].verdict = IF HostIsSafe(resolution) THEN @ ELSE "unreachable",
       ![c].at = IF HostIsSafe(resolution) THEN "dial" ELSE "failed"]
  /\ UNCHANGED <<outside, status, saves>>

\* introspect_schema finds the table, list_rows reads it.
Finds(c) == client[c].op = "rows" => hasTable

\* ... then psycopg.connect, which resolves the name anew and tries the
\* addresses, and the statements on that connection.  Rows take a second
\* connection after the schema.
AfterDial(c) ==
  CASE client[c].op \in {"create", "test"}          -> "save"
    [] client[c].op = "rows" /\ ~client[c].second     -> "check"
    [] OTHER                                      -> "answered"

Dial(c) ==
  /\ client[c].at = "dial"
  /\ LET ok == serverUp /\ resolution # <<>> /\ Finds(c)
     IN  client' = [client EXCEPT
           ![c].dialled = @ \cup {resolution[i] : i \in DOMAIN resolution},
           ![c].raced = @ \/ moves # client[c].looked,
           ![c].verdict = IF ok THEN "connected" ELSE "unreachable",
           ![c].at = IF ok THEN AfterDial(c) ELSE "failed",
           ![c].second = @ \/ (ok /\ client[c].op = "rows")]
  /\ UNCHANGED <<outside, status, saves>>

\* A failed creation saves nothing; a failed test saves that.
MaySave(c) ==
  \/ client[c].at = "save"
  \/ client[c].at = "failed" /\ client[c].op = "test"

\* save(update_fields=...) of a row that was deleted meanwhile fails.
RowAfter_Upsert(c) ==
  CASE client[c].op = "create" -> "connected"
    [] client[c].op = "test"   -> client[c].verdict
    [] client[c].op = "delete" -> "gone"
RowAfter(c) ==
  CASE client[c].op = "create" -> "connected"
    [] client[c].op = "test"   -> IF status = "gone" THEN status ELSE client[c].verdict
    [] client[c].op = "delete" -> "gone"

SaveRow(c) ==
  /\ MaySave(c)
  /\ status' = RowAfter(c)
  /\ saves' = IF client[c].op = "test" /\ status # "gone" THEN Append(saves, c) ELSE saves
  /\ client' = [client EXCEPT ![c].at = "ended"]
  /\ UNCHANGED outside

ConnectionsNext ==
  Outside \/ \E c \in Clients : BeginCall(c) \/ CheckHost(c) \/ Dial(c) \/ SaveRow(c)
ConnectionsSpec == ConnectionsInit /\ [][ConnectionsNext]_connectionVars

-----------------------------------------------------------------------------
\* delete_connected_database: a connection that was deleted stays deleted,
\* whatever test was under way; the state keeps its shape.
DeletedStays ==
  /\ status \in {"none", "connected", "unreachable", "gone"} /\ moves \in 0..MaxMoves
  /\ \A c \in Clients : client[c].at \in {"idle", "check", "dial", "save", "failed", "answered", "ended"}
  /\ (\E c \in Clients : client[c].op = "delete" /\ client[c].at = "ended") => status = "gone"

\* create_connected_database: a connection is saved only after a connection
\* to it succeeded (its comment, "tested BEFORE any credential is persisted").
SavedMeansTested ==
  status # "none" => \E c \in Clients : client[c].op = "create" /\ client[c].verdict = "connected"

\* _connect: every address that was dialled is acceptable, unless the host
\* came to resolve differently between the check and the connection.
DialsWereChecked ==
  \A c \in Clients : client[c].raced \/ \A a \in client[c].dialled : Acceptable(a)

\* test_connected_database: the status shown tells whether the server can be
\* reached, as long as nothing changed outside since the test whose verdict
\* was saved last began to connect (two overlapping tests may save in either
\* order).
StatusIsCurrent ==
  Usable(status) /\ saves # <<>> =>
    LET last == saves[Len(saves)]
    IN  client[last].looked = moves =>
          (status = "connected" <=> HostIsSafe(resolution) /\ serverUp)

\* list_connected_database_rows: a listing that fails although the table was
\* in the live schema was overtaken by a change outside.
ListingOvertaken ==
  \A c \in Clients : client[c].op = "rows" /\ client[c].at = "failed" /\ client[c].second => moves > 0

\* The status of a connection is true (connections.py): the four parts above,
\* about saving, testing, browsing and deleting it in any overlap.
StatusIsTrue == DeletedStays /\ SavedMeansTested /\ StatusIsCurrent /\ ListingOvertaken
=============================================================================
