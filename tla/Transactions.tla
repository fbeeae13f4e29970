---------------------------- MODULE Transactions ----------------------------
(***************************************************************************)
(* Nested database transactions of one PHP request on one connection:      *)
(*   core/lib/Drupal/Core/Database/Transaction.php,                        *)
(*   core/lib/Drupal/Core/Database/Connection.php (the transaction layers),*)
(*   core/lib/Drupal/Core/Database/Driver/mysql/Connection.php (overrides).*)
(*                                                                         *)
(* PHP runs one call at a time, so every call is one step.  The caller     *)
(* decides when Transaction objects are created, rolled back and destroyed,*)
(* in any order that the constants allow.  The server's transaction and    *)
(* its savepoints are external and behave as MySQL's do.                   *)
(***************************************************************************)
EXTENDS Naturals, Sequences, SequencesExt

CONSTANTS
  Object,          \* the Transaction objects (reused once destroyed)
  Given,           \* names callers give to startTransaction()
  Change,          \* the rows callers write
  Callback,        \* root transaction end callbacks
  Ddl,             \* TRUE: the request also alters tables, which makes the
                   \* server commit at once (MySQL under PHP 8)
  InOrder,         \* TRUE: objects are destroyed innermost first
  RollBackAny,     \* TRUE: any live object may be rolled back, not only
                   \* the innermost
  MaxDepth         \* no more layers than this (bound of the model)

ASSUME SwitchesAssumption ==
  {Ddl, InOrder, RollBackAny} \subseteq BOOLEAN /\ MaxDepth \in Nat

(* 'drupal_transaction' is Root, 'savepoint_n' is n.                       *)
Root  == 0
Names == Nat \union Given

ASSUME GivenAssumption == Given \intersect Nat = {}

VARIABLES
  objects,         \* the live Transaction objects, in order of creation:
                   \* [id, name, rolledBack]
  layers,          \* $this->transactionLayers: [name, active]
  server,          \* the server's open transaction and savepoints:
                   \* [name, rows written since]; <<>> if none is open
  rows,            \* the durable rows
  callbacks,       \* $this->rootTransactionEndCallbacks
  told,            \* told[c]: what callback c was called with
  warned           \* was "Rollback attempted when there is no active
                   \* transaction" reported?

vars == <<objects, layers, server, rows, callbacks, told, warned>>

Layer == [name : Names, active : BOOLEAN]
Level == [name : Names, rows : SUBSET Change]

Init ==
  /\ objects = <<>> /\ layers = <<>> /\ server = <<>>
  /\ rows = {}
  /\ callbacks = {} /\ told = [c \in Callback |-> "nothing"]
  /\ warned = FALSE

-----------------------------------------------------------------------------
(* The server                                                              *)

Open        == server # <<>>
Unsaved(s)  == UNION {s[i].rows : i \in DOMAIN s}
Savepoint(n) == SelectLastInSeq(server, LAMBDA l : l.name = n)

(* Level i swallows the levels above it.                                   *)
Merge(s, i) ==
  IF i = 0 THEN <<>>
  ELSE Append(SubSeq(s, 1, i - 1),
              [s[i] EXCEPT !.rows = Unsaved(SubSeq(s, i, Len(s)))])

(* SAVEPOINT n replaces an older savepoint of that name; outside a         *)
(* transaction it has no effect.                                           *)
SetSavepoint(n) ==
  LET i == Savepoint(n)
      s == IF i = 0 THEN server
           ELSE Merge(SubSeq(server, 1, i), i - 1) \o
                SubSeq(server, i + 1, Len(server))
  IN  server' = IF Open THEN Append(s, [name |-> n, rows |-> {}]) ELSE server

(* ROLLBACK TO SAVEPOINT n keeps the savepoint itself.                     *)
RolledBackTo(n) ==
  Append(SubSeq(server, 1, Savepoint(n) - 1), [name |-> n, rows |-> {}])

-----------------------------------------------------------------------------
(* Layers                                                                  *)

InTransaction == layers # <<>>
IsLayer(n)    == \E i \in DOMAIN layers : layers[i].name = n

Tell(outcome) ==
  /\ callbacks' = {}
  /\ told' = [c \in Callback |-> IF c \in callbacks THEN outcome ELSE told[c]]

(* Mutation: the callbacks wait if DDL has ended the transaction already.   *)
DoCommitSilently(s) ==
  /\ server' = <<>>
  /\ \/ /\ rows' = rows \union Unsaved(s)
        /\ IF s # <<>> THEN Tell("committed") ELSE UNCHANGED <<callbacks, told>>
     \/ s # <<>> /\ UNCHANGED rows /\ Tell("failed")

(* doCommit(): the callbacks learn whether the server committed; if DDL    *)
(* has ended its transaction, everything is saved already.                 *)
DoCommit(s) ==
  /\ server' = <<>>
  /\ \/ rows' = rows \union Unsaved(s) /\ Tell("committed")
     \/ s # <<>> /\ UNCHANGED rows /\ Tell("failed")

(* Mutation: only the innermost layer is looked at.                        *)
PopOneCommittable(ls, s) ==
  IF ls # <<>> /\ ~Last(ls).active
  THEN IF Len(ls) = 1
       THEN layers' = <<>> /\ DoCommit(s)
       ELSE /\ layers' = Front(ls)
            /\ server' = Merge(s, Len(s) - 1)
            /\ UNCHANGED <<rows, callbacks, told>>
  ELSE layers' = ls /\ server' = s /\ UNCHANGED <<rows, callbacks, told>>

(* popCommittableTransactions(): the trailing inactive layers go; without  *)
(* any left, commit.  Their savepoints are released from the innermost     *)
(* out, and the server merges their rows into the level below.  If DDL has *)
(* destroyed the savepoints, the whole stack is given up.                  *)
PopCommittable(ls, s) ==
  LET keep  == SelectLastInSeq(ls, LAMBDA l : l.active)
      first == ls[keep + 1].name
  IN
  \/ /\ keep = Len(ls)
     /\ layers' = ls /\ server' = s
     /\ UNCHANGED <<rows, callbacks, told>>
  \/ /\ keep < Len(ls)
     /\ keep = 0 \/ s = <<>>
     /\ layers' = <<>>
     /\ DoCommit(s)
  \/ /\ keep < Len(ls) /\ keep > 0 /\ s # <<>>
     /\ layers' = SubSeq(ls, 1, keep)
     /\ server' = Merge(s, SelectLastInSeq(s, LAMBDA l : l.name = first) - 1)
     /\ UNCHANGED <<rows, callbacks, told>>

-----------------------------------------------------------------------------
(* What the request does                                                   *)

(* Mutation: pushTransaction() does not look whether the name is in use.   *)
StartTransactionAnyName(o, n) ==
  LET depth == Len(layers)
      name  == IF depth = 0 THEN Root ELSE IF n = Root THEN depth ELSE n
  IN
  /\ depth < MaxDepth
  /\ \A i \in DOMAIN objects : objects[i].id # o
  /\ IF depth = 0 THEN server' = <<[name |-> Root, rows |-> {}]>>
                  ELSE SetSavepoint(name)
  /\ layers' = Append(layers, [name |-> name, active |-> TRUE])
  /\ objects' = Append(objects, [id |-> o, name |-> name, rolledBack |-> FALSE])
  /\ UNCHANGED <<rows, callbacks, told, warned>>

(* new Transaction($connection, $name) and pushTransaction(); n = Root     *)
(* stands for no name given.                                               *)
StartTransaction(o, n) ==
  LET depth == Len(layers)
      name  == IF depth = 0 THEN Root ELSE IF n = Root THEN depth ELSE n
  IN
  /\ depth < MaxDepth
  /\ \A i \in DOMAIN objects : objects[i].id # o
  /\ ~IsLayer(name)         \* else TransactionNameNonUniqueException
  /\ IF depth = 0 THEN server' = <<[name |-> Root, rows |-> {}]>>
                  ELSE SetSavepoint(name)
  /\ layers' = Append(layers, [name |-> name, active |-> TRUE])
  /\ objects' = Append(objects, [id |-> o, name |-> name, rolledBack |-> FALSE])
  /\ UNCHANGED <<rows, callbacks, told, warned>>

(* Mutation: popTransaction() takes the layer off the stack at once.       *)
DeactivateAtOnce(n) == SelectSeq(layers, LAMBDA l : l.name # n)

Deactivate(n) ==
  [i \in DOMAIN layers |->
     IF layers[i].name = n THEN [layers[i] EXCEPT !.active = FALSE]
                           ELSE layers[i]]

(* Mutation: the destructor forgets that the object was rolled back, and   *)
(* pops whatever layer has its name now.                                   *)
DestructAlways(i) ==
  LET o == objects[i] IN
  /\ InOrder => i = Len(objects)
  /\ objects' = RemoveAt(objects, i)
  /\ IF ~IsLayer(o.name)
     THEN UNCHANGED <<layers, server, rows, callbacks, told>>
     ELSE PopCommittable(Deactivate(o.name), server)
  /\ UNCHANGED warned

(* __destruct() and popTransaction(): the layer becomes committable, and   *)
(* goes when no active layer is above it.                                  *)
Destruct(i) ==
  LET o == objects[i] IN
  /\ InOrder => i = Len(objects)
  /\ objects' = RemoveAt(objects, i)
  /\ IF o.rolledBack \/ ~IsLayer(o.name)
     THEN UNCHANGED <<layers, server, rows, callbacks, told>>
     ELSE PopCommittable(Deactivate(o.name), server)
  /\ UNCHANGED warned

(* The object that a caller may roll back.                                 *)
MayRollBack(i) ==
  /\ ~objects[i].rolledBack
  /\ RollBackAny \/ \A j \in DOMAIN objects : j > i => objects[j].rolledBack

(* What rollBack() pops off the stack.  The loop takes the value of a      *)
(* layer for its condition, so it also ends at a layer that is inactive.   *)
StopsAt(n) ==
  SelectLastInSeq(layers, LAMBDA l : l.name = n \/ ~l.active)

(* rollBack() of the object and of the connection.  At a savepoint the     *)
(* server rolls back to it, and layers that only waited for it become      *)
(* committable.  Otherwise the whole transaction is rolled back, after the *)
(* callbacks were told.  (TransactionOutOfOrderException follows if other  *)
(* active layers were popped.)  Without the layer or the server's          *)
(* transaction there is an exception or a warning, and nothing else.       *)
RollBack(i) ==
  LET n    == objects[i].name
      stop == StopsAt(n)
      left == SubSeq(layers, 1, stop - 1)
  IN
  /\ MayRollBack(i)
  /\ objects' = [objects EXCEPT ![i].rolledBack = TRUE]
  /\ warned' = (warned \/ (IsLayer(n) /\ ~Open))
  /\ \/ /\ ~IsLayer(n) \/ ~Open
        /\ UNCHANGED <<layers, server, rows, callbacks, told>>
     \/ /\ IsLayer(n) /\ Open
        /\ layers[stop].active /\ left # <<>>
        /\ PopCommittable(left, RolledBackTo(n))
     \/ /\ IsLayer(n) /\ Open
        /\ ~layers[stop].active \/ left = <<>>
        /\ layers' = left /\ server' = <<>>
        /\ Tell("failed")
        /\ UNCHANGED rows

(* A query that writes; outside a transaction the server commits it.       *)
Write(c) ==
  /\ c \notin rows \union Unsaved(server)
  /\ IF Open
     THEN /\ server' = [server EXCEPT ![Len(server)].rows = @ \union {c}]
          /\ UNCHANGED rows
     ELSE rows' = rows \union {c} /\ UNCHANGED server
  /\ UNCHANGED <<objects, layers, callbacks, told, warned>>

(* addRootTransactionEndCallback(); outside a transaction: LogicException. *)
AddCallback(c) ==
  /\ InTransaction
  /\ c \notin callbacks /\ told[c] = "nothing"
  /\ callbacks' = callbacks \union {c}
  /\ UNCHANGED <<objects, layers, server, rows, told, warned>>

(* A table is created or altered.                                          *)
AlterTable ==
  /\ Ddl /\ Open
  /\ rows' = rows \union Unsaved(server)
  /\ server' = <<>>
  /\ UNCHANGED <<objects, layers, callbacks, told, warned>>

Next ==
  \/ \E o \in Object, n \in Given \union {Root} : StartTransaction(o, n)
  \/ \E i \in DOMAIN objects : Destruct(i) \/ RollBack(i)
  \/ \E c \in Change : Write(c)
  \/ \E c \in Callback : AddCallback(c)
  \/ AlterTable

Spec == Init /\ [][Next]_vars

-----------------------------------------------------------------------------

(* Layers are a PHP array keyed by name: no name occurs twice.             *)
TypeOK ==
  /\ objects \in Seq([id : Object, name : Names, rolledBack : BOOLEAN])
  /\ layers \in Seq(Layer)
  /\ \A i, j \in DOMAIN layers : layers[i].name = layers[j].name => i = j
  /\ server \in Seq(Level)
  /\ rows \subseteq Change
  /\ callbacks \subseteq Callback
  /\ told \in [Callback -> {"nothing", "committed", "failed"}]
  /\ warned \in BOOLEAN

(* The connection's layers and the server's savepoints tell the same       *)
(* story: no transaction is open without layers, and every layer names a   *)
(* savepoint, in the same order, whatever savepoints rollbacks have left   *)
(* behind.  Else a release or a rollback would hit the wrong savepoint.    *)
StackMatches ==
  Open => /\ InTransaction
          /\ layers[1].name = server[1].name
          /\ \A i, j \in DOMAIN layers :
               i < j => Savepoint(layers[i].name) < Savepoint(layers[j].name)

(* "only commit the outer-most transaction when the last transaction       *)
(* object goes out of scope" (database.api.php:164): when no Transaction   *)
(* object is alive, no layer is left and no callback still waits.  A layer *)
(* left behind would keep inTransaction() true, and cache tag              *)
(* invalidations waiting, for the rest of the request.                     *)
NothingOpenAtEnd == objects = <<>> => ~InTransaction /\ callbacks = {}

(* The same although DDL statements have committed behind the connection's *)
(* back, as long as no rollback was refused.                               *)
CleanAfterDdl == ~warned => NothingOpenAtEnd

(* inTransaction() returns "TRUE if we're currently in a transaction,      *)
(* FALSE otherwise" (Connection.php:1420), however a rollback ended.  With *)
(* RollBackAny it does not hold: README, section 5.                        *)
InTransactionTruthful == InTransaction <=> Open

-----------------------------------------------------------------------------
(* The scopes of the promise are the objects that were not rolled back; a  *)
(* row belongs to the scopes whose savepoint is at or below its level.     *)
IsScope(i)   == ~objects[i].rolledBack
IdsOf(I)     == {objects[i].id : i \in {j \in I : IsScope(j)}}
ScopesAt(a)  == IdsOf({i \in DOMAIN objects : Savepoint(objects[i].name) <= a})
ScopesBefore(o) ==
  IdsOf({j \in DOMAIN objects :
           \E i \in DOMAIN objects : IsScope(i) /\ objects[i].id = o /\ j < i})

Promise == INSTANCE NestedTransactions WITH
  Scope   <- Object,
  live    <- IdsOf(DOMAIN objects),
  around  <- [o \in Object |-> ScopesBefore(o)],
  pending <- UNION {{[change |-> c, within |-> ScopesAt(a)] : c \in server[a].rows}
                    : a \in DOMAIN server},
  saved   <- rows,
  waiting <- callbacks

PromiseSpec == Promise!Spec
=============================================================================
