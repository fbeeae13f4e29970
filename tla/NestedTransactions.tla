------------------------- MODULE NestedTransactions -------------------------
(***************************************************************************)
(* What Drupal's database API promises about nested transactions           *)
(* (core/lib/Drupal/Core/Database/database.api.php, "Transactions"),       *)
(* without layers, savepoints and names.  A scope is the life of a         *)
(* Transaction object.  Every change belongs to the scopes that were open  *)
(* when it was made.  Undoing a scope drops its changes; the changes that  *)
(* are left are saved, all at once, when the last scope has ended.         *)
(***************************************************************************)
CONSTANTS
  Scope,         \* the scopes
  Change,        \* the changes made to the database
  Callback       \* those who ask to be told how it ends

VARIABLES
  live,          \* the open scopes
  around,        \* around[s]: the open scopes that s began in
  pending,       \* the unsaved changes, each with the scopes it belongs to
  saved,         \* the durable changes
  waiting,       \* the callbacks that wait for the end
  told           \* what they were told

apiVars == <<live, around, pending, saved, waiting, told>>

Changes == {c.change : c \in pending}

Init ==
  /\ live = {} /\ around = [s \in Scope |-> {}]
  /\ pending = {} /\ saved = {}
  /\ waiting = {} /\ told = [c \in Callback |-> "nothing"]

Begin(s) ==
  /\ s \notin live
  /\ live' = live \union {s}
  /\ around' = [around EXCEPT ![s] = live]
  /\ UNCHANGED <<pending, saved, waiting, told>>

Make(c) ==
  /\ c \notin Changes \union saved
  /\ IF live = {}
     THEN saved' = saved \union {c} /\ UNCHANGED pending
     ELSE /\ pending' = pending \union {[change |-> c, within |-> live]}
          /\ UNCHANGED saved
  /\ UNCHANGED <<live, around, waiting, told>>

(* While a scope is open anybody may ask.                                  *)
Ask(c) ==
  /\ live # {}
  /\ waiting' = waiting \union {c}
  /\ UNCHANGED <<live, around, pending, saved, told>>

Tell(outcome) ==
  /\ waiting' = {}
  /\ told' = [c \in Callback |-> IF c \in waiting THEN outcome ELSE told[c]]

(* The changes that outlive scope s: with the last scope they are saved,   *)
(* or all lost if the database refuses to commit; the callbacks learn      *)
(* which.                                                                  *)
Close(s, rest) ==
  /\ live' = live \ {s}
  /\ around' = [t \in Scope |-> IF t = s THEN {} ELSE around[t] \ {s}]
  /\ IF live' = {}
     THEN /\ pending' = {}
          /\ \/ saved' = saved \union {c.change : c \in rest} /\ Tell("committed")
             \/ UNCHANGED saved /\ Tell("failed")
     ELSE /\ pending' = {[c EXCEPT !.within = @ \ {s}] : c \in rest}
          /\ UNCHANGED <<saved, waiting, told>>

(* A scope may end before the scopes inside it.                            *)
End(s) == s \in live /\ Close(s, pending)

(* Only the innermost open scope is undone: no other began in it.          *)
Undo(s) ==
  /\ s \in live /\ \A t \in live : s \notin around[t]
  /\ Close(s, {c \in pending : s \notin c.within})

Next ==
  \/ \E s \in Scope : Begin(s) \/ End(s) \/ Undo(s)
  \/ \E c \in Change : Make(c)
  \/ \E c \in Callback : Ask(c)

Spec == Init /\ [][Next]_apiVars
=============================================================================
