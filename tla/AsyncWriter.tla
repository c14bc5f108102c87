---------------------------- MODULE AsyncWriter ----------------------------
(***************************************************************************)
(* What an asynchronous writer promises to the handlers that hand it their *)
(* rows ("mysql" written asynchronously, README.md of the repository): a   *)
(* row it accepted is pending until it is in the table; rows reach the     *)
(* table in the order of their acceptance, each once; a pending row is     *)
(* dropped only when the process dies. A row is the number of its          *)
(* acceptance.                                                             *)
(***************************************************************************)
EXTENDS Naturals, Sequences

VARIABLES
  accepted,  \* how many rows were accepted
  pending,   \* the rows that wait in memory
  table      \* the rows in the database, in the order of their writes

aVars == <<accepted, pending, table>>

Init ==
  /\ accepted = 0
  /\ pending = {}
  /\ table = <<>>

Accept ==
  /\ accepted' = accepted + 1
  /\ pending' = pending \cup {accepted + 1}
  /\ UNCHANGED table

\* A batch of pending rows is appended to the table, which stays in acceptance order.
Persist ==
  /\ Len(table') >= Len(table)
  /\ \A i \in 1 .. Len(table) : table'[i] = table[i]
  /\ \A i \in Len(table) + 1 .. Len(table') : table'[i] \in pending
  /\ \A i, j \in 1 .. Len(table') : i < j => table'[i] < table'[j]
  /\ pending' = pending \ {table'[i] : i \in Len(table) + 1 .. Len(table')}
  /\ UNCHANGED accepted

Die ==
  /\ pending' = {}
  /\ UNCHANGED <<accepted, table>>

Next == Accept \/ Persist \/ Die

Spec == Init /\ [][Next]_aVars
=============================================================================
