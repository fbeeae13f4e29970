---------------------------- MODULE MCTableDrag ----------------------------
(* Four rows, in a table that is sent in one of three ways.                *)
EXTENDS TableDrag

CONSTANTS r1, r2, r3, r4

FourRows == <<r1, r2, r3, r4>>

Free == [limit |-> 0, fixed |-> {}, leaf |-> {}, root |-> {}]

ThreeTables == {Free, [Free EXCEPT !.leaf = {r1}, !.root = {r2}],
                [Free EXCEPT !.limit = 1, !.fixed = {r1}]}
=============================================================================
