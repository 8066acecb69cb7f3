---------------------------- MODULE DBConnection ----------------------------
(***************************************************************************)
(* DBConnection: one statement handle of ODBC, to which parameters and     *)
(* columns are bound by address, and which holds a cursor after a SELECT.  *)
(* All of it stays with the connection when it goes back to the pool.      *)
(*                                                                         *)
(* A binding is the local variable of a handler: its name and the call of  *)
(* the handler it is a local of.  What ODBC does is taken from how the     *)
(* handlers use it: a statement is refused while a cursor is open, or with *)
(* a marker that no parameter is bound to.                                 *)
(***************************************************************************)
EXTENDS Naturals, Sequences, Functions

\* A cursor: the rows a SELECT has yet to deliver.
Closed == [open |-> FALSE, rows |-> <<>>]

\* The statement handle that Connect allocates.
NewStatement == [params |-> <<>>, cols |-> <<>>, cursor |-> Closed]

\* Faulty variant: the cursor stays open.
Unbind_NoClose(stmt) == [NewStatement EXCEPT !.cursor = stmt.cursor]

\* Faulty variant: the parameters stay bound.
Unbind_KeepsParams(stmt) == [NewStatement EXCEPT !.params = stmt.params]

\* SQL_UNBIND, SQL_RESET_PARAMS and SQL_CLOSE.
Unbind(stmt) == NewStatement

Bound(bindings, index, var) ==
    [i \in DOMAIN bindings \cup {index} |-> IF i = index THEN var ELSE bindings[i]]

BindParam(stmt, index, var) == [stmt EXCEPT !.params = Bound(@, index, var)]

BindCol(stmt, index, var) == [stmt EXCEPT !.cols = Bound(@, index, var)]

Variables(stmt) == Range(stmt.params) \cup Range(stmt.cols)

\* SQLExecDirect accepts a statement with that many markers.
Accepts(stmt, markers) ==
    ~stmt.cursor.open /\ 1 .. markers \subseteq DOMAIN stmt.params

\* Execute of a SELECT whose result is rows.
Select(stmt, rows) == [stmt EXCEPT !.cursor = [open |-> TRUE, rows |-> rows]]

\* Fetch returns true, and delivers the columns of Head(stmt.cursor.rows).
HasRow(stmt) == stmt.cursor.rows # <<>>

Fetch(stmt) ==
    IF HasRow(stmt) THEN [stmt EXCEPT !.cursor.rows = Tail(@)] ELSE stmt
=============================================================================
