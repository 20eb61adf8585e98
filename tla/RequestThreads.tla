--------------------------- MODULE RequestThreads ---------------------------
(***************************************************************************)
(* The threads of the backend that serve requests, and the row locks their *)
(* transactions hold.                                                      *)
(*                                                                         *)
(* A thread runs one request at a time (backend/gunicorn.conf.py), each    *)
(* statement of it a step, at READ COMMITTED: a statement sees what is     *)
(* committed.  What a transaction writes is local to its thread until the  *)
(* commit.  SELECT ... FOR UPDATE, or an UPDATE, waits for the holder of   *)
(* the row, and PostgreSQL queues those who wait.                          *)
(***************************************************************************)
EXTENDS Naturals, Sequences

CONSTANTS
  Threads,  \* request threads
  Rows,     \* rows that transactions lock
  NoThread, \* nobody holds the row
  NoRequest \* the thread serves no request

ASSUME ThreadsAssumption == NoThread \notin Threads

VARIABLES
  pc,      \* pc[t]: the statement thread t runs next
  request, \* request[t]: the request it serves
  lock     \* lock[r]: the thread holding row r

threads == <<pc, request, lock>>

ThreadsInit ==
  /\ pc = [t \in Threads |-> "idle"]
  /\ request = [t \in Threads |-> NoRequest]
  /\ lock = [r \in Rows |-> NoThread]

Kind(t) == request[t].kind

Goto(t, label) == pc' = [pc EXCEPT ![t] = label]

\* The transaction ends, by commit or by rollback, and the reply is sent.
Finish(t) ==
  /\ pc' = [pc EXCEPT ![t] = "idle"]
  /\ request' = [request EXCEPT ![t] = NoRequest]
  /\ lock' = [r \in DOMAIN lock |-> IF lock[r] = t THEN NoThread ELSE lock[r]]

Continue(t, label) == Goto(t, label) /\ UNCHANGED <<request, lock>>

\* No other transaction holds the row.
Free(t, row) == lock[row] \in {NoThread, t}

\* The row is locked until the transaction ends.
LockRow(t, row, label) ==
  /\ Free(t, row)
  /\ lock' = [lock EXCEPT ![row] = t]
  /\ Goto(t, label)
  /\ UNCHANGED request
=============================================================================
