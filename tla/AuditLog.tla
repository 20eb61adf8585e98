------------------------------ MODULE AuditLog ------------------------------
(***************************************************************************)
(* What the server promises about device audit evidence, with no request   *)
(* threads, locks or batches: one append-only log per device, in which a   *)
(* security event is recorded at most once in the whole system, and a set  *)
(* of confirmations that never run ahead of the log they confirm.          *)
(***************************************************************************)
EXTENDS Naturals, Sequences, SequencesExt

CONSTANT Devices

VARIABLES
  log,        \* log[d]: the security events recorded for device d, in order
  confirmed   \* <<d, n>>: d has been told that its events up to n are durable

vars == <<log, confirmed>>

Init ==
  /\ log = [d \in Devices |-> << >>]
  /\ confirmed = {}

\* New events, recorded nowhere before and each only once, extend d's log.
Record(d) ==
  /\ UNCHANGED confirmed
  /\ IsStrictPrefix(log[d], log'[d])
  /\ \A e \in Devices \ {d} : log'[e] = log[e]
  /\ LET added == (Len(log[d]) + 1) .. Len(log'[d])
     IN  \A i \in added :
            /\ \A e \in Devices : \A j \in 1 .. Len(log[e]) : log[e][j] # log'[d][i]
            /\ \A j \in added : log'[d][i] = log'[d][j] => i = j

\* The device learns, for the first time or again, that its events up to n
\* are durable: they are.
Confirm(d) ==
  /\ UNCHANGED log
  /\ \E n \in 1 .. Len(log[d]) : confirmed' = confirmed \union {<<d, n>>}

Next == \E d \in Devices : Record(d) \/ Confirm(d)

Spec == Init /\ [][Next]_vars
=============================================================================
