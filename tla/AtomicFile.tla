----------------------------- MODULE AtomicFile -----------------------------
(***************************************************************************)
(* What libjio promises of a file: transactions are atomic and durable     *)
(* (libjio.h: "After this function returns successfully, all the data can  *)
(* be trusted to be on the disk"; "-1 if there was an error but atomic     *)
(* warranties were preserved").                                            *)
(*                                                                         *)
(* file is what the file contains, or would contain if the power failed    *)
(* now and the journal were checked.  A transaction that has begun and not *)
(* ended is in it as a whole or not at all, and may go in and out of it.   *)
(* One that ended well is in it for good, until another one writes over    *)
(* it; one that failed is not in it.  A severe error (-2) voids all.       *)
(***************************************************************************)
EXTENDS Naturals

CONSTANTS Txns, Cells, WriteSet(_), Zero

VARIABLES
  file,    \* the contents
  before,  \* before[t]: the contents when t last came into the file
  ack      \* what is known of each transaction

vars == <<file, before, ack>>

\* Transaction t writes the value t.
Applied(f, t) == \A c \in WriteSet(t) : f[c] = t

Running == {t \in Txns : ack[t] = "running"}

Init ==
  /\ file = [c \in Cells |-> Zero]
  /\ before = [t \in Txns |-> [c \in Cells |-> Zero]]
  /\ ack = [t \in Txns |-> "new"]

Begin(t) ==
  /\ ack[t] = "new"
  /\ ack' = [ack EXCEPT ![t] = "running"]
  /\ UNCHANGED <<file, before>>

\* The transactions of S come into the file or leave it, each as a whole.
Flip(S) ==
  /\ UNCHANGED ack
  /\ \A t, u \in S : t # u => WriteSet(t) \cap WriteSet(u) = {}
  /\ file' = [c \in Cells |->
       IF \A t \in S : c \notin WriteSet(t) THEN file[c]
       ELSE LET t == CHOOSE t \in S : c \in WriteSet(t)
            IN  IF Applied(file, t) THEN before[t][c] ELSE t]
  /\ before' = [t \in Txns |-> IF t \in S /\ ~Applied(file, t) THEN file ELSE before[t]]

End(t) ==
  /\ ack[t] = "running"
  /\ \/ ack' = [ack EXCEPT ![t] = "ok"] /\ Applied(file, t)
     \/ ack' = [ack EXCEPT ![t] = "failed"] /\ (~Applied(file, t) \/ WriteSet(t) = {})
  /\ UNCHANGED <<file, before>>

\* After a failure and a check, what was running is settled.
Settle ==
  /\ ack' = [t \in Txns |-> IF ack[t] = "running" THEN "lost" ELSE ack[t]]
  /\ UNCHANGED <<file, before>>

\* A severe error: nothing is promised from now on.
Severe == \E t \in Txns : ack'[t] = "severe"

Next ==
  \/ \E t \in Txns : Begin(t) \/ End(t)
  \/ file' # file /\ \E S \in SUBSET Running : Flip(S)
  \/ Settle
  \/ Severe

Spec == Init /\ [][Next]_vars

=============================================================================
