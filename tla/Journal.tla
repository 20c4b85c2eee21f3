------------------------------ MODULE Journal ------------------------------
(***************************************************************************)
(* What code that logs relies on: accepted requests are carried out one at *)
(* a time in the order of their acceptance.  A record is added to the file *)
(* behind the others, a flush puts all of the file on the disk, and        *)
(* nothing is accepted behind the request to terminate.  All of this lasts *)
(* until the process aborts, if it does; what was accepted is carried out  *)
(* sooner or later unless it does.                                         *)
(***************************************************************************)
EXTENDS Integers, Sequences

CONSTANT Message    (* records with a kind and an id                       *)

VARIABLES
  requests,   (* accepted and not yet carried out, oldest first            *)
  open,       (* whether requests are accepted                             *)
  file,       (* the ids of the records in the file                        *)
  synced,     (* how many of them are on the disk                          *)
  running     (* the process has not aborted                               *)

vars == <<requests, open, file, synced, running>>

Init ==
  /\ requests = <<>> /\ open = TRUE
  /\ file = <<>> /\ synced = 0
  /\ running = TRUE

Accept(m) ==
  /\ running /\ open
  /\ requests' = Append(requests, m)
  /\ open' = (m.kind # "terminate")
  /\ UNCHANGED <<file, synced, running>>

Carry(kind) ==
  /\ running /\ requests # <<>>
  /\ Head(requests).kind = kind
  /\ requests' = Tail(requests)
  /\ UNCHANGED <<open, running>>

Write ==
  /\ Carry("log")
  /\ file' = Append(file, Head(requests).id)
  /\ synced' \in synced .. Len(file')

Flush ==
  /\ Carry("flush")
  /\ synced' = Len(file)
  /\ UNCHANGED file

Terminate ==
  /\ Carry("terminate")
  /\ UNCHANGED <<file, synced>>

Carries == Write \/ Flush \/ Terminate

Abort == running /\ running' = FALSE /\ UNCHANGED <<requests, open, file, synced>>

Next == Carries \/ Abort \/ \E m \in Message : Accept(m)

Spec == Init /\ [][Next]_vars /\ WF_vars(Carries)
=============================================================================
