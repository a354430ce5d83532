------------------------------ MODULE Requests ------------------------------
(***************************************************************************)
(* Requests that read a row and act on it later.  The endpoints modelled   *)
(* over this module run at READ COMMITTED and lock no row, so a request is *)
(* two steps, what it read and what it writes, with anything in between.   *)
(***************************************************************************)
EXTENDS Naturals

CONSTANTS
  Clients,
  Idle,        \* a client with no request under way
  MaxOverlaps  \* bound: requests that start while another is under way

ASSUME OverlapAssumption == MaxOverlaps \in Nat

VARIABLES
  req,      \* Clients -> the request under way
  overlaps  \* history: requests that started while another was under way

InitRequests == req = [c \in Clients |-> Idle] /\ overlaps = 0

(* A request starts, perhaps while others are under way. *)
Start ==
  IF \A c \in Clients : req[c] = Idle
    THEN UNCHANGED overlaps
    ELSE overlaps < MaxOverlaps /\ overlaps' = overlaps + 1

(* A request is answered. *)
Answer(c) == req' = [req EXCEPT ![c] = Idle] /\ UNCHANGED overlaps

calm == overlaps = 0
=============================================================================
