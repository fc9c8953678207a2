--------------------------- MODULE ServiceForest ----------------------------
(***************************************************************************)
(* What the child lists of IOService promise: every service has a sequence *)
(* of children, the newest first.  A child that is removed loses its       *)
(* owner but stays in the sequence, for as long as the parent lives.       *)
(***************************************************************************)
EXTENDS Sequences, SequencesExt

CONSTANTS Services, Nobody

VARIABLES
  alive,    \* the services that exist
  owner,    \* the parent a service would name, or Nobody
  kids      \* the children a walk of a service meets

fvars == <<alive, owner, kids>>

Listed == UNION {ToSet(kids[p]) : p \in alive}

FInit ==
  /\ alive = {}
  /\ owner = [s \in Services |-> Nobody]
  /\ kids = [s \in Services |-> <<>>]

Appear(s) ==
  /\ s \notin alive
  /\ alive' = alive \union {s}
  /\ UNCHANGED <<owner, kids>>

(* Only a service that no walk meets and no child names may go. *)
Vanish(s) ==
  /\ s \in alive \ Listed
  /\ \A u \in alive : owner[u] # s
  /\ alive' = alive \ {s}
  /\ owner' = [owner EXCEPT ![s] = Nobody]
  /\ kids' = [kids EXCEPT ![s] = <<>>]

Adopt(p, c) ==
  /\ p # c
  /\ p \in alive /\ c \in alive \ Listed
  /\ owner' = [owner EXCEPT ![c] = p]
  /\ kids' = [kids EXCEPT ![p] = <<c>> \o @]
  /\ UNCHANGED alive

Disown(c) ==
  /\ c \in alive
  /\ owner' = [owner EXCEPT ![c] = Nobody]
  /\ UNCHANGED <<alive, kids>>

FNext ==
  \/ \E s \in Services : Appear(s) \/ Vanish(s) \/ Disown(s)
  \/ \E p, c \in Services : Adopt(p, c)

FSpec == FInit /\ [][FNext]_fvars
=============================================================================
