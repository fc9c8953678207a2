---------------------------- MODULE KextRegistry ----------------------------
(***************************************************************************)
(* What the KEXT loader promises, without tables, counts, callbacks or     *)
(* reference counts: a kext is opened only while the switch is on, it      *)
(* settles once, it settles outside the registry only when the registry is *)
(* full, and it leaves the registry in the step that gives it up.          *)
(***************************************************************************)
EXTENDS Integers, FiniteSets

CONSTANTS Kexts, Capacity

VARIABLES
  enabled,    \* may libraries be opened
  opening,    \* opened, start still running
  tracked,    \* running and listed
  untracked   \* running, not listed

rvars == <<enabled, opening, tracked, untracked>>

Live == opening \union tracked \union untracked

RInit ==
  /\ enabled = FALSE
  /\ opening = {} /\ tracked = {} /\ untracked = {}

Switch ==
  /\ enabled' \in BOOLEAN
  /\ UNCHANGED <<opening, tracked, untracked>>

Open(k) ==
  /\ enabled
  /\ k \notin Live
  /\ opening' = opening \union {k}
  /\ UNCHANGED <<enabled, tracked, untracked>>

(* The registry takes k if it has room. *)
Admit(k) ==
  /\ IF Cardinality(tracked) < Capacity
     THEN tracked' = tracked \union {k} /\ UNCHANGED untracked
     ELSE untracked' = untracked \union {k} /\ UNCHANGED tracked
  /\ UNCHANGED enabled

Settle(k) ==
  /\ k \in opening
  /\ opening' = opening \ {k}
  /\ Admit(k)

(* A kext without a start entry is opened and settles in one step. *)
OpenSettled(k) ==
  /\ enabled
  /\ k \notin Live
  /\ Admit(k)
  /\ UNCHANGED opening

GiveUp(k) ==
  /\ k \in Live
  /\ opening' = opening \ {k}
  /\ tracked' = tracked \ {k}
  /\ untracked' = untracked \ {k}
  /\ UNCHANGED enabled

RNext ==
  \/ Switch
  \/ \E k \in Kexts : Open(k) \/ Settle(k) \/ OpenSettled(k) \/ GiveUp(k)

RSpec == RInit /\ [][RNext]_rvars
=============================================================================
