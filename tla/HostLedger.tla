----------------------------- MODULE HostLedger -----------------------------
(***************************************************************************)
(* What client mode promises of the host it runs on (src/state.rs): what a *)
(* process has acquired there and its record of it, both of which outlive  *)
(* the process.  However a process ends, a later one can find in the       *)
(* record all that is left; it releases that before it acquires anything;  *)
(* and a process that finishes leaves neither.                             *)
(***************************************************************************)

CONSTANT Resources \* what a process can acquire on the host

VARIABLES
  held,      \* the resources that exist on the host
  inherited, \* those of them that earlier processes left to this one
  recorded,  \* the resources the record names
  status     \* of the process: "off", "on", or "finished" if it exited cleanly

entries == <<held, inherited, recorded, status>>

InitLedger == held = {} /\ inherited = {} /\ recorded = {} /\ status = "off"

Start ==
  /\ status # "on" /\ status' = "on"
  /\ inherited' = held
  /\ UNCHANGED <<held, recorded>>

Acquire(r) ==
  /\ status = "on" /\ inherited = {}
  /\ held' = held \cup {r}
  /\ UNCHANGED <<inherited, recorded, status>>

\* What was inherited stays inherited until it is released.
Release ==
  /\ status = "on"
  /\ held' \subseteq held /\ inherited' = inherited \cap held'
  /\ UNCHANGED <<recorded, status>>

\* For a while the record may name less than is held.
Record ==
  /\ status = "on"
  /\ recorded' \subseteq Resources
  /\ UNCHANGED <<held, inherited, status>>

\* An error, a kill or a crash.
Stop ==
  /\ status = "on" /\ held \subseteq recorded
  /\ status' = "off" /\ inherited' = {}
  /\ UNCHANGED <<held, recorded>>

Finish ==
  /\ status = "on" /\ held = {}
  /\ status' = "finished" /\ recorded' = {}
  /\ UNCHANGED <<held, inherited>>

\* The host loses by itself what a reboot takes.
Lose ==
  /\ status # "on" /\ held' \subseteq held
  /\ UNCHANGED <<inherited, recorded, status>>

NextLedger ==
  \/ Start \/ (\E r \in Resources : Acquire(r)) \/ Release \/ Record
  \/ Stop \/ Finish \/ Lose

LedgerSpec == InitLedger /\ [][NextLedger]_entries
=============================================================================
