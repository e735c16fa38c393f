------------------------------ MODULE UciDevice ------------------------------
(***************************************************************************)
(* The UCI store of one router, as the clients in this repository use it   *)
(* through the ubus object `uci'.  It is not part of the repository: what  *)
(* is stated here is what provider/terraform/main.go and                   *)
(* crates/uci-inventory/src/rename.rs rely on.                             *)
(*                                                                         *)
(*  - a mutating call only STAGES: it is seen by later `uci get' calls,    *)
(*    and it is lost by a restart;                                         *)
(*  - `uci commit' publishes every staged change of ONE package, whoever   *)
(*    staged it.                                                           *)
(***************************************************************************)

CONSTANTS
  Addresses,   \* the section addresses the model knows
  PackageOf,   \* the package each address belongs to
  Absent       \* "no section at this address"

VARIABLES
  staged,      \* what `uci get' answers: the published file plus the delta
  published    \* the files under /etc/config, which survive a restart

deviceVars == <<staged, published>>

DeviceTypeOK(Sections) ==
  /\ staged    \in [Addresses -> Sections \cup {Absent}]
  /\ published \in [Addresses -> Sections \cup {Absent}]

Held(a) == staged[a] # Absent

(* add, set, delete, rename: the new content of one address goes into the  *)
(* delta of its package.                                                   *)
Stage(a, s) ==
  /\ staged' = [staged EXCEPT ![a] = s]
  /\ published' = published

(* commit: the whole package is published. *)
Publish(p) ==
  /\ published' = [a \in Addresses |->
                     IF PackageOf[a] = p THEN staged[a] ELSE published[a]]
  /\ staged' = staged

(* A restart of the router forgets every delta. *)
Restart ==
  /\ staged' = published
  /\ published' = published

(* Somebody else (the vendor web UI, a shell) rewrites a section on flash. *)
Overwrite(a, s) ==
  /\ staged' = [staged EXCEPT ![a] = s]
  /\ published' = [published EXCEPT ![a] = s]

=============================================================================
