------------------------------ MODULE UbusDaemon ------------------------------
(***************************************************************************)
(* The registry of ubusd, as crates/ubus-proto and crates/ubus-http use    *)
(* it.  The daemon is not part of the repository.  What is stated here is  *)
(* what the client relies on: an object is reached by a numeric id, and an *)
(* id that its object gave back is not handed out again, so that a stale   *)
(* id names nothing.  When rpcd restarts its objects leave and come back   *)
(* under new ids.                                                          *)
(***************************************************************************)
CONSTANTS
  Paths,    \* the object paths: "uci", "system", ...
  Ids,      \* the object ids; finitely many bound the restarts
  Vacant,   \* the path of an id no object holds
  Daemon    \* the daemon itself, as the one who reports a status

ASSUME RegistryNames == Vacant \notin Paths /\ Daemon \notin Ids

VARIABLES
  registry,  \* the path each id is registered under
  retired    \* the ids that were given back

daemonVars == <<registry, retired>>

DaemonTypeOK ==
  /\ registry \in [Ids -> Paths \cup {Vacant}]
  /\ retired \in SUBSET Ids

Registered == {i \in Ids : registry[i] # Vacant}
Under(reg, p) == {i \in Ids : reg[i] = p}
At(p) == Under(registry, p)

(* At most one object per path. *)
DaemonInit ==
  /\ registry \in [Ids -> Paths \cup {Vacant}]
  /\ \A i, j \in Ids : registry[i] = registry[j] /\ registry[i] # Vacant => i = j
  /\ retired = {}

Register(i, p) ==
  /\ registry[i] = Vacant /\ i \notin retired /\ At(p) = {}
  /\ registry' = [registry EXCEPT ![i] = p]
  /\ UNCHANGED retired

Unregister(i) ==
  /\ registry[i] # Vacant
  /\ registry' = [registry EXCEPT ![i] = Vacant]
  /\ retired' = retired \cup {i}

=============================================================================
