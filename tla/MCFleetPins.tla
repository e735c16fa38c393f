------------------------------ MODULE MCFleetPins ------------------------------
(* A small instance of FleetPins for TLC: two routers, and renders that     *)
(* agree on time sync, differ in the hostname and may drop, change or add a *)
(* setting, split it over two resources, hold resources that are skipped or *)
(* be no render at all.                                                     *)
EXTENDS FleetPins, TLC
CONSTANTS natal, buzios

Write(resource) == [depth |-> "deeper", resource |-> resource]
Blank           == [depth |-> "blank", resource |-> NotJson]
Sibling         == [depth |-> "outer", resource |-> NotJson]
Child           == Write(NotJson)

Resource(config, section, values) ==
  [config |-> config, section |-> section, values |-> values]

Ntp(v)  == Resource("system", "ntp", "enabled" :> v)
Host(v) == Resource("system", "system_0", "hostname" :> v)
Lan(v)  == Resource("network", "lan", "mtu" :> v @@ "dns" :> NotAString)

(* Resources that are skipped: no object, no section, no values. *)
Unnamed == Resource("system", NotAString, "enabled" :> "0")
Bare    == Resource("system", "ntp", NotAnObject)
Skipped == <<Write(NotAnObject), Write(Unnamed), Write(Bare)>>

Namespace == [template |-> FALSE, style |-> "absent", lines |-> <<>>]
Document(style, lines) == [template |-> TRUE, style |-> style, lines |-> lines]
Body(lines) == <<Namespace, Document("|", lines)>>

Natal  == Body(<<Write(Host("natal")), Write(Ntp("1")), Sibling, Child>>)
Buzios == Body(<<Write(Host("buzios")), Blank, Write(Ntp("1"))>>)

Manifests ==
  {Natal, Buzios,
   Body(<<Write(Host("natal")), Write(Ntp("0"))>>),
   Body(<<Write(Host("buzios")), Write(Ntp("0")), Sibling>>),
   Body(<<Write(Host("natal")), Write(Lan("1500"))>>),
   Body(<<Write(Ntp("0")), Write(Lan("1500")), Write(Ntp("1"))>>),
   Body(<<Write(Ntp("1"))>> \o Skipped),
   Body(<<Blank>> \o Skipped)}

Damaged ==
  {<<Namespace>>, <<Document("absent", <<>>)>>, <<Document(">", <<Write(Ntp("1"))>>)>>,
   Body(<<Write(Ntp("1")), Write(NotJson)>>)}

AllRenders == Manifests \cup Damaged
Start == natal :> Natal @@ buzios :> Buzios
=============================================================================
