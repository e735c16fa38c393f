--------------------------- MODULE MCInventorySurvey ---------------------------
(* A small router for TLC, fit to ship at first: two bands of the house     *)
(* network with one key, a guest network with its own, a vendor's token in  *)
(* a field and another in a list whose names tell nothing, a list called    *)
(* like a secret, a package of the vendor's own, and sections of one name   *)
(* in two packages.  Editors may add positional and    *)
(* named rules, a package nobody classified, and unsettle each check.       *)
EXTENDS InventorySurvey

None == <<>>

Section(id, label, type, options) ==
  [id |-> id, label |-> label, type |-> type, options |-> options, lists |-> None]

Band(id, network, key) ==
  [Section(id, id, "wifi-iface", "network" :> network @@ "key" :> key @@ "ssid" :> "casa")
     EXCEPT !.lists = "maclist" :> <<"00:11">>]

Peer ==
  [Section("peer", "peer", "peers", "username" :> "token")
     EXCEPT !.lists = "logins" :> <<"guest", "token2">> @@ "psk_old" :> <<"psk3">>]

Packages == <<"system", "roteador", "tailscale", "firewall", "wireless", "wireguard",
              "gl_led", "newdaemon">>

Router ==
  "system"    :> <<Section("system_0", "system_0", "system", "hostname" :> "natal"),
                   Section("ntp", "ntp", "timeserver", "enabled" :> "1")>> @@
  "roteador"  :> <<Section("fleet", "fleet", "fleet", "owner" :> "us")>> @@
  "tailscale" :> <<Section("settings", "settings", "settings", "enabled" :> "1")>> @@
  "firewall"  :> <<Section("zone", "fleet", "zone", "input" :> "REJECT")>> @@
  "wireless"  :> <<Band("wifi2g", "lan", "psk"), Band("wifi5g", "lan", "psk"),
                   Band("guest", "guest", "guests")>> @@
  "wireguard" :> <<Peer>> @@
  "gl_led"    :> <<Section("led", "", "led", "led_enable" :> "1")>>

Added ==
  {[package |-> "firewall",  section |-> Section("ping", "", "rule", None)],
   [package |-> "firewall",  section |-> Section("ssh", "", "rule", None)],
   [package |-> "firewall",  section |-> Section("odd", "cfg0ab", "rule", None)],
   [package |-> "newdaemon", section |-> Section("new", "new", "new", None)]}

Changes ==
  {[id |-> "wifi5g", option |-> "key", value |-> "psk2"],
   [id |-> "wifi5g", option |-> "network", value |-> "guest"],
   [id |-> "zone", option |-> "private_key", value |-> "psk2"],
   [id |-> "system_0", option |-> "hostname", value |-> "GL-MT6000"]}

Secret == {"psk", "psk2", "psk3", "guests", "token", "token2"}

Bounds == "edit" :> 2 @@ "commit" :> 1 @@ "fault" :> 1
=============================================================================
