----------------------------- MODULE Dispositions -----------------------------
(***************************************************************************)
(* crates/uci-inventory/src/disposition.rs: what is done about each UCI    *)
(* package, and which option names hold secret material.  There is one     *)
(* authority for both, used by the survey, the emission and the capture.   *)
(***************************************************************************)
EXTENDS Naturals, Sequences

Managed == {"roteador", "system", "network", "firewall", "dhcp", "dropbear", "chrony",
            "tailscale"}

SecretBearing ==
  {"wireless", "wireguard", "wireguard_server", "openvpn", "ovpnclient", "ovpnserver",
   "expressvpn", "zerotier", "tor", "samba4", "rpcd", "uhttpd", "stubby", "glconfig",
   "gl-cloud", "mptun", "gl_s2s", "rtty"}

(* Owned by the firmware: accelerators, board, storage, modems, uplinks.   *)
FirmwareOwned ==
  {"mtkhnat", "mtkhnat_dummy", "TRL", "board_special", "switch-button", "ubootenv",
   "upgrade", "fstab", "nas", "gl_nas", "minidlna", "cellular", "glmodem", "apnprofile",
   "custom_apn", "repeater", "edgerouter", "kmwan", "qos", "sqm", "fullconenat", "sip_alg",
   "port_forward"}

(* Owned by a vendor daemon. *)
VendorOwned ==
  {"glforward", "wan-access", "route_policy", "glipv6", "gl-dns-v2", "gl_ddns",
   "adguardhome", "netifyd", "netify-proc-flow-actions", "gl_dpi", "gl_dpi_qos",
   "gl_dpi_content_protection", "gl_dpi_flow_statistics", "gl_category", "gl-tertf",
   "gl_logread", "gl_led", "gl_timer", "gl_block", "gl-black_white_list",
   "parental_control", "parental_control_v2", "parental_control_apps", "plugins",
   "oui-httpd", "switch"}

(* Found by a later device, or written by the package manager. *)
FoundLater == {"gl-dns", "luci", "ucitrack", "luci-opkg"}

DeviceOwned == FirmwareOwned \cup VendorOwned \cup FoundLater

(* `None' is a refusal, never a default.                                   *)
(* Mutant: a package nobody classified is taken for the device's.          *)
ClassifyWithDefault(p) ==
  IF p \in Managed THEN "managed" ELSE IF p \in SecretBearing THEN "secret" ELSE "device"

Classify(p) ==
  CASE p \in Managed       -> "managed"
    [] p \in SecretBearing -> "secret"
    [] p \in DeviceOwned   -> "device"
    [] OTHER               -> "unclassified"

NotSecret ==
  {"key_type", "persist_key", "tls_auth_name", "tls_authentication", "auth_type",
   "client_auth", "authoritative", "edns_client_subnet_private", "authserver", "keyfile",
   "keyexchange", "passwordauth", "rootpasswordauth"}

SecretSubstrings ==
  {"key", "password", "passwd", "secret", "token", "psk", "private", "credential", "auth"}

HasPart(name, part) ==
  \E i \in 1 .. (Len(name) + 1) - Len(part) : SubSeq(name, i, i + Len(part) - 1) = part

(* Fails closed: a name that contains a trigger is secret unless measured  *)
(* not to be.  Names are lower case here.                                  *)
OptionIsSecret(option) ==
  /\ option \notin NotSecret
  /\ \E s \in SecretSubstrings : HasPart(option, s)

=============================================================================
