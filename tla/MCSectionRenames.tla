--------------------------- MODULE MCSectionRenames ---------------------------
(* A small instance of SectionRenames for TLC: two packages; two rules that *)
(* share every naming option beside a named section whose name a proposal   *)
(* would like, two domains that differ by one option, and a section without *)
(* any.                                                                     *)
EXTENDS SectionRenames, TLC
CONSTANTS firewall, dhcp, ping1, ping2, already, console1, console2, odhcpd

FirewallFile == <<already, ping1, ping2>>
DhcpFile     == <<odhcpd, console1, console2>>

AllSections == {ping1, ping2, already, console1, console2, odhcpd}
Order == <<firewall, dhcp>>
Placement == [s \in AllSections |->
                IF s \in {console1, console2, odhcpd} THEN dhcp ELSE firewall]
Files == [p \in {firewall, dhcp} |-> IF p = firewall THEN FirewallFile ELSE DhcpFile]
Types == [s \in AllSections |->
            CASE s \in {console1, console2} -> <<"domain">>
              [] s = odhcpd -> <<"odhcpd">>
              [] OTHER -> <<"rule">>]
Options == [s \in AllSections |->
              CASE s \in {ping1, ping2} -> <<<<"ping">>>>
                [] s = already    -> <<>>
                [] s = console1 -> <<<<"console">>, <<"10">>>>
                [] s = console2 -> <<<<"console">>, <<"192">>>>
                [] s = odhcpd   -> <<>>]
Names == [s \in AllSections |-> IF s = already THEN <<"rule", "ping", "2">> ELSE Anonymous]

Numerals == [n \in 0 .. Cardinality(AllSections) + 2 |-> ToString(n)]

MostlyFaults == [m \in Mishaps |-> IF m = "fault" THEN 2 ELSE 1]
OneFault     == [m \in Mishaps |-> IF m = "fault" THEN 1 ELSE 0]
=============================================================================
