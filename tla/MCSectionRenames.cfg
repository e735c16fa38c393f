CONSTANTS
  firewall = firewall
  dhcp = dhcp
  ping1 = ping1
  ping2 = ping2
  already = already
  console1 = console1
  console2 = console2
  odhcpd = odhcpd
  Anonymous = Anonymous
  Absent = Absent
  Nothing = Nothing
  Sections <- AllSections
  PackageOf <- Placement
  Managed <- Order
  File <- Files
  TypeOf <- Types
  Slugs <- Options
  Numeral <- Numerals
  Existing <- Names
  Limit <- MostlyFaults
SPECIFICATION FairSpec
INVARIANTS TypeOK NamesAreUnique NamedAfterOwnContent ReportedIsDone AppliedIsPublished
PROPERTY EverySectionNamed
CHECK_DEADLOCK FALSE
