\* Two routers, three renders or reviews, command lines of up to two routers.
SPECIFICATION Spec
CONSTANTS
  NotJson = NotJson
  NotAString = NotAString
  NotAnObject = NotAnObject
  Malformed = Malformed
  NoPin = NoPin
  natal = natal
  buzios = buzios
  Routers = {natal, buzios}
  Renders <- AllRenders
  Rendered <- Start
  MaxPaths = 2
  MaxEdits = 3
INVARIANTS
  TypeOK
  GateIsSound
  BreachesAreExact
  PinsAreUniversal
  NoBreachIsInvented
