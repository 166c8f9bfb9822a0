SPECIFICATION Spec
CONSTANTS
    MaxBar = 2  MaxQueue = 2
    MaxCrashes = 1  MaxAppDeaths = 1
INVARIANTS TypeOK AtMostOneSquid RulesHaveServer
PROPERTIES OnStarts OffStops OffRestoresNetwork
