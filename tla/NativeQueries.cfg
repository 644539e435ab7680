CONSTANTS
  Aliases = {alias}
  Locations <- MCLocations
  Frameworks = "Frameworks"
  Shipped <- MCShipped
  Locality <- MCLocality
  NoPath = NoPath
  Nothing = Nothing
SPECIFICATION Spec
INVARIANTS
  TypeOK
  TruthfulLocality
PROPERTY OpensAcceptedPlugin
