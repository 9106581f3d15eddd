SPECIFICATION ToolsSpec
CONSTANTS
  RemoteNames = {"calculator"}
  Arguments <- MC_Arguments
  Instants <- MC_Instants
  IntMax = 15
  Precision = 3
  UnitExponent = 2
  TopExponent = 4
  MaxRegistrations = 4
INVARIANT ToolsTypeOK
INVARIANT DateIsExact
INVARIANT LatestToolAnswers
