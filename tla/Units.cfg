SPECIFICATION Spec
CONSTANT Programs <- LiteralPrograms
INVARIANTS
  OrderIndependence
  OneFunctionPerName
