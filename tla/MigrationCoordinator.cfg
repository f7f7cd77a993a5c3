SPECIFICATION Spec
CONSTANTS
  c1 = c1 c2 = c2
  Processes = {c1, c2}
  Builds <- Releases
  Needs <- BuildsUpon
  Catalogued <- InCatalog
  Databases <- Found
  NoLedger = NoLedger
  Nobody = Nobody
INVARIANTS
  SchemaFollowsManifest
  VerifiedIsWhole
CHECK_DEADLOCK FALSE
