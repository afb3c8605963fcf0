SPECIFICATION Spec
CONSTANTS
  a1 = a1 a2 = a2 None = None
  Tiers <- CatalogueTiers
  Admins <- CatalogueAdmins
  Submissions <- CatalogueSubmissions
  Durations <- CatalogueDurations
  Lines <- CatalogueLines
  LegacyPrices <- CatalogueLegacy
  Family <- CatalogueFamily
  Multiplier <- CatalogueMultiplier
  MaxVersion = 2
SYMMETRY AdminSymmetry
INVARIANTS AcceptedStays RowsAreSound BreakdownAddsUp
PROPERTIES CheckedPairFits RefreshSettles
