SPECIFICATION Spec
CONSTANTS
    Names <- MCNames
    Lower <- MCLower
    System <- MCSystem
    Catalogs <- MCCatalogs
    Inputs <- MCInputs
INVARIANTS SelectionExact NothingUnasked EmptySchemasDumped SpecifiedExact IInv
CHECK_DEADLOCK FALSE
