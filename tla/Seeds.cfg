SPECIFICATION Spec
CONSTANTS
    Configs <- MCConfigs
    MaxRuns = 2
    Regions = {"EAST", "WEST"}
    Taxonomy <- MCTaxonomy
    Prices = {2501}
    Quantities = {1, 2}
    OrderDays = {24, 30}
    PercentOff = {1575}
    FixedOff = {5000}
    PromotionStarts = {0}
    PromotionLengths = {3}
    PaidDelays = {180}
    ShipDelays = {0, 2}
    TransitDelays = {1}
    ReviewDelays = {1}
    ReturnDelays = {30, 31}
    ResolveDelays = {1}
CONSTRAINT OneCatalogue
INVARIANT FreshRunNeverRefused
INVARIANT ValidatorAgrees
INVARIANT FulfilmentConsistent
INVARIANT BooksBalance
PROPERTY ReseedAddsNothing
CHECK_DEADLOCK FALSE
