\* Three regions of two pages, the first page in a fixed range; three variable ranges.
SPECIFICATION Spec
CONSTANTS
    Regions = 3
    PagesPerRegion = 2
    FixedPages = 1
    VariableCount = 3
    Types = {"UC", "WT", "WB"}
    Defaults = {"UC", "WB"}
    None = None
INVARIANT
    ConstructorOutcome
\* A constructed page table may stay as it is.
CHECK_DEADLOCK FALSE
