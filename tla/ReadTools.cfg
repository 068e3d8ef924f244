SPECIFICATION Spec
CONSTANTS
    None = None
    Failed = Failed
    Broken = Broken
    RowCap = 1
    whole_gpu = whole_gpu
    slice = slice
    Whole = whole_gpu
    Profiles = {slice}
    Inputs <- MCInputs
INVARIANTS
    WhoCanIsRight
    LookupsAgree
    PostureIsTrue
    FullyPlacedFits
    PodSectionsAgree
    
    LogsInOrder
    
