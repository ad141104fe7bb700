\* Two plugins with a line and one without, two requests, two failures or power cuts.
CONSTANTS
    a = a
    b = b
    f = f
    kernel = kernel
    main = main
    Plugin = {a, b, f}
    Section = {kernel, main}
    NoSection = NoSection
    SectionOf <- Sections
    Configs <- TaiConfigs
    MaxInstalls = 2
    MaxFaults = 2
SPECIFICATION Spec
INVARIANTS OldOrNew RowsRecoverable InItsSection
CHECK_DEADLOCK FALSE
