SPECIFICATION FilesSpec
CONSTANTS
    NRec = 3
    Formats = {"csv", "jsonl", "json", "xml", "xlsx", "sqlite"}
    Shapes <- MCShapes
    OutputFields <- MCOutputFields
    Excluded <- MCExcluded
    XMLName <- MCXMLName
    PreviewDefault = 1
    PreviewMax = 2
    MaxSaves = 5
    MaxFaults = 4
INVARIANTS
    
    AcceptedSurvives
    OkMeansStored
    ConversionsAgree
    OldOrNew
    OneFaultTolerated
CHECK_DEADLOCK FALSE
