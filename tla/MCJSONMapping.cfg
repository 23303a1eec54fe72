SPECIFICATION Spec
CONSTANTS
    adsb = adsb
    tracker = tracker
    id = id
    height = height
    ds = ds
    Null = Null
    Columns = {id, height, ds}
    DataSource = ds
    Parsers <- MCParsers
    Records <- MCRecords
    MaxRecords = 2
CHECK_DEADLOCK FALSE
INVARIANTS
    RowsAreReports
    ConvertedAtMostOnce
    RecordsCounted
