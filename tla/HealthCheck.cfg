CONSTANTS
    Ports = {6}
    WithCCA = {6}
    Statuses = {"COLD_PAS"}
    empty = {"LNA02"}
    MaxJobs = 2
SPECIFICATION HealthSpec
INVARIANTS
    RowsAreFiled
    RecordedIsApplied
