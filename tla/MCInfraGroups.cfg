SPECIFICATION Spec
CONSTANTS
    Projects <- MCProjects
    Puppet <- MCPuppet
    UpdateJob <- MCUpdateJob
    Outside <- MCOutside
    MaxRuns <- MCMaxRuns
    MaxEdits = 1
    MaxFaults = 1
INVARIANTS
    Configured
PROPERTIES
    NobodyDropped
CHECK_DEADLOCK FALSE
