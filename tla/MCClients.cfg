SPECIFICATION Spec
CONSTANTS
    Topologies <- MCTopologies
    Modes = {"Normal", "Recording", "Replaying"}
    Payloads = {"Keyboard"}
    Batches <- MCBatches
    MaxGeneration = 2
    MaxTokens = 2
    MaxInputs = 1
INVARIANTS
    OutputShown
    InputRouted
    ClientsServed
CHECK_DEADLOCK FALSE
