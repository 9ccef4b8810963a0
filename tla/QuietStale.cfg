SPECIFICATION GateSpec
CONSTANTS
    holder = holder
    channel = channel
    NoFrame = NoFrame
    Senders = {holder, channel}
    Frames <- MCFrames
    Window = 4
    RelayedBudget = 2
    TotalBudget = 4
    QuietWindow = 1
    QuietMax = 20
    MaxHold = 1
    MaxFrames = 3
PROPERTIES
    NeverIntoBurst
