\* Three inputs, one of them from a device, one turn driven outside admission,
\* one Stop, a queue of one: the third input can find the queue full.
CONSTANTS
    Inputs = {i1, i2, i3}
    FromDevice = {i2}
    Drivers = {d1}
    Stops = {s1}
    None = None
    Command = Command
    Reaper = Reaper
    FollowUpCapacity = 1
SPECIFICATION Spec
INVARIANTS
    TypeOK
    TokenNamesTurn
    WorkExcludes
    StopMeansStop
PROPERTY AdmittedSettles
CHECK_DEADLOCK FALSE
