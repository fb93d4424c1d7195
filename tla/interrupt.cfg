SPECIFICATION Spec
CONSTANTS
    Nothing = Nothing
    AirTime <- mcAirTime
    MaxPackets = 4
INVARIANT ValidIsOwn
INVARIANT HandedIsOnePacket
PROPERTY TakenInOneStep
