CONSTANTS
    t1 = t1
    t2 = t2
    p1 = p1
    p2 = p2
    None = None
    Thread <- MCThread
    Path <- MCPath
    DeviceBytes <- MCDeviceBytes
    MaxId = 3
    MaxStrong = 3
SPECIFICATION Spec
INVARIANT TypeOK
INVARIANT TablesAgree
INVARIANT MappingsAccounted
INVARIANT EvictionUncontended
PROPERTY IdsNeverReused
PROPERTY ImplementsResidentModels
