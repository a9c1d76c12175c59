SPECIFICATION Spec
CONSTANT Starts <- AllStarts
INVARIANTS TypeOK NoNilPassed KeysUnique EndpointsInherited WorkloadsIdentified
PROPERTY EditsArrive
