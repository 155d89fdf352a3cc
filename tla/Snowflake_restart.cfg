SPECIFICATION Spec
CONSTANTS
    g0 = g0
    g1 = g1
    Generators = {g0, g1}
    machineID <- Machines
    maxMachineID = 1
    maxSequence = 1
    epoch = 2
    MaxTime = 3
    MaxIds = 3
    Error = Error
INVARIANTS TypeOK ProcessIdsIncrease IdsIncrease MachinesDisjoint IdsParse
