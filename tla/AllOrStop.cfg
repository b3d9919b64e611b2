SPECIFICATION Spec
CONSTANTS
    c1 = c1
    c2 = c2
    c3 = c3
    Containers = {c1}
    Envs <- AllEnvs
    MaxAlive = 1
    Kills = TRUE
INVARIANTS
    AllOrStop
