SPECIFICATION Spec
CONSTANTS
    c1 = c1
    c2 = c2
    c3 = c3
    Containers = {c1, c2, c3}
    Envs <- GoodEnv
    MaxAlive = 3
    Kills = FALSE
INVARIANTS
    LockExcludes
