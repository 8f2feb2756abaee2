\* one CPU; SUSPENSION_TIMEOUT may pass in a SLEEP, not in the wait for a mutex
SPECIFICATION FairSpec
CONSTANTS
    p1 = p1  p2 = p2  p3 = p3
    Pid = {p1, p2, p3}
    Cpu = {c1}
    Mutex = {m1}
    Sleep = Sleep
    Original <- Distintas
    MaxLlamadas = 3
    SuspensionCorta = FALSE
    Nadie = Nadie
INVARIANTS TypeOK ExclusionMutua ElOwnerNoEspera HerenciaDebida
PROPERTIES CumpleCerrojo TodoLockTermina
