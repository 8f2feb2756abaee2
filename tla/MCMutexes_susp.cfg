\* one CPU; SUSPENSION_TIMEOUT may pass in the wait for a mutex too
SPECIFICATION Spec
CONSTANTS
    p1 = p1  p2 = p2  p3 = p3
    Pid = {p1, p2, p3}
    Cpu = {c1}
    Mutex = {m1}
    Sleep = Sleep
    Original <- Distintas
    MaxLlamadas = 3
    SuspensionCorta = TRUE
    Nadie = Nadie
INVARIANTS ElOwnerNoEspera
