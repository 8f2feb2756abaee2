\* memory, two CPUs, an interface that comes and goes
CONSTANTS
    Pid = {p1, p2}
    Cpu = {c1, c2}
    SLEEP = SLEEP
    STDIN = STDIN
    STDOUT = STDOUT
    Interfaz = {STDOUT}
    Estable = {}
    Llamadas = {"INIT_PROC", "MEM_ALLOC", "MEM_FREE"}
    MaxRetornos = 2
    MaxBloqueos = 2
    Memoria = 1
    Prioridad <- MismaPrioridad
    Nadie = Nadie
SPECIFICATION Spec
SYMMETRY Simetria
CHECK_DEADLOCK FALSE
INVARIANTS TypeOK UnSoloLugar NingunDespertarPerdido PendienteSoloEnLimbo ResidenciaCoherente MemoriaConservada
PROPERTIES CumpleCiclo
