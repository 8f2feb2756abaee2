\* liveness: one CPU, processes that hold memory and ask for more
CONSTANTS
    Pid = {p1, p2}
    Cpu = {c1}
    SLEEP = SLEEP
    STDIN = STDIN
    STDOUT = STDOUT
    Interfaz = {STDIN}
    Estable = {STDIN}
    Llamadas = {"INIT_PROC", "MEM_ALLOC"}
    MaxRetornos = 3
    MaxBloqueos = 1
    Memoria = 2
    Prioridad <- MismaPrioridad
    Nadie = Nadie
SPECIFICATION FairSpec
CHECK_DEADLOCK FALSE
PROPERTIES TodoBloqueoDespierta TodoProcesoTermina
