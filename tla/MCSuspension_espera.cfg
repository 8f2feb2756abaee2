\* two CPUs: is every process waiting for memory retried?
CONSTANTS
    Pid = {p1, p2}
    Cpu = {c1, c2}
    SLEEP = SLEEP
    STDIN = STDIN
    STDOUT = STDOUT
    Interfaz = {}
    Estable = {}
    Llamadas = {"INIT_PROC", "MEM_ALLOC"}
    MaxRetornos = 2
    MaxBloqueos = 2
    Memoria = 2
    Prioridad <- MismaPrioridad
    Nadie = Nadie
SPECIFICATION FairSpec
CHECK_DEADLOCK FALSE
PROPERTIES MemoriaLibreNoSeEspera
