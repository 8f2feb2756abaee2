SPECIFICATION Spec
CONSTANTS
    p1 = p1  p2 = p2
    Pid = {p1, p2}
    Cpu = {c1}
    Despertador = {}
    CantidadColas = 2
    Prioridad <- Distintas
    UsaRR = FALSE
    QueuePreemption = FALSE
    Llamadas = {"A_READY", "INIT_PROC"}
    MaxLlamadas = 2
    INTERRUPCION = INTERRUPCION
    Nadie = Nadie
CHECK_DEADLOCK FALSE
PROPERTIES MenosUnoSiNoHay
