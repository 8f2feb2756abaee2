SPECIFICATION Spec
CONSTANTS
    p1 = p1  p2 = p2
    Pid = {p1, p2}
    Cpu = {c1, c2}
    Despertador = {}
    CantidadColas = 1
    Prioridad <- Iguales
    UsaRR = TRUE
    QueuePreemption = FALSE
    Llamadas = {"INIT_PROC"}
    MaxLlamadas = 1
    INTERRUPCION = INTERRUPCION
    Nadie = Nadie
SYMMETRY Simetria
CHECK_DEADLOCK FALSE
INVARIANTS UnPcbPorCpu FichasDeCpuReales
