SPECIFICATION Spec
CONSTANTS
    p1 = p1  p2 = p2
    Pid = {p1, p2}
    Cpu = {c1, c2}
    Despertador = {d1}
    CantidadColas = 2
    Prioridad <- Distintas
    UsaRR = FALSE
    QueuePreemption = TRUE
    Llamadas = {"BLOCK", "INIT_PROC"}
    MaxLlamadas = 2
    INTERRUPCION = INTERRUPCION
    Nadie = Nadie
CHECK_DEADLOCK FALSE
INVARIANTS TypeOK UnPcbPorCpu NingunReadySinFicha FichasDeCpuReales
PROPERTIES CumpleReparto
