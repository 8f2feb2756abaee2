\* a stick connects during a compaction
SPECIFICATION FairSpec
CONSTANTS
    s1 = s1  s2 = s2
    Pid = {p1, p2}
    Id = {1}
    Tam = {1, 2}
    Stick = {s1, s2}
    Tamanio <- DeADos
    EnCaliente = TRUE
    Nadie = Nadie
CHECK_DEADLOCK FALSE
PROPERTIES StickLlegaALaTabla
