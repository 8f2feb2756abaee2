\* requests once both sticks are connected
SPECIFICATION Spec
CONSTANTS
    s1 = s1  s2 = s2
    Pid = {p1, p2}
    Id = {1}
    Tam = {1, 2}
    Stick = {s1, s2}
    Tamanio <- TresYUno
    EnCaliente = FALSE
    Nadie = Nadie
SYMMETRY Simetria
INVARIANTS TypeOK Particion
PROPERTIES CumpleCuenta
