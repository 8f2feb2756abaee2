\* two programs, four bytes in two sticks; suspensions as the scheduler's config has them
SPECIFICATION Spec
SYMMETRY Simetria
CONSTANTS
    p1 = p1  p2 = p2  s1 = s1  s2 = s2
    Pid = {p1, p2}
    Id = {0, 1}
    Valor = {0, 1}
    TamMax = 3
    Stick = {s1, s2}
    tam_stick <- Tamanios
    base_global <- Bases
    memoria_total = 4
    Bloque = 2
    Palabra = 8
    Pedidos <- Segmentos
    Tramos = {2}
    MaxInstrucciones = 4
    MaxBloques = 2
    SuspensionCorta = FALSE
    Nadie = Nadie
INVARIANTS TypeOK  BloquesPropios
 
