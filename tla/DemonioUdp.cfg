SPECIFICATION FairSpec
CONSTANTS
    Hijos = {h1}
    Padre = padre
    MaxOrdenes = 0
    MaxDatagramas = 1
    MaxSenales = 0
    MaxFallos = 0
PROPERTIES
    ConexionAtendida
CHECK_DEADLOCK FALSE
