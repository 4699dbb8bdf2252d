SPECIFICATION FairSpec
CONSTANTS
    t1 = t1
    t2 = t2
    Nadie = Nadie
    SinCasilla = SinCasilla
    Trenes = {t1, t2}
    Casillas <- CasillasMC
    Entrada <- EntradaMC
    Vecinas <- VecinasMC
    Largo = 2
    MaxEspera = 2
    MaxFallos = 0
PROPERTIES
    Termina
CHECK_DEADLOCK FALSE
