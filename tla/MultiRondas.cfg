SPECIFICATION FairSpec
CONSTANTS
    N = 2
    NUM_MENSAJES = 1
    MaxArranques = 2
    MaxIntervenciones = 1
INVARIANTS
    TypeOK
    SemaforoLibre
    FicheroDeRonda
    Acuerdo
PROPERTIES
    TodosEscriben
    ImplementaSinIntervenir
CHECK_DEADLOCK FALSE
