SPECIFICATION Spec
CONSTANTS
    N_CLASSES = 2
    MAX_SAMPLES = 3
    Ks <- KsMC
    MaxLineas = 4
INVARIANTS
    ParticionExacta
    PlieguesEquilibrados
    ConfusionCuadra
