SPECIFICATION Spec
CONSTANTS
    o1 = o1
    o2 = o2
    o3 = o3
    Openers <- ThreeOpeners
    MaxCas = 2
SYMMETRY OpenerSymmetry
INVARIANTS
    TypeOK
    KeyImpliesCrt
    SequentialValidChain
    SequentialOneCa
    ExportIsCurrent
PROPERTIES
    SettledForever
