SPECIFICATION Spec
CONSTANTS
    HttpClients = {h1}
    TemplateClients = {t1}
    Stores = {s1}
    Keys = {k1, k2}
    MaxPuts = 3
    Maps = {m1, m2, m3}
    Nil = nil
INVARIANTS TypeOK ReadsAnswerPuts ListingAnswersPuts
SYMMETRY Symmetry
CHECK_DEADLOCK FALSE
