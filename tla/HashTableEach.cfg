SPECIFICATION Spec
CONSTANTS
    Readers = {r1}
    Writers = {w1, w2}
    ka = ka
    kb = kb
    Keys <- MCKeys
    KeyHash <- MCHash
    KeySize <- SameSize
    Vals = {v1, v2}
    Tables = {t1, t2, t3}
    NeighLen = 1
    DefaultNeigh = 2
    MaxNeigh = 4
    collision_check = TRUE
    None = None
SYMMETRY Symmetry
INVARIANT EachGetsElement
