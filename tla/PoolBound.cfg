\* A pool that replaces one whose connections are still in use.
SPECIFICATION Spec
CONSTANTS
    Tasks = {t1, t2, t3}
    Pools = {g1, g2, g3, g4}
    MaxSize = 2
    NoPool = NoPool
    NoTask = NoTask
SYMMETRY Symmetry
INVARIANT ConnectionsBounded
