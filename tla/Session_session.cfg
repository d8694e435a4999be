SPECIFICATION Spec
CONSTANTS
    t1 = t1
    t2 = t2
    t3 = t3
    Tab = {t1, t2}
    MaxTok = 4
    Environments = {{}, {"db", "lost", "expire", "week"}}
SYMMETRY Symmetry
INVARIANTS TypeOK JarIsGood SpentIsDead
CHECK_DEADLOCK FALSE
