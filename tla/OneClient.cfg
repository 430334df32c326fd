SPECIFICATION FairSpec
CONSTANTS
    t1 = t1 t2 = t2 t3 = t3
    n1 = n1 n2 = n2
    o1 = o1 o2 = o2 o3 = o3 o4 = o4 o5 = o5
    s1 = s1 s2 = s2
    NULL = NULL
    Thread = {t1, t2}
    Name = {n1, n2}
    Object = {o1, o2, o3, o4, o5}
    Schema = {s1}
    Requests <- OwnName
    MayCrash = TRUE
INVARIANTS NoUseAfterFree DeletedIsGone
PROPERTIES RequestAnswered
