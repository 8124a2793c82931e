--------------------------- MODULE MCThreadCache ----------------------------
EXTENDS ThreadCache
CONSTANTS t1, t2
MCThreads == {t1, t2}
MCArenas == {1, 2}
MCArenaOf == [t \in MCThreads |-> IF t = t1 THEN 1 ELSE 2]
MCCachedMax == <<4, 1>>
MCPlain == {t2}
Obj(a, b, n) == [arena |-> a, bin |-> b, n |-> n]
MCObjects == {Obj(1, 1, 1), Obj(1, 1, 2), Obj(1, 1, 3), Obj(2, 1, 1), Obj(1, 2, 1), Obj(2, 2, 1)}
=============================================================================
