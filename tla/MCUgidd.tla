------------------------------- MODULE MCUgidd -------------------------------
EXTENDS Ugidd

\* a passwd and a group database of two entries each
MCPasswd == ("root" :> 0) @@ ("daemon" :> 1)
MCGroup == ("root" :> 0) @@ ("staff" :> 50)
\* nobody's id as a negative int
MCNobody == -2
\* ids: one negative, one in each database
MCIdArgs == {-1, 0, 50}
\* ports: one below the range test, one accepted
MCPortArgs == {-1, 700}
=============================================================================
