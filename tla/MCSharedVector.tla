--------------------------- MODULE MCSharedVector ---------------------------
(* Small instances of SharedVector for TLC.                                *)
EXTENDS SharedVector

CONSTANTS t1, t2, t3, v1, v2, x1, x2

\* Two threads share v1, and a third one has a vector of its own.
Apart == {<<t1, v1, x1>>, <<t2, v1, x2>>, <<t3, v2, x2>>}

\* Only the main thread makes objects.
OnlyMain == {Main} \X Vecs \X Insts
=============================================================================
