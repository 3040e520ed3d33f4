------------------------------ MODULE MCFileTree ------------------------------
(* Folders f, g and a file x that may be there, and ids for what is created.  *)
EXTENDS FileTree, TLC

CONSTANTS f, g, h, x, y, a, b

MCGiven == {[base |-> a, copy |-> 0]}
MCOldName == [i \in Old |-> [base |-> IF i = g THEN b ELSE a, copy |-> 0]]
===============================================================================
