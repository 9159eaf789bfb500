------------------------------ MODULE MCSideEffect ------------------------------
(* Instances of SideEffect for TLC: a file that one approval writes and another *)
(* edits on behalf of a task step, and an editor beside them.                    *)
EXTENDS SideEffect

CONSTANTS write, edit, file1, o1

Both == {write, edit}
OneFile == {file1}
TargetAll == [a \in Both |-> file1]
EditOnly == {edit}
===============================================================================
