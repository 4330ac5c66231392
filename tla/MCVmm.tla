------------------------------- MODULE MCVmm -------------------------------
\* Vmm with programs of a read-only page of code and a page of zeroes, and of
\* segments that overlap; a stack of three pages, of which exec fills two.
EXTENDS Vmm

Symmetry == Permutations(Proc)

Code == {"READ", "EXEC"}
Data == {"READ", "WRITE"}
MCgood == << [start |-> 0, end |-> 1, file |-> 1, flags |-> Code],
             [start |-> 1, end |-> 2, file |-> 0, flags |-> Data] >>
MCoverlap == << [start |-> 0, end |-> 2, file |-> 2, flags |-> Data],
                [start |-> 1, end |-> 2, file |-> 1, flags |-> Code] >>
MCProgram == {MCgood, MCoverlap}

\* Code, data, the page of the stack that is not there yet, and a page in no area.
MCTouches == {<<0, FALSE>>, <<0, TRUE>>, <<1, TRUE>>, <<5, TRUE>>, <<3, FALSE>>}
=============================================================================
