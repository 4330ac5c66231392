-------------------------------- MODULE Tree --------------------------------
(***************************************************************************)
(* What the family pointers of the processes stand for: each process has a *)
(* list of children, the youngest first.  A child is born to a process,    *)
(* adopted by initproc when its parent dies, and gone when it is reaped.   *)
(* Module Links implements this specification; module Process is written   *)
(* in its terms.                                                           *)
(***************************************************************************)
EXTENDS SequencesExt

CONSTANTS Proc, initproc

VARIABLE children

Init == children = [p \in Proc |-> << >>]

Unborn(p) == p # initproc /\ \A q \in Proc : p \notin Range(children[q])

\* A process of the tree gets a child.
Born(p, q) ==
    /\ Unborn(p) /\ children[p] = << >>
    /\ ~Unborn(q) /\ q # p
    /\ children' = [children EXCEPT ![q] = <<p>> \o @]

\* The youngest child of a dying process goes to initproc.
Adopted(q) ==
    /\ q # initproc
    /\ children[q] # << >>
    /\ children' = [children EXCEPT ![q] = Tail(@),
                                    ![initproc] = <<Head(children[q])>> \o @]

\* A child without children leaves, wherever it is on its parent's list.
Gone(p, q) ==
    /\ children[p] = << >>
    /\ \E i \in DOMAIN children[q] :
          /\ children[q][i] = p
          /\ children' = [children EXCEPT ![q] = RemoveAt(@, i)]

Next ==
    \/ \E p, q \in Proc : Born(p, q) \/ Gone(p, q)
    \/ \E q \in Proc : Adopted(q)

Spec == Init /\ [][Next]_children
=============================================================================
