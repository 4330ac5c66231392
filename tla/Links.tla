------------------------------- MODULE Links -------------------------------
(***************************************************************************)
(* The family pointers of a process, kern/process/proc.c: parent, cptr     *)
(* (the youngest child), optr and yptr (the next older and the next        *)
(* younger sibling), as set_links, remove_links and the loop of do_exit    *)
(* write them.  Module Process takes the list of children for granted;     *)
(* this one shows that the pointers make up that list (Tree).              *)
(*                                                                         *)
(* do_exit's loop runs with interrupts off: while it does (dying), nothing *)
(* else happens.                                                           *)
(***************************************************************************)
EXTENDS Naturals, SequencesExt

CONSTANTS
    Proc,           \* the proc_struct slots, without idleproc
    initproc,       \* adopts the orphans
    MAX_PROCESS,    \* do_fork allows that many processes, idleproc included
    NULL

ASSUME LinksAssumption ==
    /\ initproc \in Proc
    /\ NULL \notin Proc
    /\ IsFiniteSet(Proc)
    /\ MAX_PROCESS \in Nat

VARIABLES
    parent, cptr, yptr, optr,
    nr_process,
    state,          \* proc->state, as far as it matters here
    dying           \* the process in the loop of do_exit, or NULL

links == <<parent, cptr, yptr, optr, nr_process>>
linkvars == <<links, state, dying>>

Pointer == Proc \union {NULL}

\* idleproc has created initproc; it is not on any list, and not shown.
LinksInit ==
    /\ parent = [p \in Proc |-> NULL]
    /\ cptr = [p \in Proc |-> NULL]
    /\ yptr = [p \in Proc |-> NULL]
    /\ optr = [p \in Proc |-> NULL]
    /\ nr_process = 2
    /\ state = [p \in Proc |-> IF p = initproc THEN "alive" ELSE "PROC_FREE"]
    /\ dying = NULL

\* f with f[p] = v, if there is a p.
Set(f, p, v) == IF p = NULL THEN f ELSE [f EXCEPT ![p] = v]

\* set_links(p) for a child p of q that alloc_proc has cleared.
set_links(p, q) ==
    /\ parent' = [parent EXCEPT ![p] = q]
    /\ optr' = [optr EXCEPT ![p] = cptr[q]]
    /\ yptr' = Set([yptr EXCEPT ![p] = NULL], cptr[q], p)
    /\ cptr' = [cptr EXCEPT ![p] = NULL, ![q] = p]
    /\ nr_process' = nr_process + 1

\* Mutant: the parent's pointer moves on whatever the position of the child.
remove_links_first(p) ==
    /\ yptr' = Set(yptr, optr[p], yptr[p])
    /\ optr' = Set(optr, yptr[p], optr[p])
    /\ cptr' = [cptr EXCEPT ![parent[p]] = optr[p]]
    /\ nr_process' = nr_process - 1

\* remove_links(p): its siblings point at each other, or its parent at the older.
remove_links(p) ==
    /\ yptr' = Set(yptr, optr[p], yptr[p])
    /\ optr' = Set(optr, yptr[p], optr[p])
    /\ cptr' = IF yptr[p] = NULL THEN [cptr EXCEPT ![parent[p]] = optr[p]] ELSE cptr
    /\ nr_process' = nr_process - 1

\* do_fork.
Fork(p, q) ==
    /\ dying = NULL
    /\ nr_process < MAX_PROCESS
    /\ state[q] = "alive" /\ state[p] = "PROC_FREE"
    /\ set_links(p, q)
    /\ state' = [state EXCEPT ![p] = "alive"]
    /\ UNCHANGED dying

\* do_exit, up to its loop.
Exit(q) ==
    /\ dying = NULL
    /\ q # initproc /\ state[q] = "alive"
    /\ state' = [state EXCEPT ![q] = "PROC_ZOMBIE"]
    /\ dying' = q
    /\ UNCHANGED links

\* Mutant: the child keeps the pointer to its younger sibling.
Reparent_stale ==
    /\ dying # NULL
    /\ cptr[dying] # NULL
    /\ LET p == cptr[dying]
       IN  /\ cptr' = [cptr EXCEPT ![dying] = optr[p], ![initproc] = p]
           /\ yptr' = Set(yptr, cptr[initproc], p)
           /\ optr' = [optr EXCEPT ![p] = cptr[initproc]]
           /\ parent' = [parent EXCEPT ![p] = initproc]
    /\ UNCHANGED <<nr_process, state, dying>>

\* One iteration: the youngest child becomes initproc's youngest.
Reparent ==
    /\ dying # NULL
    /\ cptr[dying] # NULL
    /\ LET p == cptr[dying]
       IN  /\ cptr' = [cptr EXCEPT ![dying] = optr[p], ![initproc] = p]
           /\ yptr' = Set([yptr EXCEPT ![p] = NULL], cptr[initproc], p)
           /\ optr' = [optr EXCEPT ![p] = cptr[initproc]]
           /\ parent' = [parent EXCEPT ![p] = initproc]
    /\ UNCHANGED <<nr_process, state, dying>>

ExitDone ==
    /\ dying # NULL
    /\ cptr[dying] = NULL
    /\ dying' = NULL
    /\ UNCHANGED <<links, state>>

\* do_wait has found the zombie p.
Reap(p) ==
    /\ dying = NULL
    /\ state[p] = "PROC_ZOMBIE" /\ state[parent[p]] = "alive"
    /\ remove_links(p)
    /\ parent' = [parent EXCEPT ![p] = NULL]
    /\ state' = [state EXCEPT ![p] = "PROC_FREE"]
    /\ UNCHANGED dying

LinksNext ==
    \/ \E p, q \in Proc : Fork(p, q)
    \/ \E p \in Proc : Exit(p) \/ Reap(p)
    \/ Reparent \/ ExitDone

LinksSpec == LinksInit /\ [][LinksNext]_linkvars

-----------------------------------------------------------------------------
(* Properties.                                                             *)

\* The children do_wait's loop visits: from cptr along optr.  The walk stops after
\* as many steps as there are processes, if the pointers have not ended it; Longer
\* makes the walks of n steps from those of n - 1.
Longer(older, next, n) ==
    [p \in Pointer |-> IF n = 0 \/ p = NULL THEN << >> ELSE <<p>> \o older[n-1][next[p]]]
Along(next, p) ==
    LET older[n \in 0..Cardinality(Proc)] == Longer(older, next, n)
    IN  older[Cardinality(Proc)][p]
Walk(q) == Along(optr, cptr[q])

\* The list of a process in use; that of a free slot is not looked at.
ChildrenOf(q) == IF state[q] = "PROC_FREE" THEN << >> ELSE Walk(q)

\* Everything set_links, remove_links and do_exit do to the pointers is a birth, an
\* adoption or a departure in the tree that the walks of do_wait see.
T == INSTANCE Tree WITH children <- [q \in Proc |-> ChildrenOf(q)]
ImplementsTree == T!Spec

\* yptr undoes optr, and parent is the process on whose list a child is: otherwise
\* remove_links would unlink from the middle what it takes for the first.  The one
\* exception is the first child left on a dying process's list.
Mirrored ==
    \A q \in Proc : \A i \in DOMAIN ChildrenOf(q) :
        LET p == ChildrenOf(q)[i]
        IN  /\ state[p] # "PROC_FREE"
            /\ parent[p] = q
            /\ \/ yptr[p] = IF i = 1 THEN NULL ELSE ChildrenOf(q)[i-1]
               \/ i = 1 /\ q = dying

\* A zombie has no children once it has left do_exit's loop, and every process in
\* use but initproc is on the list of one that can reap it or is handing it over.
NobodyLost ==
    \A p \in Proc :
        /\ state[p] = "PROC_ZOMBIE" /\ p # dying => cptr[p] = NULL
        /\ state[p] # "PROC_FREE" /\ p # initproc =>
              \E q \in Proc : p \in Range(ChildrenOf(q)) /\
                              (state[q] = "alive" \/ q = dying)

\* At every step of do_exit's loop the pointers of set_links and remove_links agree,
\* no process is lost, and nr_process, which limits do_fork and which init_main
\* asserts to be 2 in the end, counts the processes in use and idleproc.
LinksAgree ==
    /\ Mirrored /\ NobodyLost
    /\ nr_process = 1 + Cardinality({p \in Proc : state[p] # "PROC_FREE"})
=============================================================================
