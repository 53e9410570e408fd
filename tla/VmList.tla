------------------------------- MODULE VmList -------------------------------
(***************************************************************************)
(* The linked list of qvdvm.c, and what malloc has given it.  A memory m   *)
(* is a record: m.list is the list that qvd->vmlist points to, as the      *)
(* sequence of its nodes in the order of their next pointers, or the empty *)
(* sequence when the pointer is NULL; m.nodes and m.vms are the addresses  *)
(* of list nodes and of vm structures that are allocated.  A node is its   *)
(* address and its data pointer.  Addresses are never used twice, so an    *)
(* address that is not in m.nodes or m.vms has been freed.                 *)
(***************************************************************************)
EXTENDS Naturals, Sequences

NULL == <<>>

NoMemory == [list |-> <<>>, nodes |-> {}, vms |-> {}]

\* The new head has no data, and stands for the empty list.
QvdVmListInit(m, a) ==
  [m EXCEPT !.list = <<[node |-> a, data |-> NULL]>>, !.nodes = @ \cup {a}]

QvdVmNew(m, a) == [m EXCEPT !.vms = @ \cup {a}]

QvdVmFree(m, freed) == [m EXCEPT !.vms = @ \ freed]

\* Mutant: the first vm gets a node of its own, behind the empty head.
AppendBehindHead(m, a) ==
  [m EXCEPT !.list = Append(@, [node |-> a, data |-> a]), !.nodes = @ \cup {a}]

\* The first vm goes to the head that is there; a later one to a new last node.
QvdVmListAppendVm(m, a) ==
  IF m.list[1].data = NULL
  THEN [m EXCEPT !.list[1].data = a]
  ELSE [m EXCEPT !.list = Append(@, [node |-> a, data |-> a]), !.nodes = @ \cup {a}]

\* Whether an append needs malloc: when that fails the vm is not in the list.
NeedsNode(m) == m.list[1].data # NULL

\* Mutant: the walk stops at once.
FreeNothing(m) == m

\* An empty list loses its head.  The walk over another one stops at the last
\* node, which is not freed.  qvd->vmlist is left pointing where it did.
QvdVmListFree(m) ==
  IF m.list[1].data = NULL
  THEN [m EXCEPT !.nodes = @ \ {m.list[1].node}]
  ELSE LET freed == {m.list[i] : i \in 1 .. Len(m.list) - 1} IN
       [QvdVmFree(m, {n.data : n \in freed}) EXCEPT !.nodes = @ \ {n.node : n \in freed}]

\* Every node of the list, and every vm in it, is allocated.
ListAllocated(m) ==
  \A i \in DOMAIN m.list :
    m.list[i].node \in m.nodes /\ m.list[i].data \in m.vms \cup {NULL}

\* The vms a walk over the list finds.
Listed(m) == IF m.list = <<>> \/ m.list[1].data = NULL THEN 0 ELSE Len(m.list)
=============================================================================
