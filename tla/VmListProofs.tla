---------------------------- MODULE VmListProofs ----------------------------
(***************************************************************************)
(* What the operations of VmList do to a list and to the memory it is in,  *)
(* for lists of any length at any addresses: the lemmas that ClientProofs  *)
(* cites for the steps of qvd_list_of_vm and qvd_free.                     *)
(***************************************************************************)
EXTENDS VmList, TLAPS, SequenceTheorems

\* The nodes and the memories with addresses in A.
ListNode(A) == [node : A, data : A \cup {NULL}]

Memories(A) == [list : Seq(ListNode(A)), nodes : SUBSET A, vms : SUBSET A]

Nodes(m) == {m.list[k].node : k \in 1 .. Len(m.list)}

Vms(m) == {m.list[k].data : k \in 1 .. Len(m.list)}

\* Only the head of a list of one node has no data.
HeadSound(m) == \A k \in 1 .. Len(m.list) : m.list[k].data = NULL => Len(m.list) = 1

-----------------------------------------------------------------------------

LEMMA MemoryFacts ==
  ASSUME NEW A, NEW m \in Memories(A)
  PROVE  /\ m.list \in Seq(ListNode(A)) /\ m.nodes \subseteq A /\ m.vms \subseteq A
         /\ Len(m.list) \in Nat /\ (m.list # <<>> => Len(m.list) >= 1)
         /\ \A k \in 1 .. Len(m.list) : /\ m.list[k] \in ListNode(A)
                                        /\ m.list[k].node \in A
                                        /\ m.list[k].data \in A \cup {NULL}
<1>1. m.list \in Seq(ListNode(A)) /\ m.nodes \subseteq A /\ m.vms \subseteq A
  BY DEF Memories
<1>2. \A k \in 1 .. Len(m.list) : m.list[k] \in ListNode(A)
  BY <1>1
<1>3. \A n \in ListNode(A) : n.node \in A /\ n.data \in A \cup {NULL}
  BY DEF ListNode
<1> QED
  BY <1>1, <1>2, <1>3

LEMMA OneIndex == 1 .. 1 = {1}
OBVIOUS

\* A new list is one node, and empty.
LEMMA InitFacts ==
  ASSUME NEW A, NEW m \in Memories(A), NEW a \in A
  PROVE  LET r == QvdVmListInit(m, a) IN
         /\ r \in Memories(A) /\ r.list # <<>> /\ Len(r.list) = 1
         /\ HeadSound(r) /\ Listed(r) = 0
         /\ Nodes(r) = {a} /\ Vms(r) = {NULL}
         /\ r.nodes = m.nodes \cup {a} /\ r.vms = m.vms
<1> DEFINE r == QvdVmListInit(m, a)
           l == <<[node |-> a, data |-> NULL]>>
<1>1. /\ l \in Seq(ListNode(A)) /\ Len(l) = 1 /\ l # <<>>
      /\ l[1].node = a /\ l[1].data = NULL
  BY DEF ListNode
<1>2. r.list = l /\ r.nodes = m.nodes \cup {a} /\ r.vms = m.vms
  BY DEF Memories, QvdVmListInit
<1>3. r \in Memories(A)
  BY <1>1 DEF Memories, QvdVmListInit
<1> HIDE DEF l, r
<1>4. HeadSound(r) /\ Listed(r) = 0
  BY <1>1, <1>2 DEF HeadSound, Listed
<1>5. Len(r.list) = 1 /\ r.list[1].node = a /\ r.list[1].data = NULL
  BY <1>1, <1>2
<1>6. Nodes(r) = {a} /\ Vms(r) = {NULL}
  BY <1>5, OneIndex DEF Nodes, Vms
<1> QED
  BY <1>1, <1>2, <1>3, <1>4, <1>6 DEF r

\* What an append with everything allocated leaves: the vm is in the list, and
\* nothing has left it.
LEMMA AppendFacts ==
  ASSUME NEW A, NULL \notin A, NEW m \in Memories(A), NEW a \in A,
         m.list # <<>>, HeadSound(m)
  PROVE  LET r == QvdVmListAppendVm(QvdVmNew(m, a), a) IN
         /\ r \in Memories(A) /\ r.list # <<>> /\ HeadSound(r)
         /\ Len(r.list) \in Nat /\ Len(r.list) <= Len(m.list) + 1
         /\ Listed(r) = Listed(m) + 1
         /\ r.vms = m.vms \cup {a}
         /\ Vms(r) = (Vms(m) \ {NULL}) \cup {a}
         /\ \/ r.nodes = m.nodes /\ Nodes(r) = Nodes(m)
            \/ r.nodes = m.nodes \cup {a} /\ Nodes(r) = Nodes(m) \cup {a}
<1> DEFINE r == QvdVmListAppendVm(QvdVmNew(m, a), a)
           q == QvdVmNew(m, a)
<1>1. q \in Memories(A) /\ q.list = m.list /\ q.nodes = m.nodes /\ q.vms = m.vms \cup {a}
  BY DEF Memories, QvdVmNew
<1> HIDE DEF q
<1>2. /\ Len(m.list) \in Nat /\ Len(m.list) >= 1 /\ m.list \in Seq(ListNode(A))
      /\ \A k \in 1 .. Len(m.list) : m.list[k] \in ListNode(A)
  BY MemoryFacts
<1>3. a # NULL
  OBVIOUS
<1>4. CASE m.list[1].data = NULL
  <2> DEFINE n == [m.list[1] EXCEPT !.data = a]
             l == [m.list EXCEPT ![1] = n]
  <2>1. Len(m.list) = 1
    BY <1>2, <1>4 DEF HeadSound
  <2>2. n \in ListNode(A) /\ n.node = m.list[1].node /\ n.data = a
    BY <1>2 DEF ListNode
  <2> HIDE DEF n
  <2>3. l \in Seq(ListNode(A)) /\ Len(l) = 1 /\ l[1] = n /\ l # <<>>
    BY <1>2, <2>1, <2>2, ExceptSeq
  <2>4. r = [q EXCEPT !.list = l]
    BY <1>1, <1>4 DEF QvdVmListAppendVm, q, n
  <2> HIDE DEF l
  <2>5. r \in Memories(A) /\ r.list = l /\ r.nodes = m.nodes /\ r.vms = m.vms \cup {a}
    BY <1>1, <2>3, <2>4 DEF Memories
  <2> HIDE DEF r
  <2>6. Len(r.list) = 1 /\ r.list[1].node = m.list[1].node /\ r.list[1].data = a
    BY <2>2, <2>3, <2>5
  <2>7. Nodes(r) = Nodes(m) /\ Vms(r) = {a} /\ Vms(m) = {NULL}
    BY <1>4, <2>1, <2>6, OneIndex DEF Nodes, Vms
  <2>8. Listed(m) = 0 /\ Listed(r) = 1 /\ HeadSound(r)
    BY <1>3, <1>4, <2>2, <2>3, <2>5 DEF Listed, HeadSound
  <2>9. Len(r.list) \in Nat /\ Len(r.list) <= Len(m.list) + 1
    BY <2>1, <2>6
  <2>10. Vms(r) = (Vms(m) \ {NULL}) \cup {a}
    BY <2>7
  <2> QED
    BY <2>3, <2>5, <2>7, <2>8, <2>9, <2>10 DEF r
<1>5. CASE m.list[1].data # NULL
  <2> DEFINE n == [node |-> a, data |-> a]
             l == Append(m.list, n)
  <2>1. n \in ListNode(A) /\ n.node = a /\ n.data = a
    BY DEF ListNode
  <2> HIDE DEF n
  <2>2. /\ l \in Seq(ListNode(A)) /\ Len(l) = Len(m.list) + 1 /\ l # <<>>
        /\ \A k \in 1 .. Len(m.list) : l[k] = m.list[k]
        /\ l[Len(m.list) + 1] = n
    BY <1>2, <2>1
  <2>3. r = [q EXCEPT !.list = l, !.nodes = @ \cup {a}]
    BY <1>1, <1>5 DEF QvdVmListAppendVm, q, n
  <2> HIDE DEF l
  <2>4. /\ r \in Memories(A)
        /\ r.list = l /\ r.nodes = m.nodes \cup {a} /\ r.vms = m.vms \cup {a}
    BY <1>1, <2>2, <2>3 DEF Memories
  <2> HIDE DEF r
  <2>5. 1 .. Len(l) = (1 .. Len(m.list)) \cup {Len(m.list) + 1}
    BY <1>2, <2>2
  <2>6. Nodes(r) = Nodes(m) \cup {a}
    BY <2>1, <2>2, <2>4, <2>5 DEF Nodes
  <2>7. Vms(r) = Vms(m) \cup {a}
    BY <2>1, <2>2, <2>4, <2>5 DEF Vms
  <2>8. \A k \in 1 .. Len(m.list) : m.list[k].data # NULL
    BY <1>2, <1>5 DEF HeadSound
  <2>9. NULL \notin Vms(m)
    BY <2>8 DEF Vms
  <2>10. l[1] = m.list[1] /\ 1 \in 1 .. Len(m.list)
    BY <1>2, <2>2
  <2>11. Listed(m) = Len(m.list) /\ Listed(r) = Len(m.list) + 1
    BY <1>5, <2>2, <2>4, <2>10 DEF Listed
  <2>12. HeadSound(r)
    BY <1>3, <2>1, <2>2, <2>4, <2>5, <2>8 DEF HeadSound
  <2> QED
    BY <1>2, <2>2, <2>4, <2>6, <2>7, <2>9, <2>11, <2>12 DEF r
<1> QED
  BY <1>4, <1>5

\* A list that is freed loses nothing but its last node, and that node's vm: what
\* is still allocated was not in the list, or is the end of it.
LEMMA FreeFacts ==
  ASSUME NEW A, NULL \notin A, NEW m \in Memories(A), m.list # <<>>, HeadSound(m)
  PROVE  LET r == QvdVmListFree(m) IN
         /\ r \in Memories(A) /\ r.list = m.list
         /\ r.nodes \subseteq m.nodes /\ r.vms \subseteq m.vms
         /\ \E n \in Nodes(m) : r.nodes \cap Nodes(m) \subseteq {n}
         /\ \E v \in Vms(m) : r.vms \cap Vms(m) \subseteq {v}
<1> DEFINE r == QvdVmListFree(m)
           last == Len(m.list)
<1>1. last \in Nat /\ last >= 1 /\ last \in 1 .. last
  BY MemoryFacts
<1>2. m.list[last].node \in Nodes(m) /\ m.list[last].data \in Vms(m)
  BY <1>1 DEF Nodes, Vms
<1>3. CASE m.list[1].data = NULL
  <2>1. last = 1
    BY <1>1, <1>3 DEF HeadSound
  <2>2. Nodes(m) = {m.list[last].node} /\ Vms(m) = {m.list[last].data}
    BY <2>1 DEF Nodes, Vms
  <2>3. r = [m EXCEPT !.nodes = @ \ {m.list[1].node}]
    BY <1>3 DEF QvdVmListFree
  <2>4. /\ r \in Memories(A) /\ r.list = m.list /\ r.vms = m.vms
        /\ r.nodes = m.nodes \ {m.list[1].node}
    BY <2>3 DEF Memories
  <2> QED
    BY <1>2, <2>2, <2>4
<1>4. CASE m.list[1].data # NULL
  <2> DEFINE freed == {m.list[k] : k \in 1 .. Len(m.list) - 1}
             gone == {n.node : n \in freed}
             goneVms == {n.data : n \in freed}
  <2>1. r = [[m EXCEPT !.vms = @ \ goneVms] EXCEPT !.nodes = @ \ gone]
    BY <1>4 DEF QvdVmListFree, QvdVmFree
  <2>2. \A k \in 1 .. last : k = last \/ (m.list[k].node \in gone /\ m.list[k].data \in goneVms)
    BY <1>1
  <2> HIDE DEF gone, goneVms
  <2>3. /\ r \in Memories(A) /\ r.list = m.list
        /\ r.nodes = m.nodes \ gone /\ r.vms = m.vms \ goneVms
    BY <2>1 DEF Memories
  <2> HIDE DEF r
  <2>4. r.nodes \cap Nodes(m) \subseteq {m.list[last].node}
    BY <2>2, <2>3 DEF Nodes
  <2>5. r.vms \cap Vms(m) \subseteq {m.list[last].data}
    BY <2>2, <2>3 DEF Vms
  <2> QED
    BY <1>2, <2>3, <2>4, <2>5 DEF r
<1> QED
  BY <1>3, <1>4
=============================================================================
