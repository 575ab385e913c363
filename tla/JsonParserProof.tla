-------------------------- MODULE JsonParserProof --------------------------
(***************************************************************************)
(* The tree the parser builds and the cursor it reads with, for every      *)
(* text: documents, texts that are none, and texts cut short anywhere.     *)
(***************************************************************************)
EXTENDS JsonParser, JsonStringProof, SequenceTheorems

(* A node is what jsonNew made; nodes is a sequence of them.               *)
IsNode(r)  == r = [type |-> r.type, key |-> r.key, next |-> r.next, value |-> r.value]
IsNodes(ns) ==
  /\ ns \in Seq({ns[i] : i \in DOMAIN ns})
  /\ \A n \in 1 .. Len(ns) : IsNode(ns[n])

(* Node r points to node m.                                                *)
Leads(r, m) ==
  m # NULL /\ (r.next = m \/ (r.value[1] = "child" /\ r.value[2] = m))

(* TreeShaped, of any nodes, and a node no other points to.                *)
Tree(ns) ==
  /\ \A n \in 1 .. Len(ns) : \A m : Leads(ns[n], m) => m > n /\ m \in 1 .. Len(ns)
  /\ \A n1, n2 \in 1 .. Len(ns) :
       \A m : Leads(ns[n1], m) /\ Leads(ns[n2], m) => n1 = n2
  /\ \A n \in 1 .. Len(ns) :
       ns[n].next # NULL /\ ns[n].value[1] = "child" => ns[n].value[2] # ns[n].next
Loose(ns, m) ==
  m \in 1 .. Len(ns) /\ \A n \in 1 .. Len(ns) : ~Leads(ns[n], m)

(* The node the i-th activation returns its list to.                       *)
Caller(i) == IF i = 1 THEN Root ELSE stack[i - 1].J

Frames == [fn : {"object", "array"}, val : Nat, J : Nat]

(* What every activation finds where it looks.                             *)
ControlInv ==
  /\ pc \in Pcs
  /\ stack = << >> <=> pc \in {"start", "finish", "done"}
  /\ stack \in Seq(Frames)
  /\ IsNodes(nodes)
  /\ pc = "start" => nodes = << >>
  /\ ptr \in {NULL} \cup NodeIds
  /\ \A i \in 1 .. Len(stack) :
       /\ stack[i].val \in {NULL} \cup NodeIds
       /\ stack[i].J \in {NULL} \cup NodeIds
       /\ Caller(i) \in NodeIds
  /\ pc \in {"value", "text", "after"} => Top.J \in NodeIds
  /\ pc \in {"loop", "key", "value", "text"} => ptr \in NodeIds
  /\ pc = "value" => Top.J = ptr

(* The lists the activations have begun are no part of the tree yet, and   *)
(* each will be hung below a node made before it.                          *)
TreeInv ==
  /\ Tree(nodes)
  /\ \A i \in 1 .. Len(stack) :
       stack[i].val # NULL => Loose(nodes, stack[i].val) /\ stack[i].val > Caller(i)
  /\ \A i, j \in 1 .. Len(stack) :
       stack[i].val # NULL /\ stack[i].val = stack[j].val => i = j

(* The nodes whose union is yet to be written are the callers of the       *)
(* activations and the one a string is being read for; the type of the     *)
(* node at p->ptr is set after those of the callers and never instead.     *)
Matches(r) == r.value[1] \in Written(r.type)
Containers == {"JSON_OBJECT", "JSON_ARRAY"}
UnionInv ==
  /\ \A n \in NodeIds :
       \/ Matches(nodes[n])
       \/ \E i \in 1 .. Len(stack) : n = Caller(i)
       \/ pc = "text" /\ n = ptr
  /\ \A i \in 1 .. Len(stack) : nodes[Caller(i)].type \in Containers
  /\ pc \in {"loop", "key", "value", "text"} => \A i \in 1 .. Len(stack) : ptr # Caller(i)
  /\ pc \in {"loop", "key", "value"} =>
       nodes[ptr].type = "JSON_NULL" /\ nodes[ptr].value = Uninit
  /\ pc = "text" => nodes[ptr].type \in {"JSON_STRING", "JSON_STRNUM"}

-----------------------------------------------------------------------------
(* A sequence with one element replaced, and with one more.                *)
LEMMA Replaced ==
  ASSUME NEW ns, IsNodes(ns), NEW p \in 1 .. Len(ns), NEW r, IsNode(r)
  PROVE  LET ms == [ns EXCEPT ![p] = r]
         IN  /\ IsNodes(ms)
             /\ Len(ms) = Len(ns)
             /\ \A n \in 1 .. Len(ns) : ms[n] = IF n = p THEN r ELSE ns[n]
<1> DEFINE S == {ns[i] : i \in DOMAIN ns}
           ms == [ns EXCEPT ![p] = r]
<1>1. ns \in Seq(S \cup {r}) /\ \A n \in 1 .. Len(ns) : ns[n] \in S
  BY DEF IsNodes
<1>2. Len(ns) \in Nat /\ DOMAIN ns = 1 .. Len(ns)
  BY DEF IsNodes
<1> HIDE DEF S
<1>3. ms \in Seq(S \cup {r}) /\ Len(ms) = Len(ns) /\ DOMAIN ms = 1 .. Len(ns)
  BY <1>1, <1>2
<1>4. \A n \in 1 .. Len(ns) : ms[n] = IF n = p THEN r ELSE ns[n]
  BY <1>1, <1>2
<1> HIDE DEF ms
<1>5. ms \in Seq({ms[i] : i \in DOMAIN ms})
  BY <1>2, <1>3
<1>6. IsNodes(ms)
  BY <1>3, <1>4, <1>5 DEF IsNodes
<1> QED BY <1>3, <1>4, <1>6 DEF ms

(* What is appended to the nodes is the last of them; the others stay.     *)
LEMMA NodeAppended ==
  ASSUME NEW ns, IsNodes(ns), NEW r, IsNode(r)
  PROVE  LET ms == Append(ns, r)
         IN  /\ IsNodes(ms)
             /\ Len(ms) = Len(ns) + 1
             /\ \A n \in 1 .. Len(ns) : ms[n] = ns[n]
             /\ ms[Len(ns) + 1] = r
<1> DEFINE S == {ns[i] : i \in DOMAIN ns}
           ms == Append(ns, r)
<1>1. ns \in Seq(S \cup {r}) /\ \A n \in 1 .. Len(ns) : ns[n] \in S
  BY DEF IsNodes
<1>2. Len(ns) \in Nat /\ DOMAIN ns = 1 .. Len(ns)
  BY DEF IsNodes
<1> HIDE DEF S
<1>3. /\ ms \in Seq(S \cup {r}) /\ Len(ms) = Len(ns) + 1 /\ DOMAIN ms = 1 .. Len(ns) + 1
      /\ \A n \in 1 .. Len(ns) : ms[n] = ns[n]
      /\ ms[Len(ns) + 1] = r
  BY <1>1, <1>2
<1> HIDE DEF ms
<1>4. ms \in Seq({ms[i] : i \in DOMAIN ms})
  BY <1>2, <1>3
<1>5. \A n \in 1 .. Len(ns) + 1 : IsNode(ms[n])
  BY <1>2, <1>3 DEF IsNodes
<1>6. IsNodes(ms)
  BY <1>3, <1>4, <1>5 DEF IsNodes
<1> QED BY <1>3, <1>6 DEF ms

(* What the fields of a node are after an assignment.                      *)
LEMMA ValueAssigned ==
  ASSUME NEW r, IsNode(r), NEW x
  PROVE  LET s == [r EXCEPT !.value = x]
         IN  IsNode(s) /\ s.value = x /\ s.next = r.next /\ s.type = r.type
BY DEF IsNode

(* What an assignment to next changes.                                     *)
LEMMA NextAssigned ==
  ASSUME NEW r, IsNode(r), NEW x
  PROVE  LET s == [r EXCEPT !.next = x]
         IN  IsNode(s) /\ s.value = r.value /\ s.next = x /\ s.type = r.type
BY DEF IsNode

(* What an assignment to a key changes.                                    *)
LEMMA KeyAssigned ==
  ASSUME NEW r, IsNode(r), NEW x
  PROVE  LET s == [r EXCEPT !.key = x]
         IN  IsNode(s) /\ s.value = r.value /\ s.next = r.next /\ s.type = r.type
BY DEF IsNode

(* What an assignment to type and value changes.                           *)
LEMMA TypeAssigned ==
  ASSUME NEW r, IsNode(r), NEW x
  PROVE  LET s == [r EXCEPT !.type = x]
         IN  IsNode(s) /\ s.value = r.value /\ s.next = r.next /\ s.type = x
BY DEF IsNode

(* What jsonNew returns.                                                   *)
LEMMA NewNodeTyped ==
  /\ IsNode(NewNode) /\ NewNode.next = NULL /\ NewNode.type = "JSON_NULL"
  /\ NewNode.value = Uninit /\ NewNode.value[1] = "uninit"
BY DEF IsNode, NewNode, Uninit

-----------------------------------------------------------------------------
(* Nodes that point to no more than before are a tree if they were one.    *)
LEMMA TreeKept ==
  ASSUME NEW ns, NEW ms, Len(ms) = Len(ns), Tree(ns),
         \A n \in 1 .. Len(ns) : /\ ms[n].next = ns[n].next
                                 /\ \/ ms[n].value = ns[n].value
                                    \/ ms[n].value[1] # "child"
  PROVE  Tree(ms) /\ \A m : Loose(ns, m) => Loose(ms, m)
<1>1. \A n \in 1 .. Len(ns) : \A m : Leads(ms[n], m) => Leads(ns[n], m)
  BY DEF Leads
<1>2. \A n \in 1 .. Len(ns) :
        ms[n].next # NULL /\ ms[n].value[1] = "child" => ms[n].value[2] # ms[n].next
  BY DEF Tree
<1> QED BY <1>1, <1>2 DEF Tree, Loose

(* A list is hung below its caller: nothing pointed to it, nothing else    *)
(* does now.                                                               *)
LEMMA TreeGiven ==
  ASSUME NEW ns, NEW ms, Len(ms) = Len(ns), Tree(ns),
         NEW c \in 1 .. Len(ns), NEW v \in Nat,
         v # NULL => Loose(ns, v) /\ v > c,
         \A n \in 1 .. Len(ns) : /\ ms[n].next = ns[n].next
                                 /\ n # c => ms[n].value = ns[n].value,
         ms[c].value = Child(v)
  PROVE  Tree(ms) /\ \A m : m # v /\ Loose(ns, m) => Loose(ms, m)
<1>1. ms[c].value[1] = "child" /\ ms[c].value[2] = v
  BY DEF Child
<1>2. \A n \in 1 .. Len(ns) : \A m :
        Leads(ms[n], m) => Leads(ns[n], m) \/ (n = c /\ m = v /\ v # NULL)
  BY <1>1 DEF Leads
<1>3. \A n \in 1 .. Len(ns) : v # NULL => ~Leads(ns[n], v)
  BY DEF Loose
<1>4. \A n \in 1 .. Len(ns) : \A m : Leads(ms[n], m) => m > n /\ m \in 1 .. Len(ns)
  <2> SUFFICES ASSUME NEW n \in 1 .. Len(ns), NEW m, Leads(ms[n], m)
               PROVE  m > n /\ m \in 1 .. Len(ns)
    OBVIOUS
  <2>1. CASE Leads(ns[n], m)
    BY <2>1 DEF Tree
  <2>2. CASE n = c /\ m = v /\ v # NULL
    BY <2>2 DEF Loose
  <2> QED BY <1>2, <2>1, <2>2
<1>5. \A n1, n2 \in 1 .. Len(ns) :
        \A m : Leads(ms[n1], m) /\ Leads(ms[n2], m) => n1 = n2
  <2> SUFFICES ASSUME NEW n1 \in 1 .. Len(ns), NEW n2 \in 1 .. Len(ns), NEW m,
                      Leads(ms[n1], m), Leads(ms[n2], m)
               PROVE  n1 = n2
    OBVIOUS
  <2>1. CASE m = v /\ v # NULL
    BY <1>2, <1>3, <2>1
  <2>2. CASE ~(m = v /\ v # NULL)
    <3>1. Leads(ns[n1], m) /\ Leads(ns[n2], m)
      BY <1>2, <2>2
    <3> QED BY <3>1 DEF Tree
  <2> QED BY <2>1, <2>2
<1>6. \A n \in 1 .. Len(ns) :
        ms[n].next # NULL /\ ms[n].value[1] = "child" => ms[n].value[2] # ms[n].next
  <2> SUFFICES ASSUME NEW n \in 1 .. Len(ns), ms[n].next # NULL, ms[n].value[1] = "child"
               PROVE  ms[n].value[2] # ms[n].next
    OBVIOUS
  <2>1. CASE n = c
    <3>1. Leads(ns[c], ns[c].next)
      BY <2>1 DEF Leads
    <3>2. v # NULL => ns[c].next # v
      BY <1>3, <3>1
    <3> QED BY <1>1, <2>1, <3>2
  <2>2. CASE n # c
    BY <2>2 DEF Tree
  <2> QED BY <2>1, <2>2
<1>7. \A m : m # v /\ Loose(ns, m) => Loose(ms, m)
  BY <1>2 DEF Loose
<1> QED BY <1>4, <1>5, <1>6, <1>7 DEF Tree

(* One more node, to which nothing points.                                 *)
LEMMA TreeGrown ==
  ASSUME NEW ns, NEW ms, Len(ns) \in Nat, Len(ms) = Len(ns) + 1, Tree(ns),
         \A n \in 1 .. Len(ns) : ms[n] = ns[n],
         ms[Len(ns) + 1] = NewNode
  PROVE  /\ Tree(ms)
         /\ Loose(ms, Len(ns) + 1)
         /\ \A m : Loose(ns, m) => Loose(ms, m)
<1>1. \A m : ~Leads(NewNode, m)
  BY NewNodeTyped DEF Leads
<1>2. \A n \in 1 .. Len(ms) : n \in 1 .. Len(ns) \/ n = Len(ns) + 1
  OBVIOUS
<1>3. \A n \in 1 .. Len(ms) : \A m :
        Leads(ms[n], m) => n \in 1 .. Len(ns) /\ Leads(ns[n], m)
  BY <1>1, <1>2
<1>4. \A n \in 1 .. Len(ns) : ~Leads(ns[n], Len(ns) + 1)
  BY DEF Tree
<1>5. \A n \in 1 .. Len(ms) : \A m : Leads(ms[n], m) => m > n /\ m \in 1 .. Len(ms)
  <2> SUFFICES ASSUME NEW n \in 1 .. Len(ms), NEW m, Leads(ms[n], m)
               PROVE  m > n /\ m \in 1 .. Len(ms)
    OBVIOUS
  <2>1. n \in 1 .. Len(ns) /\ Leads(ns[n], m)
    BY <1>3
  <2>2. m > n /\ m \in 1 .. Len(ns)
    BY <2>1 DEF Tree
  <2> QED BY <2>2
<1>6. \A n1, n2 \in 1 .. Len(ms) :
        \A m : Leads(ms[n1], m) /\ Leads(ms[n2], m) => n1 = n2
  <2> SUFFICES ASSUME NEW n1 \in 1 .. Len(ms), NEW n2 \in 1 .. Len(ms), NEW m,
                      Leads(ms[n1], m), Leads(ms[n2], m)
               PROVE  n1 = n2
    OBVIOUS
  <2>1. /\ n1 \in 1 .. Len(ns) /\ Leads(ns[n1], m)
        /\ n2 \in 1 .. Len(ns) /\ Leads(ns[n2], m)
    BY <1>3
  <2> QED BY <2>1 DEF Tree
<1>7. \A n \in 1 .. Len(ms) :
        ms[n].next # NULL /\ ms[n].value[1] = "child" => ms[n].value[2] # ms[n].next
  BY <1>2, NewNodeTyped DEF Tree
<1>8. \A m : Loose(ns, m) => Loose(ms, m)
  BY <1>3 DEF Loose
<1>9. Loose(ms, Len(ns) + 1)
  BY <1>3, <1>4 DEF Loose
<1> QED BY <1>5, <1>6, <1>7, <1>8, <1>9 DEF Tree

(* The newest node is linked behind another.                               *)
LEMMA TreeLinked ==
  ASSUME NEW ns, NEW ms, Len(ms) = Len(ns), Tree(ns),
         NEW c \in 1 .. Len(ns), NEW v \in Nat, v > c, Loose(ns, v),
         \A n \in 1 .. Len(ns) : n # c => ms[n].next = ns[n].next,
         \A n \in 1 .. Len(ns) : ms[n].value = ns[n].value,
         ms[c].next = v
  PROVE  Tree(ms) /\ \A m : m # v /\ Loose(ns, m) => Loose(ms, m)
<1>1. \A n \in 1 .. Len(ns) : \A m :
        Leads(ms[n], m) => Leads(ns[n], m) \/ (n = c /\ m = v)
  BY DEF Leads
<1>2. \A n \in 1 .. Len(ns) : ~Leads(ns[n], v)
  BY DEF Loose
<1>3. v # NULL
  BY DEF NULL
<1>4. \A n \in 1 .. Len(ns) : \A m : Leads(ms[n], m) => m > n /\ m \in 1 .. Len(ns)
  <2> SUFFICES ASSUME NEW n \in 1 .. Len(ns), NEW m, Leads(ms[n], m)
               PROVE  m > n /\ m \in 1 .. Len(ns)
    OBVIOUS
  <2>1. CASE Leads(ns[n], m)
    BY <2>1 DEF Tree
  <2>2. CASE n = c /\ m = v
    BY <2>2 DEF Loose
  <2> QED BY <1>1, <2>1, <2>2
<1>5. \A n1, n2 \in 1 .. Len(ns) :
        \A m : Leads(ms[n1], m) /\ Leads(ms[n2], m) => n1 = n2
  <2> SUFFICES ASSUME NEW n1 \in 1 .. Len(ns), NEW n2 \in 1 .. Len(ns), NEW m,
                      Leads(ms[n1], m), Leads(ms[n2], m)
               PROVE  n1 = n2
    OBVIOUS
  <2>1. CASE m = v
    BY <1>1, <1>2, <2>1
  <2>2. CASE m # v
    <3>1. Leads(ns[n1], m) /\ Leads(ns[n2], m)
      BY <1>1, <2>2
    <3> QED BY <3>1 DEF Tree
  <2> QED BY <2>1, <2>2
<1>6. \A n \in 1 .. Len(ns) :
        ms[n].next # NULL /\ ms[n].value[1] = "child" => ms[n].value[2] # ms[n].next
  <2> SUFFICES ASSUME NEW n \in 1 .. Len(ns), ms[n].next # NULL, ms[n].value[1] = "child"
               PROVE  ms[n].value[2] # ms[n].next
    OBVIOUS
  <2>1. CASE n = c
    <3>1. ns[c].value[2] = v => Leads(ns[c], v)
      BY <1>3, <2>1 DEF Leads
    <3> QED BY <1>2, <2>1, <3>1
  <2>2. CASE n # c
    BY <2>2 DEF Tree
  <2> QED BY <2>1, <2>2
<1>7. \A m : m # v /\ Loose(ns, m) => Loose(ms, m)
  BY <1>1 DEF Loose
<1> QED BY <1>4, <1>5, <1>6, <1>7 DEF Tree

-----------------------------------------------------------------------------
NodesInv == ControlInv /\ TreeInv /\ UnionInv

(* ns is nodes but for the keys.                                           *)
SameLinks(ns) ==
  /\ IsNodes(ns)
  /\ Len(ns) = Len(nodes)
  /\ \A n \in NodeIds : /\ ns[n].next = nodes[n].next
                        /\ ns[n].value = nodes[n].value
                        /\ ns[n].type = nodes[n].type

(* The stack of activations without the innermost.                         *)
LEMMA Popped ==
  ASSUME NEW s \in Seq(Frames), s # << >>
  PROVE  /\ Front(s) \in Seq(Frames)
         /\ Len(s) \in Nat \ {0}
         /\ Len(Front(s)) = Len(s) - 1
         /\ \A i \in 1 .. Len(s) - 1 : Front(s)[i] = s[i]
         /\ Front(s) = << >> <=> Len(s) = 1
<1>1. Len(s) \in Nat \ {0}
  OBVIOUS
<1>2. Front(s) = SubSeq(s, 1, Len(s) - 1)
  BY DEF Front
<1>3. /\ SubSeq(s, 1, Len(s) - 1) \in Seq(Frames)
      /\ Len(SubSeq(s, 1, Len(s) - 1)) = Len(s) - 1
      /\ \A i \in 1 .. Len(s) - 1 : SubSeq(s, 1, Len(s) - 1)[i] = s[i]
  <2>1. 1 \in 1 .. Len(s) + 1 /\ Len(s) - 1 \in 1 - 1 .. Len(s)
    BY <1>1
  <2>2. \A i \in 1 .. Len(s) - 1 : 1 + i - 1 = i
    OBVIOUS
  <2>3. Len(s) - 1 - 1 + 1 = Len(s) - 1
    BY <1>1
  <2> QED BY <1>1, <2>1, <2>2, <2>3, SubSeqProperties
<1>4. SubSeq(s, 1, Len(s) - 1) = << >> <=> Len(s) = 1
  <2> DEFINE t == SubSeq(s, 1, Len(s) - 1)
  <2>1. t \in Seq(Frames) /\ Len(t) = Len(s) - 1
    BY <1>3
  <2> HIDE DEF t
  <2>2. t = << >> <=> Len(t) = 0
    BY <2>1, EmptySeq
  <2>3. t = << >> <=> Len(s) = 1
    BY <1>1, <2>1, <2>2
  <2> QED BY <2>3 DEF t
<1> QED BY <1>1, <1>2, <1>3, <1>4

(* What the invariant says of the innermost activation.                    *)
LEMMA Innermost ==
  ASSUME ControlInv, stack # << >>
  PROVE  /\ Len(stack) \in Nat \ {0} /\ Len(stack) \in 1 .. Len(stack)
         /\ Top \in Frames
         /\ Top.val \in {NULL} \cup NodeIds
         /\ Top.J \in {NULL} \cup NodeIds
         /\ Caller(Len(stack)) \in NodeIds
         /\ Len(nodes) \in Nat \ {0}
<1>1. stack \in Seq(Frames) /\ Len(stack) \in Nat \ {0} /\ Len(stack) \in 1 .. Len(stack)
  BY DEF ControlInv
<1>2. Top \in Frames
  BY <1>1 DEF Top
<1>3. Caller(Len(stack)) \in NodeIds /\ Len(nodes) \in Nat
  BY <1>1 DEF ControlInv, IsNodes
<1>4. Len(nodes) \in Nat \ {0}
  BY <1>3 DEF NodeIds
<1> QED BY <1>1, <1>2, <1>3, <1>4 DEF ControlInv, Top

(* What a return changes: the innermost activation is gone and the union   *)
(* of its caller's node is the child ret.                                  *)
LEMMA ReturnDoes ==
  ASSUME NodesInv, NEW ns, SameLinks(ns), NEW c, NEW ret \in {NULL, Top.val},
         pc \notin {"start", "finish", "done"}, Return(c, ret, ns)
  PROVE  /\ stack # << >> /\ stack \in Seq(Frames) /\ Len(stack) \in Nat \ {0}
         /\ Caller(Len(stack)) \in NodeIds /\ ret \in {NULL} \cup NodeIds
         /\ stack' \in Seq(Frames) /\ Len(stack') = Len(stack) - 1
         /\ stack' = << >> <=> Len(stack) = 1
         /\ \A i \in 1 .. Len(stack) - 1 : stack'[i] = stack[i] /\ Caller(i)' = Caller(i)
         /\ cur' = c /\ pc' = IF Len(stack) = 1 THEN "finish" ELSE "after"
         /\ IsNodes(nodes') /\ Len(nodes') = Len(nodes) /\ NodeIds' = NodeIds
         /\ \A n \in NodeIds :
              /\ nodes'[n].next = nodes[n].next /\ nodes'[n].type = nodes[n].type
              /\ n # Caller(Len(stack)) => nodes'[n].value = nodes[n].value
         /\ nodes'[Caller(Len(stack))].value = Child(ret)
<1> DEFINE d == Len(stack)
           k == Caller(d)
           r == [ns[k] EXCEPT !.value = Child(ret)]
<1>1. stack # << >> /\ stack \in Seq(Frames) /\ IsNodes(nodes)
  BY DEF NodesInv, ControlInv
<1>2. /\ d \in Nat \ {0} /\ d \in 1 .. d /\ k \in NodeIds
      /\ Len(nodes) \in Nat \ {0} /\ ret \in {NULL} \cup NodeIds
  BY <1>1, Innermost DEF NodesInv
<1>3. /\ nodes' = [ns EXCEPT ![k] = r]
      /\ stack' = Front(stack) /\ cur' = c
      /\ pc' = IF d = 1 THEN "finish" ELSE "after"
  BY DEF Return, Caller
<1>4. /\ stack' \in Seq(Frames) /\ Len(stack') = d - 1
      /\ \A i \in 1 .. d - 1 : stack'[i] = stack[i]
      /\ stack' = << >> <=> d = 1
  BY <1>1, <1>3, Popped
<1>5. \A i \in 1 .. d - 1 : Caller(i)' = Caller(i)
  BY <1>2, <1>4 DEF Caller
<1>6. /\ IsNode(r) /\ r.value = Child(ret) /\ r.next = ns[k].next /\ r.type = ns[k].type
  <2>1. IsNode(ns[k])
    BY <1>2 DEF SameLinks, IsNodes, NodeIds
  <2>2. LET s == [ns[k] EXCEPT !.value = Child(ret)]
        IN  /\ IsNode(s) /\ s.value = Child(ret)
            /\ s.next = ns[k].next /\ s.type = ns[k].type
    <3> HIDE DEF k
    <3> QED BY <2>1, ValueAssigned
  <2> QED BY <2>2
<1> HIDE DEF k, r
<1>7. /\ IsNodes(nodes') /\ Len(nodes') = Len(nodes)
      /\ \A n \in NodeIds : nodes'[n] = IF n = k THEN r ELSE ns[n]
  <2>1. IsNodes(ns) /\ k \in 1 .. Len(ns) /\ Len(ns) = Len(nodes) /\ NodeIds = 1 .. Len(ns)
    BY <1>2 DEF SameLinks, NodeIds
  <2>2. LET ms == [ns EXCEPT ![k] = r]
        IN  /\ IsNodes(ms)
            /\ Len(ms) = Len(ns)
            /\ \A n \in 1 .. Len(ns) : ms[n] = IF n = k THEN r ELSE ns[n]
    BY <1>6, <2>1, Replaced
  <2> QED BY <1>3, <2>1, <2>2
<1>8. NodeIds' = NodeIds
  BY <1>7 DEF NodeIds
<1>9. /\ nodes'[k].value = Child(ret)
      /\ \A n \in NodeIds : /\ nodes'[n].next = nodes[n].next /\ nodes'[n].type = nodes[n].type
                            /\ n # k => nodes'[n].value = nodes[n].value
  BY <1>2, <1>6, <1>7 DEF SameLinks
<1> QED BY <1>1, <1>2, <1>3, <1>4, <1>5, <1>7, <1>8, <1>9 DEF k

(* An activation that returns: its list, or NULL, goes below its caller.   *)
LEMMA ReturnKeeps ==
  ASSUME NodesInv, NEW ns, SameLinks(ns), NEW c, NEW ret \in {NULL, Top.val},
         pc \notin {"start", "finish", "done", "text"},
         Return(c, ret, ns), ptr' \in {NULL} \cup NodeIds
  PROVE  NodesInv'
<1> DEFINE d == Len(stack)
           k == Caller(d)
<1>1. stack # << >> /\ stack \in Seq(Frames) /\ d \in Nat \ {0} /\ d \in 1 .. d
  BY ReturnDoes
<1>2. k \in NodeIds /\ Len(nodes) \in Nat \ {0} /\ ret \in {NULL} \cup NodeIds
  BY <1>1, Innermost DEF NodesInv
<1>3. pc' = IF d = 1 THEN "finish" ELSE "after"
  BY ReturnDoes
<1>4. /\ stack' \in Seq(Frames) /\ Len(stack') = d - 1
      /\ \A i \in 1 .. d - 1 : stack'[i] = stack[i] /\ Caller(i)' = Caller(i)
      /\ stack' = << >> <=> d = 1
  BY ReturnDoes
<1>5. IsNodes(nodes') /\ Len(nodes') = Len(nodes) /\ NodeIds' = NodeIds
  BY ReturnDoes
<1>6. /\ nodes'[k].value = Child(ret)
      /\ \A n \in NodeIds : /\ nodes'[n].next = nodes[n].next /\ nodes'[n].type = nodes[n].type
                            /\ n # k => nodes'[n].value = nodes[n].value
  BY ReturnDoes
<1> HIDE DEF k
<1>7. ControlInv'
  <2>1. pc' \in Pcs /\ (stack' = << >> <=> pc' \in {"start", "finish", "done"})
    BY <1>3, <1>4 DEF Pcs
  <2>2. ASSUME NEW i \in 1 .. Len(stack')
        PROVE  /\ stack'[i].val \in {NULL} \cup NodeIds
               /\ stack'[i].J \in {NULL} \cup NodeIds
               /\ Caller(i)' \in NodeIds
    <3>1. i \in 1 .. d - 1 /\ i \in 1 .. Len(stack)
      BY <1>1, <1>4
    <3> QED BY <1>4, <3>1 DEF NodesInv, ControlInv
  <2>3. pc' \in {"value", "text", "after"} => Top' \in Frames /\ (Top.J)' \in NodeIds
    <3>1. SUFFICES ASSUME d # 1 PROVE Top' \in Frames /\ (Top.J)' \in NodeIds
      BY <1>3
    <3>2. d - 1 \in 1 .. d - 1
      <4> HIDE DEF d
      <4> QED BY <1>1, <3>1
    <3>3. Top' = stack[d - 1] /\ Top' \in Frames
      <4>1. Top' = stack'[d - 1]
        BY <1>4 DEF Top
      <4> HIDE DEF d
      <4> QED BY <1>4, <3>2, <4>1
    <3>4. k = stack[d - 1].J
      BY <3>1 DEF k, Caller
    <3> QED BY <1>2, <3>3, <3>4
  <2>4. pc' \notin {"start", "loop", "key", "value", "text"}
    BY <1>3
  <2> QED BY <1>4, <1>5, <2>1, <2>2, <2>3, <2>4 DEF ControlInv
<1>8. TreeInv'
  <2>1. Tree(nodes)
    BY DEF NodesInv, TreeInv
  <2>2. ret # NULL => Loose(nodes, ret) /\ ret > k
    BY <1>1, <1>2 DEF NodesInv, TreeInv, Top, k
  <2>3. ret \in Nat /\ k \in 1 .. Len(nodes)
    BY <1>2 DEF NULL, NodeIds
  <2>4. Tree(nodes') /\ \A m : m # ret /\ Loose(nodes, m) => Loose(nodes', m)
    BY <1>5, <1>6, <2>1, <2>2, <2>3, TreeGiven DEF NodeIds
  <2>5. ASSUME NEW i \in 1 .. Len(stack'), stack'[i].val # NULL
        PROVE  Loose(nodes', stack'[i].val) /\ stack'[i].val > Caller(i)'
    <3>1. i \in 1 .. d - 1 /\ i \in 1 .. Len(stack) /\ i # d
      BY <1>1, <1>4
    <3>2. stack'[i].val = stack[i].val /\ Caller(i)' = Caller(i)
      BY <1>4, <3>1
    <3>3. Loose(nodes, stack[i].val) /\ stack[i].val > Caller(i)
      BY <2>5, <3>1, <3>2 DEF NodesInv, TreeInv
    <3>4. stack[i].val # ret
      BY <1>1, <2>5, <3>1, <3>2 DEF NodesInv, TreeInv, Top
    <3> QED BY <2>4, <3>2, <3>3, <3>4
  <2>6. \A i, j \in 1 .. Len(stack') :
          stack'[i].val # NULL /\ stack'[i].val = stack'[j].val => i = j
    <3>1. \A i \in 1 .. Len(stack') : i \in 1 .. Len(stack) /\ stack'[i] = stack[i]
      BY <1>1, <1>4
    <3> QED BY <3>1 DEF NodesInv, TreeInv
  <2> QED BY <2>4, <2>5, <2>6 DEF TreeInv
<1>9. UnionInv'
  <2>1. \A i \in 1 .. Len(stack') :
          i \in 1 .. Len(stack) /\ Caller(i)' = Caller(i) /\ Caller(i) \in NodeIds
    BY <1>1, <1>4 DEF NodesInv, ControlInv
  <2>2. nodes[k].type \in Containers
    BY <1>1 DEF NodesInv, UnionInv, k
  <2>3. Matches(nodes'[k])
    <3>1. nodes'[k].value[1] = "child" /\ nodes'[k].type \in Containers
      BY <1>2, <1>6, <2>2 DEF Child
    <3> QED BY <3>1 DEF Matches, Written, Containers
  <2>4. ASSUME NEW n \in NodeIds, ~Matches(nodes'[n])
        PROVE  \E i \in 1 .. Len(stack') : n = Caller(i)'
    <3>1. n # k
      BY <2>3, <2>4
    <3>2. nodes'[n].type = nodes[n].type /\ nodes'[n].value = nodes[n].value
      BY <1>6, <3>1
    <3>3. ~Matches(nodes[n])
      BY <2>4, <3>2 DEF Matches
    <3>4. PICK i \in 1 .. Len(stack) : n = Caller(i)
      BY <3>3 DEF NodesInv, UnionInv
    <3>5. i \in 1 .. d - 1
      BY <1>1, <3>1, <3>4 DEF k
    <3> QED BY <1>4, <3>4, <3>5
  <2>5. \A i \in 1 .. Len(stack') : nodes'[Caller(i)'].type \in Containers
    BY <1>6, <2>1 DEF NodesInv, UnionInv
  <2>6. pc' \notin {"loop", "key", "value", "text"}
    BY <1>3
  <2> QED BY <1>5, <2>4, <2>5, <2>6 DEF UnionInv
<1> QED BY <1>7, <1>8, <1>9 DEF NodesInv

-----------------------------------------------------------------------------
(* An assignment to a local of the innermost activation.                   *)
LEMMA LocalSet ==
  ASSUME NEW s \in Seq(Frames), s # << >>, NEW x \in Nat
  PROVE  /\ LET t == [s EXCEPT ![Len(s)].J = x]
            IN  /\ t \in Seq(Frames) /\ Len(t) = Len(s)
                /\ \A i \in 1 .. Len(s) - 1 : t[i] = s[i]
                /\ t[Len(s)].val = s[Len(s)].val /\ t[Len(s)].J = x
         /\ LET t == [s EXCEPT ![Len(s)].val = x]
            IN  /\ t \in Seq(Frames) /\ Len(t) = Len(s)
                /\ \A i \in 1 .. Len(s) - 1 : t[i] = s[i]
                /\ t[Len(s)].val = x /\ t[Len(s)].J = s[Len(s)].J
<1>1. Len(s) \in Nat \ {0} /\ Len(s) \in 1 .. Len(s) /\ s[Len(s)] \in Frames
  OBVIOUS
<1>2. ASSUME NEW f \in Frames
      PROVE  LET t == [s EXCEPT ![Len(s)] = f]
             IN  /\ t \in Seq(Frames) /\ Len(t) = Len(s)
                 /\ \A i \in 1 .. Len(s) - 1 : t[i] = s[i]
                 /\ t[Len(s)] = f
  BY <1>1
<1>3. LET f == [s[Len(s)] EXCEPT !.J = x]
      IN  f \in Frames /\ f.val = s[Len(s)].val /\ f.J = x
  BY <1>1 DEF Frames
<1>4. LET f == [s[Len(s)] EXCEPT !.val = x]
      IN  f \in Frames /\ f.val = x /\ f.J = s[Len(s)].J
  BY <1>1 DEF Frames
<1> QED BY <1>2, <1>3, <1>4

(* The nodes as they are have the links they have.                         *)
LEMMA NodesAreSame ==
  ASSUME NodesInv
  PROVE  SameLinks(nodes)
BY DEF NodesInv, ControlInv, SameLinks

(* A key links nothing: the tree is the same with it.                      *)
LEMMA KeyIsNoLink ==
  ASSUME NodesInv, ptr \in NodeIds, NEW x
  PROVE  SameLinks([nodes EXCEPT ![ptr].key = x])
<1> DEFINE r == [nodes[ptr] EXCEPT !.key = x]
<1>1. IsNodes(nodes) /\ ptr \in 1 .. Len(nodes) /\ IsNode(nodes[ptr])
  BY DEF NodesInv, ControlInv, IsNodes, NodeIds
<1>2. /\ IsNode(r) /\ r.value = nodes[ptr].value /\ r.next = nodes[ptr].next
      /\ r.type = nodes[ptr].type
  BY <1>1, KeyAssigned
<1> HIDE DEF r
<1>3. LET ms == [nodes EXCEPT ![ptr] = r]
      IN  /\ IsNodes(ms)
          /\ Len(ms) = Len(nodes)
          /\ \A n \in 1 .. Len(nodes) : ms[n] = IF n = ptr THEN r ELSE nodes[n]
  BY <1>1, <1>2, Replaced
<1>4. SameLinks([nodes EXCEPT ![ptr] = r])
  BY <1>2, <1>3 DEF SameLinks, NodeIds
<1> QED BY <1>4 DEF r

(* The step that expects a value of the node at p->ptr.                    *)
Awaits(ns) ==
  /\ nodes' = ns /\ pc' = "value" /\ ptr' = ptr
  /\ stack' = [stack EXCEPT ![Len(stack)].J = ptr]

(* What it changes: the innermost activation stands at the node.           *)
LEMMA AwaitsDoes ==
  ASSUME NodesInv, NEW ns, SameLinks(ns), pc \in {"loop", "key"}, Awaits(ns)
  PROVE  /\ Len(stack) \in Nat \ {0}
         /\ stack' \in Seq(Frames) /\ Len(stack') = Len(stack)
         /\ \A i \in 1 .. Len(stack) - 1 : stack'[i] = stack[i]
         /\ stack'[Len(stack)].val = stack[Len(stack)].val /\ stack'[Len(stack)].J = ptr
         /\ \A i \in 1 .. Len(stack) : Caller(i)' = Caller(i) /\ stack'[i].val = stack[i].val
<1> DEFINE d == Len(stack)
<1>1. stack # << >> /\ stack \in Seq(Frames) /\ ptr \in Nat /\ d \in Nat \ {0}
  BY Innermost DEF NodesInv, ControlInv, NodeIds
<1>2. /\ stack' \in Seq(Frames) /\ Len(stack') = d
      /\ \A i \in 1 .. d - 1 : stack'[i] = stack[i]
      /\ stack'[d].val = stack[d].val /\ stack'[d].J = ptr
  <2>1. LET t == [stack EXCEPT ![Len(stack)].J = ptr]
        IN  /\ t \in Seq(Frames) /\ Len(t) = Len(stack)
            /\ \A i \in 1 .. Len(stack) - 1 : t[i] = stack[i]
            /\ t[Len(stack)].val = stack[Len(stack)].val /\ t[Len(stack)].J = ptr
    BY <1>1, LocalSet
  <2> QED BY <2>1 DEF Awaits
<1>3. \A i \in 1 .. d : Caller(i)' = Caller(i) /\ stack'[i].val = stack[i].val
  BY <1>1, <1>2 DEF Caller
<1> QED BY <1>1, <1>2, <1>3

(* The value is expected: the activation remembers p->ptr, or returns.     *)
LEMMA ExpectKeeps ==
  ASSUME NodesInv, NEW ns, SameLinks(ns), NEW c, pc \in {"loop", "key"}, ExpectValue(c, ns)
  PROVE  NodesInv'
<1>1. /\ stack # << >> /\ stack \in Seq(Frames) /\ IsNodes(nodes) /\ ptr \in NodeIds
      /\ Len(stack) \in Nat \ {0} /\ Len(nodes) \in Nat \ {0}
      /\ Top.val \in {NULL} \cup NodeIds
  BY Innermost DEF NodesInv, ControlInv
<1>2. ASSUME NEW e, ReturnList(e, ns)
      PROVE  NodesInv'
  <2>1. Return(e, Top.val, ns) /\ ptr' \in {NULL} \cup NodeIds
    BY <1>1, <1>2 DEF ReturnList
  <2> QED BY <2>1, ReturnKeeps
<1>3. CASE Awaits(ns)
  <2> DEFINE d == Len(stack)
  <2>1. /\ stack' \in Seq(Frames) /\ Len(stack') = d
        /\ \A i \in 1 .. d - 1 : stack'[i] = stack[i]
        /\ stack'[d].val = stack[d].val /\ stack'[d].J = ptr
    BY <1>3, AwaitsDoes
  <2>2. \A i \in 1 .. d : Caller(i)' = Caller(i) /\ stack'[i].val = stack[i].val
    BY <1>3, AwaitsDoes
  <2>3. /\ nodes' = ns /\ pc' = "value" /\ ptr' = ptr
        /\ NodeIds' = NodeIds /\ Len(nodes') = Len(nodes)
    BY <1>3 DEF Awaits, NodeIds, SameLinks
  <2>4. ControlInv'
    <3>1. \A i \in 1 .. d : stack'[i].J \in {NULL} \cup NodeIds
      BY <1>1, <2>1 DEF NodesInv, ControlInv
    <3>2. stack' # << >>
      BY <1>1, <2>1
    <3>3. (Top.J)' = ptr' /\ (Top.J)' \in NodeIds
      BY <1>1, <2>1, <2>3 DEF Top
    <3>4. \A i \in 1 .. d : /\ stack'[i].val \in {NULL} \cup NodeIds
                            /\ Caller(i)' \in NodeIds
      BY <2>2 DEF NodesInv, ControlInv
    <3> QED BY <1>1, <2>1, <2>3, <3>1, <3>2, <3>3, <3>4
            DEF ControlInv, SameLinks, Pcs
  <2>5. TreeInv'
    <3>1. Tree(nodes') /\ \A m : Loose(nodes, m) => Loose(nodes', m)
      BY <2>3, TreeKept DEF SameLinks, NodesInv, TreeInv, NodeIds
    <3>2. \A i \in 1 .. d :
            stack'[i].val # NULL => Loose(nodes', stack'[i].val) /\ stack'[i].val > Caller(i)'
      BY <2>2, <3>1 DEF NodesInv, TreeInv
    <3>3. \A i, j \in 1 .. d :
            stack'[i].val # NULL /\ stack'[i].val = stack'[j].val => i = j
      BY <2>2 DEF NodesInv, TreeInv
    <3> QED BY <2>1, <3>1, <3>2, <3>3 DEF TreeInv
  <2>6. UnionInv'
    <3>1. \A n \in NodeIds : Matches(nodes'[n]) \/ \E i \in 1 .. d : n = Caller(i)'
      BY <2>2, <2>3 DEF NodesInv, UnionInv, SameLinks, Matches
    <3>2. \A i \in 1 .. d : nodes'[Caller(i)'].type \in Containers
      BY <2>2, <2>3 DEF NodesInv, UnionInv, ControlInv, SameLinks
    <3>3. \A i \in 1 .. d : ptr' # Caller(i)'
      BY <2>2, <2>3 DEF NodesInv, UnionInv
    <3>4. nodes'[ptr'].type = "JSON_NULL" /\ nodes'[ptr'].value = Uninit
      BY <1>1, <2>3 DEF NodesInv, UnionInv, SameLinks
    <3>5. pc' # "text"
      BY <2>3
    <3> QED BY <2>1, <2>3, <3>1, <3>2, <3>3, <3>4, <3>5 DEF UnionInv
  <2> QED BY <2>4, <2>5, <2>6 DEF NodesInv
<1>4. Awaits(ns) \/ \E e : ReturnList(e, ns)
  BY Zenon DEF ExpectValue, Awaits
<1> QED BY <1>2, <1>3, <1>4

(* The step that makes the first node of a list.                           *)
FirstNode ==
  /\ pc = "enter"
  /\ nodes' = Append(nodes, NewNode)
  /\ ptr' = Len(nodes) + 1
  /\ stack' = [stack EXCEPT ![Len(stack)].val = Len(nodes) + 1]
  /\ pc' = "loop"

(* What it changes: a node more, and the list of the innermost activation. *)
LEMMA FirstNodeDoes ==
  ASSUME NodesInv, FirstNode
  PROVE  /\ stack # << >> /\ stack \in Seq(Frames) /\ IsNodes(nodes)
         /\ Len(stack) \in Nat \ {0} /\ Len(nodes) \in Nat \ {0}
         /\ stack' \in Seq(Frames) /\ Len(stack') = Len(stack)
         /\ \A i \in 1 .. Len(stack) - 1 : stack'[i] = stack[i]
         /\ stack'[Len(stack)].val = Len(nodes) + 1
         /\ stack'[Len(stack)].J = stack[Len(stack)].J
         /\ IsNodes(nodes') /\ Len(nodes') = Len(nodes) + 1
         /\ \A n \in 1 .. Len(nodes) : nodes'[n] = nodes[n]
         /\ nodes'[Len(nodes) + 1] = NewNode
         /\ \A i \in 1 .. Len(stack) : Caller(i)' = Caller(i) /\ Caller(i) \in NodeIds
         /\ NodeIds' = 1 .. Len(nodes) + 1 /\ NodeIds = 1 .. Len(nodes)
<1> DEFINE d   == Len(stack)
           new == Len(nodes) + 1
<1>1. /\ stack # << >> /\ stack \in Seq(Frames) /\ IsNodes(nodes)
      /\ d \in Nat \ {0} /\ Len(nodes) \in Nat \ {0} /\ new \in Nat
  BY Innermost DEF NodesInv, ControlInv, FirstNode
<1>2. /\ stack' \in Seq(Frames) /\ Len(stack') = d
      /\ \A i \in 1 .. d - 1 : stack'[i] = stack[i]
      /\ stack'[d].val = new /\ stack'[d].J = stack[d].J
  <2>1. LET t == [stack EXCEPT ![Len(stack)].val = new]
        IN  /\ t \in Seq(Frames) /\ Len(t) = Len(stack)
            /\ \A i \in 1 .. Len(stack) - 1 : t[i] = stack[i]
            /\ t[Len(stack)].val = new /\ t[Len(stack)].J = stack[Len(stack)].J
    <3> HIDE DEF new
    <3> QED BY <1>1, LocalSet
  <2> QED BY <2>1 DEF FirstNode
<1>3. /\ IsNodes(nodes') /\ Len(nodes') = new
      /\ \A n \in 1 .. Len(nodes) : nodes'[n] = nodes[n]
      /\ nodes'[new] = NewNode
  BY <1>1, NewNodeTyped, NodeAppended DEF FirstNode
<1>4. \A i \in 1 .. d : Caller(i)' = Caller(i) /\ Caller(i) \in NodeIds
  BY <1>1, <1>2 DEF Caller, NodesInv, ControlInv
<1>5. NodeIds' = 1 .. new /\ NodeIds = 1 .. Len(nodes)
  BY <1>3 DEF NodeIds
<1> QED BY <1>1, <1>2, <1>3, <1>4, <1>5

(* The first node of a list: the activation's own until it returns it.     *)
LEMMA FirstNodeKeeps ==
  ASSUME NodesInv, FirstNode
  PROVE  NodesInv'
<1> DEFINE d   == Len(stack)
           new == Len(nodes) + 1
<1>1. /\ stack # << >> /\ stack \in Seq(Frames) /\ IsNodes(nodes)
      /\ d \in Nat \ {0} /\ Len(nodes) \in Nat \ {0} /\ new \in Nat
      /\ pc = "enter" /\ pc' = "loop" /\ ptr' = new
  BY FirstNodeDoes DEF FirstNode
<1>2. /\ stack' \in Seq(Frames) /\ Len(stack') = d
      /\ \A i \in 1 .. d - 1 : stack'[i] = stack[i]
      /\ stack'[d].val = new /\ stack'[d].J = stack[d].J
  BY FirstNodeDoes
<1>3. /\ IsNodes(nodes') /\ Len(nodes') = new
      /\ \A n \in 1 .. Len(nodes) : nodes'[n] = nodes[n]
      /\ nodes'[new] = NewNode
  BY FirstNodeDoes
<1>4. \A i \in 1 .. d : Caller(i)' = Caller(i) /\ Caller(i) \in NodeIds
  BY FirstNodeDoes
<1>5. NodeIds' = 1 .. new /\ NodeIds = 1 .. Len(nodes) /\ new > Len(nodes)
  BY <1>1, FirstNodeDoes
<1> HIDE DEF new
<1>6. \A i \in 1 .. d : i = d \/ i \in 1 .. d - 1
  BY <1>1
<1>7. ControlInv'
  <2>1. \A i \in 1 .. d : /\ stack'[i].val \in {NULL} \cup NodeIds'
                          /\ stack'[i].J \in {NULL} \cup NodeIds'
    <3>1. new \in NodeIds' /\ NodeIds \subseteq NodeIds'
      BY <1>1, <1>5
    <3>2. \A i \in 1 .. d : /\ stack[i].val \in {NULL} \cup NodeIds
                            /\ stack[i].J \in {NULL} \cup NodeIds
      BY DEF NodesInv, ControlInv
    <3> QED BY <1>2, <1>6, <3>1, <3>2
  <2>2. \A i \in 1 .. d : Caller(i)' \in NodeIds'
    BY <1>1, <1>4, <1>5
  <2>3. stack' # << >> /\ ptr' \in NodeIds'
    BY <1>1, <1>2, <1>5
  <2> QED BY <1>1, <1>2, <1>3, <2>1, <2>2, <2>3 DEF ControlInv, Pcs
<1>8. TreeInv'
  <2>1. /\ Tree(nodes') /\ Loose(nodes', new)
        /\ \A m : Loose(nodes, m) => Loose(nodes', m)
    BY <1>1, <1>3, TreeGrown DEF NodesInv, TreeInv, new
  <2>2. \A i \in 1 .. d :
          stack'[i].val # NULL => Loose(nodes', stack'[i].val) /\ stack'[i].val > Caller(i)'
    <3>1. new > Caller(d) /\ d \in 1 .. d
      BY <1>1, <1>4, <1>5
    <3> QED BY <1>2, <1>4, <1>6, <2>1, <3>1 DEF NodesInv, TreeInv
  <2>3. \A i, j \in 1 .. d :
          stack'[i].val # NULL /\ stack'[i].val = stack'[j].val => i = j
    <3>1. \A i \in 1 .. d : stack[i].val \in {NULL} \cup NodeIds
      BY DEF NodesInv, ControlInv
    <3>2. \A i \in 1 .. d - 1 : stack'[i].val # new
      BY <1>1, <1>2, <1>5, <3>1 DEF NULL
    <3> QED BY <1>2, <1>6, <3>2 DEF NodesInv, TreeInv
  <2> QED BY <1>2, <2>1, <2>2, <2>3 DEF TreeInv
<1>9. UnionInv'
  <2>1. Matches(NewNode)
    BY NewNodeTyped DEF Matches, Written
  <2>2. \A n \in 1 .. new : n = new \/ n \in NodeIds
    BY <1>1, <1>5 DEF new
  <2>3. \A n \in NodeIds : Matches(nodes[n]) \/ \E i \in 1 .. d : n = Caller(i)
    BY <1>1 DEF NodesInv, UnionInv
  <2>4. \A n \in NodeIds' : Matches(nodes'[n]) \/ \E i \in 1 .. d : n = Caller(i)'
    BY <1>3, <1>4, <1>5, <2>1, <2>2, <2>3
  <2>5. \A i \in 1 .. d : nodes'[Caller(i)'].type \in Containers
    BY <1>3, <1>4, <1>5 DEF NodesInv, UnionInv
  <2>6. \A i \in 1 .. d : ptr' # Caller(i)'
    BY <1>1, <1>4, <1>5
  <2>7. nodes'[ptr'].type = "JSON_NULL" /\ nodes'[ptr'].value = Uninit
    BY <1>1, <1>3, NewNodeTyped
  <2> QED BY <1>1, <1>2, <2>4, <2>5, <2>6, <2>7 DEF UnionInv
<1> QED BY <1>7, <1>8, <1>9 DEF NodesInv

(* What a comma changes: a node more, next to the activation's last one.   *)
LEMMA CommaDoes ==
  ASSUME NodesInv, NEW c, pc = "after", AfterComma(c)
  PROVE  /\ stack # << >> /\ stack \in Seq(Frames) /\ IsNodes(nodes) /\ Top.J \in NodeIds
         /\ Len(stack) \in Nat \ {0} /\ Len(nodes) \in Nat \ {0}
         /\ ptr' = Len(nodes) + 1 /\ pc' = "loop" /\ stack' = stack
         /\ IsNodes(nodes') /\ Len(nodes') = Len(nodes) + 1
         /\ nodes'[Len(nodes) + 1] = NewNode
         /\ \A n \in NodeIds :
              /\ nodes'[n].type = nodes[n].type /\ nodes'[n].value = nodes[n].value
              /\ nodes'[n].next = IF n = Top.J THEN Len(nodes) + 1 ELSE nodes[n].next
         /\ NodeIds' = 1 .. Len(nodes) + 1 /\ NodeIds = 1 .. Len(nodes)
         /\ \A i \in 1 .. Len(stack) : Caller(i)' = Caller(i) /\ Caller(i) \in NodeIds
<1> DEFINE new == Len(nodes) + 1
           J   == Top.J
           r   == [nodes[J] EXCEPT !.next = new]
           ms  == [nodes EXCEPT ![J] = r]
<1>1. /\ stack # << >> /\ stack \in Seq(Frames) /\ IsNodes(nodes) /\ J \in NodeIds
      /\ Len(stack) \in Nat \ {0} /\ Len(nodes) \in Nat \ {0} /\ new \in Nat
  BY Innermost DEF NodesInv, ControlInv
<1>2. nodes' = Append(ms, NewNode) /\ ptr' = new /\ pc' = "loop" /\ stack' = stack
  BY DEF AfterComma
<1>3. IsNode(r) /\ r.value = nodes[J].value /\ r.next = new /\ r.type = nodes[J].type
  <2>1. IsNode(nodes[J])
    BY <1>1 DEF IsNodes, NodeIds
  <2> HIDE DEF J, new
  <2> QED BY <2>1, NextAssigned
<1> HIDE DEF new, J, r
<1>4. /\ IsNodes(ms) /\ Len(ms) = Len(nodes)
      /\ \A n \in 1 .. Len(nodes) : ms[n] = IF n = J THEN r ELSE nodes[n]
  <2>1. J \in 1 .. Len(nodes)
    BY <1>1 DEF NodeIds
  <2> QED BY <1>1, <1>3, <2>1, Replaced
<1> HIDE DEF ms
<1>5. /\ IsNodes(nodes') /\ Len(nodes') = new
      /\ \A n \in 1 .. Len(nodes) : nodes'[n] = ms[n]
      /\ nodes'[new] = NewNode
  BY <1>2, <1>4, NewNodeTyped, NodeAppended DEF new
<1>6. NodeIds' = 1 .. new /\ NodeIds = 1 .. Len(nodes)
  BY <1>5 DEF NodeIds
<1>7. \A n \in NodeIds : /\ nodes'[n].type = nodes[n].type /\ nodes'[n].value = nodes[n].value
                         /\ nodes'[n].next = IF n = J THEN new ELSE nodes[n].next
  BY <1>3, <1>4, <1>5, <1>6
<1>8. \A i \in 1 .. Len(stack) : Caller(i)' = Caller(i) /\ Caller(i) \in NodeIds
  BY <1>2 DEF Caller, NodesInv, ControlInv
<1> QED BY <1>1, <1>2, <1>5, <1>6, <1>7, <1>8 DEF new, J

(* The node behind a comma: linked behind the one before it.               *)
LEMMA CommaKeeps ==
  ASSUME NodesInv, NEW c, pc = "after", AfterComma(c)
  PROVE  NodesInv'
<1> DEFINE d   == Len(stack)
           new == Len(nodes) + 1
           J   == Top.J
           ns  == Append(nodes, NewNode)
<1>1. /\ stack # << >> /\ stack \in Seq(Frames) /\ IsNodes(nodes) /\ J \in NodeIds
      /\ d \in Nat \ {0} /\ Len(nodes) \in Nat \ {0} /\ new \in Nat
  BY CommaDoes
<1>2. ptr' = new /\ pc' = "loop" /\ stack' = stack
  BY CommaDoes
<1>3. IsNodes(nodes') /\ Len(nodes') = new /\ nodes'[new] = NewNode
  BY CommaDoes
<1>4. \A n \in NodeIds : /\ nodes'[n].type = nodes[n].type /\ nodes'[n].value = nodes[n].value
                         /\ nodes'[n].next = IF n = J THEN new ELSE nodes[n].next
  BY CommaDoes
<1>5. NodeIds' = 1 .. new /\ NodeIds = 1 .. Len(nodes) /\ new > Len(nodes)
  BY <1>1, CommaDoes
<1>6. \A i \in 1 .. d : Caller(i)' = Caller(i) /\ Caller(i) \in NodeIds
  BY CommaDoes
<1> HIDE DEF new, J
<1>7. ControlInv'
  <2>1. NodeIds \subseteq NodeIds' /\ ptr' \in NodeIds'
    BY <1>1, <1>2, <1>5
  <2>2. \A i \in 1 .. Len(stack') : /\ stack'[i].val \in {NULL} \cup NodeIds'
                                    /\ stack'[i].J \in {NULL} \cup NodeIds'
                                    /\ Caller(i)' \in NodeIds'
    BY <1>2, <1>6, <2>1 DEF NodesInv, ControlInv
  <2> QED BY <1>1, <1>2, <1>3, <2>1, <2>2 DEF ControlInv, Pcs
<1>8. TreeInv'
  <2>1. /\ IsNodes(ns) /\ Len(ns) = new /\ \A n \in 1 .. Len(nodes) : ns[n] = nodes[n]
        /\ ns[new] = NewNode
    BY <1>1, NewNodeTyped, NodeAppended DEF new
  <2> HIDE DEF ns
  <2>2. Tree(ns) /\ Loose(ns, new) /\ \A m : Loose(nodes, m) => Loose(ns, m)
    BY <1>1, <2>1, TreeGrown DEF NodesInv, TreeInv, new
  <2>3. Tree(nodes') /\ \A m : m # new /\ Loose(ns, m) => Loose(nodes', m)
    <3>1. J \in 1 .. Len(ns) /\ new > J /\ Len(nodes') = Len(ns)
      BY <1>1, <1>3, <1>5, <2>1
    <3>2. \A n \in 1 .. Len(ns) : n = new \/ (n \in NodeIds /\ ns[n] = nodes[n])
      BY <1>1, <1>5, <2>1 DEF new
    <3>3. \A n \in 1 .. Len(ns) : n # J => nodes'[n].next = ns[n].next
      BY <1>3, <1>4, <2>1, <3>2
    <3>4. \A n \in 1 .. Len(ns) : nodes'[n].value = ns[n].value
      BY <1>3, <1>4, <2>1, <3>2
    <3>5. nodes'[J].next = new
      BY <1>1, <1>4
    <3> QED BY <1>1, <2>2, <3>1, <3>3, <3>4, <3>5, TreeLinked
  <2>4. \A i \in 1 .. d : stack[i].val # new
    BY <1>1, <1>5 DEF NodesInv, ControlInv, NULL
  <2>5. \A i \in 1 .. Len(stack') :
          stack'[i].val # NULL => Loose(nodes', stack'[i].val) /\ stack'[i].val > Caller(i)'
    BY <1>2, <1>6, <2>2, <2>3, <2>4 DEF NodesInv, TreeInv
  <2>6. \A i, j \in 1 .. Len(stack') :
          stack'[i].val # NULL /\ stack'[i].val = stack'[j].val => i = j
    BY <1>2 DEF NodesInv, TreeInv
  <2> QED BY <2>3, <2>5, <2>6 DEF TreeInv
<1>9. UnionInv'
  <2>1. \A n \in NodeIds : Matches(nodes'[n]) \/ \E i \in 1 .. d : n = Caller(i)'
    BY <1>4, <1>6 DEF NodesInv, UnionInv, Matches
  <2>2. Matches(nodes'[new])
    BY <1>3, NewNodeTyped DEF Matches, Written
  <2>3. \A n \in NodeIds' : n = new \/ n \in NodeIds
    BY <1>1, <1>5 DEF new
  <2>4. \A i \in 1 .. d : nodes'[Caller(i)'].type \in Containers
    BY <1>4, <1>6 DEF NodesInv, UnionInv
  <2>5. \A i \in 1 .. d : ptr' # Caller(i)'
    BY <1>1, <1>2, <1>5, <1>6
  <2>6. nodes'[ptr'].type = "JSON_NULL" /\ nodes'[ptr'].value = Uninit
    BY <1>2, <1>3, NewNodeTyped
  <2> QED BY <1>2, <2>1, <2>2, <2>3, <2>4, <2>5, <2>6 DEF UnionInv
<1> QED BY <1>7, <1>8, <1>9 DEF NodesInv

-----------------------------------------------------------------------------
(* What jsonParseNumber says it has written, on every path.                *)
LEMMA NumberMatches ==
  ASSUME NEW c
  PROVE  /\ jsonParseNumber(c).value[1] \in Written(jsonParseNumber(c).type)
         /\ jsonParseNumber(c).value[1] # "child"
<1>1. ASSUME NEW r
      PROVE  /\ IntOf(r).value[1] = "int" /\ IntOf(r).type = "JSON_INT"
             /\ FloatOf(r).value[1] = "float" /\ FloatOf(r).type = "JSON_FLOAT"
  BY DEF IntOf, FloatOf
<1>2. /\ Written("JSON_INT") = {"int"} /\ Written("JSON_FLOAT") = {"float"}
      /\ Written("JSON_NULL") = {"uninit"}
  BY DEF Written
<1>3. \/ \E r : jsonParseNumber(c) = IntOf(r)
      \/ \E r : jsonParseNumber(c) = FloatOf(r)
      \/ /\ jsonParseNumber(c).type = "JSON_NULL"
         /\ jsonParseNumber(c).value = <<"uninit">>
  BY DEF jsonParseNumber
<1>4. <<"uninit">>[1] = "uninit"
  OBVIOUS
<1> QED BY <1>1, <1>2, <1>3, <1>4

(* The node at p->ptr gets a type and a value.                             *)
LEMMA NodeSet ==
  ASSUME NodesInv, ptr \in NodeIds, NEW type, NEW value, SetNode(type, value)
  PROVE  /\ IsNodes(nodes') /\ Len(nodes') = Len(nodes) /\ NodeIds' = NodeIds
         /\ \A n \in NodeIds : n # ptr => nodes'[n] = nodes[n]
         /\ nodes'[ptr].type = type /\ nodes'[ptr].value = value
         /\ nodes'[ptr].next = nodes[ptr].next
         /\ value = nodes[ptr].value \/ value[1] # "child" =>
              Tree(nodes') /\ \A m : Loose(nodes, m) => Loose(nodes', m)
<1> DEFINE q  == [nodes[ptr] EXCEPT !.type = type]
           r  == [q EXCEPT !.value = value]
           ms == [nodes EXCEPT ![ptr] = q]
<1>1. IsNodes(nodes) /\ ptr \in 1 .. Len(nodes) /\ NodeIds = 1 .. Len(nodes)
  BY DEF NodesInv, ControlInv, NodeIds
<1>2. IsNode(q) /\ q.next = nodes[ptr].next /\ q.type = type
  <2>1. IsNode(nodes[ptr])
    BY <1>1 DEF IsNodes
  <2> QED BY <2>1, TypeAssigned
<1> HIDE DEF q
<1>3. IsNode(r) /\ r.value = value /\ r.next = nodes[ptr].next /\ r.type = type
  BY <1>2, ValueAssigned
<1>4. /\ IsNodes(ms) /\ Len(ms) = Len(nodes)
      /\ \A n \in 1 .. Len(nodes) : ms[n] = IF n = ptr THEN q ELSE nodes[n]
  BY <1>1, <1>2, Replaced
<1>5. nodes' = [ms EXCEPT ![ptr].value = value]
  BY Zenon DEF SetNode, q
<1> HIDE DEF ms
<1>6. nodes' = [ms EXCEPT ![ptr] = r]
  BY <1>1, <1>4, <1>5
<1> HIDE DEF r
<1>7. /\ IsNodes(nodes') /\ Len(nodes') = Len(nodes)
      /\ \A n \in 1 .. Len(nodes) : nodes'[n] = IF n = ptr THEN r ELSE ms[n]
  <2>1. ptr \in 1 .. Len(ms)
    BY <1>1, <1>4
  <2>2. LET ks == [ms EXCEPT ![ptr] = r]
        IN  /\ IsNodes(ks)
            /\ Len(ks) = Len(ms)
            /\ \A n \in 1 .. Len(ms) : ks[n] = IF n = ptr THEN r ELSE ms[n]
    BY <1>3, <1>4, <2>1, Replaced
  <2> QED BY <1>4, <1>6, <2>2
<1>8. \A n \in NodeIds : n # ptr => nodes'[n] = nodes[n]
  BY <1>1, <1>4, <1>7
<1>9. nodes'[ptr] = r
  BY <1>1, <1>7
<1>10. ASSUME value = nodes[ptr].value \/ value[1] # "child"
       PROVE  Tree(nodes') /\ \A m : Loose(nodes, m) => Loose(nodes', m)
  <2>1. \A n \in 1 .. Len(nodes) : /\ nodes'[n].next = nodes[n].next
                                   /\ \/ nodes'[n].value = nodes[n].value
                                      \/ nodes'[n].value[1] # "child"
    BY <1>1, <1>3, <1>8, <1>9, <1>10
  <2> QED BY <1>7, <2>1, TreeKept DEF NodesInv, TreeInv
<1> QED BY <1>1, <1>3, <1>7, <1>8, <1>9, <1>10 DEF NodeIds

(* The value of the node at p->ptr is written, or is what jsonNew left and *)
(* the type promises no more; or it is a text, to be written later.        *)
LEMMA SetKeeps ==
  ASSUME NodesInv, pc \in {"value", "text"}, UNCHANGED <<stack, ptr>>,
         NEW type, NEW value, SetNode(type, value),
         value = nodes[ptr].value \/ value[1] # "child",
         \/ pc' = "after" /\ value[1] \in Written(type)
         \/ pc' = "text" /\ type \in {"JSON_STRING", "JSON_STRNUM"}
  PROVE  NodesInv'
<1>1. stack # << >> /\ ptr \in NodeIds /\ pc' \in {"text", "after"}
  BY DEF NodesInv, ControlInv
<1>2. /\ IsNodes(nodes') /\ Len(nodes') = Len(nodes) /\ NodeIds' = NodeIds
      /\ \A n \in NodeIds : n # ptr => nodes'[n] = nodes[n]
      /\ nodes'[ptr].type = type /\ nodes'[ptr].value = value
      /\ Tree(nodes') /\ \A m : Loose(nodes, m) => Loose(nodes', m)
  BY <1>1, NodeSet
<1>3. \A i \in 1 .. Len(stack) : Caller(i)' = Caller(i)
  BY DEF Caller
<1>4. ControlInv'
  BY <1>1, <1>2, <1>3 DEF NodesInv, ControlInv, Pcs, Top
<1>5. TreeInv'
  BY <1>2, <1>3 DEF NodesInv, TreeInv
<1>6. UnionInv'
  <2>1. \A i \in 1 .. Len(stack) : ptr # Caller(i) /\ Caller(i) \in NodeIds
    BY DEF NodesInv, UnionInv, ControlInv
  <2>2. \A i \in 1 .. Len(stack) : nodes'[Caller(i)'].type \in Containers
    BY <1>2, <1>3, <2>1 DEF NodesInv, UnionInv
  <2>3. Matches(nodes'[ptr]) \/ (pc' = "text" /\ ptr = ptr')
    BY <1>2 DEF Matches
  <2>4. ASSUME NEW n \in NodeIds, n # ptr
        PROVE  Matches(nodes'[n]) \/ \E i \in 1 .. Len(stack) : n = Caller(i)'
    BY <1>2, <1>3, <2>4 DEF NodesInv, UnionInv
  <2>5. \A n \in NodeIds' : \/ Matches(nodes'[n])
                            \/ \E i \in 1 .. Len(stack') : n = Caller(i)'
                            \/ pc' = "text" /\ n = ptr'
    BY <1>2, <2>3, <2>4
  <2>6. pc' = "text" => nodes'[ptr'].type \in {"JSON_STRING", "JSON_STRNUM"}
    BY <1>2
  <2>7. \A i \in 1 .. Len(stack') : ptr' # Caller(i)'
    BY <1>3, <2>1
  <2>8. \A i \in 1 .. Len(stack') : nodes'[Caller(i)'].type \in Containers
    BY <2>2
  <2> QED BY <1>1, <2>5, <2>6, <2>7, <2>8 DEF UnionInv
<1> QED BY <1>4, <1>5, <1>6 DEF NodesInv

(* What a container's beginning changes: the node at p->ptr has its type   *)
(* and calls one activation more.                                          *)
LEMMA ContainerDoes ==
  ASSUME NodesInv, pc = "value", UNCHANGED ptr,
         NEW fn \in {"object", "array"}, NEW type \in Containers, ParseContainer(fn, type),
         NEW d \in Nat, d = Len(stack)
  PROVE  /\ stack # << >> /\ stack \in Seq(Frames) /\ ptr \in NodeIds
         /\ d \in Nat \ {0} /\ pc' = "enter"
         /\ IsNodes(nodes') /\ Len(nodes') = Len(nodes) /\ NodeIds' = NodeIds
         /\ \A n \in NodeIds : n # ptr => nodes'[n] = nodes[n]
         /\ nodes'[ptr].type = type /\ nodes'[ptr].value = nodes[ptr].value
         /\ nodes'[ptr].next = nodes[ptr].next
         /\ Tree(nodes') /\ \A m : Loose(nodes, m) => Loose(nodes', m)
         /\ stack' \in Seq(Frames) /\ Len(stack') = d + 1
         /\ \A i \in 1 .. d : stack'[i] = stack[i]
         /\ stack'[d + 1].val = NULL /\ stack'[d + 1].J = NULL
         /\ \A i \in 1 .. d : Caller(i)' = Caller(i) /\ Caller(i) \in NodeIds
         /\ Caller(d + 1)' = ptr
<1>1. /\ stack # << >> /\ stack \in Seq(Frames) /\ ptr \in NodeIds /\ d \in Nat \ {0}
      /\ Top.J \in NodeIds
  BY DEF NodesInv, ControlInv
<1>2. /\ IsNodes(nodes') /\ Len(nodes') = Len(nodes) /\ NodeIds' = NodeIds
      /\ \A n \in NodeIds : n # ptr => nodes'[n] = nodes[n]
      /\ nodes'[ptr].type = type /\ nodes'[ptr].value = nodes[ptr].value
      /\ nodes'[ptr].next = nodes[ptr].next
      /\ Tree(nodes') /\ \A m : Loose(nodes, m) => Loose(nodes', m)
  BY <1>1, NodeSet DEF ParseContainer
<1>3. /\ stack' \in Seq(Frames) /\ Len(stack') = d + 1
      /\ \A i \in 1 .. d : stack'[i] = stack[i]
      /\ stack'[d + 1].val = NULL /\ stack'[d + 1].J = NULL
  <2>1. Frame(fn) \in Frames /\ Frame(fn).val = NULL /\ Frame(fn).J = NULL
    BY DEF Frame, Frames, NULL
  <2> QED BY <1>1, <2>1 DEF ParseContainer
<1>4. /\ \A i \in 1 .. d : Caller(i)' = Caller(i) /\ Caller(i) \in NodeIds
      /\ Caller(d + 1)' = ptr
  <2>1. \A i \in 1 .. d : i # 1 => i - 1 \in 1 .. d
    BY <1>1
  <2>2. d \in 1 .. d /\ d + 1 # 1 /\ d + 1 - 1 = d
    BY <1>1
  <2>3. Caller(d + 1)' = stack'[d].J
    BY <2>2 DEF Caller
  <2>4. \A i \in 1 .. d : Caller(i)' = Caller(i)
    BY <1>3, <2>1 DEF Caller
  <2>5. stack[d].J = ptr
    BY DEF NodesInv, ControlInv, Top
  <2>6. \A i \in 1 .. d : Caller(i) \in NodeIds
    BY DEF NodesInv, ControlInv
  <2> QED BY <1>3, <2>2, <2>3, <2>4, <2>5, <2>6
<1>5. pc' = "enter"
  BY DEF ParseContainer
<1> QED BY <1>1, <1>2, <1>3, <1>4, <1>5

(* A container begins: the node at p->ptr is its caller.                   *)
LEMMA ContainerKeeps ==
  ASSUME NodesInv, pc = "value", UNCHANGED ptr,
         NEW fn \in {"object", "array"}, NEW type \in Containers, ParseContainer(fn, type)
  PROVE  NodesInv'
<1> PICK d \in Nat : d = Len(stack)
  BY DEF NodesInv, ControlInv
<1>1. stack # << >> /\ stack \in Seq(Frames) /\ ptr \in NodeIds /\ d \in Nat \ {0}
  BY ContainerDoes
<1>2. /\ IsNodes(nodes') /\ Len(nodes') = Len(nodes) /\ NodeIds' = NodeIds
      /\ \A n \in NodeIds : n # ptr => nodes'[n] = nodes[n]
      /\ nodes'[ptr].type = type
      /\ Tree(nodes') /\ \A m : Loose(nodes, m) => Loose(nodes', m)
  BY ContainerDoes
<1>3. /\ stack' \in Seq(Frames) /\ Len(stack') = d + 1
      /\ \A i \in 1 .. d : stack'[i] = stack[i]
      /\ stack'[d + 1].val = NULL /\ stack'[d + 1].J = NULL
  BY ContainerDoes
<1>4. /\ \A i \in 1 .. d : Caller(i)' = Caller(i) /\ Caller(i) \in NodeIds
      /\ Caller(d + 1)' = ptr
  BY ContainerDoes
<1>5. \A i \in 1 .. d + 1 : i = d + 1 \/ i \in 1 .. d
  BY <1>1
<1>6. ControlInv'
  <2>1. \A i \in 1 .. d + 1 : /\ stack'[i].val \in {NULL} \cup NodeIds
                              /\ stack'[i].J \in {NULL} \cup NodeIds
                              /\ Caller(i)' \in NodeIds
    <3>1. \A i \in 1 .. d : /\ stack[i].val \in {NULL} \cup NodeIds
                            /\ stack[i].J \in {NULL} \cup NodeIds
      BY DEF NodesInv, ControlInv
    <3> QED BY <1>1, <1>3, <1>4, <1>5, <3>1
  <2>2. stack' # << >> /\ pc' = "enter"
    BY <1>1, <1>3 DEF ParseContainer
  <2> QED BY <1>1, <1>2, <1>3, <2>1, <2>2 DEF ControlInv, Pcs
<1>7. TreeInv'
  <2>1. \A i \in 1 .. d + 1 :
          stack'[i].val # NULL => i \in 1 .. d /\ stack'[i].val = stack[i].val
    BY <1>3, <1>5
  <2>2. \A i \in 1 .. d + 1 :
          stack'[i].val # NULL => Loose(nodes', stack'[i].val) /\ stack'[i].val > Caller(i)'
    BY <1>2, <1>4, <2>1 DEF NodesInv, TreeInv
  <2>3. \A i, j \in 1 .. d + 1 :
          stack'[i].val # NULL /\ stack'[i].val = stack'[j].val => i = j
    BY <2>1 DEF NodesInv, TreeInv
  <2> QED BY <1>2, <1>3, <2>2, <2>3 DEF TreeInv
<1>8. UnionInv'
  <2>1. \A i \in 1 .. d : ptr # Caller(i)
    BY DEF NodesInv, UnionInv
  <2>2. d + 1 \in 1 .. d + 1 /\ \A i \in 1 .. d : i \in 1 .. d + 1
    BY <1>1
  <2>3. ASSUME NEW n \in NodeIds, n # ptr
        PROVE  Matches(nodes'[n]) \/ \E i \in 1 .. d + 1 : n = Caller(i)'
    <3>1. Matches(nodes[n]) \/ \E i \in 1 .. d : n = Caller(i)
      BY DEF NodesInv, UnionInv
    <3> QED BY <1>2, <1>4, <2>2, <2>3, <3>1
  <2>4. \A n \in NodeIds' : Matches(nodes'[n]) \/ \E i \in 1 .. d + 1 : n = Caller(i)'
    BY <1>2, <1>4, <2>2, <2>3
  <2>5. \A i \in 1 .. d + 1 : nodes'[Caller(i)'].type \in Containers
    <3>1. \A i \in 1 .. d : nodes[Caller(i)].type \in Containers
      BY DEF NodesInv, UnionInv
    <3> QED BY <1>2, <1>4, <1>5, <2>1, <3>1
  <2>6. pc' = "enter"
    BY DEF ParseContainer
  <2> QED BY <1>3, <2>4, <2>5, <2>6 DEF UnionInv
<1> QED BY <1>6, <1>7, <1>8 DEF NodesInv

-----------------------------------------------------------------------------
(* The first node, and the outermost activation if the text has a bracket. *)
LEMMA BeginKeeps ==
  ASSUME NodesInv, Begin
  PROVE  NodesInv'
<1>1. /\ stack = << >> /\ Len(stack) = 0 /\ nodes = << >> /\ IsNodes(nodes)
      /\ ptr = NULL /\ ptr' = NULL
  <2>1. stack = << >> /\ nodes = << >> /\ ptr \in {NULL} \cup NodeIds /\ ptr' = ptr
    BY DEF NodesInv, ControlInv, Begin
  <2> QED BY <2>1 DEF NodeIds, NodesInv, ControlInv
<1>2. ASSUME NEW r, IsNode(r), r.value[1] = "uninit", r.next = NULL, nodes' = <<r>>
      PROVE  /\ IsNodes(nodes') /\ Len(nodes') = 1 /\ nodes'[1] = r /\ NodeIds' = {1}
             /\ Tree(nodes')
  <2>1. nodes' \in Seq({r}) /\ Len(nodes') = 1 /\ nodes'[1] = r
    BY <1>2
  <2>2. IsNodes(nodes') /\ NodeIds' = {1}
    BY <1>2, <2>1 DEF IsNodes, NodeIds
  <2>3. \A m : ~Leads(nodes'[1], m)
    BY <1>2, <2>1 DEF Leads
  <2>4. Tree(nodes')
    BY <1>2, <2>1, <2>3 DEF Tree
  <2> QED BY <2>1, <2>2, <2>4
<1>3. ASSUME NEW fn \in {"object", "array"}, NEW type \in Containers, NEW c,
             BeginWith(fn, type, c)
      PROVE  NodesInv'
  <2> DEFINE r == [NewNode EXCEPT !.type = type]
  <2>1. IsNode(r) /\ r.value[1] = "uninit" /\ r.next = NULL /\ r.type = type
    BY NewNodeTyped, TypeAssigned
  <2>2. nodes' = <<r>> /\ stack' = <<Frame(fn)>> /\ pc' = "enter"
    BY <1>3 DEF BeginWith
  <2> HIDE DEF r
  <2>3. /\ IsNodes(nodes') /\ Len(nodes') = 1 /\ nodes'[1] = r /\ NodeIds' = {1}
        /\ Tree(nodes')
    BY <1>2, <2>1, <2>2
  <2>4. Frame(fn) \in Frames /\ Frame(fn).val = NULL /\ Frame(fn).J = NULL
    BY DEF Frame, Frames, NULL
  <2>5. /\ stack' \in Seq(Frames) /\ Len(stack') = 1 /\ stack' # << >>
        /\ \A i \in 1 .. Len(stack') : i = 1 /\ stack'[i].val = NULL /\ stack'[i].J = NULL
    BY <2>2, <2>4
  <2>6. \A i \in 1 .. Len(stack') : Caller(i)' = 1
    BY <2>5 DEF Caller, Root
  <2>7. ControlInv'
    BY <1>1, <2>2, <2>3, <2>5, <2>6 DEF ControlInv, Pcs
  <2>8. TreeInv'
    BY <2>3, <2>5 DEF TreeInv
  <2>9. UnionInv'
    BY <2>1, <2>2, <2>3, <2>5, <2>6 DEF UnionInv
  <2> QED BY <2>7, <2>8, <2>9 DEF NodesInv
<1>4. CASE nodes' = nodes /\ stack' = stack /\ pc' = "done"
  <2>1. NodeIds' = {} /\ Tree(nodes')
    BY <1>1, <1>4 DEF NodeIds, Tree
  <2>2. ControlInv'
    BY <1>1, <1>4 DEF NodesInv, ControlInv, Pcs
  <2>3. TreeInv' /\ UnionInv'
    BY <1>1, <1>4, <2>1 DEF TreeInv, UnionInv
  <2> QED BY <2>2, <2>3 DEF NodesInv
<1>5. CASE nodes' = <<NewNode>> /\ stack' = stack /\ pc' = "finish"
  <2>1. /\ IsNodes(nodes') /\ Len(nodes') = 1 /\ nodes'[1] = NewNode /\ NodeIds' = {1}
        /\ Tree(nodes')
    BY <1>2, <1>5, NewNodeTyped
  <2>2. ControlInv'
    BY <1>1, <1>5, <2>1 DEF NodesInv, ControlInv, Pcs
  <2>3. TreeInv'
    BY <1>1, <1>5, <2>1 DEF TreeInv
  <2>4. Matches(NewNode)
    BY NewNodeTyped DEF Matches, Written
  <2>5. UnionInv'
    BY <1>1, <1>5, <2>1, <2>4 DEF UnionInv
  <2> QED BY <2>2, <2>3, <2>5 DEF NodesInv
<1> QED BY <1>3, <1>4, <1>5, Zenon DEF Begin, Containers

(* Where an activation stands is as before, so is everything it looks at.  *)
LEMMA StandsKeeps ==
  ASSUME NodesInv, UNCHANGED <<stack, nodes, ptr>>,
         \/ pc' = pc
         \/ pc = "loop" /\ pc' = "key"
         \/ pc = "finish" /\ pc' = "done"
  PROVE  NodesInv'
<1>1. NodeIds' = NodeIds /\ \A i : Caller(i)' = Caller(i)
  BY DEF NodeIds, Caller
<1>2. ControlInv'
  BY <1>1 DEF NodesInv, ControlInv, Pcs, Top
<1>3. TreeInv'
  BY <1>1 DEF NodesInv, TreeInv
<1>4. UnionInv'
  BY <1>1 DEF NodesInv, UnionInv
<1> QED BY <1>2, <1>3, <1>4 DEF NodesInv

(* jsonParseValue writes the type and the union of the one node at p->ptr. *)
LEMMA ValueKeeps ==
  ASSUME NodesInv, Value
  PROVE  NodesInv'
<1>1. pc = "value" /\ ptr' = ptr /\ ptr \in NodeIds
  BY DEF Value, NodesInv, ControlInv
<1>2. nodes[ptr].type = "JSON_NULL" /\ nodes[ptr].value = Uninit /\ Uninit[1] = "uninit"
  BY <1>1 DEF NodesInv, UnionInv, Uninit
<1>3. Written("JSON_NULL") = {"uninit"} /\ Written("JSON_BOOL") = {"bool"}
  BY DEF Written
<1>4. CASE ParseNumber
  <2> DEFINE r == jsonParseNumber(cur)
  <2>1. r.value[1] \in Written(r.type) /\ r.value[1] # "child"
    BY NumberMatches
  <2>2. SetNode(r.type, r.value) /\ pc' = "after" /\ stack' = stack
    BY <1>4 DEF ParseNumber
  <2> HIDE DEF r
  <2> QED BY <1>1, <2>1, <2>2, SetKeeps
<1>5. ASSUME NEW type \in {"JSON_STRING", "JSON_STRNUM"}, ParseText(type)
      PROVE  NodesInv'
  <2>1. SetNode(type, nodes[ptr].value) /\ pc' = "text" /\ stack' = stack
    BY <1>5 DEF ParseText
  <2> QED BY <1>1, <2>1, SetKeeps
<1>6. CASE ParseNull
  <2>1. SetNode("JSON_NULL", nodes[ptr].value) /\ pc' = "after" /\ stack' = stack
    BY <1>6 DEF ParseNull
  <2> QED BY <1>1, <1>2, <1>3, <2>1, SetKeeps
<1>7. CASE ParseBool
  <2>1. /\ SetNode("JSON_BOOL", <<"bool", jsonParseBool.bool>>)
        /\ pc' = "after" /\ stack' = stack
    BY <1>7 DEF ParseBool
  <2>2. /\ <<"bool", jsonParseBool.bool>>[1] = "bool"
        /\ <<"bool", jsonParseBool.bool>>[1] # "child"
    OBVIOUS
  <2> QED BY <1>1, <1>3, <2>1, <2>2, SetKeeps
<1>8. CASE ParseObject
  BY <1>1, <1>8, ContainerKeeps DEF ParseObject, Containers
<1>9. CASE ParseArray
  BY <1>1, <1>9, ContainerKeeps DEF ParseArray, Containers
<1> QED BY <1>4, <1>5, <1>6, <1>7, <1>8, <1>9 DEF Value, ParseStrnum, ParseString

(* Every step keeps the invariant.                                         *)
LEMMA StepKeeps ==
  ASSUME NodesInv, [Next]_vars
  PROVE  NodesInv'
<1>1. SameLinks(nodes) /\ ptr \in {NULL} \cup NodeIds
  BY NodesAreSame DEF NodesInv, ControlInv
<1>2. ASSUME NEW c, Return(c, NULL, nodes), UNCHANGED ptr,
             pc \notin {"start", "finish", "done", "text"}
      PROVE  NodesInv'
  BY <1>1, <1>2, ReturnKeeps
<1>3. ASSUME NEW c, ReturnList(c, nodes), pc \notin {"start", "finish", "done", "text"}
      PROVE  NodesInv'
  <2>1. stack # << >>
    BY <1>3 DEF NodesInv, ControlInv
  <2>2. ptr' \in {NULL} \cup NodeIds
    BY <1>1, <1>3, <2>1, Innermost DEF ReturnList, NodesInv
  <2> QED BY <1>1, <1>3, <2>2, ReturnKeeps DEF ReturnList
<1>4. CASE Begin
  BY <1>4, BeginKeeps
<1>5. CASE Enter
  <2>1. pc = "enter"
    BY <1>5 DEF Enter
  <2>2. \/ \E c : Return(c, NULL, nodes) /\ UNCHANGED ptr
        \/ FirstNode
    BY <1>5, Zenon DEF Enter, FirstNode
  <2> QED BY <1>2, <2>1, <2>2, FirstNodeKeeps
<1>6. CASE Element
  <2>1. pc = "loop"
    BY <1>6 DEF Element
  <2>2. \/ \E c : Return(c, NULL, nodes) /\ UNCHANGED ptr
        \/ \E c : ExpectValue(c, nodes)
    BY <1>6, Zenon DEF Element
  <2> QED BY <1>1, <1>2, <2>1, <2>2, ExpectKeeps
<1>7. CASE Member
  <2>1. pc = "loop" /\ UNCHANGED ptr
    BY <1>7 DEF Member
  <2>2. \/ \E c : Return(c, NULL, nodes)
        \/ pc' = "key" /\ UNCHANGED <<stack, nodes>>
    BY <1>7, Zenon DEF Member
  <2> QED BY <1>2, <2>1, <2>2, StandsKeeps
<1>8. CASE Key
  <2> DEFINE ns == [nodes EXCEPT ![ptr].key = ReturnedText]
  <2>1. pc = "key" /\ ptr \in NodeIds
    BY <1>8 DEF Key, NodesInv, ControlInv
  <2>2. SameLinks(ns)
    BY <2>1, KeyIsNoLink
  <2>3. \/ \E c : Return(c, NULL, ns) /\ UNCHANGED ptr
        \/ \E c : ExpectValue(c, ns)
    BY <1>8, Zenon DEF Key
  <2> HIDE DEF ns
  <2> QED BY <1>1, <2>1, <2>2, <2>3, ReturnKeeps, ExpectKeeps
<1>9. CASE Value
  BY <1>9, ValueKeeps
<1>10. CASE TextValue
  <2>1. /\ pc = "text" /\ ptr' = ptr /\ stack' = stack /\ pc' = "after" /\ ptr \in NodeIds
        /\ SetNode(nodes[ptr].type, ReturnedText)
    BY <1>10 DEF TextValue, NodesInv, ControlInv
  <2>2. ReturnedText[1] \in {"text", "null"}
    BY DEF ReturnedText, Text, NullText
  <2>3. nodes[ptr].type \in {"JSON_STRING", "JSON_STRNUM"}
    BY <2>1 DEF NodesInv, UnionInv
  <2>4. ReturnedText[1] \in Written(nodes[ptr].type) /\ ReturnedText[1] # "child"
    BY <2>2, <2>3 DEF Written
  <2> QED BY <2>1, <2>4, SetKeeps
<1>11. CASE AfterValue
  <2>1. pc = "after"
    BY <1>11 DEF AfterValue
  <2>2. \/ \E c : Return(c, NULL, nodes) /\ UNCHANGED ptr
        \/ \E c : ReturnList(c, nodes)
        \/ \E c : AfterComma(c)
    BY <1>11, Zenon DEF AfterValue
  <2> QED BY <1>2, <1>3, <2>1, <2>2, CommaKeeps
<1>12. CASE Finish
  BY <1>12, StandsKeeps DEF Finish
<1>13. CASE StringRuns
  BY <1>13, StandsKeeps DEF StringRuns, parserVars
<1>14. CASE UNCHANGED vars
  BY <1>14, StandsKeeps DEF vars, parserVars
<1> QED BY <1>4, <1>5, <1>6, <1>7, <1>8, <1>9, <1>10, <1>11, <1>12, <1>13, <1>14 DEF Next

(* Before the call there is no node and no activation.                     *)
LEMMA NodesBegin ==
  ASSUME Init
  PROVE  NodesInv
<1>1. /\ pc = "start" /\ stack = << >> /\ nodes = << >> /\ ptr = NULL
      /\ Len(stack) = 0 /\ NodeIds = {} /\ IsNodes(nodes)
  BY DEF Init, NodeIds, IsNodes
<1>2. ControlInv
  BY <1>1 DEF ControlInv, Pcs
<1>3. TreeInv /\ UnionInv
  BY <1>1 DEF TreeInv, UnionInv, Tree
<1> QED BY <1>2, <1>3 DEF NodesInv

(* The inductive invariant: activations that find the nodes they look at,  *)
(* lists that hang together, unions that match their types.                *)
THEOREM NodesInvariant == Spec => []NodesInv
<1>1. Init => NodesInv
  BY NodesBegin
<1>2. NodesInv /\ [Next]_vars => NodesInv'
  BY StepKeeps
<1> QED BY <1>1, <1>2, PTL DEF Spec

(* A finished result has all its unions written.                           *)
LEMMA FinishedMatches ==
  ASSUME NodesInv
  PROVE  UnionMatchesType
<1> SUFFICES ASSUME Finished, NEW n \in NodeIds
             PROVE  nodes[n].value[1] \in Written(nodes[n].type)
  BY DEF UnionMatchesType
<1>1. pc = "done" /\ stack = << >> /\ Len(stack) = 0
  BY DEF Finished, NodesInv, ControlInv
<1> QED BY <1>1 DEF NodesInv, UnionInv, Matches

(* What hangs below the root is a tree, in the words of TreeShaped.        *)
LEMMA TreeInWords ==
  ASSUME NodesInv
  PROVE  /\ \A n \in NodeIds : \A m \in PointsTo(n) : m > n /\ m \in NodeIds
         /\ \A n, m \in NodeIds : n # m => PointsTo(n) \cap PointsTo(m) = {}
         /\ \A n \in NodeIds : nodes[n].next # NULL => nodes[n].value # Child(nodes[n].next)
<1>1. Tree(nodes)
  BY DEF NodesInv, TreeInv
<1>2. ASSUME NEW n \in NodeIds, NEW m \in PointsTo(n)
      PROVE  Leads(nodes[n], m)
  BY <1>2 DEF PointsTo, Leads
<1>3. \A n \in NodeIds : \A m \in PointsTo(n) : m > n /\ m \in NodeIds
  BY <1>1, <1>2 DEF Tree, NodeIds
<1>4. ASSUME NEW n \in NodeIds, NEW m \in NodeIds, n # m
      PROVE  PointsTo(n) \cap PointsTo(m) = {}
  BY <1>1, <1>2, <1>4 DEF Tree, NodeIds
<1>5. \A n \in NodeIds : nodes[n].next # NULL => nodes[n].value # Child(nodes[n].next)
  <2>1. \A x : Child(x)[1] = "child" /\ Child(x)[2] = x
    BY DEF Child
  <2> QED BY <1>1, <2>1 DEF Tree, NodeIds
<1> QED BY <1>3, <1>4, <1>5

(* Whatever the text, every node of the result has the field of its union  *)
(* written that its type promises, also the nodes a failed parse left.     *)
THEOREM UnionsMatch == Spec => []UnionMatchesType
<1>1. NodesInv => UnionMatchesType
  BY FinishedMatches
<1> QED BY <1>1, NodesInvariant, PTL

-----------------------------------------------------------------------------
(* Where the loops over the characters of a number stop.                   *)
LEMMA NumberLoopsEnd ==
  ASSUME CursorAssumption, input \in Inputs, NEW i \in 0 .. buflen
  PROVE  /\ NotNumFrom(i) \in i .. buflen
         /\ TerminatorFrom(i) \in i .. buflen
         /\ Min({j \in i .. buflen : ~isHex(At(j))}) \in i .. buflen
         /\ Min({j \in i .. buflen : isE(At(j)) \/ isNumTerminator(At(j))}) \in i .. buflen
<1>1. buflen \in Nat /\ At(buflen) = NUL
  BY TextFacts
<1>2. ~isNum(NUL) /\ isNumTerminator(NUL) /\ ~isHex(NUL)
  BY DEF isNum, isNumTerminator, isHex, NUL
<1>3. buflen \in i .. buflen
  BY <1>1
<1>4. NotNumFrom(i) \in i .. buflen
  BY <1>1, <1>2, <1>3, SearchEnds DEF NotNumFrom
<1>5. TerminatorFrom(i) \in i .. buflen
  BY <1>1, <1>2, <1>3, SearchEnds DEF TerminatorFrom
<1>6. Min({j \in i .. buflen : ~isHex(At(j))}) \in i .. buflen
  BY <1>1, <1>2, <1>3, SearchEnds
<1>7. Min({j \in i .. buflen : isE(At(j)) \/ isNumTerminator(At(j))}) \in i .. buflen
  BY <1>1, <1>2, <1>3, SearchEnds
<1> QED BY <1>4, <1>5, <1>6, <1>7

(* The position behind an exponent.                                        *)
LEMMA ExponentEnds ==
  ASSUME CursorAssumption, input \in Inputs, NEW i \in 0 .. buflen, isE(At(i))
  PROVE  Exponent(i).end \in 0 .. buflen
<1> DEFINE signed == At(i + 1) \in {"-", "+"}
           first  == i + IF signed THEN 2 ELSE 1
<1>1. buflen \in Nat /\ i \in Nat
  BY TextFacts
<1>2. i < buflen
  <2>1. At(i) # NUL
    BY DEF isE, NUL
  <2> QED BY <1>1, <2>1, TextEnds
<1>3. first \in 0 .. buflen
  <2>1. CASE signed
    <3>1. At(i + 1) # NUL
      BY <2>1 DEF NUL
    <3>2. i + 1 \in Nat
      BY <1>1
    <3>3. i + 1 < buflen
      BY <3>1, <3>2, TextEnds
    <3> QED BY <1>1, <2>1, <3>3
  <2>2. CASE ~signed
    BY <1>1, <1>2, <2>2
  <2> QED BY <2>1, <2>2
<1>4. Exponent(i).end = NotNumFrom(first)
  BY DEF Exponent
<1> HIDE DEF first
<1>5. NotNumFrom(first) \in first .. buflen
  BY <1>3, NumberLoopsEnd
<1> QED BY <1>1, <1>3, <1>4, <1>5

(* countNumberLen: as many characters as it says are in front of the       *)
(* cursor it leaves.                                                       *)
LEMMA LengthInText ==
  ASSUME CursorAssumption, input \in Inputs, NEW c \in Cursor
  PROVE  /\ countNumberLen(c).cur \in Cursor
         /\ countNumberLen(c).len \in Nat
         /\ countNumberLen(c).cur.offset + countNumberLen(c).len <= buflen
<1> DEFINE from == c.offset
           end  == TerminatorFrom(from)
           bad  == {i \in from .. end - 1 : NotInNumber(At(i)) \/ Repeats(i, from)}
           Fail(i) == [cur |-> jsonAdvanceToError(c, i - from, "JSON_INVALID_NUMBER"),
                       len |-> 0]
<1>1. buflen \in Nat /\ from \in 0 .. buflen
  BY TextFacts DEF Cursor
<1>2. end \in from .. buflen
  BY <1>1, NumberLoopsEnd
<1> HIDE DEF end
<1>3. ASSUME NEW i \in from .. end
      PROVE  /\ Fail(i).cur \in Cursor /\ Fail(i).len = 0
             /\ Fail(i).cur.offset <= buflen
  <2>1. i - from \in Nat /\ from + (i - from) <= buflen
    BY <1>1, <1>2
  <2>2. jsonUnsafeAdvanceBy(c, i - from) \in Cursor
    BY <2>1, UnsafeAdvanceTyped
  <2>3. Fail(i).cur \in Cursor
    BY <2>2, SetErrorTyped DEF jsonAdvanceToError, JSON_ERRNO
  <2> HIDE DEF from
  <2>4. \A d \in Cursor : d.offset <= buflen
    BY <1>1 DEF Cursor
  <2> QED BY <2>3, <2>4
<1>4. bad # {} => Min(bad) \in from .. end
  <2> SUFFICES ASSUME bad # {} PROVE Min(bad) \in from .. end
    OBVIOUS
  <2>1. bad \in SUBSET Nat
    BY <1>1, <1>2
  <2>2. Min(bad) \in bad
    BY <2>1, MinIsFirst
  <2> HIDE DEF from
  <2> QED BY <1>1, <1>2, <2>2
<1>5. end \in from .. end
  BY <1>1, <1>2
<1>6. \/ bad # {} /\ countNumberLen(c) = Fail(Min(bad))
      \/ countNumberLen(c) = Fail(end)
      \/ countNumberLen(c) = [cur |-> c, len |-> end - from]
  BY Zenon DEF countNumberLen, end
<1>7. CASE bad # {} /\ countNumberLen(c) = Fail(Min(bad))
  <2> HIDE DEF bad, Fail
  <2>1. \A d \in Cursor : d.offset \in Nat
    BY <1>1 DEF Cursor
  <2> QED BY <1>1, <1>3, <1>4, <1>7, <2>1
<1>8. CASE countNumberLen(c) = Fail(end)
  <2> HIDE DEF Fail
  <2>1. \A d \in Cursor : d.offset \in Nat
    BY <1>1 DEF Cursor
  <2> QED BY <1>1, <1>3, <1>5, <1>8, <2>1
<1>9. CASE countNumberLen(c) = [cur |-> c, len |-> end - from]
  BY <1>1, <1>2, <1>9
<1> QED BY <1>6, <1>7, <1>8, <1>9

(* The parsers of integers leave the cursor in the text.                   *)
LEMMA IntegerTyped ==
  ASSUME CursorAssumption, input \in Inputs, NEW c \in Cursor, NEW neg
  PROVE  stringToI64(c, neg).cur \in Cursor
<1>1. buflen \in Nat /\ c.offset \in 0 .. buflen /\ c.offset \in Nat
  BY TextFacts DEF Cursor
<1>2. ASSUME NEW d \in Cursor
      PROVE  stringToHex(d).cur \in Cursor
  <2> DEFINE stop  == Min({i \in d.offset .. buflen : ~isHex(At(i))})
             moved == [d EXCEPT !.offset = stop]
  <2>1. d.offset \in 0 .. buflen
    BY DEF Cursor
  <2>2. stop \in 0 .. buflen
    <3>1. stop \in d.offset .. buflen
      BY <2>1, NumberLoopsEnd
    <3> HIDE DEF stop
    <3> QED BY <1>1, <2>1, <3>1
  <2> HIDE DEF stop
  <2>3. moved \in Cursor
    BY <2>2 DEF Cursor
  <2>4. SetError(moved, "JSON_INVALID_HEX") \in Cursor
    BY <2>3, SetErrorTyped DEF JSON_ERRNO
  <2> HIDE DEF moved
  <2>5. stringToHex(d).cur \in {moved, SetError(moved, "JSON_INVALID_HEX")}
    BY DEF stringToHex, moved, stop
  <2> QED BY <2>3, <2>4, <2>5
<1>3. CASE jsonPeek(c) = "0"
  <2>1. c.offset < buflen
    <3>1. At(c.offset) # NUL
      BY <1>3 DEF jsonPeek, NUL
    <3> QED BY <1>1, <3>1, TextEnds
  <2>2. CASE isX(At(c.offset + 1))
    <3>1. At(c.offset + 1) # NUL /\ c.offset + 1 \in Nat
      BY <1>1, <2>2 DEF isX, NUL
    <3>2. c.offset + 1 < buflen
      BY <3>1, TextEnds
    <3>3. c.offset + 2 <= buflen
      BY <1>1, <3>2
    <3>4. jsonUnsafeAdvanceBy(c, 2) \in Cursor
      BY <3>3, UnsafeAdvanceTyped
    <3>5. stringToI64(c, neg) = stringToHex(jsonUnsafeAdvanceBy(c, 2))
      BY <1>3, <2>2 DEF stringToI64, LeadingZero
    <3> QED BY <1>2, <3>4, <3>5
  <2>3. CASE ~isX(At(c.offset + 1))
    <3>1. stringToI64(c, neg).cur = jsonAdvanceToError(c, 1, "JSON_INVALID_NUMBER")
      BY <1>3, <2>3 DEF stringToI64, LeadingZero
    <3>2. c.offset + 1 <= buflen
      BY <1>1, <2>1
    <3>3. jsonUnsafeAdvanceBy(c, 1) \in Cursor
      BY <3>2, UnsafeAdvanceTyped
    <3> QED BY <3>1, <3>3, SetErrorTyped DEF jsonAdvanceToError, JSON_ERRNO
  <2> QED BY <2>2, <2>3
<1>4. CASE jsonPeek(c) # "0"
  <2> DEFINE stop == Min({i \in c.offset .. buflen : isE(At(i)) \/ isNumTerminator(At(i))})
             end  == IF isE(At(stop)) THEN Exponent(stop).end ELSE stop
  <2>1. stop \in 0 .. buflen
    <3>1. stop \in c.offset .. buflen
      BY <1>1, NumberLoopsEnd
    <3> HIDE DEF stop
    <3> QED BY <1>1, <3>1
  <2>2. stringToI64(c, neg).cur = [c EXCEPT !.offset = end]
    BY <1>4 DEF stringToI64, DecimalInteger
  <2> HIDE DEF stop
  <2>3. end \in 0 .. buflen
    BY <2>1, ExponentEnds
  <2> HIDE DEF end
  <2> QED BY <2>2, <2>3 DEF Cursor
<1> QED BY <1>3, <1>4

(* The cursor behind a number, or where the number was refused.            *)
LEMMA NumberTyped ==
  ASSUME CursorAssumption, input \in Inputs, NEW c \in Cursor
  PROVE  jsonParseNumber(c).cur \in Cursor
<1> DEFINE n == countNumberLen(c)
<1>1. n.cur \in Cursor /\ n.len \in Nat /\ n.cur.offset + n.len <= buflen
  BY LengthInText
<1> HIDE DEF n
<1>2. jsonAdvance(n.cur) \in Cursor
  BY <1>1, AdvanceTyped
<1>3. jsonAdvanceToError(n.cur, 0, "JSON_INVALID_NUMBER") \in Cursor
  <2>1. buflen \in Nat /\ n.cur.offset \in 0 .. buflen
    BY <1>1, TextFacts DEF Cursor
  <2>2. n.cur.offset + 0 <= buflen
    BY <2>1
  <2>3. jsonUnsafeAdvanceBy(n.cur, 0) \in Cursor
    BY <1>1, <2>2, UnsafeAdvanceTyped
  <2> QED BY <2>3, SetErrorTyped DEF jsonAdvanceToError, JSON_ERRNO
<1>4. \A neg : /\ stringToI64(n.cur, neg).cur \in Cursor
               /\ stringToI64(jsonAdvance(n.cur), neg).cur \in Cursor
  BY <1>1, <1>2, IntegerTyped
<1>5. jsonUnsafeAdvanceBy(n.cur, n.len) \in Cursor
  BY <1>1, UnsafeAdvanceTyped
<1>6. \A r : IntOf(r).cur = r.cur /\ FloatOf(r).cur = r.cur
  BY DEF IntOf, FloatOf
<1>7. \/ jsonParseNumber(c).cur = jsonAdvanceToError(n.cur, 0, "JSON_INVALID_NUMBER")
      \/ jsonParseNumber(c).cur = jsonAdvance(n.cur)
      \/ \E neg : \/ jsonParseNumber(c) = IntOf(stringToI64(n.cur, neg))
                  \/ jsonParseNumber(c) = IntOf(stringToI64(jsonAdvance(n.cur), neg))
      \/ \E ptr1, neg, idx, m :
           jsonParseNumber(c) = FloatOf(jsonParseFloat(n.cur, ptr1, neg, n.len, idx, m))
  BY <1>6 DEF jsonParseNumber, n
<1>8. \A ptr1, neg, idx, m :
        jsonParseFloat(n.cur, ptr1, neg, n.len, idx, m).cur = jsonUnsafeAdvanceBy(n.cur, n.len)
  BY DEF jsonParseFloat
<1> QED BY <1>2, <1>3, <1>4, <1>5, <1>6, <1>7, <1>8

-----------------------------------------------------------------------------
(* The call of jsonParseString made for a key or a value.                  *)
CallInv ==
  /\ StringInv
  /\ ptype \in ParserTypes
  /\ pc \notin {"key", "text"} => str.pc = "idle"

(* Between two calls of jsonParseString the cursor moves on its own.       *)
LEMMA CursorMoves ==
  ASSUME StringInv, str.pc = "idle", cur' \in Cursor, UNCHANGED <<input, str>>
  PROVE  StringInv'
<1>1. buflen' = buflen /\ Cursor' = Cursor
  BY DEF buflen, Cursor
<1> QED BY <1>1 DEF StringInv, StrTypeOK, FailureIsReported, IsCall

(* What a call returned is taken.                                          *)
LEMMA CallForgotten ==
  ASSUME CursorAssumption, StringInv, cur' \in Cursor, str' = NoString, UNCHANGED input
  PROVE  StringInv'
<1>1. buflen' = buflen /\ Cursor' = Cursor /\ buflen \in Nat /\ input' \in Inputs
  BY TextEnds DEF buflen, Cursor, StringInv
<1>2. /\ str'.pc = "idle" /\ str'.start = 0 /\ str'.end = 0 /\ str'.cap = 0 /\ str'.len = 0
      /\ IsCall(str)'
  BY DEF NoString, IsCall
<1> QED BY <1>1, <1>2 DEF StringInv, StrTypeOK, FailureIsReported

(* The value of another step is expected at a cursor in the text.          *)
LEMMA ExpectMoves ==
  ASSUME NEW ns, NEW c \in Cursor, ExpectValue(c, ns), ptype \in ParserTypes
  PROVE  cur' \in Cursor /\ pc' \in {"value", "after", "finish"} /\ ptype' \in ParserTypes
<1>1. SetError(c, "JSON_INVALID_JSON_TYPE_CHAR") \in Cursor
  BY SetErrorTyped DEF JSON_ERRNO
<1>2. ExpectedType(jsonPeek(c)) \in ParserTypes
  BY DEF ExpectedType, ParserTypes
<1> QED BY <1>1, <1>2 DEF ExpectValue, ReturnList, Return

(* jsonParseBool leaves the cursor in the text.                            *)
LEMMA BoolTyped ==
  ASSUME CursorAssumption, input \in Inputs, cur \in Cursor
  PROVE  jsonParseBool.cur \in Cursor
<1>1. buflen \in Nat /\ cur.offset \in Nat
  BY TextFacts DEF Cursor
<1>2. ASSUME NEW length \in Nat, NEW rest, NEW bool
      PROVE  BoolWord(length, rest, bool).cur \in Cursor
  <2>1. jsonCanAdvanceBy(cur, length) => jsonUnsafeAdvanceBy(cur, length) \in Cursor
    <3>1. jsonCanAdvanceBy(cur, length) => cur.offset + length <= buflen
      BY <1>1 DEF jsonCanAdvanceBy
    <3> QED BY <3>1, UnsafeAdvanceTyped
  <2>2. \A c \in Cursor : SetError(c, "JSON_CANNOT_ADVANCE") \in Cursor
    BY SetErrorTyped DEF JSON_ERRNO
  <2> QED BY <2>1, <2>2 DEF BoolWord
<1> QED BY <1>2 DEF jsonParseBool

(* jsonParseNull leaves the cursor in the text.                            *)
LEMMA NullTyped ==
  ASSUME CursorAssumption, input \in Inputs, cur \in Cursor, ParseNull
  PROVE  cur' \in Cursor
<1>1. buflen \in Nat /\ cur.offset \in Nat
  BY TextFacts DEF Cursor
<1>2. jsonCanAdvanceBy(cur, 4) => jsonUnsafeAdvanceBy(cur, 4) \in Cursor
  <2>1. jsonCanAdvanceBy(cur, 4) => cur.offset + 4 <= buflen
    BY <1>1 DEF jsonCanAdvanceBy
  <2> QED BY <2>1, UnsafeAdvanceTyped
<1>3. SetError(cur, "JSON_CANNOT_ADVANCE") \in Cursor
  BY SetErrorTyped DEF JSON_ERRNO
<1> QED BY <1>2, <1>3 DEF ParseNull

(* Every step of the parser keeps the cursor in the text, and an error with*)
(* every string that failed.                                               *)
LEMMA CallKeeps ==
  ASSUME CursorAssumption, CallInv, [Next]_vars
  PROVE  CallInv'
<1>1. /\ input \in Inputs /\ cur \in Cursor /\ StringInv /\ ptype \in ParserTypes
      /\ pc \notin {"key", "text"} => str.pc = "idle"
  BY DEF CallInv, StringInv, StrTypeOK
<1>2. \A c \in Cursor : /\ jsonAdvance(c) \in Cursor
                        /\ jsonAdvanceWhitespace(c) \in Cursor
                        /\ jsonAdvanceToTerminator(c, ":") \in Cursor
  BY <1>1, AdvanceTyped, WhitespaceTyped, TerminatorTyped
<1>3. \A c \in Cursor : \A error \in JSON_ERRNO : SetError(c, error) \in Cursor
  BY SetErrorTyped
<1>4. /\ {"JSON_CANNOT_START_PARSE", "JSON_INVALID_KEY_TERMINATOR_CHARACTER",
          "JSON_INVALID_JSON_TYPE_CHAR", "JSON_INVALID_ARRAY_CHARACTER"} \subseteq JSON_ERRNO
      /\ UnexpectedCharacter \in JSON_ERRNO
  BY DEF JSON_ERRNO, UnexpectedCharacter
<1>5. ASSUME pc \notin {"key", "text"}, cur' \in Cursor, UNCHANGED <<input, str>>,
             ptype' \in ParserTypes
      PROVE  CallInv'
  <2>1. str.pc = "idle" /\ str'.pc = "idle"
    BY <1>1, <1>5
  <2>2. StringInv'
    BY <1>1, <1>5, <2>1, CursorMoves
  <2> QED BY <1>5, <2>1, <2>2 DEF CallInv, ParserTypes
<1>6. ASSUME cur' \in Cursor, str' = NoString, UNCHANGED input, ptype' \in ParserTypes
      PROVE  CallInv'
  <2>1. StringInv'
    BY <1>1, <1>6, CallForgotten
  <2>2. str'.pc = "idle"
    BY <1>6 DEF NoString
  <2> QED BY <1>6, <2>1, <2>2 DEF CallInv, ParserTypes
<1>7. ASSUME NEW c \in Cursor, StringCalledAt(c), UNCHANGED <<input, ptype>>,
             pc' \in {"key", "text"}
      PROVE  CallInv'
  <2>1. StringInv'
    BY <1>1, <1>7, CallTyped
  <2> QED BY <1>1, <1>7, <2>1 DEF CallInv, ParserTypes
<1>8. CASE Begin
  <2> DEFINE c == jsonAdvanceWhitespace(cur)
  <2>1. c \in Cursor
    BY <1>1, <1>2
  <2> HIDE DEF c
  <2>2. cur' = c \/ cur' = SetError(c, "JSON_CANNOT_START_PARSE")
    BY <1>8 DEF Begin, BeginWith, c
  <2>3. pc = "start" /\ UNCHANGED <<input, str, ptype>>
    BY <1>8 DEF Begin
  <2> QED BY <1>1, <1>3, <1>4, <1>5, <2>1, <2>2, <2>3
<1>9. CASE Enter
  <2> DEFINE c1 == jsonAdvance(cur)
             c2 == jsonAdvanceWhitespace(c1)
  <2>1. c2 \in Cursor
    BY <1>1, <1>2
  <2> HIDE DEF c1, c2
  <2>2. cur' = c2 \/ cur' = jsonAdvance(c2)
    BY <1>9 DEF Enter, Return, c1, c2
  <2>3. pc = "enter" /\ UNCHANGED <<input, str, ptype>>
    BY <1>9 DEF Enter
  <2> QED BY <1>1, <1>2, <1>5, <2>1, <2>2, <2>3
<1>10. CASE Element
  <2> DEFINE c == jsonAdvanceWhitespace(cur)
  <2>1. c \in Cursor
    BY <1>1, <1>2
  <2> HIDE DEF c
  <2>2. (cur' = c /\ ptype' = ptype) \/ ExpectValue(c, nodes)
    BY <1>10 DEF Element, Return, c
  <2>3. pc = "loop" /\ UNCHANGED <<input, str>>
    BY <1>10 DEF Element
  <2> QED BY <1>1, <1>5, <2>1, <2>2, <2>3, ExpectMoves
<1>11. CASE Member
  <2> DEFINE c == jsonAdvanceWhitespace(cur)
  <2>1. c \in Cursor
    BY <1>1, <1>2
  <2> HIDE DEF c
  <2>2. pc = "loop" /\ UNCHANGED <<input, ptype>>
    BY <1>11 DEF Member
  <2>3. \/ /\ cur' = c \/ cur' = SetError(c, "JSON_INVALID_KEY_TERMINATOR_CHARACTER")
           /\ UNCHANGED str
        \/ StringCalledAt(c) /\ pc' = "key"
    BY <1>11, Zenon DEF Member, Return, c
  <2> QED BY <1>1, <1>3, <1>4, <1>5, <1>7, <2>1, <2>2, <2>3
<1>12. CASE Key
  <2> DEFINE c1 == jsonAdvanceToTerminator(cur, ":")
             c2 == jsonAdvance(c1)
             c3 == jsonAdvanceWhitespace(c2)
             ns == [nodes EXCEPT ![ptr].key = ReturnedText]
  <2>1. c1 \in Cursor /\ c3 \in Cursor
    BY <1>1, <1>2
  <2> HIDE DEF c1, c2, c3, ns
  <2>2. \/ cur' = SetError(c1, "JSON_INVALID_KEY_TERMINATOR_CHARACTER") /\ ptype' = ptype
        \/ cur' = c3 /\ ptype' = ptype
        \/ ExpectValue(c3, ns)
    BY <1>12, Zenon DEF Key, Return, c1, c2, c3, ns
  <2>3. str' = NoString /\ UNCHANGED input
    BY <1>12 DEF Key
  <2> QED BY <1>1, <1>3, <1>4, <1>6, <2>1, <2>2, <2>3, ExpectMoves
<1>13. CASE Value
  <2>1. pc = "value" /\ UNCHANGED <<input, ptype>>
    BY <1>13 DEF Value
  <2>2. CASE ParseNumber
    BY <1>1, <1>5, <2>1, <2>2, NumberTyped DEF ParseNumber
  <2>3. ASSUME NEW type, ParseText(type)
        PROVE  CallInv'
    BY <1>1, <1>7, <2>1, <2>3 DEF ParseText
  <2>4. CASE ParseNull
    BY <1>1, <1>5, <2>1, <2>4, NullTyped DEF ParseNull
  <2>5. CASE ParseBool
    BY <1>1, <1>5, <2>1, <2>5, BoolTyped DEF ParseBool
  <2>6. ASSUME NEW fn, NEW type, ParseContainer(fn, type)
        PROVE  CallInv'
    BY <1>1, <1>5, <2>1, <2>6 DEF ParseContainer
  <2> QED BY <1>13, <2>2, <2>3, <2>4, <2>5, <2>6
          DEF Value, ParseStrnum, ParseString, ParseObject, ParseArray
<1>14. CASE TextValue
  BY <1>1, <1>6, <1>14 DEF TextValue
<1>15. CASE AfterValue
  <2> DEFINE c == jsonAdvanceWhitespace(cur)
  <2>1. c \in Cursor
    BY <1>1, <1>2
  <2> HIDE DEF c
  <2>2. \/ cur' = cur \/ cur' = c \/ cur' = jsonAdvance(c)
        \/ cur' = SetError(c, UnexpectedCharacter)
    BY <1>15 DEF AfterValue, ReturnList, Return, AfterComma, c
  <2>3. pc = "after" /\ UNCHANGED <<input, str, ptype>>
    BY <1>15 DEF AfterValue
  <2> QED BY <1>1, <1>2, <1>3, <1>4, <1>5, <2>1, <2>2, <2>3
<1>16. CASE Finish
  BY <1>1, <1>5, <1>16 DEF Finish
<1>17. CASE StringRuns
  <2>1. StringInv' /\ pc' = pc /\ ptype' = ptype
    BY <1>1, <1>17, StepTyped DEF StringRuns, parserVars
  <2>2. pc \in {"key", "text"}
    <3>1. str.pc # "idle"
      BY <1>17 DEF StringRuns, StringStep, SizeStep, SizeEnd, CopyPlain, CopyEscape,
                   CopyUnicode, CopyBadEscape, CopyQuote, Copying
    <3> QED BY <1>1, <3>1
  <2> QED BY <1>1, <2>1, <2>2 DEF CallInv, ParserTypes
<1>18. CASE UNCHANGED vars
  <2>1. UNCHANGED <<input, cur, str, pc, ptype>>
    BY <1>18 DEF vars, parserVars
  <2> QED BY <1>1, <2>1 DEF CallInv, StringInv, IsCall, StrTypeOK, FailureIsReported,
                            Cursor, buflen, ParserTypes
<1> QED BY <1>8, <1>9, <1>10, <1>11, <1>12, <1>13, <1>14, <1>15, <1>16, <1>17, <1>18 DEF Next

(* Before the call no string is being read.                                *)
LEMMA CallBegins ==
  ASSUME Init
  PROVE  CallInv
<1>1. StringInv
  BY CursorAssumption, StringBegins DEF Init
<1>2. str.pc = "idle"
  BY DEF Init, StringInit, NoString
<1> QED BY <1>1, <1>2 DEF Init, CallInv, ParserTypes

(* The second inductive invariant: the cursor in the text, and the string  *)
(* that is being read.                                                     *)
THEOREM CallInvariant == Spec => []CallInv
<1>1. Init => CallInv
  BY CallBegins
<1>2. CallInv /\ [Next]_vars => CallInv'
  BY CursorAssumption, CallKeeps
<1> QED BY <1>1, <1>2, PTL DEF Spec

(* The parser never reads behind the terminator of a text, whatever the    *)
(* text is, and whatever stands at p->ptr and in the locals of every       *)
(* activation is a node that was made.                                     *)
THEOREM ParserTyped == Spec => []TypeOK
<1>1. NodesInv /\ CallInv => TypeOK
  <2> SUFFICES ASSUME NodesInv, CallInv PROVE TypeOK
    OBVIOUS
  <2>1. \A i \in DOMAIN stack : stack[i] \in Frames /\ i \in 1 .. Len(stack)
    BY DEF NodesInv, ControlInv
  <2>2. \A i \in DOMAIN stack : stack[i].fn \in {"object", "array"}
    BY <2>1 DEF Frames
  <2> QED BY <2>1, <2>2 DEF TypeOK, NodesInv, ControlInv, CallInv, StringInv
<1> QED BY <1>1, NodesInvariant, CallInvariant, PTL

(* No key and no value is the NULL of a failed string without an error:    *)
(* the parser looks at p->errno only.                                      *)
THEOREM ParserReportsFailures == Spec => []FailureIsReported
<1>1. CallInv => FailureIsReported
  BY DEF CallInv, StringInv
<1> QED BY <1>1, CallInvariant, PTL

-----------------------------------------------------------------------------
(* A string is parsed where there is a quote, but for numbers read with    *)
(* JSON_STRNUM_FLAG, and the copy of it keeps within what was counted.     *)
StringsFit ==
  /\ pc = "value" /\ ptype = "JSON_PARSER_STRING" => jsonPeek(cur) = QUOTE
  /\ ~QuoteInPair /\ ~input.strnum => CopyInv

(* jsonSetExpectedType expects a string only of a quote.                   *)
LEMMA ExpectFits ==
  ASSUME NEW ns, NEW c, ExpectValue(c, ns), UNCHANGED input
  PROVE  (pc = "value" /\ ptype = "JSON_PARSER_STRING" => jsonPeek(cur) = QUOTE)'
<1>1. CASE /\ cur' = c /\ ptype' = ExpectedType(jsonPeek(c))
  <2>1. ExpectedType(jsonPeek(c)) = "JSON_PARSER_STRING" => jsonPeek(c) = QUOTE
    <3> SUFFICES ASSUME NEW ch, ch # QUOTE PROVE ExpectedType(ch) # "JSON_PARSER_STRING"
      OBVIOUS
    <3>1. ExpectedType(ch) \in {"JSON_PARSER_OBJECT", "JSON_PARSER_ARRAY", "JSON_PARSER_NULL",
            "JSON_PARSER_BOOL", "JSON_PARSER_NUMERIC", "none"}
      BY SMT DEF ExpectedType
    <3> QED BY <3>1
  <2>2. jsonPeek(cur)' = jsonPeek(c)
    BY <1>1 DEF jsonPeek, At, buflen
  <2> QED BY <1>1, <2>1, <2>2
<1>2. CASE pc' # "value"
  BY <1>2
<1> QED BY <1>1, <1>2 DEF ExpectValue, ReturnList, Return

(* Every step of the parser keeps it.                                      *)
LEMMA StringsFitKept ==
  ASSUME CursorAssumption, CallInv, StringsFit, [Next]_vars
  PROVE  StringsFit'
<1>1. /\ input \in Inputs /\ cur \in Cursor /\ StringInv
      /\ pc \notin {"key", "text"} => str.pc = "idle"
  BY DEF CallInv, StringInv, StrTypeOK
<1>2. UNCHANGED input
  <2>1. StringStep => UNCHANGED input
    BY DEF StringStep, SizeStep, SizeEnd, CopyPlain, CopyEscape, CopyUnicode, CopyBadEscape,
           CopyQuote
  <2>2. /\ Begin \/ Enter \/ Element \/ Member => UNCHANGED input
        /\ Key \/ Value \/ TextValue \/ AfterValue \/ Finish => UNCHANGED input
    BY Zenon DEF Begin, Enter, Element, Member, Key, Value, TextValue, AfterValue, Finish
  <2> QED BY <2>1, <2>2 DEF Next, StringRuns, vars, parserVars
<1>3. QuoteInPair' = QuoteInPair
  BY <1>2 DEF QuoteInPair, At, buflen
<1>4. str'.pc = "idle" => CopyInv'
  BY DEF CopyInv, Fits
<1>5. ASSUME pc \notin {"key", "text"}, UNCHANGED str
      PROVE  CopyInv'
  BY <1>1, <1>4, <1>5
<1>6. ASSUME pc' # "value", CopyInv'
      PROVE  StringsFit'
  BY <1>6 DEF StringsFit
<1>7. ASSUME NEW c \in Cursor, StringCalledAt(c), jsonPeek(c) = QUOTE, pc' # "value"
      PROVE  StringsFit'
  BY <1>1, <1>2, <1>6, <1>7, CopyCalled
<1>8. CASE Begin
  <2>1. pc = "start" /\ UNCHANGED str
    BY <1>8, Zenon DEF Begin
  <2>2. pc' # "value"
    <3>1. pc' = "done" \/ pc' = "enter" \/ pc' = "finish"
      BY <1>8, Zenon DEF Begin, BeginWith
    <3> QED BY <3>1
  <2> QED BY <1>5, <1>6, <2>1, <2>2
<1>9. CASE Enter
  BY <1>5, <1>6, <1>9 DEF Enter, Return
<1>10. CASE Element
  <2>1. CopyInv'
    BY <1>5, <1>10 DEF Element
  <2>2. (pc = "value" /\ ptype = "JSON_PARSER_STRING" => jsonPeek(cur) = QUOTE)'
    BY <1>2, <1>10, ExpectFits DEF Element, Return
  <2> QED BY <2>1, <2>2 DEF StringsFit
<1>11. CASE Member
  <2> DEFINE c == jsonAdvanceWhitespace(cur)
  <2>1. c \in Cursor
    BY <1>1, WhitespaceTyped
  <2> HIDE DEF c
  <2>2. \/ pc' # "value" /\ UNCHANGED str
        \/ jsonPeek(c) = QUOTE /\ StringCalledAt(c) /\ pc' = "key"
    BY <1>11, Zenon DEF Member, Return, c
  <2>3. pc = "loop"
    BY <1>11 DEF Member
  <2> QED BY <1>5, <1>6, <1>7, <2>1, <2>2, <2>3
<1>12. CASE Key
  <2>1. CopyInv'
    BY <1>4, <1>12 DEF Key, NoString
  <2>2. (pc = "value" /\ ptype = "JSON_PARSER_STRING" => jsonPeek(cur) = QUOTE)'
    BY <1>2, <1>12, ExpectFits DEF Key, Return
  <2> QED BY <2>1, <2>2 DEF StringsFit
<1>13. CASE Value
  <2>1. pc = "value" /\ UNCHANGED ptype
    BY <1>13 DEF Value
  <2>2. CASE ParseNumber \/ ParseNull \/ ParseBool \/ ParseObject \/ ParseArray
    BY <1>5, <1>6, <2>1, <2>2
       DEF ParseNumber, ParseNull, ParseBool, ParseObject, ParseArray, ParseContainer
  <2>3. CASE ParseStrnum
    <3>1. pc' = "text" /\ input.strnum
      BY <2>3 DEF ParseStrnum, ParseText
    <3> QED BY <1>2, <3>1 DEF StringsFit
  <2>4. CASE ParseString
    <3>1. StringCalledAt(cur) /\ pc' = "text" /\ jsonPeek(cur) = QUOTE
      BY <2>1, <2>4 DEF ParseString, ParseText, StringsFit
    <3> QED BY <1>1, <1>7, <3>1
  <2> QED BY <1>13, <2>2, <2>3, <2>4 DEF Value
<1>14. CASE TextValue
  BY <1>4, <1>6, <1>14 DEF TextValue, NoString
<1>15. CASE AfterValue
  <2>1. pc = "after" /\ pc' # "value" /\ UNCHANGED str
    BY <1>15, Zenon DEF AfterValue, ReturnList, Return, AfterComma
  <2> QED BY <1>5, <1>6, <2>1
<1>16. CASE Finish
  BY <1>5, <1>6, <1>16 DEF Finish
<1>17. CASE StringRuns
  <2>1. StringStep /\ UNCHANGED <<pc, ptype>> /\ pc # "value"
    <3>1. str.pc # "idle"
      BY <1>17 DEF StringRuns, StringStep, SizeStep, SizeEnd, CopyPlain, CopyEscape,
                   CopyUnicode, CopyBadEscape, CopyQuote, Copying
    <3> QED BY <1>1, <1>17, <3>1 DEF StringRuns, parserVars
  <2>2. ~QuoteInPair /\ ~input.strnum => CopyInv'
    BY <1>1, <2>1, CopyStep DEF StringsFit
  <2> QED BY <1>2, <1>3, <2>1, <2>2 DEF StringsFit
<1>18. CASE UNCHANGED vars
  <2>1. UNCHANGED <<input, cur, str, pc, ptype>>
    BY <1>18 DEF vars, parserVars
  <2> QED BY <2>1 DEF StringsFit, CopyInv, Fits, QuoteInPair, jsonPeek, At, buflen
<1> QED BY <1>8, <1>9, <1>10, <1>11, <1>12, <1>13, <1>14, <1>15, <1>16, <1>17, <1>18 DEF Next

(* Before the call no string is copied.                                    *)
LEMMA StringsFitBegin ==
  ASSUME Init
  PROVE  StringsFit
BY DEF Init, StringInit, NoString, StringsFit, CopyInv, Fits

(* The two passes over every key and every text agree on how much is       *)
(* written, in documents and in all other texts but for the two exceptions *)
(* of OutputFits.                                                          *)
THEOREM ParserOutputFits == Spec => [](~input.strnum => OutputFits)
<1>1. Init => StringsFit
  BY StringsFitBegin
<1>2. CallInv /\ StringsFit /\ [Next]_vars => StringsFit'
  BY CursorAssumption, StringsFitKept
<1>3. CallInv /\ StringsFit => (~input.strnum => OutputFits)
  BY CursorAssumption, CopyInvFits DEF CallInv, StringsFit, OutputFits
<1> QED BY <1>1, <1>2, <1>3, CallInvariant, PTL DEF Spec

-----------------------------------------------------------------------------
(* What jsonParse returns: NULL for a text of white space, and for every   *)
(* other text the root with its state.                                     *)
Blank == \A i \in DOMAIN input.text : isWhiteSpace(input.text[i])

ResultInv ==
  /\ pc = "start" => cur.offset = 0
  /\ pc # "done" => state = NoState
  /\ pc # "start" => \/ Root \in NodeIds /\ (pc = "done" => state # NoState)
                     \/ pc = "done" /\ state = NoState /\ Blank

(* The scan of a text from its first character gives up only if the text   *)
(* is white space to its end.                                              *)
LEMMA BlankText ==
  ASSUME CursorAssumption, input \in Inputs, NEW c, c.offset = 0, ~WsOk(c)
  PROVE  Blank
<1>1. buflen \in Nat /\ 0 \in 0 .. buflen /\ DOMAIN input.text = 1 .. buflen
  BY TextFacts DEF CursorAssumption, buflen
<1>2. \A j \in 0 .. buflen - 1 : isWhiteSpace(At(j))
  BY <1>1, ScanFails DEF WsOk
<1> SUFFICES ASSUME NEW i \in DOMAIN input.text
             PROVE  isWhiteSpace(input.text[i])
  BY DEF Blank
<1>3. i - 1 \in 0 .. buflen - 1 /\ i - 1 < buflen /\ (i - 1) + 1 = i
  BY <1>1
<1>4. At(i - 1) = input.text[i]
  BY <1>3 DEF At
<1> QED BY <1>2, <1>3, <1>4

(* The outermost activation returns to a root that was made before it.     *)
LEMMA ReturnFindsRoot ==
  ASSUME NodesInv', Root \in NodeIds, IsNodes(nodes), NEW c, NEW ret, NEW ns,
         DOMAIN ns = DOMAIN nodes, Return(c, ret, ns)
  PROVE  Root \in NodeIds'
<1>1. DOMAIN nodes' = DOMAIN nodes
  BY DEF Return
<1>2. IsNodes(nodes')
  BY DEF NodesInv, ControlInv
<1>3. DOMAIN nodes = 1 .. Len(nodes) /\ DOMAIN nodes' = 1 .. Len(nodes')
  BY <1>2 DEF IsNodes
<1> QED BY <1>1, <1>3 DEF NodeIds

(* Begin either gives up on a blank text or makes the root.                *)
LEMMA ResultBegins ==
  ASSUME CursorAssumption, CallInv, ResultInv, NodesInv', Begin
  PROVE  ResultInv'
<1>1. /\ input \in Inputs /\ pc = "start" /\ cur.offset = 0 /\ input' = input
      /\ state' = state /\ state = NoState
  BY DEF CallInv, StringInv, Begin, ResultInv
<1>2. CASE ~WsOk(cur) /\ pc' = "done"
  <2>1. Blank
    BY <1>1, <1>2, BlankText
  <2>2. Blank'
    BY <1>1, <2>1 DEF Blank
  <2> QED BY <1>1, <1>2, <2>2 DEF ResultInv
<1>3. ASSUME NEW node, nodes' = <<node>>, pc' \in {"enter", "finish"}
      PROVE  ResultInv'
  <2>1. Root \in NodeIds'
    BY <1>3 DEF NodeIds, Root
  <2> QED BY <1>1, <1>3, <2>1 DEF ResultInv
<1>4. \/ ~WsOk(cur) /\ pc' = "done"
      \/ \E node : nodes' = <<node>> /\ pc' = "enter"
      \/ \E node : nodes' = <<node>> /\ pc' = "finish"
  BY Zenon DEF Begin, BeginWith
<1> QED BY <1>2, <1>3, <1>4

(* A step between the first and the last: the root stays.                  *)
LEMMA ResultGoesOn ==
  ASSUME NodesInv, NodesInv', ResultInv, pc \notin {"start", "finish", "done"},
         pc' \notin {"start", "done"}, UNCHANGED state,
         pc' = "finish" => \E c, ret, ns : DOMAIN ns = DOMAIN nodes /\ Return(c, ret, ns)
  PROVE  ResultInv'
<1>1. Root \in NodeIds /\ IsNodes(nodes) /\ state = NoState
  BY DEF ResultInv, NodesInv, ControlInv
<1>2. Root \in NodeIds'
  <2>1. CASE pc' = "finish"
    BY <1>1, <2>1, ReturnFindsRoot
  <2>2. CASE pc' # "finish"
    <3>1. stack' # << >> /\ stack' \in Seq(Frames')
      BY <2>2 DEF NodesInv, ControlInv
    <3>2. 1 \in 1 .. Len(stack')
      BY <3>1
    <3>3. Caller(1)' \in NodeIds'
      BY <3>2 DEF NodesInv, ControlInv
    <3> QED BY <3>3 DEF Caller
  <2> QED BY <2>1, <2>2
<1> QED BY <1>1, <1>2 DEF ResultInv

(* Every step of the parser keeps what the result will be.                 *)
LEMMA ResultKeeps ==
  ASSUME CursorAssumption, NodesInv, NodesInv', CallInv, ResultInv, [Next]_vars
  PROVE  ResultInv'
<1>1. IsNodes(nodes) /\ \A x : DOMAIN [nodes EXCEPT ![ptr].key = x] = DOMAIN nodes
  BY DEF NodesInv, ControlInv
<1>2. CASE Begin
  BY <1>2, ResultBegins
<1>3. CASE Enter
  <2>1. /\ pc = "enter" /\ UNCHANGED state
        /\ pc' = "loop" \/ \E c : Return(c, NULL, nodes)
    BY <1>3, Zenon DEF Enter
  <2> QED BY <2>1, ResultGoesOn DEF Return
<1>4. CASE Element
  <2>1. /\ pc = "loop" /\ UNCHANGED state
        /\ \/ \E c : Return(c, NULL, nodes)
           \/ \E c : ExpectValue(c, nodes)
    BY <1>4, Zenon DEF Element
  <2>2. pc' = "value" \/ \E c, ret : Return(c, ret, nodes)
    BY <2>1 DEF ExpectValue, ReturnList
  <2> QED BY <2>1, <2>2, ResultGoesOn DEF Return
<1>5. CASE Member
  <2>1. /\ pc = "loop" /\ UNCHANGED state
        /\ pc' = "key" \/ \E c : Return(c, NULL, nodes)
    BY <1>5, Zenon DEF Member
  <2> QED BY <2>1, ResultGoesOn DEF Return
<1>6. CASE Key
  <2> DEFINE ns == [nodes EXCEPT ![ptr].key = ReturnedText]
  <2>1. /\ pc = "key" /\ UNCHANGED state
        /\ \/ \E c : Return(c, NULL, ns)
           \/ \E c : ExpectValue(c, ns)
    BY <1>6, Zenon DEF Key
  <2>2. DOMAIN ns = DOMAIN nodes
    BY <1>1
  <2> HIDE DEF ns
  <2>3. pc' = "value" \/ \E c, ret : Return(c, ret, ns)
    BY <2>1 DEF ExpectValue, ReturnList
  <2> QED BY <2>1, <2>2, <2>3, ResultGoesOn DEF Return
<1>7. CASE Value
  <2>1. pc = "value" /\ pc' \in {"after", "text", "enter"} /\ UNCHANGED state
    BY <1>7 DEF Value, ParseNumber, ParseStrnum, ParseString, ParseText, ParseNull, ParseBool,
                ParseObject, ParseArray, ParseContainer
  <2> QED BY <2>1, ResultGoesOn
<1>8. CASE TextValue
  <2>1. pc = "text" /\ pc' = "after" /\ UNCHANGED state
    BY <1>8 DEF TextValue
  <2> QED BY <2>1, ResultGoesOn
<1>9. CASE AfterValue
  <2>1. /\ pc = "after" /\ UNCHANGED state
        /\ \/ pc' = "loop"
           \/ \E c : Return(c, NULL, nodes)
           \/ \E c : ReturnList(c, nodes)
    BY <1>9, Zenon DEF AfterValue, AfterComma
  <2>2. pc' = "loop" \/ \E c, ret : Return(c, ret, nodes)
    BY <2>1 DEF ReturnList
  <2> QED BY <2>1, <2>2, ResultGoesOn DEF Return
<1>10. CASE Finish
  <2>1. /\ pc = "finish" /\ pc' = "done" /\ nodes' = nodes
        /\ state' = [error |-> cur.err, ch |-> jsonPeek(cur), offset |-> cur.offset]
    BY <1>10 DEF Finish
  <2>2. cur.err \in JSON_ERRNO
    BY DEF CallInv, StringInv, StrTypeOK, Cursor
  <2>3. state'.error = cur.err /\ NoState.error = "none"
    BY <2>1 DEF NoState
  <2>4. "none" \notin JSON_ERRNO
    BY DEF JSON_ERRNO
  <2>5. state' # NoState
    BY <2>2, <2>3, <2>4
  <2> QED BY <2>1, <2>5 DEF ResultInv, NodeIds, NoState
<1>11. CASE StringRuns
  <2>1. str.pc # "idle"
    BY <1>11 DEF StringRuns, StringStep, SizeStep, SizeEnd, CopyPlain, CopyEscape,
                 CopyUnicode, CopyBadEscape, CopyQuote, Copying
  <2>2. pc \in {"key", "text"} /\ UNCHANGED <<pc, nodes, state>>
    BY <1>11, <2>1 DEF CallInv, StringRuns, parserVars
  <2> QED BY <2>2 DEF ResultInv, NodeIds
<1>12. CASE UNCHANGED vars
  BY <1>12 DEF vars, parserVars, ResultInv, NodeIds, Blank
<1> QED BY <1>2, <1>3, <1>4, <1>5, <1>6, <1>7, <1>8, <1>9, <1>10, <1>11, <1>12 DEF Next

(* Before the call the cursor is on the first character.                   *)
LEMMA ResultBefore ==
  ASSUME Init
  PROVE  ResultInv
BY DEF Init, StringInit, ResultInv

(* jsonParse returns NULL, with no errno to ask for, only for a text of    *)
(* white space; any other text, broken or not, has a root and its state.   *)
NullOnlyForBlank ==
  pc = "done" => (state = NoState /\ Blank) \/ (Finished /\ Root \in NodeIds)

(* The third inductive invariant: the root, and where its state comes from.*)
THEOREM ResultInvariant == Spec => []ResultInv
<1>1. Init => ResultInv
  BY ResultBefore
<1>2. NodesInv /\ NodesInv' /\ CallInv /\ ResultInv /\ [Next]_vars => ResultInv'
  BY CursorAssumption, ResultKeeps
<1> QED BY <1>1, <1>2, NodesInvariant, CallInvariant, PTL DEF Spec

(* It does.                                                                *)
THEOREM ResultIsRoot == Spec => []NullOnlyForBlank
<1>1. ResultInv => NullOnlyForBlank
  BY DEF ResultInv, NullOnlyForBlank, Finished
<1> QED BY <1>1, ResultInvariant, PTL
-----------------------------------------------------------------------------
(* An error never set the parser going again, but in two ways: a member    *)
(* whose key failed is given a value all the same, and a text that ends    *)
(* behind an opening bracket is entered there over and over.               *)
BracketEnds == buflen > 0 /\ At(buflen - 1) = "["

(* One of the first n activations is at a member whose key failed.         *)
Spoiled(ns, s, n) ==
  \E i \in 1 .. n : s[i].fn = "object" /\ ns[s[i].J].key = NullText
KeyFailed == \E i \in 1 .. Len(stack) : /\ stack[i].fn = "object" /\ stack[i].J # NULL
                                        /\ nodes[stack[i].J].key = NullText

(* What the parser is about to read is what its state says.                *)
Reading ==
  /\ pc = "start" => cur.err = "JSON_OK"
  /\ pc = "enter" => jsonPeek(cur) = IF Top.fn = "object" THEN "{" ELSE "["
  /\ pc = "key"   => Top.fn = "object"
  /\ pc = "value" => ptype = ExpectedType(jsonPeek(cur))

(* After an error the parser does not come to a value: the cursor is on    *)
(* the last character, which is neither a quote nor begins a value, or     *)
(* will be when the string has failed.                                     *)
Late == cur.offset + 1 >= buflen
ErrorInv ==
  /\ Reading
  /\ ~BracketEnds /\ cur.err # "JSON_OK" =>
       /\ pc = "enter" => Spoiled(nodes, stack, Len(stack) - 1)
       /\ pc = "loop"  => \/ Spoiled(nodes, stack, Len(stack) - 1)
                          \/ Late /\ jsonPeek(cur) = ","
                          \/ Late /\ jsonPeek(cur) = "{" /\ Top.fn = "object"
       /\ pc = "key"   => Spoiled(nodes, stack, Len(stack) - 1) \/ CallSound
       /\ pc = "value" => Spoiled(nodes, stack, Len(stack))

(* The waiting activations are at nodes that no assignment to the node at  *)
(* p->ptr reaches.                                                         *)
LEMMA WaitingNodes ==
  ASSUME NodesInv, stack # << >>
  PROVE  /\ Len(stack) \in Nat \ {0}
         /\ \A i \in 1 .. Len(stack) - 1 :
              /\ stack[i].J \in NodeIds
              /\ pc \in {"loop", "key", "value", "text"} => stack[i].J # ptr
<1>1. Len(stack) \in Nat \ {0}
  BY DEF NodesInv, ControlInv
<1> SUFFICES ASSUME NEW i \in 1 .. Len(stack) - 1
             PROVE  /\ stack[i].J \in NodeIds
                    /\ pc \in {"loop", "key", "value", "text"} => stack[i].J # ptr
  BY <1>1
<1>2. i + 1 \in 1 .. Len(stack) /\ i + 1 # 1 /\ (i + 1) - 1 = i
  BY <1>1
<1>3. Caller(i + 1) = stack[i].J
  BY <1>2 DEF Caller
<1> QED BY <1>2, <1>3 DEF NodesInv, ControlInv, UnionInv

(* What begins no value.                                                   *)
LEMMA NoValue ==
  /\ ExpectedType(",") = "none" /\ ExpectedType(":") = "none"
  /\ \A ch : ExpectedType(ch) = "JSON_PARSER_OBJECT" => ch = "{"
  /\ \A ch : ExpectedType(ch) = "JSON_PARSER_ARRAY" => ch = "["
  /\ \A ch \in {",", ":", "{", "["} : ~isWhiteSpace(ch) /\ ch # QUOTE /\ ch # NUL
BY DEF ExpectedType, numStart, isNum, QUOTE, isWhiteSpace, NUL

(* The bracket is the last character of the text.                          *)
LEMMA LateBracket ==
  ASSUME CursorAssumption, input \in Inputs, NEW c \in Cursor,
         c.offset + 1 >= buflen, jsonPeek(c) = "["
  PROVE  BracketEnds
<1>1. buflen \in Nat /\ c.offset \in Nat
  BY TextFacts DEF Cursor
<1>2. c.offset < buflen
  BY <1>1, NoValue, TextEnds DEF jsonPeek
<1>3. c.offset = buflen - 1
  BY <1>1, <1>2
<1> QED BY <1>1, <1>2, <1>3 DEF BracketEnds, jsonPeek

(* The text does not change, so neither does what it holds.                *)
LEMMA TextSame ==
  ASSUME UNCHANGED input
  PROVE  /\ buflen' = buflen /\ BracketEnds' = BracketEnds
         /\ jsonPeek(cur)' = jsonPeek(cur')
BY DEF buflen, BracketEnds, jsonPeek, At

(* An activation that returns is followed by others that return.           *)
LEMMA ErrorReturns ==
  ASSUME pc' \in {"after", "text", "finish", "done"}
  PROVE  ErrorInv'
BY DEF ErrorInv, Reading

(* The opening bracket is passed, unless it is the last character.         *)
LEMMA ErrorEnters ==
  ASSUME CursorAssumption, NodesInv, CallInv, ErrorInv, Enter
  PROVE  ErrorInv'
<1> DEFINE c1 == jsonAdvance(cur)
           c2 == jsonAdvanceWhitespace(c1)
<1>1. /\ input \in Inputs /\ cur \in Cursor /\ UNCHANGED input /\ pc = "enter"
      /\ stack # << >> /\ stack \in Seq(Frames) /\ IsNodes(nodes)
  BY DEF CallInv, StringInv, StrTypeOK, Enter, NodesInv, ControlInv
<1>2. c1 \in Cursor
  BY <1>1, AdvanceTyped
<1>3. \/ pc' \in {"after", "finish"}
      \/ /\ WsOk(c1) /\ cur' = c2 /\ pc' = "loop"
         /\ nodes' = Append(nodes, NewNode)
         /\ stack' = [stack EXCEPT ![Len(stack)].val = Len(nodes) + 1]
  BY Zenon DEF Enter, Return
<1>4. CASE /\ WsOk(c1) /\ cur' = c2 /\ pc' = "loop"
           /\ nodes' = Append(nodes, NewNode)
           /\ stack' = [stack EXCEPT ![Len(stack)].val = Len(nodes) + 1]
  <2> SUFFICES ASSUME ~BracketEnds, cur'.err # "JSON_OK"
               PROVE  \/ Spoiled(nodes', stack', Len(stack') - 1)
                      \/ Late' /\ jsonPeek(cur') = "{" /\ Top'.fn = "object"
    BY <1>1, <1>4, TextSame DEF ErrorInv, Reading
  <2>1. Len(nodes) + 1 \in Nat /\ Len(stack) \in Nat \ {0}
    BY <1>1 DEF IsNodes
  <2>2. /\ Len(stack') = Len(stack) /\ stack' \in Seq(Frames)
        /\ \A i \in 1 .. Len(stack) - 1 : stack'[i] = stack[i]
    <3>1. LET t == [stack EXCEPT ![Len(stack)].val = Len(nodes) + 1]
          IN  /\ t \in Seq(Frames) /\ Len(t) = Len(stack)
              /\ \A i \in 1 .. Len(stack) - 1 : t[i] = stack[i]
      BY <1>1, <2>1, LocalSet
    <3> QED BY <1>4, <3>1
  <2>3. stack'[Len(stack)].fn = stack[Len(stack)].fn
    <3>1. stack[Len(stack)] \in Frames /\ DOMAIN stack = 1 .. Len(stack)
      BY <1>1, <2>1
    <3>2. stack'[Len(stack)] = [stack[Len(stack)] EXCEPT !.val = Len(nodes) + 1]
      BY <1>4, <2>1, <3>1
    <3> QED BY <3>1, <3>2 DEF Frames
  <2>4. c2.err = c1.err
    BY <1>2, <1>4, SkipsOnlyBlanks
  <2> HIDE DEF c2
  <2>5. CASE cur.err # "JSON_OK"
    <3>1. Spoiled(nodes, stack, Len(stack) - 1)
      BY <1>1, <2>5 DEF ErrorInv
    <3>2. \A n \in NodeIds : nodes'[n] = nodes[n]
      BY <1>1, <1>4, NodeAppended, NewNodeTyped DEF NodeIds
    <3>3. \A i \in 1 .. Len(stack) - 1 : nodes'[stack[i].J] = nodes[stack[i].J]
      BY <1>1, <3>2, WaitingNodes
    <3> QED BY <2>1, <2>2, <3>1, <3>3 DEF Spoiled
  <2>6. CASE cur.err = "JSON_OK"
    <3>1. c1.err # cur.err
      BY <1>4, <2>4, <2>6
    <3>2. c1.offset = cur.offset /\ cur.offset + 1 >= buflen
      BY <1>1, <3>1, AdvanceOrStays
    <3>3. jsonPeek(c1) = IF Top.fn = "object" THEN "{" ELSE "["
      BY <1>1, <3>2 DEF ErrorInv, Reading, jsonPeek
    <3>4. c2 = c1
      BY <1>2, <3>3, NoValue, SkipsOnlyBlanks DEF c2
    <3>5. Top.fn = "object"
      BY <1>1, <1>2, <3>2, <3>3, LateBracket
    <3>6. Top'.fn = "object"
      BY <2>2, <2>3, <3>5 DEF Top
    <3> QED BY <1>1, <1>4, <3>2, <3>3, <3>4, <3>5, <3>6, TextSame DEF Late
  <2> QED BY <2>5, <2>6
<1> QED BY <1>3, <1>4, ErrorReturns

(* A value is expected: an error the parser came with has an excuse.       *)
LEMMA ErrorExpects ==
  ASSUME CursorAssumption, NodesInv, NEW ns, NEW c \in Cursor, UNCHANGED input,
         stack # << >>, ExpectValue(c, ns),
         ExpectedType(jsonPeek(c)) # "none" /\ ~BracketEnds /\ c.err # "JSON_OK" =>
           \/ /\ Spoiled(nodes, stack, Len(stack) - 1)
              /\ \A i \in 1 .. Len(stack) - 1 : ns[stack[i].J].key = nodes[stack[i].J].key
           \/ Top.fn = "object" /\ ns[ptr].key = NullText
  PROVE  ErrorInv'
<1>1. \/ pc' \in {"after", "finish"}
      \/ /\ ExpectedType(jsonPeek(c)) # "none"
         /\ cur' = c /\ nodes' = ns /\ pc' = "value"
         /\ ptype' = ExpectedType(jsonPeek(c))
         /\ stack' = [stack EXCEPT ![Len(stack)].J = ptr]
  BY DEF ExpectValue, ReturnList, Return
<1>2. CASE /\ ExpectedType(jsonPeek(c)) # "none"
           /\ cur' = c /\ nodes' = ns /\ pc' = "value"
           /\ ptype' = ExpectedType(jsonPeek(c))
           /\ stack' = [stack EXCEPT ![Len(stack)].J = ptr]
  <2>1. Reading'
    BY <1>2, TextSame DEF Reading
  <2> SUFFICES ASSUME ~BracketEnds, c.err # "JSON_OK"
               PROVE  Spoiled(nodes', stack', Len(stack'))
    BY <1>2, <2>1, TextSame DEF ErrorInv
  <2>2. /\ stack \in Seq(Frames) /\ ptr \in Nat /\ Len(stack) \in Nat \ {0}
        /\ Len(stack) \in 1 .. Len(stack)
    BY DEF NodesInv, ControlInv, NULL, NodeIds
  <2>3. /\ Len(stack') = Len(stack)
        /\ \A i \in 1 .. Len(stack) - 1 : stack'[i] = stack[i]
        /\ stack'[Len(stack)].J = ptr
    <3>1. LET t == [stack EXCEPT ![Len(stack)].J = ptr]
          IN  /\ Len(t) = Len(stack)
              /\ \A i \in 1 .. Len(stack) - 1 : t[i] = stack[i]
              /\ t[Len(stack)].J = ptr
      BY <2>2, LocalSet
    <3> QED BY <1>2, <3>1
  <2>4. stack'[Len(stack)].fn = Top.fn
    <3>1. stack[Len(stack)] \in Frames /\ DOMAIN stack = 1 .. Len(stack)
      BY <2>2
    <3>2. stack'[Len(stack)] = [stack[Len(stack)] EXCEPT !.J = ptr]
      BY <1>2, <2>2, <3>1
    <3> QED BY <3>1, <3>2 DEF Frames, Top
  <2>5. CASE /\ Spoiled(nodes, stack, Len(stack) - 1)
             /\ \A i \in 1 .. Len(stack) - 1 : ns[stack[i].J].key = nodes[stack[i].J].key
    <3>1. PICK i \in 1 .. Len(stack) - 1 :
            stack[i].fn = "object" /\ nodes[stack[i].J].key = NullText
      BY <2>5 DEF Spoiled
    <3>2. i \in 1 .. Len(stack') /\ stack'[i].fn = "object" /\ nodes'[stack'[i].J].key = NullText
      BY <1>2, <2>2, <2>3, <2>5, <3>1
    <3> QED BY <3>2 DEF Spoiled
  <2>6. CASE Top.fn = "object" /\ ns[ptr].key = NullText
    BY <1>2, <2>2, <2>3, <2>4, <2>6 DEF Spoiled
  <2> QED BY <1>2, <2>5, <2>6
<1> QED BY <1>1, <1>2, ErrorReturns
(* The loop of an array, up to its value.                                  *)
LEMMA ErrorInArray ==
  ASSUME CursorAssumption, NodesInv, CallInv, ErrorInv, Element
  PROVE  ErrorInv'
<1> DEFINE c == jsonAdvanceWhitespace(cur)
<1>1. /\ input \in Inputs /\ cur \in Cursor /\ UNCHANGED input /\ pc = "loop"
      /\ stack # << >> /\ Top.fn = "array"
  BY DEF CallInv, StringInv, StrTypeOK, Element, NodesInv, ControlInv
<1>2. c \in Cursor
  BY <1>1, WhitespaceTyped
<1>3. \/ pc' \in {"after", "finish"}
      \/ WsOk(cur) /\ ExpectValue(c, nodes)
  BY Zenon DEF Element, Return
<1>4. CASE WsOk(cur) /\ ExpectValue(c, nodes)
  <2>1. c.err = cur.err
    BY <1>1, <1>4, SkipsOnlyBlanks
  <2>2. ASSUME ExpectedType(jsonPeek(c)) # "none", ~BracketEnds, c.err # "JSON_OK"
        PROVE  Spoiled(nodes, stack, Len(stack) - 1)
    <3>1. Spoiled(nodes, stack, Len(stack) - 1) \/ jsonPeek(cur) = ","
      BY <1>1, <2>1, <2>2 DEF ErrorInv
    <3>2. jsonPeek(cur) = "," => c = cur
      BY <1>1, NoValue, SkipsOnlyBlanks
    <3> QED BY <2>2, <3>1, <3>2, NoValue
  <2> HIDE DEF c
  <2> QED BY <1>1, <1>2, <1>4, <2>2, ErrorExpects
<1> QED BY <1>3, <1>4, ErrorReturns

(* The loop of an object, up to its key: there is no key at the end.       *)
LEMMA ErrorInObject ==
  ASSUME CursorAssumption, NodesInv, CallInv, ErrorInv, Member
  PROVE  ErrorInv'
<1> DEFINE c == jsonAdvanceWhitespace(cur)
<1>1. /\ input \in Inputs /\ cur \in Cursor /\ UNCHANGED input /\ pc = "loop"
      /\ Top.fn = "object"
  BY DEF CallInv, StringInv, StrTypeOK, Member
<1>2. c \in Cursor
  BY <1>1, WhitespaceTyped
<1>3. \/ pc' \in {"after", "finish"}
      \/ /\ WsOk(cur) /\ jsonPeek(c) = QUOTE /\ StringCalledAt(c)
         /\ pc' = "key" /\ UNCHANGED <<stack, nodes>>
  BY Zenon DEF Member, Return
<1>4. CASE /\ WsOk(cur) /\ jsonPeek(c) = QUOTE /\ StringCalledAt(c)
           /\ pc' = "key" /\ UNCHANGED <<stack, nodes>>
  <2>1. c.err = cur.err
    BY <1>1, <1>4, SkipsOnlyBlanks
  <2>2. ASSUME ~BracketEnds, ~Spoiled(nodes, stack, Len(stack) - 1)
        PROVE  cur.err = "JSON_OK"
    <3>1. cur.err # "JSON_OK" => jsonPeek(cur) \in {",", "{"}
      BY <1>1, <2>2 DEF ErrorInv
    <3>2. jsonPeek(cur) \in {",", "{"} => c = cur
      BY <1>1, NoValue, SkipsOnlyBlanks
    <3> QED BY <1>4, <3>1, <3>2, NoValue
  <2> HIDE DEF c
  <2>3. ~BracketEnds => Spoiled(nodes, stack, Len(stack) - 1) \/ CallSound'
    BY <1>1, <1>2, <1>4, <2>1, <2>2, CallIsSound DEF OnLast
  <2>4. Reading'
    BY <1>1, <1>4 DEF Reading, Top
  <2> QED BY <1>1, <1>4, <2>3, <2>4, TextSame DEF ErrorInv
<1> QED BY <1>3, <1>4, ErrorReturns

(* The key: a value follows one that failed, and the error stays.          *)
LEMMA ErrorAtKey ==
  ASSUME CursorAssumption, NodesInv, CallInv, ErrorInv, Key
  PROVE  ErrorInv'
<1> DEFINE ns == [nodes EXCEPT ![ptr].key = ReturnedText]
           c1 == jsonAdvanceToTerminator(cur, ":")
           c2 == jsonAdvance(c1)
           c3 == jsonAdvanceWhitespace(c2)
<1>1. /\ input \in Inputs /\ cur \in Cursor /\ UNCHANGED input /\ pc = "key"
      /\ Top.fn = "object" /\ stack # << >> /\ StringReturned
      /\ IsNodes(nodes) /\ ptr \in NodeIds
  BY DEF CallInv, StringInv, StrTypeOK, Key, NodesInv, ControlInv, ErrorInv, Reading
<1>2. c1 \in Cursor /\ c2 \in Cursor /\ c3 \in Cursor
  BY <1>1, AdvanceTyped, WhitespaceTyped, TerminatorTyped
<1>3. \/ pc' \in {"after", "finish"}
      \/ jsonPeek(c1) = ":" /\ WsOk(c2) /\ ExpectValue(c3, ns)
  BY Zenon DEF Key, Return
<1>4. CASE jsonPeek(c1) = ":" /\ WsOk(c2) /\ ExpectValue(c3, ns)
  <2>1. c1.err = cur.err /\ c3.err = c2.err
    BY <1>1, <1>2, <1>4, SkipsOnlyBlanks DEF jsonAdvanceToTerminator, Cursor
  <2>2. ns[ptr].key = ReturnedText /\ \A n \in NodeIds \ {ptr} : ns[n] = nodes[n]
    <3>1. ptr \in DOMAIN nodes /\ \A n \in NodeIds : n \in DOMAIN nodes
      BY <1>1 DEF IsNodes, NodeIds
    <3>2. IsNode(nodes[ptr])
      BY <1>1 DEF IsNodes, NodeIds
    <3>3. [nodes[ptr] EXCEPT !.key = ReturnedText].key = ReturnedText
      BY <3>2 DEF IsNode
    <3> QED BY <3>1, <3>3
  <2> HIDE DEF ns
  <2>3. \A i \in 1 .. Len(stack) - 1 : ns[stack[i].J].key = nodes[stack[i].J].key
    BY <1>1, <2>2, WaitingNodes
  <2>4. CASE c2.err # c1.err
    <3>1. c2.offset = c1.offset
      BY <1>1, <1>2, <2>4, AdvanceOrStays
    <3>2. jsonPeek(c2) = ":"
      BY <1>4, <3>1 DEF jsonPeek
    <3>3. c3 = c2
      BY <1>1, <1>2, <3>2, NoValue, SkipsOnlyBlanks
    <3> HIDE DEF c2, c3
    <3>4. jsonPeek(c3) = ":"
      BY <3>2, <3>3
    <3>5. ExpectedType(jsonPeek(c3)) = "none"
      BY <3>4, NoValue
    <3> QED BY <1>1, <1>2, <1>4, <3>5, ErrorExpects
  <2>5. CASE c2.err = c1.err
    <3>1. ASSUME ~BracketEnds, c3.err # "JSON_OK"
          PROVE  \/ Spoiled(nodes, stack, Len(stack) - 1)
                 \/ ns[ptr].key = NullText
      <4>1. cur.err # "JSON_OK"
        BY <2>1, <2>5, <3>1
      <4>2. Spoiled(nodes, stack, Len(stack) - 1) \/ CallSound
        BY <1>1, <3>1, <4>1 DEF ErrorInv
      <4>3. CallSound => ns[ptr].key = NullText
        BY <1>1, <2>2, <4>1 DEF CallSound, ReturnedText, StringReturned
      <4> QED BY <4>2, <4>3
    <3> HIDE DEF c3
    <3> QED BY <1>1, <1>2, <1>4, <2>3, <3>1, ErrorExpects
  <2> QED BY <2>4, <2>5
<1> QED BY <1>3, <1>4, ErrorReturns

(* A container is entered: what excuses it is what excused its value.      *)
LEMMA ErrorAtContainer ==
  ASSUME NodesInv, CallInv, ErrorInv, pc = "value", UNCHANGED input,
         NEW fn, NEW type,
         \/ ptype = "JSON_PARSER_OBJECT" /\ fn = "object"
         \/ ptype = "JSON_PARSER_ARRAY" /\ fn = "array",
         ParseContainer(fn, type)
  PROVE  ErrorInv'
<1>1. /\ stack \in Seq(Frames) /\ stack # << >> /\ Len(stack) \in Nat \ {0}
      /\ IsNodes(nodes) /\ ptr \in NodeIds /\ Top.J = ptr /\ fn \in {"object", "array"}
  BY DEF NodesInv, ControlInv
<1>2. /\ stack' = Append(stack, Frame(fn)) /\ cur' = cur /\ pc' = "enter"
      /\ SetNode(type, nodes[ptr].value)
  BY DEF ParseContainer
<1>3. Frame(fn) \in Frames /\ Frame(fn).fn = fn
  BY <1>1 DEF Frame, Frames, NULL
<1>4. /\ Len(stack') = Len(stack) + 1
      /\ \A i \in 1 .. Len(stack) : stack'[i] = stack[i]
      /\ stack'[Len(stack) + 1] = Frame(fn)
  BY <1>1, <1>2, <1>3
<1>5. \A n \in NodeIds : nodes'[n].key = nodes[n].key
  <2> DEFINE q == [nodes[ptr] EXCEPT !.type = type]
             r == [q EXCEPT !.value = nodes[ptr].value]
             ms == [nodes EXCEPT ![ptr] = q]
  <2>1. DOMAIN nodes = 1 .. Len(nodes) /\ IsNode(nodes[ptr])
    BY <1>1 DEF IsNodes, NodeIds
  <2>2. IsNode(q) /\ q.key = nodes[ptr].key
    BY <2>1 DEF IsNode
  <2> HIDE DEF q
  <2>3. r.key = nodes[ptr].key
    BY <2>2 DEF IsNode
  <2>4. nodes' = [ms EXCEPT ![ptr].value = nodes[ptr].value]
    BY <1>2, Zenon DEF SetNode, q
  <2>5. /\ DOMAIN ms = DOMAIN nodes /\ ms[ptr] = q
        /\ \A n \in NodeIds \ {ptr} : ms[n] = nodes[n]
    BY <1>1, <2>1 DEF NodeIds
  <2> HIDE DEF ms
  <2>6. nodes'[ptr] = r /\ \A n \in NodeIds \ {ptr} : nodes'[n] = ms[n]
    BY <1>1, <2>1, <2>4, <2>5 DEF NodeIds
  <2> QED BY <2>3, <2>5, <2>6
<1>6. jsonPeek(cur) = IF fn = "object" THEN "{" ELSE "["
  BY NoValue DEF ErrorInv, Reading
<1>7. Reading'
  BY <1>1, <1>2, <1>3, <1>4, <1>6, TextSame DEF Reading, Top
<1> SUFFICES ASSUME ~BracketEnds, cur.err # "JSON_OK"
             PROVE  Spoiled(nodes', stack', Len(stack') - 1)
  BY <1>2, <1>7, TextSame DEF ErrorInv
<1>8. PICK i \in 1 .. Len(stack) : stack[i].fn = "object" /\ nodes[stack[i].J].key = NullText
  BY DEF ErrorInv, Spoiled
<1>9. stack[i].J \in NodeIds
  <2>1. i = Len(stack) \/ i \in 1 .. Len(stack) - 1
    BY <1>1
  <2> QED BY <1>1, <2>1, WaitingNodes DEF Top
<1>10. i \in 1 .. Len(stack') - 1 /\ stack'[i].fn = "object" /\ nodes'[stack'[i].J].key = NullText
  BY <1>1, <1>4, <1>5, <1>8, <1>9
<1> QED BY <1>10 DEF Spoiled

(* Every step of the parser.                                               *)
LEMMA ErrorKeeps ==
  ASSUME CursorAssumption, NodesInv, CallInv, ErrorInv, [Next]_vars
  PROVE  ErrorInv'
<1>1. input \in Inputs /\ cur \in Cursor
  BY DEF CallInv, StringInv, StrTypeOK
<1>2. CASE Begin
  <2> DEFINE c == jsonAdvanceWhitespace(cur)
  <2>1. pc = "start" /\ UNCHANGED input /\ cur.err = "JSON_OK"
    BY <1>2 DEF Begin, ErrorInv, Reading
  <2>2. \/ pc' \in {"done", "finish"}
        \/ /\ WsOk(cur) /\ cur' = c /\ pc' = "enter"
           /\ \/ jsonPeek(c) = "{" /\ stack' = <<Frame("object")>>
              \/ jsonPeek(c) = "[" /\ stack' = <<Frame("array")>>
    BY <1>2, Zenon DEF Begin, BeginWith
  <2>3. ASSUME NEW fn \in {"object", "array"}, stack' = <<Frame(fn)>>
        PROVE  Top'.fn = fn
    <3>1. Len(stack') = 1 /\ stack'[1] = Frame(fn)
      BY <2>3
    <3> QED BY <3>1 DEF Top, Frame
  <2>4. WsOk(cur) => c.err = "JSON_OK"
    BY <1>1, <2>1, SkipsOnlyBlanks
  <2> HIDE DEF c
  <2>5. CASE /\ WsOk(cur) /\ cur' = c /\ pc' = "enter"
             /\ \/ jsonPeek(c) = "{" /\ stack' = <<Frame("object")>>
                \/ jsonPeek(c) = "[" /\ stack' = <<Frame("array")>>
    <3>1. jsonPeek(cur') = IF Top'.fn = "object" THEN "{" ELSE "["
      BY <2>3, <2>5
    <3> QED BY <2>1, <2>4, <2>5, <3>1, TextSame DEF ErrorInv, Reading
  <2> QED BY <2>2, <2>5, ErrorReturns
<1>3. CASE Enter
  BY <1>3, ErrorEnters
<1>4. CASE Element
  BY <1>4, ErrorInArray
<1>5. CASE Member
  BY <1>5, ErrorInObject
<1>6. CASE Key
  BY <1>6, ErrorAtKey
<1>7. CASE Value
  <2>1. pc = "value" /\ UNCHANGED input
    BY <1>7 DEF Value
  <2>2. CASE pc' \in {"after", "text"}
    BY <2>2, ErrorReturns
  <2>3. CASE ParseObject \/ ParseArray
    BY <2>1, <2>3, ErrorAtContainer DEF ParseObject, ParseArray
  <2> QED BY <1>7, <2>2, <2>3
          DEF Value, ParseNumber, ParseStrnum, ParseString, ParseText, ParseNull, ParseBool
<1>8. CASE TextValue
  BY <1>8, ErrorReturns DEF TextValue
<1>9. CASE AfterValue
  <2> DEFINE c == jsonAdvanceWhitespace(cur)
  <2>1. \/ pc' \in {"after", "finish"}
        \/ /\ cur.err = "JSON_OK" /\ WsOk(cur) /\ jsonPeek(c) = ","
           /\ cur' = jsonAdvance(c) /\ pc' = "loop" /\ UNCHANGED input
    BY <1>9, Zenon DEF AfterValue, ReturnList, Return, AfterComma
  <2>2. c \in Cursor /\ (WsOk(cur) => c.err = cur.err)
    BY <1>1, WhitespaceTyped, SkipsOnlyBlanks
  <2> HIDE DEF c
  <2>3. CASE /\ cur.err = "JSON_OK" /\ WsOk(cur) /\ jsonPeek(c) = ","
             /\ cur' = jsonAdvance(c) /\ pc' = "loop" /\ UNCHANGED input
    <3>1. cur'.err # "JSON_OK" => cur'.offset = c.offset /\ c.offset + 1 >= buflen
      BY <1>1, <2>2, <2>3, AdvanceOrStays
    <3>2. cur'.err # "JSON_OK" => Late' /\ jsonPeek(cur') = ","
      BY <2>3, <3>1, TextSame DEF Late, jsonPeek
    <3> QED BY <2>3, <3>2, TextSame DEF ErrorInv, Reading
  <2> QED BY <2>1, <2>3, ErrorReturns
<1>10. CASE Finish
  BY <1>10, ErrorReturns DEF Finish
<1>11. CASE StringRuns
  <2>1. str.pc # "idle"
    BY <1>11 DEF StringRuns, StringStep, SizeStep, SizeEnd, CopyPlain, CopyEscape,
                 CopyUnicode, CopyBadEscape, CopyQuote, Copying
  <2>2. pc \in {"key", "text"} /\ UNCHANGED <<pc, stack, nodes>>
    BY <1>11, <2>1 DEF CallInv, StringRuns, parserVars
  <2>3. UNCHANGED input
    BY <1>11 DEF StringRuns, StringStep, SizeStep, SizeEnd, CopyPlain, CopyEscape,
                 CopyUnicode, CopyBadEscape, CopyQuote
  <2>4. CallSound => CallSound'
    BY <1>11, StepIsSound DEF StringRuns, CallInv
  <2>5. cur.err = "JSON_OK" => CallSound
    BY DEF CallSound
  <2>6. Reading'
    BY <2>2 DEF ErrorInv, Reading, Top
  <2> QED BY <2>2, <2>3, <2>4, <2>5, <2>6, TextSame DEF ErrorInv
<1>12. CASE UNCHANGED vars
  <2>1. UNCHANGED <<input, cur, str, pc, stack, nodes, ptype>>
    BY <1>12 DEF vars, parserVars
  <2> QED BY <2>1 DEF ErrorInv, Reading, BracketEnds, buflen, At, jsonPeek, Spoiled, Late,
                      CallSound, OnLast, Top
<1> QED BY <1>2, <1>3, <1>4, <1>5, <1>6, <1>7, <1>8, <1>9, <1>10, <1>11, <1>12 DEF Next

(* The fourth inductive invariant: what excuses every value that the parser*)
(* comes to with an error.                                                 *)
THEOREM ErrorInvariant == Spec => []ErrorInv
<1>1. Init => ErrorInv
  BY DEF Init, StringInit, ErrorInv, Reading
<1>2. NodesInv /\ CallInv /\ ErrorInv /\ [Next]_vars => ErrorInv'
  BY CursorAssumption, ErrorKeeps
<1> QED BY <1>1, <1>2, NodesInvariant, CallInvariant, PTL DEF Spec

(* Once errno is set, a container is entered only below a member whose key *)
(* failed, or in a text that ends behind an opening bracket.               *)
EntersOnlyExcused ==
  [][cur.err # "JSON_OK" /\ Len(stack') > Len(stack) => KeyFailed \/ BracketEnds]_vars

(* An activation is begun by Begin and by the value of a container.        *)
LEMMA NoOtherEnters ==
  ASSUME NodesInv, [Next]_vars, Len(stack') > Len(stack)
  PROVE  Begin \/ pc = "value"
<1>1. stack \in Seq(Frames) /\ Len(stack) \in Nat
  BY DEF NodesInv, ControlInv
<1>2. ASSUME stack' = stack PROVE FALSE
  BY <1>1, <1>2
<1>3. ASSUME NEW c, NEW ret, NEW ns, Return(c, ret, ns), stack # << >> PROVE FALSE
  <2>1. Len(stack') = Len(stack) - 1
    BY <1>1, <1>3, Popped DEF Return
  <2> QED BY <1>1, <2>1
<1>4. ASSUME NEW x, stack # << >>,
             \/ stack' = [stack EXCEPT ![Len(stack)].J = x]
             \/ stack' = [stack EXCEPT ![Len(stack)].val = x]
      PROVE  FALSE
  <2>1. stack' \in Seq({stack'[i] : i \in DOMAIN stack'}) /\ DOMAIN stack' = DOMAIN stack
    BY <1>1, <1>4
  <2>2. Len(stack') = Len(stack)
    BY <1>1, <1>4
  <2> QED BY <1>1, <2>2
<1>5. pc \in {"enter", "loop", "key", "after"} => stack # << >>
  BY DEF NodesInv, ControlInv
<1>6. ASSUME NEW c, NEW ns, ExpectValue(c, ns), stack # << >> PROVE FALSE
  BY <1>3, <1>4, <1>6 DEF ExpectValue, ReturnList
<1>7. ~Enter
  <2>1. Enter => \/ \E c, ret : Return(c, ret, nodes)
                 \/ stack' = [stack EXCEPT ![Len(stack)].val = Len(nodes) + 1]
    BY Zenon DEF Enter
  <2>2. Enter => stack # << >>
    BY <1>5 DEF Enter
  <2> QED BY <1>3, <1>4, <2>1, <2>2
<1>8. ~Element
  <2>1. Element => \/ \E c, ret : Return(c, ret, nodes)
                   \/ \E c : ExpectValue(c, nodes)
    BY Zenon DEF Element
  <2>2. Element => stack # << >>
    BY <1>5 DEF Element
  <2> QED BY <1>3, <1>6, <2>1, <2>2
<1>9. ~Member
  <2>1. Member => \/ \E c, ret : Return(c, ret, nodes)
                  \/ stack' = stack
    BY Zenon DEF Member
  <2>2. Member => stack # << >>
    BY <1>5 DEF Member
  <2> QED BY <1>2, <1>3, <2>1, <2>2
<1>10. ~Key
  <2>1. Key => \/ \E c, ret, ns : Return(c, ret, ns)
               \/ \E c, ns : ExpectValue(c, ns)
    BY Zenon DEF Key
  <2>2. Key => stack # << >>
    BY <1>5 DEF Key
  <2> QED BY <1>3, <1>6, <2>1, <2>2
<1>11. ~AfterValue
  <2>1. AfterValue => \/ \E c, ret : Return(c, ret, nodes)
                      \/ stack' = stack
    BY Zenon DEF AfterValue, ReturnList, AfterComma
  <2>2. AfterValue => stack # << >>
    BY <1>5 DEF AfterValue
  <2> QED BY <1>2, <1>3, <2>1, <2>2
<1>12. ~TextValue /\ ~Finish /\ ~StringRuns /\ ~UNCHANGED vars
  BY <1>2 DEF TextValue, Finish, StringRuns, vars, parserVars
<1>13. Value => pc = "value"
  BY DEF Value
<1> QED BY <1>7, <1>8, <1>9, <1>10, <1>11, <1>12, <1>13 DEF Next

(* It is so for every text.                                                *)
THEOREM EntersExcused == Spec => EntersOnlyExcused
<1>1. NodesInv /\ ErrorInv /\ [Next]_vars =>
        [cur.err # "JSON_OK" /\ Len(stack') > Len(stack) => KeyFailed \/ BracketEnds]_vars
  <2> SUFFICES ASSUME NodesInv, ErrorInv, Next, cur.err # "JSON_OK",
                      Len(stack') > Len(stack), ~BracketEnds
               PROVE  KeyFailed
    OBVIOUS
  <2>1. pc = "value"
    <3>1. ~Begin
      BY DEF Begin, ErrorInv, Reading
    <3> QED BY <3>1, NoOtherEnters
  <2>2. PICK i \in 1 .. Len(stack) :
          stack[i].fn = "object" /\ nodes[stack[i].J].key = NullText
    BY <2>1 DEF ErrorInv, Spoiled
  <2>3. stack[i].J # NULL
    <3>1. Len(stack) \in Nat \ {0} /\ Top.J \in NodeIds /\ stack # << >>
      BY <2>1 DEF NodesInv, ControlInv
    <3>2. i = Len(stack) \/ i \in 1 .. Len(stack) - 1
      BY <3>1
    <3>3. stack[i].J \in NodeIds
      BY <3>1, <3>2, WaitingNodes DEF Top
    <3> QED BY <3>3 DEF NodeIds, NULL
  <2> QED BY <2>2, <2>3 DEF KeyFailed
<1> QED BY <1>1, NodesInvariant, ErrorInvariant, PTL DEF Spec, EntersOnlyExcused

(* The parser stops at an error, as its comment says, in every text that   *)
(* does not end behind an opening bracket and whose keys are strings.      *)
THEOREM ParserStopsAtError ==
  Spec /\ []~KeyFailed /\ []~BracketEnds => StopsAtError
<1>1. NodesInv /\ [Next]_vars => Len(stack) \in Nat /\ (NodesInv' => Len(stack') \in Nat)
  BY DEF NodesInv, ControlInv
<1>2. /\ Len(stack) \in Nat /\ Len(stack') \in Nat /\ ~KeyFailed /\ ~BracketEnds
      /\ [cur.err # "JSON_OK" /\ Len(stack') > Len(stack) => KeyFailed \/ BracketEnds]_vars
      => [cur.err # "JSON_OK" => Len(stack') <= Len(stack)]_vars
  OBVIOUS
<1> QED BY <1>1, <1>2, NodesInvariant, EntersExcused, PTL
        DEF Spec, EntersOnlyExcused, StopsAtError

-----------------------------------------------------------------------------
(* jsonParseNumber reads a number from its own characters.  A loop that    *)
(* starts at or before a number terminator stops at or before it.          *)
LEMMA LoopsStop ==
  ASSUME CursorAssumption, input \in Inputs, NEW i \in 0 .. buflen,
         NEW t \in i .. buflen, isNumTerminator(At(t))
  PROVE  /\ NotNumFrom(i) <= t
         /\ Min({j \in i .. buflen : ~isHex(At(j))}) <= t
         /\ Min({j \in i .. buflen : isE(At(j)) \/ isNumTerminator(At(j))}) <= t
<1>1. buflen \in Nat
  BY TextFacts
<1>2. ~isNum(At(t)) /\ ~isHex(At(t))
  BY DEF isNumTerminator, isNum, isHex, NUL
<1>3. \A S \in SUBSET (i .. buflen) : t \in S => Min(S) <= t
  <2> SUFFICES ASSUME NEW S \in SUBSET (i .. buflen), t \in S
               PROVE  Min(S) <= t
    OBVIOUS
  <2>1. S \in SUBSET Nat /\ S # {}
    BY <1>1
  <2> QED BY <2>1, MinIsFirst
<1>4. /\ t \in {j \in i .. buflen : ~isNum(At(j))}
      /\ t \in {j \in i .. buflen : ~isHex(At(j))}
      /\ t \in {j \in i .. buflen : isE(At(j)) \/ isNumTerminator(At(j))}
  BY <1>2
<1> QED BY <1>3, <1>4 DEF NotNumFrom

(* The exponent too: its sign and its digits are not terminators.          *)
LEMMA ExponentStops ==
  ASSUME CursorAssumption, input \in Inputs, NEW i \in 0 .. buflen, isE(At(i)),
         NEW t \in i .. buflen, isNumTerminator(At(t))
  PROVE  Exponent(i).end <= t
<1> DEFINE signed == At(i + 1) \in {"-", "+"}
           first  == i + IF signed THEN 2 ELSE 1
<1>1. buflen \in Nat /\ i \in Nat /\ t \in Nat
  BY TextFacts
<1>2. i # t
  BY DEF isE, isNumTerminator, NUL
<1>3. signed => i + 1 # t
  BY DEF isNumTerminator, NUL
<1>4. first \in 0 .. buflen /\ t \in first .. buflen
  BY <1>1, <1>2, <1>3
<1>5. Exponent(i).end = NotNumFrom(first)
  BY DEF Exponent
<1> HIDE DEF first
<1> QED BY <1>4, <1>5, LoopsStop

(* stringToI64 never takes an error away.                                  *)
LEMMA IntegerKeeps ==
  ASSUME NEW c \in Cursor, NEW neg, c.err # "JSON_OK"
  PROVE  stringToI64(c, neg).cur.err # "JSON_OK"
<1>1. \A o : [c EXCEPT !.offset = o].err = c.err
  BY DEF Cursor
<1>2. CASE jsonPeek(c) = "0" /\ isX(At(c.offset + 1))
  <2> DEFINE d     == jsonUnsafeAdvanceBy(c, 2)
             stop  == Min({i \in d.offset .. buflen : ~isHex(At(i))})
             moved == [d EXCEPT !.offset = stop]
  <2>1. \A o : [d EXCEPT !.offset = o].err = c.err
    BY DEF jsonUnsafeAdvanceBy, Cursor
  <2>2. \A o : SetError([d EXCEPT !.offset = o], "JSON_INVALID_HEX").err = "JSON_INVALID_HEX"
    BY DEF jsonUnsafeAdvanceBy, SetError, Cursor
  <2> HIDE DEF d
  <2>3. stringToI64(c, neg) = stringToHex(d)
    BY <1>2 DEF stringToI64, LeadingZero, d
  <2> HIDE DEF stop
  <2>4. stringToHex(d).cur \in {moved, SetError(moved, "JSON_INVALID_HEX")}
    BY DEF stringToHex, stop
  <2> QED BY <2>1, <2>2, <2>3, <2>4
<1>3. CASE jsonPeek(c) = "0" /\ ~isX(At(c.offset + 1))
  <2>1. stringToI64(c, neg).cur = jsonAdvanceToError(c, 1, "JSON_INVALID_NUMBER")
    BY <1>3 DEF stringToI64, LeadingZero
  <2>2. stringToI64(c, neg).cur.err = "JSON_INVALID_NUMBER"
    BY <2>1 DEF jsonAdvanceToError, jsonUnsafeAdvanceBy, SetError, Cursor
  <2> QED BY <2>2
<1>4. CASE jsonPeek(c) # "0"
  <2>1. \E o : stringToI64(c, neg).cur = [c EXCEPT !.offset = o]
    BY <1>4 DEF stringToI64, DecimalInteger
  <2> QED BY <1>1, <2>1
<1> QED BY <1>2, <1>3, <1>4

(* stringToI64 does not leave the number it is called in.                  *)
LEMMA IntegerStays ==
  ASSUME CursorAssumption, input \in Inputs, NEW c \in Cursor, NEW neg,
         NEW t \in c.offset .. buflen, isNumTerminator(At(t)),
         stringToI64(c, neg).cur.err = "JSON_OK"
  PROVE  stringToI64(c, neg).cur.offset <= t
<1>1. /\ buflen \in Nat /\ c.offset \in 0 .. buflen /\ c.offset \in Nat
      /\ t \in Nat /\ c.err \in JSON_ERRNO
  BY TextFacts DEF Cursor
<1>2. CASE jsonPeek(c) = "0" /\ isX(At(c.offset + 1))
  <2> DEFINE d     == jsonUnsafeAdvanceBy(c, 2)
             stop  == Min({i \in d.offset .. buflen : ~isHex(At(i))})
             moved == [d EXCEPT !.offset = stop]
  <2>1. c.offset # t /\ c.offset + 1 # t
    BY <1>2 DEF jsonPeek, isX, isNumTerminator, NUL
  <2>2. d \in Cursor /\ d.offset = c.offset + 2 /\ d.err = c.err
    BY <1>1, <2>1, UnsafeAdvanceTyped
  <2> HIDE DEF d
  <2>3. d.offset \in 0 .. buflen /\ t \in d.offset .. buflen
    BY <1>1, <2>1, <2>2
  <2>4. stop <= t
    BY <2>3, LoopsStop
  <2>5. stringToI64(c, neg) = stringToHex(d)
    BY <1>2 DEF stringToI64, LeadingZero, d
  <2> HIDE DEF stop
  <2>6. moved.offset = stop /\ moved.err = d.err
    BY <2>2 DEF Cursor
  <2>7. SetError(moved, "JSON_INVALID_HEX").err = "JSON_INVALID_HEX"
    BY <2>2 DEF SetError, Cursor
  <2> HIDE DEF moved
  <2>8. stringToHex(d).cur \in {moved, SetError(moved, "JSON_INVALID_HEX")}
    BY DEF stringToHex, moved, stop
  <2>9. stringToHex(d).cur = moved
    BY <2>5, <2>7, <2>8
  <2> QED BY <2>2, <2>4, <2>5, <2>6, <2>9
<1>3. CASE jsonPeek(c) = "0" /\ ~isX(At(c.offset + 1))
  <2>1. stringToI64(c, neg).cur = jsonAdvanceToError(c, 1, "JSON_INVALID_NUMBER")
    BY <1>3 DEF stringToI64, LeadingZero
  <2>2. stringToI64(c, neg).cur.err = "JSON_INVALID_NUMBER"
    BY <2>1 DEF jsonAdvanceToError, jsonUnsafeAdvanceBy, SetError, Cursor
  <2> QED BY <2>2
<1>4. CASE jsonPeek(c) # "0"
  <2> DEFINE stop == Min({i \in c.offset .. buflen : isE(At(i)) \/ isNumTerminator(At(i))})
             end  == IF isE(At(stop)) THEN Exponent(stop).end ELSE stop
  <2>1. stop \in c.offset .. buflen /\ stop <= t
    BY <1>1, LoopsStop, NumberLoopsEnd
  <2>2. stringToI64(c, neg).cur = [c EXCEPT !.offset = end]
    BY <1>4 DEF stringToI64, DecimalInteger
  <2> HIDE DEF stop
  <2>3. stop \in 0 .. buflen /\ t \in stop .. buflen
    BY <1>1, <2>1
  <2>4. end <= t
    BY <2>1, <2>3, ExponentStops
  <2> HIDE DEF end
  <2> QED BY <2>2, <2>4 DEF Cursor
<1> QED BY <1>2, <1>3, <1>4

(* countNumberLen: an error and the length 0, or the cursor as it was and  *)
(* the characters up to the first terminator.                              *)
LEMMA LengthIsExact ==
  ASSUME CursorAssumption, input \in Inputs, NEW c \in Cursor
  PROVE  \/ countNumberLen(c).cur.err # "JSON_OK" /\ countNumberLen(c).len = 0
         \/ /\ countNumberLen(c).cur = c
            /\ countNumberLen(c).len = TerminatorFrom(c.offset) - c.offset
<1> DEFINE end == TerminatorFrom(c.offset)
           bad == {i \in c.offset .. end - 1 : NotInNumber(At(i)) \/ Repeats(i, c.offset)}
           Fail(i) == [cur |-> jsonAdvanceToError(c, i - c.offset, "JSON_INVALID_NUMBER"),
                       len |-> 0]
<1>1. \A i : Fail(i).cur.err = "JSON_INVALID_NUMBER" /\ Fail(i).len = 0
  BY DEF jsonAdvanceToError, jsonUnsafeAdvanceBy, SetError, Cursor
<1> HIDE DEF Fail
<1>2. \/ \E i : countNumberLen(c) = Fail(i)
      \/ countNumberLen(c) = [cur |-> c, len |-> end - c.offset]
  BY Zenon DEF countNumberLen, end, Fail
<1> QED BY <1>1, <1>2

(* Whatever jsonParseNumber is called with, a result without an error has  *)
(* not gone beyond the first terminator.                                   *)
LEMMA NumberStays ==
  ASSUME CursorAssumption, input \in Inputs, NEW c \in Cursor
  PROVE  StaysInNumber(c)
<1> DEFINE n == countNumberLen(c)
           t == TerminatorFrom(c.offset)
           r == jsonParseNumber(c).cur
<1>1. buflen \in Nat /\ c.offset \in Nat /\ c.offset \in 0 .. buflen
  BY TextFacts DEF Cursor
<1>2. t \in c.offset .. buflen /\ isNumTerminator(At(t))
  <2> DEFINE S == {j \in c.offset .. buflen : isNumTerminator(At(j))}
  <2>1. buflen \in S
    <3>1. isNumTerminator(At(buflen))
      BY TextFacts DEF isNumTerminator
    <3> QED BY <1>1, <3>1
  <2>2. S \in SUBSET (c.offset .. buflen)
    OBVIOUS
  <2> HIDE DEF S
  <2>3. Min(S) \in S
    BY <1>1, <2>1, <2>2, SearchEnds
  <2> QED BY <2>3 DEF TerminatorFrom, S
<1>3. \/ n.cur.err # "JSON_OK" /\ n.len = 0
      \/ n.cur = c /\ n.len = t - c.offset
  BY LengthIsExact
<1>4. n.cur \in Cursor
  BY LengthInText
<1>5. \A x : IntOf(x).cur = x.cur /\ FloatOf(x).cur = x.cur
  BY DEF IntOf, FloatOf
<1> HIDE DEF n, t
<1>6. \/ r = jsonAdvanceToError(n.cur, 0, "JSON_INVALID_NUMBER")
      \/ n.len = 1 /\ r = jsonAdvance(n.cur)
      \/ \E neg : r = stringToI64(n.cur, neg).cur
      \/ At(c.offset) = "-" /\ \E neg : r = stringToI64(jsonAdvance(n.cur), neg).cur
      \/ r = jsonUnsafeAdvanceBy(n.cur, n.len)
  <2> DEFINE p == jsonParseNumber(c)
  <2>1. \/ p.cur = jsonAdvanceToError(n.cur, 0, "JSON_INVALID_NUMBER")
        \/ n.len = 1 /\ p.cur = jsonAdvance(n.cur)
        \/ \E neg : \/ p = IntOf(stringToI64(n.cur, neg))
                    \/ /\ At(c.offset) = "-"
                       /\ p = IntOf(stringToI64(jsonAdvance(n.cur), neg))
        \/ \E ptr1, neg, idx, m :
             p = FloatOf(jsonParseFloat(n.cur, ptr1, neg, n.len, idx, m))
    BY <1>5 DEF jsonParseNumber, n
  <2>2. \A ptr1, neg, idx, m :
          jsonParseFloat(n.cur, ptr1, neg, n.len, idx, m).cur
          = jsonUnsafeAdvanceBy(n.cur, n.len)
    BY DEF jsonParseFloat
  <2> HIDE DEF p
  <2>3. r = p.cur
    BY DEF p
  <2> QED BY <1>5, <2>1, <2>2, <2>3
<1> HIDE DEF r
<1>7. SUFFICES ASSUME r.err = "JSON_OK"
               PROVE  r.offset <= t
  BY DEF StaysInNumber, r, t
<1>8. jsonAdvance(n.cur) \in Cursor
  BY <1>4, AdvanceTyped
<1>9. n.cur = c /\ n.len = t - c.offset
  <2>1. CASE n.cur.err # "JSON_OK" /\ n.len = 0
    <3>1. jsonAdvance(n.cur).err # "JSON_OK"
      BY <1>4, <2>1, AdvanceTyped
    <3>2. \A neg : /\ stringToI64(n.cur, neg).cur.err # "JSON_OK"
                   /\ stringToI64(jsonAdvance(n.cur), neg).cur.err # "JSON_OK"
      BY <1>4, <1>8, <2>1, <3>1, IntegerKeeps
    <3>3. jsonUnsafeAdvanceBy(n.cur, n.len).err # "JSON_OK"
      BY <1>4, <2>1 DEF jsonUnsafeAdvanceBy, Cursor
    <3>4. jsonAdvanceToError(n.cur, 0, "JSON_INVALID_NUMBER").err # "JSON_OK"
      BY <1>4 DEF jsonAdvanceToError, jsonUnsafeAdvanceBy, SetError, Cursor
    <3> QED BY <1>6, <1>7, <3>1, <3>2, <3>3, <3>4
  <2> QED BY <1>3, <2>1
<1>10. CASE r = jsonAdvanceToError(c, 0, "JSON_INVALID_NUMBER")
  <2>1. r.err = "JSON_INVALID_NUMBER"
    BY <1>10 DEF jsonAdvanceToError, jsonUnsafeAdvanceBy, SetError, Cursor
  <2> QED BY <1>7, <2>1
<1>11. CASE n.len = 1 /\ r = jsonAdvance(c)
  <2>1. r = jsonUnsafeAdvanceBy(c, 1) \/ r = SetError(c, "JSON_EOF")
    BY <1>11 DEF jsonAdvance
  <2>2. SetError(c, "JSON_EOF").err = "JSON_EOF"
    BY DEF SetError, Cursor
  <2>3. r.offset = c.offset + 1
    BY <1>7, <2>1, <2>2 DEF jsonUnsafeAdvanceBy, Cursor
  <2> QED BY <1>1, <1>2, <1>9, <1>11, <2>3
<1>12. CASE \E neg : r = stringToI64(c, neg).cur
  BY <1>2, <1>7, <1>12, IntegerStays
<1>13. CASE At(c.offset) = "-" /\ \E neg : r = stringToI64(jsonAdvance(c), neg).cur
  <2> DEFINE d == jsonAdvance(c)
  <2>1. c.offset # t
    BY <1>2, <1>13 DEF isNumTerminator, NUL
  <2>2. d.offset \in {c.offset, c.offset + 1}
    BY DEF jsonAdvance, jsonUnsafeAdvanceBy, SetError, Cursor
  <2>3. d \in Cursor
    BY <1>8, <1>9
  <2> HIDE DEF d
  <2>4. t \in d.offset .. buflen
    BY <1>1, <1>2, <2>1, <2>2
  <2>5. PICK neg : r = stringToI64(d, neg).cur
    BY <1>13 DEF d
  <2> QED BY <1>2, <1>7, <2>3, <2>4, <2>5, IntegerStays
<1>14. CASE r = jsonUnsafeAdvanceBy(c, n.len)
  <2>1. r.offset = c.offset + n.len
    BY <1>14 DEF jsonUnsafeAdvanceBy, Cursor
  <2> QED BY <1>1, <1>2, <1>9, <2>1
<1> QED BY <1>6, <1>9, <1>10, <1>11, <1>12, <1>13, <1>14

(* A number that is accepted is read from its own characters, wherever in  *)
(* a text of any length it stands.                                         *)
THEOREM NumbersStay == Spec => []AcceptedStaysInNumber
<1>1. CursorAssumption /\ CallInv => AcceptedStaysInNumber
  <2> SUFFICES ASSUME CursorAssumption, input \in Inputs, NEW o \in 0 .. buflen - 1
               PROVE  StaysInNumber([offset |-> o, err |-> "JSON_OK"])
    BY DEF AcceptedStaysInNumber, CallInv, StringInv, StrTypeOK
  <2>1. [offset |-> o, err |-> "JSON_OK"] \in Cursor
    BY TextFacts DEF Cursor, JSON_ERRNO
  <2> QED BY <2>1, NumberStays
<1> QED BY <1>1, CallInvariant, CursorAssumption, PTL

-----------------------------------------------------------------------------
(* Once p->errno is set it stays set: the primitives that move the cursor  *)
(* carry it along, and no function of the parser looks at an error and     *)
(* takes it back.                                                          *)
IsCursor(c) == c = [offset |-> c.offset, err |-> c.err]

(* The primitives: where they leave an error.                              *)
LEMMA MovesCarry ==
  ASSUME NEW c, IsCursor(c)
  PROVE  /\ \A n : IsCursor(jsonUnsafeAdvanceBy(c, n)) /\ jsonUnsafeAdvanceBy(c, n).err = c.err
         /\ \A e : IsCursor(SetError(c, e)) /\ SetError(c, e).err = e
         /\ \A n, e : jsonAdvanceToError(c, n, e).err = e
         /\ IsCursor(jsonAdvance(c)) /\ jsonAdvance(c).err \in {c.err, "JSON_EOF"}
         /\ IsCursor(jsonAdvanceWhitespace(c))
         /\ jsonAdvanceWhitespace(c).err = IF WsOk(c) THEN c.err ELSE "JSON_UNTERMINATED"
         /\ \A t : /\ IsCursor(jsonAdvanceToTerminator(c, t))
                   /\ jsonAdvanceToTerminator(c, t).err = c.err
<1>1. \A o : IsCursor([c EXCEPT !.offset = o]) /\ [c EXCEPT !.offset = o].err = c.err
  BY DEF IsCursor
<1>2. ASSUME NEW d, IsCursor(d), NEW e
      PROVE  IsCursor(SetError(d, e)) /\ SetError(d, e).err = e
  BY <1>2 DEF IsCursor, SetError
<1>3. \A n : IsCursor(jsonUnsafeAdvanceBy(c, n)) /\ jsonUnsafeAdvanceBy(c, n).err = c.err
  BY <1>1 DEF jsonUnsafeAdvanceBy
<1>4. \A n, e : jsonAdvanceToError(c, n, e).err = e
  BY <1>2, <1>3 DEF jsonAdvanceToError
<1>5. IsCursor(jsonAdvance(c)) /\ jsonAdvance(c).err \in {c.err, "JSON_EOF"}
  BY <1>2, <1>3 DEF jsonAdvance
<1>6. /\ IsCursor(jsonAdvanceWhitespace(c))
      /\ jsonAdvanceWhitespace(c).err = IF WsOk(c) THEN c.err ELSE "JSON_UNTERMINATED"
  BY <1>1, <1>2 DEF jsonAdvanceWhitespace, WsOk
<1>7. \A t : /\ IsCursor(jsonAdvanceToTerminator(c, t))
             /\ jsonAdvanceToTerminator(c, t).err = c.err
  BY <1>1 DEF jsonAdvanceToTerminator
<1> QED BY <1>2, <1>3, <1>4, <1>5, <1>6, <1>7

(* jsonParseUTF16, on all its paths.                                       *)
LEMMA UTF16Carries ==
  ASSUME NEW c, IsCursor(c), jsonParseUTF16(c).cur.err = "JSON_OK"
  PROVE  c.err = "JSON_OK"
<1>1. ASSUME NEW d, IsCursor(d), NEW e
      PROVE  UTF16Error(d, e).cur.err = e
  BY <1>1, MovesCarry DEF UTF16Error
<1>2. ASSUME NEW d, IsCursor(d), NEW high, LowSurrogate(d, high).cur.err = "JSON_OK"
      PROVE  d.err = "JSON_OK"
  <2> DEFINE next == jsonAdvance(d)
             low  == jsonUnsafeAdvanceBy(next, 2)
  <2>1. IsCursor(next) /\ next.err \in {d.err, "JSON_EOF"}
    BY <1>2, MovesCarry
  <2> HIDE DEF next
  <2>2. IsCursor(low) /\ low.err = next.err
    BY <2>1, MovesCarry
  <2> HIDE DEF low
  <2>3. \/ \E e \in {"JSON_INVALID_HEX", "JSON_INVALID_UTF16", "JSON_INVALID_UTF16_SURROGATE"} :
             \/ LowSurrogate(d, high) = UTF16Error(next, e)
             \/ LowSurrogate(d, high) = UTF16Error(low, e)
        \/ LowSurrogate(d, high).cur = low
    BY DEF LowSurrogate, low, next
  <2>4. LowSurrogate(d, high).cur = low
    BY <1>1, <1>2, <2>1, <2>2, <2>3
  <2> QED BY <1>2, <2>1, <2>2, <2>4
<1> DEFINE last == jsonUnsafeAdvanceBy(c, 4)
<1>3. IsCursor(last) /\ last.err = c.err
  BY MovesCarry
<1> HIDE DEF last
<1> DEFINE high == parseHex4(Four(c.offset + 1))
<1>4. \/ jsonParseUTF16(c) = UTF16Error(c, "JSON_CANNOT_ADVANCE")
      \/ jsonParseUTF16(c) = UTF16Error(c, "JSON_INVALID_HEX")
      \/ jsonParseUTF16(c) = UTF16Error(last, "JSON_INVALID_UTF16")
      \/ jsonParseUTF16(c) = UTF16Error(last, "JSON_CANNOT_ADVANCE")
      \/ jsonParseUTF16(c) = LowSurrogate(last, high)
      \/ jsonParseUTF16(c) = [cur |-> last, codepoint |-> high]
  <2>1. jsonParseUTF16(c) =
          IF ~jsonCanAdvanceBy(c, 5) THEN UTF16Error(c, "JSON_CANNOT_ADVANCE")
          ELSE IF high = INT_MAX THEN UTF16Error(c, "JSON_INVALID_HEX")
          ELSE IF high \in 56320 .. 57343 THEN UTF16Error(last, "JSON_INVALID_UTF16")
          ELSE IF high \in 55296 .. 56319
               THEN IF jsonCanAdvanceBy(last, 6) THEN LowSurrogate(last, high)
                    ELSE UTF16Error(last, "JSON_CANNOT_ADVANCE")
          ELSE [cur |-> last, codepoint |-> high]
    BY DEF jsonParseUTF16, last
  <2> HIDE DEF high
  <2> QED BY <2>1
<1> HIDE DEF high
<1>5. jsonParseUTF16(c) = LowSurrogate(last, high) \/ jsonParseUTF16(c).cur = last
  BY <1>1, <1>3, <1>4
<1> QED BY <1>2, <1>3, <1>5

(* jsonParseString, in every step.                                         *)
LEMMA StringCarries ==
  ASSUME cur \in Cursor, StringStep, cur'.err = "JSON_OK"
  PROVE  cur.err = "JSON_OK"
<1>1. IsCursor(cur)
  BY DEF IsCursor, Cursor
<1>2. IsCursor(AfterBackslash) /\ AfterBackslash.err \in {cur.err, "JSON_EOF"}
  BY <1>1, MovesCarry DEF AfterBackslash
<1>3. ASSUME NEW unit, NEW n, NEW c, PutAndAdvance(unit, n, c), IsCursor(c)
      PROVE  c.err = "JSON_OK"
  BY <1>3, MovesCarry DEF PutAndAdvance
<1>4. CASE SizeStep
  BY <1>4 DEF SizeStep
<1>5. CASE SizeEnd
  BY <1>1, <1>5, MovesCarry DEF SizeEnd, StringFails
<1>6. CASE CopyPlain
  BY <1>1, <1>3, <1>6 DEF CopyPlain
<1>7. CASE CopyEscape
  BY <1>2, <1>3, <1>7 DEF CopyEscape
<1>8. CASE CopyUnicode
  <2>1. jsonParseUTF16(AfterBackslash).cur.err = "JSON_OK"
    BY <1>8 DEF CopyUnicode
  <2> QED BY <1>2, <2>1, UTF16Carries
<1>9. CASE CopyBadEscape
  <2>1. cur' = SetError(AfterBackslash, "JSON_INVALID_ESCAPE_CHARACTER")
    BY <1>9 DEF CopyBadEscape
  <2>2. cur'.err = "JSON_INVALID_ESCAPE_CHARACTER"
    BY <1>2, <2>1, MovesCarry
  <2> QED BY <2>2
<1>10. CASE CopyQuote
  <2>1. IsCursor(jsonAdvance(cur)) /\ jsonAdvance(cur).err \in {cur.err, "JSON_EOF"}
    BY <1>1, MovesCarry
  <2>2. \/ cur' = SetError(jsonAdvance(cur), "JSON_INVALID_STRING_NOT_TERMINATED")
        \/ cur' = jsonAdvance(cur)
    BY <1>10 DEF CopyQuote
  <2> QED BY <2>1, <2>2, MovesCarry
<1> QED BY <1>4, <1>5, <1>6, <1>7, <1>8, <1>9, <1>10 DEF StringStep

(* jsonParseNumber, on all its paths.                                      *)
LEMMA NumberCarries ==
  ASSUME CursorAssumption, input \in Inputs, NEW c \in Cursor,
         jsonParseNumber(c).cur.err = "JSON_OK"
  PROVE  c.err = "JSON_OK"
<1> DEFINE n == countNumberLen(c)
<1>1. n.cur \in Cursor /\ (n.cur.err # "JSON_OK" \/ n.cur = c)
  BY LengthInText, LengthIsExact
<1> HIDE DEF n
<1>2. IsCursor(n.cur) /\ jsonAdvance(n.cur) \in Cursor
  BY <1>1, AdvanceTyped DEF IsCursor, Cursor
<1>3. \A x : IntOf(x).cur = x.cur /\ FloatOf(x).cur = x.cur
  BY DEF IntOf, FloatOf
<1>4. \/ jsonParseNumber(c).cur = jsonAdvanceToError(n.cur, 0, "JSON_INVALID_NUMBER")
      \/ jsonParseNumber(c).cur = jsonAdvance(n.cur)
      \/ \E neg : \/ jsonParseNumber(c) = IntOf(stringToI64(n.cur, neg))
                  \/ jsonParseNumber(c) = IntOf(stringToI64(jsonAdvance(n.cur), neg))
      \/ \E ptr1, neg, idx, m :
           jsonParseNumber(c) = FloatOf(jsonParseFloat(n.cur, ptr1, neg, n.len, idx, m))
  BY <1>3 DEF jsonParseNumber, n
<1>5. \A ptr1, neg, idx, m :
        jsonParseFloat(n.cur, ptr1, neg, n.len, idx, m).cur = jsonUnsafeAdvanceBy(n.cur, n.len)
  BY DEF jsonParseFloat
<1>6. \A neg : stringToI64(jsonAdvance(n.cur), neg).cur.err = "JSON_OK" =>
                 jsonAdvance(n.cur).err = "JSON_OK"
  BY <1>2, IntegerKeeps
<1>7. \A neg : stringToI64(n.cur, neg).cur.err = "JSON_OK" => n.cur.err = "JSON_OK"
  BY <1>1, IntegerKeeps
<1>8. jsonAdvance(n.cur).err = "JSON_OK" => n.cur.err = "JSON_OK"
  BY <1>2, MovesCarry
<1>9. n.cur.err = "JSON_OK"
  BY <1>2, <1>3, <1>4, <1>5, <1>6, <1>7, <1>8, MovesCarry
<1> QED BY <1>1, <1>9

(* No step of the parser takes an error back.                              *)
LEMMA StepCarries ==
  ASSUME CursorAssumption, CallInv, [Next]_vars, cur'.err = "JSON_OK"
  PROVE  cur.err = "JSON_OK"
<1> DEFINE Sound(c) == c.err = "JSON_OK"
<1>1. cur \in Cursor /\ IsCursor(cur) /\ input \in Inputs
  BY DEF CallInv, StringInv, StrTypeOK, Cursor, IsCursor
<1>2. ASSUME NEW c, IsCursor(c)
      PROVE  /\ IsCursor(jsonAdvance(c)) /\ (Sound(jsonAdvance(c)) => Sound(c))
             /\ IsCursor(jsonAdvanceWhitespace(c)) /\ (Sound(jsonAdvanceWhitespace(c)) => Sound(c))
             /\ \A t : /\ IsCursor(jsonAdvanceToTerminator(c, t))
                       /\ Sound(jsonAdvanceToTerminator(c, t)) => Sound(c)
             /\ ~Sound(SetError(c, "JSON_CANNOT_START_PARSE"))
             /\ ~Sound(SetError(c, "JSON_CANNOT_ADVANCE"))
             /\ ~Sound(SetError(c, "JSON_INVALID_KEY_TERMINATOR_CHARACTER"))
             /\ ~Sound(SetError(c, "JSON_INVALID_JSON_TYPE_CHAR"))
             /\ ~Sound(SetError(c, UnexpectedCharacter))
  <2>1. UnexpectedCharacter # "JSON_OK"
    BY DEF UnexpectedCharacter
  <2> QED BY <1>2, <2>1, MovesCarry
<1>3. ASSUME NEW c, NEW ns, IsCursor(c), Sound(c) => Sound(cur), ExpectValue(c, ns)
      PROVE  Sound(cur)
  <2>1. cur' = c \/ cur' = SetError(c, "JSON_INVALID_JSON_TYPE_CHAR")
    BY <1>3 DEF ExpectValue, ReturnList, Return
  <2> QED BY <1>2, <1>3, <2>1
<1>4. ASSUME cur' = cur
      PROVE  Sound(cur)
  BY <1>4
<1>5. CASE Begin
  <2> DEFINE c == jsonAdvanceWhitespace(cur)
  <2>1. IsCursor(c) /\ (Sound(c) => Sound(cur))
    BY <1>1, <1>2
  <2> HIDE DEF c
  <2>2. cur' = c \/ cur' = SetError(c, "JSON_CANNOT_START_PARSE")
    BY <1>5 DEF Begin, BeginWith, c
  <2> QED BY <1>2, <2>1, <2>2
<1>6. CASE Enter
  <2> DEFINE c1 == jsonAdvance(cur)
             c2 == jsonAdvanceWhitespace(c1)
  <2>1. IsCursor(c1) /\ (Sound(c1) => Sound(cur))
    BY <1>1, <1>2
  <2> HIDE DEF c1
  <2>2. IsCursor(c2) /\ (Sound(c2) => Sound(c1))
    BY <1>2, <2>1
  <2> HIDE DEF c2
  <2>3. cur' = c2 \/ cur' = jsonAdvance(c2)
    BY <1>6 DEF Enter, Return, c1, c2
  <2> QED BY <1>2, <2>1, <2>2, <2>3
<1>7. CASE Element
  <2> DEFINE c == jsonAdvanceWhitespace(cur)
  <2>1. IsCursor(c) /\ (Sound(c) => Sound(cur))
    BY <1>1, <1>2
  <2> HIDE DEF c
  <2>2. cur' = c \/ ExpectValue(c, nodes)
    BY <1>7 DEF Element, Return, c
  <2> QED BY <1>3, <2>1, <2>2
<1>8. CASE Member
  <2> DEFINE c == jsonAdvanceWhitespace(cur)
  <2>1. IsCursor(c) /\ (Sound(c) => Sound(cur))
    BY <1>1, <1>2
  <2> HIDE DEF c
  <2>2. \/ cur' = c \/ cur' = SetError(c, "JSON_INVALID_KEY_TERMINATOR_CHARACTER")
        \/ cur' = jsonAdvance(c)
    BY <1>8, Zenon DEF Member, Return, StringCalledAt, c
  <2> QED BY <1>2, <2>1, <2>2
<1>9. CASE Key
  <2> DEFINE c1 == jsonAdvanceToTerminator(cur, ":")
             c2 == jsonAdvance(c1)
             c3 == jsonAdvanceWhitespace(c2)
             ns == [nodes EXCEPT ![ptr].key = ReturnedText]
  <2>1. IsCursor(c1) /\ (Sound(c1) => Sound(cur))
    BY <1>1, <1>2, Zenon
  <2> HIDE DEF c1
  <2>2. IsCursor(c2) /\ (Sound(c2) => Sound(c1))
    BY <1>2, <2>1
  <2> HIDE DEF c2
  <2>3. IsCursor(c3) /\ (Sound(c3) => Sound(c2))
    BY <1>2, <2>2
  <2> HIDE DEF c3, ns
  <2>4. \/ cur' = SetError(c1, "JSON_INVALID_KEY_TERMINATOR_CHARACTER")
        \/ cur' = c3
        \/ ExpectValue(c3, ns)
    BY <1>9, Zenon DEF Key, Return, c1, c2, c3, ns
  <2> QED BY <1>2, <1>3, <2>1, <2>2, <2>3, <2>4
<1>10. CASE Value
  <2>1. CASE ParseNumber
    BY <1>1, <2>1, NumberCarries DEF ParseNumber
  <2>2. CASE \E type : ParseText(type)
    <3>1. cur' = jsonAdvance(cur) \/ cur' = cur
      BY <2>2, Zenon DEF ParseText, StringCalledAt
    <3> QED BY <1>1, <1>2, <3>1
  <2>3. CASE ParseNull
    <3>1. cur' = jsonUnsafeAdvanceBy(cur, 4) \/ cur' = SetError(cur, "JSON_CANNOT_ADVANCE")
      BY <2>3 DEF ParseNull
    <3>2. jsonUnsafeAdvanceBy(cur, 4).err = cur.err
      BY <1>1, MovesCarry
    <3> QED BY <1>1, <1>2, <3>1, <3>2
  <2>4. CASE ParseBool
    <3>1. ASSUME NEW n, NEW rest, NEW bool, cur' = BoolWord(n, rest, bool).cur
          PROVE  Sound(cur)
      <4>1. \/ cur' = jsonUnsafeAdvanceBy(cur, n)
            \/ cur' = SetError(jsonUnsafeAdvanceBy(cur, n), "JSON_CANNOT_ADVANCE")
            \/ cur' = SetError(cur, "JSON_CANNOT_ADVANCE")
        BY <3>1 DEF BoolWord
      <4>2. IsCursor(jsonUnsafeAdvanceBy(cur, n)) /\ jsonUnsafeAdvanceBy(cur, n).err = cur.err
        BY <1>1, MovesCarry
      <4> QED BY <1>1, <1>2, <4>1, <4>2
    <3> QED BY <2>4, <3>1 DEF ParseBool, jsonParseBool
  <2>5. CASE \E fn, type : ParseContainer(fn, type)
    BY <1>4, <2>5 DEF ParseContainer
  <2> QED BY <1>10, <2>1, <2>2, <2>3, <2>4, <2>5
          DEF Value, ParseStrnum, ParseString, ParseObject, ParseArray
<1>11. CASE TextValue
  BY <1>4, <1>11 DEF TextValue
<1>12. CASE AfterValue
  <2> DEFINE c == jsonAdvanceWhitespace(cur)
  <2>1. IsCursor(c) /\ (Sound(c) => Sound(cur))
    BY <1>1, <1>2
  <2> HIDE DEF c
  <2>2. \/ cur' = cur \/ cur' = c \/ cur' = jsonAdvance(c)
        \/ cur' = SetError(c, UnexpectedCharacter)
    BY <1>12 DEF AfterValue, ReturnList, Return, AfterComma, c
  <2> QED BY <1>2, <1>4, <2>1, <2>2
<1>13. CASE Finish
  BY <1>4, <1>13 DEF Finish
<1>14. CASE StringRuns
  BY <1>1, <1>14, StringCarries DEF StringRuns
<1>15. CASE UNCHANGED vars
  BY <1>4, <1>15 DEF vars
<1> QED BY <1>5, <1>6, <1>7, <1>8, <1>9, <1>10, <1>11, <1>12, <1>13, <1>14, <1>15 DEF Next

(* p->errno is sticky: no step of a parse clears it, so that what is read  *)
(* at the end tells of everything that went wrong on the way.              *)
ErrorStays == [][cur.err # "JSON_OK" => cur'.err # "JSON_OK"]_vars

(* It is, for every text.                                                  *)
THEOREM ErrorsStay == Spec => ErrorStays
<1>1. CallInv /\ [Next]_vars => [cur.err # "JSON_OK" => cur'.err # "JSON_OK"]_vars
  BY CursorAssumption, StepCarries
<1> QED BY <1>1, CallInvariant, PTL DEF Spec, ErrorStays

-----------------------------------------------------------------------------
(* As long as there is no error every node but the root hangs on another   *)
(* or begins the list of an activation, which will hang it up: a return    *)
(* writes only to a node that had no child, a comma only behind one that   *)
(* had no next.                                                            *)
Bare(n) == nodes[n].next = NULL /\ nodes[n].value[1] # "child"

(* The callers were made one after the other, and p->ptr after them.       *)
ApartInv ==
  /\ \A i, j \in 1 .. Len(stack) : i < j => Caller(i) < Caller(j)
  /\ pc \in {"value", "text", "after"} => Top.J > Caller(Len(stack))
  /\ pc \in {"loop", "key"} => ptr > Caller(Len(stack))

(* Where a link will be written there is none yet.                         *)
OpenInv ==
  /\ \A i \in 1 .. Len(stack) : Bare(Caller(i))
  /\ pc \in {"value", "text", "after"} => nodes[Top.J].next = NULL
  /\ pc \in {"loop", "key", "value", "text"} => Bare(ptr)
  /\ pc = "enter" => Top.val = NULL

Held(m) == \/ \E n \in NodeIds : Leads(nodes[n], m)
           \/ \E i \in 1 .. Len(stack) : stack[i].val = m
HeldInv == cur.err = "JSON_OK" => \A m \in NodeIds \ {Root} : Held(m)

LinkInv == ApartInv /\ OpenInv /\ HeldInv

(* An activation that returns: its list hangs on its caller from now on.   *)
LEMMA ReturnLinks ==
  ASSUME NodesInv, LinkInv, NEW ns, SameLinks(ns), NEW c, NEW ret \in {NULL, Top.val},
         pc \notin {"start", "finish", "done"}, Return(c, ret, ns),
         cur'.err = "JSON_OK" => cur.err = "JSON_OK" /\ (ret = Top.val \/ Top.val = NULL)
  PROVE  LinkInv'
<1> DEFINE d == Len(stack)
           k == Caller(d)
<1>1. d \in Nat \ {0} /\ d \in 1 .. d /\ k \in NodeIds /\ ret \in {NULL} \cup NodeIds
  BY ReturnDoes
<1>2. /\ Len(stack') = d - 1 /\ (stack' = << >> <=> d = 1)
      /\ \A i \in 1 .. d - 1 : stack'[i] = stack[i] /\ Caller(i)' = Caller(i)
      /\ pc' = IF d = 1 THEN "finish" ELSE "after"
  BY ReturnDoes
<1>3. /\ NodeIds' = NodeIds
      /\ \A n \in NodeIds : /\ nodes'[n].next = nodes[n].next
                            /\ n # k => nodes'[n].value = nodes[n].value
      /\ nodes'[k].value = Child(ret)
  BY ReturnDoes
<1>4. d # 1 => (Top.J)' = k
  <2>1. ASSUME NEW e \in Nat \ {0}, e # 1
        PROVE  e - 1 \in 1 .. e - 1
    BY <2>1
  <2>2. d # 1 => k = stack[d - 1].J
    BY DEF Caller
  <2>3. d # 1 => stack'[d - 1] = stack[d - 1]
    <3>1. d # 1 => d - 1 \in 1 .. d - 1
      BY <1>1, <2>1
    <3> QED BY <1>2, <3>1
  <2>4. (Top.J)' = stack'[Len(stack')].J
    BY DEF Top
  <2> QED BY <1>2, <2>2, <2>3, <2>4
<1>5. \A i \in 1 .. d - 1 : i \in 1 .. d /\ Caller(i) < k /\ Caller(i) \in NodeIds
  BY <1>1 DEF LinkInv, ApartInv, NodesInv, ControlInv
<1>6. Bare(k)
  BY <1>1 DEF LinkInv, OpenInv
<1> HIDE DEF k
<1>7. k \in Nat /\ \A i \in 1 .. d - 1 : Caller(i) # k
  BY <1>1, <1>5 DEF NodeIds
<1>8. ApartInv'
  <2>1. \A i, j \in 1 .. d - 1 : i < j => Caller(i)' < Caller(j)'
    BY <1>2, <1>5 DEF LinkInv, ApartInv
  <2>2. \A i \in 1 .. d - 1 : k > Caller(i)'
    BY <1>2, <1>5, <1>7 DEF NodeIds
  <2>3. d # 1 => Len(stack') \in 1 .. d - 1
    BY <1>1, <1>2
  <2> QED BY <1>1, <1>2, <1>4, <2>1, <2>2, <2>3 DEF ApartInv
<1>9. OpenInv'
  <2>1. \A i \in 1 .. d - 1 : Bare(Caller(i))'
    BY <1>2, <1>3, <1>5, <1>7 DEF LinkInv, OpenInv, Bare
  <2>2. nodes'[k].next = NULL
    BY <1>1, <1>3, <1>6 DEF Bare
  <2> QED BY <1>2, <1>4, <2>1, <2>2 DEF OpenInv
<1>10. HeldInv'
  <2> SUFFICES ASSUME cur'.err = "JSON_OK", NEW m \in NodeIds', m # Root
               PROVE  Held(m)'
    BY DEF HeldInv
  <2>1. Held(m) /\ m \in NodeIds /\ m # NULL
    BY <1>3 DEF LinkInv, HeldInv, NodeIds, NULL
  <2>2. CASE \E n \in NodeIds : Leads(nodes[n], m)
    <3>1. PICK n \in NodeIds : Leads(nodes[n], m)
      BY <2>2
    <3>2. n # k
      BY <1>6, <3>1 DEF Bare, Leads
    <3>3. Leads(nodes'[n], m)
      BY <1>3, <3>1, <3>2 DEF Leads
    <3> QED BY <1>3, <3>3 DEF Held
  <2>3. CASE \E i \in 1 .. d : stack[i].val = m
    <3>1. PICK i \in 1 .. d : stack[i].val = m
      BY <2>3
    <3>2. CASE i \in 1 .. d - 1
      BY <1>2, <3>1, <3>2 DEF Held
    <3>3. CASE i = d
      <4>1. ret = m
        BY <2>1, <3>1, <3>3 DEF Top
      <4>2. Leads(nodes'[k], m)
        BY <1>3, <2>1, <4>1 DEF Leads, Child
      <4> QED BY <1>1, <1>3, <4>2 DEF Held
    <3> QED BY <1>1, <3>2, <3>3
  <2> QED BY <2>1, <2>2, <2>3 DEF Held
<1> QED BY <1>8, <1>9, <1>10 DEF LinkInv

(* Where no link changes, every node is held as before.                    *)
LEMMA HeldStill ==
  ASSUME LinkInv, NodeIds' = NodeIds,
         cur'.err = "JSON_OK" => cur.err = "JSON_OK",
         \A n \in NodeIds : \A m : Leads(nodes[n], m) => Leads(nodes'[n], m),
         Len(stack) \in Nat, Len(stack') \in Nat, Len(stack') >= Len(stack),
         \A i \in 1 .. Len(stack) : stack'[i].val = stack[i].val
  PROVE  HeldInv'
<1> SUFFICES ASSUME cur'.err = "JSON_OK", NEW m \in NodeIds', m # Root
             PROVE  Held(m)'
  BY DEF HeldInv
<1>1. Held(m)
  BY DEF LinkInv, HeldInv
<1>2. \A i \in 1 .. Len(stack) : i \in 1 .. Len(stack')
  OBVIOUS
<1> QED BY <1>1, <1>2 DEF Held

(* The activation stands at p->ptr, no node is touched but in its key.     *)
LEMMA AwaitsLinks ==
  ASSUME NodesInv, LinkInv, NEW ns, SameLinks(ns), pc \in {"loop", "key"}, Awaits(ns),
         cur'.err = "JSON_OK" => cur.err = "JSON_OK"
  PROVE  LinkInv'
<1> DEFINE d == Len(stack)
<1>1. /\ d \in Nat \ {0} /\ Len(stack') = d /\ stack'[d].J = ptr
      /\ \A i \in 1 .. d : Caller(i)' = Caller(i) /\ stack'[i].val = stack[i].val
  BY AwaitsDoes
<1>2. /\ pc' = "value" /\ ptr' = ptr /\ ptr \in NodeIds /\ NodeIds' = NodeIds
      /\ \A n \in NodeIds : nodes'[n].next = nodes[n].next /\ nodes'[n].value = nodes[n].value
  BY DEF Awaits, SameLinks, NodeIds, NodesInv, ControlInv
<1>3. (Top.J)' = ptr
  BY <1>1 DEF Top
<1>4. \A i \in 1 .. d : Caller(i) \in NodeIds
  BY DEF NodesInv, ControlInv
<1>5. ApartInv'
  BY <1>1, <1>2, <1>3 DEF LinkInv, ApartInv
<1>6. OpenInv'
  BY <1>1, <1>2, <1>3, <1>4 DEF LinkInv, OpenInv, Bare
<1>7. HeldInv'
  BY <1>1, <1>2, HeldStill DEF Leads
<1> QED BY <1>5, <1>6, <1>7 DEF LinkInv

(* The first node of a list begins it.                                     *)
LEMMA FirstNodeLinks ==
  ASSUME NodesInv, LinkInv, FirstNode, cur'.err = "JSON_OK" => cur.err = "JSON_OK"
  PROVE  LinkInv'
<1> DEFINE d   == Len(stack)
           new == Len(nodes) + 1
<1>1. /\ d \in Nat \ {0} /\ d \in 1 .. d /\ Len(nodes) \in Nat \ {0}
      /\ pc = "enter" /\ pc' = "loop" /\ ptr' = new
  BY FirstNodeDoes DEF FirstNode
<1>2. /\ Len(stack') = d /\ stack'[d].val = new
      /\ \A i \in 1 .. d - 1 : stack'[i] = stack[i]
  BY FirstNodeDoes
<1>3. (\A n \in 1 .. Len(nodes) : nodes'[n] = nodes[n]) /\ nodes'[new] = NewNode
  BY FirstNodeDoes
<1>4. \A i \in 1 .. d : Caller(i)' = Caller(i) /\ Caller(i) \in NodeIds
  BY FirstNodeDoes
<1>5. NodeIds' = 1 .. new /\ NodeIds = 1 .. Len(nodes)
  BY FirstNodeDoes
<1>6. new \in Nat /\ new > Len(nodes) /\ \A n \in 1 .. new : n = new \/ n \in 1 .. Len(nodes)
  BY <1>1
<1> HIDE DEF new
<1>7. ApartInv'
  <2>1. \A i \in 1 .. d : ptr' > Caller(i)'
    BY <1>1, <1>4, <1>5, <1>6
  <2>2. \A i, j \in 1 .. d : i < j => Caller(i)' < Caller(j)'
    BY <1>4 DEF LinkInv, ApartInv
  <2> QED BY <1>1, <1>2, <2>1, <2>2 DEF ApartInv
<1>8. OpenInv'
  <2>1. Bare(ptr)'
    BY <1>1, <1>3, NewNodeTyped DEF Bare
  <2>2. \A i \in 1 .. d : Bare(Caller(i))'
    BY <1>3, <1>4, <1>5 DEF LinkInv, OpenInv, Bare
  <2> QED BY <1>1, <1>2, <2>1, <2>2 DEF OpenInv
<1>9. HeldInv'
  <2> SUFFICES ASSUME cur'.err = "JSON_OK", NEW m \in NodeIds', m # Root
               PROVE  Held(m)'
    BY DEF HeldInv
  <2>1. CASE m = new
    BY <1>1, <1>2, <2>1 DEF Held
  <2>2. CASE m \in NodeIds
    <3>1. Held(m) /\ m # NULL
      BY <1>5, <2>2 DEF LinkInv, HeldInv, NULL
    <3>2. ASSUME NEW n \in NodeIds, Leads(nodes[n], m)
          PROVE  Held(m)'
      <4>1. n \in NodeIds' /\ Leads(nodes'[n], m)
        BY <1>1, <1>3, <1>5, <1>6, <3>2
      <4> QED BY <4>1 DEF Held
    <3>3. ASSUME NEW i \in 1 .. d, stack[i].val = m
          PROVE  Held(m)'
      <4>1. i # d
        BY <1>1, <3>1, <3>3 DEF LinkInv, OpenInv, Top
      <4>2. i \in 1 .. d - 1 /\ i \in 1 .. Len(stack')
        BY <1>1, <1>2, <4>1
      <4> QED BY <1>2, <3>3, <4>2 DEF Held
    <3> QED BY <3>1, <3>2, <3>3 DEF Held
  <2> QED BY <1>5, <1>6, <2>1, <2>2
<1> QED BY <1>7, <1>8, <1>9 DEF LinkInv

(* The node behind a comma hangs on the one before it, which had no next.  *)
LEMMA CommaLinks ==
  ASSUME NodesInv, LinkInv, NEW c, pc = "after", AfterComma(c),
         cur'.err = "JSON_OK" => cur.err = "JSON_OK"
  PROVE  LinkInv'
<1> DEFINE d   == Len(stack)
           new == Len(nodes) + 1
           J   == Top.J
<1>1. /\ d \in Nat \ {0} /\ Len(nodes) \in Nat \ {0} /\ J \in NodeIds
      /\ ptr' = new /\ pc' = "loop" /\ stack' = stack /\ nodes'[new] = NewNode
  BY CommaDoes
<1>2. \A n \in NodeIds : /\ nodes'[n].value = nodes[n].value
                         /\ nodes'[n].next = IF n = J THEN new ELSE nodes[n].next
  BY CommaDoes
<1>3. NodeIds' = 1 .. new /\ NodeIds = 1 .. Len(nodes)
  BY CommaDoes
<1>4. \A i \in 1 .. d : Caller(i)' = Caller(i) /\ Caller(i) \in NodeIds
  BY CommaDoes
<1>5. new \in Nat /\ new > Len(nodes) /\ \A n \in 1 .. new : n = new \/ n \in 1 .. Len(nodes)
  BY <1>1
<1>6. nodes[J].next = NULL /\ J > Caller(d)
  BY DEF LinkInv, OpenInv, ApartInv
<1> HIDE DEF new, J
<1>7. \A i \in 1 .. d : Caller(i) # J
  <2>1. \A i \in 1 .. d : i = d \/ Caller(i) < Caller(d)
    BY <1>1 DEF LinkInv, ApartInv
  <2>2. d \in 1 .. d
    BY <1>1
  <2> QED BY <1>1, <1>3, <1>4, <1>6, <2>1, <2>2
<1>8. ApartInv'
  BY <1>1, <1>3, <1>4, <1>5 DEF LinkInv, ApartInv
<1>9. OpenInv'
  <2>1. Bare(ptr)'
    BY <1>1, NewNodeTyped DEF Bare
  <2>2. \A i \in 1 .. d : Bare(Caller(i))'
    BY <1>2, <1>4, <1>7 DEF LinkInv, OpenInv, Bare
  <2> QED BY <1>1, <2>1, <2>2 DEF OpenInv
<1>10. HeldInv'
  <2> SUFFICES ASSUME cur'.err = "JSON_OK", NEW m \in NodeIds', m # Root
               PROVE  Held(m)'
    BY DEF HeldInv
  <2>1. NodeIds \subseteq NodeIds'
    BY <1>1, <1>3, <1>5
  <2>2. CASE m = new
    <3>1. new # NULL
      BY <1>1, <1>5 DEF NULL
    <3>2. Leads(nodes'[J], m)
      BY <1>1, <1>2, <2>2, <3>1 DEF Leads
    <3> QED BY <1>1, <2>1, <3>2 DEF Held
  <2>3. CASE m \in NodeIds
    <3>1. Held(m)
      BY <2>3 DEF LinkInv, HeldInv
    <3>2. ASSUME NEW n \in NodeIds, Leads(nodes[n], m)
          PROVE  Leads(nodes'[n], m)
      BY <1>2, <1>6, <3>2 DEF Leads
    <3> QED BY <1>1, <2>1, <3>1, <3>2 DEF Held
  <2> QED BY <1>3, <1>5, <2>2, <2>3
<1> QED BY <1>8, <1>9, <1>10 DEF LinkInv

(* A scalar is no link: the node at p->ptr had none and gets none.         *)
LEMMA SetLinks ==
  ASSUME NodesInv, LinkInv, pc \in {"value", "text"}, UNCHANGED <<stack, ptr>>,
         NEW type, NEW value, SetNode(type, value),
         value = nodes[ptr].value \/ value[1] # "child", pc' \in {"after", "text"},
         cur'.err = "JSON_OK" => cur.err = "JSON_OK"
  PROVE  LinkInv'
<1>1. ptr \in NodeIds /\ Top.J \in NodeIds /\ Len(stack) \in Nat
  BY DEF NodesInv, ControlInv
<1>2. /\ NodeIds' = NodeIds
      /\ \A n \in NodeIds : n # ptr => nodes'[n] = nodes[n]
      /\ nodes'[ptr].value = value /\ nodes'[ptr].next = nodes[ptr].next
  BY <1>1, NodeSet
<1>3. Bare(ptr) /\ Bare(ptr)'
  BY <1>2 DEF LinkInv, OpenInv, Bare
<1>4. \A i \in 1 .. Len(stack) : /\ Caller(i)' = Caller(i)
                                 /\ Caller(i) \in NodeIds /\ Caller(i) # ptr
  BY DEF Caller, NodesInv, ControlInv, UnionInv
<1>5. (Top.J)' = Top.J
  BY DEF Top
<1>6. ApartInv'
  <2>1. Caller(Len(stack))' = Caller(Len(stack))
    BY DEF Caller
  <2> QED BY <1>4, <1>5, <2>1 DEF LinkInv, ApartInv
<1>7. OpenInv'
  <2>1. \A i \in 1 .. Len(stack) : Bare(Caller(i))'
    BY <1>2, <1>4 DEF LinkInv, OpenInv, Bare
  <2>2. nodes'[Top.J].next = NULL
    BY <1>1, <1>2 DEF LinkInv, OpenInv
  <2> QED BY <1>3, <1>5, <2>1, <2>2 DEF OpenInv
<1>8. HeldInv'
  <2>1. ASSUME NEW n \in NodeIds, NEW m, Leads(nodes[n], m)
        PROVE  Leads(nodes'[n], m)
    <3>1. n # ptr
      BY <1>3, <2>1 DEF Bare, Leads
    <3> QED BY <1>2, <2>1, <3>1
  <2> QED BY <1>1, <1>2, <2>1, HeldStill
<1> QED BY <1>6, <1>7, <1>8 DEF LinkInv

(* A container begins: the node at p->ptr, without a link, is its caller.  *)
LEMMA ContainerLinks ==
  ASSUME NodesInv, LinkInv, pc = "value", UNCHANGED <<cur, ptr>>,
         NEW fn \in {"object", "array"}, NEW type \in Containers, ParseContainer(fn, type)
  PROVE  LinkInv'
<1> PICK d \in Nat : d = Len(stack)
  BY DEF NodesInv, ControlInv
<1>1. ptr \in NodeIds /\ d \in Nat \ {0} /\ pc' = "enter" /\ NodeIds' = NodeIds
  BY ContainerDoes
<1>2. /\ \A n \in NodeIds : n # ptr => nodes'[n] = nodes[n]
      /\ nodes'[ptr].value = nodes[ptr].value /\ nodes'[ptr].next = nodes[ptr].next
  BY ContainerDoes
<1>3. /\ Len(stack') = d + 1 /\ stack'[d + 1].val = NULL
      /\ \A i \in 1 .. d : stack'[i] = stack[i]
  BY ContainerDoes
<1>4. /\ \A i \in 1 .. d : Caller(i)' = Caller(i) /\ Caller(i) \in NodeIds
      /\ Caller(d + 1)' = ptr
  BY ContainerDoes
<1>5. \A i \in 1 .. d + 1 : i = d + 1 \/ i \in 1 .. d
  BY <1>1
<1>6. \A n \in NodeIds : nodes'[n].value = nodes[n].value /\ nodes'[n].next = nodes[n].next
  BY <1>2
<1>7. ApartInv'
  <2>1. \A i \in 1 .. d : Caller(i) < ptr
    <3>1. ptr > Caller(d) /\ d \in 1 .. d
      BY <1>1 DEF LinkInv, ApartInv, NodesInv, ControlInv
    <3>2. \A i \in 1 .. d : i = d \/ Caller(i) < Caller(d)
      BY <1>1, <3>1 DEF LinkInv, ApartInv
    <3> QED BY <1>1, <1>4, <3>1, <3>2 DEF NodeIds
  <2>2. \A i, j \in 1 .. d : i < j => Caller(i) < Caller(j)
    BY DEF LinkInv, ApartInv
  <2>3. \A i \in 1 .. d + 1 : ~(d + 1 < i)
    BY <1>1
  <2>4. \A i, j \in 1 .. d + 1 : i < j => Caller(i)' < Caller(j)'
    BY <1>4, <1>5, <2>1, <2>2, <2>3
  <2> QED BY <1>1, <1>3, <2>4 DEF ApartInv
<1>8. OpenInv'
  <2>1. Bare(ptr)' /\ \A i \in 1 .. d : Bare(Caller(i))'
    BY <1>1, <1>4, <1>6 DEF LinkInv, OpenInv, Bare
  <2>2. \A i \in 1 .. d + 1 : Bare(Caller(i))'
    BY <1>4, <1>5, <2>1 DEF Bare
  <2>3. (Top.val)' = NULL
    BY <1>3 DEF Top
  <2> QED BY <1>1, <1>3, <2>2, <2>3 DEF OpenInv
<1>9. HeldInv'
  BY <1>1, <1>3, <1>6, HeldStill DEF Leads
<1> QED BY <1>7, <1>8, <1>9 DEF LinkInv

(* The root is made, alone and without a link, or nothing is.              *)
LEMMA BeginLinks ==
  ASSUME NodesInv, LinkInv, Begin
  PROVE  LinkInv'
<1>1. stack = << >> /\ Len(stack) = 0 /\ nodes = << >>
  BY DEF NodesInv, ControlInv, Begin
<1>2. ASSUME NEW fn \in {"object", "array"}, NEW type \in Containers, NEW c,
             BeginWith(fn, type, c)
      PROVE  LinkInv'
  <2> DEFINE r == [NewNode EXCEPT !.type = type]
  <2>1. r.value[1] = "uninit" /\ r.next = NULL
    BY NewNodeTyped, TypeAssigned
  <2>2. nodes' = <<r>> /\ stack' = <<Frame(fn)>> /\ pc' = "enter"
    BY <1>2 DEF BeginWith
  <2> HIDE DEF r
  <2>3. NodeIds' = {1} /\ nodes'[1] = r
    BY <2>2 DEF NodeIds
  <2>4. Len(stack') = 1 /\ (Top.val)' = NULL /\ \A i \in 1 .. Len(stack') : i = 1
    BY <2>2 DEF Top, Frame
  <2>5. Caller(1)' = 1
    BY DEF Caller, Root
  <2>6. ApartInv'
    BY <2>2, <2>4 DEF ApartInv
  <2>7. OpenInv'
    BY <2>1, <2>2, <2>3, <2>4, <2>5 DEF OpenInv, Bare
  <2>8. HeldInv'
    BY <2>3 DEF HeldInv, Root
  <2> QED BY <2>6, <2>7, <2>8 DEF LinkInv
<1>3. ASSUME stack' = stack, pc' \in {"done", "finish"},
             nodes' = nodes \/ nodes' = <<NewNode>>
      PROVE  LinkInv'
  <2>1. nodes' = nodes => NodeIds' = {}
    BY <1>1 DEF NodeIds
  <2>2. nodes' = <<NewNode>> => NodeIds' = {1}
    BY DEF NodeIds
  <2>3. ApartInv' /\ OpenInv'
    BY <1>1, <1>3 DEF ApartInv, OpenInv
  <2>4. HeldInv'
    BY <1>3, <2>1, <2>2 DEF HeldInv, Root
  <2> QED BY <2>3, <2>4 DEF LinkInv
<1> QED BY <1>2, <1>3, Zenon DEF Begin, Containers

(* Where an activation stands is as before, so are the links.              *)
LEMMA StandsLinks ==
  ASSUME NodesInv, LinkInv, UNCHANGED <<stack, nodes, ptr>>,
         cur'.err = "JSON_OK" => cur.err = "JSON_OK",
         \/ pc' = pc
         \/ pc = "loop" /\ pc' = "key"
         \/ pc = "finish" /\ pc' = "done"
  PROVE  LinkInv'
<1>1. NodeIds' = NodeIds /\ \A i : Caller(i)' = Caller(i)
  BY DEF NodeIds, Caller
<1>2. Caller(Len(stack))' = Caller(Len(stack)) /\ (Top.J)' = Top.J /\ (Top.val)' = Top.val
  BY DEF Caller, Top
<1>3. ApartInv'
  BY <1>1, <1>2 DEF LinkInv, ApartInv
<1>4. OpenInv'
  BY <1>1, <1>2 DEF LinkInv, OpenInv, Bare
<1>5. HeldInv'
  BY <1>1 DEF LinkInv, HeldInv, Held
<1> QED BY <1>3, <1>4, <1>5 DEF LinkInv

(* Every step keeps the links.                                             *)
LEMMA LinkKeeps ==
  ASSUME CursorAssumption, NodesInv, CallInv, LinkInv, [Next]_vars
  PROVE  LinkInv'
<1>1. /\ cur'.err = "JSON_OK" => cur.err = "JSON_OK"
      /\ SameLinks(nodes) /\ IsCursor(cur)
  BY StepCarries, NodesAreSame DEF CallInv, StringInv, StrTypeOK, Cursor, IsCursor
<1>2. ASSUME NEW c, NEW ns, SameLinks(ns), ReturnList(c, ns),
             pc \notin {"start", "finish", "done"}
      PROVE  LinkInv'
  BY <1>1, <1>2, ReturnLinks DEF ReturnList
<1>3. ASSUME NEW c, NEW ns, SameLinks(ns), Return(c, NULL, ns),
             pc \notin {"start", "finish", "done"}, c.err # "JSON_OK" \/ Top.val = NULL
      PROVE  LinkInv'
  <2>1. cur'.err = "JSON_OK" => cur.err = "JSON_OK" /\ (NULL = Top.val \/ Top.val = NULL)
    BY <1>1, <1>3 DEF Return
  <2> QED BY <1>3, <2>1, ReturnLinks
<1>4. ASSUME NEW c, NEW ns, SameLinks(ns), ExpectValue(c, ns), pc \in {"loop", "key"}
      PROVE  LinkInv'
  <2>1. Awaits(ns) \/ \E e : ReturnList(e, ns)
    BY <1>4, Zenon DEF ExpectValue, Awaits
  <2> QED BY <1>1, <1>2, <1>4, <2>1, AwaitsLinks
<1>5. ASSUME NEW c, IsCursor(c)
      PROVE  /\ IsCursor(jsonAdvance(c)) /\ IsCursor(jsonAdvanceWhitespace(c))
             /\ ~WsOk(c) => jsonAdvanceWhitespace(c).err # "JSON_OK"
             /\ \A t : IsCursor(jsonAdvanceToTerminator(c, t))
             /\ SetError(c, "JSON_INVALID_KEY_TERMINATOR_CHARACTER").err # "JSON_OK"
             /\ SetError(c, UnexpectedCharacter).err # "JSON_OK"
  <2>1. UnexpectedCharacter # "JSON_OK"
    BY DEF UnexpectedCharacter
  <2> QED BY <1>5, <2>1, MovesCarry
<1>6. CASE Begin
  BY <1>6, BeginLinks
<1>7. CASE Enter
  <2>1. pc = "enter" /\ Top.val = NULL
    BY <1>7 DEF Enter, LinkInv, OpenInv
  <2>2. FirstNode \/ \E c : Return(c, NULL, nodes)
    BY <1>7, Zenon DEF Enter, FirstNode
  <2> QED BY <1>1, <1>3, <2>1, <2>2, FirstNodeLinks
<1>8. CASE Element
  <2> DEFINE c == jsonAdvanceWhitespace(cur)
  <2>1. pc = "loop"
    BY <1>8 DEF Element
  <2>2. \/ ~WsOk(cur) /\ Return(c, NULL, nodes)
        \/ ExpectValue(c, nodes)
    BY <1>8, Zenon DEF Element
  <2>3. ~WsOk(cur) => c.err # "JSON_OK"
    BY <1>1, <1>5
  <2> HIDE DEF c
  <2> QED BY <1>1, <1>3, <1>4, <2>1, <2>2, <2>3
<1>9. CASE Member
  <2> DEFINE c == jsonAdvanceWhitespace(cur)
  <2>1. pc = "loop" /\ ptr' = ptr
    BY <1>9 DEF Member
  <2>2. \/ ~WsOk(cur) /\ Return(c, NULL, nodes)
        \/ Return(SetError(c, "JSON_INVALID_KEY_TERMINATOR_CHARACTER"), NULL, nodes)
        \/ pc' = "key" /\ UNCHANGED <<stack, nodes>>
    BY <1>9, Zenon DEF Member
  <2>3. /\ ~WsOk(cur) => c.err # "JSON_OK"
        /\ SetError(c, "JSON_INVALID_KEY_TERMINATOR_CHARACTER").err # "JSON_OK"
    <3>1. IsCursor(c) /\ (~WsOk(cur) => c.err # "JSON_OK")
      BY <1>1, <1>5
    <3> HIDE DEF c
    <3> QED BY <1>5, <3>1
  <2> HIDE DEF c
  <2> QED BY <1>1, <1>3, <2>1, <2>2, <2>3, StandsLinks
<1>10. CASE Key
  <2> DEFINE c1 == jsonAdvanceToTerminator(cur, ":")
             c2 == jsonAdvance(c1)
             c3 == jsonAdvanceWhitespace(c2)
             ns == [nodes EXCEPT ![ptr].key = ReturnedText]
  <2>1. pc = "key" /\ SameLinks(ns)
    <3>1. pc = "key" /\ ptr \in NodeIds
      BY <1>10 DEF Key, NodesInv, ControlInv
    <3> QED BY <3>1, KeyIsNoLink
  <2>2. IsCursor(c1)
    BY <1>1, <1>5, Zenon
  <2> HIDE DEF c1, ns
  <2>3. \/ Return(SetError(c1, "JSON_INVALID_KEY_TERMINATOR_CHARACTER"), NULL, ns)
        \/ ~WsOk(c2) /\ Return(c3, NULL, ns)
        \/ ExpectValue(c3, ns)
    BY <1>10, Zenon DEF Key, c1, ns
  <2>4. IsCursor(c2)
    BY <1>5, <2>2
  <2> HIDE DEF c2
  <2>5. ~WsOk(c2) => c3.err # "JSON_OK"
    BY <1>5, <2>4
  <2>6. SetError(c1, "JSON_INVALID_KEY_TERMINATOR_CHARACTER").err # "JSON_OK"
    BY <1>5, <2>2
  <2> HIDE DEF c3
  <2> QED BY <1>3, <1>4, <2>1, <2>3, <2>5, <2>6
<1>11. CASE Value
  <2>1. pc = "value" /\ ptr' = ptr
    BY <1>11 DEF Value
  <2>2. CASE ParseNumber
    <3> DEFINE r == jsonParseNumber(cur)
    <3>1. r.value[1] # "child"
      BY NumberMatches
    <3>2. SetNode(r.type, r.value) /\ pc' = "after" /\ stack' = stack
      BY <2>2 DEF ParseNumber
    <3> HIDE DEF r
    <3> QED BY <1>1, <2>1, <3>1, <3>2, SetLinks
  <2>3. ASSUME NEW type, ParseText(type)
        PROVE  LinkInv'
    <3>1. SetNode(type, nodes[ptr].value) /\ pc' = "text" /\ stack' = stack
      BY <2>3 DEF ParseText
    <3> QED BY <1>1, <2>1, <3>1, SetLinks
  <2>4. CASE ParseNull
    <3>1. SetNode("JSON_NULL", nodes[ptr].value) /\ pc' = "after" /\ stack' = stack
      BY <2>4 DEF ParseNull
    <3> QED BY <1>1, <2>1, <3>1, SetLinks
  <2>5. CASE ParseBool
    <3>1. /\ SetNode("JSON_BOOL", <<"bool", jsonParseBool.bool>>)
          /\ pc' = "after" /\ stack' = stack
      BY <2>5 DEF ParseBool
    <3>2. <<"bool", jsonParseBool.bool>>[1] # "child"
      OBVIOUS
    <3> QED BY <1>1, <2>1, <3>1, <3>2, SetLinks
  <2>6. ASSUME NEW fn \in {"object", "array"}, NEW type \in Containers, ParseContainer(fn, type)
        PROVE  LinkInv'
    <3>1. cur' = cur
      BY <2>6 DEF ParseContainer
    <3> QED BY <2>1, <2>6, <3>1, ContainerLinks
  <2> QED BY <1>11, <2>2, <2>3, <2>4, <2>5, <2>6
          DEF Value, ParseStrnum, ParseString, ParseObject, ParseArray, Containers
<1>12. CASE TextValue
  <2>1. /\ pc = "text" /\ pc' = "after" /\ ptr' = ptr /\ stack' = stack
        /\ SetNode(nodes[ptr].type, ReturnedText)
    BY <1>12 DEF TextValue
  <2>2. ReturnedText[1] # "child"
    BY DEF ReturnedText, Text, NullText
  <2> QED BY <1>1, <2>1, <2>2, SetLinks
<1>13. CASE AfterValue
  <2> DEFINE c == jsonAdvanceWhitespace(cur)
  <2>1. pc = "after"
    BY <1>13 DEF AfterValue
  <2>2. \/ \E e : ReturnList(e, nodes)
        \/ ~WsOk(cur) /\ Return(c, NULL, nodes)
        \/ AfterComma(c)
        \/ Return(SetError(c, UnexpectedCharacter), NULL, nodes)
    BY <1>13, Zenon DEF AfterValue
  <2>3. /\ ~WsOk(cur) => c.err # "JSON_OK"
        /\ SetError(c, UnexpectedCharacter).err # "JSON_OK"
    <3>1. IsCursor(c) /\ (~WsOk(cur) => c.err # "JSON_OK")
      BY <1>1, <1>5
    <3> HIDE DEF c
    <3> QED BY <1>5, <3>1
  <2> HIDE DEF c
  <2> QED BY <1>1, <1>2, <1>3, <2>1, <2>2, <2>3, CommaLinks
<1>14. CASE Finish
  BY <1>1, <1>14, StandsLinks DEF Finish
<1>15. CASE StringRuns
  BY <1>1, <1>15, StandsLinks DEF StringRuns, parserVars
<1>16. CASE UNCHANGED vars
  BY <1>1, <1>16, StandsLinks DEF vars, parserVars
<1> QED BY <1>6, <1>7, <1>8, <1>9, <1>10, <1>11, <1>12, <1>13, <1>14, <1>15, <1>16 DEF Next

(* Before the call there is nothing to hold.                               *)
LEMMA LinkBegins ==
  ASSUME Init
  PROVE  LinkInv
<1>1. pc = "start" /\ Len(stack) = 0 /\ NodeIds = {}
  BY DEF Init, NodeIds
<1> QED BY <1>1 DEF LinkInv, ApartInv, OpenInv, HeldInv

(* The state of the root tells of the parser it was made from.             *)
LastInv == Finished => state.error = cur.err

(* It is made last.                                                        *)
LEMMA LastKeeps ==
  ASSUME CallInv, ResultInv, LastInv, [Next]_vars
  PROVE  LastInv'
<1>1. ASSUME pc # "done", state' = state
      PROVE  LastInv'
  BY <1>1 DEF ResultInv, LastInv, Finished
<1>2. CASE Finish
  <2>1. state' = [error |-> cur.err, ch |-> jsonPeek(cur), offset |-> cur.offset]
    BY <1>2 DEF Finish
  <2>2. state'.error = cur.err /\ cur' = cur
    BY <1>2, <2>1 DEF Finish
  <2> QED BY <2>2 DEF LastInv
<1>3. CASE StringRuns
  <2>1. str.pc # "idle"
    BY <1>3 DEF StringRuns, StringStep, SizeStep, SizeEnd, CopyPlain, CopyEscape,
                CopyUnicode, CopyBadEscape, CopyQuote, Copying
  <2>2. pc # "done" /\ state' = state
    BY <1>3, <2>1 DEF CallInv, StringRuns, parserVars
  <2> QED BY <1>1, <2>2
<1>4. CASE UNCHANGED vars
  BY <1>4 DEF vars, parserVars, LastInv, Finished
<1>5. CASE Begin \/ Enter \/ Element \/ Member \/ Key \/ Value \/ TextValue \/ AfterValue
  <2>1. pc # "done" /\ state' = state
    BY <1>5 DEF Begin, Enter, Element, Member, Key, Value, TextValue, AfterValue
  <2> QED BY <1>1, <2>1
<1> QED BY <1>2, <1>3, <1>4, <1>5 DEF Next

(* Whatever the text, also where it is broken off or malformed, what hangs *)
(* below the root is a tree; and no node of an accepted text is lost.      *)
THEOREM TreeIsShaped == Spec => []TreeShaped
<1>1. Init => LinkInv /\ LastInv
  BY LinkBegins DEF Init, LastInv, Finished
<1>2. NodesInv /\ CallInv /\ ResultInv /\ LinkInv /\ LastInv /\ [Next]_vars => LinkInv' /\ LastInv'
  BY CursorAssumption, LinkKeeps, LastKeeps
<1>3. NodesInv /\ LinkInv /\ LastInv => TreeShaped
  <2> SUFFICES ASSUME NodesInv, LinkInv, LastInv PROVE TreeShaped
    OBVIOUS
  <2>1. ASSUME Ok, NEW m \in NodeIds \ {Root}
        PROVE  \E n \in NodeIds : m \in PointsTo(n)
    <3>1. pc = "done" /\ Len(stack) = 0 /\ cur.err = "JSON_OK"
      BY <2>1 DEF Ok, Finished, LastInv, NodesInv, ControlInv
    <3>2. PICK n \in NodeIds : Leads(nodes[n], m)
      BY <2>1, <3>1 DEF LinkInv, HeldInv, Held
    <3>3. m \in PointsTo(n)
      BY <3>2 DEF Leads, PointsTo
    <3> QED BY <3>3
  <2> QED BY <2>1, TreeInWords DEF TreeShaped
<1> QED BY <1>1, <1>2, <1>3, NodesInvariant, CallInvariant, ResultInvariant, PTL DEF Spec
=============================================================================
