----------------------------- MODULE PageStore ------------------------------
(***************************************************************************)
(* What a page cache promises to its caller: a page holds what was last    *)
(* written to it, whatever the cache loads, evicts and flushes, and the    *)
(* file is only ever given a page's current contents.                      *)
(***************************************************************************)
EXTENDS Naturals

CONSTANTS Pages, MaxWrites

VARIABLES
  content,   \* what the caller sees in each page
  durable    \* what the file holds

vars == <<content, durable>>

Init ==
  /\ content = [p \in Pages |-> 0]
  /\ durable = [p \in Pages |-> 0]

Write(p, v) ==
  /\ content' = [content EXCEPT ![p] = v]
  /\ UNCHANGED durable

WriteBack(p) ==
  /\ durable' = [durable EXCEPT ![p] = content[p]]
  /\ UNCHANGED content

Next == \E p \in Pages : (\E v \in 1..MaxWrites : Write(p, v)) \/ WriteBack(p)

Spec == Init /\ [][Next]_vars
=============================================================================
