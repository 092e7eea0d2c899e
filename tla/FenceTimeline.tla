--------------------------- MODULE FenceTimeline ---------------------------
(***************************************************************************)
(* What a virtio-gpu fence promises the guest, whatever the host keeps to  *)
(* implement it.  Every ring carries one totally ordered history of the    *)
(* GPU tasks and fences submitted to it.  A fence is signalled when the    *)
(* ring's progress passes it, and progress may pass a task only once that  *)
(* task has completed, so a fence is signalled                             *)
(*   - only after every earlier task of its ring completed,                *)
(*   - in submission order within its ring,                                *)
(*   - once.                                                               *)
(* Rings do not wait for one another.                                      *)
(***************************************************************************)
EXTENDS Naturals, Sequences

CONSTANTS Rings, TaskIds, Fences

VARIABLES
  issued,     \* ring -> everything ever submitted to it, in order
  completed,  \* tasks whose GPU work is done
  passed      \* ring -> length of the prefix of issued the ring has passed

vars == <<issued, completed, passed>>

Task(id)  == [kind |-> "task",  id |-> id]
Fence(id) == [kind |-> "fence", id |-> id]
Item      == {Task(id) : id \in TaskIds} \cup {Fence(id) : id \in Fences}

IsTask(item)  == item.kind = "task"
IsFence(item) == item.kind = "fence"

Init ==
  /\ issued = [r \in Rings |-> <<>>]
  /\ completed = {}
  /\ passed = [r \in Rings |-> 0]

(***************************************************************************)
(* One step submits at most one item, completes any number of tasks and    *)
(* lets every ring advance over items whose tasks have completed.          *)
(***************************************************************************)
Submit(ring, item) == issued' = [issued EXCEPT ![ring] = Append(@, item)]

Complete == completed' \in SUBSET TaskIds /\ completed \subseteq completed'

Advance ==
  /\ DOMAIN passed' = Rings
  /\ \A r \in Rings :
       /\ passed'[r] \in passed[r] .. Len(issued'[r])
       /\ \A i \in 1 .. passed'[r] :
            IsTask(issued'[r][i]) => issued'[r][i].id \in completed'

Next ==
  /\ \/ \E ring \in Rings, item \in Item : Submit(ring, item)
     \/ UNCHANGED issued
  /\ Complete
  /\ Advance

Spec == Init /\ [][Next]_vars

=============================================================================
