----------------------------- MODULE FrameStacks -----------------------------
(***************************************************************************)
(* What the allocator of src/Core/Memory.cpp promises to the interpreter,  *)
(* with no header, list or fit in sight: every task has a stack of frames, *)
(* a frame is an interval of memory that no other live frame touches, call *)
(* pushes one, ret pops the newest, the end of a task drops all of its     *)
(* frames and a reboot of the system those of every task.                  *)
(***************************************************************************)
EXTENDS Integers, Sequences

CONSTANTS Task, OS_MAX_MEM

VARIABLE stack     \* stack[t]: the frames of t as [base, size], oldest first

Interval(f) == f.base .. f.base + f.size - 1
FramesOf(t) == {stack[t][i] : i \in DOMAIN stack[t]}
Live == UNION {FramesOf(t) : t \in Task}
\* Frame f lies in memory and touches no frame of S.
Placed(f, S) == /\ Interval(f) \subseteq 0 .. OS_MAX_MEM - 1
                /\ \A g \in S : Interval(f) \cap Interval(g) = {}

Init == stack = [t \in Task |-> <<>>]

\* The stack of t becomes s; nobody else's changes.
Becomes(t, s) == stack' = [stack EXCEPT ![t] = s]
Newest == [t \in Task |-> stack'[t][Len(stack'[t])]]

Push(t) ==
  /\ stack'[t] # <<>> /\ Becomes(t, Append(stack[t], Newest[t]))
  /\ Placed(Newest[t], Live)

Pop(t) == stack[t] # <<>> /\ Becomes(t, SubSeq(stack[t], 1, Len(stack[t]) - 1))

Drop(t) == Becomes(t, <<>>)

\* A restarted task loses its frames and is given its first one in one step.
Restart(t) ==
  /\ stack'[t] # <<>> /\ Becomes(t, <<Newest[t]>>)
  /\ Placed(Newest[t], Live \ FramesOf(t))

\* reboot_all: no task has a frame left.
Reboot == stack' = [t \in Task |-> <<>>]

Next == Reboot \/ \E t \in Task : Push(t) \/ Pop(t) \/ Drop(t) \/ Restart(t)

Spec == Init /\ [][Next]_stack
=============================================================================
