--------------------------------- MODULE Task ---------------------------------
(***************************************************************************)
(* CTask (Task.cpp): the timers of the plugin.  A task lives in one of the *)
(* slots that Task.h numbers; the map has one entry per slot, so that creating*)
(* a task silently replaces what its slot held.  Time is counted in seconds:*)
(* "left" is what remains until EndTime.  A one-shot task whose time has come*)
(* runs once and leaves its slot idle; a looping task (only LIST) stays armed*)
(* and is polled by the actions that model its callback.                   *)
(*                                                                         *)
(* "from" is not in the code: it remembers the phase in which the task was *)
(* created, so that properties can speak of a timer that outlived it.      *)
(***************************************************************************)
EXTENDS Integers

Slots == {"EXEC", "VOTE", "LIST", "NEXT", "LO3R", "CMAP"}
OneShots == Slots \ {"LIST"}

Idle == [run |-> "none", arg |-> 0, left |-> 0, from |-> "none"]
NoTasks == [s \in Slots |-> Idle]

\* m_Data[Index] = Task: the last creation wins the slot.
Create(tk, slot, run, arg, delay, from) ==
    [tk EXCEPT ![slot] = [run |-> run, arg |-> arg, left |-> delay, from |-> from]]

Remove(tk, slot) == [tk EXCEPT ![slot] = Idle]

Exists(tk, slot) == tk[slot].run # "none"

\* A one-shot task that Think will call in this frame.
Due(tk, slot) == Exists(tk, slot) /\ tk[slot].left = 0

\* A mutant: the clocks of expired timers run on.
ElapseOn(tk) == [s \in Slots |-> [tk[s] EXCEPT !.left = @ - 1]]

\* One second passes for the tasks that are still waiting.
Elapse(tk) ==
    [s \in Slots |-> [tk[s] EXCEPT !.left = IF @ > 0 THEN @ - 1 ELSE 0]]

===============================================================================
