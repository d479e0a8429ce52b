--------------------------- MODULE BoundedProcess ---------------------------
(* How the program runs git and the verification commands of a proposal:    *)
(* _run_bounded (improvement/git_apply.py), here "patch", which may send    *)
(* input, and _collect_bounded_stdout (services/project_facts.py), here     *)
(* "probe". The child leads a group of its own; it may start a helper that  *)
(* keeps its output pipe, or leaves the group. Bytes are counted in units,  *)
(* a unit being what one read or write moves.                               *)
EXTENDS Integers

CONSTANTS
  Timeout,       \* the deadline, in ticks after the launch
  MaxOutput,     \* the units of output that are accepted
  MaxInput,      \* the units of input a caller has
  PipeSize       \* the units a pipe holds

Flavours == {"patch", "probe"}

VARIABLES
  flavour,    \* which of the two functions runs
  input,      \* what there is to send
  parent,     \* the function: step, what it has sent and read, its result
  child,      \* the process it started
  helper,     \* a process the child started
  stdin,      \* the units in the input pipe
  stdout,     \* the units in the output pipe
  written,    \* all that was ever written to the output pipe
  clock

vars == <<flavour, input, parent, child, helper, stdin, stdout, written, clock>>
procs == <<child, helper>>

Gone == [alive |-> FALSE, inGroup |-> FALSE, writes |-> FALSE]
Limit == Timeout + 4   \* bound: the clock stops here

Init ==
  /\ flavour \in Flavours
  /\ input \in 0..(IF flavour = "patch" THEN MaxInput ELSE 0)
  /\ parent = [pc |-> "launch", sending |-> FALSE, reading |-> FALSE, sent |-> 0,
               read |-> 0, result |-> "none", reaped |-> FALSE, moved |-> FALSE]
  /\ child = [alive |-> FALSE, writes |-> FALSE, reads |-> FALSE, killed |-> FALSE]
  /\ helper = Gone
  /\ stdin = 0 /\ stdout = 0 /\ written = 0 /\ clock = 0

----------------------------------------------------------------------------
(* The child and its helper: nothing is promised of them.                   *)

Put == stdout < PipeSize /\ written <= MaxOutput + 1
       /\ stdout' = stdout + 1 /\ written' = written + 1

ChildWrites ==
  /\ child.alive /\ child.writes /\ Put
  /\ UNCHANGED <<flavour, input, parent, procs, stdin, clock>>

ChildReads ==
  /\ child.alive /\ child.reads /\ stdin > 0
  /\ stdin' = stdin - 1
  /\ UNCHANGED <<flavour, input, parent, procs, stdout, written, clock>>

(* It closes one of its ends, or exits.                                     *)
ChildCloses ==
  /\ child.alive
  /\ \/ child.writes /\ child' = [child EXCEPT !.writes = FALSE]
     \/ child.reads /\ child' = [child EXCEPT !.reads = FALSE]
     \/ child' = [child EXCEPT !.alive = FALSE, !.writes = FALSE, !.reads = FALSE]
  /\ UNCHANGED <<flavour, input, parent, helper, stdin, stdout, written, clock>>

ChildForks ==
  /\ child.alive /\ ~helper.alive
  /\ \E stays \in BOOLEAN :
       helper' = [alive |-> TRUE, inGroup |-> stays, writes |-> child.writes]
  /\ UNCHANGED <<flavour, input, parent, child, stdin, stdout, written, clock>>

HelperMoves ==
  /\ helper.alive
  /\ \/ helper.writes /\ Put /\ UNCHANGED helper
     \/ helper.writes /\ helper' = [helper EXCEPT !.writes = FALSE]
                      /\ UNCHANGED <<stdout, written>>
     \/ helper' = Gone /\ UNCHANGED <<stdout, written>>
  /\ UNCHANGED <<flavour, input, parent, child, stdin, clock>>

----------------------------------------------------------------------------
(* The function.                                                            *)

Move(p) == parent' = [p EXCEPT !.moved = TRUE]

(* Popen, in a session of its own, and the registration of its pipes; both  *)
(* may fail.                                                                *)
Launch ==
  /\ parent.pc = "launch"
  /\ \/ /\ Move([parent EXCEPT !.pc = "ended", !.result = "failed"])
        /\ UNCHANGED child
     \/ /\ Move([parent EXCEPT !.pc = "kill", !.result = "failed"])
        /\ child' = [child EXCEPT !.alive = TRUE, !.writes = TRUE]
     \/ /\ Move([parent EXCEPT !.pc = "loop", !.reading = TRUE, !.sending = input > 0])
        /\ child' = [child EXCEPT !.alive = TRUE, !.writes = TRUE, !.reads = input > 0]
  /\ UNCHANGED <<flavour, input, helper, stdin, stdout, written, clock>>

DeadlinePassed == clock >= Timeout

Open == parent.reading \/ parent.sending

LoopExpires ==
  /\ parent.pc = "loop" /\ Open /\ DeadlinePassed
  /\ Move([parent EXCEPT !.pc = "kill", !.result = "exceeded"])
  /\ UNCHANGED <<flavour, input, procs, stdin, stdout, written, clock>>

(* A write to a pipe that nobody reads ends the sending, as the last unit   *)
(* does.                                                                    *)
SendInput ==
  /\ parent.pc = "loop" /\ parent.sending /\ ~DeadlinePassed
  /\ \/ /\ ~child.reads
        /\ Move([parent EXCEPT !.sending = FALSE])
        /\ UNCHANGED stdin
     \/ /\ child.reads /\ stdin < PipeSize
        /\ stdin' = stdin + 1
        /\ Move([parent EXCEPT !.sent = @ + 1, !.sending = parent.sent + 1 < input])
  /\ UNCHANGED <<flavour, input, procs, stdout, written, clock>>

Overflows(units) == units > MaxOutput

(* Mutant: a pipe that is empty has ended.                                  *)
Empty == stdout = 0

EndOfOutput == stdout = 0 /\ ~child.writes /\ ~helper.writes

ReadOutput ==
  /\ parent.pc = "loop" /\ parent.reading /\ ~DeadlinePassed
  /\ \/ /\ EndOfOutput
        /\ Move([parent EXCEPT !.reading = FALSE])
        /\ UNCHANGED stdout
     \/ /\ stdout > 0
        /\ stdout' = stdout - 1
        /\ Move(IF Overflows(parent.read + 1)
                THEN [parent EXCEPT !.read = @ + 1, !.pc = "kill", !.result = "exceeded"]
                ELSE [parent EXCEPT !.read = @ + 1])
  /\ UNCHANGED <<flavour, input, procs, stdin, written, clock>>

(* select, read or write fails. A patch is then killed only if it still     *)
(* runs; a probe in any case.                                               *)
LoopFails ==
  /\ parent.pc = "loop" /\ Open
  /\ Move([parent EXCEPT !.pc = IF flavour = "patch" /\ ~child.alive THEN "reap" ELSE "kill",
                         !.result = "failed"])
  /\ UNCHANGED <<flavour, input, procs, stdin, stdout, written, clock>>

(* All pipes are closed: the child has until the deadline to exit. A probe  *)
(* does not even look once the deadline has passed.                         *)
AwaitExit ==
  /\ parent.pc = "loop" /\ ~Open
  /\ \/ /\ ~child.alive /\ (flavour = "probe" => ~DeadlinePassed)
        /\ Move([parent EXCEPT !.pc = IF flavour = "probe" THEN "kill" ELSE "reap",
                               !.result = "output", !.reaped = TRUE])
     \/ /\ DeadlinePassed /\ (child.alive \/ flavour = "probe")
        /\ Move([parent EXCEPT !.pc = "kill", !.result = "exceeded"])
  /\ UNCHANGED <<flavour, input, procs, stdin, stdout, written, clock>>

KillsMember(member) == member.inGroup

(* killpg: everyone in the group. (The helper's end of the pipe goes too.)  *)
Kill ==
  /\ parent.pc = "kill"
  /\ child' = [child EXCEPT !.killed = child.alive \/ @, !.alive = FALSE,
                            !.writes = FALSE, !.reads = FALSE]
  /\ helper' = IF KillsMember(helper) THEN Gone ELSE helper
  /\ Move([parent EXCEPT !.pc = "reap"])
  /\ UNCHANGED <<flavour, input, stdin, stdout, written, clock>>

Reap ==
  /\ parent.pc = "reap" /\ ~child.alive
  /\ Move([parent EXCEPT !.pc = "ended", !.reaped = TRUE])
  /\ UNCHANGED <<flavour, input, procs, stdin, stdout, written, clock>>

(* Nothing for the function to do but wait for the others or the clock.     *)
Blocked ==
  \/ parent.pc = "ended"
  \/ /\ parent.pc = "loop" /\ ~DeadlinePassed
     /\ parent.sending => child.reads /\ stdin = PipeSize
     /\ parent.reading => stdout = 0 /\ ~EndOfOutput
     /\ ~Open => child.alive

(* Time passes; the function moves at least once in a tick if it can.       *)
Tick ==
  /\ clock < Limit
  /\ Blocked \/ parent.moved
  /\ clock' = clock + 1
  /\ parent' = [parent EXCEPT !.moved = FALSE]
  /\ UNCHANGED <<flavour, input, procs, stdin, stdout, written>>

Next ==
  \/ ChildWrites \/ ChildReads \/ ChildCloses \/ ChildForks \/ HelperMoves
  \/ Launch \/ LoopExpires \/ SendInput \/ ReadOutput \/ LoopFails \/ AwaitExit
  \/ Kill \/ Reap \/ Tick

Spec == Init /\ [][Next]_vars

----------------------------------------------------------------------------
(* What is returned as the output of a command is all that it and its       *)
(* helpers wrote, within the limit, when nobody can write any more; its     *)
(* return code is its own, not that of a kill; and its input was sent       *)
(* unless it stopped reading it. (git_apply.py:1894-2008,                   *)
(* project_facts.py:1210-1283)                                              *)
OutputIsWhole ==
  parent.result = "output" =>
    /\ parent.read = written /\ written <= MaxOutput
    /\ ~child.writes /\ ~helper.writes
    /\ ~child.alive /\ ~child.killed
    /\ parent.sent = input \/ ~child.reads

(* A command that is over a limit does not outlive the function, nor does   *)
(* what it started in its group, though it may have exited itself by then   *)
(* and only a helper holds the pipe; and the function is back soon after    *)
(* the deadline whatever the command does with its pipes. (The group of a   *)
(* patch command whose pipes failed is left alone if the command is gone.)  *)
(* (git_apply.py:1971-2022, project_facts.py:1266-1294)                     *)
StoppedInTime ==
  /\ parent.pc # "ended" => clock <= Timeout + 3
  /\ parent.pc = "ended" =>
       /\ ~child.alive
       /\ parent.result = "exceeded" \/ (flavour = "probe" /\ parent.reaped)
            => ~(helper.alive /\ helper.inGroup)
=============================================================================
