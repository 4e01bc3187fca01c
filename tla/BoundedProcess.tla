---------------------------- MODULE BoundedProcess ----------------------------
(***************************************************************************)
(* run_bounded_process of src/process.py: one child at a time, read through *)
(* two nonblocking pipes until both are closed, within a deadline and a     *)
(* budget of bytes that the two pipes share.                                *)
(*                                                                         *)
(* The child writes, closes a pipe, forks an heir that keeps the pipes open *)
(* and exits whenever it likes.  Bytes are counted, never spelled.  Time is *)
(* a clock that runs freely while the parent sleeps or waits; beyond that   *)
(* the parent is kept off the processor for at most MaxLag in all.          *)
(***************************************************************************)
EXTENDS Integers

CONSTANTS
  Timeout,    \* timeout_seconds
  MaxOutput,  \* max_output_bytes
  Chunk,      \* bytes one os.read asks for at most (65_536)
  Nap,        \* longest sleep of the read loop (0.01 s)
  MaxWrite,   \* bound: bytes the child and its heir write in one call
  MaxLag      \* bound: time the parent is runnable and does not run

ASSUME ProcessAssumption ==
  /\ {Timeout, MaxOutput, Chunk, Nap} \subseteq Nat \ {0}
  /\ MaxWrite \in Nat /\ MaxLag \in Nat

Pipe == {"stdout", "stderr"}

Lesser(m, n) == IF m <= n THEN m ELSE n

VARIABLES
  now, lag,
  call,      \* where the parent is
  deadline, wake,
  active,    \* pipes the parent has not seen the end of
  todo,      \* pipes still to be read in this pass
  moved,     \* progressed
  size,      \* bytes read from both pipes
  got,       \* per pipe: bytes kept for the caller
  outcome,   \* what the call returns or raises
  child,     \* "none", "running", "killed", "dead"
  code,      \* exit status of a dead child
  holders,   \* per pipe: who can still write to it
  piped,     \* per pipe: bytes written and not read
  wrote      \* per pipe: bytes ever written

clockVars == <<now, lag>>
parentVars == <<call, deadline, wake, active, todo, moved, size, got, outcome>>
childVars == <<child, code, holders, piped, wrote>>
procVars == <<clockVars, parentVars, childVars>>

ProcessInit ==
  /\ now = 0 /\ lag = 0 /\ call = "idle" /\ deadline = 0 /\ wake = 0
  /\ active = {} /\ todo = {} /\ moved = FALSE /\ size = 0 /\ outcome = "none"
  /\ child = "none" /\ code = 0
  /\ got = [s \in Pipe |-> 0] /\ piped = got /\ wrote = got
  /\ holders = [s \in Pipe |-> {}]

-----------------------------------------------------------------------------
(***************************************************************************)
(* The parent.                                                              *)
(***************************************************************************)
Popen ==
  /\ call' = "poll" /\ deadline' = now + Timeout
  /\ active' = Pipe /\ size' = 0 /\ outcome' = "none"
  /\ child' = "running" /\ code' = 0
  /\ got' = [s \in Pipe |-> 0] /\ piped' = got' /\ wrote' = got'
  /\ holders' = [s \in Pipe |-> {"child"}]
  /\ UNCHANGED <<clockVars, wake, todo, moved>>

GoTo(step) ==
  /\ call' = step
  /\ UNCHANGED <<clockVars, childVars, deadline, wake, active, todo, moved, size, got, outcome>>

\* Return or raise: the finally block is still to come.
Stop(result) ==
  /\ call' = "reap" /\ outcome' = result
  /\ UNCHANGED <<clockVars, deadline, wake, active, todo, moved, size, got>>

Poll ==
  /\ call = "poll"
  /\ \/ active = {} /\ GoTo("collect")
     \/ active # {} /\ now >= deadline /\ Stop("timed out") /\ UNCHANGED childVars
     \/ /\ active # {} /\ now < deadline
        /\ call' = "read" /\ todo' = active /\ moved' = FALSE
        /\ UNCHANGED <<clockVars, childVars, deadline, wake, active, size, got, outcome>>

\* Mistaken: asks for what is left of the budget, so nothing once it is used up.
RoomLeft == MaxOutput - size

\* One byte more than is left, so that a full budget is told from the end of the pipe.
Room == MaxOutput - size + 1

ReadSize(s) == Lesser(piped[s], Lesser(Chunk, Room))

\* os.read has nothing to give although the pipe is open.
WouldBlock(s) == piped[s] = 0 /\ Room > 0 /\ holders[s] # {}

Read(s) ==
  /\ call = "read" /\ s \in todo
  /\ s = "stderr" => "stdout" \notin todo
  /\ \/ /\ WouldBlock(s)
        /\ todo' = todo \ {s}
        /\ UNCHANGED <<clockVars, childVars, call, deadline, wake, active, moved, size, got, outcome>>
     \/ /\ ~WouldBlock(s) /\ ReadSize(s) = 0
        /\ todo' = todo \ {s} /\ active' = active \ {s} /\ moved' = TRUE
        /\ UNCHANGED <<clockVars, childVars, call, deadline, wake, size, got, outcome>>
     \/ /\ ReadSize(s) > 0 /\ size + ReadSize(s) > MaxOutput
        /\ piped' = [piped EXCEPT ![s] = @ - ReadSize(s)]
        /\ Stop("output limit exceeded")
        /\ UNCHANGED <<child, code, holders, wrote>>
     \/ /\ ReadSize(s) > 0 /\ size + ReadSize(s) <= MaxOutput
        /\ piped' = [piped EXCEPT ![s] = @ - ReadSize(s)]
        /\ got' = [got EXCEPT ![s] = @ + ReadSize(s)]
        /\ size' = size + ReadSize(s)
        /\ todo' = todo \ {s} /\ moved' = TRUE
        /\ UNCHANGED <<clockVars, child, code, holders, wrote, call, deadline, wake, active, outcome>>

\* The pass is over: another one at once, or after a nap if nothing moved.
EndPass ==
  /\ call = "read" /\ todo = {}
  /\ call' = IF moved THEN "poll" ELSE "nap"
  /\ wake' = IF moved THEN wake ELSE Lesser(now + Nap, deadline)
  /\ UNCHANGED <<clockVars, childVars, deadline, active, todo, moved, size, got, outcome>>

WakeUp == call = "nap" /\ now >= wake /\ GoTo("poll")

\* Both pipes have ended; what is left of the time is for the child to exit.
Collect ==
  /\ call = "collect"
  /\ \/ now >= deadline /\ Stop("timed out") /\ UNCHANGED childVars
     \/ now < deadline /\ GoTo("wait")

\* Mistaken: process.wait() without a timeout.
WaitForEver == call = "wait" /\ child = "dead" /\ Stop("ok") /\ UNCHANGED childVars

WaitForChild ==
  /\ call = "wait"
  /\ \/ child = "dead" /\ Stop("ok")
     \/ child # "dead" /\ now >= deadline /\ Stop("timed out")
  /\ UNCHANGED childVars

\* The streams are closed and the locals are gone; an exception takes the output with it.
Close ==
  /\ call' = "done"
  /\ active' = {} /\ todo' = {} /\ moved' = FALSE /\ size' = 0 /\ deadline' = 0 /\ wake' = 0
  /\ holders' = [s \in Pipe |-> {}]
  /\ piped' = [s \in Pipe |-> 0] /\ wrote' = piped'
  /\ got' = IF outcome = "ok" THEN got ELSE [s \in Pipe |-> 0]
  /\ UNCHANGED <<clockVars, outcome, child, code>>

\* Mistaken: leaves without waiting for the child.
ReapOnly == call = "reap" /\ Close

\* The finally block: kill a child that still runs, then wait for it without a bound.
Reap ==
  \/ /\ call = "reap" /\ child = "running"
     /\ child' = "killed"
     /\ UNCHANGED <<clockVars, parentVars, code, holders, piped, wrote>>
  \/ call = "reap" /\ child = "dead" /\ Close

ParentStep ==
  Poll \/ (\E s \in Pipe : Read(s)) \/ EndPass \/ WakeUp \/ Collect \/ WaitForChild \/ Reap

-----------------------------------------------------------------------------
(***************************************************************************)
(* The child, its heir and the clock.                                       *)
(***************************************************************************)
InCall == call \notin {"idle", "done"}

\* What a child does to its pipes after that is never seen.
Watched == InCall /\ call # "reap"

Writes(who, s) ==
  /\ Watched /\ who \in holders[s] /\ wrote["stdout"] + wrote["stderr"] < MaxWrite
  /\ who = "child" => child = "running"
  /\ piped' = [piped EXCEPT ![s] = @ + 1]
  /\ wrote' = [wrote EXCEPT ![s] = @ + 1]
  /\ UNCHANGED <<clockVars, parentVars, child, code, holders>>

\* The heir exits when it has closed both pipes.
Closes(who, s) ==
  /\ Watched /\ who \in holders[s]
  /\ who = "child" => child = "running"
  /\ holders' = [holders EXCEPT ![s] = @ \ {who}]
  /\ UNCHANGED <<clockVars, parentVars, child, code, piped, wrote>>

Forks ==
  /\ Watched /\ child = "running" /\ \E s \in Pipe : holders[s] = {"child"}
  /\ holders' = [s \in Pipe |-> IF "child" \in holders[s] THEN {"child", "heir"} ELSE holders[s]]
  /\ UNCHANGED <<clockVars, parentVars, child, code, piped, wrote>>

Exits(status) ==
  /\ InCall
  /\ \/ child = "running" /\ status \in {0, 1}
     \/ child = "killed" /\ status = -9
  /\ child' = "dead" /\ code' = status
  /\ holders' = [s \in Pipe |-> holders[s] \ {"child"}]
  /\ UNCHANGED <<clockVars, parentVars, piped, wrote>>

Dies == child = "killed" /\ Exits(-9)

\* The parent is off the processor because it asked to be.
Blocked(sleeping) ==
  \/ sleeping /\ now < wake
  \/ call = "wait" /\ child # "dead" /\ now < deadline

Tick(sleeping) ==
  /\ now' = now + 1
  /\ \/ Blocked(sleeping) /\ UNCHANGED lag
     \/ ~Blocked(sleeping) /\ InCall /\ lag < MaxLag /\ lag' = lag + 1
  /\ UNCHANGED <<parentVars, childVars>>

-----------------------------------------------------------------------------
(***************************************************************************)
(* What a successful call hands back is everything that was written, by the *)
(* child or by anything that inherited its pipes, and it fits the budget:   *)
(* no output is cut off at the limit, and none is lost by a child that      *)
(* exits before it is read.  (process.py:63, 69-76)                         *)
(***************************************************************************)
OutputWhole ==
  call = "reap" /\ outcome = "ok" =>
    /\ \A s \in Pipe : holders[s] = {} /\ got[s] = wrote[s]
    /\ got["stdout"] + got["stderr"] <= MaxOutput

(***************************************************************************)
(* The caller never goes on while the child of its call lives: whatever     *)
(* raised, the child is dead and reaped when the call is over.              *)
(***************************************************************************)
NoChildLeftBehind == call = "done" => child = "dead"
=============================================================================
