----------------------------- MODULE SquadPolling -----------------------------
(***************************************************************************)
(* poll_squad_status of src/ha_cli.py over real subprocess calls: every     *)
(* attempt runs the pinned provider twice, once to ask its version and once *)
(* for `squad status`, each a call of BoundedProcess.                       *)
(*                                                                         *)
(* A child's answer is what holds when it starts to write; the document is  *)
(* whole when exactly DocSize bytes of it arrive.  The squad ends at some   *)
(* point and stays ended; the provider may be replaced once.                *)
(***************************************************************************)
EXTENDS BoundedProcess

CONSTANTS
  DocSize,      \* length of an answer
  Interval,     \* interval_seconds
  MaxAttempts,  \* max_attempts
  Deadline      \* deadline_seconds

ASSUME PollAssumption ==
  /\ {DocSize, MaxAttempts, Deadline} \subseteq Nat \ {0}
  /\ Interval \in Nat

VARIABLES
  step,      \* where poll_squad_status is
  started, attempt,
  seen,      \* number of observations
  receipt,   \* what it returns or raises
  answer,    \* what the child in progress says
  squad,     \* "running", then "ended"
  provider   \* "pinned", then "replaced"

pollVars == <<step, started, attempt, seen, receipt>>
worldVars == <<answer, squad, provider>>
vars == <<procVars, pollVars, worldVars>>

Init ==
  /\ ProcessInit
  /\ step = "begin" /\ started = 0 /\ attempt = 1 /\ seen = 0
  /\ receipt = "none" /\ answer = "nothing"
  /\ squad = "running" /\ provider = "pinned"

-----------------------------------------------------------------------------
Begin ==
  /\ step = "begin"
  /\ step' = "next" /\ started' = now
  /\ UNCHANGED <<procVars, worldVars, attempt, seen, receipt>>

Ask(next) ==
  /\ step' = next /\ answer' = "nothing"
  /\ Popen
  /\ UNCHANGED <<started, attempt, seen, receipt, squad, provider>>

End(result) ==
  /\ step' = "over" /\ receipt' = result
  /\ UNCHANGED <<procVars, worldVars, started, attempt>>

\* Mistaken: looks at the number of attempts only.
AttemptsExhausted == attempt > MaxAttempts

Exhausted == attempt > MaxAttempts \/ now - started >= Deadline

\* The head of the loop: the bounds, then the build id file, then the version.
NextAttempt ==
  /\ step = "next"
  /\ \/ /\ Exhausted
        /\ End(IF seen = 0 THEN "error" ELSE "indeterminate")
        /\ UNCHANGED seen
     \/ ~Exhausted /\ provider # "pinned" /\ End("error") /\ UNCHANGED seen
     \/ ~Exhausted /\ provider = "pinned" /\ Ask("version")

\* _run_json got one document and an exit status.
Answered == outcome = "ok" /\ got["stdout"] = DocSize

CheckVersion ==
  /\ step = "version" /\ call = "done"
  /\ LET verified == Answered /\ code = 0 /\ answer = "pinned"
     IN  \/ verified /\ Ask("status")
         \/ ~verified /\ End("error") /\ UNCHANGED seen

\* Mistaken: a refusal ends the squad.
EndedOrRefused == code # 0 \/ answer = "ended"

\* payload.terminal, or a state among _TERMINAL_STATES.
IsTerminal == answer = "ended"

\* The observation is counted; a pause only if there is something to pause for.
GoOn ==
  LET remaining == started + Deadline - now
      pause == attempt < MaxAttempts /\ remaining > 0 /\ Interval > 0
  IN  /\ step' = IF pause THEN "pause" ELSE "next"
      /\ wake' = IF pause THEN now + Lesser(Interval, remaining) ELSE wake
      /\ attempt' = attempt + 1 /\ seen' = seen + 1
      /\ got' = [s \in Pipe |-> 0] /\ outcome' = "none" /\ answer' = "nothing"
      /\ UNCHANGED <<clockVars, childVars, squad, provider, started, receipt>>
      /\ UNCHANGED <<call, deadline, active, todo, moved, size>>

CheckStatus ==
  /\ step = "status" /\ call = "done"
  /\ \/ ~Answered /\ End("error") /\ UNCHANGED seen
     \/ Answered /\ IsTerminal /\ End("terminal") /\ seen' = seen + 1
     \/ Answered /\ ~IsTerminal /\ code # 0 /\ End("rejected") /\ seen' = seen + 1
     \/ Answered /\ ~IsTerminal /\ code = 0 /\ GoOn

EndPause ==
  /\ step = "pause" /\ now >= wake
  /\ step' = "next"
  /\ UNCHANGED <<procVars, worldVars, started, attempt, seen, receipt>>

Client ==
  \/ Begin \/ NextAttempt \/ CheckVersion \/ CheckStatus \/ EndPause
  \/ (ParentStep /\ UNCHANGED <<pollVars, worldVars>>)

-----------------------------------------------------------------------------
\* The first byte of the answer fixes it.
Says(s) ==
  IF s = "stdout" /\ wrote["stdout"] = 0
  THEN answer' = IF step = "version" THEN provider ELSE squad
  ELSE UNCHANGED answer

ChildStep ==
  \/ \E who \in {"child", "heir"}, s \in Pipe :
       \/ Writes(who, s) /\ Says(s) /\ UNCHANGED <<pollVars, squad, provider>>
       \/ Closes(who, s) /\ UNCHANGED <<pollVars, worldVars>>
  \/ (Forks \/ \E status \in {0, 1, -9} : Exits(status)) /\ UNCHANGED <<pollVars, worldVars>>

SquadEnds ==
  /\ squad = "running" /\ squad' = "ended"
  /\ UNCHANGED <<procVars, pollVars, answer, provider>>

ProviderReplaced ==
  /\ provider = "pinned" /\ provider' = "replaced"
  /\ UNCHANGED <<procVars, pollVars, answer, squad>>

TimePasses == Tick(step = "pause" \/ call = "nap") /\ UNCHANGED <<pollVars, worldVars>>

Next == Client \/ ChildStep \/ SquadEnds \/ ProviderReplaced \/ TimePasses

Spec == Init /\ [][Next]_vars

(***************************************************************************)
(* The client runs, time passes, and a killed child dies.  Nothing is asked *)
(* of a child that was not killed: it may hang, write nothing or keep its   *)
(* pipes open for ever.                                                     *)
(***************************************************************************)
FairSpec ==
  /\ Spec
  /\ WF_vars(Client) /\ WF_vars(TimePasses)
  /\ WF_vars(Dies /\ UNCHANGED <<pollVars, worldVars>>)

-----------------------------------------------------------------------------
(***************************************************************************)
(* A receipt that calls the squad terminal is right: the squad has ended.   *)
(* A status that was refused, or a bound that fired, never says so.         *)
(***************************************************************************)
TerminalIsTrue == receipt = "terminal" => squad = "ended"

(***************************************************************************)
(* deadline_seconds bounds when the last attempt may begin, not when the    *)
(* poll is over: that attempt still runs the provider twice, each time for  *)
(* up to timeout_seconds.  The poll never takes longer than that.           *)
(* (ha_cli.py:317)                                                          *)
(***************************************************************************)
PollEndsInTime ==
  step # "begin" => now - started <= (Deadline - 1) + 2 * Timeout + MaxLag

(***************************************************************************)
(* The poll ends, whatever its children do: hang, flood, close their pipes  *)
(* and live on, or leave them to an heir.                                   *)
(***************************************************************************)
PollEnds == step = "next" ~> step = "over"
=============================================================================
