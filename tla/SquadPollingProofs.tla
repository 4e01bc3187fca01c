--------------------------- MODULE SquadPollingProofs ---------------------------
(***************************************************************************)
(* Polling through bounded subprocesses, for every timeout, budget, chunk,  *)
(* interval, deadline and number of attempts.                               *)
(***************************************************************************)
EXTENDS SquadPolling, TLAPS

ProcTypeOK ==
  /\ now \in Nat /\ lag \in Nat /\ lag <= MaxLag
  /\ call \in {"idle", "poll", "read", "nap", "collect", "wait", "reap", "done"}
  /\ deadline \in Nat /\ wake \in Nat /\ size \in Nat
  /\ active \subseteq Pipe /\ todo \subseteq active
  /\ got \in [Pipe -> Nat] /\ piped \in [Pipe -> Nat] /\ wrote \in [Pipe -> Nat]
  /\ holders \in [Pipe -> SUBSET {"child", "heir"}]

\* While the pipes are watched, every byte is with the caller or in its pipe, and the
\* parent gives up a pipe only when it is empty and nobody can write to it.
BytesAccounted ==
  /\ call \in {"collect", "wait"} => active = {}
  /\ Watched =>
       /\ size = got["stdout"] + got["stderr"] /\ size <= MaxOutput
       /\ \A s \in Pipe : wrote[s] = got[s] + piped[s]
       /\ \A s \in Pipe : s \notin active => holders[s] = {} /\ piped[s] = 0

ProcInv == ProcTypeOK /\ BytesAccounted /\ OutputWhole /\ NoChildLeftBehind

\* A subprocess runs in two steps of the poll only.
CallsNested == step \notin {"version", "status"} => call \in {"idle", "done"}

\* The first and the second call of an attempt, at the latest; lag excused.
ByVersion == started + (Deadline - 1) + Timeout
ByStatus == ByVersion + Timeout

TimeBounded ==
  /\ started \in Nat
  /\ step = "version" => now - lag <= ByVersion /\ (InCall => deadline - lag <= ByVersion)
  /\ step = "status" /\ InCall => deadline - lag <= ByStatus
  /\ step # "begin" => now - lag <= ByStatus
  /\ call = "nap" => wake <= deadline
  /\ step = "pause" => wake <= started + Deadline

\* What is said of the squad is true, as ended squads stay ended.
AnswersTrue ==
  /\ provider \in {"pinned", "replaced"} /\ squad \in {"running", "ended"}
  /\ answer = "ended" => squad = "ended"
  /\ TerminalIsTrue

PollInv == ProcInv /\ CallsNested /\ TimeBounded /\ AnswersTrue

-----------------------------------------------------------------------------
(***************************************************************************)
(* The steps of one subprocess call.                                        *)
(***************************************************************************)
LEMMA Pipes == Pipe = {"stdout", "stderr"} /\ "stdout" # "stderr"
BY DEF Pipe

LEMMA LesserBounds ==
  ASSUME NEW m \in Int, NEW n \in Int
  PROVE  Lesser(m, n) \in {m, n} /\ Lesser(m, n) <= m /\ Lesser(m, n) <= n
BY DEF Lesser

LEMMA PopenKeeps == ProcInv /\ Popen => ProcInv'
<1> SUFFICES ASSUME ProcInv, Popen PROVE ProcInv'
  OBVIOUS
<1> USE ProcessAssumption, Pipes DEF ProcessAssumption
<1>1. ProcTypeOK' BY DEF ProcInv, ProcTypeOK, Popen, clockVars
<1>2. BytesAccounted' BY DEF Popen, BytesAccounted, Watched, InCall
<1>3. OutputWhole' /\ NoChildLeftBehind' BY DEF Popen, OutputWhole, NoChildLeftBehind
<1> QED BY <1>1, <1>2, <1>3 DEF ProcInv

\* Steps of the parent that touch no byte.
LEMMA ControlKeeps ==
  ASSUME ProcInv, Poll \/ EndPass \/ WakeUp \/ Collect \/ WaitForChild PROVE ProcInv'
<1> USE ProcessAssumption, Pipes DEF ProcessAssumption, GoTo, Stop, clockVars, childVars
<1>1. ProcTypeOK'
  <2>1. now + Nap \in Int /\ deadline \in Int BY DEF ProcInv, ProcTypeOK
  <2>2. Lesser(now + Nap, deadline) \in Nat
    BY <2>1, LesserBounds DEF ProcInv, ProcTypeOK
  <2>3. CASE Poll BY <2>3 DEF Poll, ProcInv, ProcTypeOK
  <2>4. CASE EndPass BY <2>2, <2>4 DEF EndPass, ProcInv, ProcTypeOK
  <2>5. CASE WakeUp BY <2>5 DEF WakeUp, ProcInv, ProcTypeOK
  <2>6. CASE Collect BY <2>6 DEF Collect, ProcInv, ProcTypeOK
  <2>7. CASE WaitForChild BY <2>7 DEF WaitForChild, ProcInv, ProcTypeOK
  <2> QED BY <2>3, <2>4, <2>5, <2>6, <2>7
<1>2. BytesAccounted'
  <2> USE DEF BytesAccounted, Watched, InCall
  <2>3. CASE Poll BY <2>3 DEF Poll, ProcInv
  <2>4. CASE EndPass BY <2>4 DEF EndPass, ProcInv
  <2>5. CASE WakeUp BY <2>5 DEF WakeUp, ProcInv
  <2>6. CASE Collect BY <2>6 DEF Collect, ProcInv
  <2>7. CASE WaitForChild BY <2>7 DEF WaitForChild, ProcInv
  <2> QED BY <2>3, <2>4, <2>5, <2>6, <2>7
<1>3. OutputWhole'
  <2>3. CASE Poll BY <2>3 DEF Poll, OutputWhole
  <2>4. CASE EndPass BY <2>4 DEF EndPass, OutputWhole
  <2>5. CASE WakeUp BY <2>5 DEF WakeUp, OutputWhole
  <2>6. CASE Collect BY <2>6 DEF Collect, OutputWhole
  <2>7. CASE WaitForChild
    <3>1. active = {} /\ Watched BY <2>7 DEF WaitForChild, ProcInv, BytesAccounted, Watched, InCall
    <3>2. \A s \in Pipe : wrote[s] = got[s] + piped[s] /\ holders[s] = {} /\ piped[s] = 0
      BY <3>1 DEF ProcInv, BytesAccounted
    <3>3. \A s \in Pipe : got[s] \in Nat BY DEF ProcInv, ProcTypeOK
    <3>4. \A s \in Pipe : got[s] = wrote[s] BY <3>2, <3>3
    <3>5. got["stdout"] + got["stderr"] <= MaxOutput BY <3>1 DEF ProcInv, BytesAccounted
    <3> QED BY <2>7, <3>2, <3>4, <3>5 DEF WaitForChild, OutputWhole
  <2> QED BY <2>3, <2>4, <2>5, <2>6, <2>7
<1>4. NoChildLeftBehind'
  BY DEF Poll, EndPass, WakeUp, Collect, WaitForChild, NoChildLeftBehind
<1> QED BY <1>1, <1>2, <1>3, <1>4 DEF ProcInv

\* One os.read.  The room for one byte more makes an empty answer mean the end of the pipe.
LEMMA ReadKeeps ==
  ASSUME ProcInv, NEW s \in Pipe, Read(s) PROVE ProcInv'
<1> USE ProcessAssumption, Pipes DEF ProcessAssumption
<1> DEFINE n == ReadSize(s)
<1>1. s \in active /\ Watched BY DEF Read, ProcInv, ProcTypeOK, Watched, InCall
<1>2. /\ size \in Nat /\ size <= MaxOutput /\ size = got["stdout"] + got["stderr"]
      /\ \A t \in Pipe : wrote[t] = got[t] + piped[t]
      /\ \A t \in Pipe : got[t] \in Nat /\ piped[t] \in Nat /\ wrote[t] \in Nat
  BY <1>1 DEF ProcInv, ProcTypeOK, BytesAccounted
<1>3. Room \in Nat /\ Room > 0 BY <1>2 DEF Room
<1>4. n \in Nat /\ n <= piped[s] /\ (n = 0 => piped[s] = 0)
  <2>1. Lesser(Chunk, Room) \in Nat /\ Lesser(Chunk, Room) > 0 BY <1>3, LesserBounds
  <2>2. piped[s] \in Nat BY <1>2
  <2> QED BY <2>1, <2>2 DEF ReadSize, Lesser
<1> HIDE DEF n
<1>5. CASE WouldBlock(s) /\ todo' = todo \ {s}
           /\ UNCHANGED <<clockVars, childVars, call, deadline, wake, active, moved, size, got, outcome>>
  BY <1>5 DEF ProcInv, ProcTypeOK, BytesAccounted, OutputWhole, NoChildLeftBehind, Watched,
              InCall, clockVars, childVars
<1>6. CASE ~WouldBlock(s) /\ n = 0 /\ todo' = todo \ {s} /\ active' = active \ {s}
           /\ UNCHANGED <<clockVars, childVars, call, deadline, wake, size, got, outcome>>
  <2>1. piped[s] = 0 /\ holders[s] = {} BY <1>3, <1>4, <1>6 DEF WouldBlock
  <2>2. ProcTypeOK' BY <1>6 DEF ProcInv, ProcTypeOK, clockVars, childVars
  <2>3. call = "read" BY DEF Read
  <2>4. BytesAccounted'
    BY <1>6, <2>1, <2>3 DEF ProcInv, BytesAccounted, Watched, InCall, clockVars, childVars
  <2> QED BY <1>6, <2>2, <2>3, <2>4
          DEF ProcInv, OutputWhole, NoChildLeftBehind, clockVars, childVars
<1>7. CASE /\ n > 0 /\ piped' = [piped EXCEPT ![s] = @ - n] /\ Stop("output limit exceeded")
           /\ UNCHANGED <<child, code, holders, wrote>>
  <2>1. piped' \in [Pipe -> Nat]
    <3>1. piped \in [Pipe -> Nat] BY DEF ProcInv, ProcTypeOK
    <3>2. piped[s] - n \in Nat BY <1>2, <1>4
    <3> QED BY <1>7, <3>1, <3>2
  <2>2. call' = "reap" /\ outcome' = "output limit exceeded" BY <1>7 DEF Stop
  <2>3. ProcTypeOK' BY <1>7, <2>1, <2>2 DEF ProcInv, ProcTypeOK, Stop, clockVars
  <2> QED BY <2>2, <2>3
          DEF ProcInv, BytesAccounted, OutputWhole, NoChildLeftBehind, Watched
<1>8. CASE /\ n > 0 /\ size + n <= MaxOutput
           /\ piped' = [piped EXCEPT ![s] = @ - n] /\ got' = [got EXCEPT ![s] = @ + n]
           /\ size' = size + n /\ todo' = todo \ {s}
           /\ UNCHANGED <<clockVars, child, code, holders, wrote, call, deadline, wake, active, outcome>>
  <2>1. piped' \in [Pipe -> Nat] /\ got' \in [Pipe -> Nat] /\ size' \in Nat
    BY <1>2, <1>4, <1>8 DEF ProcInv, ProcTypeOK
  <2>2. ProcTypeOK' BY <1>8, <2>1 DEF ProcInv, ProcTypeOK, clockVars
  <2>3. /\ piped'[s] = piped[s] - n /\ got'[s] = got[s] + n
        /\ \A t \in Pipe \ {s} : piped'[t] = piped[t] /\ got'[t] = got[t]
    BY <1>8 DEF ProcInv, ProcTypeOK
  <2>4. size' = got'["stdout"] + got'["stderr"] /\ size' <= MaxOutput
    BY <1>2, <1>4, <1>8, <2>3
  <2>5. \A t \in Pipe : wrote'[t] = got'[t] + piped'[t] BY <1>2, <1>4, <1>8, <2>3
  <2>6. \A t \in Pipe : t \notin active => holders[t] = {} /\ piped'[t] = 0
    BY <1>1, <2>3 DEF ProcInv, BytesAccounted
  <2>7. call = "read" BY DEF Read
  <2> QED BY <1>8, <2>2, <2>4, <2>5, <2>6, <2>7
          DEF ProcInv, BytesAccounted, OutputWhole, NoChildLeftBehind, Watched
<1> QED BY <1>5, <1>6, <1>7, <1>8 DEF Read, n

LEMMA ReapKeeps == ProcInv /\ Reap => ProcInv'
<1> SUFFICES ASSUME ProcInv, Reap PROVE ProcInv'
  OBVIOUS
<1> USE ProcessAssumption, Pipes DEF ProcessAssumption
<1>1. CASE call = "reap" /\ child = "running" /\ child' = "killed"
           /\ UNCHANGED <<clockVars, parentVars, code, holders, piped, wrote>>
  BY <1>1 DEF ProcInv, ProcTypeOK, BytesAccounted, OutputWhole, NoChildLeftBehind, Watched,
              InCall, clockVars, parentVars
<1>2. CASE call = "reap" /\ child = "dead" /\ Close
  <2>1. ProcTypeOK' BY <1>2 DEF ProcInv, ProcTypeOK, Close, clockVars
  <2>2. call' = "done" /\ child' = "dead" BY <1>2 DEF Close
  <2> QED BY <2>1, <2>2
          DEF ProcInv, BytesAccounted, OutputWhole, NoChildLeftBehind, Watched, InCall
<1> QED BY <1>1, <1>2 DEF Reap

LEMMA ParentKeeps == ProcInv /\ ParentStep => ProcInv'
BY ControlKeeps, ReadKeeps, ReapKeeps DEF ParentStep

\* What the child and its heir do, and the clock.
LEMMA WritesKeeps ==
  ASSUME ProcInv, NEW who \in {"child", "heir"}, NEW s \in Pipe, Writes(who, s) PROVE ProcInv'
<1> USE Pipes
<1>1. /\ piped'[s] = piped[s] + 1 /\ wrote'[s] = wrote[s] + 1
      /\ \A t \in Pipe \ {s} : piped'[t] = piped[t] /\ wrote'[t] = wrote[t]
      /\ UNCHANGED <<clockVars, parentVars, child, code, holders>> /\ Watched
  BY DEF Writes, ProcInv, ProcTypeOK
<1>2. ProcTypeOK' BY DEF Writes, ProcInv, ProcTypeOK, clockVars, parentVars
<1>3. s \in active BY <1>1 DEF Writes, ProcInv, BytesAccounted
<1>4. \A t \in Pipe : got[t] \in Nat /\ piped[t] \in Nat /\ wrote[t] \in Nat
  BY DEF ProcInv, ProcTypeOK
<1>5. \A t \in Pipe : wrote'[t] = got[t] + piped'[t]
  BY <1>1, <1>4 DEF ProcInv, BytesAccounted
<1>6. BytesAccounted'
  BY <1>1, <1>3, <1>5 DEF ProcInv, BytesAccounted, Watched, InCall, parentVars
<1>7. OutputWhole' /\ NoChildLeftBehind'
  BY <1>1 DEF ProcInv, OutputWhole, NoChildLeftBehind, Watched, parentVars
<1> QED BY <1>2, <1>6, <1>7 DEF ProcInv

LEMMA ChildKeeps ==
  ASSUME ProcInv,
         \/ \E who \in {"child", "heir"}, s \in Pipe : Closes(who, s)
         \/ Forks
         \/ \E status \in {0, 1, -9} : Exits(status)
  PROVE  ProcInv'
<1> USE Pipes
<1>1. holders' \in [Pipe -> SUBSET {"child", "heir"}]
      /\ \A s \in Pipe : holders[s] = {} => holders'[s] = {}
  <2>1. ASSUME NEW who \in {"child", "heir"}, NEW s \in Pipe, Closes(who, s)
        PROVE  holders' \in [Pipe -> SUBSET {"child", "heir"}]
               /\ \A t \in Pipe : holders[t] = {} => holders'[t] = {}
    BY <2>1 DEF Closes, ProcInv, ProcTypeOK
  <2>2. CASE Forks BY <2>2 DEF Forks, ProcInv, ProcTypeOK
  <2>3. CASE \E status \in {0, 1, -9} : Exits(status) BY <2>3 DEF Exits, ProcInv, ProcTypeOK
  <2> QED BY <2>1, <2>2, <2>3
<1>2. UNCHANGED <<clockVars, parentVars, piped, wrote>> /\ InCall
  BY DEF Closes, Forks, Exits, Watched
<1>3. ProcTypeOK' BY <1>1, <1>2 DEF ProcInv, ProcTypeOK, clockVars, parentVars
<1>4. BytesAccounted' BY <1>1, <1>2 DEF ProcInv, BytesAccounted, Watched, InCall, parentVars
<1>5. OutputWhole' BY <1>1, <1>2 DEF ProcInv, OutputWhole, parentVars
<1>6. NoChildLeftBehind' BY <1>2 DEF NoChildLeftBehind, InCall, parentVars
<1> QED BY <1>3, <1>4, <1>5, <1>6 DEF ProcInv

LEMMA TickKeeps ==
  ASSUME ProcInv, NEW sleeping \in BOOLEAN, Tick(sleeping) PROVE ProcInv'
<1>1. now' \in Nat /\ lag' \in Nat /\ lag' <= MaxLag
  BY ProcessAssumption DEF ProcessAssumption, Tick, ProcInv, ProcTypeOK
<1>2. UNCHANGED <<parentVars, childVars>> BY DEF Tick
<1> QED BY <1>1, <1>2 DEF ProcInv, ProcTypeOK, BytesAccounted, OutputWhole, NoChildLeftBehind,
                         Watched, InCall, parentVars, childVars

-----------------------------------------------------------------------------
(***************************************************************************)
(* The poll.                                                                *)
(***************************************************************************)
LEMMA PollInitial == Init => PollInv
<1> USE ProcessAssumption, PollAssumption, Pipes DEF ProcessAssumption, PollAssumption
<1> SUFFICES ASSUME Init PROVE PollInv
  OBVIOUS
<1>1. ProcInv
  BY DEF Init, ProcessInit, ProcInv, ProcTypeOK, BytesAccounted, OutputWhole,
         NoChildLeftBehind, Watched, InCall
<1>2. CallsNested /\ TimeBounded /\ AnswersTrue
  BY DEF Init, ProcessInit, CallsNested, TimeBounded, AnswersTrue, TerminalIsTrue, InCall
<1> QED BY <1>1, <1>2 DEF PollInv

\* The steps of poll_squad_status itself.
LEMMA ClientKeeps ==
  ASSUME PollInv, Begin \/ NextAttempt \/ CheckVersion \/ CheckStatus \/ EndPause
  PROVE  PollInv'
<1> USE ProcessAssumption, PollAssumption DEF ProcessAssumption, PollAssumption
<1>1. /\ now \in Nat /\ lag \in Nat /\ deadline \in Nat /\ wake \in Nat /\ started \in Nat
      /\ {Timeout, Deadline} \subseteq Nat /\ Timeout > 0 /\ Deadline > 0
  BY DEF PollInv, ProcInv, ProcTypeOK, TimeBounded
<1>2. ProcInv /\ CallsNested /\ TimeBounded /\ AnswersTrue BY DEF PollInv
<1>3. ASSUME NEW next \in {"version", "status"}, Ask(next), CallsNested,
             now - lag + Timeout <= (IF next = "version" THEN ByVersion ELSE ByStatus)
      PROVE  PollInv'
  <2>1. ProcInv' BY <1>2, <1>3, PopenKeeps DEF Ask
  <2>2. /\ step' = next /\ call' = "poll" /\ deadline' = now + Timeout
        /\ UNCHANGED <<now, lag, started, squad, provider, receipt>> /\ answer' = "nothing"
    BY <1>3 DEF Ask, Popen, clockVars
  <2>3. TimeBounded' BY <1>1, <1>3, <2>2 DEF TimeBounded, ByVersion, ByStatus, InCall
  <2>4. AnswersTrue' BY <1>2, <2>2 DEF AnswersTrue, TerminalIsTrue
  <2> QED BY <2>1, <2>2, <2>3, <2>4 DEF PollInv, CallsNested
<1>4. ASSUME NEW r \in {"error", "indeterminate", "terminal", "rejected"}, End(r),
             call \in {"idle", "done"}, step # "begin", r = "terminal" => squad = "ended"
      PROVE  PollInv'
  <2>1. ProcInv' BY <1>2, <1>4
    DEF End, procVars, clockVars, parentVars, childVars, ProcInv, ProcTypeOK, BytesAccounted,
        OutputWhole, NoChildLeftBehind, Watched, InCall
  <2>2. /\ step' = "over" /\ receipt' = r
        /\ UNCHANGED <<now, lag, call, deadline, wake, started, answer, squad, provider>>
    BY <1>4 DEF End, procVars, clockVars, parentVars, worldVars
  <2>3. TimeBounded' BY <1>2, <1>4, <2>2 DEF TimeBounded, ByVersion, ByStatus, InCall
  <2>4. AnswersTrue' BY <1>2, <1>4, <2>2 DEF AnswersTrue, TerminalIsTrue
  <2> QED BY <1>4, <2>1, <2>2, <2>3, <2>4 DEF PollInv, CallsNested
<1>5. CASE Begin
  <2>1. ProcInv' BY <1>2, <1>5
    DEF Begin, procVars, clockVars, parentVars, childVars, ProcInv, ProcTypeOK, BytesAccounted,
        OutputWhole, NoChildLeftBehind, Watched, InCall
  <2>2. /\ step = "begin" /\ step' = "next" /\ started' = now
        /\ UNCHANGED <<now, lag, call, deadline, wake, receipt, answer, squad, provider>>
    BY <1>5 DEF Begin, procVars, clockVars, parentVars, worldVars
  <2>3. TimeBounded' BY <1>1, <1>2, <2>2 DEF TimeBounded, ByVersion, ByStatus, InCall
  <2> QED BY <1>2, <2>1, <2>2, <2>3 DEF PollInv, CallsNested, AnswersTrue, TerminalIsTrue
<1>6. CASE NextAttempt
  <2>1. step = "next" /\ call \in {"idle", "done"}
    BY <1>2, <1>6 DEF NextAttempt, CallsNested
  <2>2. CASE ~Exhausted /\ Ask("version")
    <3>1. now - started < Deadline BY <1>1, <2>2 DEF Exhausted
    <3>2. now - lag + Timeout <= ByVersion BY <1>1, <3>1 DEF ByVersion
    <3> QED BY <1>2, <1>3, <2>2, <3>2
  <2>3. CASE End("error") BY <1>4, <2>1, <2>3
  <2>4. CASE End("indeterminate") BY <1>4, <2>1, <2>4
  <2> QED BY <1>6, <2>2, <2>3, <2>4 DEF NextAttempt
<1>7. CASE CheckVersion
  <2>1. step = "version" /\ call = "done" BY <1>7 DEF CheckVersion
  <2>2. CASE Ask("status")
    <3>1. now - lag + Timeout <= ByStatus
      BY <1>1, <1>2, <2>1 DEF TimeBounded, ByVersion, ByStatus
    <3> QED BY <1>2, <1>3, <2>2, <3>1
  <2>3. CASE End("error") BY <1>4, <2>1, <2>3
  <2> QED BY <1>7, <2>2, <2>3 DEF CheckVersion
<1>8. CASE CheckStatus
  <2>1. step = "status" /\ call = "done" BY <1>8 DEF CheckStatus
  <2>2. CASE IsTerminal /\ End("terminal")
    <3>1. squad = "ended" BY <1>2, <2>2 DEF AnswersTrue, IsTerminal
    <3> QED BY <1>4, <2>1, <2>2, <3>1
  <2>3. CASE End("error") BY <1>4, <2>1, <2>3
  <2>4. CASE End("rejected") BY <1>4, <2>1, <2>4
  <2>5. CASE GoOn
    <3>1. /\ UNCHANGED <<clockVars, childVars, squad, provider, started, receipt>>
          /\ UNCHANGED <<call, deadline, active, todo, moved, size>>
          /\ got' = [s \in Pipe |-> 0] /\ outcome' = "none" /\ answer' = "nothing"
      BY <2>5 DEF GoOn
    <3>2. /\ step' \in {"pause", "next"} /\ wake' \in Nat
          /\ step' = "pause" => wake' <= started + Deadline
      <4> DEFINE remaining == started + Deadline - now
      <4>1. CASE attempt < MaxAttempts /\ remaining > 0 /\ Interval > 0
        <5>1. Lesser(Interval, remaining) \in Nat /\ Lesser(Interval, remaining) <= remaining
          BY <1>1, <4>1, LesserBounds
        <5>2. step' = "pause" /\ wake' = now + Lesser(Interval, remaining)
          BY <2>5, <4>1 DEF GoOn
        <5> QED BY <1>1, <5>1, <5>2
      <4>2. CASE ~(attempt < MaxAttempts /\ remaining > 0 /\ Interval > 0)
        BY <1>1, <2>5, <4>2 DEF GoOn
      <4> QED BY <4>1, <4>2
    <3>3. ProcInv'
      BY <1>2, <2>1, <3>1, <3>2
      DEF ProcInv, ProcTypeOK, BytesAccounted, OutputWhole, NoChildLeftBehind, Watched,
          InCall, clockVars, childVars
    <3>4. TimeBounded'
      BY <1>1, <1>2, <2>1, <3>1, <3>2 DEF TimeBounded, ByVersion, ByStatus, InCall, clockVars
    <3>5. AnswersTrue' BY <1>2, <3>1 DEF AnswersTrue, TerminalIsTrue
    <3> QED BY <2>1, <3>1, <3>2, <3>3, <3>4, <3>5 DEF PollInv, CallsNested
  <2> QED BY <1>8, <2>2, <2>3, <2>4, <2>5 DEF CheckStatus
<1>9. CASE EndPause
  <2>1. ProcInv' BY <1>2, <1>9
    DEF EndPause, procVars, clockVars, parentVars, childVars, ProcInv, ProcTypeOK,
        BytesAccounted, OutputWhole, NoChildLeftBehind, Watched, InCall
  <2>2. /\ step = "pause" /\ step' = "next"
        /\ UNCHANGED <<now, lag, call, deadline, wake, started, receipt, answer, squad, provider>>
    BY <1>9 DEF EndPause, procVars, clockVars, parentVars, worldVars
  <2>3. TimeBounded' BY <1>2, <2>2 DEF TimeBounded, ByVersion, ByStatus, InCall
  <2> QED BY <1>2, <2>1, <2>2, <2>3 DEF PollInv, CallsNested, AnswersTrue, TerminalIsTrue
<1> QED BY <1>5, <1>6, <1>7, <1>8, <1>9

-----------------------------------------------------------------------------
(***************************************************************************)
(* The rest of the world while the poll waits.                              *)
(***************************************************************************)
\* A call of a subprocess moves no clock, and its naps end with its deadline.
LEMMA CallKeepsTime ==
  ASSUME PollInv, ParentStep, UNCHANGED <<pollVars, worldVars>> PROVE PollInv'
<1> USE ProcessAssumption DEF ProcessAssumption
<1>1. ProcInv' BY ParentKeeps DEF PollInv
<1>2. /\ InCall /\ UNCHANGED <<now, lag, step, started, receipt, answer, squad, provider>>
      /\ deadline' \in {deadline, 0}
    BY DEF ParentStep, Poll, Read, EndPass, WakeUp, Collect, WaitForChild, Reap, Close, Stop,
           GoTo, InCall, clockVars, parentVars, pollVars, worldVars
<1>3. call' = "nap" => wake' <= deadline'
  <2>1. call' = "nap" => EndPass \/ UNCHANGED <<call, wake, deadline>>
    BY DEF ParentStep, Poll, Read, WakeUp, Collect, WaitForChild, Reap, Close, Stop, GoTo,
           parentVars
  <2>2. CASE EndPass
    <3>1. now + Nap \in Int /\ deadline \in Int BY DEF PollInv, ProcInv, ProcTypeOK
    <3>2. Lesser(now + Nap, deadline) <= deadline BY <3>1, LesserBounds
    <3> QED BY <2>2, <3>2 DEF EndPass
  <2>3. CASE UNCHANGED <<call, wake, deadline>> BY <2>3 DEF PollInv, TimeBounded
  <2> QED BY <2>1, <2>2, <2>3
<1>4. CallsNested' BY <1>2 DEF PollInv, CallsNested, InCall
<1>5. TimeBounded'
  <2>1. now \in Nat /\ lag \in Nat /\ deadline \in Nat /\ started \in Nat
        /\ Timeout \in Nat /\ Deadline \in Nat /\ Deadline > 0
    BY PollAssumption DEF PollAssumption, PollInv, ProcInv, ProcTypeOK, TimeBounded
  <2>2. step \in {"version", "status"} BY <1>2 DEF PollInv, CallsNested, InCall
  <2>3. ByVersion' = ByVersion /\ ByStatus' = ByStatus /\ ByVersion \in Nat /\ ByStatus \in Nat
    BY <1>2, <2>1 DEF ByVersion, ByStatus
  <2>4. \A b \in Nat : deadline - lag <= b => deadline' - lag' <= b
    <3>1. lag' = lag /\ (deadline' = deadline \/ deadline' = 0) BY <1>2
    <3>2. \A b \in Nat : 0 - lag <= b BY <2>1
    <3>3. CASE deadline' = deadline BY <3>1, <3>3
    <3>4. CASE deadline' = 0 BY <3>1, <3>2, <3>4
    <3> QED BY <3>1, <3>3, <3>4
  <2>5. /\ step = "version" => now - lag <= ByVersion /\ deadline - lag <= ByVersion
        /\ step = "status" => deadline - lag <= ByStatus
        /\ now - lag <= ByStatus
    BY <1>2, <2>2 DEF PollInv, TimeBounded
  <2> QED BY <1>2, <1>3, <2>1, <2>2, <2>3, <2>4, <2>5 DEF TimeBounded
<1>6. AnswersTrue' BY <1>2 DEF PollInv, AnswersTrue, TerminalIsTrue
<1> QED BY <1>1, <1>4, <1>5, <1>6 DEF PollInv

LEMMA ChildKeepsPoll == PollInv /\ ChildStep => PollInv'
<1> SUFFICES ASSUME PollInv, ChildStep PROVE PollInv'
  OBVIOUS
<1>1. ProcInv'
  <2>1. ASSUME NEW who \in {"child", "heir"}, NEW s \in Pipe, Writes(who, s) PROVE ProcInv'
    BY <2>1, WritesKeeps DEF PollInv
  <2> QED BY <2>1, ChildKeeps DEF PollInv, ChildStep
<1>2. UNCHANGED <<clockVars, parentVars, pollVars, squad, provider>>
  BY DEF ChildStep, Writes, Closes, Forks, Exits, worldVars
<1>3. answer' \in {answer, provider, squad} BY DEF ChildStep, Says, worldVars
<1>4. CallsNested' /\ TimeBounded'
  BY <1>2 DEF PollInv, CallsNested, TimeBounded, ByVersion, ByStatus, InCall, clockVars,
              parentVars, pollVars
<1>5. AnswersTrue' BY <1>2, <1>3 DEF PollInv, AnswersTrue, TerminalIsTrue, pollVars
<1> QED BY <1>1, <1>4, <1>5 DEF PollInv

\* The squad ends, or the provider is replaced.
LEMMA WorldKeeps == PollInv /\ (SquadEnds \/ ProviderReplaced) => PollInv'
<1> SUFFICES ASSUME PollInv, SquadEnds \/ ProviderReplaced PROVE PollInv'
  OBVIOUS
<1>1. UNCHANGED <<procVars, pollVars, answer>> BY DEF SquadEnds, ProviderReplaced
<1>2. ProcInv' /\ CallsNested' /\ TimeBounded'
  BY <1>1 DEF PollInv, ProcInv, ProcTypeOK, BytesAccounted, OutputWhole, NoChildLeftBehind,
              Watched, InCall, CallsNested, TimeBounded, ByVersion, ByStatus,
              procVars, clockVars, parentVars, childVars, pollVars
<1>3. AnswersTrue'
  BY <1>1 DEF PollInv, AnswersTrue, TerminalIsTrue, SquadEnds, ProviderReplaced, pollVars
<1> QED BY <1>2, <1>3 DEF PollInv

\* While the parent asked to be off the processor, time stops at what it waits for.
LEMMA TimeKeeps == PollInv /\ TimePasses => PollInv'
<1> SUFFICES ASSUME PollInv, TimePasses PROVE PollInv'
  OBVIOUS
<1> DEFINE sleeping == step = "pause" \/ call = "nap"
<1>1. ProcInv' BY TickKeeps DEF PollInv, TimePasses
<1>2. UNCHANGED <<parentVars, childVars, pollVars, worldVars>> BY DEF TimePasses, Tick
<1>3. now \in Nat /\ lag \in Nat /\ deadline \in Nat /\ started \in Nat /\ wake \in Nat
      /\ Timeout \in Nat /\ Timeout > 0 /\ Deadline \in Nat /\ Deadline > 0
  BY ProcessAssumption, PollAssumption
  DEF ProcessAssumption, PollAssumption, PollInv, ProcInv, ProcTypeOK, TimeBounded
<1>4. TimeBounded'
  <2>1. CASE lag' = lag + 1 /\ InCall
    BY <1>2, <1>3, <2>1
    DEF TimePasses, Tick, PollInv, TimeBounded, ByVersion, ByStatus, InCall, parentVars, pollVars
  <2>2. CASE lag' = lag /\ Blocked(sleeping)
    <3>1. now' = now + 1 BY DEF TimePasses, Tick
    <3>2. CASE step = "pause"
      <4>1. now < wake BY <2>2, <3>2 DEF Blocked, PollInv, CallsNested
      <4> QED BY <1>2, <1>3, <2>2, <3>1, <3>2, <4>1
              DEF PollInv, CallsNested, TimeBounded, ByVersion, ByStatus, InCall, parentVars,
                  pollVars
    <3>3. CASE step # "pause"
      <4>1. InCall /\ now < deadline
        BY <1>3, <2>2, <3>3 DEF Blocked, PollInv, TimeBounded, InCall
      <4>2. step \in {"version", "status"} BY <4>1 DEF PollInv, CallsNested, InCall
      <4> QED BY <1>2, <1>3, <2>2, <3>1, <3>3, <4>1, <4>2
              DEF PollInv, TimeBounded, ByVersion, ByStatus, InCall, parentVars, pollVars
    <3> QED BY <3>2, <3>3
  <2> QED BY <2>1, <2>2 DEF TimePasses, Tick
<1>5. CallsNested' /\ AnswersTrue'
  BY <1>2 DEF PollInv, CallsNested, AnswersTrue, TerminalIsTrue, parentVars, pollVars, worldVars
<1> QED BY <1>1, <1>4, <1>5 DEF PollInv

-----------------------------------------------------------------------------
LEMMA PollStep == PollInv /\ [Next]_vars => PollInv'
<1> SUFFICES ASSUME PollInv, [Next]_vars PROVE PollInv'
  OBVIOUS
<1>1. CASE UNCHANGED vars
  BY <1>1 DEF PollInv, ProcInv, ProcTypeOK, BytesAccounted, OutputWhole, NoChildLeftBehind,
              Watched, InCall, CallsNested, TimeBounded, ByVersion, ByStatus, AnswersTrue,
              TerminalIsTrue, vars, procVars, clockVars, parentVars, childVars, pollVars,
              worldVars
<1>2. CASE Client BY <1>2, ClientKeeps, CallKeepsTime DEF Client
<1>3. CASE ChildStep BY <1>3, ChildKeepsPoll
<1>4. CASE SquadEnds \/ ProviderReplaced BY <1>4, WorldKeeps
<1>5. CASE TimePasses BY <1>5, TimeKeeps
<1> QED BY <1>1, <1>2, <1>3, <1>4, <1>5 DEF Next

(***************************************************************************)
(* The inductive invariant: every byte of the call in progress is accounted *)
(* for, and the time since the poll began is charged to its attempt, to at  *)
(* most two calls, or to lag.                                               *)
(***************************************************************************)
THEOREM PollInvariant == Spec => []PollInv
<1> QED BY PollInitial, PollStep, PTL DEF Spec

(***************************************************************************)
(* A successful run_bounded_process (process.py:27-89) returns all that was *)
(* written to both pipes, and it fits max_output_bytes.                     *)
(***************************************************************************)
THEOREM OutputIsWhole == Spec => []OutputWhole
<1>1. PollInv => OutputWhole BY DEF PollInv, ProcInv
<1> QED BY <1>1, PollInvariant, PTL

(***************************************************************************)
(* The finally block (process.py:85-89) leaves no living child behind.      *)
(***************************************************************************)
THEOREM EveryChildIsReaped == Spec => []NoChildLeftBehind
<1>1. PollInv => NoChildLeftBehind BY DEF PollInv, ProcInv
<1> QED BY <1>1, PollInvariant, PTL

(***************************************************************************)
(* poll_squad_status (ha_cli.py:294) calls a squad terminal only when it is.*)
(***************************************************************************)
THEOREM TerminalReceiptsAreTrue == Spec => []TerminalIsTrue
<1>1. PollInv => TerminalIsTrue BY DEF PollInv, AnswersTrue
<1> QED BY <1>1, PollInvariant, PTL

(***************************************************************************)
(* The longest that poll_squad_status can take, for every deadline and      *)
(* timeout: what its deadline allows and two more calls, beyond the time it *)
(* is kept off the processor.                                               *)
(***************************************************************************)
THEOREM PollTakesBoundedTime == Spec => []PollEndsInTime
<1>1. PollInv => PollEndsInTime
  BY ProcessAssumption, PollAssumption
  DEF ProcessAssumption, PollAssumption, PollInv, ProcInv, ProcTypeOK, TimeBounded, ByVersion,
      ByStatus, PollEndsInTime
<1> QED BY <1>1, PollInvariant, PTL
=============================================================================
