---------------------------- MODULE HarnessProofs ----------------------------
(***************************************************************************)
(* For any number of runs, tests and polls, in any modes and under any     *)
(* signals: what the verdict means, what is left behind, and, for runs     *)
(* that do not share a staging directory, the readiness gate.              *)
(***************************************************************************)
EXTENDS Harness, TLAPS

Polling == {"alive", "read", "sleep"}
Working == Polling \union {"dispatch", "record", "stage", "suite"}
Ending == {"cleanup", "wait", "unlink", "exited", "killed"}

TypeInv ==
    /\ run \in Runs /\ mode \in [Runs -> Modes]
    /\ pc \in Working \union Ending
    /\ spid \in {0, run}
    /\ results \in Seq({"pass", "fail", "skip"})
    /\ verdict \in {"none", "pass", "fail", "interrupted"}
    /\ server \in [Runs -> {"none", "forked", "up", "gone"}]
    /\ bound \subseteq Runs /\ sock \subseteq Runs
    /\ log \in [Runs -> Seq(Runs)]

\* The verdict is there from the end of the suite on, and judges all results.
VerdictInv ==
    /\ pc \in Working => verdict = "none"
    /\ verdict = "pass" => Len(results) = Tests /\ ToSet(results) = {"pass"}

\* Who holds no pid has started nothing, but for the moment between the fork and
\* the assignment.  The trap does not leave wait before the server is gone, and
\* then the socket goes.
ServerInv ==
    /\ \A k \in Runs : k > run => server[k] = "none"
    /\ pc \in {"dispatch", "record"} => spid = 0
    /\ pc \in Polling \union {"wait"} => spid = run
    /\ spid = 0 /\ pc \notin {"record", "killed"} /\ verdict # "interrupted" =>
           server[run] = "none"
    /\ pc \in {"unlink", "exited"} /\ spid # 0 => server[run] = "gone"
    /\ pc = "exited" /\ (spid # 0 \/ verdict # "interrupted") => run \notin sock

\* A log holds its own server's endpoint only, which listens when it is a port.
LogInv ==
    \A k \in Runs : \A i \in DOMAIN log[k] :
        log[k][i] = k /\ (mode[k] = "http" => k \in bound)

GateInv ==
    /\ pc \in Polling \union {"dispatch", "record"} => location = <<>>
    /\ pc \in {"stage", "suite"} => location # <<>>
    /\ Spawns(run) /\ location # <<>> => location[1] \in {"port", "socket"}
    /\ sock \subseteq bound
    /\ ReadinessGate

LEMMA Initially == Init => TypeInv /\ VerdictInv /\ ServerInv /\ LogInv /\ GateInv
BY HarnessAssumption
DEF Init, Fresh, TypeInv, VerdictInv, ServerInv, LogInv, GateInv, ReadinessGate,
    Working, Polling, Ending, Runs

LEMMA StageOfRun == ASSUME NEW k \in Runs PROVE Stage(k) \in Runs
BY HarnessAssumption DEF Stage, Runs

LEMMA TypeStep ==
    TypeInv /\ [Next]_vars => TypeInv'
<1> SUFFICES ASSUME TypeInv, [Next]_vars PROVE TypeInv'
    OBVIOUS
<1> USE DEF TypeInv, Working, Polling, Ending, Exit, Fresh, script,
            servers, vars
<1>1. CASE Dispatch
    BY <1>1 DEF Dispatch
<1>2. CASE Launch
    BY <1>2 DEF Launch
<1>3. CASE NotExecutable
    BY <1>3 DEF NotExecutable
<1>4. CASE RecordPid
    BY <1>4 DEF RecordPid
<1>5. CASE CheckAlive
    BY <1>5 DEF CheckAlive
<1>6. CASE ReadLog
    BY <1>6 DEF ReadLog
<1>7. CASE NoLog
    BY <1>7 DEF NoLog
<1>8. CASE Sleep
    BY <1>8 DEF Sleep
<1>9. CASE StageTree
    BY <1>9 DEF StageTree
<1>10. CASE StageFails
    BY <1>10 DEF StageFails
<1>11. CASE RunTest
    BY <1>11 DEF RunTest, Outcomes, LoadedOutcomes
<1>12. CASE Judge
    BY <1>12 DEF Judge, Status
<1>13. CASE RunnerDies
    BY <1>13 DEF RunnerDies
<1>14. CASE StopServer
    BY <1>14 DEF StopServer
<1>15. CASE AwaitServer
    BY <1>15 DEF AwaitServer
<1>16. CASE Unlink
    BY <1>16 DEF Unlink
<1>17. CASE Interrupt
    BY <1>17 DEF Interrupt, Trap
<1>18. CASE Kill
    BY <1>18 DEF Kill
<1>19. CASE NextRun
    BY <1>19, HarnessAssumption DEF NextRun, Runs
<1>20. ASSUME NEW k \in Runs, Open(k) PROVE TypeInv'
  <2>1. log' \in [Runs -> Seq(Runs)]
    BY <1>20, StageOfRun DEF Open
  <2> QED
    BY <1>20, <2>1 DEF Open
<1>21. ASSUME NEW k \in Runs, Bind(k) PROVE TypeInv'
    BY <1>21 DEF Bind
<1>22. ASSUME NEW k \in Runs, Announce(k) PROVE TypeInv'
  <2>1. Append(log[Stage(k)], k) \in Seq(Runs)
    BY StageOfRun
  <2>2. log' \in [Runs -> Seq(Runs)]
    BY <1>22, <2>1 DEF Announce
  <2> QED
    BY <1>22, <2>2 DEF Announce
<1>23. ASSUME NEW k \in Runs, Fail(k) PROVE TypeInv'
    BY <1>23 DEF Fail
<1>24. CASE UNCHANGED vars
    BY <1>24 DEF vars
<1> QED
    BY <1>1, <1>2, <1>3, <1>4, <1>5, <1>6, <1>7, <1>8, <1>9, <1>10, <1>11,
       <1>12, <1>13, <1>14, <1>15, <1>16, <1>17, <1>18, <1>19, <1>20,
       <1>21, <1>22, <1>23, <1>24
    DEF Next, Script, Idle

LEMMA VerdictStep ==
    TypeInv /\ VerdictInv /\ [Next]_vars => VerdictInv'
<1> SUFFICES ASSUME TypeInv /\ VerdictInv, [Next]_vars PROVE VerdictInv'
    OBVIOUS
<1> USE HarnessAssumption DEF TypeInv, Working, Polling, Ending, VerdictInv, Exit,
            Fresh, script, servers, vars
<1>1. CASE Dispatch
    BY <1>1 DEF Dispatch
<1>2. CASE Launch
    BY <1>2 DEF Launch
<1>3. CASE NotExecutable
    BY <1>3 DEF NotExecutable
<1>4. CASE RecordPid
    BY <1>4 DEF RecordPid
<1>5. CASE CheckAlive
    BY <1>5 DEF CheckAlive
<1>6. CASE ReadLog
    BY <1>6 DEF ReadLog
<1>7. CASE NoLog
    BY <1>7 DEF NoLog
<1>8. CASE Sleep
    BY <1>8 DEF Sleep
<1>9. CASE StageTree
    BY <1>9 DEF StageTree
<1>10. CASE StageFails
    BY <1>10 DEF StageFails
<1>11. CASE RunTest
    BY <1>11 DEF RunTest
<1>12. CASE Judge
    BY <1>12 DEF Judge, Status, Contains, ToSet
<1>13. CASE RunnerDies
    BY <1>13 DEF RunnerDies
<1>14. CASE StopServer
    BY <1>14 DEF StopServer
<1>15. CASE AwaitServer
    BY <1>15 DEF AwaitServer
<1>16. CASE Unlink
    BY <1>16 DEF Unlink
<1>17. CASE Interrupt
    BY <1>17 DEF Interrupt, Trap
<1>18. CASE Kill
    BY <1>18 DEF Kill
<1>19. CASE NextRun
    BY <1>19 DEF NextRun
<1>20. ASSUME NEW k \in Runs, Open(k) PROVE VerdictInv'
    BY <1>20 DEF Open
<1>21. ASSUME NEW k \in Runs, Bind(k) PROVE VerdictInv'
    BY <1>21 DEF Bind
<1>22. ASSUME NEW k \in Runs, Announce(k) PROVE VerdictInv'
    BY <1>22 DEF Announce
<1>23. ASSUME NEW k \in Runs, Fail(k) PROVE VerdictInv'
    BY <1>23 DEF Fail
<1>24. CASE UNCHANGED vars
    BY <1>24 DEF vars
<1> QED
    BY <1>1, <1>2, <1>3, <1>4, <1>5, <1>6, <1>7, <1>8, <1>9, <1>10, <1>11,
       <1>12, <1>13, <1>14, <1>15, <1>16, <1>17, <1>18, <1>19, <1>20,
       <1>21, <1>22, <1>23, <1>24
    DEF Next, Script, Idle

LEMMA ServerStep ==
    TypeInv /\ VerdictInv /\ ServerInv /\ [Next]_vars => ServerInv'
<1> SUFFICES ASSUME TypeInv /\ VerdictInv /\ ServerInv, [Next]_vars PROVE ServerInv'
    OBVIOUS
<1> USE DEF TypeInv, Working, Polling, Ending, VerdictInv, ServerInv,
            Runs, Exit, Fresh, script, servers, vars
<1>1. CASE Dispatch
    BY <1>1 DEF Dispatch
<1>2. CASE Launch
    BY <1>2 DEF Launch
<1>3. CASE NotExecutable
    BY <1>3 DEF NotExecutable
<1>4. CASE RecordPid
    BY <1>4 DEF RecordPid
<1>5. CASE CheckAlive
    BY <1>5 DEF CheckAlive
<1>6. CASE ReadLog
    BY <1>6 DEF ReadLog
<1>7. CASE NoLog
    BY <1>7 DEF NoLog
<1>8. CASE Sleep
    BY <1>8 DEF Sleep
<1>9. CASE StageTree
    BY <1>9 DEF StageTree
<1>10. CASE StageFails
    BY <1>10 DEF StageFails
<1>11. CASE RunTest
    BY <1>11 DEF RunTest
<1>12. CASE Judge
    BY <1>12 DEF Judge
<1>13. CASE RunnerDies
    BY <1>13 DEF RunnerDies
<1>14. CASE StopServer
    BY <1>14 DEF StopServer
<1>15. CASE AwaitServer
    BY <1>15 DEF AwaitServer
<1>16. CASE Unlink
    BY <1>16 DEF Unlink
<1>17. CASE Interrupt
    BY <1>17 DEF Interrupt, Trap
<1>18. CASE Kill
    BY <1>18 DEF Kill
<1>19. CASE NextRun
    BY <1>19, HarnessAssumption DEF NextRun
<1>20. ASSUME NEW k \in Runs, Open(k) PROVE ServerInv'
    BY <1>20 DEF Open
<1>21. ASSUME NEW k \in Runs, Bind(k) PROVE ServerInv'
    BY <1>21 DEF Bind
<1>22. ASSUME NEW k \in Runs, Announce(k) PROVE ServerInv'
    BY <1>22 DEF Announce
<1>23. ASSUME NEW k \in Runs, Fail(k) PROVE ServerInv'
    BY <1>23 DEF Fail
<1>24. CASE UNCHANGED vars
    BY <1>24 DEF vars
<1> QED
    BY <1>1, <1>2, <1>3, <1>4, <1>5, <1>6, <1>7, <1>8, <1>9, <1>10, <1>11,
       <1>12, <1>13, <1>14, <1>15, <1>16, <1>17, <1>18, <1>19, <1>20,
       <1>21, <1>22, <1>23, <1>24
    DEF Next, Script, Idle

LEMMA AppendAt ==
    ASSUME NEW S, NEW s \in Seq(S), NEW e \in S, NEW n \in DOMAIN Append(s, e)
    PROVE  \/ n \in DOMAIN s /\ Append(s, e)[n] = s[n]
           \/ n = Len(s) + 1 /\ Append(s, e)[n] = e
<1>1. Append(s, e) \in Seq(S) /\ Len(Append(s, e)) = Len(s) + 1
    OBVIOUS
<1>2. n \in 1 .. Len(s) + 1 /\ DOMAIN s = 1 .. Len(s) /\ Len(s) \in Nat
    BY <1>1
<1> QED
    BY <1>2

\* A log is written by its own server only.
LEMMA LogStep == ~FixedStage /\ TypeInv /\ LogInv /\ [Next]_vars => LogInv'
<1> SUFFICES ASSUME ~FixedStage, TypeInv, LogInv, [Next]_vars,
                    NEW j \in Runs, NEW i \in DOMAIN log'[j]
             PROVE (log[j][i] = j /\ (mode[j] = "http" => j \in bound))'
    BY DEF LogInv
<1>1. mode' = mode
    BY DEF Next, Script, Idle, Dispatch, Launch, NotExecutable, RecordPid,
           CheckAlive, ReadLog, NoLog, Sleep, StageTree, StageFails, RunTest, Judge,
           RunnerDies, StopServer, AwaitServer, Unlink, Interrupt, Kill, NextRun,
           Open, Bind, Announce, Fail, script, vars
<1>2. CASE log' = log /\ bound \subseteq bound'
    BY <1>1, <1>2 DEF LogInv
<1>3. ASSUME NEW k \in Runs, Open(k)
      PROVE (log[j][i] = j /\ (mode[j] = "http" => j \in bound))'
    BY <1>1, <1>3 DEF Open, Stage, LogInv, TypeInv
<1>4. ASSUME NEW k \in Runs, Announce(k)
      PROVE (log[j][i] = j /\ (mode[j] = "http" => j \in bound))'
  <2>1. CASE j = k
    <3>1. log[k] \in Seq(Runs) /\ log'[k] = Append(log[k], k)
        BY <1>4 DEF Announce, Stage, TypeInv
    <3>2. i \in DOMAIN Append(log[k], k)
        BY <2>1, <3>1
    <3>3. \/ i \in DOMAIN log[k] /\ Append(log[k], k)[i] = log[k][i]
          \/ i = Len(log[k]) + 1 /\ Append(log[k], k)[i] = k
        BY <3>1, <3>2, AppendAt, Zenon
    <3>4. log'[k][i] = k
        BY <3>1, <3>3 DEF LogInv
    <3>5. bound' = bound /\ (mode[k] = "http" => k \in bound)
        BY <1>4 DEF Announce
    <3> QED
        BY <1>1, <2>1, <3>4, <3>5
  <2>2. CASE j # k
    <3>1. log'[j] = log[j]
        BY <1>4, <2>2 DEF Announce, Stage, TypeInv
    <3> QED
        BY <1>1, <1>4, <3>1 DEF Announce, LogInv
  <2> QED
    BY <2>1, <2>2
<1> QED
    BY <1>2, <1>3, <1>4
    DEF Next, Script, Idle, Dispatch, Launch, NotExecutable, RecordPid, CheckAlive,
        ReadLog, NoLog, Sleep, StageTree, StageFails, RunTest, Judge, RunnerDies,
        StopServer, AwaitServer, Unlink, Interrupt, Kill, NextRun, Bind, Fail,
        servers, vars

LEMMA GateStep ==
    ~FixedStage /\ TypeInv /\ LogInv /\ GateInv /\ [Next]_vars => GateInv'
<1> SUFFICES ASSUME ~FixedStage /\ TypeInv /\ LogInv /\ GateInv, [Next]_vars
             PROVE  GateInv'
    OBVIOUS
<1> USE DEF TypeInv, Working, Polling, Ending, GateInv, ReadinessGate,
            Spawns, Stage, Exit, Fresh, script, servers, vars
<1>1. CASE Dispatch
    BY <1>1 DEF Dispatch
<1>2. CASE Launch
    BY <1>2 DEF Launch
<1>3. CASE NotExecutable
    BY <1>3 DEF NotExecutable
<1>4. CASE RecordPid
    BY <1>4 DEF RecordPid
<1>5. CASE CheckAlive
    BY <1>5 DEF CheckAlive
<1>6. CASE ReadLog
  <2>1. CASE Endpoint = <<>>
    BY <1>6, <2>1 DEF ReadLog
  <2>2. CASE Endpoint # <<>> /\ mode[run] = "http"
    <3>1. log[run] \in Seq(Runs) /\ log[run] # <<>>
        BY <2>2 DEF Endpoint, Port, Announcements
    <3>2. 1 \in DOMAIN log[run] /\ Head(log[run]) = log[run][1]
        BY <3>1
    <3>3. Head(log[run]) = run /\ run \in bound
        BY <2>2, <3>2 DEF LogInv
    <3>4. Endpoint = <<"port", run>>
        BY <2>2, <3>1, <3>3 DEF Endpoint, Port, Announcements
    <3> QED
        BY <1>6, <3>3, <3>4 DEF ReadLog
  <2>3. CASE Endpoint # <<>> /\ mode[run] # "http"
    <3>1. Endpoint = <<"socket", run>> /\ run \in sock
        BY <2>3 DEF Endpoint, Socket
    <3> QED
        BY <1>6, <3>1 DEF ReadLog
  <2> QED
    BY <2>1, <2>2, <2>3
<1>7. CASE NoLog
    BY <1>7 DEF NoLog
<1>8. CASE Sleep
    BY <1>8 DEF Sleep
<1>9. CASE StageTree
    BY <1>9 DEF StageTree
<1>10. CASE StageFails
    BY <1>10 DEF StageFails
<1>11. CASE RunTest
    BY <1>11 DEF RunTest
<1>12. CASE Judge
    BY <1>12 DEF Judge
<1>13. CASE RunnerDies
    BY <1>13 DEF RunnerDies
<1>14. CASE StopServer
    BY <1>14 DEF StopServer
<1>15. CASE AwaitServer
    BY <1>15 DEF AwaitServer
<1>16. CASE Unlink
    BY <1>16 DEF Unlink
<1>17. CASE Interrupt
    BY <1>17 DEF Interrupt, Trap
<1>18. CASE Kill
    BY <1>18 DEF Kill
<1>19. CASE NextRun
    BY <1>19 DEF NextRun
<1>20. ASSUME NEW k \in Runs, Open(k) PROVE GateInv'
    BY <1>20 DEF Open
<1>21. ASSUME NEW k \in Runs, Bind(k) PROVE GateInv'
    BY <1>21 DEF Bind
<1>22. ASSUME NEW k \in Runs, Announce(k) PROVE GateInv'
    BY <1>22 DEF Announce
<1>23. ASSUME NEW k \in Runs, Fail(k) PROVE GateInv'
    BY <1>23 DEF Fail
<1>24. CASE UNCHANGED vars
    BY <1>24 DEF vars
<1> QED
    BY <1>1, <1>2, <1>3, <1>4, <1>5, <1>6, <1>7, <1>8, <1>9, <1>10, <1>11,
       <1>12, <1>13, <1>14, <1>15, <1>16, <1>17, <1>18, <1>19, <1>20,
       <1>21, <1>22, <1>23, <1>24
    DEF Next, Script, Idle

\* ci/README.md:42-43: for any number of tests, whatever the runner reports and
\* whatever happens to the server, a run that says pass ran and passed all tests.
THEOREM PassMeansPassed == Spec => []SkipIsNotPass
<1>1. TypeInv /\ VerdictInv => SkipIsNotPass
    BY DEF VerdictInv, SkipIsNotPass
<1> QED
    BY Initially, TypeStep, VerdictStep, <1>1, PTL DEF Spec

\* run-integration.sh:47-56: a trap that runs to its end, after whatever verdict or
\* interrupt, leaves neither the server whose pid it knows nor its socket.
THEOREM NothingLeft == Spec => []NoOrphans
<1>1. TypeInv /\ ServerInv => NoOrphans
    BY DEF TypeInv, ServerInv, NoOrphans
<1> QED
    BY Initially, TypeStep, VerdictStep, ServerStep, <1>1, PTL DEF Spec

\* run-integration.sh:58-60: runs that have a staging directory each start the
\* suite only against the server that they started, and when it listens.
THEOREM GateHolds == ASSUME ~FixedStage PROVE Spec => []ReadinessGate
<1>1. GateInv => ReadinessGate
    BY DEF GateInv
<1>2. TypeInv /\ LogInv /\ [Next]_vars => LogInv'
    BY LogStep
<1>3. TypeInv /\ LogInv /\ GateInv /\ [Next]_vars => GateInv'
    BY GateStep
<1> QED
    BY Initially, TypeStep, <1>1, <1>2, <1>3, PTL DEF Spec

\* A step that adds a pass is that of a test, which reaches the run's own server.
LEMMA OwnServerStep ==
    ASSUME TypeInv, GateInv, [Next]_vars,
           Len(results') > Len(results), Last(results') = "pass", Spawns(run)
    PROVE  server[run] = "up" /\ run \in bound
<1>1. RunTest
  <2>1. Len(results) \in Nat
    BY DEF TypeInv
  <2>2. results' # results /\ results' # <<>>
    BY <2>1
  <2> QED
    BY <2>2
    DEF Next, Script, Idle, vars, script, servers, Fresh, Exit, Dispatch, Launch,
        NotExecutable, RecordPid, CheckAlive, ReadLog, NoLog, Sleep, StageTree,
        StageFails, Judge, RunnerDies, StopServer, AwaitServer, Unlink, Interrupt,
        Kill, NextRun, Open, Bind, Announce, Fail
<1>2. "pass" \in Outcomes
  <2>1. PICK outcome \in Outcomes : results' = Append(results, outcome)
    BY <1>1 DEF RunTest
  <2>2. Last(results') = outcome
    BY <2>1 DEF Last, TypeInv, Outcomes, LoadedOutcomes
  <2> QED
    BY <2>1, <2>2
<1>3. location # <<>> /\ location[1] \in {"port", "socket"} /\ location[2] = run
    BY <1>1 DEF RunTest, GateInv, ReadinessGate
<1>4. Serving
    BY <1>2, <1>3 DEF Outcomes, LoadedOutcomes
<1> QED
    BY <1>3, <1>4 DEF Serving

\* run-integration.sh:59-60: with a staging directory of its own, a run counts a
\* test as passed only when the server that it started is up and has served it.
THEOREM OwnServer == ASSUME ~FixedStage PROVE Spec => PassedByOwnServer
<1>1. TypeInv /\ GateInv /\ [Next]_vars =>
          [Len(results') > Len(results) /\ Last(results') = "pass" /\ Spawns(run) =>
             server[run] = "up" /\ run \in bound]_vars
    BY OwnServerStep
<1>2. TypeInv /\ LogInv /\ [Next]_vars => LogInv'
    BY LogStep
<1>3. TypeInv /\ LogInv /\ GateInv /\ [Next]_vars => GateInv'
    BY GateStep
<1> QED
    BY Initially, TypeStep, <1>1, <1>2, <1>3, PTL DEF Spec, PassedByOwnServer
=============================================================================
