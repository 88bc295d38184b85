------------------------------- MODULE Harness -------------------------------
(***************************************************************************)
(* ci/run-integration.sh: runs of the script one after the other on one    *)
(* machine, the servers they start in the background, and what outlives a  *)
(* run: the log in the staging directory, a socket, a server that nobody   *)
(* killed.                                                                 *)
(*                                                                         *)
(* Runs are numbered.  Server k is the one that run k starts, port k the   *)
(* one it is given, socket k the path made of the process id of run k.     *)
(***************************************************************************)
EXTENDS Integers, Sequences, SequencesExt

CONSTANTS MaxRuns,       \* runs of the script
          MaxPolls,      \* looks at the log before giving up (60)
          Tests,         \* test files
          Modes,         \* how the runs are invoked
          Signals,       \* what may be sent to the script
          FixedStage     \* whether STAGE is given, and the runs share it

Runs == 1 .. MaxRuns

VARIABLES run, mode,        \* the current run, and the mode of each
          pc, polls,        \* program point of the script, polls made
          spid,             \* SERVER_PID, 0 when empty
          location,         \* VGI_TLSFP_WORKER as exported
          warm,             \* whether vgi could be installed
          results,          \* of the tests run so far
          verdict,          \* the exit status
          server,           \* "none", "forked", "up" or "gone"
          bound, announced, \* the servers that listen, that said so
          signalled,        \* the servers sent a TERM
          stages,           \* the stages that have a log
          log,              \* stage -> the endpoints its log announces
          sock              \* the socket files that exist

script == <<run, mode, pc, polls, spid, location, warm, results, verdict>>
servers == <<server, bound, announced, stages, log>>
vars == <<script, servers, signalled, sock>>

\* An http URL may be given in VGI_TLSFP_WORKER, for either transport.
AllModes == {"subprocess", "http", "unix", "http_url", "subprocess_url"}

ASSUME HarnessAssumption ==
    /\ MaxRuns \in Nat \ {0} /\ MaxPolls \in Nat \ {0} /\ Tests \in Nat \ {0}
    /\ Modes \subseteq AllModes /\ Signals \subseteq {"INT", "KILL"}
    /\ FixedStage \in BOOLEAN

Spawns(k) == mode[k] \in {"http", "unix"}

\* Mutant: every run stages in one directory (`mktemp -d` dropped).
Stage_Shared(k) == 1

Stage(k) == IF FixedStage THEN 1 ELSE k

\* The preprocessor adds httpfs for TRANSPORT=http, whatever the location is.
httpfs == mode[run] \in {"http", "http_url"}

Fresh ==
    [pc |-> "dispatch", polls |-> 0, spid |-> 0, location |-> <<>>, warm |-> FALSE,
     results |-> <<>>, verdict |-> "none"]

Init ==
    /\ run = 1 /\ mode \in [Runs -> Modes]
    /\ pc = Fresh.pc /\ polls = Fresh.polls /\ spid = Fresh.spid
    /\ location = Fresh.location /\ warm = Fresh.warm
    /\ results = Fresh.results /\ verdict = Fresh.verdict
    /\ server = [k \in Runs |-> "none"]
    /\ bound = {} /\ announced = {} /\ signalled = {} /\ sock = {}
    /\ stages = {} /\ log = [k \in Runs |-> <<>>]

-----------------------------------------------------------------------------
\* The script.  Every exit goes through the trap, except that of a signal that
\* cannot be trapped or comes while the trap runs.
Exit(v) == verdict' = v /\ pc' = "cleanup"

\* The locations that need no server of the script's own.
Dispatch ==
    /\ pc = "dispatch" /\ ~Spawns(run)
    /\ location' = IF mode[run] = "subprocess" THEN <<"stdio">> ELSE <<"url">>
    /\ pc' = "stage"
    /\ UNCHANGED <<run, mode, polls, spid, warm, results, verdict, servers,
                   signalled, sock>>

\* The child is forked; it opens the log and executes the worker by itself.
Launch ==
    /\ pc = "dispatch" /\ Spawns(run)
    /\ sock' = sock \ {run}
    /\ server' = [server EXCEPT ![run] = "forked"]
    /\ pc' = "record"
    /\ UNCHANGED <<run, mode, polls, spid, location, warm, results, verdict,
                   bound, announced, stages, log, signalled>>

NotExecutable ==
    /\ pc = "dispatch" /\ Spawns(run)
    /\ Exit("fail")
    /\ UNCHANGED <<run, mode, polls, spid, location, warm, results, servers,
                   signalled, sock>>

RecordPid ==
    /\ pc = "record"
    /\ spid' = run
    /\ pc' = "alive"
    /\ UNCHANGED <<run, mode, polls, location, warm, results, verdict, servers,
                   signalled, sock>>

\* One turn of the poll loop: kill -0, a look at the log, half a second.
CheckAlive ==
    /\ pc = "alive"
    /\ IF server[spid] = "gone" THEN Exit("fail")
       ELSE pc' = "read" /\ UNCHANGED verdict
    /\ UNCHANGED <<run, mode, polls, spid, location, warm, results, servers,
                   signalled, sock>>

Announcements == log[Stage(run)]

\* The first port in the log, empty as long as there is none.
Port ==
    IF Announcements = <<>> THEN <<>> ELSE <<"port", Head(Announcements)>>

\* Mutant: the socket file is not waited for.
Socket_LogOnly ==
    IF Contains(Announcements, run) THEN <<"socket", run>> ELSE <<>>

\* The socket of this run, when it is announced and there.
Socket ==
    IF Contains(Announcements, run) /\ run \in sock THEN <<"socket", run>> ELSE <<>>

Endpoint == IF mode[run] = "http" THEN Port ELSE Socket

ReadLog ==
    /\ pc = "read"
    /\ mode[run] = "http" => Stage(run) \in stages
    /\ location' = Endpoint
    /\ pc' = IF Endpoint = <<>> THEN "sleep" ELSE "stage"
    /\ UNCHANGED <<run, mode, polls, spid, warm, results, verdict, servers,
                   signalled, sock>>

\* The server has not opened its log: grep is a condition, but sed stands in an
\* assignment, whose pipe fails with it (pipefail) and ends the script (set -e).
NoLog ==
    /\ pc = "read"
    /\ mode[run] = "http" /\ Stage(run) \notin stages
    /\ Exit("fail")
    /\ UNCHANGED <<run, mode, polls, spid, location, warm, results, servers,
                   signalled, sock>>

\* Mutant: the loop does not count.
Sleep_Forever ==
    /\ pc = "sleep"
    /\ pc' = "alive"
    /\ UNCHANGED <<run, mode, polls, spid, location, warm, results, verdict,
                   servers, signalled, sock>>

Sleep ==
    /\ pc = "sleep"
    /\ polls' = polls + 1
    /\ IF polls' = MaxPolls THEN Exit("fail")
       ELSE pc' = "alive" /\ UNCHANGED verdict
    /\ UNCHANGED <<run, mode, spid, location, warm, results, servers, signalled,
                   sock>>

\* The tree is staged (a failure ends the script, set -e), and the extension
\* cache warmed: whether that works or not, the suite is run.
StageTree ==
    /\ pc = "stage"
    /\ warm' \in BOOLEAN
    /\ pc' = "suite"
    /\ UNCHANGED <<run, mode, polls, spid, location, results, verdict, servers,
                   signalled, sock>>

StageFails ==
    /\ pc = "stage"
    /\ Exit("fail")
    /\ UNCHANGED <<run, mode, polls, spid, location, warm, results, servers,
                   signalled, sock>>

\* A worker answers at the location.  A given URL may be anybody's.
Serving ==
    CASE location[1] = "stdio" -> TRUE
      [] location[1] = "url" -> TRUE
      [] OTHER -> server[location[2]] = "up" /\ location[2] \in bound

\* What the runner reports of a test that loads the extension: an error that
\* speaks of HTTP, or of a connection, skips it.
LoadedOutcomes ==
    LET http == location[1] \in {"port", "url"}
    IN IF http /\ ~httpfs THEN {"skip"}
       ELSE IF ~Serving THEN IF http THEN {"skip"} ELSE {"skip", "fail"}
       ELSE IF location[1] = "url" THEN {"pass", "fail", "skip"}
       ELSE {"pass", "fail"}

\* When the warm step failed, the extension may still be there from before.
Outcomes == LoadedOutcomes \union (IF warm THEN {} ELSE {"fail"})

RunTest ==
    /\ pc = "suite" /\ Len(results) < Tests
    /\ \E outcome \in Outcomes : results' = Append(results, outcome)
    /\ UNCHANGED <<run, mode, pc, polls, spid, location, warm, verdict, servers,
                   signalled, sock>>

\* The runner fails for a failed test only.
Status == IF Contains(results, "fail") THEN "fail" ELSE "pass"

\* Mutant: the status of the runner is taken as it is.
Judge_Status ==
    /\ pc = "suite" /\ Len(results) = Tests
    /\ Exit(Status)
    /\ UNCHANGED <<run, mode, polls, spid, location, warm, results, servers,
                   signalled, sock>>

Judge ==
    /\ pc = "suite" /\ Len(results) = Tests
    /\ Exit(IF Contains(results, "skip") THEN "fail" ELSE Status)
    /\ UNCHANGED <<run, mode, polls, spid, location, warm, results, servers,
                   signalled, sock>>

\* The runner itself crashes: its status is not 0, whatever was reported.
RunnerDies ==
    /\ pc = "suite"
    /\ Exit("fail")
    /\ UNCHANGED <<run, mode, polls, spid, location, warm, results, servers,
                   signalled, sock>>

\* The trap: TERM, wait, unlink.
\* Mutant: the server is not waited for.
StopServer_NoWait ==
    /\ pc = "cleanup"
    /\ signalled' = IF spid = 0 THEN signalled ELSE signalled \union {spid}
    /\ pc' = "unlink"
    /\ UNCHANGED <<run, mode, polls, spid, location, warm, results, verdict,
                   servers, sock>>

StopServer ==
    /\ pc = "cleanup"
    /\ signalled' = IF spid = 0 THEN signalled ELSE signalled \union {spid}
    /\ pc' = IF spid = 0 THEN "unlink" ELSE "wait"
    /\ UNCHANGED <<run, mode, polls, spid, location, warm, results, verdict,
                   servers, sock>>

AwaitServer ==
    /\ pc = "wait" /\ server[spid] = "gone"
    /\ pc' = "unlink"
    /\ UNCHANGED <<run, mode, polls, spid, location, warm, results, verdict,
                   servers, signalled, sock>>

Unlink ==
    /\ pc = "unlink"
    /\ sock' = sock \ {run}
    /\ pc' = "exited"
    /\ UNCHANGED <<run, mode, polls, spid, location, warm, results, verdict,
                   servers, signalled>>

\* The trap is set for EXIT only.  An interrupt runs it, and one that comes while
\* it runs, whoever started it, ends the script at that point of the trap.
Trap == {"cleanup", "wait", "unlink"}

Interrupt ==
    /\ "INT" \in Signals
    /\ pc \notin {"exited", "killed"}
    /\ verdict' = "interrupted"
    /\ pc' = IF pc \in Trap THEN "killed" ELSE "cleanup"
    /\ UNCHANGED <<run, mode, polls, spid, location, warm, results, servers,
                   signalled, sock>>

\* A SIGKILL runs no trap.
Kill ==
    /\ "KILL" \in Signals
    /\ pc \notin {"exited", "killed"}
    /\ pc' = "killed"
    /\ UNCHANGED <<run, mode, polls, spid, location, warm, results, verdict,
                   servers, signalled, sock>>

NextRun ==
    /\ pc \in {"exited", "killed"} /\ run < MaxRuns
    /\ run' = run + 1
    /\ pc' = Fresh.pc /\ polls' = Fresh.polls /\ spid' = Fresh.spid
    /\ location' = Fresh.location /\ warm' = Fresh.warm
    /\ results' = Fresh.results /\ verdict' = Fresh.verdict
    /\ UNCHANGED <<mode, servers, signalled, sock>>

-----------------------------------------------------------------------------
\* The servers.  The redirection truncates the log just before the worker runs.
Open(k) ==
    /\ server[k] = "forked"
    /\ server' = [server EXCEPT ![k] = "up"]
    /\ stages' = stages \union {Stage(k)}
    /\ log' = [log EXCEPT ![Stage(k)] = <<>>]
    /\ UNCHANGED <<script, bound, announced, signalled, sock>>

Bind(k) ==
    /\ server[k] = "up" /\ k \notin bound
    /\ bound' = bound \union {k}
    /\ sock' = IF mode[k] = "unix" THEN sock \union {k} ELSE sock
    /\ UNCHANGED <<script, server, announced, stages, log, signalled>>

\* A port is known once it is bound, the path of a socket before that.
Announce(k) ==
    /\ server[k] = "up" /\ k \notin announced
    /\ mode[k] = "http" => k \in bound
    /\ announced' = announced \union {k}
    /\ log' = [log EXCEPT ![Stage(k)] = Append(@, k)]
    /\ UNCHANGED <<script, server, bound, stages, signalled, sock>>

\* A server may fail at any time, and does when it is sent a TERM.
Fail(k) ==
    /\ server[k] \in {"forked", "up"}
    /\ server' = [server EXCEPT ![k] = "gone"]
    /\ UNCHANGED <<script, bound, announced, stages, log, signalled, sock>>

Obey(k) == k \in signalled /\ Fail(k)

\* The machine is idle: the last run is over.
Idle ==
    /\ pc \in {"exited", "killed"} /\ run = MaxRuns
    /\ UNCHANGED vars

Script ==
    \/ Dispatch \/ Launch \/ NotExecutable \/ RecordPid \/ CheckAlive \/ ReadLog
    \/ NoLog \/ Sleep \/ StageTree \/ StageFails \/ RunTest \/ Judge
    \/ RunnerDies \/ StopServer \/ AwaitServer \/ Unlink

Next ==
    \/ Script \/ Interrupt \/ Kill \/ NextRun \/ Idle
    \/ \E k \in Runs : Open(k) \/ Bind(k) \/ Announce(k) \/ Fail(k)

\* The shell goes on, a test comes to an end (the runner has its own timeouts),
\* and a TERM ends the server, which installs no handler.
Spec ==
    Init /\ [][Next]_vars /\ WF_vars(Script) /\ \A k \in Runs : WF_vars(Obey(k))

-----------------------------------------------------------------------------
\* ci/README.md:42-43, "a skip is never a pass": the script reports success only
\* when every test ran and passed, whatever the runner's exit status was and
\* whether the server was there, died or was never reached.
SkipIsNotPass ==
    pc = "exited" /\ verdict = "pass" =>
        Len(results) = Tests /\ ToSet(results) = {"pass"}

\* run-integration.sh:59-60, "which we poll for in the log before running the
\* suite (readiness gate)": a run goes on to the suite only when the server it
\* started is listening (or has been), and with that server's endpoint.
ReadinessGate ==
    Spawns(run) /\ location # <<>> => location[2] = run /\ run \in bound

\* run-integration.sh:59-60 with the messages of lines 74 and 80: as long as the
\* server is alive and there are polls left, the script keeps polling for its
\* endpoint; it gives up before the suite when the server exited or time is up.
GivesUpForCause ==
    verdict = "fail" /\ spid # 0 /\ location = <<>> =>
        server[spid] = "gone" \/ polls = MaxPolls

\* run-integration.sh:49-56: when the trap has run to its end - after a verdict, a
\* dead server, a timeout, an interrupt of the script - the server whose pid the
\* script holds is gone and cannot bring back the socket that was unlinked.  A
\* signal that ends the trap itself leaves a killed run, of which this says
\* nothing: its server, its socket or both may stay.
NoOrphans ==
    pc = "exited" /\ (spid # 0 \/ verdict # "interrupted") =>
        server[run] \in {"none", "gone"} /\ run \notin sock

\* run-integration.sh:59-60 and 62, a fresh STAGE for every run: a test of a run
\* that starts a server passes only while that very server is up and listens.  A
\* server that an earlier run left behind - interrupted before it had its pid or in
\* its trap, or killed - is never taken for it.
PassedByOwnServer ==
    [][Len(results') > Len(results) /\ Last(results') = "pass" /\ Spawns(run) =>
         server[run] = "up" /\ run \in bound]_vars

\* Every run comes to an end, although it polls for a server that may never be
\* ready and waits for it to stop.
RunsEnd == \A k \in Runs : (run = k) ~> (run = k /\ pc \in {"exited", "killed"})
=============================================================================
