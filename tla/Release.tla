------------------------------- MODULE Release -------------------------------
(***************************************************************************)
(* .github/workflows and ci/check-version.sh: the runs that a push, a tag  *)
(* or a pull request starts, the suite that gates each of them, and what   *)
(* they publish.  CI is a workflow of its own and a called job of the two  *)
(* others; runs and called jobs queue in concurrency groups, where a       *)
(* newcomer cancels whoever is there.                                      *)
(*                                                                         *)
(* A ref is <<"main">>, <<"pr">> or <<"tag", v>> for the tag "v" and v.  A *)
(* commit is [manifest, broken]: the lines of Cargo.toml, and the jobs of  *)
(* the suite that fail on it.                                              *)
(***************************************************************************)
EXTENDS Integers, Sequences

CONSTANTS Manifests,    \* Cargo.toml, as sequences of lines
          Faults,       \* sets of jobs that a commit may break
          Versions,     \* of the tags
          Histories,    \* of main, from before Actions was enabled
          Pushed,       \* the commits that may be pushed since
          MaxCommits,   \* commits of main and of pull requests
          MaxRuns,      \* runs of all workflows together
          MaxByHand     \* those, when a tag is pushed or a run dispatched

VARIABLES commits,      \* in the order in which they were pushed
          refs,         \* what each ref points to, a commit's number
          runs,         \* of the workflows, in the order of their creation
          published,    \* the artifacts, as [by, ref, commit]
          edge          \* the commit that :edge was built from, 0 before

vars == <<commits, refs, runs, published, edge>>

Tags == {<<"tag", v>> : v \in Versions}

Commit == [manifest : Manifests, broken : Faults]

-----------------------------------------------------------------------------
\* The suite.  fail-fast is off: every leg of the matrix runs to its end.
Legs == {os \o t : os \in {"ubuntu ", "macos "}, t \in {"subprocess", "http", "unix"}}

Jobs == {"build-test", "resolve-haybarn", "metadata-quality"} \union Legs

Needs(job) == IF job \in Legs THEN {"resolve-haybarn"} ELSE {}

\* Of a job, when those in `failing` fail as soon as they run.
Result(job, failing) ==
    IF Needs(job) \intersect failing # {} THEN "skipped"
    ELSE IF job \in failing THEN "failure" ELSE "success"

\* Mutant: the macOS legs have continue-on-error.
Conclusion_MacosMayFail(failing) ==
    IF \A job \in Jobs :
          \/ Result(job, failing) = "success"
          \/ job \in {"macos subprocess", "macos http", "macos unix"}
    THEN "success" ELSE "failure"

\* The suite succeeds when every job does; where one is skipped, another failed.
Conclusion(failing) ==
    IF \A job \in Jobs : Result(job, failing) = "success" THEN "success" ELSE "failure"

\* A job that the commit breaks does not succeed, and any other may fail too, for
\* want of a runner, a download or the network.
Conclusions ==
    [broken \in Faults |->
        {Conclusion(failing) :
            failing \in {f \in SUBSET Jobs : \A job \in broken : Result(job, f) # "success"}}]

\* A line of Cargo.toml is <<table>> or <<key, value, quotes>>.
In_wp(manifest, n) ==
    \E t \in 1 .. n : /\ manifest[t] = <<"workspace.package">>
                      /\ \A k \in t + 1 .. n : Len(manifest[k]) # 1

\* The version that Cargo compiles into the worker.
VersionKeys(manifest) ==
    {n \in DOMAIN manifest : manifest[n][1] = "version" /\ In_wp(manifest, n)}

Advertised(manifest) == manifest[CHOOSE n \in VersionKeys(manifest) : TRUE][2]

\* Cargo reads no file in which a table has a key twice.
ASSUME ReleaseAssumption ==
    /\ MaxRuns \in Nat \ {0} /\ MaxByHand \in 0 .. MaxRuns /\ MaxCommits \in Nat
    /\ Faults \subseteq SUBSET Jobs
    /\ Pushed \subseteq Commit
    /\ Histories \subseteq Seq(Commit)
    /\ \A manifest \in Manifests : \A j, k \in VersionKeys(manifest) : j = k

First(manifest, lines) == {manifest[n][2] : n \in {n \in lines : \A k \in lines : n <= k}}

VersionLines(manifest) ==
    {n \in DOMAIN manifest : manifest[n][1] = "version" /\ manifest[n][3] = "double"}

\* check-version.sh: awk takes the first `version` of [workspace.package] that
\* stands in double quotes.
check_version(manifest, tag) ==
    First(manifest, {n \in VersionLines(manifest) : In_wp(manifest, n)}) = {tag}

-----------------------------------------------------------------------------
\* Concurrency groups.
\* Mutant: the group of the suite does not name the workflow.
ci_group_RefOnly(r) == <<"ci", r.ref>>

ci_group(r) == <<"ci", r.workflow, r.ref>>

\* Mutant: one group for each commit.
docker_group_PerCommit(r) == <<"docker", r.workflow, r.commit>>

\* Mutant: the group of the suite that the workflow calls.
docker_group_OfCi(r) == ci_group(r)

docker_group(r) == <<"docker", r.workflow, r.ref>>

\* The group of the run, and that of the suite it calls.
RunGroup(r) ==
    CASE r.workflow = "CI" -> {ci_group(r)}
      [] r.workflow = "Publish" -> {docker_group(r)}
      [] r.workflow = "Release" -> {}

CalledGroup(r) == IF r.workflow = "CI" THEN {} ELSE {ci_group(r)}

Over == {"succeeded", "failed", "cancelled"}

Holds(r) ==
    CASE r.state = "suite" -> RunGroup(r) \union CalledGroup(r)
      [] r.state \in {"waiting", "publishing"} -> RunGroup(r)
      [] OTHER -> {}

Queues(r) ==
    CASE r.state = "queued" -> RunGroup(r)
      [] r.state = "waiting" -> CalledGroup(r)
      [] OTHER -> {}

\* A newcomer to the groups cancels whoever holds them or queues for them.
CancelIn(groups, rs) ==
    [i \in DOMAIN rs |->
        IF (Holds(rs[i]) \union Queues(rs[i])) \intersect groups # {}
        THEN [rs[i] EXCEPT !.cancel = TRUE] ELSE rs[i]]

Free(groups) == \A i \in DOMAIN runs : Holds(runs[i]) \intersect groups = {}

NewRun(workflow, ref, commit) ==
    [workflow |-> workflow, ref |-> ref, commit |-> commit, state |-> "queued",
     cancel |-> FALSE]

\* The triggers: `workflows` start on `ref`, in any order.
Trigger(workflows, ref, commit) ==
    LET new == [k \in DOMAIN workflows |-> NewRun(workflows[k], ref, commit)]
    IN runs' = CancelIn(UNION {RunGroup(new[k]) : k \in DOMAIN new}, runs) \o new

-----------------------------------------------------------------------------
\* What was pushed while Actions was disabled, as it is in a new fork, started no
\* run.  Some of its commits have a tag.
Init ==
    /\ commits \in Histories
    /\ \E tagged \in SUBSET Tags : \E pointed \in [tagged -> DOMAIN commits] :
          refs = [ref \in tagged \union (IF commits = <<>> THEN {} ELSE {<<"main">>}) |->
                     IF ref = <<"main">> THEN Len(commits) ELSE pointed[ref]]
    /\ runs = <<>> /\ published = {} /\ edge = 0

Pointed(ref, c) ==
    [r \in DOMAIN refs \union {ref} |-> IF r = ref THEN c ELSE refs[r]]

Push(ref, workflows) ==
    /\ Len(commits) < MaxCommits /\ Len(runs) + Len(workflows) <= MaxRuns
    /\ \E commit \in Pushed : commits' = Append(commits, commit)
    /\ refs' = Pointed(ref, Len(commits'))
    /\ Trigger(workflows, ref, Len(commits'))
    /\ UNCHANGED <<published, edge>>

PushMain == Push(<<"main">>, <<"CI", "Publish">>)

PullRequest == Push(<<"pr">>, <<"CI">>)

\* Any commit may be tagged, and a tag may be moved.
PushTag ==
    /\ Len(runs) + 2 <= MaxByHand
    /\ \E tag \in Tags, c \in DOMAIN commits :
          /\ refs' = Pointed(tag, c)
          /\ Trigger(<<"Release", "Publish">>, tag, c)
          /\ UNCHANGED <<commits, published, edge>>

\* By hand, on a branch or a tag.
Dispatch ==
    /\ Len(runs) < MaxByHand
    /\ \E ref \in DOMAIN refs \ {<<"pr">>}, w \in {"CI", "Publish", "Release"} :
          /\ Trigger(<<w>>, ref, refs[ref])
          /\ UNCHANGED <<commits, refs, published, edge>>

MoveTo(i, state) == [runs EXCEPT ![i].state = state]

\* The run gets its group; its suite queues for the group of the suite.
Start(i) ==
    /\ runs[i].state = "queued" /\ ~runs[i].cancel /\ Free(RunGroup(runs[i]))
    /\ runs' = [CancelIn(CalledGroup(runs[i]), runs) EXCEPT ![i] = MoveTo(i, "waiting")[i]]
    /\ UNCHANGED <<commits, refs, published, edge>>

BeginSuite(i) ==
    /\ runs[i].state = "waiting" /\ ~runs[i].cancel /\ Free(CalledGroup(runs[i]))
    /\ runs' = MoveTo(i, "suite")
    /\ UNCHANGED <<commits, refs, published, edge>>

SuiteEnds(i) ==
    /\ runs[i].state = "suite" /\ ~runs[i].cancel
    /\ \E conclusion \in Conclusions[commits[runs[i].commit].broken] :
          runs' = MoveTo(i, IF conclusion = "failure" THEN "failed"
                            ELSE IF runs[i].workflow = "CI" THEN "succeeded"
                            ELSE "publishing")
    /\ UNCHANGED <<commits, refs, published, edge>>

\* Mutant: the version is that of the commit the ref points to by now.
Checks_MovedTag(r) ==
    r.ref \in Tags => check_version(commits[refs[r.ref]].manifest, r.ref[2])

\* The job of a tag checks the version of the commit that it was started for.
Checks(r) ==
    r.ref \in Tags => check_version(commits[r.commit].manifest, r.ref[2])

\* The release and publish jobs check the version first, and images of main are
\* tagged :edge.  A cancelled job may still come to the end of its upload.
Publish(i) ==
    LET r == runs[i]
    IN /\ r.state = "publishing" /\ Checks(r)
       /\ published' = published \union
              {[by |-> r.workflow, ref |-> r.ref, commit |-> r.commit]}
       /\ edge' = IF r.workflow = "Publish" /\ r.ref = <<"main">> THEN r.commit ELSE edge
       /\ runs' = MoveTo(i, IF r.cancel THEN "cancelled" ELSE "succeeded")
       /\ UNCHANGED <<commits, refs>>

\* Of the check, the build, the smoke tests of the image or the upload.
PublishFails(i) ==
    /\ runs[i].state = "publishing"
    /\ runs' = MoveTo(i, "failed")
    /\ UNCHANGED <<commits, refs, published, edge>>

Cancelled(i) ==
    /\ runs[i].cancel /\ runs[i].state \notin Over
    /\ runs' = MoveTo(i, "cancelled")
    /\ UNCHANGED <<commits, refs, published, edge>>

Advance ==
    \E i \in DOMAIN runs :
        \/ Start(i) \/ BeginSuite(i) \/ SuiteEnds(i) \/ Publish(i) \/ PublishFails(i)
        \/ Cancelled(i)

\* Nothing happens any more when all runs are over and no other is started.
Next == PushMain \/ PullRequest \/ PushTag \/ Dispatch \/ Advance

\* Runners and registries finish their jobs, one way or the other.
Spec == Init /\ [][Next]_vars /\ WF_vars(Advance)

-----------------------------------------------------------------------------
\* docker-publish.yml:27-28, "so a broken worker is never imaged", and
\* release.yml:31: nothing is published from a commit that breaks a job of the
\* suite, whether that job fails, on whichever leg, or is skipped.
OnlyVerified == \A a \in published : commits[a.commit].broken = {}

\* check-version.sh:4-8: what is published under a tag, image or binaries,
\* advertises the version of the tag - also when the tag was moved to another
\* commit between the start of a run and its upload, and each run has its own.
VersionsAgree ==
    \A a \in published :
        a.ref \in Tags => Advertised(commits[a.commit].manifest) = a.ref[2]

\* ci.yml:13-16: the two workflows that a tag starts do not cancel each other,
\* and runs do not wipe each other out: of the runs of a workflow on a ref, one
\* is never cancelled - the last of them, unless the runs have no group of their
\* own and only their suites meet, in any order.
OneRunStands ==
    \A i \in DOMAIN runs : \E k \in DOMAIN runs :
        /\ runs[k].workflow = runs[i].workflow /\ runs[k].ref = runs[i].ref
        /\ ~runs[k].cancel
        /\ RunGroup(runs[i]) # {} => k >= i

\* docker-publish.yml:9 and 22-24: :edge follows main and is never overwritten
\* with an older commit, though an upload may outlast its cancellation.
EdgeNeverGoesBack == [][edge' >= edge]_edge

\* Every run comes to an end, once no other is started: the suite that a run calls
\* does not wait for a group that the run itself holds.
RunsConclude == <>[](\A i \in DOMAIN runs : runs[i].state \in Over)
=============================================================================
