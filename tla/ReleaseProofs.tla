---------------------------- MODULE ReleaseProofs ----------------------------
(***************************************************************************)
(* For any number of runs, any manifests that Cargo reads and any tags:    *)
(* what is published was verified and has the version of its tag, of the   *)
(* runs of a group one stands, and :edge only moves forward.               *)
(***************************************************************************)
EXTENDS Release, SequenceTheorems, TLAPS

Workflows == {"CI", "Publish", "Release"}
Refs == Tags \union {<<"main">>, <<"pr">>}
Holding == {"waiting", "suite", "publishing"}

Run == [workflow : Workflows, ref : Refs, commit : Nat \ {0},
        state : {"queued"} \union Holding \union Over, cancel : BOOLEAN]

TypeInv ==
    /\ commits \in Seq(Commit)
    /\ DOMAIN refs \subseteq Refs
    /\ \A ref \in DOMAIN refs : refs[ref] \in DOMAIN commits
    /\ runs \in Seq(Run)
    /\ \A i \in DOMAIN runs : runs[i].commit \in DOMAIN commits
    /\ published \subseteq [by : Workflows, ref : Refs, commit : DOMAIN commits]
    /\ edge \in Nat

\* Who publishes has a suite behind it; what was published has been through both
\* gates.
GateInv ==
    /\ \A i \in DOMAIN runs :
          runs[i].state = "publishing" =>
              /\ runs[i].workflow # "CI"
              /\ commits[runs[i].commit].broken = {}
    /\ \A a \in published :
          /\ commits[a.commit].broken = {}
          /\ a.ref \in Tags => check_version(commits[a.commit].manifest, a.ref[2])

Fellows(r, s) == r.workflow = s.workflow /\ r.ref = s.ref /\ r.workflow # "Release"

\* Of the runs in a group, all but the last are over or cancelled, and one at
\* most holds the group.
GroupInv ==
    \A i, k \in DOMAIN runs :
        i < k /\ Fellows(runs[i], runs[k]) =>
            /\ runs[i].state \notin Over => runs[i].cancel
            /\ ~(runs[i].state \in Holding /\ runs[k].state \in Holding)

Edges(r) == r.workflow = "Publish" /\ r.ref = <<"main">>

\* main only moves forward, and so do the runs on it.  Whoever may still publish
\* has a commit that is no older than :edge.
EdgeInv ==
    /\ edge # 0 => <<"main">> \in DOMAIN refs /\ edge <= refs[<<"main">>]
    /\ \A i \in DOMAIN runs :
          Edges(runs[i]) =>
              /\ <<"main">> \in DOMAIN refs /\ runs[i].commit <= refs[<<"main">>]
              /\ \A k \in DOMAIN runs :
                    i < k /\ Edges(runs[k]) => runs[i].commit <= runs[k].commit
              /\ runs[i].state \in Holding => edge <= runs[i].commit
              /\ runs[i].state = "queued" /\ ~runs[i].cancel => edge <= runs[i].commit

-----------------------------------------------------------------------------
\* Cancelling marks those who hold or await one of the groups, and no one else.
LEMMA Cancels ==
    ASSUME NEW groups, NEW rs \in Seq(Run)
    PROVE  LET cs == CancelIn(groups, rs)
               meets(i) == (Holds(rs[i]) \union Queues(rs[i])) \intersect groups # {}
           IN /\ cs \in Seq(Run)
              /\ Len(cs) = Len(rs) /\ DOMAIN cs = DOMAIN rs
              /\ \A i \in DOMAIN rs :
                    /\ cs[i] \in Run
                    /\ cs[i].workflow = rs[i].workflow /\ cs[i].ref = rs[i].ref
                    /\ cs[i].commit = rs[i].commit /\ cs[i].state = rs[i].state
                    /\ meets(i) => cs[i].cancel
                    /\ ~meets(i) => cs[i] = rs[i]
<1> DEFINE cs == CancelIn(groups, rs)
           meets(i) == (Holds(rs[i]) \union Queues(rs[i])) \intersect groups # {}
<1>1. cs = [i \in 1 .. Len(rs) |-> IF meets(i) THEN [rs[i] EXCEPT !.cancel = TRUE] ELSE rs[i]]
    BY DEF CancelIn
<1>2. \A i \in 1 .. Len(rs) : rs[i] \in Run
    OBVIOUS
<1> HIDE DEF meets, cs
<1>3. ASSUME NEW i \in 1 .. Len(rs)
      PROVE  /\ cs[i] \in Run
             /\ cs[i].workflow = rs[i].workflow /\ cs[i].ref = rs[i].ref
             /\ cs[i].commit = rs[i].commit /\ cs[i].state = rs[i].state
             /\ meets(i) => cs[i].cancel
             /\ ~meets(i) => cs[i] = rs[i]
  <2>1. cs[i] = IF meets(i) THEN [rs[i] EXCEPT !.cancel = TRUE] ELSE rs[i]
    BY <1>1
  <2> QED
    BY <1>2, <2>1 DEF Run
<1>4. cs \in Seq(Run) /\ Len(cs) = Len(rs) /\ DOMAIN cs = 1 .. Len(rs)
  <2>1. Len(rs) \in Nat
    OBVIOUS
  <2>2. DOMAIN cs = 1 .. Len(rs) /\ cs \in [1 .. Len(rs) -> Run]
    BY <1>1, <1>3
  <2> QED
    BY <2>1, <2>2
<1> QED
    BY <1>3, <1>4 DEF meets, cs

\* A move changes the state of one run.
LEMMA Moves ==
    ASSUME TypeInv, NEW i \in DOMAIN runs, NEW state \in Holding \union Over,
           runs' = MoveTo(i, state)
    PROVE  /\ runs' \in Seq(Run) /\ DOMAIN runs' = DOMAIN runs
           /\ \A k \in DOMAIN runs :
                 /\ runs'[k].workflow = runs[k].workflow /\ runs'[k].ref = runs[k].ref
                 /\ runs'[k].commit = runs[k].commit /\ runs'[k].cancel = runs[k].cancel
                 /\ runs'[k].state = IF k = i THEN state ELSE runs[k].state
<1>1. runs \in Seq(Run) /\ runs[i] \in Run
    BY DEF TypeInv
<1>2. [runs[i] EXCEPT !.state = state] \in Run
    BY <1>1 DEF Run
<1>3. runs' = [runs EXCEPT ![i] = [runs[i] EXCEPT !.state = state]]
    BY DEF MoveTo
<1>4. runs' \in Seq(Run) /\ DOMAIN runs' = DOMAIN runs
    BY <1>1, <1>2, <1>3, ExceptSeq
<1>5. ASSUME NEW k \in DOMAIN runs
      PROVE  /\ runs'[k].workflow = runs[k].workflow /\ runs'[k].ref = runs[k].ref
             /\ runs'[k].commit = runs[k].commit /\ runs'[k].cancel = runs[k].cancel
             /\ runs'[k].state = IF k = i THEN state ELSE runs[k].state
  <2>1. CASE k = i
    BY <1>1, <1>3, <2>1 DEF Run
  <2>2. CASE k # i
    BY <1>3, <2>2
  <2> QED
    BY <2>1, <2>2
<1> QED
    BY <1>4, <1>5

\* What the triggers start.
Batches == {<<"CI", "Publish">>, <<"CI">>, <<"Release", "Publish">>, <<"Publish">>, <<"Release">>}

\* The runs there were stay where they are, but for their cancellation; a run
\* on the same ref and in the group of a new one is cancelled unless it is over.
LEMMA Arrivals ==
    ASSUME TypeInv, NEW ws \in Batches, NEW ref \in Refs, NEW c \in Nat \ {0},
           Trigger(ws, ref, c)
    PROVE  /\ runs' \in Seq(Run)
           /\ Len(runs') = Len(runs) + Len(ws)
           /\ \A i \in DOMAIN runs :
                 /\ i \in DOMAIN runs'
                 /\ runs'[i].workflow = runs[i].workflow /\ runs'[i].ref = runs[i].ref
                 /\ runs'[i].commit = runs[i].commit /\ runs'[i].state = runs[i].state
                 /\ runs[i].cancel => runs'[i].cancel
                 /\ runs'[i].cancel /\ ~runs[i].cancel =>
                       \E k \in DOMAIN ws : runs[i].workflow = ws[k] /\ runs[i].ref = ref
                 /\ \A k \in DOMAIN ws :
                       /\ runs[i].workflow = ws[k] /\ ws[k] # "Release"
                       /\ runs[i].ref = ref /\ runs[i].state \notin Over
                       => runs'[i].cancel
           /\ \A k \in DOMAIN ws : runs'[Len(runs) + k] = NewRun(ws[k], ref, c)
<1> DEFINE new == [k \in DOMAIN ws |-> NewRun(ws[k], ref, c)]
           groups == UNION {RunGroup(new[k]) : k \in DOMAIN new}
           old == CancelIn(groups, runs)
<1>1. runs' = old \o new /\ runs \in Seq(Run)
    BY DEF Trigger, TypeInv
<1>2. ws \in Seq(Workflows) /\ DOMAIN ws = 1 .. Len(ws) /\ Len(ws) \in Nat
  <2>1. /\ <<"CI", "Publish">> \in Seq(Workflows) /\ <<"Release", "Publish">> \in Seq(Workflows)
        /\ <<"CI">> \in Seq(Workflows) /\ <<"Publish">> \in Seq(Workflows)
        /\ <<"Release">> \in Seq(Workflows)
    BY DEF Workflows
  <2>2. ws \in Seq(Workflows)
    BY <2>1 DEF Batches
  <2> QED
    BY <2>2
<1>3. \A k \in DOMAIN ws : NewRun(ws[k], ref, c) \in Run
    BY <1>2 DEF NewRun, Run
<1>4. new \in Seq(Run) /\ Len(new) = Len(ws) /\ DOMAIN new = DOMAIN ws
  <2>1. new \in [1 .. Len(ws) -> Run]
    BY <1>2, <1>3
  <2> QED
    BY <1>2, <2>1
<1>5. groups = UNION {RunGroup(NewRun(ws[k], ref, c)) : k \in DOMAIN ws}
    OBVIOUS
<1> HIDE DEF new, groups, old
<1>6. /\ old \in Seq(Run) /\ Len(old) = Len(runs) /\ DOMAIN old = DOMAIN runs
      /\ \A i \in DOMAIN runs :
            /\ old[i].workflow = runs[i].workflow /\ old[i].ref = runs[i].ref
            /\ old[i].commit = runs[i].commit /\ old[i].state = runs[i].state
            /\ (Holds(runs[i]) \union Queues(runs[i])) \intersect groups # {} => old[i].cancel
            /\ (Holds(runs[i]) \union Queues(runs[i])) \intersect groups = {} => old[i] = runs[i]
    BY <1>1, Cancels DEF old
<1>7. ASSUME NEW i \in DOMAIN runs
      PROVE  runs'[i] = old[i] /\ i \in DOMAIN runs'
    BY <1>1, <1>4, <1>6
<1>8. ASSUME NEW i \in DOMAIN runs,
             (Holds(runs[i]) \union Queues(runs[i])) \intersect groups # {}
      PROVE  \E k \in DOMAIN ws : runs[i].workflow = ws[k] /\ runs[i].ref = ref
  <2>1. PICK k \in DOMAIN ws :
            (Holds(runs[i]) \union Queues(runs[i])) \intersect RunGroup(NewRun(ws[k], ref, c)) # {}
    BY <1>5, <1>8
  <2>2. runs[i] \in Run /\ ws[k] \in Workflows
    BY <1>1, <1>2
  <2>3. RunGroup(NewRun(ws[k], ref, c)) \subseteq {<<"ci", "CI", ref>>, <<"docker", "Publish", ref>>}
    BY <2>2 DEF RunGroup, NewRun, ci_group, docker_group, Workflows
  <2>4. <<"ci", "CI", ref>> \in RunGroup(NewRun(ws[k], ref, c)) => ws[k] = "CI"
    BY <2>2 DEF RunGroup, NewRun, ci_group, docker_group, Workflows
  <2>5. <<"docker", "Publish", ref>> \in RunGroup(NewRun(ws[k], ref, c)) => ws[k] = "Publish"
    BY <2>2 DEF RunGroup, NewRun, ci_group, docker_group, Workflows
  <2>6. <<"ci", "CI", ref>> \in Holds(runs[i]) \union Queues(runs[i]) =>
            runs[i].workflow = "CI" /\ runs[i].ref = ref
    BY <2>2 DEF Holds, Queues, RunGroup, CalledGroup, ci_group, docker_group, Run, Workflows
  <2>7. <<"docker", "Publish", ref>> \in Holds(runs[i]) \union Queues(runs[i]) =>
            runs[i].workflow = "Publish" /\ runs[i].ref = ref
    BY <2>2 DEF Holds, Queues, RunGroup, CalledGroup, ci_group, docker_group, Run, Workflows
  <2> QED
    BY <2>1, <2>3, <2>4, <2>5, <2>6, <2>7
<1>9. ASSUME NEW i \in DOMAIN runs, NEW k \in DOMAIN ws,
             runs[i].workflow = ws[k], ws[k] # "Release", runs[i].ref = ref,
             runs[i].state \notin Over
      PROVE  (Holds(runs[i]) \union Queues(runs[i])) \intersect groups # {}
  <2>1. runs[i] \in Run
    BY <1>1
  <2>2. RunGroup(runs[i]) \subseteq Holds(runs[i]) \union Queues(runs[i])
    BY <1>9, <2>1 DEF Holds, Queues, Run, Holding
  <2>3. RunGroup(runs[i]) # {} /\ RunGroup(runs[i]) = RunGroup(NewRun(ws[k], ref, c))
    BY <1>9, <2>1 DEF RunGroup, NewRun, ci_group, docker_group, Run, Workflows
  <2>4. RunGroup(NewRun(ws[k], ref, c)) \subseteq groups
    BY <1>5
  <2> QED
    BY <2>2, <2>3, <2>4
<1>10. runs' \in Seq(Run) /\ Len(runs') = Len(runs) + Len(ws)
  <2>1. old \in Seq(Run) /\ new \in Seq(Run) /\ Len(old) = Len(runs) /\ Len(new) = Len(ws)
    BY <1>4, <1>6
  <2>2. old \o new \in Seq(Run) /\ Len(old \o new) = Len(old) + Len(new)
    BY <2>1, ConcatProperties
  <2> QED
    BY <1>1, <2>1, <2>2
<1>11. \A k \in DOMAIN ws : runs'[Len(runs) + k] = NewRun(ws[k], ref, c)
  <2> SUFFICES ASSUME NEW k \in DOMAIN ws PROVE runs'[Len(runs) + k] = NewRun(ws[k], ref, c)
    OBVIOUS
  <2>1. runs'[Len(old) + k] = new[k]
    BY <1>1, <1>2, <1>4, <1>6
  <2> QED
    BY <1>6, <2>1 DEF new
<1>12. \A i \in DOMAIN runs : old[i].cancel /\ ~runs[i].cancel =>
          (Holds(runs[i]) \union Queues(runs[i])) \intersect groups # {}
    BY <1>6
<1> QED
    BY <1>6, <1>7, <1>8, <1>9, <1>10, <1>11, <1>12

\* `ref` comes to point to c and runs of ws start on it: what a push, a pull
\* request, a tag and a dispatch have in common.
Arrival(ws, ref, c) ==
    /\ Trigger(ws, ref, c)
    /\ UNCHANGED <<published, edge>>
    /\ DOMAIN refs' = DOMAIN refs \union {ref} /\ refs'[ref] = c
    /\ \A x \in DOMAIN refs \ {ref} : refs'[x] = refs[x]
    /\ commits' \in Seq(Commit) /\ c \in DOMAIN commits'
    /\ \A n \in DOMAIN commits : n \in DOMAIN commits' /\ commits'[n] = commits[n]
    /\ ref = <<"main">> /\ ref \in DOMAIN refs => refs[ref] <= c

LEMMA ArrivalSteps ==
    ASSUME TypeInv, PushMain \/ PullRequest \/ PushTag \/ Dispatch
    PROVE  \E ws \in Batches, ref \in Refs, c \in Nat \ {0} : Arrival(ws, ref, c)
<1>1. ASSUME NEW ref \in Refs, NEW ws \in Batches, Push(ref, ws),
             ws \in {<<"CI">>, <<"CI", "Publish">>}
      PROVE  Arrival(ws, ref, Len(commits')) /\ Len(commits') \in Nat \ {0}
  <2>1. PICK commit \in Commit : commits' = Append(commits, commit)
    BY <1>1, ReleaseAssumption DEF Push
  <2>3. /\ commits' \in Seq(Commit)
        /\ Len(commits') = Len(commits) + 1 /\ Len(commits) \in Nat
        /\ DOMAIN commits = 1 .. Len(commits) /\ DOMAIN commits' = 1 .. Len(commits')
        /\ \A n \in 1 .. Len(commits) : commits'[n] = commits[n]
    BY <2>1 DEF TypeInv
  <2>4. refs' = [r \in DOMAIN refs \union {ref} |-> IF r = ref THEN Len(commits') ELSE refs[r]]
    BY <1>1 DEF Push, Pointed
  <2>5. \A x \in DOMAIN refs : refs[x] \in 1 .. Len(commits)
    BY <2>3 DEF TypeInv
  <2>6. Trigger(ws, ref, Len(commits')) /\ UNCHANGED <<published, edge>>
    BY <1>1 DEF Push
  <2> QED
    BY <2>3, <2>4, <2>5, <2>6 DEF Arrival
<1>2. CASE PushMain
    BY <1>1, <1>2 DEF PushMain, Batches, Refs
<1>3. CASE PullRequest
    BY <1>1, <1>3 DEF PullRequest, Batches, Refs
<1>4. CASE PushTag
  <2>1. PICK tag \in Tags, c \in DOMAIN commits :
            /\ refs' = Pointed(tag, c)
            /\ Trigger(<<"Release", "Publish">>, tag, c)
            /\ UNCHANGED <<commits, published, edge>>
    BY <1>4 DEF PushTag
  <2>2. tag # <<"main">> /\ tag \in Refs /\ c \in Nat \ {0}
    BY DEF Tags, Refs, TypeInv
  <2>3. Arrival(<<"Release", "Publish">>, tag, c)
    BY <2>1, <2>2 DEF Arrival, Pointed, TypeInv
  <2> QED
    BY <2>2, <2>3 DEF Batches
<1>5. CASE Dispatch
  <2>1. PICK ref \in DOMAIN refs \ {<<"pr">>}, w \in {"CI", "Publish", "Release"} :
            /\ Trigger(<<w>>, ref, refs[ref])
            /\ UNCHANGED <<commits, refs, published, edge>>
    BY <1>5 DEF Dispatch
  <2>2. refs[ref] \in DOMAIN commits /\ ref \in Refs /\ refs[ref] \in Nat \ {0}
    BY DEF TypeInv
  <2>4. Arrival(<<w>>, ref, refs[ref])
    <3>1. Trigger(<<w>>, ref, refs[ref]) /\ UNCHANGED <<commits, refs, published, edge>>
      BY <2>1
    <3>2. DOMAIN refs' = DOMAIN refs \union {ref} /\ refs'[ref] = refs[ref]
      BY <2>1
    <3>3. /\ commits' \in Seq(Commit)
          /\ refs[ref] \in DOMAIN commits'
          /\ \A n \in DOMAIN commits : n \in DOMAIN commits' /\ commits'[n] = commits[n]
      BY <2>1, <2>2 DEF TypeInv
    <3>4. \A x \in DOMAIN refs \ {ref} : refs'[x] = refs[x]
      BY <2>1
    <3> QED
      BY <2>2, <3>1, <3>2, <3>3, <3>4 DEF Arrival
  <2>5. <<w>> \in Batches
    BY DEF Batches
  <2> QED
    BY <2>2, <2>4, <2>5
<1> QED
    BY <1>2, <1>3, <1>4, <1>5

\* A run that starts finds its group free, so it cancels no run of its group; of
\* the runs that have none it cancels others than itself.
LEMMA Starts ==
    ASSUME TypeInv, NEW i \in DOMAIN runs, Start(i)
    PROVE  /\ runs' \in Seq(Run) /\ DOMAIN runs' = DOMAIN runs
           /\ \A k \in DOMAIN runs :
                 /\ runs'[k].workflow = runs[k].workflow /\ runs'[k].ref = runs[k].ref
                 /\ runs'[k].commit = runs[k].commit
                 /\ runs'[k].state = IF k = i THEN "waiting" ELSE runs[k].state
                 /\ runs[k].cancel => runs'[k].cancel
                 /\ runs'[k].cancel /\ ~runs[k].cancel =>
                       /\ runs[k].workflow = "Release" /\ runs[i].workflow = "Release"
                       /\ runs[k].ref = runs[i].ref
                 /\ Fellows(runs[i], runs[k]) => runs[k].state \notin Holding
           /\ ~runs'[i].cancel
<1> DEFINE marked == CancelIn(CalledGroup(runs[i]), runs)
           moved == MoveTo(i, "waiting")
<1>1. runs \in Seq(Run) /\ runs[i] \in Run /\ runs[i].state = "queued" /\ ~runs[i].cancel
    BY DEF TypeInv, Start
<1>2. /\ marked \in Seq(Run) /\ DOMAIN marked = DOMAIN runs
      /\ \A k \in DOMAIN runs :
            /\ marked[k].workflow = runs[k].workflow /\ marked[k].ref = runs[k].ref
            /\ marked[k].commit = runs[k].commit /\ marked[k].state = runs[k].state
            /\ (Holds(runs[k]) \union Queues(runs[k])) \intersect CalledGroup(runs[i]) # {}
                   => marked[k].cancel
            /\ (Holds(runs[k]) \union Queues(runs[k])) \intersect CalledGroup(runs[i]) = {}
                   => marked[k] = runs[k]
    BY <1>1, Cancels
<1>3. moved[i] = [runs[i] EXCEPT !.state = "waiting"] /\ moved[i] \in Run
  <2>1. moved[i] = [runs[i] EXCEPT !.state = "waiting"]
    BY <1>1 DEF MoveTo
  <2> QED
    BY <1>1, <2>1 DEF Run, Holding
<1>4. runs' = [marked EXCEPT ![i] = moved[i]]
    BY DEF Start
<1> HIDE DEF marked, moved
<1>5. runs' \in Seq(Run) /\ DOMAIN runs' = DOMAIN runs
    BY <1>2, <1>3, <1>4, ExceptSeq
<1>6. runs'[i] = moved[i] /\ \A k \in DOMAIN runs \ {i} : runs'[k] = marked[k]
    BY <1>2, <1>4
<1>7. /\ runs'[i].workflow = runs[i].workflow /\ runs'[i].ref = runs[i].ref
      /\ runs'[i].commit = runs[i].commit /\ runs'[i].state = "waiting"
      /\ runs'[i].cancel = runs[i].cancel
    BY <1>1, <1>3, <1>6 DEF Run
<1>8. ASSUME NEW k \in DOMAIN runs, Fellows(runs[i], runs[k])
      PROVE  runs[k].state \notin Holding
  <2>1. Holds(runs[k]) \intersect RunGroup(runs[i]) = {}
    BY DEF Start, Free
  <2>2. runs[k] \in Run
    BY <1>1
  <2>3. RunGroup(runs[k]) = RunGroup(runs[i]) /\ RunGroup(runs[k]) # {}
    BY <1>1, <1>8, <2>2 DEF Fellows, RunGroup, ci_group, docker_group, Run, Workflows
  <2>4. runs[k].state \in Holding => RunGroup(runs[k]) \subseteq Holds(runs[k])
    BY DEF Holds, Holding
  <2> QED
    BY <2>1, <2>3, <2>4
<1>9. ASSUME NEW k \in DOMAIN runs, runs'[k].cancel, ~runs[k].cancel
      PROVE  /\ runs[k].workflow = "Release" /\ runs[i].workflow = "Release"
             /\ runs[k].ref = runs[i].ref
  <2>1. k # i /\ marked[k] # runs[k]
    BY <1>1, <1>6, <1>7, <1>9
  <2>2. runs[k] \in Run
    BY <1>1
  <2>3. (Holds(runs[k]) \union Queues(runs[k])) \intersect CalledGroup(runs[i]) # {}
    BY <1>2, <2>1
  <2>4. runs[i].workflow # "CI" /\ CalledGroup(runs[i]) = {<<"ci", runs[i].workflow, runs[i].ref>>}
    BY <2>3 DEF CalledGroup, ci_group
  <2>5. /\ runs[k].workflow = runs[i].workflow /\ runs[k].ref = runs[i].ref
        /\ runs[k].workflow # "CI" => runs[k].state \in Holding
    BY <2>2, <2>3, <2>4
    DEF Holds, Queues, RunGroup, CalledGroup, ci_group, docker_group, Run, Workflows, Holding
  <2>6. runs[i].workflow = "Release"
    BY <1>8, <2>4, <2>5 DEF Fellows
  <2> QED
    BY <2>5, <2>6
<1> QED
  <2>1. \A k \in DOMAIN runs : runs[k].cancel => runs'[k].cancel
    BY <1>1, <1>2, <1>6
  <2>2. ASSUME NEW k \in DOMAIN runs
        PROVE  /\ runs'[k].workflow = runs[k].workflow /\ runs'[k].ref = runs[k].ref
               /\ runs'[k].commit = runs[k].commit
               /\ runs'[k].state = IF k = i THEN "waiting" ELSE runs[k].state
    BY <1>2, <1>6, <1>7
  <2> QED
    BY <1>1, <1>5, <1>7, <1>8, <1>9, <2>1, <2>2

\* All other steps move one run on, never back into its group.
Moved(i, state) ==
    /\ state \in Holding \union Over /\ runs' = MoveTo(i, state)
    /\ state \in Holding => runs[i].state \in Holding
    /\ UNCHANGED <<commits, refs>>
    /\ UNCHANGED <<published, edge>> \/ Publish(i)
    /\ state = "publishing" => SuiteEnds(i)

LEMMA MoveSteps ==
    ASSUME NEW i \in DOMAIN runs,
           BeginSuite(i) \/ SuiteEnds(i) \/ Publish(i) \/ PublishFails(i) \/ Cancelled(i)
    PROVE  \E state : Moved(i, state)
<1> USE DEF Holding, Over
<1>1. CASE BeginSuite(i)
    BY <1>1 DEF BeginSuite, Moved
<1>2. CASE SuiteEnds(i)
  <2>1. /\ runs[i].state = "suite" /\ UNCHANGED <<commits, refs, published, edge>>
        /\ \E state \in {"failed", "succeeded", "publishing"} : runs' = MoveTo(i, state)
    BY <1>2 DEF SuiteEnds
  <2> QED
    BY <1>2, <2>1 DEF Moved
<1>3. CASE Publish(i)
  <2>1. /\ UNCHANGED <<commits, refs>>
        /\ \E state \in {"cancelled", "succeeded"} : runs' = MoveTo(i, state)
    BY <1>3 DEF Publish
  <2> QED
    BY <1>3, <2>1 DEF Moved
<1>4. CASE PublishFails(i)
    BY <1>4 DEF PublishFails, Moved
<1>5. CASE Cancelled(i)
    BY <1>5 DEF Cancelled, Moved
<1> QED
    BY <1>1, <1>2, <1>3, <1>4, <1>5

LEMMA Steps ==
    ASSUME TypeInv, Next
    PROVE  \/ \E ws \in Batches, ref \in Refs, c \in Nat \ {0} : Arrival(ws, ref, c)
           \/ \E i \in DOMAIN runs : Start(i)
           \/ \E i \in DOMAIN runs : \E state : Moved(i, state)
BY ArrivalSteps, MoveSteps DEF Next, Advance

\* No step takes a run away, or changes what it runs on; none revives one that
\* is cancelled.  Commits stay what they are.
Kept ==
    /\ \A i \in DOMAIN runs :
          /\ i \in DOMAIN runs'
          /\ runs'[i].workflow = runs[i].workflow /\ runs'[i].ref = runs[i].ref
          /\ runs'[i].commit = runs[i].commit
          /\ runs[i].cancel => runs'[i].cancel
    /\ \A n \in DOMAIN commits : n \in DOMAIN commits' /\ commits'[n] = commits[n]

LEMMA StepsKeep ==
    ASSUME TypeInv, Next
    PROVE  Kept
<1>1. ASSUME NEW ws \in Batches, NEW ref \in Refs, NEW c \in Nat \ {0}, Arrival(ws, ref, c)
      PROVE  Kept
    BY <1>1, Arrivals DEF Arrival, Kept
<1>2. ASSUME NEW i \in DOMAIN runs, Start(i) PROVE Kept
  <2>1. UNCHANGED commits
    BY <1>2 DEF Start
  <2> QED
    BY <1>2, <2>1, Starts DEF Kept
<1>3. ASSUME NEW i \in DOMAIN runs, NEW state, Moved(i, state) PROVE Kept
  <2>1. state \in Holding \union Over /\ runs' = MoveTo(i, state) /\ UNCHANGED commits
    BY <1>3 DEF Moved
  <2>2. /\ DOMAIN runs' = DOMAIN runs
        /\ \A k \in DOMAIN runs :
              /\ runs'[k].workflow = runs[k].workflow /\ runs'[k].ref = runs[k].ref
              /\ runs'[k].commit = runs[k].commit /\ runs'[k].cancel = runs[k].cancel
    BY <2>1, Moves
  <2> QED
    BY <2>1, <2>2 DEF Kept
<1> QED
    BY <1>1, <1>2, <1>3, Steps

LEMMA TypeStep ==
    ASSUME TypeInv, Next
    PROVE  TypeInv'
<1>1. ASSUME NEW ws \in Batches, NEW ref \in Refs, NEW c \in Nat \ {0}, Arrival(ws, ref, c)
      PROVE  TypeInv'
  <2>1. \A n \in DOMAIN commits : n \in DOMAIN commits'
    BY <1>1 DEF Arrival
  <2>2. \A i \in DOMAIN runs' : runs'[i].commit \in DOMAIN commits'
    <3> SUFFICES ASSUME NEW i \in DOMAIN runs' PROVE runs'[i].commit \in DOMAIN commits'
      OBVIOUS
    <3>1. /\ Trigger(ws, ref, c) /\ Len(ws) \in Nat /\ DOMAIN ws = 1 .. Len(ws)
          /\ c \in DOMAIN commits' /\ runs \in Seq(Run)
      BY <1>1 DEF Arrival, Batches, TypeInv
    <3>2. /\ runs' \in Seq(Run) /\ Len(runs') = Len(runs) + Len(ws)
          /\ \A k \in DOMAIN runs : runs'[k].commit = runs[k].commit
          /\ \A k \in DOMAIN ws : runs'[Len(runs) + k] = NewRun(ws[k], ref, c)
      BY <3>1, Arrivals
    <3>3. CASE i \in DOMAIN runs
      BY <2>1, <3>2, <3>3 DEF TypeInv
    <3>4. CASE i \notin DOMAIN runs
      <4>1. i - Len(runs) \in DOMAIN ws /\ Len(runs) + (i - Len(runs)) = i
        BY <3>1, <3>2, <3>4
      <4>2. runs'[i] = NewRun(ws[i - Len(runs)], ref, c)
        BY <3>2, <4>1
      <4> QED
        BY <3>1, <4>2 DEF NewRun
    <3> QED
      BY <3>3, <3>4
  <2>3. runs' \in Seq(Run)
    BY <1>1, Arrivals DEF Arrival
  <2>4. DOMAIN refs' \subseteq Refs /\ \A x \in DOMAIN refs' : refs'[x] \in DOMAIN commits'
    BY <1>1, <2>1 DEF Arrival, TypeInv
  <2>5. published' \subseteq [by : Workflows, ref : Refs, commit : DOMAIN commits']
    BY <1>1, <2>1 DEF Arrival, TypeInv
  <2> QED
    BY <1>1, <2>2, <2>3, <2>4, <2>5 DEF Arrival, TypeInv
<1>2. ASSUME NEW i \in DOMAIN runs, Start(i) PROVE TypeInv'
  <2>1. UNCHANGED <<commits, refs, published, edge>>
    BY <1>2 DEF Start
  <2> QED
    BY <1>2, <2>1, Starts DEF TypeInv
<1>3. ASSUME NEW i \in DOMAIN runs, NEW state, Moved(i, state) PROVE TypeInv'
  <2>1. runs' \in Seq(Run) /\ \A k \in DOMAIN runs' : runs'[k].commit \in DOMAIN commits'
    <3>1. state \in Holding \union Over /\ runs' = MoveTo(i, state) /\ UNCHANGED commits
      BY <1>3 DEF Moved
    <3>2. /\ runs' \in Seq(Run) /\ DOMAIN runs' = DOMAIN runs
          /\ \A k \in DOMAIN runs : runs'[k].commit = runs[k].commit
      BY <3>1, Moves
    <3> QED
      BY <3>1, <3>2 DEF TypeInv
  <2>2. published' \subseteq [by : Workflows, ref : Refs, commit : DOMAIN commits] /\ edge' \in Nat
    <3>1. runs[i] \in Run /\ runs[i].commit \in DOMAIN commits
      BY DEF TypeInv
    <3> QED
      BY <1>3, <3>1 DEF Moved, Publish, TypeInv, Run
  <2> QED
    BY <1>3, <2>1, <2>2 DEF Moved, TypeInv
<1> QED
    BY <1>1, <1>2, <1>3, Steps

\* Only a suite that succeeds leads to publishing, and it succeeds only on a
\* commit that breaks none of its jobs.
LEMMA SuiteGates ==
    ASSUME TypeInv, NEW i \in DOMAIN runs, SuiteEnds(i), runs'[i].state = "publishing"
    PROVE  runs[i].workflow # "CI" /\ commits[runs[i].commit].broken = {}
<1>1. PICK conclusion \in Conclusions[commits[runs[i].commit].broken] :
          runs' = MoveTo(i, IF conclusion = "failure" THEN "failed"
                            ELSE IF runs[i].workflow = "CI" THEN "succeeded"
                            ELSE "publishing")
    BY DEF SuiteEnds
<1>2. conclusion # "failure" /\ runs[i].workflow # "CI"
  <2> DEFINE state == IF conclusion = "failure" THEN "failed"
                      ELSE IF runs[i].workflow = "CI" THEN "succeeded" ELSE "publishing"
  <2>1. state \in Holding \union Over /\ runs' = MoveTo(i, state)
    BY <1>1 DEF Holding, Over
  <2>2. runs'[i].state = state
    <3> HIDE DEF state
    <3> QED
      BY <2>1, Moves
  <2> QED
    BY <2>2
<1>3. commits[runs[i].commit].broken \in Faults
  <2>1. runs[i].commit \in DOMAIN commits
    BY DEF TypeInv
  <2>2. commits[runs[i].commit] \in Commit
    <3>1. commits \in Seq(Commit)
      BY DEF TypeInv
    <3> QED
      BY <2>1, <3>1
  <2> QED
    BY <2>2 DEF Commit
<1>4. PICK failing \in SUBSET Jobs :
          /\ \A job \in commits[runs[i].commit].broken : Result(job, failing) # "success"
          /\ conclusion = Conclusion(failing)
    BY <1>3 DEF Conclusions
<1>5. \A job \in Jobs : Result(job, failing) = "success"
    BY <1>2, <1>4 DEF Conclusion
<1>6. commits[runs[i].commit].broken \subseteq Jobs
    BY <1>3, ReleaseAssumption
<1> QED
    BY <1>2, <1>4, <1>5, <1>6

LEMMA GateStep ==
    ASSUME TypeInv, GateInv, Next
    PROVE  GateInv'
<1> DEFINE Gated(i) ==
        runs'[i].state = "publishing" =>
            runs'[i].workflow # "CI" /\ commits'[runs'[i].commit].broken = {}
<1>1. \A n \in DOMAIN commits : n \in DOMAIN commits' /\ commits'[n] = commits[n]
    BY StepsKeep DEF Kept
<1>2. \A a \in published : a.commit \in DOMAIN commits
    BY DEF TypeInv
<1>3. ASSUME UNCHANGED published
      PROVE  \A a \in published' :
                /\ commits'[a.commit].broken = {}
                /\ a.ref \in Tags => check_version(commits'[a.commit].manifest, a.ref[2])
    BY <1>1, <1>2, <1>3 DEF GateInv
<1>4. ASSUME NEW ws \in Batches, NEW ref \in Refs, NEW c \in Nat \ {0}, Arrival(ws, ref, c)
      PROVE  GateInv'
  <2>1. ASSUME NEW i \in DOMAIN runs' PROVE Gated(i)
    <3>1. /\ Trigger(ws, ref, c) /\ Len(ws) \in Nat /\ DOMAIN ws = 1 .. Len(ws)
          /\ runs \in Seq(Run)
      BY <1>4 DEF Arrival, Batches, TypeInv
    <3>2. /\ runs' \in Seq(Run) /\ Len(runs') = Len(runs) + Len(ws)
          /\ \A k \in DOMAIN runs :
                /\ runs'[k].workflow = runs[k].workflow /\ runs'[k].ref = runs[k].ref
                /\ runs'[k].commit = runs[k].commit /\ runs'[k].state = runs[k].state
          /\ \A k \in DOMAIN ws : runs'[Len(runs) + k] = NewRun(ws[k], ref, c)
      BY <3>1, Arrivals
    <3>3. CASE i \in DOMAIN runs
      <4>1. runs[i].commit \in DOMAIN commits
        BY <3>3 DEF TypeInv
      <4> QED
        BY <1>1, <3>2, <3>3, <4>1 DEF GateInv
    <3>4. CASE i \notin DOMAIN runs
      <4>1. i - Len(runs) \in DOMAIN ws /\ Len(runs) + (i - Len(runs)) = i
        BY <3>1, <3>2, <3>4
      <4>2. runs'[i] = NewRun(ws[i - Len(runs)], ref, c)
        BY <3>2, <4>1
      <4>3. runs'[i].state # "publishing"
        BY <4>2 DEF NewRun
      <4> HIDE DEF Gated
      <4> QED
        BY <4>3 DEF Gated
    <3> QED
      BY <3>3, <3>4
  <2> QED
    BY <1>3, <1>4, <2>1 DEF Arrival, GateInv
<1>5. ASSUME NEW i \in DOMAIN runs, Start(i) PROVE GateInv'
  <2>1. UNCHANGED <<commits, published>>
    BY <1>5 DEF Start
  <2>2. ASSUME NEW k \in DOMAIN runs' PROVE Gated(k)
    <3>1. /\ k \in DOMAIN runs /\ runs'[k].state \in {"waiting", runs[k].state}
          /\ runs'[k].workflow = runs[k].workflow /\ runs'[k].ref = runs[k].ref
          /\ runs'[k].commit = runs[k].commit
      BY <1>5, Starts
    <3> QED
      BY <2>1, <3>1 DEF GateInv
  <2> QED
    BY <1>3, <2>1, <2>2 DEF GateInv
<1>6. ASSUME NEW i \in DOMAIN runs, NEW state, Moved(i, state) PROVE GateInv'
  <2>1. /\ DOMAIN runs' = DOMAIN runs /\ UNCHANGED commits
        /\ \A k \in DOMAIN runs :
              /\ runs'[k].workflow = runs[k].workflow /\ runs'[k].ref = runs[k].ref
              /\ runs'[k].commit = runs[k].commit
              /\ runs'[k].state = IF k = i THEN state ELSE runs[k].state
    <3>1. state \in Holding \union Over /\ runs' = MoveTo(i, state) /\ UNCHANGED commits
      BY <1>6 DEF Moved
    <3> QED
      BY <3>1, Moves
  <2>2. ASSUME NEW k \in DOMAIN runs' PROVE Gated(k)
    <3>1. CASE k = i /\ state = "publishing"
      BY <1>6, <2>1, <3>1, SuiteGates DEF Moved, GateInv
    <3>2. CASE ~(k = i /\ state = "publishing")
      BY <2>1, <2>2, <3>2 DEF GateInv
    <3> QED
      BY <3>1, <3>2
  <2>3. ASSUME Publish(i)
        PROVE  \A a \in published' :
                  /\ commits[a.commit].broken = {}
                  /\ a.ref \in Tags => check_version(commits[a.commit].manifest, a.ref[2])
    BY <2>3 DEF Publish, Checks, GateInv
  <2> QED
    BY <1>3, <1>6, <2>1, <2>2, <2>3 DEF Moved, GateInv
<1> QED
    BY <1>4, <1>5, <1>6, Steps

\* The runs that arrive are queued behind all others, one for each workflow.
LEMMA Newcomers ==
    ASSUME TypeInv, NEW ws \in Batches, NEW ref \in Refs, NEW c \in Nat \ {0},
           Arrival(ws, ref, c)
    PROVE  /\ DOMAIN runs = 1 .. Len(runs) /\ DOMAIN runs' = 1 .. Len(runs')
           /\ Len(runs) \in Nat /\ Len(runs') \in Nat
           /\ \A k \in DOMAIN runs' \ DOMAIN runs :
                 /\ k > Len(runs)
                 /\ runs'[k].ref = ref /\ runs'[k].commit = c
                 /\ runs'[k].state = "queued" /\ ~runs'[k].cancel
                 /\ \E m \in DOMAIN ws : runs'[k].workflow = ws[m]
                 /\ \A i \in DOMAIN runs' \ DOMAIN runs :
                       runs'[i].workflow = runs'[k].workflow => i = k
           /\ \A m \in DOMAIN ws : \E k \in DOMAIN runs' \ DOMAIN runs : runs'[k].workflow = ws[m]
<1>1. Trigger(ws, ref, c) /\ runs \in Seq(Run)
    BY DEF Arrival, TypeInv
<1>2. Len(ws) \in Nat /\ DOMAIN ws = 1 .. Len(ws)
    BY DEF Batches
<1>3. \A m, n \in DOMAIN ws : ws[m] = ws[n] => m = n
    BY DEF Batches
<1>4. /\ runs' \in Seq(Run) /\ Len(runs') = Len(runs) + Len(ws)
      /\ \A m \in DOMAIN ws : runs'[Len(runs) + m] = NewRun(ws[m], ref, c)
    BY <1>1, Arrivals
<1>5. /\ DOMAIN runs = 1 .. Len(runs) /\ DOMAIN runs' = 1 .. Len(runs')
      /\ Len(runs) \in Nat /\ Len(runs') \in Nat
    BY <1>1, <1>4
<1>6. ASSUME NEW k \in DOMAIN runs' \ DOMAIN runs
      PROVE  /\ k - Len(runs) \in DOMAIN ws /\ k > Len(runs)
             /\ runs'[k].workflow = ws[k - Len(runs)]
             /\ runs'[k].ref = ref /\ runs'[k].commit = c
             /\ runs'[k].state = "queued" /\ ~runs'[k].cancel
  <2>1. k - Len(runs) \in DOMAIN ws /\ Len(runs) + (k - Len(runs)) = k /\ k > Len(runs)
    BY <1>2, <1>4, <1>5
  <2>2. runs'[k] = NewRun(ws[k - Len(runs)], ref, c)
    BY <1>4, <2>1
  <2> QED
    BY <2>1, <2>2 DEF NewRun
<1>7. ASSUME NEW k \in DOMAIN runs' \ DOMAIN runs, NEW i \in DOMAIN runs' \ DOMAIN runs,
             runs'[i].workflow = runs'[k].workflow
      PROVE  i = k
  <2>1. k - Len(runs) = i - Len(runs)
    BY <1>3, <1>6, <1>7
  <2> QED
    BY <1>5, <2>1
<1>8. ASSUME NEW m \in DOMAIN ws
      PROVE  \E k \in DOMAIN runs' \ DOMAIN runs : runs'[k].workflow = ws[m]
  <2>1. Len(runs) + m \in DOMAIN runs' \ DOMAIN runs
    BY <1>2, <1>4, <1>5
  <2>2. runs'[Len(runs) + m].workflow = ws[m]
    <3>1. runs'[Len(runs) + m] = NewRun(ws[m], ref, c)
      BY <1>4
    <3> QED
      BY <3>1 DEF NewRun
  <2> QED
    BY <2>1, <2>2
<1> QED
    BY <1>5, <1>6, <1>7, <1>8

LEMMA GroupStep ==
    ASSUME TypeInv, GroupInv, Next
    PROVE  GroupInv'
<1> DEFINE Apart(i, k) ==
        /\ runs'[i].state \notin Over => runs'[i].cancel
        /\ ~(runs'[i].state \in Holding /\ runs'[k].state \in Holding)
<1> SUFFICES ASSUME NEW i \in DOMAIN runs', NEW k \in DOMAIN runs',
                    i < k, Fellows(runs'[i], runs'[k])
             PROVE  Apart(i, k)
    BY DEF GroupInv
<1>1. ASSUME NEW ws \in Batches, NEW ref \in Refs, NEW c \in Nat \ {0}, Arrival(ws, ref, c)
      PROVE  Apart(i, k)
  <2>1. \A j \in DOMAIN runs :
            /\ runs'[j].workflow = runs[j].workflow /\ runs'[j].ref = runs[j].ref
            /\ runs'[j].state = runs[j].state
            /\ runs[j].cancel => runs'[j].cancel
            /\ \A m \in DOMAIN ws :
                  /\ runs[j].workflow = ws[m] /\ ws[m] # "Release"
                  /\ runs[j].ref = ref /\ runs[j].state \notin Over
                  => runs'[j].cancel
    BY <1>1, Arrivals DEF Arrival
  <2>2. CASE k \in DOMAIN runs
    <3>1. i \in DOMAIN runs
      BY <1>1, <2>2, Newcomers
    <3> QED
      BY <2>1, <2>2, <3>1 DEF GroupInv, Fellows
  <2>3. CASE k \notin DOMAIN runs
    <3>1. runs'[k].state \notin Holding /\ runs'[k].ref = ref
      BY <1>1, <2>3, Newcomers DEF Holding
    <3>2. i \in DOMAIN runs
      BY <1>1, <2>3, Newcomers DEF Fellows
    <3>3. PICK m \in DOMAIN ws : runs'[k].workflow = ws[m]
      BY <1>1, <2>3, Newcomers
    <3>4. runs'[i].state \notin Over => runs'[i].cancel
      BY <2>1, <3>1, <3>2, <3>3 DEF Fellows
    <3> QED
      BY <3>1, <3>4
  <2> QED
    BY <2>2, <2>3
<1>2. ASSUME NEW j \in DOMAIN runs, Start(j) PROVE Apart(i, k)
  <2>1. i \in DOMAIN runs /\ k \in DOMAIN runs
    BY <1>2, Starts
  <2>2. \A n \in {i, k} :
            /\ runs'[n].workflow = runs[n].workflow /\ runs'[n].ref = runs[n].ref
            /\ runs'[n].state = IF n = j THEN "waiting" ELSE runs[n].state
            /\ runs[n].cancel => runs'[n].cancel
            /\ Fellows(runs[j], runs[n]) => runs[n].state \notin Holding
    BY <1>2, <2>1, Starts
  <2>3. runs[j].state = "queued"
    BY <1>2 DEF Start
  <2>4. Fellows(runs[i], runs[k]) /\ Fellows(runs[k], runs[i])
    BY <2>2 DEF Fellows
  <2>5. i # k
    BY <1>2, <2>1 DEF TypeInv
  <2> QED
    BY <2>1, <2>2, <2>3, <2>4, <2>5 DEF GroupInv, Holding, Over
<1>3. ASSUME NEW j \in DOMAIN runs, NEW state, Moved(j, state) PROVE Apart(i, k)
  <2>1. /\ state \in Holding \union Over /\ runs' = MoveTo(j, state)
        /\ state \in Holding => runs[j].state \in Holding
    BY <1>3 DEF Moved
  <2>2. i \in DOMAIN runs /\ k \in DOMAIN runs
    BY <2>1, Moves
  <2>3. \A n \in {i, k} :
            /\ runs'[n].workflow = runs[n].workflow /\ runs'[n].ref = runs[n].ref
            /\ runs'[n].cancel = runs[n].cancel
            /\ runs'[n].state = IF n = j THEN state ELSE runs[n].state
    BY <2>1, <2>2, Moves
  <2>4. \A n \in {i, k} : runs'[n].state \in Holding => runs[n].state \in Holding
    BY <2>1, <2>3
  <2>5. runs'[i].state \notin Over => runs[i].state \notin Over
    BY <2>1, <2>3 DEF Holding, Over
  <2>6. Fellows(runs[i], runs[k])
    BY <2>3 DEF Fellows
  <2> QED
    BY <2>2, <2>3, <2>4, <2>5, <2>6 DEF GroupInv
<1> QED
    BY <1>1, <1>2, <1>3, Steps

LEMMA EdgeStep ==
    ASSUME TypeInv, GroupInv, EdgeInv, Next
    PROVE  EdgeInv'
<1> DEFINE main == <<"main">>
           Live(i) == \/ runs[i].state \in Holding
                      \/ runs[i].state = "queued" /\ ~runs[i].cancel
           Live1(i) == \/ runs'[i].state \in Holding
                       \/ runs'[i].state = "queued" /\ ~runs'[i].cancel
<1>1. /\ edge \in Nat /\ edge' \in Nat
      /\ \A i \in DOMAIN runs : runs[i].commit \in Nat \ {0}
      /\ \A i \in DOMAIN runs' : runs'[i].commit \in Nat \ {0}
      /\ \A x \in DOMAIN refs : refs[x] \in Nat
      /\ \A x \in DOMAIN refs' : refs'[x] \in Nat
    BY TypeStep DEF TypeInv, Run
<1>2. ASSUME edge # 0 PROVE main \in DOMAIN refs /\ edge <= refs[main]
    BY <1>2 DEF EdgeInv
<1>3. ASSUME NEW i \in DOMAIN runs, Edges(runs[i])
      PROVE  /\ main \in DOMAIN refs /\ runs[i].commit <= refs[main]
             /\ \A k \in DOMAIN runs :
                   i < k /\ Edges(runs[k]) => runs[i].commit <= runs[k].commit
             /\ Live(i) => edge <= runs[i].commit
    BY <1>3 DEF EdgeInv
<1> DEFINE EdgeAfter ==
        /\ edge' # 0 => main \in DOMAIN refs' /\ edge' <= refs'[main]
        /\ \A i \in DOMAIN runs' :
              Edges(runs'[i]) =>
                  /\ main \in DOMAIN refs' /\ runs'[i].commit <= refs'[main]
                  /\ \A k \in DOMAIN runs' :
                        i < k /\ Edges(runs'[k]) => runs'[i].commit <= runs'[k].commit
                  /\ Live1(i) => edge' <= runs'[i].commit
<1>4. EdgeAfter => EdgeInv'
    BY DEF EdgeInv, Edges
<1>5. ASSUME NEW ws \in Batches, NEW ref \in Refs, NEW c \in Nat \ {0}, Arrival(ws, ref, c)
      PROVE  EdgeInv'
  <2>1. /\ UNCHANGED edge
        /\ main \in DOMAIN refs => main \in DOMAIN refs' /\ refs[main] <= refs'[main]
    <3>1. ref # main => refs'[main] = refs[main] \/ main \notin DOMAIN refs
      BY <1>5 DEF Arrival
    <3> QED
      BY <1>1, <1>5, <3>1 DEF Arrival
  <2>2. ASSUME NEW i \in DOMAIN runs
        PROVE  /\ i \in DOMAIN runs' /\ Edges(runs'[i]) = Edges(runs[i])
               /\ runs'[i].commit = runs[i].commit /\ (Live1(i) => Live(i))
    <3>1. Trigger(ws, ref, c) /\ TypeInv
      BY <1>5 DEF Arrival
    <3>2. /\ i \in DOMAIN runs'
          /\ runs'[i].workflow = runs[i].workflow /\ runs'[i].ref = runs[i].ref
          /\ runs'[i].commit = runs[i].commit /\ runs'[i].state = runs[i].state
          /\ runs[i].cancel => runs'[i].cancel
      BY <1>5, <3>1, Arrivals
    <3> QED
      BY ONLY <3>2 DEF Edges
  <2>3. ASSUME NEW i \in DOMAIN runs' \ DOMAIN runs, Edges(runs'[i])
        PROVE  /\ main \in DOMAIN refs' /\ runs'[i].commit = refs'[main]
               /\ \A k \in DOMAIN runs : k < i
    BY <1>5, <2>3, Newcomers DEF Arrival, Edges
  <2>4. edge' # 0 => main \in DOMAIN refs' /\ edge' <= refs'[main]
    BY <1>1, <1>2, <2>1
  <2>5. ASSUME NEW i \in DOMAIN runs', Edges(runs'[i])
        PROVE  /\ main \in DOMAIN refs' /\ runs'[i].commit <= refs'[main]
               /\ Live1(i) => edge' <= runs'[i].commit
    <3>1. CASE i \in DOMAIN runs
      <4> HIDE DEF Live, Live1
      <4> QED
        BY <1>1, <1>3, <2>1, <2>2, <2>5, <3>1
    <3>2. CASE i \notin DOMAIN runs
      BY <1>1, <2>3, <2>4, <2>5, <3>2
    <3> QED
      BY <3>1, <3>2
  <2>6. ASSUME NEW i \in DOMAIN runs', Edges(runs'[i]),
               NEW k \in DOMAIN runs', Edges(runs'[k]), i < k
        PROVE  runs'[i].commit <= runs'[k].commit
    <3>1. CASE k \in DOMAIN runs
      <4>1. i \in DOMAIN runs
        BY <1>5, <2>6, <3>1, Newcomers
      <4> QED
        BY <1>3, <2>2, <2>6, <3>1, <4>1
    <3>2. CASE k \notin DOMAIN runs
      BY <2>3, <2>5, <2>6, <3>2
    <3> QED
      BY <3>1, <3>2
  <2> QED
    BY <1>4, <2>4, <2>5, <2>6
<1>6. ASSUME NEW j \in DOMAIN runs, Start(j) PROVE EdgeInv'
  <2>1. UNCHANGED <<refs, edge>> /\ runs[j].state = "queued" /\ ~runs[j].cancel
    BY <1>6 DEF Start
  <2>2. DOMAIN runs' = DOMAIN runs
    BY <1>6, Starts
  <2>3. ASSUME NEW i \in DOMAIN runs
        PROVE  /\ Edges(runs'[i]) = Edges(runs[i]) /\ runs'[i].commit = runs[i].commit
               /\ Live1(i) => Live(i)
    <3>1. /\ runs'[i].workflow = runs[i].workflow /\ runs'[i].ref = runs[i].ref
          /\ runs'[i].commit = runs[i].commit
          /\ runs'[i].state = IF i = j THEN "waiting" ELSE runs[i].state
          /\ runs[i].cancel => runs'[i].cancel
      BY <1>6, Starts
    <3> QED
      BY <2>1, <3>1 DEF Edges
  <2> HIDE DEF Live, Live1
  <2> QED
    BY <1>2, <1>3, <1>4, <2>1, <2>2, <2>3
<1>7. ASSUME NEW j \in DOMAIN runs, NEW state, Moved(j, state) PROVE EdgeInv'
  <2>1. /\ state \in Holding \union Over /\ runs' = MoveTo(j, state)
        /\ state \in Holding => runs[j].state \in Holding
        /\ UNCHANGED refs
    BY <1>7 DEF Moved
  <2>2. DOMAIN runs' = DOMAIN runs
    BY <2>1, Moves
  <2>3. ASSUME NEW i \in DOMAIN runs
        PROVE  /\ Edges(runs'[i]) = Edges(runs[i]) /\ runs'[i].commit = runs[i].commit
               /\ runs'[i].cancel = runs[i].cancel
               /\ runs'[i].state = IF i = j THEN state ELSE runs[i].state
               /\ Live1(i) => Live(i)
    <3>1. /\ runs'[i].workflow = runs[i].workflow /\ runs'[i].ref = runs[i].ref
          /\ runs'[i].commit = runs[i].commit /\ runs'[i].cancel = runs[i].cancel
          /\ runs'[i].state = IF i = j THEN state ELSE runs[i].state
      BY <2>1, Moves
    <3> QED
      BY <2>1, <3>1 DEF Edges, Holding, Over
  <2>4. CASE UNCHANGED edge
    <3> HIDE DEF Live, Live1
    <3> QED
      BY <1>2, <1>3, <1>4, <2>1, <2>2, <2>3, <2>4
  <2>5. CASE Publish(j) /\ Edges(runs[j])
    <3>1. Edges(runs[j]) /\ edge' = runs[j].commit /\ runs[j].state \in Holding
      <4>1. runs[j].state = "publishing" /\ edge' = runs[j].commit
        BY <2>5 DEF Publish, Edges
      <4> QED
        BY <2>5, <4>1 DEF Holding
    <3>2. state \in Over
      <4>1. \E over \in Over : runs' = MoveTo(j, over)
        BY <2>5 DEF Publish, Over
      <4> QED
        BY <2>3, <4>1, Moves
    <3>3. ASSUME NEW i \in DOMAIN runs, Edges(runs[i]), Live1(i)
          PROVE  runs[j].commit <= runs[i].commit
      <4>1. i # j
        BY <2>3, <3>2, <3>3 DEF Holding, Over
      <4>2. Live(i) /\ runs[i].state \notin Over
        BY <2>3, <3>3 DEF Holding, Over
      <4>3. Fellows(runs[i], runs[j]) /\ Fellows(runs[j], runs[i])
        BY <3>1, <3>3 DEF Fellows, Edges
      <4>4. CASE i < j
        BY <3>1, <4>2, <4>3, <4>4 DEF GroupInv
      <4>5. CASE j < i
        BY <1>3, <3>1, <3>3, <4>5
      <4>6. i < j \/ j < i
        BY <4>1 DEF TypeInv
      <4> QED
        BY <4>4, <4>5, <4>6
    <3>4. edge' # 0 => main \in DOMAIN refs' /\ edge' <= refs'[main]
      BY <1>3, <2>1, <3>1
    <3> HIDE DEF Live, Live1
    <3> QED
      BY <1>3, <1>4, <2>1, <2>2, <2>3, <3>1, <3>3, <3>4
  <2> QED
    BY <1>7, <2>4, <2>5 DEF Moved, Publish, Edges
<1> QED
    BY <1>5, <1>6, <1>7, Steps

LEMMA HasGroup ==
    ASSUME NEW r \in Run
    PROVE  RunGroup(r) # {} <=> r.workflow # "Release"
BY DEF RunGroup, Run, Workflows

LEMMA StandStep ==
    ASSUME TypeInv, OneRunStands, Next
    PROVE  OneRunStands'
<1> DEFINE Stands(i, k) ==
        /\ runs'[k].workflow = runs'[i].workflow /\ runs'[k].ref = runs'[i].ref
        /\ ~runs'[k].cancel
        /\ runs'[i].workflow # "Release" => k >= i
<1>1. SUFFICES ASSUME NEW i \in DOMAIN runs'
               PROVE  \E k \in DOMAIN runs' : Stands(i, k)
  <2>1. ASSUME NEW i \in DOMAIN runs'
        PROVE  RunGroup(runs'[i]) # {} <=> runs'[i].workflow # "Release"
    <3>1. runs'[i] \in Run
      BY TypeStep DEF TypeInv
    <3> QED
      BY <3>1, HasGroup
  <2>2. \A i \in DOMAIN runs' : RunGroup(runs[i])' # {} => runs'[i].workflow # "Release"
    BY <2>1 DEF RunGroup, ci_group, docker_group
  <2> QED
    BY <2>2 DEF OneRunStands
<1>2. ASSUME i \in DOMAIN runs
      PROVE  \E k \in DOMAIN runs :
                /\ runs[k].workflow = runs[i].workflow /\ runs[k].ref = runs[i].ref
                /\ ~runs[k].cancel
                /\ runs[i].workflow # "Release" => k >= i
  <2>1. RunGroup(runs[i]) # {} <=> runs[i].workflow # "Release"
    BY <1>2, HasGroup DEF TypeInv
  <2> QED
    BY <1>2, <2>1 DEF OneRunStands
<1>3. ASSUME NEW ws \in Batches, NEW ref \in Refs, NEW c \in Nat \ {0}, Arrival(ws, ref, c)
      PROVE  \E k \in DOMAIN runs' : Stands(i, k)
  <2>1. CASE i \notin DOMAIN runs
    <3>1. ~runs'[i].cancel /\ i >= i
      BY <1>3, <2>1, Newcomers
    <3> QED
      BY <3>1
  <2>2. CASE i \in DOMAIN runs
    <3>1. PICK k \in DOMAIN runs :
              /\ runs[k].workflow = runs[i].workflow /\ runs[k].ref = runs[i].ref
              /\ ~runs[k].cancel
              /\ runs[i].workflow # "Release" => k >= i
      BY <1>2, <2>2
    <3>2. \A n \in {i, k} :
              /\ n \in DOMAIN runs'
              /\ runs'[n].workflow = runs[n].workflow /\ runs'[n].ref = runs[n].ref
              /\ runs'[n].cancel /\ ~runs[n].cancel =>
                    \E m \in DOMAIN ws : runs[n].workflow = ws[m] /\ runs[n].ref = ref
      BY <1>3, <2>2, Arrivals DEF Arrival
    <3>3. CASE ~runs'[k].cancel
      BY <3>1, <3>2, <3>3
    <3>4. CASE runs'[k].cancel
      <4>1. PICK m \in DOMAIN ws : runs[k].workflow = ws[m] /\ runs[k].ref = ref
        BY <3>1, <3>2, <3>4
      <4>2. PICK n \in DOMAIN runs' \ DOMAIN runs : runs'[n].workflow = ws[m]
        BY <1>3, Newcomers
      <4>3. runs'[n].ref = ref /\ ~runs'[n].cancel /\ n >= i
        BY <1>3, <2>2, Newcomers
      <4> QED
        BY <3>1, <3>2, <4>1, <4>2, <4>3
    <3> QED
      BY <3>3, <3>4
  <2> QED
    BY <2>1, <2>2
<1>4. ASSUME NEW j \in DOMAIN runs, Start(j) PROVE \E k \in DOMAIN runs' : Stands(i, k)
  <2>1. i \in DOMAIN runs /\ DOMAIN runs' = DOMAIN runs /\ ~runs'[j].cancel
    BY <1>4, Starts
  <2>2. PICK k \in DOMAIN runs :
            /\ runs[k].workflow = runs[i].workflow /\ runs[k].ref = runs[i].ref
            /\ ~runs[k].cancel
            /\ runs[i].workflow # "Release" => k >= i
    BY <1>2, <2>1
  <2>3. \A n \in {i, j, k} :
            /\ runs'[n].workflow = runs[n].workflow /\ runs'[n].ref = runs[n].ref
            /\ runs'[n].cancel /\ ~runs[n].cancel =>
                  /\ runs[n].workflow = "Release" /\ runs[j].workflow = "Release"
                  /\ runs[n].ref = runs[j].ref
    BY <1>4, <2>1, Starts
  <2>4. CASE ~runs'[k].cancel
    BY <2>1, <2>2, <2>3, <2>4
  <2>5. CASE runs'[k].cancel
    BY <2>1, <2>2, <2>3, <2>5
  <2> QED
    BY <2>4, <2>5
<1>5. ASSUME NEW j \in DOMAIN runs, NEW state, Moved(j, state)
      PROVE  \E k \in DOMAIN runs' : Stands(i, k)
  <2>1. state \in Holding \union Over /\ runs' = MoveTo(j, state)
    BY <1>5 DEF Moved
  <2>2. i \in DOMAIN runs /\ DOMAIN runs' = DOMAIN runs
    BY <2>1, Moves
  <2>3. \A n \in DOMAIN runs :
            /\ runs'[n].workflow = runs[n].workflow /\ runs'[n].ref = runs[n].ref
            /\ runs'[n].cancel = runs[n].cancel
    BY <2>1, Moves
  <2> QED
    BY <1>2, <2>2, <2>3
<1> QED
    BY <1>3, <1>4, <1>5, Steps

-----------------------------------------------------------------------------
IInv == TypeInv /\ GateInv /\ GroupInv /\ EdgeInv /\ OneRunStands

LEMMA Initially == Init => IInv
<1> SUFFICES ASSUME Init PROVE IInv
    OBVIOUS
<1>1. commits \in Seq(Commit)
    BY ReleaseAssumption DEF Init
<1>2. DOMAIN commits = 1 .. Len(commits) /\ Len(commits) \in Nat
    BY <1>1
<1>3. /\ DOMAIN refs \subseteq Refs
      /\ \A ref \in DOMAIN refs : refs[ref] \in DOMAIN commits
  <2>1. PICK tagged \in SUBSET Tags : \E pointed \in [tagged -> DOMAIN commits] :
            refs = [ref \in tagged \union (IF commits = <<>> THEN {} ELSE {<<"main">>}) |->
                       IF ref = <<"main">> THEN Len(commits) ELSE pointed[ref]]
    BY DEF Init
  <2>2. PICK pointed \in [tagged -> DOMAIN commits] :
            refs = [ref \in tagged \union (IF commits = <<>> THEN {} ELSE {<<"main">>}) |->
                       IF ref = <<"main">> THEN Len(commits) ELSE pointed[ref]]
    BY <2>1
  <2>3. commits # <<>> => Len(commits) \in DOMAIN commits
    BY <1>1, <1>2
  <2>4. tagged \subseteq Refs /\ <<"main">> \notin tagged /\ <<"main">> \in Refs
    BY DEF Tags, Refs
  <2>5. DOMAIN refs \subseteq Refs
    BY <2>2, <2>4
  <2>6. ASSUME NEW ref \in DOMAIN refs PROVE refs[ref] \in DOMAIN commits
    <3>1. CASE ref = <<"main">>
      BY <2>2, <2>3, <2>4, <3>1
    <3>2. CASE ref # <<"main">>
      BY <2>2, <3>2
    <3> QED
      BY <3>1, <3>2
  <2> QED
    BY <2>5, <2>6
<1>4. runs = <<>> /\ published = {} /\ edge = 0
    BY DEF Init
<1>5. TypeInv
    BY <1>1, <1>3, <1>4 DEF TypeInv
<1>6. GateInv /\ GroupInv /\ EdgeInv /\ OneRunStands
    BY <1>4 DEF GateInv, GroupInv, EdgeInv, OneRunStands
<1> QED
    BY <1>5, <1>6 DEF IInv

LEMMA Always == Spec => []IInv
<1>1. IInv /\ [Next]_vars => IInv'
  <2> SUFFICES ASSUME IInv, [Next]_vars PROVE IInv'
    OBVIOUS
  <2>1. CASE Next
    BY <2>1, TypeStep, GateStep, GroupStep, EdgeStep, StandStep DEF IInv
  <2>2. CASE UNCHANGED vars
    BY <2>2 DEF vars, IInv, TypeInv, GateInv, GroupInv, EdgeInv, OneRunStands, RunGroup,
                ci_group, docker_group
  <2> QED
    BY <2>1, <2>2
<1> QED
    BY <1>1, Initially, PTL DEF Spec

\* Type correctness, for any number of runs.
THEOREM TypeCorrect == Spec => []TypeInv
BY Always, PTL DEF IInv

\* No binary and no image is published from a commit that breaks a job of the
\* suite, whoever is cancelled when: the gate of release.yml and
\* docker-publish.yml.
THEOREM Verified == Spec => []OnlyVerified
<1>1. IInv => OnlyVerified
    BY DEF IInv, GateInv, OnlyVerified
<1> QED
    BY <1>1, Always, PTL

\* What check-version.sh accepts, the workspace advertises: awk's first quoted
\* version of the table is the key that Cargo reads.
LEMMA CheckAdvertises ==
    ASSUME NEW manifest \in Manifests, NEW tag, check_version(manifest, tag)
    PROVE  Advertised(manifest) = tag
<1> DEFINE lines == {n \in VersionLines(manifest) : In_wp(manifest, n)}
<1>1. PICK n \in lines : manifest[n][2] = tag
    BY DEF check_version, First
<1>2. n \in VersionKeys(manifest)
    BY DEF VersionKeys, VersionLines
<1>3. (CHOOSE k \in VersionKeys(manifest) : TRUE) = n
    BY <1>2, ReleaseAssumption
<1> QED
    BY <1>1, <1>3 DEF Advertised

\* What is published under a tag has the version of the tag, whatever commit was
\* tagged and however often the tag was moved.
THEOREM TagsAgree == Spec => []VersionsAgree
<1>1. IInv => VersionsAgree
  <2> SUFFICES ASSUME IInv, NEW a \in published, a.ref \in Tags
               PROVE  Advertised(commits[a.commit].manifest) = a.ref[2]
    BY DEF VersionsAgree
  <2>1. check_version(commits[a.commit].manifest, a.ref[2])
    BY DEF IInv, GateInv
  <2>2. commits[a.commit].manifest \in Manifests
    <3>1. commits \in Seq(Commit) /\ a.commit \in DOMAIN commits
      BY DEF IInv, TypeInv
    <3>2. commits[a.commit] \in Commit
      BY <3>1
    <3> QED
      BY <3>2 DEF Commit
  <2> QED
    BY <2>1, <2>2, CheckAdvertises
<1> QED
    BY <1>1, Always, PTL

\* The concurrency groups of ci.yml and docker-publish.yml never cancel all runs
\* of a workflow on a ref.
THEOREM NotWipedOut == Spec => []OneRunStands
BY Always, PTL DEF IInv

\* :edge never goes back to an older commit of main, though an upload may outlast
\* the cancellation of its run.
THEOREM EdgeForward == Spec => EdgeNeverGoesBack
<1>1. IInv /\ [Next]_vars => [edge' >= edge]_edge
  <2> SUFFICES ASSUME IInv, Next, edge' # edge PROVE edge' >= edge
    BY DEF vars
  <2>1. PICK i \in DOMAIN runs : Publish(i) /\ Edges(runs[i])
    <3>1. PICK i \in DOMAIN runs : \E state : Moved(i, state)
      BY Steps DEF IInv, Arrival, Start
    <3> QED
      BY <3>1 DEF Moved, Publish, Edges
  <2>2. edge' = runs[i].commit /\ runs[i].state = "publishing"
    BY <2>1 DEF Publish, Edges
  <2>3. runs[i] \in Run
    BY DEF IInv, TypeInv
  <2>4. edge <= runs[i].commit
    BY <2>1, <2>2 DEF IInv, EdgeInv, Holding
  <2> QED
    BY <2>2, <2>3, <2>4 DEF IInv, TypeInv, Run
<1> QED
    BY <1>1, Always, PTL DEF Spec, EdgeNeverGoesBack
=============================================================================
