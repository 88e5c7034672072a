------------------------- MODULE IntegrationAssembly -------------------------
(***************************************************************************)
(* What goes into the integrated worktree of one task: the patches of the  *)
(* tasks it waits for.  They are planned, applied in order, applied again  *)
(* with Git's three-way merge when one is rejected, replayed for the model *)
(* call that may resolve a true conflict, and completed after it.  Modules *)
(* IntegrationConflict and Integration tell who may do this and how often; *)
(* this one follows the patches.  How Git applies a patch on the stack     *)
(* before it is external: one of four outcomes.                            *)
(***************************************************************************)
EXTENDS DependencyGraph, SequencesExt

CONSTANTS
  TaskOrder,       \* the tasks of the plan in declared order
  Target,          \* the task whose worktree is assembled
  Plans,           \* the dependencies a plan may declare
  Scope,           \* Scope[t]: the paths the file scopes of t own
  RelativePaths,   \* the well-formed repository-relative paths
  Submissions,     \* evidence a caller may hand in: sequences of [task, base, paths, writes]
  MaxDrifts        \* bound: what happens to the replay beside the pipeline

Tasks == Range(TaskOrder)
Fits  == {"applies", "merges", "conflicts", "rejected"}

\* The task ids of a recorded plan are unique, its graph passed the checks, and evidence
\* is only sought for a task that waits for others.
ASSUME AssemblyAssumption ==
  /\ TaskOrder \in Seq(Tasks) /\ Target \in Tasks /\ MaxDrifts \in Nat
  /\ \A i, j \in DOMAIN TaskOrder : TaskOrder[i] = TaskOrder[j] => i = j
  /\ \A d \in Plans : d \in [Tasks -> SUBSET Tasks] /\ IsDependencyGraph(d) /\ d[Target] # {}
  /\ \A s \in Submissions : s \in Seq(Range(s))

VARIABLES
  deps,        \* the recorded plan
  evidence,    \* the completed patches handed in
  order,       \* the planned stack, empty while none is ready
  fit,         \* how each patch applies on the stack before it
  assembly,    \* the assembly's result
  threeWay,  \* the result of the three-way resolution
  replayed,      \* the preflight result of the conflict agent
  final,       \* the result of the conflict agent
  files,       \* the patch files kept for the replay still have their digests
  tree,        \* the worktree of the replay
  call,        \* the model call and its report: [made, disposition, reported]
  drifts

assemblyVars == <<deps, evidence, order, fit, assembly, threeWay, replayed, final, files, tree,
                  call, drifts>>

None == [status |-> "none"]
Clean == [head |-> "base", unmerged |-> {}, others |-> "kept", loose |-> FALSE, markers |-> FALSE]

Result(status, reason, applied, conflict) ==
  [status |-> status, reason |-> reason, applied |-> applied, conflict |-> conflict]

(***************************************************************************)
(* planIntegrationAssembly                                                 *)
(***************************************************************************)
\* A repeated path, one that is not well formed, or one outside the task's scopes.
InScope(t, paths) ==
  \A i \in DOMAIN paths : /\ paths[i] \in RelativePaths \cap Scope[t]
                          /\ \A j \in DOMAIN paths : paths[i] = paths[j] => i = j

\* Fault: only the tasks named by the target itself are required.
DirectPrerequisites(d) == d[Target]

Prerequisites(d) == Ancestors(d)[Target]

\* t comes before u: in an earlier layer, or declared earlier in the same layer.
Precedes(d, t, u) ==
  \E i, j \in DOMAIN Layers(d) :
    /\ t \in Layers(d)[i] /\ u \in Layers(d)[j]
    /\ \/ i < j
       \/ i = j /\ \E k, l \in DOMAIN TaskOrder : k < l /\ TaskOrder[k] = t /\ TaskOrder[l] = u

\* The prerequisites, layer after layer and each layer in declared order: there is one
\* such stack.
Stack(d) ==
  LET needed == Prerequisites(d)
  IN  {s \in [1..Cardinality(needed) -> needed] :
         \A i, j \in DOMAIN s : i < j => Precedes(d, s[i], s[j])}

\* The first record of a task is its patch.
FirstOf(t, patches) ==
  patches[CHOOSE i \in DOMAIN patches : /\ patches[i].task = t
                                        /\ \A j \in 1..(i - 1) : patches[j].task # t]

PatchOf(t) == FirstOf(t, evidence)

Blockers(d, patches) ==
  LET needed == Prerequisites(d)
      of(t)  == {i \in DOMAIN patches : patches[i].task = t}
      have   == {t \in needed : of(t) # {}}
      others == {p \in Range(patches) : p.task \notin needed}
  IN  {<<p.task, "unexpected_evidence">> : p \in others}
      \cup {<<t, "duplicate_evidence">> : t \in {t \in needed : Cardinality(of(t)) > 1}}
      \cup {<<t, "missing_evidence">> : t \in needed \ have}
      \cup {<<t, "base_mismatch">> : t \in {t \in have : FirstOf(t, patches).base # "base"}}
      \cup {<<t, "scope_violation">> : t \in {t \in have : ~InScope(t, FirstOf(t, patches).paths)}}

Plan ==
  /\ evidence = <<>>
  /\ \E s \in Submissions :
       evidence' = s /\ order' \in IF Blockers(deps, s) = {} THEN Stack(deps) ELSE {<<>>}
  /\ UNCHANGED <<deps, fit, assembly, threeWay, replayed, final, files, tree, call, drifts>>

(***************************************************************************)
(* Applying the stack                                                      *)
(***************************************************************************)
Empty(t)  == PatchOf(t).writes = {}
Lies(t)   == Empty(t) /\ PatchOf(t).paths # <<>>
Fails(t)  == ~Empty(t) /\ fit[t] \in {"conflicts", "rejected"}
Writes(s) == UNION {PatchOf(t).writes : t \in Range(s)}
Claimed   == UNION {Range(PatchOf(t).paths) : t \in Range(order)}

\* The place of the first patch that stops the loop, or the one after the last.
StopsAt(stops) == LET at == {i \in DOMAIN order : order[i] \in stops} IN
                  IF at = {} THEN Len(order) + 1 ELSE CHOOSE i \in at : \A j \in at : i <= j
Before(i) == SubSeq(order, 1, i - 1)

\* What a stack that applied completely comes to.
Judged(ok, head) ==
  IF Writes(order) # Claimed THEN Result("blocked", "changed_path_mismatch", order, {})
  ELSE IF head # "base" THEN Result("blocked", "head_moved", order, {})
  ELSE Result(ok, "none", order, {})

\* An empty patch that claims paths throws, and nothing is recorded.
Assemble ==
  /\ order # <<>> /\ assembly = None
  /\ \E f \in [Range(order) -> Fits], head \in {"base", "moved"} :
       LET i == StopsAt({t \in Range(order) : Lies(t) \/ (~Empty(t) /\ f[t] # "applies")}) IN
       /\ fit' = f /\ \A t \in Range(order) : Empty(t) => f[t] = "applies"
       /\ i \in DOMAIN order => ~Lies(order[i])
       /\ assembly' = IF i \in DOMAIN order
                      THEN Result("blocked", "patch_rejected", Before(i), {})
                      ELSE Judged("assembled", head)
  /\ UNCHANGED <<deps, evidence, order, threeWay, replayed, final, files, tree, call, drifts>>

ThreeWay(i) ==
  IF fit[order[i]] = "conflicts"
    THEN Result("blocked", "unresolved_conflict", Before(i), PatchOf(order[i]).writes)
    ELSE Result("blocked", "patch_rejected", Before(i), {})

\* The whole stack again, in a new worktree, with the three-way merge.
ResolveStack ==
  /\ assembly.status = "blocked" /\ assembly.reason = "patch_rejected" /\ threeWay = None
  /\ \E head \in {"base", "moved"} :
       LET i == StopsAt({t \in Range(order) : Lies(t) \/ Fails(t)}) IN
       /\ i \in DOMAIN order => ~Lies(order[i])
       /\ threeWay' = IF i \in DOMAIN order THEN ThreeWay(i) ELSE Judged("resolved", head)
  /\ UNCHANGED <<deps, evidence, order, fit, assembly, replayed, final, files, tree, call, drifts>>

(***************************************************************************)
(* The replay for the model call                                           *)
(***************************************************************************)
\* Git, the source worktree or the kept files are no longer what they were; or
\* something writes into the replay.
Drift ==
  /\ threeWay # None /\ final = None /\ drifts < MaxDrifts /\ drifts' = drifts + 1
  /\ \/ \E t \in DOMAIN fit, f \in Fits : fit' = [fit EXCEPT ![t] = f] /\ UNCHANGED <<files, tree>>
     \/ \E t \in Range(order) : files' = [files EXCEPT ![t] = FALSE] /\ UNCHANGED <<fit, tree>>
     \/ /\ replayed # None /\ UNCHANGED <<fit, files>>
        /\ \E h \in {"base", "moved"} : tree' = [tree EXCEPT !.head = h, !.others = "changed"]
  /\ UNCHANGED <<deps, evidence, order, assembly, threeWay, replayed, final, call>>

\* The failed task, the applied prefix and the unmerged paths are the recorded ones.
SameConflict(i) ==
  /\ order[i] = order[Len(threeWay.applied) + 1] /\ Before(i) = threeWay.applied
  /\ fit[order[i]] = "conflicts" /\ PatchOf(order[i]).writes = threeWay.conflict

\* Preparation must leave the fresh worktree clean and at the base.
Replay ==
  /\ threeWay.status = "blocked" /\ threeWay.reason = "unresolved_conflict" /\ replayed = None
  /\ \E prepared \in BOOLEAN :
       LET i == StopsAt({t \in Range(order) : Fails(t)})
           ok == /\ prepared /\ \A t \in Range(order) : files[t]
                 /\ \A j \in DOMAIN order : j < i => ~Lies(order[j])
                 /\ i \in DOMAIN order /\ SameConflict(i)
       IN  /\ replayed' = IF ok THEN Result("passed", "none", Before(i), PatchOf(order[i]).writes)
                              ELSE Result("blocked", "violations", <<>>, {})
           /\ tree' = IF ok THEN [Clean EXCEPT !.unmerged = replayed'.conflict] ELSE tree
  /\ UNCHANGED <<deps, evidence, order, fit, assembly, threeWay, final, files, call, drifts>>

\* HEAD, the unmerged paths and everything beside them are still those of the replay.
Unmoved == tree.head = "base" /\ tree.unmerged = replayed.conflict /\ tree.others = "kept"

\* The sole call, and what the worker leaves and reports; it may do anything.
Work ==
  /\ replayed.status = "passed" /\ ~call.made /\ Unmoved
  /\ \E d \in {"resolved", "blocked"}, reported \in {replayed.conflict, {}},
        left \in [head : {"base", "moved"}, unmerged : {{}, replayed.conflict},
                  others : {"kept", "changed"}, loose : BOOLEAN, markers : BOOLEAN] :
       /\ call' = [made |-> TRUE, disposition |-> d, reported |-> reported]
       /\ tree' = left
  /\ UNCHANGED <<deps, evidence, order, fit, assembly, threeWay, replayed, final, files, drifts>>

(***************************************************************************)
(* #evaluate                                                               *)
(***************************************************************************)
\* Why what the worker left is refused.
Refused ==
  IF call.disposition = "blocked" THEN "worker_blocked"
  ELSE IF tree.head # "base" THEN "head_moved"
  ELSE IF tree.unmerged # {} THEN "unmerged_paths"
  ELSE IF tree.others # "kept" THEN "non_conflict_changed"
  ELSE IF call.reported # replayed.conflict THEN "reported_paths_mismatch"
  ELSE IF tree.loose THEN "unstaged_changes"
  ELSE IF tree.markers THEN "conflict_markers" ELSE "none"

\* The first patch after the conflict that does not apply.  An empty one never
\* does: git apply finds no patch in it.
RestStopsAt(failed) ==
  StopsAt({t \in Range(SubSeq(order, failed + 1, Len(order))) :
             ~files[t] \/ Empty(t) \/ fit[t] \in {"conflicts", "rejected"}})

\* The limits are those of the repository snapshot: file_limit, diff_limit, protected_path.
Evaluate ==
  /\ call.made /\ final = None
  /\ \E withinPolicy \in BOOLEAN :
       LET failed == Len(threeWay.applied) + 1
           i == RestStopsAt(failed)
       IN  final' =
             IF Refused # "none"
               THEN Result("blocked", Refused, threeWay.applied, tree.unmerged)
             ELSE IF i \in DOMAIN order
               THEN LET conflicts == /\ files[order[i]] /\ ~Empty(order[i])
                                     /\ fit[order[i]] = "conflicts"
                    IN  Result("blocked", "remaining_patch_rejected", Before(i),
                               IF conflicts THEN PatchOf(order[i]).writes ELSE {})
             ELSE IF Writes(order) # Claimed
               THEN Result("blocked", "changed_path_mismatch", order, {})
             ELSE IF ~withinPolicy THEN Result("blocked", "policy_limit", order, {})
             ELSE Result("resolved", "none", order, {})
  /\ UNCHANGED <<deps, evidence, order, fit, assembly, threeWay, replayed, files, tree, call, drifts>>

AssemblyInit ==
  /\ deps \in Plans /\ evidence = <<>> /\ order = <<>> /\ fit = <<>>
  /\ assembly = None /\ threeWay = None /\ replayed = None /\ final = None
  /\ files = [t \in Tasks |-> TRUE] /\ tree = Clean /\ drifts = 0
  /\ call = [made |-> FALSE, disposition |-> "none", reported |-> {}]

AssemblyNext == Plan \/ Assemble \/ ResolveStack \/ Drift \/ Replay \/ Work \/ Evaluate

AssemblySpec == AssemblyInit /\ [][AssemblyNext]_assemblyVars

(***************************************************************************)
(* Properties                                                              *)
(***************************************************************************)
Recorded == {r \in {assembly, threeWay, replayed, final} : r # None}
Reasons == {"none", "patch_rejected", "changed_path_mismatch", "head_moved", "unresolved_conflict",
            "violations", "worker_blocked", "unmerged_paths", "non_conflict_changed",
            "reported_paths_mismatch", "unstaged_changes", "conflict_markers",
            "remaining_patch_rejected", "policy_limit"}

\* The results are of the kinds the schemas list, and the call is made once a replay passed.
AssemblyTypeOK ==
  /\ deps \in Plans /\ evidence \in Submissions \cup {<<>>} /\ Range(order) \subseteq Tasks
  /\ \A r \in Recorded : /\ r.status \in {"assembled", "resolved", "passed", "blocked"}
                         /\ r.reason \in Reasons
                         /\ (r.status = "blocked") = (r.reason # "none")
  /\ files \in [Tasks -> BOOLEAN] /\ (call.made => replayed.status = "passed")

\* However the worktree came about, directly, by a three-way merge or after the
\* model call: it holds the patch of every task the target waits for, directly or
\* not, of no other, each once and after those it depends on; each was made on the
\* base commit and within its task's scopes, and the paths are those claimed.
StackIsWhole ==
  \A r \in Recorded : r.status \in {"assembled", "resolved"} =>
    LET held == Range(r.applied)
        closed(S) == deps[Target] \subseteq S /\ \A t \in S : deps[t] \subseteq S
    IN  /\ closed(held) /\ \A S \in SUBSET Tasks : closed(S) => held \subseteq S
        /\ Len(r.applied) = Cardinality(held)
        /\ \A i, j \in DOMAIN r.applied : r.applied[i] \in deps[r.applied[j]] => i < j
        /\ \A t \in held : PatchOf(t).base = "base" /\ InScope(t, PatchOf(t).paths)
        /\ Writes(r.applied) = UNION {Range(PatchOf(t).paths) : t \in held}

\* Every result passes the schema it is stored and read back with, so that no
\* recovery is refused for the form of the evidence it starts from: what was
\* applied is a prefix of the stack, a true conflict names its paths, and nothing
\* resolved keeps one.
ResultsAreReadable ==
  \A r \in Recorded :
    /\ IsPrefix(r.applied, order)
    /\ r.reason = "unresolved_conflict" => r.conflict # {}
    /\ r.status \in {"assembled", "resolved"} => r.conflict = {} /\ r.applied # <<>>

\* The sole model call is spent only on the conflict that was recorded: whatever
\* has happened to Git, to the kept files or to the replay since, the worker finds
\* the recorded prefix applied and exactly the recorded paths unmerged.
CallSeesTheConflict ==
  [][~call.made /\ call'.made =>
       /\ tree.head = "base" /\ tree.unmerged = threeWay.conflict /\ tree.others = "kept"
       /\ replayed.applied = threeWay.applied]_assemblyVars

\* A resolution by the model edits the conflict alone, and completes the stack from
\* kept files that nobody has touched.
ResolutionIsTrusted ==
  final.status = "resolved" =>
    /\ tree = Clean
    /\ \A i \in (Len(threeWay.applied) + 2)..Len(order) : files[order[i]]

\* Whatever way a stack was put together, it is the whole stack and nothing else.
AssemblyIsTrusted ==
  /\ AssemblyTypeOK
  /\ StackIsWhole
  /\ ResultsAreReadable
  /\ ResolutionIsTrusted
=============================================================================
