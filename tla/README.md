# Bobsled in TLA+

Bobsled turns a work item (a GitHub issue or a conversation) into a reviewed
draft pull request.  One Node process serves an operator board and a GitHub
webhook, keeps every decision in SQLite, and calls model providers, shell
commands and GitHub between its transactions.  These modules model its control
plane: what is written, under which guards, in which order, and what can happen
between two of its transactions.

Contents: [parts](#the-system), [how to read the models](#how-the-models-are-built),
[modules](#modules), [runs](#runs-and-bounds), [fairness](#fairness),
[proofs](#what-is-proved), [disagreements](#where-code-and-documents-disagree),
[what is left out](#what-is-not-modelled), [plan](#plan).

## The system

Paths are under `src/src/control-plane/` unless they say otherwise.

| Component | State it keeps | Operations | Interacts with | Module |
|---|---|---|---|---|
| Organization capacity (`organization-capacity-*.ts`) | append-only policies, enforcement decisions bound to one policy version, one claim per dispatched lifecycle with a lease, recovery batches | record policy, record enforcement, claim, release, recover expired | called inside the transactions of every dispatching store | `OrganizationCapacity` |
| Job ledger (`ledger.ts`) | runs, jobs, attempts, reviews, approvals, archive overlay | admit, override, cancel, archive, restore; authorize, start and settle an execution; the same for a review | capacity; read by publication, rebase, change sets | `JobLedger` |
| Execution (`execution-service.ts`) | a preserved worktree | create, prepare, run the worker, run gates, collect the patch, settle | ledger, provider, shell | `JobLedger`, `DraftExecution` |
| Orchestration (`run-orchestration-service.ts`) | none | execute, then review if the policy asks for it | execution, review | `JobLedger` |
| Review (`review-service.ts`) | the same worktree | reviewer, one remediation, gates, evidence, final reviewer | ledger, providers, shell | `JobLedger`, `DraftReview` |
| Draft publication (`publication-service.ts`) | one record per approved review: status, attempts, lease, pull request | admit, execute, refresh (operator or webhook) | ledger, worktree, GitHub | `DraftPublication` |
| Rebase and recovery (`publication-rebase-*.ts`, `publication-recovery-resolution-*.ts`) | replays and fresh reviews with leases, resolutions | replay the patch, review it afresh, recover, write off | publication, capacity | `PublicationRebase` |
| Issue actions (`github-actions.ts`) | an outbox of label and comment actions | admit, execute under a lease, retry | GitHub | `IssueActions` |
| Webhook events (`github-events.ts`, `../channels/github.ts`, `publication-webhook-reconciler.ts`) | payloads by delivery ID, installation snapshots | record once, refresh what the delivery names, acknowledge | publication | `WebhookDeliveries` |
| Multi-worker plans (`multi-worker-*.ts`, `work-plan-contracts.ts`, `dependency-graph.ts`) | plans, frozen budgets, worker attempts | record a plan, schedule, reserve, claim, settle | capacity, integration | `WorkPlan`, `MultiWorkerBudget` |
| Integration (`integration-*.ts`) | assemblies, conflict attempts, promotions, one-use invocations and their evidence | assemble, resolve, call the conflict agent, promote; prepare, inspect, call, gate, settle | parents, capacity | `IntegrationAssembly`, `IntegrationConflict`, `Integration` |
| Change sets (`multi-repository-*.ts`) | linked runs, authorizations, schedules, preparation leases, reservations | admit, authorize, schedule, lease, reserve, execute | ledger | `ChangeSet`, `MemberExecution` |
| Linked verification and publication (`multi-repository-*.ts`) | plans, gate executions, rollouts, recovery plans, retries, decisions | verify, authorize, publish in order, recover | change sets, publication | `CompatibilityExecution`, `LinkedPublication` |
| Intake (`intake-*.ts`) | conversations, revisions, snapshots, triages, admissions | append, revise (one-use call), finalize, correct, triage, admit | ledger, capacity | `Intake` |
| Enrollment and drift (`repository-enrollment-*.ts`, `repository-drift*.ts`) | versioned contracts, drift observations | enroll, disable, check | GitHub; read by every admission | `RepositoryEnrollment` |
| Sessions (`operator-sessions.ts`) | login states, sessions, two cookies | begin, callback, resolve, log out | GitHub | `OperatorSessions` |
| Activity (`observability.ts`, `ui/client/live.ts`) | a queue per process, the observation log, a page | observe, flush, poll, paint | runs | `RunActivity` |
| Credentials (`../auth-file.ts`) | `auth.json` and its lock | log in, refresh | providers | `CredentialFile` |
| GitHub App, authorization, views, routes, pages, agents | none that the models need | - | - | - |

What is hard here:

- **Interleaving at awaits.**  A service call reads, awaits a command, a provider or
  GitHub for up to an hour, and then writes.  Anything - an operator, a webhook,
  another call of the same service - runs in between.
- **Lost calls.**  A stopped process leaves attempts, reviews, claims, leases and
  publications where they were; nothing resumes a call.  Recovery is an operator's
  command (capacity), a lease (publication, rebase, issue actions), another request
  for the same row (integration, change sets), or does not exist (reviews).
- **One-use calls.**  Model calls cost money and are authorized once: a reservation,
  a claim and a settlement around the call, which a crash, a second request or a
  late answer may meet in any order.
- **Unreliable answers.**  GitHub may have done what a failed request asked for, a
  delivery may come again, and a provider may have rotated a token nobody stored.
- **Versions and digests.**  Records store what they were derived from and are
  re-derived on every read: a legal step elsewhere can make a record unreadable.
- **Decisions about one thing, recorded about another**: a verdict on one patch,
  a capacity mode decided for one policy, an inspection before the last edit.

What makes the components correct:

- *Capacity*: what was found to fit a policy keeps fitting it; a policy change
  under enforcement fails closed; an identity is claimed once and ended once;
  every ambiguous claim belongs to exactly one recovery; running work holds slots.
- *Ledger, execution, orchestration*: attempts never overlap; completed runs are
  immutable; run, job, review and claim agree; authorized work settles; a draft is
  what its gates ran over.
- *Review*: an approval rests on gates, a fresh non-empty patch and a reviewer who
  saw that patch; provider calls are bounded; every review settles.
- *Publication, rebase*: nothing is forced; retries reconcile lost answers into one
  pull request; drift stops retries; a merge is neither invented nor missed; a
  blocked publication is recovered once, after one fresh call.
- *Workers, integration*: budgets and dependencies hold under stale schedulers; one
  call per conflict and per integration; one base; success only over what was
  inspected last; a stack is whole.
- *Change sets*: members take turns in dependency order under the contract they were
  prepared with; the barrier has its evidence; drafts open in order; a recovery plan
  is consumed once.
- *Intake, enrollment*: one run or one correction per snapshot, from exactly the
  finalized brief; no contract is brought back that GitHub no longer declares.
- *Actions, deliveries, sessions, activity, credentials*: duplicates are explained;
  an acknowledged delivery was applied; a login opens one session; a log without
  gaps; the newest credential on disk.

## How the models are built

One SQLite transaction is one action: `better-sqlite3` is synchronous, and every
handler that writes more than once does so in one transaction, so nothing runs
inside it.  A service call in progress is a record in a set (or a function from
call to record) that says which await it is at; each stretch of code between two
awaits is an action.  A rejected command changes nothing and is therefore a
stuttering step, not an action; so is the replay of an idempotency key, except
where a caller goes on with what it got.  Operators send the version they saw, so
a stale command is a stuttering step too; the version is explicit only where a call
or a record carries one across an await (the automatic review, a publication, an
enrollment, a conversation).

Data is kept only as far as a property tells it apart: a patch is a model value or a
set of paths, a commit is "base", "approved" or "other", an outcome is a status and
whether any file changed.  Digests, texts, names of people and audit rows are left
out.  Where the code re-derives a record on every read, the condition it derives
is an invariant (`RecordsStayReadable`, `PlanStaysReadable`, `ReadsVerify`,
`ResultsAreReadable`): if it failed, the record could not be read any more.

Each module states a type invariant and its properties in named parts; the part
names are conjoined in one property per question (`...IsSound`, `...Stand`), which is
what the runs check.  A violated conjunction is read by looking for the false part
in the last state.

Definitions introduced by `Fault:` are not part of a specification.  Each is a
variant of the definition that follows it, with a mistake that could be made in
that code, and documents which property would notice it.

## Modules

Capacity and ledger:

- **`CapacityClaims`** is the abstract specification of a capacity claim: claimed
  once, released or recovered once, then immutable.  `OrganizationCapacity` and
  `JobLedger` implement it (`Claims!Spec`, the claim of each identity as mapping).
- **`OrganizationCapacity`**: `policies` and `enforcement` are the event streams;
  `claims` has a row per identity; `batches` remembers which claims each idempotency
  key recovered; `running[w]` is when the provider calls of `w` must have ended by
  their timeouts.  `Claim` is `claimOrganizationCapacity` with observation,
  comparison and insert; `RecoverExpired` is one bounded batch, oldest first, the
  order among equal expiries left open.  `Tick` cannot pass the timeout of running
  work.
- **`JobLedger`**: `ledger.ts` and the order in which execution, orchestration and
  review call it.  `executing`, `deciding` and `reviewing` hold the calls in
  progress.  `RecoverClaims` may take any active claims: what a lease permits is
  `OrganizationCapacity`'s subject, and the ledger must be right whichever claims are
  recovered.  `Crash` loses any set of calls.  Member runs of change sets take only
  the commands the code leaves them.
- **`DraftExecution`** is the inside of one execution attempt, between
  `MarkExecutionRunning` and `FinishExecution` of `JobLedger`: the paths that differ
  from the base, HEAD, preparation, the worker call, gates (both may write, and may
  move HEAD), the collected draft.
- **`DraftReview`** is the inside of one review (`ReviewService.#review`): which patch
  the worktree holds, which one each party saw, verdicts, gates, evidence, calls.
  `Rewriting` says which gates' commands may change the worktree.

Publication:

- **`DraftPublication`**: the record, any number of overlapping `execute` and
  `refreshChecks` calls, and GitHub - a generated branch and the pull requests
  opened from it.  `Humans` switches on what other people do: push or delete the
  branch, edit, close, reopen or merge a pull request, archive or restore the run,
  change the policy, the workspace or the default branch.  Commits are
  content-addressed and built from the same patch, message and dates, so every call
  builds the same commit and the requests that build it change nothing anyone else
  can see.
- **`PublicationRebase`**: from a publication that is blocked since its base moved.
  Replays (`AdmitReplay` ... `SettleReplay`) and fresh reviews (`AdmitFresh`,
  `StartFresh`, `ClaimFresh`, `EndFresh`) have a row, a lease and an execution that
  may outlive the lease; `InsertRecovered` is the publication an approval allows,
  `Resolve` the operator's decision that a merged one supersedes it.
- **`IssueActions`** and **`WebhookDeliveries`** are the two other ways to GitHub: an
  outbox with a lease, and an inbox that is acknowledged only after what it names was
  refreshed.

Multi-worker plans and their integration:

- **`DependencyGraph`**, **`WorkPlan`**: the checks a plan passes (targets, cycles,
  minimal and disjoint scopes) and its layers, as operators over functions from task
  to tasks; the visit and the layers are recursive functions on the nodes that are left.
- **`OneUseCalls`** is the abstract specification of a budget of provider calls: a
  call made is never made again.  `MultiWorkerBudget`, `IntegrationConflict` and
  `MemberExecution` implement it, each with the refinement mapping from its statuses.
- **`MultiWorkerBudget`**: `attempt[t][n]` and its capacity claim; a scheduler's `pass`
  holds the view it read and the task it is at.
- **`IntegrationConflict`**, then **`Integration`** on top of it: assemblies,
  attempts of the conflict agent, promotions, and the invocation with its phases
  (`inv`).  `caller` and `request` are the service calls in progress, `workspace`
  what is on disk against what was recorded.
- **`IntegrationAssembly`** looks into what those modules take as outcomes: which patches
  are applied in which order (`Stack(d)` is the set of the orders that fit the layers and the
  declaration, of which there is one), what a three-way merge leaves, what the model call may
  change, and the tree all of it is judged on.

Change sets:

- **`ChangeSet`** (admission, authorization, schedule over member runs), then
  **`MemberExecution`** on top of it (leases, preparation, reservations, the claimed
  call).  A member run is reduced to its status, its attempt and its review.
- **`CompatibilityExecution`** takes over with completed members: verification plan,
  gate execution over the worktrees, publication barrier.
- **`LinkedPublication`** takes over behind the barrier: rollout, recovery plans,
  retries, decisions, with each draft publication reduced to its status, attempts
  and who is executing it.
- **`ChangeSets`** composes members and rollout: they write different tables and interleave
  freely.  `MCChangeSets` follows one of the two at a time, as said below; the theorems are
  about the composition.

On their own: **`Intake`** (conversation to run), **`RepositoryEnrollment`**,
**`OperatorSessions`**, **`RunActivity`**, **`CredentialFile`**.

**`MC...`** modules and `.cfg` files are the instances TLC checks.  Components that
share no state are checked by one run as alternatives: `part` names the component a
behaviour follows, and all others stay as they are.  That is the union of their
state graphs, not the product, and nothing is lost, since none reads the other.
**`...Proofs`** modules hold the theorems.

## Runs and bounds

| Run | Instance | What it shows |
|---|---|---|
| `capacity` | one execution (a Codex slot) and one review (a slot of each provider), three policies, two policy and two decision events, lease 2, clock 4, batches of one, two recovery keys | Fitting claims never exceed the policy version they were fitted to; drift fails closed and stays closed; recoveries partition the ambiguous claims; a lifecycle of a single provider call never loses its slots; claims refine `CapacityClaims` |
| `ledger` | a run with up to three attempts and a change-set member, one slot, two lost calls, archive and restore up to version 9, any recovery, weak fairness | Attempts are serial; run, job, review and claim agree and the ceiling holds (`LedgerAgrees`); completed runs never move; authorized work settles when no call is lost and a changed draft gets its automatic review (`WorkGoesOn`) |
| `services` | a review of four patches with two gates, one of which may rewrite; three members, two gates and two runners, with a deployment, an edit of a worktree, its undoing and a stop | An approval and a barrier rest on the whole sequence (`ApprovalIsEarned`, `BarrierIsEarned`); both services settle, once (`VerdictsSettle`) |
| `publication` | two `execute` calls, two attempts, two losses, up to two pull requests; people push, delete, edit, close, reopen, merge; the workspace drifts | No branch is moved off other people's commits, drift stops retries (`PublicationFailsClosed`); a delivered record has its pull request, and overlapping calls pass the attempt limit by at most one each (`DeliveryIsSound`) |
| `publication_retry` | two `execute` calls that retry, two losses, nobody else | Retries end in one pull request, recorded |
| `publication_refresh` | two refreshes, people edit, close, reopen and merge; policy, default branch and run change | No merge is invented, and none stays unnoticed |
| `workers` | two schedulers, three tasks of which one waits for two, one retry each, two budgets, a deadline, a claim recovery; all graphs over three tasks are proposed | Limits hold, workers start on finished ground, only free failures retry, verdicts of a plan are final; attempts refine `OneUseCalls` |
| `integration` | two attempts at one conflict, two promotions, one caller of the conflict services, two requests, both policies, a stop, a recovery, stale phases | One conflict call, one base, one worker call, late answers dropped (`IntegrationIsSound`); evidence is written once and success verified (`IntegrationStands`) |
| `change_sets` | two repositories, dependent or not, three contracts, one deployment, one stop, two callers; two linked drafts, one recovery plan, one event by an operator | Members take turns, records stay readable, drafts open in order, each is executed once (`MembersTakeTurns`, `RolloutIsOrdered`); evidence and terminal states stand (`ChangeSetsStand`) |
| `requests` | ten components, see below | One property each, and `RecordsAreFinal` for what no later step may undo |

`requests` bounds: two replays and three fresh reviews with a policy change and a
stop; three conversations with one turn each besides the first, one revision, two
triages, one edit of the contract, one stop; one comment and two labels, two
overlapping executions, a policy flip and a stop; three lifecycle deliveries (one that
names more than may be refreshed), an installation and an ignored event, two
handlers; two names and three identities, two enrollments and a drift check; two
plans over four tasks with submissions that are whole, empty, rejected, out of
scope or based elsewhere, one drift; two logins with two callbacks each; two
processes that observe two events each; two workers and two providers with three
tokens; three paths of which one is protected, two gates.

Two further runs show disagreements (below).

Why the bounds are enough.  Two works and batches of one are the smallest instance
in which a recovery must choose, a second batch follows, and a claim meets an
occupied slot.  Two events per stream allow a drift, a repair, and a decision that
is stale.  Three attempts give a first, a middle and a last one; the proofs cover
any number.  Overlapping calls interfere pairwise, through one row and one branch
or worktree: two of each kind are enough, and a third row (fresh reviews, conversations)
is there where the code looks for "another" one besides the one that overlaps.
`workers` needs the join, since only there a pass finds one dependency finished and
the other not.  One stop per component: after it nothing of the stopped call is
left but the rows, and a second stop starts from rows the first could have left.
`MaxAttempts = 8` in `publication_retry` is the least number that suffices for two
losses: a call fails once per loss and at most twice in conflict with an
overlapping one (on creating the branch, on opening the pull request), and a call
that lost its lease may write its failure over the record of an attempt that has
delivered, so that each of the four failures can cost two attempts.  With one
attempt fewer TLC finds the record blocked beside its open pull request; the policy
allows at most 10 attempts and the repositories of the registry use 3.

Symmetry is used over interchangeable callers and keys, in runs without liveness.

## Fairness

Only calls of the code get fairness, never operators or GitHub users, except where
a property is about their persistence:

- `JobLedger!Fairness`: weak fairness per run for its execution, decision and
  review calls.  Every await is bounded - commands, workers and reviewers by the
  timeouts of the policy snapshot - and what it throws is caught and settled
  (`ExecutionService.#fail`, the `catch` of `#review`).  `WorkGoesOn` is conditional
  on no call being lost, because nothing in the code resumes one.
- `MCServices!ServicesSpec`: weak fairness of the review, and of a runner of the
  compatibility service once it was called, for the same reason.
  `ClaimedExecutionSettles` excepts a stop, and a change that was noticed and undone
  (below).
- `DraftPublication!RetriedSpec`: every started call ends (`ExecStep`), leases
  elapse, and an operator admits the record and retries it until it is delivered or
  refused.  Strong fairness of `Claim` says that a retry is not always in the
  inspection at the moments another call holds the lease.
- `DraftPublication!FollowedSpec`: webhook deliveries and the operator's "check
  again" keep asking, requests end, and answers are not all lost (strong fairness
  of `ApplyPull`).

The other components wait for an operator, a redelivery or a new request after
every failure, and promise nothing without one; their properties are safety.

## What is proved

TLAPS checks the following for every value of the constants that the modules'
assumptions admit.

`OrganizationCapacityProofs` (from `CapacityAssumption`: finitely many works, natural
demands, runtimes and limits):

- `CapacityTypes`, type correctness, from which every other proof takes its types.
- `ClaimsImplemented`: the capacity ledger implements `CapacityClaims`, one step at a
  time.  `Settle` of a claim a recovery took and `Crash` map to stuttering.
- `RecoveryIsAccounted`: `RecoveryAccounted` is inductive with the types, since a
  batch takes active claims only and no action leaves "ambiguous".
- `WorkflowsFit`: the claims found to fit a version never exceed its workflow limit.
  The key lemma is `FittingStep`: between two claims the set of fitting claims of
  a version only shrinks; `Claim` counts all active claims, which include the
  fitting ones.
- `CallsFit` and `EnforcedFitKept`: the same for the call slots of every provider, and
  that what an enforced version admits never exceeds it.  A sum of demands is reasoned
  about as the number of pairs of a claim and one of its slots (`SlotsOf`,
  `SlotsAreOccupied`), so that fewer claims occupy fewer slots (`FewerSlots`) and one claim
  more adds what it demands (`OneMoreSlots`); that the fold is that number is shown by a
  least set for which it is not.
- `DriftIsClosed`: the action property, from the types and from a decision's version
  never lying ahead of the stream.
- `SlotsAreHeld`: if every lifecycle is bounded below the lease
  (`\A w \in Works : Runtime[w] < Lease`), running work always holds its slots.  The
  invariant `RunsWithinLease` relates the deadline of running work to the expiry of
  its claim.  The assumption is what the code's reviews do not meet (below).

`JobLedgerProofs` (from `LedgerAssumption`):

- `LedgerTypes`: `TypeOK` is inductive only together with `CallsRefer`, that a call in
  progress names an attempt or a review that exists.
- `AttemptsNeverOverlap`: `AttemptsAreSerial` is not inductive: it does not say why an
  override cannot let a new attempt follow a succeeded one.  `RunHistory` adds what
  a run's status says about its attempts - a pending or blocked run has only blocked
  ones (the override makes a blocked run pending, and a pending run gets the next
  attempt), a run that is not admitted has none - and `LedgerInv` is the types with
  every run's history.  `HistoryStep` has one case per action.
- `CompletedRunsAreImmutable`: from `LedgerInv`, since a completed run has no live
  attempt that could still settle.
- `LedgerAgreement`: `LedgerAgrees` relates rows that different transactions write.
  `AgreementInv` adds to `LedgerInv` that run and job agree (`RunAgrees`), that a review is the
  only one of a last attempt that succeeded with a change (`ReviewFits`), what the status of
  an attempt or a review says about its claim (`ItemsFit`: queued work has none, so no claim
  is opened twice), and that the active works are a finite set within the ceiling
  (`CeilingFits`).
- `LedgerClaimsImplemented`: the ledger implements `CapacityClaims`.  `ClaimsMoveStep` says
  what every transaction does to the claims: nothing, one claim taken below the ceiling, or
  one released.

`ServicesProofs` (from `ReviewAssumption` and `CompatibilityAssumption`: schedules have at
least one check):

- `EveryApprovalIsEarned`: `ApprovalIsEarned` speaks of settled reviews, so it says
  nothing of how one gets there.  `ReviewInv` adds what holds at each step of a review:
  calls spent and gates passed so far, that an unremediated review at its gates was
  approved on the draft as it came, that a final reviewer is asked about the non-empty
  patch that passed every gate, and that without a rewriting gate only a remediation
  changes the worktree.
- `EveryBarrierIsEarned`: the strengthening `BarrierInv` says that at most one runner is
  past the claim and the execution is running while one is (`OneRunner`), that the
  counter of started commands is what that runner holds as results
  (`ResultsAreCounted`, `StartsAreCounted`), that a success was settled over every gate
  (`SuccessIsComplete`), and that execution and barrier rest on the plan
  (`RestsOnPlan`).  A crash leaves a running execution nobody can claim again, which is
  why `OneRunner` bounds the claimants and does not require one.
- `VerdictsStand`: the action property, from the types alone.

`PublicationProofs` (from `PublicationAssumption`: finitely many calls, a positive attempt
limit and lease):

- `RefreshesStayTrue`: `TypeOK` and `MergedMeansMerged` are inductive only as parts of
  `PublicationInv`.  It adds that a record or a settling call names a pull request that was
  opened (`PullsAreNamed`), that only such a record is delivered or followed
  (`DeliveryNamesPull`), that what a slow refresh saw merged is merged (`MergesSeen`), and
  that a lease belongs to running or delivered work (`LeaseKeepsRecord`).  The lemmas say
  what every step does to each variable; `PullsLast` is what the rest needs of GitHub: no
  pull request disappears and none is unmerged.
- `DeliveryStaysSound`: the limit is checked before an inspection and spent after it.
  `AttemptsInv` counts the calls between the two with the attempts spent; a call joins them
  below the limit, and a claim takes it out as it spends one.
- `PublicationStaysClosed`: both action properties.  A halted publication has no call past
  its check of the drift, and none of the steps before it reaches one.

`DependencyGraphProofs` (from no assumption, for every finite graph): what the algorithms
of `DependencyGraph` compute, for the schedule of a plan and for the stack of an assembly.

- The recursion over the nodes that are left has a solution (`FixedPoint`), a graph the visit
  accepts always has a ready node (`AcyclicHasReady`), the layers hold each node once, after
  everything it waits for (`LayersFollow`), and the ancestors are the least closed set
  (`AncestorsAreLeast`).  These are proved by a least counterexample among the subsets of the
  graph: the library's induction theorems cannot be instantiated, but the minimum of a
  well-founded relation can.
- In the same way, a finite set with a strict total order has one enumeration
  (`OneEnumeration`), which is what a sort in the code returns.

`MultiWorkerProofs` (from `PlanAssumption` and `BudgetAssumption`: the declared tasks are a
sequence without repetition, the plans scheduled are proposed ones, limits and retries are
natural numbers; and from `ConflictAssumption` and `IntegrationAssumption`: finitely many
attempts, natural bounds on crashes and recoveries, and names: no attempt or promotion is
called "direct", the workspace of the first assembly):

- `SchedulingSound`: a scheduler works from attempts it read some time ago.  `BudgetInv` says
  what it can rely on: attempts are numbered without a gap and an ended one stays what it is
  (`ViewFits`), so that a dependency seen succeeded has succeeded (`LatestStays`), and a task
  it wants whose next number is free is as it was read (`WantedIsCurrent`).  A blocked verdict
  is final because it names a task that nothing will make succeed (`Doomed`); `DoomedStays`
  is the lemma.  The limits are counted with the finite-set theorems (`BudgetHoldsStep`).
- `BudgetMakesOneUseCalls`: what every step does to the attempts (`Effect`: nothing, one
  task's next attempt, or one attempt going on) is a step of `OneUseCalls` or a stutter.
- `IntegrationSound`: the parts of `IntegrationIsSound` speak of calls and claims, not of who
  holds them.  `ConflictInv` says what a caller at each step may hold (`CallersRefer`), that a
  call that is running or may still be made is held by one caller (`CallsAreOwned`), that a
  claimed preflight is replayed by its claimant only (`ReplaysAreOwned`), and which record
  rests on which (`HistoryFits`); the invocation adds `InvocationFits`, `RequestsFit`,
  `WorkerRunsOnce` and `InvocationHoldsClaim`.
- `IntegrationStandsHolds`: the conflict agent implements `OneUseCalls`, the evidence of an
  invocation is never replaced and a success was verified after the last gate, step by step
  from the same invariant.

`ChangeSetProofs` (from `ChangeSetAssumption`, finitely many repositories,
and `LinkedAssumption`: the order of the members has no repetition, plans and processes do not
have the names the model reserves, and the attempt limit is positive):

- `MembersTakeTurnsHolds`: one member at a time is a statement about whole behaviours, not
  about any row.  `MemberInv` adds to the types that a member past its reservation is past
  the schedule's choice as well (`StagesFollow`), which of its lease, reservation, run and
  claimed call exist at each stage (`LeasesFit`, `ReservationsFit`, `CallersFit`), and that
  a reservation is held by one caller (`HeldOnce`).
- `MembersStand`: the action properties.  `EveryStepMoves` says what a step may do to a
  member's rows, from which each follows.
- `RolloutOrdered`: `LinkedInv` says who works on what.  A job, the rollout or one retry, is
  served by one process (`JobFits`), which alone may execute its members and has executed
  only those it started (`CallsFit`); a retry rests on its plan and a plan on how the rollout
  ended (`PlanFits`); members are started in order (`RolloutFits`); and a publication nobody
  disturbed is where the rollout or the retry left it (`Undisturbed`), which is what the
  recorded results are compared with.
- `RolloutStands`: a retry starts from the publications its plan was derived from, and
  terminal states stay.
- `ChangeSetsHold`: all of it for the composition `ChangeSets`, since a step of one half
  leaves the variables of the other alone (`ChangeSetsInterleave`).

`RequestsProofs` (from the assumptions of the components of `MCRequests`: bounds are natural
numbers, reserved names are not used as names, and a session lasts).  A behaviour of
`RequestsSpec` is one of each of its components (`PartsStandAlone`), so each is proved of its
own specification:

- `RecoverySound`: `RebaseInv` orders the replays (one is admitted when all before it are
  blocked), says which calls, claims and callers each status of a review admits
  (`ReviewFits`), and that of the reviews of one replay only one is active, approved or has
  called (`OneReview`).  `RecoveredOnce` then needs that verdicts on replays stand while two
  executions overlap a lease.
- `DraftTrusted`: each stage of an attempt has behind it what `StagesAreReached` says, up to
  the inspection that decides what the draft holds.
- `SessionsEarned`: a login is spent while its callbacks wait for GitHub (`LoginsAreSpent`:
  its state is gone and no other callback waits for it), and what a session lasts is counted
  from a clock read before GitHub answered (`MembershipIsSeen`).
- `DeliveriesApplied`: what a delivery is due for is looked up or on the list of each of its
  handlers (`DueIsDone`), also of those that serve a duplicate with other content.
- `CommentsAccounted`: posted comments are bounded by counting executions.  `OverlapsFit`
  says that each execution but the one holding the lease outlived its lease or was blocked,
  and counts the executions about to post with the comments; `AloneFits` is what an
  execution on its own may rely on about the labels.
- `CredentialsKept`: short of a mishap the lock is held by whoever is between its read and
  its write (`HoldersLock`), whose copy is the file (`CopiesFit`), and no token is in two
  places (`TokensApart`).
- `IntakeSound`: `IntakeInv` says, of a conversation, that its version counts its turns and
  one revision at a time is under way (`ReadsInv`); of a snapshot, that all triages but one
  were blocked before their call (`TriagesInv`) and that admission and live corrections
  exclude each other (`WorkInv`); of a run, that its admission is the only one with that key
  (`RunsInv`); and of every call that it is awaited or lost (`CallsInv`).
- `EnrollmentSound`: a request expects a version that there was and has read GitHub since
  (`RequestsFit`); a check captured enabled versions (`ChecksFit`), and those its batch is
  recorded under have the contract it captured (`ObservedFit`).
- `ActivityCompleted`: `StreamIsComplete` speaks of what the page shows and not of the answer
  on its way, so it says nothing of what a poll adds.  `ActivityInv` adds what the answer is
  (`ReplyFits`: rows of the run beyond the last one seen, and with a row every earlier one of
  them), that nothing is stored or queued of a review before there is one (`ReviewsBegun`: the
  review joins the stream later, and a row behind the page would never be shown), and that a
  queue holds what its own process emitted (`QueuesFit`).  With `StoredWithoutGap` a log that
  grows at its end leaves what was read of it as it was (`LogGrows`).
- `AssemblyTrusted`: `StackIsWhole` speaks of assembled and resolved results; the ones between
  them decide what the last one may be.  `AssemblyInv` says that a planned stack is one of
  `Stack(deps)` from evidence without a blocker (`Planned`), which result may follow which
  (`InTurn`), and of each of the four results that it applied a prefix of the stack, and all of
  it when it is not blocked (`ResultsSound`).  What the stack holds is a statement about the
  graph: the layers give an order in which nothing precedes what it waits for (`PrecedesFits`),
  the needed tasks are the least closed set (`NeededFits`), and a stack is an enumeration of
  them in that order (`StackFits`).
- `OneStack`: the models say of a sorted sequence what it is and not how it is computed, which
  would hide an action that can never be taken, or one that may take a wrong order.  For every
  plan there is one stack; so is there one list of the rows of an answer (`OnePaint`).
- `RecordsFinal`: the action properties, from the same invariants.  The call of the conflict
  agent sees the recorded conflict because a replay that passed is of it (`CallSeesIt`).

Every safety invariant and action property a passing run checks is stated by a theorem.
Model-checked only, and why:

- The scopes of a plan: their disjointness is what the run `scopes_overlap` shows violated.
- Everything under fairness: liveness is out of the prover's reach.

## Where code and documents disagree

Two runs show one each:

- `cancelled_run_returns`: an attempt that settles after a cancellation overwrites the
  "terminal" cancelled status of its run (`ledger.ts:386`, `docs/architecture.md:161`).
- `scopes_overlap`: two independent tasks may own one path, when the nested directory is
  declared before the one around it (`work-plan-contracts.ts:77`,
  `docs/architecture.md:101`).

Met while modelling, and kept in the models as the code has them:

- A claim's lease is two hours, "one hour beyond the maximum supported provider timeout"
  (`docs/fleet-operations.md:17`), but one review holds one claim over up to four
  hour-long steps; its slots can be recovered while it runs.
- A gate that rewrites the worktree changes the patch after the approving verdict, and the
  approval is recorded for the rewritten patch (`review-service.ts:190`,
  `docs/operator-board.md:142`).  `ApprovedPatchWasReviewed` says what does hold.
- A refresh that read an open pull request writes its check status over a merge
  another refresh recorded (`publication-service.ts:470`, `docs/operator-board.md:89`);
  `MergeIsNoticed` shows that later refreshes repair it.
- Archiving and restoring a run moves its version, and the retry the board then offers
  for a failed publication is refused for good (`publication-service.ts:402`,
  `docs/operator-board.md:85`).
- A call whose claim was recovered as ambiguous can never settle, since its settlement
  releases an active claim or throws (`integration-invocation-store.ts:329` and `:387`,
  `integration-conflict-agent-invocation-store.ts:295` and `:347`,
  `multi-worker-budget-store.ts:269`; `docs/architecture.md:147`).
- A change of a worktree that a gate inspection noticed, and that is undone before the
  last inspection, leaves the compatibility execution running for good: the service
  reports no change and the store refuses that (`multi-repository-compatibility-execution-service.ts:104`,
  `docs/architecture.md:71`).
- A settled publication retry becomes unreadable when a refresh later moves one of its
  publications (`multi-repository-publication-recovery-execution-store.ts:70`,
  `docs/architecture.md:79`).
- The claim of a fresh review's one call asks for the running row only, not for its lease
  (`publication-rebase-review-service.ts:197`, `README.md:178`), and the reason of a
  blocked replay is rewritten by an execution that outlived its lease
  (`publication-rebase-service.ts:391`).
- A repository disabled and enrolled again with the same policy during a drift check is
  recorded under a version nobody inspected (`app.ts:256`, `README.md:25`).
- An empty patch passes the direct assembly and is refused after the conflict agent's call
  (`integration-conflict-agent-orchestration-service.ts:178`, `docs/architecture.md:107`).
- The activity page of a finished run stops at the first empty answer, before a refused
  batch is written (`ui/client/live.ts:161`, `README.md:77`).
- An archived blocked run can be overridden and executed while hidden (`ledger.ts:483`); a
  review whose process stopped leaves a succeeded run that no command applies to
  (`ledger.ts:413`).

## What is not modelled

- Pure functions of stored state: board, review, fleet and multi-worker views; which
  fields of a contract drift counts.
- The HTTP routes and pages: routes forward to the services with the version the page
  saw; only the activity page keeps state that can be wrong, and it is modelled.
- Network and models: GitHub App tokens, issue reads, triage and worker prompts.  In every
  model a request may fail, be lost, or be answered in any way its schema admits.
- Worktree contents beyond patches as values and sets of paths; the three-way merge is
  taken from Git as an outcome per patch.
- The mirrored pull-request state a refresh also stores: no decision reads it.
- Ownership: all rows belong to one principal; the bearer check and the start-up
  migration of a legacy owner.
- Retention of observations and telemetry exporters: nothing reads what they delete or send.

## Plan

1. The composition of `LinkedPublication` with `DraftPublication` over one record, in place of
   the reduction to status and attempts.
2. `JobLedger` with `Intake` and `ChangeSet` as its callers, in place of the runs each of them
   keeps for itself.
