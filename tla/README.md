# TLA+ models of the AgentSmith sandbox control plane

The control plane (ASBCP) is one Go service, `src/manager-service`. AgentSmith,
its only client, asks it to attach AFSCP storage to Kubernetes (workspace
bindings) and to run Pods on that storage (workloads). Its durable state is
small: Pods, PersistentVolumes, claims and two kinds of ConfigMap "facts". The
hard part is not computing anything. It is taking a workload or a binding down
in the right order, over three systems that share no transaction (AFSCP,
Kubernetes, the facts), when every call may fail, every answer may be lost, the
process may die between two calls, and requests for the same object overlap.

These modules model that, call by call. TLC checks them on small instances, and
TLAPS proves the results that do not depend on the size of the instance.

## 1. Inventory

| Part | Source (`src/manager-service/internal/`) | State | Operations |
|---|---|---|---|
| Workload handler | `workload/handler.go` | none of its own but the lock map | PUT, GET, DELETE, keepalive, exec, mount resolution |
| Delete locks | `workload/handler.go:72-142` | map scope -> (mutex, refs) | `lock`, the unlock closure |
| Workload facts | `workloadfacts/` | one ConfigMap per workload | Get, Save (Get, then Create or Update on the resource version), ListByBinding |
| Binding handler | `workspacebinding/handler.go` | none of its own | PUT (ensure), GET, DELETE |
| Release facts | `workspacebinding/release_fact.go` | one ConfigMap per binding | Get, Save |
| Kubernetes client | `k8s/` | Pods, PVs, PVCs (in the cluster) | create, replace, delete, patch activity, exec |
| AFSCP client | `afscp/client.go` | mount status, idempotency keys (in AFSCP) | fetch plan, release, report status; polls an operation to its end |
| Retry, poller | `retry/`, `observability/context.go` | none | retry with backoff, poll until a deadline |
| Metrics | `observability/metrics.go` | counters and histograms | Observe, render |
| Assembly | `app/`, `auth/`, `config/`, `ratelimit/`, `httperror/` | configuration, a token bucket | start-up, routing, middleware |
| Operator tooling | `src/scripts`, `src/tools`, `src/sbx`, `src/k8s` | none at run time | release, smoke tests, manifests |

How they interact. A workload PUT reads the claim, the volume and the AFSCP plan
of its binding (mount resolution), creates a Pod and saves an open terminal
fact. A workload DELETE takes the delete lock of its process, flushes the
storage from inside the Pod, has AFSCP release the mount, deletes the Pod,
waits for it to be gone, reports the released status and saves what it has done
after each step. A binding PUT writes the volume and the claim. A binding DELETE
refuses while any workload of the binding has an open fact or a Pod, saves a
release fact with the mount reference, deletes claim and volume, waits for
them, reports the released status and saves again. There are no background
loops: what a request leaves undone stays undone until the client retries.

What is hard, and what makes each part correct:

- **Workload lifecycle.** Steps of overlapping PUTs and DELETEs interleave, the
  fact read at the start is saved much later, a retry starts from whatever the
  last attempt recorded. Correct means: a fact never claims what has not
  happened; AFSCP confirms the release before compute is removed, and hears
  "released" only once that Pod is gone; what the Pod wrote before a DELETE is on
  storage when that DELETE releases the mount; a 200 means closed; a retried
  DELETE finishes.
- **Exec.** The end of a command, its deadline and the stream race each other,
  and a result comes back in every case. Correct means: neither the flush barrier
  nor a caller takes a command for done that is not.
- **Delete locks.** The map entry is removed by the last user while others may
  be about to take it. Correct means: one holder per workload, no entry leaked.
- **Binding lifecycle.** No lock at all. Correct means: the reference AFSCP needs
  is never lost, "released" is reported only when storage is gone and unused,
  and always with the same `observed_at`, since the idempotency key is fixed.
- **AFSCP client and poller.** A timeout may race the completion of the
  operation, and the next call under the same idempotency key meets whatever
  became of it. Correct means: what a call says is true, "pending" is not said
  of an operation that was over before the call began, every call returns.
- **Keepalive.** Expiry is read, computed and patched in separate calls, with a
  heartbeat to AFSCP in between. Correct means: expiry never passes the maximum
  lifetime nor what AFSCP was told of, and goes back only where one keepalive
  overtook another.

`PROJECT.json` lists every hazard at its line with the properties that cover it.

## 2. Modules

| Module | Models | Extends or uses |
|---|---|---|
| `KeyedMutex` | abstract: one mutex per workload | |
| `DeleteLocks` | the reference-counted map of mutexes | implements `KeyedMutex` |
| `MountRelease` | abstract: a Pod's mount is released, the Pod goes, AFSCP is told, in that order | |
| `WorkloadLifecycle` | PUT and DELETE of one workload, Kubernetes, AFSCP, crashes | implements `MountRelease`, and `KeyedMutex` by its lock |
| `PodExec` | `Executor.Exec` and what its two callers make of its result | |
| `WorkloadSession` | the life cycle composed with the Pod's writes to its mount and the sync command of the flush barrier | `WorkloadLifecycle`, `PodExec` |
| `ExecRequest` | POST exec | `PodExec` |
| `BindingRelease` | abstract: the reference is recorded, storage goes, AFSCP is told once, the fact is done | |
| `WorkspaceBinding` | ensure and DELETE of one binding, composed with the workloads on it | implements `BindingRelease` |
| `WorkloadExpiry` | a Pod's expiry: PUT, keepalives with heartbeat and retried patch, Pods that go and come back | |
| `AfscpCall` | abstract: one call about an operation that is settled once | |
| `AfscpOperation` | `confirmedMutation`: request, poll, timeout, ask again, against AFSCP | implements `AfscpCall` |
| `*_proofs` | theorems of the module they extend | TLAPS |
| `WorkloadSerial_proofs` | what the life cycle and the session keep while PUTs run alone and settle | `WorkloadSession_proofs` |
| `MC*` | instances for TLC | |

### DeleteLocks

A thread is a request. `Register` is the block under the map's mutex in
`lock()` (lines 118-130): it finds or allocates the entry and counts the user.
`Acquire` is `entry.mu.Lock()`. `Unlock` and `Unregister` are the two halves of
the returned closure, between which others may run. Entries are an explicit
pool, so that "two different mutexes for one workload" is a state that can be
written down; an entry that nobody points to is free to be allocated again,
which is what the garbage collector does. `KeyedMutex` has only `Enter` and
`Leave`. The refinement maps a thread inside the critical section to the holder
of its key. `WorkloadLifecycle` models the lock as a variable `holder`, and its
handlers use it as `KeyedMutex` says: `ImplementsDeleteMutex` maps the request
that is past `Lock` and has not answered to the holder of its process's mutex.
The two refinements meet in that abstract module.

### WorkloadLifecycle

`pc[r]` names the next call of request `r`; `mem`, `seen`, `synced` and `base`
are the handler's local variables, and they go stale like those of the code. A
step is one call and the local computation up to the next: `SaveGet` and
`SaveWrite` are the two calls of `ConfigMapStore.Save`, so that the
compare-and-swap on the resource version can lose. `StageAt` is the chain of
`if`s that makes a retry resume: flush, release, remove, wait, status, each
skipped when the fact says it is done. A call may `Fail` without effect, take
effect with its answer lost (`LostAnswer`, which also covers an operation that
was still pending when the client gave up), and a process may `Crash` and lose
every request it serves together with its locks. `PodStarts`, `PodExits`,
`PodGone` and `PodEvicted` are Kubernetes'. `AwaitPodGone` is the whole bounded
poll: it sees the name free, or gives up with an error while a Pod has it, the
deleted one or a newer one of another PUT. Uids and timestamps are numbers
handed out in order. The mutants of an action stand before it.

`Flush` is abstract here: it succeeds while the main container runs, or fails.

The idempotency keys of the two AFSCP mutations are modelled by what they tell
apart. `factLifecycleIdempotencyKey` puts the Pod's uid last and
`sanitizeIdempotencyKey` keeps 180 bytes, so with long ids nothing of the uid is
left; the scope, the binding and the Pod's name are the same for every Pod of the
workload, so that all of them then share one key. `KeyedByUid` names the mutations
whose key reaches enough of the uid to tell two Pods apart, `SameKey` says which
uids share a key, and AFSCP does what it does once per key: `ReleaseMount`
confirms a release it has carried out to whoever asks under the same key, and a
status with another `observed_at` is refused (`StatusConflict`, answered 502). The
two keys differ in length, so each is named on its own. "All or nothing" of the uid
is the abstraction: a key that keeps a few of its characters tells two Pods apart
or not, by chance. The status key of a binding ends in a hash of all its parts
(`workloadfacts.ObjectName`), so nothing of it is lost.

Not modelled here: body validation and scope-mismatch answers, the mode without
an AFSCP client, the comparison of Pod specs (drift is a choice of
`ReuseExisting`), and a workload that moves to another binding.

### PodExec, WorkloadSession and ExecRequest

`PodExec` has no state. `Exec(how, late)` is the table `Executor.Exec` computes
from the end the stream showed (`Endings`) and from whether the deadline had
passed when it returned: the deadline is looked at first, and a late result
keeps the exit code 0 it was made with, next to an error. `FlushWorkloadMount`
looks at the error and then at the code; `ExecResponse`, of `handleExec`, looks
at the code alone.

`WorkloadSession` has every step of `WorkloadLifecycle` and two variables more:
`unsynced`, whether the live Pod's mount holds writes that no sync has covered,
and the history variable `owed[r]`, whether such writes were there when the
DELETE of `r` began and are neither synced nor gone with their Pod. `Write` may
happen whenever the container runs, also while the Pod terminates and between
the barrier and the release. `SyncEnds` takes the place of the abstract `Flush`:
the sync command ends in any way `PodExec` knows, late or not, and the handler
goes on or answers 500 as `FlushWorkloadMount` says; a sync that ended well did
its work even when it is reported as timed out. `WritesAreSynced` is then about
the whole chain: stages, retries that resume after a release, Pods that start
late, and the sync's own end.

`ExecRequest` is `handleExec`, with the command, its deadline and the container
moving on their own.

### WorkspaceBinding

Same style: `pc`, `mem` per request and one step per call. The state is the
volume (`none`, `free`, `claimed`), the claim, which of them is being deleted,
the release fact, and AFSCP's accepted `observed_at` (`accepted`; 0 before).
Kubernetes binds, protects (a claim in use by a scheduled Pod stays, a volume
with a bound claim stays) and finishes deletions. `EnsurePV` replaces the object
and so drops its `claimRef` and its finalizers, as the code's `Update` does.

Workloads appear as the binding sees them: `CheckMount` (what mount resolution
reads), `CreatePod`, `RecordWorkload`, and a DELETE in three steps (`TrackPod`,
`StopPod`, `CloseFact`). `AbandonPut` is a workload PUT that dies halfway.

`BindingRelease` is what AFSCP and the stored fact see of all this. It says
nothing of how many handlers run or which copies they hold: a fact may be
recorded again with another `observed_at`, but storage does not vanish before
one is recorded, AFSCP is told once, and the fact is done only with what AFSCP
was told.

Three abstractions to know about:

- `Save` of the release fact is one atomic write. In the code it is Get and then
  Create or Update; the write replaces the object whatever it says, or loses the
  race on the resource version and fails, which `Fail` stands for.
- `PlanAvailable`: AFSCP gives out plans for active mount bindings, so neither
  an ensure nor a workload PUT gets one after the released status. AFSCP is not
  in the repository; this is how `src/` uses it. Were it otherwise, the stored
  release fact, which no ensure resets, would end the next DELETE early.
- Timestamps are all different. The code formats `observed_at` to whole seconds,
  so the race of `binding_race` needs its two requests to read the clock on two
  sides of a second.

### WorkloadExpiry

One workload name; `pod` holds the annotations expiry is computed from. A
keepalive is `Look` (lookup, clock and computation), `Heartbeat` and `Patch`, and
what it computed at the first is written at the last, to whichever Pod has the
name then: that is `PatchActivity`, a patch by name. `TryAgain` is
`retry.Retry`'s bookkeeping; its pauses have no length here. AFSCP takes a
heartbeat in once per idempotency key, and the key holds the request id, which
the caller may choose (`X-Request-ID`); `ReuseIds` says whether callers repeat
one. This key is cut at 180 bytes as well, and the Pod's name may take 63 of
them: ids that agree in what is kept (97 bytes at least) count as one id. `last` is history: for which Pod the expiry in the annotation was computed,
and from which reading of the clock. The properties are about expiries computed
for the Pod that has them (`OwnExpiry`), because nothing in the repository
promises more: a keepalive that outlives its Pod patches the next one.

### AfscpOperation

A caller is a handler's call into the client; all callers share one idempotency
key, as the retries of one DELETE and overlapping DELETEs do. AFSCP holds the
key's operation, starts it with the first request and settles it whenever it
likes, also for a request (`strays`) whose sender gave up. The states of an
operation are three classes, those of `operationSucceeded`, `operationPending`
and `operationFailed`. An error answer (`Refusals`) may carry the state or hide
it, and its code may or may not read like "not yet"; the one thing assumed is
that AFSCP does not say "not yet" of an operation that has succeeded, or of one
that has failed while it hides the failure. `ErrorVerdict` is what
`afscpErrorFromResponse` makes of it. `Expire` is the wait timeout or the end
of the handler's own context, wherever it strikes; the answer then depends on
the last envelope received. The refinement shows a caller one operation and one
answer, which is what the `Release` and `ReportReleased` steps of the other
modules take the client for.

## 3. What the runs check

Each run asks one question. The constants that say which requests overlap and
which faults happen are the environment of that question and are named in the
`.cfg`.

| Run | Question | Answer |
|---|---|---|
| `delete_locks` | Is the lock map one mutex per workload, without leaks or starvation? | yes |
| `workload_serial` | One process; PUTs run alone and complete; DELETEs overlap, fail, crash, are retried. Is anything skipped, undone or left open? | no |
| `workload_overlap` | Two processes, everything overlaps, anything fails, the Pod writes meanwhile. What still holds? | earlier writes are synced before a release or a removal; facts are backed by what happened; releases stay in order |
| `exec_timeout` | Does an exec answered with exit code 0 mean the command did exit with 0? | no (finding) |
| `put_crash` | Does a PUT cut off over a terminal fact leave a Pod that can be removed? | no (finding) |
| `completed_pod` | Can a Pod whose main container ended be deleted? | no (finding) |
| `binding_serial` | Binding requests one after the other. Do retried DELETEs close the binding, in order, with one `observed_at`? | yes |
| `binding_overlap` | Binding requests and workload PUTs overlap freely. What still holds? | the mount reference is never lost; the binding's release happens in order and once |
| `binding_race` | Can two first DELETEs of a binding still be finished? | no (finding) |
| `binding_toctou` | Does a binding DELETE answered 200 leave no workload? | no (finding) |
| `expiry` | Keepalives overtake each other, fail, retry, meet a newer Pod. Is expiry capped, covered by a heartbeat, and moved back only by an overtaken keepalive? | yes |
| `afscp_operation` | Calls under one key time out, retry and overlap while AFSCP works in its own time. Do they return, and is what they say true? | yes |

The serial runs state what the integration contract lets the client rely on:
AgentSmith sends the lifecycle requests of one object one after the other and
repeats a DELETE until it is answered. The overlap runs drop that discipline,
since nothing in the code enforces it: the delete lock excludes DELETEs from
each other but not PUTs, it lives in one process while production runs three
replicas, and the binding handler takes none. Fewer properties survive there;
the proofs say for each property which discipline it needs.

**Bounds.** Two request slots suffice for every race found so far, since each
concerns two requests; a slot serves any number of requests one after another,
so retries are not bounded. `MaxPuts` (`MaxEnsures`, `MaxCreates`) = 2 gives a
second Pod (a second incarnation of the storage) after or beside the first,
which the stale-fact hazards need. `MaxFaults` = 2 lets a retry of a failed
attempt fail as well, at another place; `workload_serial` has 3. `delete_locks` has three threads over two
keys, with three entries to allocate: one inside, one waiting, one arriving.
In `expiry`, two
keepalives over two Pods of one name with three instants after the first give one
that overtakes and one that outlives its Pod; idle timeouts of 1 and 2 with a
lifetime of 2 put the cap on both sides. `MaxAttempts` = 3 is the code's own. In
`afscp_operation` two callers, one request left behind and two faults let a
second caller meet an operation that it did not see begin, and an old request
arrive after everyone gave up.
No safety property depends on these bounds, as all of them are proved for every
value of the constants.

**Fairness.** Handlers run to their next call: every call has a timeout, and
nothing waits for another request but the delete lock, whose holder runs on.
The end of a sync command belongs to its DELETE's steps: it comes, at the latest
with the deadline, and a barrier that fails uses up a fault unless the container
is not running.
Kubernetes finishes deletions that nothing holds up. The client repeats a DELETE
that was not answered 200 (`src/docs/contracts/operations-and-errors.md:3`, and
the retry rule of the integration contract). Faults are finite. Nothing obliges
anyone to PUT, ensure, start or evict a Pod. The binding's DELETE has strong
fairness because a client that keeps a workload PUT and a binding DELETE apart
may find the moment to send one come and go. Lock acquisition in `DeleteLocks`
has strong fairness, which is the starvation mode of Go's `sync.Mutex`.

In `AfscpOperation`, timers fire and a caller whose call was not confirmed calls
again; `Handle` and `Receive` have strong fairness, which says that of calls
repeated for ever some are answered before their timeout. `CallReturns` needs
only the timers. Nothing obliges AFSCP to settle an operation, so
`EventuallyKnown` starts from one that is settled. In `WorkloadExpiry` only the
handlers' steps are fair: clocks, Pods and clients may stop.

`ReuseIds = FALSE` in `expiry`: with a repeated request id AFSCP answers the
second heartbeat from memory while the expiry moves on, and `LeaseCoversExpiry`
is false. The code leaves that choice to the caller, and no document speaks of it.

`ReuseWorkload = FALSE` in `binding_serial`: there a workload's PUT neither runs
beside nor follows its DELETE. With reuse, a PUT that dies over a terminal fact
leaves a Pod that no workload DELETE removes, so that no binding DELETE gets past
its check either. That is the finding of `put_crash`, not one about bindings. The
overlap run has no such restriction.

`workload_serial` makes the PUTs reliable (`FaultyOps = {"delete"}`) and the main
container stay up (`MainMayExit = FALSE`) for the same reason: `put_crash` and
`completed_pod` show what happens otherwise.

`KeyedByUid = {"release", "status"}` in every workload run: the ids are short enough
for both keys to reach the Pod's uid. With keys that do not reach it,
`NoStatusConflict` (without `"status"`) and `ReleaseBeforeRemoval` (without
`"release"`) are false as soon as a workload has a second Pod, PUTs alone and no
fault; section 5 says what a client then sees.

## 4. What is proved

All of these hold for every value of the constants, that is for any number of
requests, processes, scopes or workloads and any bounds on faults. The first
group needs no more than the named `ASSUME`s of the modules, which type the
constants, so it holds whatever overlaps; the second names in each statement the
discipline it relies on. Theorems about what AFSCP is told per Pod of a workload
name a further hypothesis: *ReleasesInOrder* (of `MountRelease`),
*SessionReleasesInOrder* and *ReleasesComeFirst* that the release key reaches the
Pod's uid (`"release" \in KeyedByUid`), *StatusNeverConflicts* that the status key
does, *SessionIsSerial* both. The inductive invariants hold without: `FactBacked`
says that AFSCP confirmed a release under the fact's key, whatever that key keeps.
Every invariant and every action property that a
passing run checks is stated by a theorem, and so are the five refinements.

**Whatever overlaps.**

- `DeleteLocks_proofs`. *DeleteSerialized*: at most one DELETE of a process is
  inside a workload's section. *ReferenceCount*: `refs` is the number of users.
  *NoOrphans*: whoever holds or waits for a mutex does so on the one in the map.
  *NoEntryLeak*. *TypeCorrect*. *LocksImplementMutex*: the map implements `KeyedMutex`. The
  inductive invariant ties the map, the entries' counters and the threads'
  pointers together: every thread between `Register` and `Unregister` points to
  the entry in the map under its own key, and that entry counts exactly those
  threads. Without it, "the last user deletes the entry" cannot be related to
  "nobody else points to it".
- `WorkloadLifecycle_proofs`. *TypeCorrect*, *FactsAreBacked*, and
  *ReleasesInOrder* (the refinement of `MountRelease`), from the inductive
  invariant `FactInv` (*Invariance*). `FactBacked` alone is not inductive,
  because handlers save copies they read long ago. `FactInv` adds that every
  copy in every request's memory is itself backed, that a DELETE past its look
  at the Pod knows which Pod it closes, and that a request about to report has
  seen the release confirmed and the Pod gone. What makes it work is that facts
  are about a uid and that uids, releases and deletions are never taken back: a
  stale copy claims less, never more. *DeletesExclude*: the DELETEs of one process
  exclude each other, from `SectionInv` (*SectionInvariance*): the lock is held by
  exactly those that are past it, through every early return, failure and crash.
- `WorkloadSession_proofs`. *SessionIsLifecycle*: every session is a run of the
  life cycle, because each step is one of its steps or a `Write`, so that
  *SessionFactsAreBacked*, *SessionReleasesInOrder* and *SessionDeletesExclude*
  follow at once.
  *SessionTypes* and *WritesReachStorage* come from `SyncInv`
  (*SessionInvariance*): a DELETE that owes a sync read its Pod after that Pod had
  started (the writes were there before it looked), a Pod that has started does
  not become Pending again, and the flush flag is set only where nothing is owed
  any more. Two facts about the stages complete it: a fact marked deleted is also
  marked released, so no stage skips the look at a Pod that still writes, and the
  barrier lets pass only a sync that ended with 0 in time.
- `WorkspaceBinding_proofs`. *TypeCorrect*, *ReferenceKept*, *DoneMeansAccepted*
  and *ReleasesInOrder* (the refinement of `BindingRelease`), from `ReleaseInv`
  (*Invariance*): deletion of storage is set going, and AFSCP told, only by a
  request that has stored the release fact before. The refinement is what
  overlapping handlers keep.
- `WorkloadExpiry_proofs`. *TypeCorrect*, *LifetimeCaps* and *OvertakenOnly*, from
  `ExpiryInv` (*ExpiryIsComputed*): every expiry, stored or in a keepalive's
  memory, is the idle timeout after a reading of the clock, capped, whichever
  keepalive patches it and however often. *LeaseCovers*, from `LeaseInv`, adds
  that no two keepalives share a key, so that the heartbeat that precedes a patch
  was taken in; it assumes `~ReuseIds`.
- `AfscpOperation_proofs`. *TypeCorrect*, *VerdictsAreTrue*, *PendingsAreCurrent*
  and *PollingIsOneCall* (the refinement of `AfscpCall`), from `AnswerInv`
  (*Invariance*): an answer on its way to a caller is still true of the operation
  when it gets there, because a settled operation stays as it is, and a call that
  began after the operation was settled has no pending envelope to fall back on.

**When the client keeps its side.** The integration contract has AgentSmith send
the lifecycle requests of one object one after the other. These theorems say
what that buys; failures, lost answers and crashes stay as they are.

- `WorkloadSerial_proofs`, first half, assumes `PutsAlone`, a PUT runs beside no
  other request of its workload, and `PutsSettle`, no PUT ends with a Pod in the
  cluster that the stored fact does not name. A PUT may fail wherever it likes as
  long as its rollback removes the Pod; what breaks `PutsSettle` is a crash
  between create and save (over a terminal fact that is finding 2, `put_crash`), a
  rollback that fails too, or a create whose answer is lost. *CompletePutsSettle*: PUTs whose
  calls do not fail (`PutsComplete`) settle. There may be any number of
  processes, and their DELETEs overlap and die as they like. *LivePodsAreTracked*,
  *ReleasesComeFirst* and *StatusNeverConflicts* come from `SerialInv`
  (*SerialInvariance*). Its core is `DeleteTurn`: every DELETE that has read the
  fact holds a copy with the uid and the `observed_at` of the stored one. That is
  inductive because no DELETE makes a fact while a live Pod is tracked
  (`Tracked`), and the only writer of another uid, a PUT, waits until nobody holds
  a copy. `Tracked` is broken inside a PUT, between create and save and again
  until a rollback, so `SerialInv` asks it only when no PUT runs. `ReportsAgree`
  ties what AFSCP was told to the stored fact, and `PutTurn` says that the Pod of
  a PUT about to save is one AFSCP has not heard of, so a fresh `observed_at` is
  fresh for AFSCP too. So different processes may repeat each other's work but
  send the same thing.
- Its second half adds `[]OneInside`: one DELETE at a time is past the lock,
  whichever process it is in. *DeletedIsClosed* and *DeletesNeverRegress* come
  from `LockedInv` (*LockedInvariance*): a DELETE past the lock has a copy that
  says all the stored fact says (`LockTurn`), because nobody else writes between
  its load and its saves. *OneServerIsEnough*: with one process (`OneServer`) the
  delete lock sees to it, however many DELETEs overlap; with several it is the
  client that must not send a DELETE while another is running. *SessionIsSerial*
  and *SessionIsLocked* carry both halves over to the session, which is what
  `workload_serial` checks.
- `WorkspaceBinding_proofs`, second half. *NoConflicts* and *DeletedIsReleased*
  assume `~OverlapBinding`, the requests of a binding come one after the other.
  `SerialInv` (*SerialInvariance*) says that one request is in flight, that past
  its load its copy is the stored fact up to the flag it is about to save, and
  that what it saw gone is gone until it answers; a fact is made only where there
  is none, so no second `observed_at` ever exists. *ReleasedIsGone* assumes
  `~OverlapWorkload` as well, no workload PUT beside the DELETE: `UnusedInv`
  (*UnusedInvariance*) says that past its list of Pods none is left. `ReuseWorkload`
  plays no part: a workload PUT that died, or came back, is seen among the Pods.

The assumptions are needed. TLC finds a counterexample to *DeletedMeansClosed*
and to *DeleteNeverRegresses* with PUTs alone and two processes; to each of
*LivePodIsTracked*, *ReleaseBeforeRemoval* and *NoStatusConflict* both when a PUT
overlaps with nothing failing and when a PUT runs alone and fails without its
rollback (for *NoStatusConflict* with two processes); and to each of the binding's serial properties when two requests
overlap, two of them as in `binding_race` and `binding_toctou`.
Production runs three replicas, where a client that gives up on a DELETE and
sends the next while the first still runs is outside `OneInside`.

**Only model-checked.** Liveness (`EventuallyInside`, `EventuallyRemoved`,
`EventuallyClosed`, `EventuallyReleased`, `KeepaliveAnswered`, `CallReturns`,
`EventuallyKnown`): it needs fairness and ENABLED, which the prover does not
handle. And of course that the violations are reachable: a counterexample is a
matter for TLC.

## 5. Findings

Each violation run checks one property that a document or a test of the
repository states; `PROJECT.json` quotes the line.

1. `exec_timeout`. `Exec` returns a result also when the deadline has passed, with
   the exit code 0 it was made with; `handleExec` answers 500 only without a
   result. A command that timed out, or was never started because the stream
   hung, is answered 200 with `exit_code` 0. The executor's own test expects -1.
   The flush barrier is not misled, since it looks at the error first.
2. `put_crash`. The process dies between `Pods.Create` and the Save of the new
   fact, over the terminal fact of the previous Pod. Every later DELETE answers
   409 and changes nothing.
3. `completed_pod`. With `restartPolicy: Never`, a Pod whose main container has
   ended still needs a flush, which needs an exec into that container. No DELETE
   gets past it.
4. `binding_race`. Two DELETEs both find no release fact and both save one. The
   one whose `observed_at` AFSCP accepted first need not be the one that stays
   stored; from then on every retry answers 502.
5. `binding_toctou`. A workload PUT that passed its mount check creates its Pod
   after the binding DELETE listed the workloads; the DELETE answers 200 and the
   Pod is left over.

In `ReleasedMeansGone`, "no Pod uses the storage" is about Pods and PUTs under way
and not about open workload facts: a DELETE lists the facts first and the Pods
second, so that a workload DELETE running in between may have its Pod gone and its
fact not yet closed when AFSCP hears of the binding.

Four more things the models show, without a run of their own:

- Two concurrent PUTs of one workload: the compare-and-swap of the fact makes one
  of them answer 500, and if it is the one that created the Pod it also deletes
  it, after the other has answered 200
  (`src/manager-service/e2e/concurrency_test.go:79-81` expects no 5xx). In
  `workload_overlap` it is `PutWrite` with a stale base followed by `Rollback`.
- Pods are deleted by name: when a PUT overlaps a DELETE, `ReleaseBeforeRemoval`
  does not hold, for the Pod that is removed may be newer than the one released.
  Across replicas, and with PUTs that run alone and settle, it does hold, as do
  `LivePodIsTracked` and `NoStatusConflict`; `DeletedMeansClosed` and
  `DeleteNeverRegresses` do not: one replica saves a copy from before the other's
  progress, and a retry repeats the work.
- The AFSCP keys put the Pod's uid last and are cut at 180 bytes
  (`internal/workload/handler.go:1761-1763`, `1837-1838`). With four ids of 36 characters
  `workload-status-released-` and the ids fill 173, and no byte of the uid is left.
  A workload that is deleted and created again (`src/manager-service/e2e/workspace_test.go:127` does)
  reports its second Pod under the key of the first with another `observed_at`;
  AFSCP refuses that, and every retry of the DELETE answers 502. (Its release,
  under a key that is cut as well, is answered from the operation of the first
  Pod.) With `KeyedByUid = {}`, `MaxPuts = 2`, no fault and no overlap,
  `EventuallyClosed` fails in `MCWorkloadLifecycle`; with both keys it holds. The
  unit test of the key has short ids and finds the uid in it
  (`src/manager-service/internal/workload/handler_k8s_test.go:2169`: `assert.Contains(t, firstKey, "uid-1")`).
- A main container that starts between the DELETE's read of the Pod and its
  release is not flushed, since whether to flush is decided on the Pod as it was
  read. `WritesAreSynced` is about what was written before the DELETE began.

## 6. Not modelled

- GET of workloads and bindings: they read one object and render it.
- Body validation, scope-mismatch answers and error wording, and the mode without
  an AFSCP client: each ends a request before its first call, or removes calls.
- The contents of Pods, PVs, PVCs and plans and their field-by-field comparison:
  the models take the verdict (drift, not ready) as a choice, which is more than
  the code can do. Object names are slugs with a hash of the length-prefixed
  scope; two scopes are taken to have different names.
- The bytes an exec streams, and what the workload does besides writing.
- A composition of keepalive and DELETE. The two share nothing but the Pod they
  look up, and nothing orders a heartbeat against a release; every statement
  about the pair would be one about AFSCP.
- Metrics: counters behind a mutex each. Reading `observability/metrics.go` shows
  that `Observe` (98-110) adds to every larger bucket and `Handler` (167-267) sums
  the buckets again; that is sequential, and a unit test reaches it.
- The rate limiter (the token bucket of `golang.org/x/time/rate`), start-up,
  routing, authentication and configuration (read once), logging, and operator
  tooling.

## 7. Plan

Done: the five components with their abstract specifications and proofs, the
session with the flush barrier, exec, and the binding's abstract specification.

What would add most next:

1. Plan drift: an ensure and a workload PUT each fetch the AFSCP plan at another
   moment than the one the PV was made from.
2. The contents of object names and labels as functions, with injectivity and
   length as properties.
