# A TLA+ model of vcaslib

vcaslib adds constant-time snapshots to concurrent search trees. A global
counter, the camera, dates every change of a child pointer. A child pointer
keeps the list of its dated versions. A range query moves the camera, which
fixes the instant it reads at, and then walks each version list to the version
of that instant. An epoch-based reclaimer cuts version lists that no scan needs.

This directory holds TLA+ modules for that machinery, TLC configurations that
check them on small instances, and proofs, checked by TLAPS, that hold for every
instance. Paths below are relative to `src/artifact/`; `V` stands for
`java/src/algorithms/vcas/VcasBatchBSTMapGC.java`.

Contents: [1. The system](#1-the-system), [2. Modules](#2-modules),
[3. Runs](#3-runs), [4. Proofs](#4-proofs), [5. A finding](#5-a-finding),
[6. What is abstracted](#6-what-is-abstracted), [7. Plan](#7-plan).

## 1. The system

The repository's README lists what is its own; the rest are the structures it is
compared with, benchmarks and drivers. `PROJECT.json` lists every part under
"components" and what is hard to test, line by line, under "hazards".

| Component | State | Operations | Correct when |
|---|---|---|---|
| **Camera** `java/src/algorithms/vcas/Camera.java` | the counter `timestamp`; a thread-local backoff | `takeSnapshot`, `getTimestamp` | a snapshot's timestamp is over when it is returned; later snapshots are larger; every call ends |
| **Versioned pointers** `V` 56-90, 358-475 | per pointer the newest version; per version `ts` and `nextv` | `getLeft/Right`, `compareAndSetLeft/Right`, `getLeft/Right(ts)`, `initTS`, `init`, `reclaim` | a scan sees one past state; stamps respect real time; lists are ordered and complete; the winner of a CAS, and nobody else, retires |
| **Epoch** `java/src/main/support/Epoch.java` | `epochNum`, `announce[]`, three bags per thread | `announce`, `unannounce`, `retire`, `tryAdvanceEpoch` | a node is reclaimed once, and only when every scan that was running at its retirement is over |
| **Batched leaves** `V` 95-355 | sorted key and value arrays | `put`, `remove`, four splits, bounds, `gatherKeys` | arrays stay sorted and complete; ranges are exact |
| **VcasBST-64** `V` 358-745, 747-930 | tree of internal nodes and leaves; `info` fields | `get`, `putIfAbsent`, `remove`, helping, `rangeScan` | linearizable map with atomic range scans |
| **VcasCT-64** `java/src/algorithms/vcas/VcasBatchChromaticMapGC.java` | the same pointers under LLX/SCX and rebalancing | the same, and 22 rebalancing steps | the same, and logarithmic height |
| **VcasBST in C++** `cpp/bst`, `cpp/rq/rq_vcas.h`, `cpp/descriptors` | tree, reusable SCX descriptors, versioned pointers | insert, erase, rangequery, help | the same, and descriptors are never mixed |
| **EpochBST provider** `cpp/rq/rq_lockfree.h`, `cpp/dcss` | timestamped nodes, limbo bags, DCSS | update and range-query hooks | linearizable range queries |
| **DEBRA** `cpp/recordmgr` | epochs and bags in C++ | quiescent states, retire | the reclaimer contract |

How they interact:

- An update reads the camera to stamp what it installed. Any thread that meets an
  unstamped version stamps it (`initTS`) before it goes on, updaters and scans alike.
- `rangeScan` is `epoch.announce`, `takeSnapshot`, one versioned read per pointer
  it visits, `epoch.unannounce`.
- A successful `compareAndSet` retires the *new* version: when the epochs allow,
  its `nextv` is cut, which drops everything older. Scans announced by then are
  waited for; later scans have larger timestamps and never look past that version.
- A tree operation publishes its `compareAndSet` in an `info` record, so that any
  thread may execute it again, at any later time.

What is hard: all of it runs concurrently without locks. A version is visible
before it is dated. Helpers repeat a CAS long after it succeeded. Splicing rewrites
`nextv` with a read and a plain volatile write while others do the same. Epochs are
advanced by threads that looked at the announcements some time ago, and the
announcements are written without synchronization.

## 2. Modules

| Module | Models |
|---|---|
| `Camera` | the camera, one action per shared access |
| `CameraHistory` | a history variable and the camera's properties |
| `VersionedCas` | versioned pointers, updaters, helpers, scans; extends `Camera` |
| `VersionedCasInv` | its inductive invariant |
| `SnapshotStore` | abstract: a store of dated versions that `VersionedCas` implements |
| `Reclaimer` | abstract: what a client may expect of a reclaimer |
| `Epoch`, `EpochInv` | the epoch reclaimer with store buffers, and its inductive invariant; implements `Reclaimer` |
| `ScanReclaim` | `VersionedCas` with `Epoch` in the place of the contract |
| `BatchLeaf` | the leaf arrays, as operators |
| `BatchMap` | the batched tree under one caller at a time; extends `BatchLeaf` |
| `OrderedMap` | abstract: the map that `BatchMap` implements |
| `MC*` | model values, symmetry sets and small sets for TLC |
| `CameraLemmas`, `CameraProofs`, `VersionedCasProofs`, `EpochProofs` | theorems |

How they fit together:

    SnapshotStore        Reclaimer  <------ Epoch           OrderedMap
         ^                   |                |                 ^
         |                   v                v                 |
    VersionedCas  -----------+-------> ScanReclaim           BatchMap
         |                                                      |
       Camera                                               BatchLeaf

Definitions whose comment begins with "Fault:" are not used by any specification.
Each is a plausible bug in the definition after it, kept to show that a property
of a run would notice it.

### Camera

`timestamp` is `camera.timestamp`; `camPc` and `camTs` are a thread's control point
and its local `ts`. `ReadTimestamp`, `Recheck` and `CasTimestamp` are the three
accesses of `takeSnapshot`, `ReturnSnapshot` is its return. The busy loop of
`backoff` touches nothing shared: it is the time between two actions. The backoff
amount is kept, because it must stay between its clamps.

### VersionedCas

`child` is `left` or `right` of some internal node (an `Obj`); `Left` and `Right` give
the two pointers of its node, `Right` is `Null` for a node like the root, whose right
child never changes. `ts` and `nextv` are the fields of `Node`, `target` and `replaces`
are the contents of a published info record. `pc` and the other locals are where a thread is and what it holds. `ver`
and `born` are history: the position of a version in its pointer, and the camera
when it was installed.

One action is one access to a shared field, or a call. Reads of the `ts` of a
stamped node are folded into the step that uses them, as a stamp never changes
(`StampsAreFinal`, proved). `initTS` is `InitTSRead` (is the stamp still `TBD`?),
`InitTSGet` (the camera) and `InitTSCas`. `compareAndSet` is `ReadHead`, `SpliceRead`,
`SpliceReadNext`, `SpliceWrite`, `RejectStale`, `Link`, `Swap`, `SwapFails`,
`RereadHead`, `DedupRead`, `DedupWrite`, `RetireTest`, `Retire` in the order of `V`
414-440. `Propose` builds a fresh version and publishes it; `Help` enters a
`compareAndSet` that was published at any earlier time. Both then choose the side as
`helpInsert` does: `TestLeft` is its `getLeft`, `TakeLeft` calls `compareAndSetLeft` if
that returned the old version, `TakeRight` calls `compareAndSetRight` otherwise. A late
helper therefore often runs its `compareAndSet` on the *other* child, where it stamps
and splices and is then rejected. Several versions may be proposed for one old
version, as helpers of one delete do.

Scans announce through the `Reclaimer` contract, and `ReclaimNode` may happen
whenever the contract allows. `SnapshotStore` says what this amounts to: a write is
first pending and later dated with a time between; a reader fixes a time that is
over; its answers are the versions current at that time, and no write is ever dated
at or before a time at which its pointer was read. `ImplementsStore` is the
refinement, `Store` its mapping.

### Epoch and ScanReclaim

`announce` holds the announcements that all threads see; `buffer` the stores of a
thread that only it sees. The array is of plain ints and is read and written
without synchronization, so a store waits in the buffer (bounded by `BufferSize`)
until `Flush`. A CAS needs an empty buffer. `curEpoch` is the local read of
`epochNum`; `unchecked` the part of `announce` that the loop of `tryAdvanceEpoch` has
left, in any order; `retiredNodes`, `prevRetireEpoch` and `announceCount` are the
thread's own fields. `ReclaimItem` takes one item out of the bag that the loop of `retire`
is at. An item is held in a `Place`: one of the three bags, or the hands of a running
`retire`; `RetiredHeldOnce` says that it has exactly one, so it is neither filed with two
threads nor left behind in a second bag. `announced`, `waiting` and `stage` are the contract's state:
a thread is announced from the flush of its announcement to that of its withdrawal,
and an item waits for the threads announced when `retire` reads the epoch.

`ScanReclaim` lets every pointer step happen as in `VersionedCas`, with calls of
`Epoch` where the contract was: `retire` and `announce` are interleaved step by step
(`RetireTest` reads `newV.nextv`, `RetireCalled` is the call with its read of `epochNum`),
`reclaim` happens inside another retirement by the same thread. CASes and volatile
writes drain the thread's buffer. `covered` remembers whether a scan's announcement
was visible when it read the camera.

### BatchLeaf and BatchMap

A leaf is a sequence of entries; the operators carry out the Java methods on it,
index arithmetic and binary searches included. TLC stops with an error where Java
would throw: at a key or value index outside of the arrays, and at an `arraycopy` whose
length is negative or runs past the end (`Copy` is a function of the legal lengths). A tree is a nested record. `Insert` and `Delete` are what one
undisturbed `putIfAbsent` or `remove` does to it, `ScanHelper` is the recursion of
`rangeScan` with its pruning. `last` is the last call with
its arguments and its answer. `OrderedMap` is the abstract map; the mapping reads the
entries off the leaves, and the same call must have the same answer there.

## 3. Runs

| Run | Instance | Shows |
|---|---|---|
| `camera` | 3 threads, counter up to 4 | types with the backoff clamps; a snapshot is over and below the clock; later calls get larger timestamps; a call that looks at the clock again returns |
| `vcas_snapshot` | 2 updaters, 1 scan, the 2 pointers of one node, 2 new versions | a scan's reads are one past state; stamps are not older than installations; nothing undated is returned |
| `vcas_chain` | 2 updaters, 1 scan, the root's pointer, 3 new versions | the inductive invariant; order and completeness of lists; each version is linked, installed and retired once; final stamps |
| `vcas_scans` | 1 updater, 2 scans, 2 pointers | scans are comparable; `VersionedCas` implements `SnapshotStore` |
| `vcas_liveness` | 2 updaters, 1 scan, the root's pointer, 2 new versions | a scan that keeps running finishes |
| `epoch_threads` | 3 threads, 1 item, epoch up to 2 and what running calls add | the inductive invariant of `Epoch`; a visible announcement holds the epoch back |
| `epoch_bags` | 2 threads, 3 items | types; no item is lost or in two bags; bags do not mix epochs; `Epoch` implements `Reclaimer` |
| `scan_reclaim` | an updater that also scans, a scanner, 3 replacements | types; a scan with a visible announcement sees one past state |
| `batch_even`, `batch_odd` | 4 keys and leaves of 2, 5 keys and leaves of 3; 2 values | well-formed search tree; every answer is the map's |
| `scan_race` | as `scan_reclaim` | expected violation, see 5 |

### Bounds and why they are enough

- `MaxTimestamp`: no snapshot begins once the camera is there; running ones go on.
  In `VersionedCas` it is 1, so a scanner begins one snapshot, which moves the camera;
  with two scanners the second may move it again. That gives versions with equal
  and with different stamps, and stamps read before a snapshot and written after it.
- Three replacements of a pointer (`vcas_chain`) are the fewest with a splice at the
  head of a list that has been spliced before, under a helper that is two versions
  behind. Two pointers (`vcas_snapshot`, `vcas_scans`) are the fewest for which "one
  state of all pointers" says more than "some state of each".
- `MaxEpoch`: no announcement begins at that epoch. Epochs 0 to 2 bring the three
  bags around and allow a reclamation.
- `AnnouncesBeforeCollect` is 512 in the code and 0 or 1 in the runs: a thread then
  looks at the announcements at every call, or every other, the most hostile choice
  for the reclaimer. The proofs hold for any value.
- `BufferSize` 2 lets an announcement and its withdrawal be buffered together.
- `MaxBackoff` is 512 in the code; 4 in `camera` reaches both clamps.
- Four keys with leaves of two, or five with leaves of three, fill a leaf, split it
  and split a half again; ranges end on, between
  and outside of the keys of a leaf.
- Nodes, threads and values that are not otherwise told apart are interchangeable
  (SYMMETRY); runs with liveness properties use none.

Deadlock is not checked in `camera`, `epoch_*` and `scan_*`, where these bounds bring
the system to rest. In the other runs a state without successors is an error.

### Fairness

`vcas_liveness` assumes weak fairness of the steps of a scan, `camera` of the steps
of a `takeSnapshot` that has begun. Both are straight-line code with loops over local
data, which runs as long as its thread is scheduled. Nothing is assumed of updaters,
helpers or the reclaimer: they may stop anywhere, and the scan still finishes. What the
two runs cannot show is freedom from starvation by endless progress of others:
`MaxTimestamp` bounds how often the counter moves and the nodes bound how many versions
appear. That `takeSnapshot` does not retry, and that a scan never goes back to the head,
is read off the actions. No progress of reclamation is claimed, and the code promises none.

## 4. Proofs

All are for any number of threads, pointers, versions, items, and any bounds.

**Camera** (`CameraProofs`): `CameraTypeCorrect`, `SnapshotsBelowClock`,
`SnapshotsRespectRealTime`. The invariant: what a thread read is at most the counter,
and strictly below it once the thread is past its CAS or found the counter moved.
`CameraLemmas` states its preservation once; `VersionedCasProofs` uses it too.

**Versioned pointers** (`VersionedCasProofs`): `TypeCorrect`, `SnapshotCorrect`,
`OrderCorrect`, `StampCorrect`, `LinksCorrect`, `StampsFinal`, `LinkedOnceCorrect`.
`SnapshotView` is not inductive: nothing in it says why a version installed tomorrow cannot be dated into
the past of a scan, or why walking `nextv` skips nothing. `VersionedCasInv` adds:

- `HistoryInv`, `ProposalInv`: versions of a pointer are numbered without gaps in
  who replaced whom, only the newest is unstamped, what a late helper holds is either
  current or already replaced;
- `StampInv`: a stamp is between installation and now, and a version is installed no
  earlier than the stamp of every older one;
- `LinkInv`: a `nextv` leads to an older version of the pointer, past duplicates
  (equal stamps) only, or is null below a reclaimed version of the same stamp;
- `LocalInv`: what a thread in the middle of a splice or a deduplication is about to
  write is such a link still, whatever others have done since it read it, and leads
  past the version replaced (`PastReplaced`), so a spliced link does not come back;
- `ScanInv`: every version newer than the one a scan has walked to, or has read, was
  born after or stamped after its timestamp, including those to come;
- `ReclaimInv`: a retired version that some scan may have to look behind waits for
  that scan.

Each action has a lemma; `LinkStable`, `HiddenStable`, `LocalStable` and `ScanStable`
say what a step of one thread leaves true for the others, and `WalkFinds` that a walk
cannot end at null while its scan is protected.

**Epochs** (`EpochProofs`): `EpochTypeCorrect`, `EpochHeldBackCorrect`, `BagsCorrect`,
`RetiredCorrect`, and `ReclaimerImplemented`, the refinement `Spec => Contract!Spec`.
A thread that has seen no old announcement may advance the epoch much later, when
there are new ones. `CheckInv` says why this does no harm: if the epoch is still the
one that thread checked for, then an announcement it has passed became visible in this
epoch. From it follows `EpochBounds`, a visible announcement lets the epoch advance
once; and with `WaitingInv` and `BagsByEpoch`, an item two epochs old waits for nobody.
`BufferInv` says that announcements and withdrawals alternate, also in a buffer, which
is what maps a flush to a step of the contract.

**Only model-checked**: `ReturnsStamped`, `RetiredOnce`, `InstalledOnce`,
`ScansComparable`, `ImplementsStore`, `CoveredSnapshotView`, the properties of the
batched map (recursive operators, and what a recursive definition computes for all
inputs, are out of the prover's reach), and liveness under fairness (likewise).

The assumptions are the named `ASSUME`s on constants (distinctness of null and node,
a positive backoff limit and buffer size, and so on). TLC evaluates them in the runs.

## 5. A finding

`Epoch.announce` publishes the scan's epoch with a plain store and no fence
(`Epoch.java:37`). The store may stay in the store buffer while the scan continues.
In most scans the CAS of `takeSnapshot` drains the buffer. But `takeSnapshot` skips
the CAS when it finds that another scan has moved the counter (`Camera.java:68`), and
the versioned reads of a scan do no CAS when they meet stamped versions. Such a scan
is invisible: the epoch can advance twice, version lists are cut under it, and it
finds null where there was a version. `scanHelper` takes null for an empty subtree,
and the scan silently omits it. `scan_race` is the run; `V` 11-12 promises a
linearizable `rangeScan`.

`scan_reclaim` shows the other half: a scan whose announcement is visible by the time
it reads the camera is right. `VersionedCas` assumes so for every scan, since
`Reclaimer` treats the announcement as a part of the call, and its theorems are about
such scans.

The store-buffer model is total store order, which the C++ README names as the
prerequisite of the artifact and which x86 has; Java's memory model allows no less.

## 6. What is abstracted

- `compareAndSetLeft` and `compareAndSetRight` are the same code twice; one definition
  stands for both, and which pointer it is called on is chosen as in `helpInsert`
  (`helpMarked` and `helpFlagged` choose in the same way). A
  `compareAndSet` with `newV == oldV` returns early; no caller makes one.
- The constructor stamps the children of a new node (`init`). In `VersionedCas` the
  pointers exist from the start. A child shared between a node and its copy, as
  `helpMarked` and `helpFlagged` leave it, belongs to the tree protocol.
- A scan reads all pointers in any order, which covers every traversal.
- Keys and values are out of `VersionedCas`; concurrency is out of `BatchMap`.
- The order of the loop over `announce` is left open, which allows more than the code.
  The threads' registration and `Epoch`'s padding are left out.
- `int` overflow of the epoch is left out (2^31 advances); see the hazards.
- `keySum`, `size`, `getSumOfKeys` are for test beds and promise nothing under
  concurrency.

Not modelled: the C++ code, the chromatic tree, and the comparison structures.
`PROJECT.json` gives the reason for each.

## 7. Plan

| Step | Content | State |
|---|---|---|
| A | camera and versioned pointers, `SnapshotStore`, proofs | done |
| B | epochs, `Reclaimer`, `ScanReclaim`, proofs | done |
| C | leaf arrays and the sequential map | done |
| D | the tree protocol of VcasBST-64 (info states clean, insert, delete, mark, flag; helping; child sharing), implementing a map of keys | next |
| E | LLX/SCX, reusable descriptors and the C++ `rq_vcas` provider; its reclaimer is `Reclaimer` | after D |
| F | `rq_lockfree` over DCSS, and DEBRA as another `Reclaimer` | after E |
| G | chromatic rebalancing: each transformation preserves keys, order and path weights | if time allows |

Module order: `BstProtocol` (D: nodes with `info`, `left`, `right` as plain pointers
first, then with versioned ones, over `OrderedMap` with sets of keys), `Descriptors` and
`Scx` (E), `RqVcas` (E), `Dcss` and `RqLockFree` (F), `Debra` (F). Bounds: two updaters
and a helper on trees of up to five internal nodes for D, two operations and a helper
for E and F.

Theorems worth proving next: `VersionedCas` implements `SnapshotStore`;
`InstalledOnce` and `RetiredOnce`, whose invariant is nearly in place; in D, that a
marked node's children are frozen; in E, that a helper of a reused descriptor never
acts on a mix of two operations; in F, that DEBRA implements `Reclaimer` given fenced
announcements.
