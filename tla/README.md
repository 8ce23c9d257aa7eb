# A TLA+ model of the concurrency templates

The program is `src/template-implementations/`: an ordered map from `int` keys to
`void *` values that threads insert into and look up concurrently. It is put
together when it is linked, from one *template*, which does the synchronization
(`coarse.c`, `coupling.c` or `giveup.c`), and one *data structure*, which knows
nothing of threads (`list.c` or `bst.c`). `src/template-proofs/` holds Rocq proofs
of the same code, and `src/VST/` the vendored toolchain they use. This directory
models the C code.

## Inventory

| Part | State | Operations | Used by |
| --- | --- | --- | --- |
| `list.c`, `bst.c` | the nodes: key, value, one or two pointers | `findNext`, `insertOp`, `get_value`, `get_key`, `printDS` | templates, through `data_structure.h` |
| `template.c` | per call: `pn` (nodes `p` and `n`), key, value, status | `insert`, `lookup` | client threads, `main.c` |
| `coarse.c` | `css`: `root`, one lock | `get_root`, `traverse`, `insertOp_helper`, `lookupOp_helper`, `make_css`, `printDS_helper` | `template.c`, `main.c` |
| `coupling.c` | `css`: `root`, table `metadata` from `hash(node)` to a lock | same | same |
| `giveup.c` | `css`: `root`, table `metadata` from `hash(node)` to a lock and a key range | same | same |
| `threads.c` on `SC_atomics.c` | lock words, 1 is taken | `makelock` (makes it taken), `acquire` (spins on a compare-and-swap), `release` (a store), `freelock`, `spawn` | templates, `main.c` |
| `common.h` | none | `hash`, `surely_malloc` | templates, data structures |
| `main.c` | a css, a lock used as a join | inserts, spawns a thread that inserts, joins, prints, looks up | nothing |
| `src/template-proofs`, `src/flows` | none (proofs) | the specifications `insert_spec`, `lookup_spec` and the axioms on `hash` | |

A call goes through five stages: `get_root` reads `css->root` under a lock that it
gives back; `traverse` finds the node `p` where the key belongs and returns *with
p's lock held* (with the lock of NULL if the structure is empty); a helper acts on
`p` and releases. Nodes are never unlinked or freed.

What makes it hard, and what is checked of it:

* **Locks cross function boundaries.** `traverse` takes what a helper gives back,
  on five paths. (`LockInv`, `MutualExclusion`, `Progress`)
* **Locks are found through a table** that inserters write while others read it,
  that is never cleared, and whose index is a hash. (`Published`,
  `MutualExclusion`, `LocksFound`)
* **State read under a lock is used after its release**: the root, the next node.
  (`KeysetInv`, `Linearizable`)
* **The empty structure**: two threads may both mean to insert the first node.
  (`KeysetInv`, `Linearizable`)
* **An insert into a list may move a key** from one node to a new one while others
  hold pointers to the old one. (`SearchStructure`, `KeysetInv`, `RangeInv`)
* **giveup.c holds nothing between two nodes** and relies on ranges set earlier.
  (`RangeInv`, `GiveUpInv`)
* **Nothing arbitrates between spinning threads**, and a failing compare-and-swap
  overwrites the value it was to compare with. (`AtomicAcquire`, `Acquired`,
  `Progress`, `NotOvertaken`)
* **`main.c` joins through a lock** that is made taken, released by the other thread
  and then freed, and afterwards prints the nodes without a lock, from a stack of
  fixed size. (`JoinInv`, `Output`, `StackBound`, `Terminates`)

`PROJECT.json` lists these hazards with their lines, and the one that is not covered.

## Modules

| Module | Models |
| --- | --- |
| `LinkedList`, `BST` | `list.c`, `bst.c` as operators on a heap, a function from allocated nodes to their fields; `insertOp` is the heap afterwards |
| `DataStructure` | the interface, with the constant `DS` in place of the linker's choice; `Contents` (the map a heap holds), `Visited` and `Landing` (the nodes an undisturbed search comes by, and where it ends), which the properties are about |
| `Common` | `hash`, on addresses |
| `ConcurrentMap` | the abstract specification: an atomic map, from `insert_spec` and `lookup_spec` |
| `Template` | `template.c`, the lock words, and the variables that all templates share |
| `AtomicLock` | the abstract specification of a lock, from `verif_lock_atomic.v`: an acquire happens at one point, at which the word was 0 |
| `SpinLock` | `threads.c` on `SC_atomics.c`: the loop of `acquire`, statement by statement; shown to implement `AtomicLock` |
| `Coarse` | `coarse.c`, its properties, the refinement mapping to `ConcurrentMap` |
| `LockTable` | what `coupling.c` and `giveup.c` share, which is all but the loop of `traverse` and the ranges: the table of locks, `get_root`, the start of `traverse`, the two helpers; the properties of both and the refinement mapping |
| `Coupling` | the rest of `coupling.c`: the loop that locks hand over hand |
| `GiveUp` | the rest of `giveup.c`: the ranges, and the loop that gives up and starts again |
| `Demo` | `main.c` over `Coupling`: the statements of its two threads, the lock used as a join, `printDS_helper` and `printDS` with its stack |
| `MCCoarse`, `MCCoupling`, `MCGiveUp`, `MCDemo` | instances for TLC |
| `DataStructureProofs` | lemmas on `list.c` and `bst.c` |
| `CoarseProofs`, `LockTableProofs`, `CouplingProofs`, `GiveUpProofs`, `SpinLockProofs`, `DemoProofs`, `CommonProofs` | theorems about the module each is named after; those of `LockTable` are lemmas for the two templates |

### State and steps

`pc[t]` is the place of thread `t`. A step is the code from one synchronization to
the next. What a thread does to data that only the holder of a lock touches is one
step, and is put together with the release that follows when nothing can be seen in
between; a `lookup_md` goes with the step before the acquire or release that it is
for. The node linked by `insertOp` and the slot written for it are separate steps
(`InsertNode`, `InsertMetadata`), and so are the two releases of an inserter.

* `lock[n]` is the lock word made for node `n`, `lock[NULL]` the one `make_css`
  makes. `acquire` is the iteration whose compare-and-swap succeeds; the others
  change nothing. `SpinLock` shows that this is what `acquire` amounts to, failing
  iterations included.
* `metadata` is the table. An `md_entry` is malloced once for a node and is not
  changed after its lock was first released, so it goes by the name of its node;
  `range` of `GiveUp` has its `min` and `max`. `Uninit` is what a slot holds before
  that.
* `md[t]` is the `md_entry` whose lock a thread acquires or releases next. A step
  that needs an entry has `md[t] # Uninit` in its guard: a thread that found none
  would be stuck, which deadlock checking and `Published` exclude.
* `Hash` is a constant. Runs use either a hash without collisions, with symmetric
  model values for nodes, or the hash of `common.h` on addresses.
* `surely_malloc` returns any node that was not malloced yet. Where it calls
  `exit(1)` the program's behaviour ends; the safety properties hold of every
  beginning of a behaviour, so nothing is lost.
* A `NULL` value stored for a key cannot be told from an absent key, in the code as
  in `Contents`; the values of the instances are not NULL.

Some definitions are named `X_Something` and stand before `X`: mutants, that is, `X`
with a bug that such code might have. Each property of each run is violated when
`PROJECT.json`'s mutant for it replaces `X`.

## What the runs check

| Run | Shows |
| --- | --- |
| `coarse_list`, `coarse_bst` | one lock: `LockInv`, `KeysetInv`, and `Linearizable`, the refinement of `ConcurrentMap`; and, over the tree, that some call in progress returns |
| `coupling_list`, `coupling_bst` | hand-over-hand: `MutualExclusion`, `LockInv`, `Published`, `SearchStructure`, `KeysetInv`, `Linearizable` |
| `coupling_progress` | some call in progress returns; a traversal that holds a node's lock gets to its end although the locks are unfair |
| `giveup_list`, `giveup_bst` | one lock at a time: the same, with `RangeInv` (the ranges of `md_entry` tell the truth) and `GiveUpInv` (no traversal for a key strictly between `INT_MIN` and `INT_MAX` starts again); and, over the tree, that some call in progress returns |
| `giveup_limits` | keys `INT_MIN` and `INT_MAX` too: such calls start again for ever once there is a node, and the others are still right |
| `spin_lock` | the loop of `acquire` implements the atomic acquire (`AtomicAcquire`), excludes (`Exclusive`), and some spinning thread gets a free lock (`Acquired`) |
| `demo_list`, `demo_bst` | `main.c` prints the same lines on every schedule and for every choice of addresses (`Output`); the spawned thread is through with the structure and with the lock before main frees the lock and walks the nodes (`JoinInv`); if there are no more nodes than `struct stack` has items, `printDS` never pushes beyond the last one (`StackBound`); main gets to its return (`Terminates`, README.md:79 of the repository) |
| `coupling_collision` | a finding: README.md:400 of the repository says that distinct pointers have distinct hash values, and README.md:303 that the table has each node's `md_entry`; 4096 and 20480 have the same, and the table loses the `md_entry` of a node whose lock is taken (`LocksFound`) |

`Linearizable` is the main property: the step that links a node or writes a value is
the one where an `insert` happens, the step that reads the value (or finds none) the
one where a `lookup` happens, and nothing else changes the abstract map.

**The finding.** `hash` multiplies by an odd constant modulo 2^64 and reduces modulo
16384, which only permutes the residues modulo 16384 (theorem `SameSlot`): two nodes
whose addresses differ by a multiple of 16384 share a slot, and of 16-byte aligned
nodes at most 1024 can be kept apart. In `coupling.c` the second node's `md_entry`
replaces the first one's while a thread holds its lock, which is what
`coupling_collision` shows: the lock of a node in use is no longer the one the table
has for it (`LocksFound`). With the same configuration TLC also finds
`MutualExclusion` violated, as the inserter releases the wrong lock and other threads
lock the old node by the new one's lock. A node at a multiple of 16384 takes the slot
of NULL (theorem `NullSlot`), and if it is the root, a traversal that found the
structure empty before still takes it for empty. The Rocq proofs assume this away
(`f_injective`), and so do, by name (`HashInjective`), the theorems below; without
collisions `LocksFound` holds (theorems `LocksStay`).

### Bounds

* Threads: two; three in `coupling_bst`, `giveup_limits` and `spin_lock`. Mutual
  exclusion, stale reads and overtaking involve two threads each; with three, one
  waits for a node while the others change what is before and behind it. The theorems
  about the locks cover any number of threads.
* Three nodes and three keys. An insert of a key that is there mallocs nothing, so
  three nodes are enough for any number of calls, and the instances are not cut off:
  threads call for ever. Three nodes give a list with a node between two others, a
  first node whose key moves twice, trees of every shape with three nodes, and the
  ranges with two, one or no node at their ends.
* Two values, to tell an overwritten value from a current one, in the runs over lists
  with two threads; one value elsewhere.
* `Demo` has the six nodes, keys and values of `main.c`: nothing is bounded there. It
  stops when main has returned, so its runs do not look for deadlocks; `Terminates`
  does. `ITEMS`, the items of `printDS`'s stack, is 100 in the code and in `demo_bst`.
  In `demo_list` it is 6, as small as it may be: a list has all six nodes on the stack
  at a time, so one push too many is beyond the last item. `StackSuffices` covers every
  number of items.
* The limits of `giveup.c` are 0 and 4 around the keys, 1 and 3 in `giveup_limits`.
* Runs with liveness have no symmetry. Safety runs use symmetry of threads and of
  nodes, which no definition tells apart.

### Fairness

`FairSpec` has weak fairness of the work of each thread in a call, that is, the
operating system schedules it again and again. The start of a call is not fair. There
is no strong fairness: nothing in `acquire` makes a thread win when the lock is free
from time to time. A thread may therefore starve at `get_root` or at the first node,
and in `giveup.c` at any node; `Progress` says that some call returns. For
`coupling.c`, `NotOvertaken` says more, since a thread that holds a lock in the
structure is passed by nobody. The keys `INT_MIN` and `INT_MAX` are left out of
`giveup_bst` (as they are by the precondition of `insert_spec`), since calls with
them do not return. In `SpinLock` the loop is fair, the calls of `acquire` and
`release` are not. `DemoSpec` has weak fairness of both threads, calls included:
`main.c` makes them one after the other.

## What is proved

For every `Thread`, `Node`, `Key`, `Value` and both data structures:

| Theorem | Says |
| --- | --- |
| `CouplingProofs`: `CallsAreAtomic` | `HashInjective /\ Spec => Linearizable`: with `coupling.c` the calls are those of the atomic map of `insert_spec` and `lookup_spec` |
| `CouplingProofs`: `KeysetKept`, `NothingLost` | `HashInjective /\ Spec` implies `[]KeysetInv`, `[]SearchStructure` |
| `GiveUpProofs`: `CallsAreAtomic`, `KeysetKept`, `NothingLost` | the same for `giveup.c` |
| `GiveUpProofs`: `RangesRight` | `Spec => []RangeInv`: the ranges of the `md_entry`s tell the truth |
| `CoarseProofs`: `CallsAreAtomic`, `KeysetKept`, `NothingLost` | the same as for `coupling.c`, if no node has the hash of NULL (`NullSlotFree`) |
| `CoarseProofs`: `TypeCorrect`, `LockHolds` | `Spec => [](TypeOK /\ NoDangling)`, `Spec => []LockInv`, for every hash |
| `CouplingProofs`: `TypeCorrect` | `HashInjective /\ Spec` implies `[](TypeOK /\ NoDangling /\ MetadataInv)`: beyond the types, no pointer leads outside the malloced nodes, and a slot holds its node's `md_entry` or what `malloc` left there |
| `CouplingProofs`: `Exclusive`, `LocksMatch`, `LocksStay`, `PublishedInTime` | `HashInjective /\ Spec` implies `[]MutualExclusion`, `[]LockInv`, `[]LocksFound`, `[]Published` |
| `GiveUpProofs`: the same five | the same for `giveup.c`, with its ranges in the types and the node to start again from among the pointers |
| `GiveUpProofs`: `GivesUpAtLimitsOnly` | `Spec => GiveUpInv`: no traversal for a key strictly between `INT_MIN` and `INT_MAX` starts again |
| `SpinLockProofs`: `LockExcludes`, `AcquireIsAtomic` | `Spec => []Exclusive`, and that `SpinLock` implements `AtomicLock`, for any number of threads |
| `DemoProofs`: `JoinHolds` | `DemoSpec => []JoinInv`, for every hash |
| `DemoProofs`: `OutputRight`, `StackSuffices` | `HashInjective /\ DemoSpec` implies `[]Output`, `[]StackBound` |
| `CommonProofs`: `SameSlot`, `NullSlot` | exactly when two addresses, or an address and NULL, share a slot |

Assumptions on the constants: keys are integers, NULL is not a node, `Uninit` is not a
pointer in use, `Hash` is defined on all pointers; `INT_MIN < INT_MAX` with the keys
between them. `Demo` has the two threads of `main.c`, whose keys and strings are among
`Key` and `Value` and none of which strings is NULL. That the hash has no collisions
(`HashInjective`) is a hypothesis of the theorems on `Coupling` and `Demo` (but
`JoinHolds`) and an assumption of `GiveUp`, whose ranges have no
meaning without it. `coarse.c` has no table and uses the hash only to compare the root
with NULL in `traverse`, so all it needs is that no node has NULL's hash
(`NullSlotFree`). `ITEMS` is any natural number. `TypeOK` says of pointers only that
each is NULL or a node, malloced or not; that they lead to malloced nodes is
`NoDangling`, and what the slots of the table hold `MetadataInv`.

**The invariant of the two templates with a table.** Mutual exclusion is not
inductive. That lock `l` is held by one thread does not say that the entry the thread
finds for a node is that node's, nor that the node it is about to lock exists. `IInv`
of `LockTableProofs` adds

* `HeapInv`: no pointer leads to a node that was not malloced; the root has its entry,
* `MetadataInv`: a slot holds its node's entry or nothing; nothing for a node not
  malloced yet,
* `LinkInv`: a node that another one points to has its entry, but for one that an
  inserter at "metadata" has just linked behind its `p`,
* `TraversalInv`: what `pn`, `status` and `req` are at each place,
* `EntryInv`: the entry in a thread's hand is that of the node it means,
* `NewInv` and `NewDistinct`: the node an inserter malloced has no entry until the
  inserter makes it, and no two inserters have the same node,
* `HeldInv`: a node in use has its entry; the two nodes a thread uses are different.

`LinkInv` is what makes a lookup in the uncleared table safe: `FindNext` follows a
pointer out of a node whose lock the thread holds, the one exception needs an inserter
that holds the same lock, and mutual exclusion rules that out. `giveup.c` releases
that lock before it looks up the entry of the next node, but entries are never
withdrawn. `Published` follows.

There is a lemma for each action. The locks are dealt with in three lemmas (a step
keeps, acquires or releases), what a step leaves to the other threads in
`OthersLemma`, and a step that adds no node and no entry in `MoveLemma`.
`HashInjective` is needed in the initial state and in `InsertMetadata` only: there the
new entry replaces no other one. `CouplingProofs` adds the steps of its loop.
`GiveUpProofs` adds those of its own, that `start` is a node with an entry while the
loop runs, and that ranges stay between the limits.

**Why `giveup.c` gives up at the limits only.** That the range of the node a traversal
is at includes its key (`InRangeInv`) is not inductive, for it says nothing of where
`findNext` leads. `WInv` adds `RangesFit`: if a node sends a key to another node, the
range of the first, cut at its own key, lies within that of the second on the key's
side, so a key in the first range is in the second. A node that an inserter has linked
behind `p` has no range yet; `PendingFit` says that `RangesFit` will hold once it gets
the one that `insertOp_helper` is about to compute, from the key `p` has by then. No
other thread spoils that in the meantime: it would need the lock of `p`, or that of the
new node, which nobody can look up yet. What `insertOp` does to the searches is in
`DataStructureProofs` (`ReplaceSendsLemma`, `ListSplitLemma`, `TreeSplitLemma`): a
search that comes to the new node lies on the inserted key's side of `p`, and one that
the new node of a list passes on is one that `p` passed on before. The root and the
entry of NULL have the full range, where each traversal starts.

**Where searches go.** `Visited(heap, root, x)` is the set of the nodes that a search
for `x` cannot get round: they are in every set of nodes that holds the root and that
`findNext` does not lead out of. That is a definition without recursion, and facts
about it are proved by naming such a set (`VisitLemma`: where a visited node sends a
search is visited). The searches are dealt with in `DataStructureProofs`:
`insertOp` takes no search away from a node it visited (in a list the new node is put
behind `p` also when it takes over `p`'s key, so a search for any key still comes by
`p`), the search for the inserted key ends at its node, and the search for each other
key of the structure ends where this key is now. So what is visited only grows, and a
traversal that is on its way stays on its way although it knows nothing of the inserts
around it. `SearchInv` adds to `IInv`

* `Findable`: each key of the structure is in one node, which the search for it visits,
* `OnWay`: the node a thread is at is visited by the search for its key; from the end of
  `traverse` until the helper has acted, the node is where that search ends (`Arrived`),
* that a call that found the structure empty finds it empty when it makes its root.

A thread that has arrived at `p` has the lock of `p`, or that of NULL, and an insert that
another thread makes where the first has arrived would need the same lock: mutual
exclusion rules it out, and an insert at another node does not change what `p` does with
the search (`OthersOnWay`, `NoneOnWay`). In `coarse.c` there is one lock for everything,
but `css->root` is read before it is taken for the traversal. It cannot be stale in a
way that matters: the root is set once, and `traverse` looks again if it was NULL. In
`giveup.c` a traversal holds no lock between two nodes, which does not matter, since
being visited needs no lock; `RouteInv` adds that it starts again from the root.

**Atomic calls.** `Linearizable` is proved step by step under `SearchInv`: the initial
states are those of the map; `EffectLemma` shows that the step that links a node, makes
it the root or writes a value changes `Contents` in the place of the inserted key and
nowhere else (a list's insert that moves a key from `p` to the new node included);
`ReadsLemma` that the value a lookup reads is that of its key in `Contents`; and
`QuietLemma` that every other step leaves the map alone.

**The ranges.** `RightInv` adds to `RouteInv` that the range of a node with an entry is
right (`RangeRight`), and `PlaceInv` for an insert in progress: its key is in the range of
`p`; the new node, linked behind `p` and yet without an entry, is where `p` sends the
keys on the inserted key's side, and its own key is one of these. The entry that
`insertOp_helper` then makes, from the range and the key of `p`, is right for that
reason: a search for a key in it comes by `p` and goes on to the new node.

**The others.** In `SpinLockProofs`, `expected` is 0 whenever a thread is about to
compare and swap, so a successful one finds 0; and `Swap` is the abstract `Acquire`,
every other step of the loop a stutter.

**The demo.** `SpawnInv` relates the lines of the two threads and the lock: main gets
past the join only after the second thread's release. So nobody changes the nodes while
`printDS` walks them without a lock, and what it does is a matter of one heap. `Walk` is
the invariant of its two loops: what is printed comes before what is on the stack, top
first, and a key for which `findNext` comes by the node the loop is at lies between the
two; and each node is printed, or the search for its key comes by the node the loop is
at or a node of the stack, on the side that is printed later. `printDS` thus goes where
the searches go (`SideLemma`), of which `Findable` says that they find every node, and
`Walk` needs no induction over lists or trees. It needs that no two pointers lead to one
node, or a search could come to a node on two ways (`Forest`, `ComesBy`); `ShapeInv`
says that the inserts keep it so. No node is twice on the stack, in the output, or in
both, so by the pigeonhole principle these two together are no longer than there are
nodes (`OnceEach`), and `StackBound` follows. All this, but for `SpawnInv`, rests on
`SearchInv`, which holds here since `main.c` is a client of `Coupling` (lemma
`UsesTemplate`).

`Output` needs in addition what the nodes hold. `CallsInv` says that the map is the one
after the statements that have taken effect, of each thread (`MapAfter`), and its proof
uses of a call only that it is atomic (`EffectOfCall`, from the refinement of
`ConcurrentMap`): the one place where the abstract specification is put to use. The
insert of the second thread commutes with those of main, whose keys are others. The
output is then in order (`Walk`), leaves out no key that comes before a printed one
(`WalkPrefix`), and holds what the nodes hold (`NodesHold`); `CountsLemma` puts these
together.

Only model-checked: `Progress`, `NotOvertaken`, `Acquired` and `Terminates`, which rest
on fairness, and of which the prover has no account. Every other property of a passing
run is proved.

## Not modelled

* `main.c` over `coarse.c` and `giveup.c`: `Demo` composes with `Coupling` only. The
  three `printDS_helper` differ in a word they print.
* The failure of `thrd_create` in `spawn`, after which the program exits, and
  `exit_thread`, which nothing calls.
* `atom_load`, `atom_exchange` and the pointer atomics: nothing calls them.
* The failure of `malloc` in `make_atomic`, which is not tested there.
* A push beyond the last item of the stack, which writes outside the array. `main.c`
  has six nodes, and `StackBound` says that it takes more nodes than items.
* `src/VST`, `src/flows`, `src/template-proofs`: tools and proofs. `src/VST` is the
  vendored Verified Software Toolchain with its own C examples (ciphers, random number
  generators, small programs), by far the most C of the repository; no line of it is
  linked into the program. The specifications in `verif_template.v` and
  `verif_lock_atomic.v` are modelled as `ConcurrentMap` and `AtomicLock`.
