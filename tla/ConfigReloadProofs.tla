------------------------- MODULE ConfigReloadProofs -------------------------
(***************************************************************************)
(* Proofs about ConfigReload, for every set of bindings, documents, hooks, *)
(* triggers and callers.                                                   *)
(*                                                                         *)
(* What a reload publishes is decided in many steps, and files, resolvers  *)
(* and other reloads move in between.  The invariant says, of the one      *)
(* reload that holds in_progress, what each binding it has passed is worth *)
(* under the tree it has read: its live value already belongs to that      *)
(* tree, or the swap that will make it so is in the list.                  *)
(***************************************************************************)
EXTENDS ConfigReload, TLAPS

-----------------------------------------------------------------------------
(* The inductive invariant.                                                 *)

\* The records a reload works with.
Snapshots  == [raw : Contents \cup {Absent}, resolved : SUBSET (Literals \cup {Unresolved})]
SwapType   == [path : Paths, value : Literals \cup {Unresolved}, snap : Snapshots]
JobRecords == [pc : Phases, next : Nat \ {0}, tree : Trees, swaps : Seq(SwapType),
               hooks : SUBSET Hooks, rejected : BOOLEAN]

\* The files hold documents, the resolvers answer literals.
WorldType ==
    /\ files \in [Files -> UNION Range(Documents)] /\ \A f \in Files : files[f] \in Documents[f]
    /\ env \in Literals

\* Every task has a record of its reload.
JobType == job \in [Tasks -> JobRecords]

\* Every binding has a live value and a snapshot.
SlotShape == live = [p \in Paths |-> live[p]] /\ snap = [p \in Paths |-> snap[p]]

\* in_progress has one holder.
OneWorks == \A t, u \in Tasks : Working(t) /\ Working(u) => t = u

\* What the application sees of binding p is what a tree says of it, for some answer the
\* resolvers gave.
Good(tree, p) ==
    \E e \in Literals : Snapshot(tree, p, e) = snap[p] /\ Value(tree, p, e) = live[p]

\* The same after the step.
GoodNext(tree, p) ==
    \E e \in Literals : Snapshot(tree, p, e) = snap'[p] /\ Value(tree, p, e) = live'[p]

\* Every swap was computed from the tree of its reload.
SwapsOK(j) ==
    \A k \in 1..Len(j.swaps) : \E e \in Literals :
        /\ j.swaps[k].snap = Snapshot(j.tree, j.swaps[k].path, e)
        /\ j.swaps[k].value = Value(j.tree, j.swaps[k].path, e)

\* Binding p belongs to the tree of reload j, or one of its swaps from n on will see to it.
Covered(j, p, n) == Good(j.tree, p) \/ \E k \in n..Len(j.swaps) : j.swaps[k].path = p

\* A task that is past in_progress: what it has prepared so far.
ReloadOK(j) ==
    /\ j.pc # "hooks" => j.hooks = {}
    /\ j.pc = "read" => j.swaps = <<>>
    /\ j.pc = "bind" => j.next <= Len(Slots)
    /\ j.pc \in {"prepare", "bind", "hooks", "commit"} => SwapsOK(j)
    /\ j.pc \in {"prepare", "bind"} => \A m \in 1..Len(Slots) : m < j.next => Covered(j, Slots[m], 1)
    /\ j.pc = "hooks" => \A p \in Paths : Covered(j, p, 1)
    /\ j.pc = "commit" => \A p \in Paths : Covered(j, p, j.next)

\* Every task's reload is in order.
AllReloadsOK == \A t \in Tasks : ReloadOK(job[t])

\* Outside a commit every binding belongs to the adopted tree.
RootOK == ~Committing => \A p \in Paths : Good(root, p)

\* The inductive invariant.
ReloadInv ==
    /\ WorldType /\ JobType /\ SlotShape /\ OneWorks
    /\ AllReloadsOK /\ RootOK

-----------------------------------------------------------------------------
USE ConfigAssumption

\* The record of a task that rests, and of one that begins to wait or to read.
LEMMA RestingType ==
    /\ Resting \in JobRecords
    /\ \A s \in Phases : [Resting EXCEPT !.pc = s] \in JobRecords
<1>1. EmptyTree \in Trees
  BY DEF EmptyTree, Trees
<1>2. Resting \in JobRecords
  <2>1. <<>> \in Seq(SwapType) /\ {} \in SUBSET Hooks /\ 1 \in Nat \ {0} /\ "idle" \in Phases
    BY DEF Phases
  <2>q. QED
    BY <1>1, <2>1 DEF Resting, JobRecords
<1>q. QED
  BY <1>2 DEF JobRecords

\* Its fields.
LEMMA RestingFields ==
    ASSUME NEW s \in Phases
    PROVE  LET r == [Resting EXCEPT !.pc = s]
           IN  r.pc = s /\ r.swaps = <<>> /\ r.hooks = {} /\ r.next = 1
  BY DEF Resting

\* Merging a document and seeding the defaults yield trees.
LEMMA TreeTypes ==
    ASSUME NEW tree \in Trees
    PROVE  /\ \A doc \in Trees : Merge(tree, doc) \in Trees
           /\ seed_defaults_into(tree) \in Trees
  BY DEF Trees, Merge, seed_defaults_into, Contents

\* What a tree makes of a binding.
LEMMA SwapTypes ==
    ASSUME NEW tree \in Trees, NEW p \in Paths, NEW e \in Literals
    PROVE  /\ Value(tree, p, e) \in Literals \cup {Unresolved}
           /\ Snapshot(tree, p, e) \in Snapshots
<1>1. \A c : Answer(tree, c, e) \in Literals \cup {Unresolved}
  BY DEF Answer
<1>2. tree[p] \in Contents \cup {Absent}
  BY DEF Trees
<1>q. QED
  BY <1>1, <1>2 DEF Value, Snapshot, Snapshots

\* A binding whose snapshot matches under the answers of this moment already has the value
\* that the new tree gives it, though the snapshot was taken of another tree and with other
\* answers: the raw content and the answers it consumed determine the value.
LEMMA MatchIsGood ==
    ASSUME NEW tree, NEW p, env \in Literals, Good(root, p), snapshot_matches(tree, p)
    PROVE  Good(tree, p)
<1>1. PICK e \in Literals : Snapshot(root, p, e) = snap[p] /\ Value(root, p, e) = live[p]
  BY DEF Good
<1>2. /\ tree[p] = root[p]
      /\ snap[p].resolved = IF Placeholder(tree[p]) THEN {Answer(root, tree[p], e)} ELSE {}
  <2>1. snap[p].raw = root[p]
    BY <1>1 DEF Snapshot
  <2>2. snap[p].resolved = IF Placeholder(root[p]) THEN {Answer(root, root[p], e)} ELSE {}
    <3> DEFINE r == IF Placeholder(root[p]) THEN {Answer(root, root[p], e)} ELSE {}
    <3>1. snap[p] = [raw |-> root[p], resolved |-> r]
      BY <1>1, Zenon DEF Snapshot
    <3> HIDE DEF r
    <3>2. snap[p].resolved = r
      BY <3>1
    <3>q. QED
      BY <3>2 DEF r
  <2>3. tree[p] = root[p]
    BY <2>1 DEF snapshot_matches
  <2>q. QED
    BY <2>2, <2>3
<1>3. CASE Placeholder(tree[p])
  <2>1. Answer(tree, tree[p], env) = Answer(root, tree[p], e)
    BY <1>2, <1>3 DEF snapshot_matches
  <2>q. QED
    BY <1>1, <1>2, <2>1 DEF Good, Snapshot, Value
<1>4. CASE ~Placeholder(tree[p])
  <2>1. Answer(tree, tree[p], env) = Unresolved /\ Answer(root, tree[p], e) = Unresolved
    BY <1>4 DEF Answer, Placeholder
  <2>q. QED
    BY <1>1, <1>2, <1>4, <2>1 DEF Good, Snapshot, Value
<1>q. QED
  BY <1>3, <1>4

\* Tasks that rest, wait or have been stopped hold nothing.
LEMMA IdleOK ==
    ASSUME NEW s \in Phases \ {"prepare", "bind", "hooks", "commit"}
    PROVE  ReloadOK([Resting EXCEPT !.pc = s])
  BY DEF ReloadOK, Resting

\* A step of one task that leaves the live values alone.
LEMMA QuietStep ==
    ASSUME JobType, OneWorks, AllReloadsOK, NEW t \in Tasks, NEW j \in JobRecords,
           Become(t, j), UNCHANGED <<live, snap>>, ReloadOK(j),
           j.pc \in {"read", "prepare", "bind", "hooks", "commit"} =>
               Working(t) \/ \A u \in Tasks : ~Working(u)
    PROVE  JobType' /\ OneWorks' /\ AllReloadsOK'
<1>1. job'[t] = j /\ (\A u \in Tasks \ {t} : job'[u] = job[u]) /\ JobType'
  BY DEF JobType, Become
<1>2. OneWorks'
  BY <1>1 DEF OneWorks, Working
<1>3. \A u \in Tasks : ReloadOK(job[u])' <=> ReloadOK(job'[u])
  BY DEF ReloadOK, SwapsOK, Covered, Good
<1>q. QED
  BY <1>1, <1>2, <1>3 DEF AllReloadsOK

\* Until a commit is over the adopted tree and the live values do not move.
LEMMA QuietRoot ==
    ASSUME RootOK, UNCHANGED <<root, live, snap>>, Committing => Committing'
    PROVE  RootOK'
  BY DEF RootOK, Good

\* The steps of the world and of the triggers touch no reload.
LEMMA IdleStep ==
    ASSUME ReloadInv, NEW t \in Tasks, ~Running(t, "commit"),
           NEW s \in Phases \ {"read", "prepare", "bind", "hooks", "commit"},
           Become(t, [Resting EXCEPT !.pc = s]), UNCHANGED <<manager, files, env>>
    PROVE  ReloadInv'
<1> DEFINE j == [Resting EXCEPT !.pc = s]
<1>1. j \in JobRecords /\ ReloadOK(j) /\ j.pc = s
  BY IdleOK, RestingType, RestingFields
<1> HIDE DEF j
<1>2. Become(t, j) /\ UNCHANGED <<root, live, snap, files, env>>
  BY DEF manager, j
<1>3. JobType' /\ OneWorks' /\ AllReloadsOK'
  BY <1>1, <1>2, QuietStep DEF ReloadInv
<1>4. Committing => Committing'
  BY <1>2 DEF Committing, Running, Become, ReloadInv, JobType
<1>5. RootOK'
  BY <1>2, <1>4, QuietRoot DEF ReloadInv
<1>q. QED
  BY <1>2, <1>3, <1>5 DEF ReloadInv, WorldType, SlotShape

\* A step of the reload that holds in_progress and does not end in, or leave, a commit.
LEMMA WorkStep ==
    ASSUME ReloadInv, NEW t \in Tasks, ~Running(t, "commit"),
           NEW j \in JobRecords, Become(t, j), ReloadOK(j),
           j.pc \in {"read", "prepare", "bind", "hooks", "commit"} =>
               Working(t) \/ \A u \in Tasks : ~Working(u),
           UNCHANGED <<root, live, snap, files, env>>
    PROVE  ReloadInv'
<1>1. JobType' /\ OneWorks' /\ AllReloadsOK'
  BY QuietStep DEF ReloadInv
<1>2. Committing => Committing'
  BY DEF Committing, Running, Become, ReloadInv, JobType
<1>3. RootOK'
  BY <1>2, QuietRoot DEF ReloadInv
<1>q. QED
  BY <1>1, <1>3 DEF ReloadInv, WorldType, SlotShape

\* The same when the reload ends.
LEMMA ReturnStep ==
    ASSUME ReloadInv, NEW t \in Tasks, ~Running(t, "commit"), Become(t, Resting),
           UNCHANGED <<root, live, snap, files, env>>
    PROVE  ReloadInv'
<1>1. Resting \in JobRecords /\ Resting.pc = "idle" /\ ReloadOK(Resting)
  BY RestingType DEF Resting, ReloadOK
<1>q. QED
  BY <1>1, WorkStep

-----------------------------------------------------------------------------
(* One lemma per step of reload().                                          *)

\* What a task's record is typed as.
LEMMA JobOf ==
    ASSUME ReloadInv, NEW t \in Tasks
    PROVE  job[t] \in JobRecords /\ ReloadOK(job[t])
  BY DEF ReloadInv, JobType, AllReloadsOK

\* reload() takes in_progress: nobody else works.
LEMMA AcquireStep ==
    ASSUME ReloadInv, NEW t \in Tasks, Acquire(t)
    PROVE  ReloadInv'
<1> DEFINE j == [Resting EXCEPT !.pc = "read"]
<1>1. j \in JobRecords /\ ReloadOK(j)
  BY IdleOK, RestingType DEF Phases
<1> HIDE DEF j
<1>2. Become(t, j) /\ UNCHANGED <<root, live, snap, files, env>> /\ Running(t, "wait") /\ Serialized
  BY DEF Acquire, world, manager, j
<1>3. ~Running(t, "commit")
  BY <1>2 DEF Running
<1>q. QED
  BY <1>1, <1>2, <1>3, WorkStep DEF Serialized

\* One file is merged, or fails the reload.
LEMMA ReadFileStep ==
    ASSUME ReloadInv, NEW t \in Tasks, ReadFile(t)
    PROVE  ReloadInv'
<1> DEFINE doc == files[job[t].next]
           j == [job[t] EXCEPT !.tree = Merge(@, doc), !.next = @ + 1]
<1>1. /\ job[t].pc = "read" /\ job[t].next \in Files /\ Working(t)
      /\ UNCHANGED <<root, live, snap, files, env>>
  BY DEF ReadFile, Running, world, manager, Working
<1>2. ~Running(t, "commit")
  BY <1>1 DEF Running
<1>3. CASE doc = Broken
  <2>1. Become(t, Resting)
    BY <1>3 DEF ReadFile, Return
  <2>q. QED
    BY <1>1, <1>2, <2>1, ReturnStep
<1>4. CASE doc # Broken
  <2>1. doc \in Trees
    BY <1>1, <1>4 DEF ReloadInv, WorldType
  <2>2. Become(t, j)
    BY <1>4 DEF ReadFile
  <2> HIDE DEF doc
  <2>3. Merge(job[t].tree, doc) \in Trees /\ job[t].next + 1 \in Nat \ {0}
    BY <2>1, JobOf, TreeTypes, SMTT(30) DEF JobRecords
  <2>4. j \in JobRecords /\ j.pc = "read" /\ j.swaps = job[t].swaps /\ j.hooks = job[t].hooks
    BY <1>1, <2>3, JobOf DEF JobRecords
  <2> HIDE DEF j
  <2>5. ReloadOK(j)
    BY <1>1, <2>4, JobOf DEF ReloadOK
  <2>q. QED
    BY <1>1, <1>2, <2>2, <2>4, <2>5, WorkStep
<1>q. QED
  BY <1>3, <1>4

\* The defaults are seeded; nothing is prepared yet.
LEMMA FilesReadStep ==
    ASSUME ReloadInv, NEW t \in Tasks, FilesRead(t)
    PROVE  ReloadInv'
<1> DEFINE j == [job[t] EXCEPT !.pc = "prepare", !.next = 1, !.tree = seed_defaults_into(@)]
<1>1. /\ job[t].pc = "read" /\ Working(t) /\ Become(t, j)
      /\ UNCHANGED <<root, live, snap, files, env>>
  BY DEF FilesRead, Running, world, manager, Working
<1>2. ~Running(t, "commit")
  BY <1>1 DEF Running
<1>3. seed_defaults_into(job[t].tree) \in Trees
  BY JobOf, TreeTypes DEF JobRecords
<1>4. /\ j \in JobRecords /\ j.pc = "prepare" /\ j.swaps = job[t].swaps /\ j.hooks = job[t].hooks
      /\ j.next = 1
  <2> DEFINE s == seed_defaults_into(job[t].tree)
  <2>1. j = [job[t] EXCEPT !.pc = "prepare", !.next = 1, !.tree = s] /\ s \in Trees
    BY <1>3
  <2>2. job[t] \in JobRecords /\ "prepare" \in Phases /\ 1 \in Nat \ {0}
    BY JobOf DEF Phases
  <2> HIDE DEF s, j
  <2>q. QED
    BY <2>1, <2>2 DEF JobRecords
<1> HIDE DEF j
<1>5. j.swaps = <<>> /\ j.hooks = {}
  BY <1>1, <1>4, JobOf DEF ReloadOK
<1>6. ReloadOK(j)
  BY <1>4, <1>5 DEF ReloadOK, SwapsOK
<1>q. QED
  BY <1>1, <1>2, <1>4, <1>6, WorkStep

\* A binding is left alone only when its snapshot matches.
LEMMA PrepareStep ==
    ASSUME ReloadInv, NEW t \in Tasks, Prepare(t)
    PROVE  ReloadInv'
<1> DEFINE p == Slots[job[t].next]
<1>1. /\ job[t].pc = "prepare" /\ Working(t) /\ job[t].next <= Len(Slots)
      /\ UNCHANGED <<root, live, snap, files, env>>
  BY DEF Prepare, Running, world, manager, Working
<1>2. ~Running(t, "commit") /\ ~Committing
  BY <1>1 DEF Running, Committing, ReloadInv, OneWorks, Working
<1>3. job[t] \in JobRecords /\ job[t].next \in Nat \ {0} /\ ReloadOK(job[t]) /\ Len(Slots) \in Nat
  BY JobOf DEF JobRecords
<1>4. p \in Paths /\ job[t].next \in 1..Len(Slots)
  BY <1>1, <1>3, SMTT(30) DEF Paths
<1>5. CASE snapshot_matches(job[t].tree, p)
  <2> DEFINE j == [job[t] EXCEPT !.next = @ + 1]
  <2>1. Become(t, j)
    BY <1>5 DEF Prepare
  <2>2. /\ j \in JobRecords /\ j.pc = "prepare" /\ j.swaps = job[t].swaps
        /\ j.hooks = job[t].hooks /\ j.next = job[t].next + 1 /\ j.tree = job[t].tree
    <3> DEFINE n == job[t].next + 1
    <3>1. j = [job[t] EXCEPT !.next = n] /\ n \in Nat \ {0}
      BY <1>3
    <3> HIDE DEF j, n
    <3>2. j \in JobRecords /\ j.next = n
      BY <1>3, <3>1 DEF JobRecords
    <3>3. j.pc = "prepare" /\ j.swaps = job[t].swaps /\ j.hooks = job[t].hooks /\ j.tree = job[t].tree
      BY <1>1, <1>3, <3>1 DEF JobRecords
    <3>q. QED
      BY <3>2, <3>3 DEF n
  <2>3. Good(job[t].tree, p)
    BY <1>2, <1>4, <1>5, MatchIsGood DEF ReloadInv, WorldType, RootOK
  <2> HIDE DEF j
  <2>4. ASSUME NEW m \in 1..Len(Slots), m < j.next
        PROVE  Covered(j, Slots[m], 1)
    <3>1. CASE m = job[t].next
      BY <2>2, <2>3, <3>1 DEF Covered
    <3>2. CASE m # job[t].next
      <4>1. m < job[t].next
        BY <1>3, <2>2, <2>4, <3>2
      <4>2. Covered(job[t], Slots[m], 1)
        BY <1>1, <1>3, <4>1 DEF ReloadOK
      <4>q. QED
        BY <2>2, <4>2 DEF Covered
    <3>q. QED
      BY <3>1, <3>2
  <2>5. SwapsOK(j)
    <3>1. SwapsOK(job[t])
      BY <1>1, <1>3 DEF ReloadOK
    <3>q. QED
      BY <2>2, <3>1 DEF SwapsOK
  <2>6. j.hooks = {}
    BY <1>1, <1>3, <2>2 DEF ReloadOK
  <2>7. ReloadOK(j)
    BY <2>2, <2>4, <2>5, <2>6 DEF ReloadOK
  <2>q. QED
    BY <1>1, <1>2, <2>1, <2>2, <2>7, WorkStep
<1>6. CASE ~snapshot_matches(job[t].tree, p)
  <2> DEFINE j == [job[t] EXCEPT !.pc = "bind"]
  <2>1. Become(t, j)
    BY <1>6 DEF Prepare
  <2>2. /\ j \in JobRecords /\ j.pc = "bind" /\ j.swaps = job[t].swaps
        /\ j.hooks = job[t].hooks /\ j.next = job[t].next /\ j.tree = job[t].tree
    BY <1>1, <1>3 DEF JobRecords, Phases
  <2> HIDE DEF j
  <2>3. ReloadOK(j)
    BY <1>1, <1>3, <2>2 DEF ReloadOK, SwapsOK, Covered
  <2>q. QED
    BY <1>1, <1>2, <2>1, <2>2, <2>3, WorkStep
<1>q. QED
  BY <1>5, <1>6

\* A binding is deserialized again, with the answers of this second pass.
LEMMA BindStep ==
    ASSUME ReloadInv, NEW t \in Tasks, Bind(t)
    PROVE  ReloadInv'
<1> DEFINE p == Slots[job[t].next]
           tree == job[t].tree
           w == Swap(p, tree)
<1>1. job[t].pc = "bind" /\ Working(t) /\ UNCHANGED <<root, live, snap, files, env>>
  BY DEF Bind, Running, world, manager, Working
<1>2. ~Running(t, "commit")
  BY <1>1 DEF Running
<1>3. /\ job[t] \in JobRecords /\ job[t].next \in Nat \ {0} /\ ReloadOK(job[t])
      /\ Len(Slots) \in Nat /\ tree \in Trees /\ job[t].swaps \in Seq(SwapType)
  BY JobOf DEF JobRecords
<1>4. p \in Paths /\ job[t].next <= Len(Slots)
  BY <1>1, <1>3 DEF Paths, ReloadOK
<1>5. CASE Value(tree, p, env) = Unresolved
  <2>1. Become(t, Resting)
    BY <1>5 DEF Bind, Return
  <2>q. QED
    BY <1>1, <1>2, <2>1, ReturnStep
<1>6. CASE Value(tree, p, env) # Unresolved
  <2> DEFINE n == job[t].next + 1
             s == Append(job[t].swaps, w)
             j == [job[t] EXCEPT !.pc = "prepare", !.next = n, !.swaps = s]
  <2>1. Become(t, j)
    BY <1>6 DEF Bind
  <2>2. /\ w \in SwapType /\ w.path = p /\ env \in Literals
        /\ w.snap = Snapshot(tree, p, env) /\ w.value = Value(tree, p, env)
    BY <1>3, <1>4, SwapTypes DEF Swap, SwapType, ReloadInv, WorldType
  <2> HIDE DEF w
  <2>3. /\ s \in Seq(SwapType) /\ Len(s) = Len(job[t].swaps) + 1 /\ s[Len(s)] = w
        /\ Len(job[t].swaps) \in Nat
        /\ \A k \in 1..Len(job[t].swaps) : s[k] = job[t].swaps[k]
    BY <1>3, <2>2
  <2>4. n \in Nat \ {0} /\ "prepare" \in Phases
    BY <1>3 DEF Phases
  <2>5. /\ \A m \in 1..Len(Slots) : m < n => m = job[t].next \/ m < job[t].next
    BY <1>3
  <2> HIDE DEF s, n
  <2>6. /\ j \in JobRecords /\ j.pc = "prepare" /\ j.next = n /\ j.swaps = s
        /\ j.hooks = job[t].hooks /\ j.tree = tree
    BY <1>3, <2>3, <2>4 DEF JobRecords
  <2> HIDE DEF j
  <2>7. SwapsOK(j)
    <3>1. ASSUME NEW k \in 1..Len(j.swaps)
          PROVE  \E e \in Literals : /\ j.swaps[k].snap = Snapshot(j.tree, j.swaps[k].path, e)
                                     /\ j.swaps[k].value = Value(j.tree, j.swaps[k].path, e)
      <4>1. CASE k = Len(s)
        BY <2>2, <2>3, <2>6, <4>1
      <4>2. CASE k # Len(s)
        <5>1. k \in 1..Len(job[t].swaps) /\ s[k] = job[t].swaps[k]
          BY <2>3, <2>6, <3>1, <4>2
        <5>q. QED
          BY <1>1, <1>3, <2>6, <5>1 DEF ReloadOK, SwapsOK
      <4>q. QED
        BY <4>1, <4>2
    <3>q. QED
      BY <3>1 DEF SwapsOK
  <2>8. ASSUME NEW m \in 1..Len(Slots), m < n
        PROVE  Covered(j, Slots[m], 1)
    <3>1. CASE m = job[t].next
      <4>1. Len(s) \in 1..Len(j.swaps) /\ j.swaps[Len(s)].path = Slots[m]
        BY <2>2, <2>3, <2>6, <3>1
      <4>q. QED
        BY <4>1 DEF Covered
    <3>2. CASE m < job[t].next
      <4>1. Covered(job[t], Slots[m], 1)
        BY <1>1, <1>3, <3>2 DEF ReloadOK
      <4>2. 1..Len(job[t].swaps) \subseteq 1..Len(s)
        BY <2>3
      <4>q. QED
        BY <2>3, <2>6, <4>1, <4>2 DEF Covered
    <3>q. QED
      BY <2>5, <2>8, <3>1, <3>2
  <2>9. ReloadOK(j)
    BY <1>1, <1>3, <2>6, <2>7, <2>8 DEF ReloadOK
  <2>q. QED
    BY <1>1, <1>2, <2>1, <2>6, <2>9, WorkStep
<1>q. QED
  BY <1>5, <1>6

\* Every binding has been passed.
LEMMA PreparedStep ==
    ASSUME ReloadInv, NEW t \in Tasks, Prepared(t)
    PROVE  ReloadInv'
<1>1. /\ job[t].pc = "prepare" /\ Working(t) /\ job[t].next > Len(Slots)
      /\ UNCHANGED <<root, live, snap, files, env>>
  BY DEF Prepared, Running, world, Working
<1>2. ~Running(t, "commit")
  BY <1>1 DEF Running
<1>3. job[t] \in JobRecords /\ job[t].next \in Nat \ {0} /\ ReloadOK(job[t]) /\ Len(Slots) \in Nat
  BY JobOf DEF JobRecords
<1>4. CASE job[t].swaps = <<>>
  <2>1. Become(t, Resting)
    BY <1>4 DEF Prepared, Return
  <2>q. QED
    BY <1>1, <1>2, <2>1, ReturnStep
<1>5. CASE job[t].swaps # <<>>
  <2> DEFINE H == {h \in Hooks : Targets[h] \cap Changed(t) # {}}
             j == [job[t] EXCEPT !.pc = "hooks", !.hooks = H]
  <2>1. Become(t, j)
    BY <1>5 DEF Prepared
  <2>2. H \in SUBSET Hooks /\ "hooks" \in Phases
    BY DEF Phases
  <2> HIDE DEF H
  <2>3. /\ j \in JobRecords /\ j.pc = "hooks" /\ j.swaps = job[t].swaps /\ j.tree = job[t].tree
    BY <1>3, <2>2 DEF JobRecords
  <2> HIDE DEF j
  <2>4. ASSUME NEW p \in Paths
        PROVE  Covered(job[t], p, 1)
    <3>1. PICK m \in 1..Len(Slots) : p = Slots[m]
      BY DEF Paths
    <3>2. m < job[t].next
      BY <1>1, <1>3
    <3>3. Covered(job[t], Slots[m], 1)
      BY <1>1, <1>3, <3>2 DEF ReloadOK
    <3>q. QED
      BY <3>1, <3>3
  <2>5. ReloadOK(j)
    BY <1>1, <1>3, <2>3, <2>4 DEF ReloadOK, SwapsOK, Covered
  <2>q. QED
    BY <1>1, <1>2, <2>1, <2>3, <2>5, WorkStep
<1>q. QED
  BY <1>4, <1>5

\* A hook answers.
LEMMA HookReturnsStep ==
    ASSUME ReloadInv, NEW t \in Tasks, NEW h \in Hooks, NEW accepts \in BOOLEAN,
           HookReturns(t, h, accepts)
    PROVE  ReloadInv'
<1> DEFINE H == job[t].hooks \ {h}
           r == (job[t].rejected \/ ~accepts)
           j == [job[t] EXCEPT !.hooks = H, !.rejected = r]
<1>1. /\ job[t].pc = "hooks" /\ Working(t) /\ Become(t, j)
      /\ UNCHANGED <<root, live, snap, files, env>>
  BY DEF HookReturns, Running, world, manager, Working
<1>2. ~Running(t, "commit")
  BY <1>1 DEF Running
<1>3. job[t] \in JobRecords /\ ReloadOK(job[t])
  BY JobOf
<1>4. H \in SUBSET Hooks /\ r \in BOOLEAN
  BY <1>3 DEF JobRecords
<1> HIDE DEF H, r
<1>5. /\ j \in JobRecords /\ j.pc = "hooks" /\ j.swaps = job[t].swaps /\ j.tree = job[t].tree
  BY <1>1, <1>3, <1>4 DEF JobRecords
<1> HIDE DEF j
<1>6. ReloadOK(j)
  BY <1>1, <1>3, <1>5 DEF ReloadOK, SwapsOK, Covered
<1>q. QED
  BY <1>1, <1>2, <1>5, <1>6, WorkStep

\* The hooks are done: reject, or begin to commit.
LEMMA HooksDoneStep ==
    ASSUME ReloadInv, NEW t \in Tasks, HooksDone(t)
    PROVE  ReloadInv'
<1>1. /\ job[t].pc = "hooks" /\ job[t].hooks = {} /\ Working(t)
      /\ UNCHANGED <<root, live, snap, files, env>>
  BY DEF HooksDone, Running, world, manager, Working
<1>2. ~Running(t, "commit")
  BY <1>1 DEF Running
<1>3. job[t] \in JobRecords /\ ReloadOK(job[t])
  BY JobOf
<1>4. CASE job[t].rejected
  <2>1. Become(t, Resting)
    BY <1>4 DEF HooksDone, Return
  <2>q. QED
    BY <1>1, <1>2, <2>1, ReturnStep
<1>5. CASE ~job[t].rejected
  <2> DEFINE j == [job[t] EXCEPT !.pc = "commit", !.next = 1]
  <2>1. Become(t, j)
    BY <1>5 DEF HooksDone
  <2>2. "commit" \in Phases /\ 1 \in Nat \ {0}
    BY DEF Phases
  <2>3. /\ j \in JobRecords /\ j.pc = "commit" /\ j.swaps = job[t].swaps /\ j.tree = job[t].tree
        /\ j.hooks = job[t].hooks /\ j.next = 1
    BY <1>3, <2>2 DEF JobRecords
  <2> HIDE DEF j
  <2>4. ReloadOK(j)
    BY <1>1, <1>3, <2>3 DEF ReloadOK, SwapsOK, Covered
  <2>q. QED
    BY <1>1, <1>2, <2>1, <2>3, <2>4, WorkStep
<1>q. QED
  BY <1>4, <1>5

\* One binding is published; those still to come are in the rest of the list.
LEMMA CommitStep ==
    ASSUME ReloadInv, NEW t \in Tasks, Commit(t)
    PROVE  ReloadInv'
<1> DEFINE i == job[t].next
           w == job[t].swaps[i]
           n == i + 1
           j == [job[t] EXCEPT !.next = n]
<1>1. /\ job[t].pc = "commit" /\ Working(t) /\ i <= Len(job[t].swaps) /\ Become(t, j)
      /\ UNCHANGED <<root, files, env>>
      /\ live' = [live EXCEPT ![w.path] = w.value] /\ snap' = [snap EXCEPT ![w.path] = w.snap]
  BY DEF Commit, Running, world, Working, SnapshotCommitted
<1>2. /\ job[t] \in JobRecords /\ ReloadOK(job[t]) /\ i \in Nat \ {0} /\ n \in Nat \ {0}
      /\ job[t].swaps \in Seq(SwapType) /\ Len(job[t].swaps) \in Nat /\ i \in 1..Len(job[t].swaps)
  BY <1>1, JobOf DEF JobRecords
<1>3. w \in SwapType /\ w.path \in Paths
  <2>1. \A s \in Seq(SwapType) : \A k \in 1..Len(s) : s[k] \in SwapType
    OBVIOUS
  <2>2. w \in SwapType
    BY <1>2, <2>1
  <2>q. QED
    BY <2>2 DEF SwapType
<1>4. PICK e \in Literals : w.snap = Snapshot(job[t].tree, w.path, e)
                         /\ w.value = Value(job[t].tree, w.path, e)
  BY <1>1, <1>2 DEF ReloadOK, SwapsOK
<1>5. \A k \in i..Len(job[t].swaps) : k = i \/ k \in n..Len(job[t].swaps)
  BY <1>2
<1>6. w = job[t].swaps[i]
  OBVIOUS
<1> HIDE DEF w, n
<1>7. /\ j \in JobRecords /\ j.pc = "commit" /\ j.swaps = job[t].swaps /\ j.tree = job[t].tree
      /\ j.hooks = job[t].hooks /\ j.next = n
  BY <1>1, <1>2 DEF JobRecords
<1> HIDE DEF j, i
<1>8. job'[t] = j /\ (\A u \in Tasks \ {t} : job'[u] = job[u]) /\ JobType'
  BY <1>1, <1>7 DEF ReloadInv, JobType, Become
<1>9. OneWorks' /\ Committing'
  BY <1>1, <1>7, <1>8 DEF ReloadInv, OneWorks, Working, Committing, Running
<1>10. /\ SlotShape' /\ live'[w.path] = w.value /\ snap'[w.path] = w.snap
       /\ \A q \in Paths \ {w.path} : live'[q] = live[q] /\ snap'[q] = snap[q]
  BY <1>1, <1>3 DEF ReloadInv, SlotShape
<1>11. ASSUME NEW p \in Paths
       PROVE  GoodNext(j.tree, p) \/ \E k \in n..Len(j.swaps) : j.swaps[k].path = p
  <2>1. CASE p = w.path
    BY <1>4, <1>7, <1>10, <2>1 DEF GoodNext
  <2>2. CASE p # w.path
    <3>1. Covered(job[t], p, i)
      BY <1>1, <1>2 DEF ReloadOK, i
    <3>2. CASE Good(job[t].tree, p)
      BY <1>7, <1>10, <2>2, <3>2 DEF Good, GoodNext
    <3>3. CASE \E k \in i..Len(job[t].swaps) : job[t].swaps[k].path = p
      BY <1>5, <1>6, <1>7, <2>2, <3>3
    <3>q. QED
      BY <3>1, <3>2, <3>3 DEF Covered
  <2>q. QED
    BY <2>1, <2>2
<1>12. ReloadOK(job[t])'
  <2>1. j.hooks = {} /\ SwapsOK(j)
    <3>1. job[t].hooks = {} /\ SwapsOK(job[t])
      BY <1>1, <1>2 DEF ReloadOK
    <3>q. QED
      BY <1>7, <3>1 DEF SwapsOK
  <2>2. SwapsOK(job[t])'
    BY <1>8, <2>1 DEF SwapsOK
  <2>3. \A p \in Paths : Covered(job[t], p, job[t].next)'
    BY <1>7, <1>8, <1>11 DEF Covered, Good, GoodNext
  <2>q. QED
    BY <1>7, <1>8, <2>1, <2>2, <2>3 DEF ReloadOK
<1>13. ASSUME NEW u \in Tasks \ {t}
       PROVE  ReloadOK(job[u])'
  <2>1. job'[u] = job[u] /\ ~Working(u) /\ ReloadOK(job[u])
    BY <1>1, <1>8, JobOf DEF ReloadInv, OneWorks
  <2>q. QED
    BY <2>1 DEF ReloadOK, Working
<1>14. WorldType' /\ AllReloadsOK' /\ RootOK'
  BY <1>1, <1>9, <1>12, <1>13 DEF WorldType, AllReloadsOK, RootOK, ReloadInv
<1>q. QED
  BY <1>8, <1>9, <1>10, <1>14 DEF ReloadInv

\* Everything is published and the tree is adopted.
LEMMA AdoptStep ==
    ASSUME ReloadInv, NEW t \in Tasks, Adopt(t)
    PROVE  ReloadInv'
<1>1. /\ job[t].pc = "commit" /\ Working(t) /\ job[t].next > Len(job[t].swaps)
      /\ Become(t, Resting) /\ root' = job[t].tree /\ UNCHANGED <<live, snap, files, env>>
  BY DEF Adopt, Running, world, Working, Return
<1>2. /\ ReloadOK(job[t]) /\ job[t].next \in Nat /\ Len(job[t].swaps) \in Nat
  BY JobOf DEF JobRecords
<1>3. Resting \in JobRecords /\ Resting.pc = "idle" /\ ReloadOK(Resting)
  BY RestingType DEF Resting, ReloadOK
<1>4. JobType' /\ OneWorks' /\ AllReloadsOK'
  BY <1>1, <1>3, QuietStep DEF ReloadInv
<1>5. \A p \in Paths : Good(job[t].tree, p)
  <2>1. \A k \in job[t].next..Len(job[t].swaps) : FALSE
    BY <1>1, <1>2
  <2>q. QED
    BY <1>1, <1>2, <2>1 DEF ReloadOK, Covered
<1>6. RootOK'
  BY <1>1, <1>5 DEF RootOK, Good
<1>q. QED
  BY <1>1, <1>4, <1>6 DEF ReloadInv, WorldType, SlotShape

-----------------------------------------------------------------------------
\* A task that is dropped where it awaits has published nothing yet.
LEMMA DroppedNotCommitting ==
    ASSUME ReloadInv, NEW t \in Tasks, AtAwait(t)
    PROVE  ~Running(t, "commit")
  BY JobOf DEF AtAwait, Running, ReloadOK

\* Every step preserves the invariant.
LEMMA ReloadInvStep == ASSUME ReloadInv, [Next]_vars PROVE ReloadInv'
<1>1. ASSUME UNCHANGED <<manager, job, env>>,
             \/ UNCHANGED files
             \/ \E f \in Files : \E doc \in Documents[f] : files' = [files EXCEPT ![f] = doc]
      PROVE  ReloadInv'
  <2>1. WorldType'
    <3>1. \A f \in Files : Documents[f] \subseteq UNION Range(Documents)
      BY DEF Range
    <3>q. QED
      BY <1>1, <3>1 DEF ReloadInv, WorldType
  <2>2. UNCHANGED <<root, live, snap, job>>
    BY <1>1 DEF manager
  <2>3. JobType' /\ SlotShape' /\ OneWorks' /\ RootOK'
    BY <2>2 DEF ReloadInv, JobType, SlotShape, OneWorks, Working, RootOK, Committing, Running, Good
  <2>4. AllReloadsOK'
    BY <2>2 DEF ReloadInv, AllReloadsOK, ReloadOK, SwapsOK, Covered, Good
  <2>q. QED
    BY <2>1, <2>3, <2>4 DEF ReloadInv
<1>2. ASSUME NEW f \in Files, NEW doc \in Documents[f], Edit(f, doc) PROVE ReloadInv'
  BY <1>1, <1>2 DEF Edit
<1>3. ASSUME NEW v \in Literals, ResolverChanges(v) PROVE ReloadInv'
  <2>1. env' \in Literals /\ UNCHANGED <<root, live, snap, job, files>>
    BY <1>3 DEF ResolverChanges, manager
  <2>2. WorldType' /\ JobType' /\ SlotShape' /\ OneWorks' /\ RootOK'
    BY <2>1 DEF ReloadInv, WorldType, JobType, SlotShape, OneWorks, Working, RootOK, Committing,
                Running, Good
  <2>3. AllReloadsOK'
    <3>1. \A u \in Tasks : ReloadOK(job[u])' <=> ReloadOK(job[u])
      BY <2>1 DEF ReloadOK, SwapsOK, Covered, Good
    <3>q. QED
      BY <3>1 DEF ReloadInv, AllReloadsOK
  <2>q. QED
    BY <2>2, <2>3 DEF ReloadInv
<1>4. CASE Sighup \/ StopTriggers \/ Notify \/ UNCHANGED vars
  <2>1. UNCHANGED <<manager, job, env, files>>
    BY <1>4 DEF Sighup, StopTriggers, Notify, vars, world
  <2>q. QED
    BY <2>1, <1>1
<1>5. CASE WatchWakes
  BY <1>5, IdleStep DEF WatchWakes, world, Phases, Running, Tasks
<1>6. CASE WatchDrains
  BY <1>6, IdleStep DEF WatchDrains, world, Phases, Running, Tasks
<1>7. CASE SighupWakes
  BY <1>7, IdleStep DEF SighupWakes, world, Phases, Running, Tasks
<1>8. ASSUME NEW t \in Tasks, Reload(t) PROVE ReloadInv'
  BY <1>8, AcquireStep, ReadFileStep, FilesReadStep, PrepareStep, BindStep, PreparedStep,
     HooksDoneStep, CommitStep, AdoptStep DEF Reload
<1>9. ASSUME NEW t \in Tasks, CallReload(t) PROVE ReloadInv'
  BY <1>9, IdleStep DEF CallReload, Phases, Running
<1>10. ASSUME NEW t \in Tasks, AbortTrigger(t) PROVE ReloadInv'
  <2>1. ~Running(t, "commit")
    BY <1>10, DroppedNotCommitting DEF AbortTrigger
  <2>q. QED
    BY <1>10, <2>1, IdleStep DEF AbortTrigger, world, Phases
<1>11. ASSUME NEW t \in Tasks, AbandonReload(t) PROVE ReloadInv'
  <2>1. ~Running(t, "commit")
    BY <1>11, DroppedNotCommitting DEF AbandonReload
  <2>2. Become(t, Resting) /\ UNCHANGED <<root, live, snap, files, env>>
    BY <1>11 DEF AbandonReload, world, manager
  <2>q. QED
    BY <2>1, <2>2, ReturnStep
<1>12. ASSUME NEW t \in Tasks, NEW h \in Hooks, NEW accepts \in BOOLEAN,
              HookReturns(t, h, accepts)
       PROVE  ReloadInv'
  BY <1>12, HookReturnsStep
<1>q. QED
  BY <1>2, <1>3, <1>4, <1>5, <1>6, <1>7, <1>8, <1>9, <1>10, <1>11, <1>12 DEF Next, World

\* Build binds every value of the tree it loads.
LEMMA ReloadInvInit == Init => ReloadInv
<1> SUFFICES ASSUME Init PROVE ReloadInv
  OBVIOUS
<1>1. WorldType /\ SlotShape
  BY DEF Init, WorldType, SlotShape
<1>2. Resting \in JobRecords /\ Resting.pc = "idle" /\ ReloadOK(Resting)
  BY RestingType DEF Resting, ReloadOK
<1>3. JobType /\ AllReloadsOK /\ OneWorks
  BY <1>2 DEF Init, JobType, AllReloadsOK, OneWorks, Working
<1>4. RootOK
  BY <1>1 DEF Init, RootOK, Good, WorldType
<1>q. QED
  BY <1>1, <1>3, <1>4 DEF ReloadInv

\* The invariant holds in every reachable state.
LEMMA ReloadInvariant == Spec => []ReloadInv
<1>1. ReloadInv /\ [Next]_vars => ReloadInv'
  BY ReloadInvStep
<1>q. QED
  BY <1>1, ReloadInvInit, PTL DEF Spec

\* Outside a commit everything the application sees belongs to the one adopted tree: a
\* reload that fails, is rejected by a hook, panics or is dropped has published nothing,
\* and one that succeeds leaves no binding behind, for every set of bindings and hooks.
THEOREM PublishedIsRoot == Spec => []LiveIsRoot
<1>1. ReloadInv => LiveIsRoot
  BY DEF ReloadInv, RootOK, Good, LiveIsRoot
<1>q. QED
  BY <1>1, ReloadInvariant, PTL
=============================================================================
