--------------------------- MODULE ScopeContainer ---------------------------
(***************************************************************************)
(* An application's dependency-injection containers: the builder validates *)
(* the registry and plans the scopes, the root container is built one      *)
(* component at a time, and the protocol opens a child container per scope *)
(* of its chain.  While a container is built its factories resolve through *)
(* what it holds so far and through its parents; a finished container      *)
(* hydrates the deferred handles and serves lazy and fresh ones.           *)
(*                                                                         *)
(* Containers form one path: the root, then a child per opened scope that  *)
(* is not empty, each over the one before.  Siblings never see each other. *)
(* An instance is <<type, container>>; <<type, 0>> is a transient one,     *)
(* rebuilt at every resolution.  A factory's own outcome is external.      *)
(***************************************************************************)
EXTENDS ComponentRegistry

CONSTANTS
  Registries,  \* the registries the application may be built from
  Callers,     \* tasks that use one shared lazy handle
  MaxValues    \* bound: values a lazy handle is given

ASSUME ContainerAssumption == MaxValues \in Nat /\ IsFiniteSet(Callers) /\ "" \notin Callers

VARIABLES
  reg,         \* the registry, fixed
  components,  \* its resolved components
  plan,        \* the scope plan
  stage,       \* "new", "planned", "building", "serving", "closed" or "failed"
  err,         \* why it failed, "" if it did not
  depth,       \* how many scopes of the chain have been opened
  containers,  \* the containers, root first, each child after its parent
  lazy,        \* the shared lazy handle
  fresh        \* outcome of the last use of a fresh handle

vars == <<reg, components, plan, stage, err, depth, containers, lazy, fresh>>

transients == plan.transient

-----------------------------------------------------------------------------
(* Lookups in one store and along the chain.                               *)

Entries(k, trait) == SelectSeq(containers[k].providers, LAMBDA p : p.trait = trait)

\* The sole entry, or the unique primary one.
pick_single(entries) == select_single_provider(entries)

resolve_local(k, ty) ==
  IF ty \in containers[k].built THEN {<<ty, k>>}
  ELSE {<<p.concrete, k>> : p \in pick_single(Entries(k, ty))}

resolve_qualified_local(k, ty, qualifier) ==
  LET found == SelectSeq(Entries(k, ty), LAMBDA p : p.qualifier = qualifier)
  IN  IF found = <<>> THEN {} ELSE {<<found[1].concrete, k>>}

\* The nearest container along the chain that finds one.
Nearest(k, Local(_)) ==
  LET hits == {i \in 1..k : Local(i) # {}}
  IN  IF hits = {} THEN {} ELSE Local(CHOOSE i \in hits : \A j \in hits : j <= i)

\* A stored instance for a single edge, this scope first, then its parents.
resolve_built(k, dep) ==
  IF dep.qualifier = NoQualifier
  THEN Nearest(k, LAMBDA i : resolve_local(i, dep.ty))
  ELSE Nearest(k, LAMBDA i : resolve_qualified_local(i, dep.ty, dep.qualifier))

IsTransientType(ty) == ty \in TypesOf(transients)

\* What a single edge resolves to: the selected provider if it is transient, then
\* whatever is stored, then the type itself if it is transient.
resolve(k, dep) ==
  LET selected == select_provider_for(dep, providers_for_trait(reg, dep.ty))
      built    == resolve_built(k, dep)
  IN  IF \E p \in selected : IsTransientType(p.concrete)
      THEN {<<p.concrete, 0>> : p \in selected}
      ELSE IF built # {} THEN built
      ELSE IF dep.qualifier = NoQualifier /\ IsTransientType(dep.ty) THEN {<<dep.ty, 0>>}
      ELSE {}

transient_providers_for(trait) ==
  SelectSeq(providers_for_trait(reg, trait), LAMBDA p : IsTransientType(p.concrete))

\* Every provider along the chain, and the transient ones, in the global order.
resolve_all(k, trait) ==
  LET stored(i) == LET e == Entries(i, trait) IN [j \in DOMAIN e |-> [p |-> e[j], k |-> i]]
      fresh0    == LET e == transient_providers_for(trait)
                   IN  [j \in DOMAIN e |-> [p |-> e[j], k |-> 0]]
      all       == FlattenSeq([i \in 1..k |-> stored(k + 1 - i)]) \o fresh0
      sorted    == SortSeq(all, LAMBDA x, y : provider_ordinal(reg, x.p) < provider_ordinal(reg, y.p))
  IN  [j \in DOMAIN sorted |-> <<sorted[j].p.concrete, sorted[j].k>>]

\* Providers by qualifier: a transient one wins, then the closest scope.
resolve_keyed(k, trait) ==
  LET quals == {p.qualifier : p \in Range(transient_providers_for(trait))}
                 \cup UNION {{p.qualifier : p \in Range(Entries(i, trait))} : i \in 1..k}
      last(q) == SelectLastInSeq(transient_providers_for(trait), LAMBDA p : p.qualifier = q)
      stored(i, q) == LET e == SelectSeq(Entries(i, trait), LAMBDA p : p.qualifier = q)
                      IN  IF e = <<>> THEN {} ELSE {<<Last(e).concrete, i>>}
  IN  {<<q, IF last(q) > 0 THEN <<transient_providers_for(trait)[last(q)].concrete, 0>>
            ELSE CHOOSE x \in Nearest(k, LAMBDA i : stored(i, q)) : TRUE>> : q \in quals}

\* The value of an edge: a set for a single one, a sequence for a collection, and
\* pairs of a qualifier and an instance for a keyed one.
Value(k, dep) ==
  CASE dep.card = "One"        -> resolve(k, dep)
    [] dep.card = "Collection" -> resolve_all(k, dep.ty)
    [] dep.card = "Keyed"      -> resolve_keyed(k, dep.ty)

\* The transient types constructed to give an edge its value.
Constructs(k, dep) ==
  CASE dep.card = "One" -> {x[1] : x \in {y \in resolve(k, dep) : y[2] = 0}}
    [] OTHER            -> {p.concrete : p \in Range(transient_providers_for(dep.ty))}

-----------------------------------------------------------------------------
(* Construction of one component, with the transient ones it needs.        *)

EagerDeps(ty) ==
  SelectSeq(dependencies(ByType(components, ty)), LAMBDA d : d.mode = "Eager" /\ ~d.config)

Recipes(k, ty) == UNION {Constructs(k, d) : d \in Range(EagerDeps(ty))}

\* The component and the transient ones built for it, transitively.
Involved(k, ty) ==
  LET Grow(acc, i) == acc \cup UNION {Recipes(k, t) : t \in acc}
  IN  FoldLeft(Grow, {ty}, components)

\* A required single edge of one of them finds nothing.
Unresolved(k, ty) ==
  \E t \in Involved(k, ty) : \E d \in Range(EagerDeps(t)) :
    requires_provider(d.card) /\ ~d.optional /\ resolve(k, d) = {}

DeferredEdges(k, ty) ==
  UNION {{d \in Range(dependencies(ByType(components, t))) : d.mode = "Deferred"} :
           t \in Involved(k, ty)}

\* Hydration resolves against the stored instances only.
HydrateFails(k, edges) == \E d \in edges : resolve_built(k, d) = {}

\* What a new instance of ty holds for each of its eager edges.
Captured(k, ty) == [i \in DOMAIN EagerDeps(ty) |-> Value(k, EagerDeps(ty)[i])]

\* The providers of a type that has landed are aliased under their traits.
register_providers_for(c, ty) ==
  [c EXCEPT !.built = @ \cup {ty}, !.providers = @ \o providers_for(reg, ty)]

-----------------------------------------------------------------------------
NoPlan == [singletons |-> <<>>, transient |-> <<>>, orders |-> <<>>, err |-> ""]

NoHandle == [at |-> <<>>, cell |-> 0, lock |-> "", made |-> 0, replaced |-> FALSE,
             pc |-> [c \in Callers |-> "idle"], got |-> [c \in Callers |-> 0]]

Init ==
  /\ reg \in Registries
  /\ components = <<>> /\ plan = NoPlan
  /\ stage = "new" /\ err = "" /\ depth = 0
  /\ containers = <<>>
  /\ lazy = NoHandle
  /\ fresh = "unused"

Fail(why) == stage' = "failed" /\ err' = why

\* AppBuilder::build: validate, resolve, partition; then the root's own order.
Plan ==
  LET resolved == resolved_components(reg)
      verdict  == validate(reg, resolved.chosen)
      scopes   == partition(reg, resolved.chosen)
  IN  /\ stage = "new"
      /\ IF resolved.err # "" THEN Fail(resolved.err) /\ UNCHANGED <<components, plan>>
         ELSE IF verdict # "ok" THEN Fail(verdict) /\ UNCHANGED <<components, plan>>
         ELSE /\ components' = resolved.chosen
              /\ plan' = scopes
              /\ IF scopes.err # "ok" THEN Fail(scopes.err)
                 ELSE stage' = "planned" /\ UNCHANGED err
      /\ UNCHANGED <<reg, depth, containers, lazy, fresh>>

\* Seeds land first, and their providers with them; then the order is built.
NewContainer(scope, seeds, order) ==
  FoldLeft(register_providers_for,
           [scope |-> scope, built |-> {}, providers |-> <<>>, held |-> <<>>,
            todo |-> order, deferred |-> {}, frozen |-> FALSE],
           seeds)

SeedsOf(scope) ==
  LET manual == SelectSeq(components, LAMBDA c : c.scope = scope /\ IsManual(c))
  IN  [i \in DOMAIN manual |-> manual[i].ty]

\* ScopeContainer::build_root.
StartRoot ==
  LET seeds == SeedsOf("Singleton")
      order == topological_sort(reg, plan.singletons, Range(seeds), transients)
  IN  /\ stage = "planned"
      /\ IF Len(order) < Len(plan.singletons) THEN Fail("DependencyCycle") /\ UNCHANGED containers
         ELSE /\ containers' = <<NewContainer("Singleton", seeds, order)>>
              /\ stage' = "building" /\ UNCHANGED err
      /\ UNCHANGED <<reg, components, plan, depth, lazy, fresh>>

\* ScopeContainer::open_child; an empty scope is its parent.
OpenChild ==
  LET scope == Chain[depth + 1]
      order == plan.orders[depth + 1]
      seeds == SeedsOf(scope)
  IN  /\ stage = "serving" /\ depth < Len(Chain)
      /\ depth' = depth + 1
      /\ IF order = <<>> /\ seeds = <<>> THEN UNCHANGED <<containers, stage>>
         ELSE /\ containers' = Append(containers, NewContainer(scope, seeds, order))
              /\ stage' = "building"
      /\ UNCHANGED <<reg, components, plan, err, lazy, fresh>>

Top == Len(containers)

\* One component of the order: its factory runs, or its seed must be there.
Construct ==
  LET c == Head(containers[Top].todo)
      after == register_providers_for([containers[Top] EXCEPT !.todo = Tail(@)], c.ty)
  IN  /\ stage = "building" /\ containers[Top].todo # <<>>
      /\ IF IF IsManual(c) THEN c.ty \notin containers[Top].built ELSE Unresolved(Top, c.ty)
         THEN Fail("MissingComponent") /\ UNCHANGED containers
         ELSE IF IsManual(c)
         THEN containers' = [containers EXCEPT ![Top] = after] /\ UNCHANGED <<stage, err>>
         ELSE /\ containers' = [containers EXCEPT ![Top] =
                   [after EXCEPT !.held = Append(@, [ty |-> c.ty, deps |-> Captured(Top, c.ty)]),
                                 !.deferred = @ \cup DeferredEdges(Top, c.ty)]]
              /\ UNCHANGED <<stage, err>>
      /\ UNCHANGED <<reg, components, plan, depth, lazy, fresh>>

\* External: a factory of the application returns an error, and the build with it.
FactoryFails ==
  /\ stage = "building" /\ containers[Top].todo # <<>>
  /\ ~IsManual(Head(containers[Top].todo))
  /\ Fail("factory")
  /\ UNCHANGED <<reg, components, plan, depth, containers, lazy, fresh>>

\* The container is frozen, attached to its slot, and its deferred handles hydrate.
Freeze ==
  /\ stage = "building" /\ containers[Top].todo = <<>>
  /\ containers' = [containers EXCEPT ![Top].frozen = TRUE]
  /\ IF HydrateFails(Top, containers[Top].deferred) THEN Fail("NotHydrated")
     ELSE stage' = "serving" /\ UNCHANGED err
  /\ UNCHANGED <<reg, components, plan, depth, lazy, fresh>>

-----------------------------------------------------------------------------
(* Lazy handles: one handle of a stored component, used by several tasks.  *)

LazyEdges ==
  UNION {UNION {{<<k, d>> : d \in {e \in Range(dependencies(ByType(components, h.ty))) :
                                     e.mode = "Lazy" /\ ~e.config}} :
                  h \in Range(containers[k].held)} :
           k \in {i \in 1..Top : containers[i].frozen}}

Otherwise == UNCHANGED <<reg, components, plan, stage, err, depth, containers, fresh>>

\* get_or_create finds the cache filled, or goes for the lock.
GetOrCreate(c) ==
  /\ lazy.pc[c] = "idle"
  /\ \E e \in LazyEdges :
       /\ lazy.at \in {<<>>, e}
       /\ lazy' = IF lazy.cell # 0
                  THEN [lazy EXCEPT !.pc[c] = "done", !.got[c] = lazy.cell]
                  ELSE [lazy EXCEPT !.at = e, !.pc[c] = "locking"]
  /\ Otherwise

\* Mutant: the lock alone.
NotLookedAgain == FALSE

\* With the lock held the cache is looked at again.
CachedMeanwhile == lazy.cell # 0

\* The slot's weak reference is upgraded before resolving.
Upgraded(c, next) == IF stage = "closed" THEN "unavailable" ELSE next

Lock(c) ==
  /\ lazy.pc[c] = "locking" /\ lazy.lock = ""
  /\ lazy' = IF CachedMeanwhile
             THEN [lazy EXCEPT !.pc[c] = "done", !.got[c] = lazy.cell]
             ELSE [lazy EXCEPT !.pc[c] = Upgraded(c, "creating"),
                               !.lock = IF stage = "closed" THEN "" ELSE c]
  /\ Otherwise

\* create() on its own: no lock, and the cache is replaced.
Create(c) ==
  /\ lazy.pc[c] = "idle" /\ lazy.at # <<>>
  /\ lazy' = [lazy EXCEPT !.pc[c] = Upgraded(c, "replacing")]
  /\ Otherwise

\* Extracting an edge from a finished container.
ExtractFails(k, d) ==
  \/ requires_provider(d.card) /\ ~d.optional /\ resolve(k, d) = {}
  \/ \E t \in Constructs(k, d) : Unresolved(k, t) \/ HydrateFails(k, DeferredEdges(k, t))

\* The resolved value is stored and returned; an error leaves the cache alone.
Publish(c) ==
  LET made == lazy.made + 1
      freed == IF lazy.lock = c THEN "" ELSE lazy.lock
  IN  /\ lazy.pc[c] \in {"creating", "replacing"} /\ made <= MaxValues
      /\ lazy' = IF ExtractFails(lazy.at[1], lazy.at[2])
                 THEN [lazy EXCEPT !.pc[c] = "failed", !.lock = freed]
                 ELSE [lazy EXCEPT !.made = made, !.cell = made, !.got[c] = made,
                         !.pc[c] = "done", !.lock = freed,
                         !.replaced = @ \/ lazy.pc[c] = "replacing"]
      /\ Otherwise

-----------------------------------------------------------------------------
(* Fresh handles re-run factories without touching what is stored.         *)

\* Scopes on the path are told apart by name.
can_access(k, scope) == is_transient(scope) \/ \E i \in 1..k : containers[i].scope = scope

factory_backed(ty) == ty \in TypesOf(components) /\ ~IsManual(ByType(components, ty))

\* Rebuilding ty for a finished container.
RebuildFails(k, ty) == Unresolved(k, ty) \/ HydrateFails(k, DeferredEdges(k, ty))

\* fresh_arc: the type itself, or the provider selected for it.
FreshSingleFails(k, dep) ==
  LET target == IF factory_backed(dep.ty) THEN {dep.ty}
                ELSE {p.concrete : p \in select_provider_for(dep, providers_for_trait(reg, dep.ty))}
  IN  \/ target = {} /\ ~dep.optional
      \/ \E ty \in target :
           \/ ~factory_backed(ty)
           \/ IF can_access(k, ScopeOf(components, ty)) THEN RebuildFails(k, ty) ELSE ~dep.optional

\* fresh_construct_all: every provider needs a factory, even one it then skips.
FreshAllFails(k, dep) ==
  \E p \in Range(providers_for_trait(reg, dep.ty)) :
    \/ ~factory_backed(p.concrete)
    \/ can_access(k, ScopeOf(components, p.concrete)) /\ RebuildFails(k, p.concrete)

FreshCreate ==
  /\ stage = "serving" /\ fresh = "unused"
  /\ \E k \in 1..Top : \E h \in Range(containers[k].held) :
       \E d \in Range(dependencies(ByType(components, h.ty))) :
         /\ d.mode = "Fresh"
         /\ fresh' = IF IF d.card = "One" THEN FreshSingleFails(k, d) ELSE FreshAllFails(k, d)
                     THEN "failed" ELSE "made"
  /\ UNCHANGED <<reg, components, plan, stage, err, depth, containers, lazy>>

\* The owner drops the scopes; handles that outlive them keep a weak reference.
Close ==
  /\ stage = "serving" /\ stage' = "closed"
  /\ UNCHANGED <<reg, components, plan, err, depth, containers, lazy, fresh>>

Next ==
  \/ Plan \/ StartRoot \/ OpenChild \/ Construct \/ FactoryFails \/ Freeze \/ FreshCreate \/ Close
  \/ \E c \in Callers : GetOrCreate(c) \/ Lock(c) \/ Create(c) \/ Publish(c)

Spec == Init /\ [][Next]_vars

-----------------------------------------------------------------------------
(* Properties.                                                             *)

\* The component and the transient ones built for it along edges that are not optional.
Needed(k, ty) ==
  LET required(t) == {d \in Range(EagerDeps(t)) : ~d.optional}
      Grow(acc, i) == acc \cup UNION {UNION {Constructs(k, d) : d \in required(t)} : t \in acc}
  IN  FoldLeft(Grow, {ty}, components)

\* Only transient components can answer the edge, which names a trait: no scope stores those.
OnlyRecipes(d) ==
  /\ d.ty \notin TypesOf(components)
  /\ \A p \in Range(providers_for_trait(reg, d.ty)) :
       d.qualifier \in {NoQualifier, p.qualifier} => is_transient(ScopeOf(components, p.concrete))

\* A registry that passed validation and was put in order never fails for want of a
\* component, with two exceptions.  A seed is there when its turn comes and every factory
\* finds what its edges require, those of the recipes they need included, except that an
\* optional edge imposes no order: a recipe behind one may run before what it needs is
\* built, and fails the build.  Every deferred handle hydrates, except one to a trait that
\* only transient components provide.  Lazy and fresh handles resolve.  And a registry
\* refused for the order of its providers is refused rightly: no arrangement of them
\* satisfies the order they ask for.
\* (validate_dependencies, validate_fresh, topological_sort, order::build, ScopeContainer::build)
ValidatedBuilds ==
  /\ err = "MissingComponent" =>
       LET c == Head(containers[Top].todo)
       IN  /\ ~IsManual(c)
           /\ \A t \in Needed(Top, c.ty) : \A d \in Range(EagerDeps(t)) :
                requires_provider(d.card) /\ ~d.optional => resolve(Top, d) # {}
  /\ err = "NotHydrated" =>
       \A d \in containers[Top].deferred : resolve_built(Top, d) = {} => OnlyRecipes(d)
  /\ fresh # "failed" /\ \A c \in Callers : lazy.pc[c] # "failed"
  /\ err = "ProviderOrder" /\ ~BadOrderTarget(reg, resolved_components(reg).chosen) /\ ~BadOrderTrait(reg) =>
       \E t \in {p.trait : p \in Range(reg.providers)} :
         LET concretes == {p.concrete : p \in Range(providers_for_trait(reg, t))}
         IN  \A place \in [concretes -> 1..Cardinality(concretes)] :
               \E e \in OrderEdges(reg, t) : place[e[1]] >= place[e[2]]

\* What a component captured while its scope was half built is what the finished
\* scope resolves for the same edge: the construction order waits for exactly the
\* providers that resolution selects.  A collection has the order its providers ask
\* for, whatever scopes they live in.  (WaitExpansion, dep_ready, resolve, resolve_all)
CaptureAgrees ==
  \A k \in 1..Len(containers) : containers[k].frozen =>
    \A h \in Range(containers[k].held) : \A i \in DOMAIN h.deps :
      LET d == EagerDeps(h.ty)[i] IN
      /\ Ordering(d) => h.deps[i] = Value(k, d)
      /\ d.card = "Collection" =>
           \A x, y \in DOMAIN h.deps[i] :
             <<h.deps[i][x][1], h.deps[i][y][1]>> \in OrderEdges(reg, d.ty) => x < y

\* Callers of get_or_create agree on one value unless create replaced it.  (Lazy)
LazyAgrees ==
  \A c, d \in Callers :
    lazy.got[c] # 0 /\ lazy.got[d] # 0 => lazy.got[c] = lazy.got[d] \/ lazy.replaced
=============================================================================
