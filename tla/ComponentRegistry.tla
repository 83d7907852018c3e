------------------------- MODULE ComponentRegistry -------------------------
(***************************************************************************)
(* The dependency-injection engine's registry: the descriptors of an       *)
(* application, their validation, the order of trait providers, and the    *)
(* construction order of each scope.  Everything here is a pure function   *)
(* of the descriptors; ScopeContainer builds and resolves from it.         *)
(*                                                                         *)
(* A type is a natural number, ordered like its name.  A descriptor is     *)
(*   component  [id, ty, scope, factories]                                 *)
(*   factory    [default, deps]         deps is a sequence of edges        *)
(*   edge       [ty, card, optional, dynamic, config, qualifier, mode]     *)
(*   provider   [trait, concrete, qualifier, primary, priority, ordering]  *)
(*   ordering   a sequence of [target, traits, before]                     *)
(* and a registry is [components, providers], both sequences.  An Option   *)
(* is a set with at most one element.                                      *)
(***************************************************************************)
EXTENDS Integers, FiniteSets, SequencesExt

CONSTANTS
  ScopeRank,  \* lifetime rank of every scope name
  Chain       \* the scopes the protocol opens, outermost first (P::SCOPES)

ASSUME ScopesAssumption ==
  /\ {"Singleton", "Transient"} \subseteq DOMAIN ScopeRank
  /\ \A s \in DOMAIN ScopeRank \ {"Singleton", "Transient"} :
       ScopeRank["Transient"] < ScopeRank[s] /\ ScopeRank[s] < ScopeRank["Singleton"]
  /\ Range(Chain) \subseteq DOMAIN ScopeRank \ {"Singleton", "Transient"}

NoQualifier == "none"

is_transient(scope) == scope = "Transient"

requires_provider(card) == card = "One"

\* Whether a consumer-scoped component may hold a dependency-scoped one.
scope_allows(consumer, dependency) ==
  \/ is_transient(dependency)
  \/ IF is_transient(consumer)
     THEN ScopeRank[dependency] = ScopeRank["Singleton"]
     ELSE ScopeRank[dependency] >= ScopeRank[consumer]

-----------------------------------------------------------------------------
(* Factories and the descriptor that stands for a type.                    *)

ExplicitFactories(c) == SelectSeq(c.factories, LAMBDA f : ~f.default)

AmbiguousFactory(c) == Len(c.factories) # 1 /\ Len(ExplicitFactories(c)) > 1

\* The explicit factory if there is one, else the default, else none.
effective_factory(c) ==
  IF Len(c.factories) = 1 THEN {c.factories[1]}
  ELSE IF ExplicitFactories(c) # <<>> THEN {ExplicitFactories(c)[1]}
  ELSE LET defaults == SelectSeq(c.factories, LAMBDA f : f.default)
       IN  IF defaults = <<>> THEN {} ELSE {defaults[1]}

IsManual(c) == effective_factory(c) = {}

dependencies(c) ==
  IF AmbiguousFactory(c) \/ IsManual(c) THEN <<>>
  ELSE (CHOOSE f \in effective_factory(c) : TRUE).deps

\* One descriptor per type, at the position of the first: an instance provided
\* by hand replaces a constructed one, two of the same kind are an error.
resolved_components(reg) ==
  LET Step(acc, c) ==
        LET at == {i \in DOMAIN acc.chosen : acc.chosen[i].ty = c.ty}
        IN  IF acc.err # "" THEN acc
            ELSE IF AmbiguousFactory(c) THEN [acc EXCEPT !.err = "AmbiguousFactory"]
            ELSE IF at = {} THEN [acc EXCEPT !.chosen = Append(@, c)]
            ELSE LET i == CHOOSE i \in at : TRUE
                     old == acc.chosen[i]
                 IN  IF IsManual(c) /\ ~IsManual(old)
                     THEN [acc EXCEPT !.chosen[i] = c]
                     ELSE IF IsManual(c) = IsManual(old) /\ old.id # c.id
                     THEN [acc EXCEPT !.err = "DuplicateComponentType"]
                     ELSE acc
  IN  FoldLeft(Step, [chosen |-> <<>>, err |-> ""], reg.components)

-----------------------------------------------------------------------------
(* Lookups shared by validation, ordering and resolution.                  *)

TypesOf(components) == {components[i].ty : i \in DOMAIN components}

ByType(components, ty) == CHOOSE c \in Range(components) : c.ty = ty

ScopeOf(components, ty) == ByType(components, ty).scope

providers_for_trait(reg, ty) == SelectSeq(reg.providers, LAMBDA p : p.trait = ty)

providers_for(reg, ty) == SelectSeq(reg.providers, LAMBDA p : p.concrete = ty)

\* The sole provider, or the unique primary one.
select_single_provider(providers) ==
  IF Len(providers) = 1 THEN {providers[1]}
  ELSE LET primaries == SelectSeq(providers, LAMBDA p : p.primary)
       IN  IF Len(primaries) = 1 THEN {primaries[1]} ELSE {}

\* The provider a single edge selects among providers of its trait.
select_provider_for(dep, providers) ==
  IF dep.qualifier = NoQualifier THEN select_single_provider(providers)
  ELSE LET matching == SelectSeq(providers, LAMBDA p : p.qualifier = dep.qualifier)
       IN  IF matching = <<>> THEN {} ELSE {matching[1]}

\* Scopes of whatever an edge may be given: the component of that type, or every
\* registered component that provides it as a trait.
EdgeScopes(reg, components, dep) ==
  IF dep.ty \in TypesOf(components) THEN {ScopeOf(components, dep.ty)}
  ELSE {ScopeOf(components, p.concrete) :
          p \in {q \in Range(providers_for_trait(reg, dep.ty)) :
                   q.concrete \in TypesOf(components)}}

-----------------------------------------------------------------------------
(* Validation: each part says what it rejects.                             *)

DuplicateIds(components) ==
  \E i, j \in DOMAIN components : i # j /\ components[i].id = components[j].id

\* A single dependency no component or provider can satisfy.
MissingDependency(reg, components, dep) ==
  LET providers == providers_for_trait(reg, dep.ty)
  IN  /\ ~dep.config
      /\ IF dep.qualifier # NoQualifier
         THEN ~dep.dynamic /\ \A p \in Range(providers) : p.qualifier # dep.qualifier
         ELSE /\ requires_provider(dep.card) /\ ~dep.optional /\ ~dep.dynamic
              /\ dep.ty \notin TypesOf(components) /\ providers = <<>>

\* Several providers, and not exactly one of them primary.
AmbiguousDependency(reg, dep) ==
  LET providers == providers_for_trait(reg, dep.ty)
  IN  /\ ~dep.config /\ dep.qualifier = NoQualifier
      /\ dep.card = "One" /\ ~dep.dynamic
      /\ Len(providers) > 1
      /\ select_single_provider(providers) = {}

DuplicateProviderQualifier(reg, components) ==
  \E i, j \in DOMAIN reg.providers :
    LET p == reg.providers[i]
        q == reg.providers[j]
    IN  /\ i # j
        /\ {p.concrete, q.concrete} \subseteq TypesOf(components)
        /\ p.trait = q.trait /\ p.qualifier = q.qualifier
        /\ ScopeOf(components, p.concrete) = ScopeOf(components, q.concrete)

\* The providers a deferred edge of consumer may hydrate to: stored ones if there
\* are any, and only those whose scope the consumer can see.
DeferredCandidates(reg, components, consumer, dep) ==
  LET known(p)  == p.concrete \in TypesOf(components)
      scope(p)  == ScopeOf(components, p.concrete)
      matching  == SelectSeq(providers_for_trait(reg, dep.ty),
                     LAMBDA p : dep.qualifier \in {NoQualifier, p.qualifier})
      scoped    == SelectSeq(matching, LAMBDA p : known(p) => ~is_transient(scope(p)))
  IN  SelectSeq(IF scoped = <<>> THEN matching ELSE scoped,
        LAMBDA p : known(p) /\ ScopeRank[scope(p)] >= ScopeRank[consumer.scope])

\* A deferred edge must reach a stored component.  Candidates are grouped by scope
\* and the nearest group that selects one wins, as hydration does it.
BadDeferred(reg, components, consumer, dep) ==
  LET candidates == DeferredCandidates(reg, components, consumer, dep)
      group(s)   == SelectSeq(candidates, LAMBDA p : ScopeOf(components, p.concrete) = s)
      scopes     == {ScopeOf(components, p.concrete) : p \in Range(candidates)}
      selecting  == {s \in scopes : select_provider_for(dep, group(s)) # {}}
      nearest    == {s \in selecting : \A t \in selecting : ScopeRank[s] <= ScopeRank[t]}
  IN  /\ dep.mode = "Deferred"
      /\ IF dep.ty \in TypesOf(components) THEN is_transient(ScopeOf(components, dep.ty))
         ELSE \/ scopes # {} /\ selecting = {}
              \/ "Transient" \in nearest

\* The components a fresh edge may have to rebuild.
fresh_targets(reg, components, dep) ==
  IF dep.ty \in TypesOf(components) THEN {ByType(components, dep.ty)}
  ELSE {ByType(components, p.concrete) :
          p \in {q \in Range(providers_for_trait(reg, dep.ty)) :
                   /\ dep.qualifier \in {NoQualifier, q.qualifier}
                   /\ q.concrete \in TypesOf(components)}}

\* A fresh edge must have factories, and what they need must be visible from the consumer.
BadFresh(reg, components, consumer, dep) ==
  /\ dep.mode = "Fresh"
  /\ \E target \in fresh_targets(reg, components, dep) :
       IF ~scope_allows(consumer.scope, target.scope) THEN dep.card = "One"
       ELSE \/ IsManual(target)
            \/ \E e \in Range(dependencies(target)) :
                 /\ e.mode = "Eager" /\ ~e.dynamic /\ ~e.config
                 /\ \E s \in EdgeScopes(reg, components, e) : ~scope_allows(consumer.scope, s)

\* The captive-dependency rule.
ScopeViolation(reg, components, consumer, dep) ==
  /\ ~dep.dynamic /\ ~dep.config /\ dep.mode # "Fresh"
  /\ \E s \in EdgeScopes(reg, components, dep) : ~scope_allows(consumer.scope, s)
-----------------------------------------------------------------------------
(* The global order of the providers of each trait.                        *)

\* The orderings of a source are read from its first provider descriptor.
BadOrderTarget(reg, components) ==
  \E ty \in {p.concrete : p \in Range(reg.providers)} :
    \E o \in Range(providers_for(reg, ty)[1].ordering) :
      \/ o.target \notin TypesOf(components)
      \/ o.target = ty
      \/ \E t \in Range(o.traits) : \A p \in Range(providers_for(reg, ty)) : p.trait # t

\* Orderings that apply to a trait: unscoped ones, and those that name it.
Applicable(p) == {o \in Range(p.ordering) : o.traits = <<>> \/ p.trait \in Range(o.traits)}

\* An ordering that names the trait must have a target that provides it.
BadOrderTrait(reg) ==
  \E p \in Range(reg.providers) : \E o \in Applicable(p) :
    /\ o.traits # <<>>
    /\ \A q \in Range(providers_for_trait(reg, p.trait)) : q.concrete # o.target

\* The pairs <<x, y>> of concrete types such that x comes before y.
OrderEdges(reg, trait) ==
  LET providers == Range(providers_for_trait(reg, trait))
      concretes == {p.concrete : p \in providers}
  IN  UNION {{IF o.before THEN <<p.concrete, o.target>> ELSE <<o.target, p.concrete>> :
                o \in {x \in Applicable(p) : x.target \in concretes}} : p \in providers}

\* Priority, then the name of the type, then the qualifier (equal here: one
\* concrete type gives a trait once).
Precedes(p, q) == p.priority < q.priority \/ (p.priority = q.priority /\ p.concrete < q.concrete)

\* Kahn's algorithm: repeatedly the least provider no unplaced one must precede.
\* The result is short of providers when the constraints form a cycle.
ordered(reg, trait) ==
  LET providers == providers_for_trait(reg, trait)
      edges     == OrderEdges(reg, trait)
      Step(acc, k) ==
        LET free == {p \in Range(providers) :
                       /\ p.concrete \notin Range(acc)
                       /\ \A e \in edges : e[2] = p.concrete => e[1] \in Range(acc)}
            least == {p \in free : \A q \in free \ {p} : Precedes(p, q)}
        IN  IF least = {} THEN acc
            ELSE Append(acc, (CHOOSE p \in least : TRUE).concrete)
  IN  FoldLeft(Step, <<>>, providers)

ProviderOrderCycle(reg) ==
  \E t \in {p.trait : p \in Range(reg.providers)} :
    Len(ordered(reg, t)) < Len(providers_for_trait(reg, t))

provider_ordinal(reg, p) == CHOOSE i \in DOMAIN ordered(reg, p.trait) : ordered(reg, p.trait)[i] = p.concrete

-----------------------------------------------------------------------------
\* The checks in the order validate makes them; the first that rejects wins.
validate(reg, components) ==
  LET someEdge(Bad(_, _)) ==
        \E c \in Range(components) : \E d \in Range(dependencies(c)) : Bad(c, d)
  IN  IF DuplicateIds(components) THEN "DuplicateComponentId"
      ELSE IF someEdge(LAMBDA c, d : MissingDependency(reg, components, d) \/ AmbiguousDependency(reg, d))
      THEN "UnsatisfiedDependency"
      ELSE IF DuplicateProviderQualifier(reg, components) THEN "DuplicateProviderQualifier"
      ELSE IF someEdge(LAMBDA c, d : BadDeferred(reg, components, c, d)) THEN "DeferredDependency"
      ELSE IF someEdge(LAMBDA c, d : BadFresh(reg, components, c, d)) THEN "FreshDependency"
      ELSE IF BadOrderTarget(reg, components) \/ BadOrderTrait(reg) \/ ProviderOrderCycle(reg)
      THEN "ProviderOrder"
      ELSE IF someEdge(LAMBDA c, d : ScopeViolation(reg, components, c, d)) THEN "ScopeViolation"
      ELSE "ok"

-----------------------------------------------------------------------------
(* Construction order of one scope.                                        *)

\* Only such edges constrain the order.
Ordering(dep) == ~dep.optional /\ ~dep.dynamic /\ ~dep.config /\ dep.mode = "Eager"

\* Mutant: a trait edge waits for stored providers, never for what a recipe needs.
StoredOnly(reg, transients, sortable) ==
  LET types == {p.trait : p \in Range(reg.providers)} \cup {p.concrete : p \in Range(reg.providers)}
  IN  [n \in {"provider", "trait"} \X types |->
         IF n[1] = "provider" THEN {n[2]} \cap sortable
         ELSE {p.concrete : p \in Range(providers_for_trait(reg, n[2]))} \cap sortable]

\* What a provider, a trait edge and a transient recipe have to wait for among the
\* sortable types.  A node is <<kind, type>>; visiting cuts cycles of transients.
WaitExpansion(reg, transients, sortable) ==
  LET types == {p.trait : p \in Range(reg.providers)} \cup {p.concrete : p \in Range(reg.providers)}
                 \cup TypesOf(transients)
      local(ps) == SelectSeq(ps, LAMBDA p : p.concrete \in sortable)
      Waits[n \in {"provider", "trait", "expand"} \X types, visiting \in SUBSET types] ==
        LET kind == n[1]
            ty   == n[2]
            inner == visiting \cup {ty}
            ofProviders(ps, v) == UNION {Waits[<<"provider", p.concrete>>, v] : p \in ps}
            single(dep, ps) ==
              LET global == select_provider_for(dep, ps)
                  chosen == select_provider_for(dep, local(ps))
              IN  IF \E p \in global : p.concrete \in TypesOf(transients) THEN ofProviders(global, inner)
                  ELSE IF chosen # {} THEN ofProviders(chosen, inner)
                  ELSE IF dep.qualifier # NoQualifier THEN {}
                  ELSE ofProviders(Range(local(ps)), inner)
            ofDep(dep) ==
              LET ps == providers_for_trait(reg, dep.ty)
              IN  IF dep.ty \in sortable THEN {dep.ty}
                  ELSE IF ps # <<>>
                  THEN IF dep.card = "One" THEN single(dep, ps) ELSE Waits[<<"trait", dep.ty>>, inner]
                  ELSE IF dep.ty \in TypesOf(transients) THEN Waits[<<"expand", dep.ty>>, inner]
                  ELSE {}
        IN  CASE kind = "provider" ->
                   IF ty \in sortable THEN {ty}
                   ELSE IF ty \in TypesOf(transients) THEN Waits[<<"expand", ty>>, visiting] ELSE {}
              [] kind = "trait" ->
                   IF ty \in visiting THEN {}
                   ELSE ofProviders(Range(providers_for_trait(reg, ty)), inner)
              [] kind = "expand" ->
                   IF ty \in visiting THEN {}
                   ELSE UNION {ofDep(d) : d \in {e \in Range(dependencies(ByType(transients, ty))) :
                                                   Ordering(e)}}
  IN  [n \in {"provider", "trait"} \X types |-> Waits[n, {}]]

\* Mutant: only concrete edges wait.
ConcreteReady(reg, dep, waits, sortable, transients, built) ==
  providers_for_trait(reg, dep.ty) = <<>> /\ dep.card = "One" => dep.ty \in built

\* Whether everything an edge waits for is in built.
dep_ready(reg, dep, waits, sortable, transients, built) ==
  LET providers == providers_for_trait(reg, dep.ty)
      local     == SelectSeq(providers, LAMBDA p : p.concrete \in sortable)
      ready(ps) == \A p \in ps : waits[<<"provider", p.concrete>>] \subseteq built
      selected  == select_provider_for(dep, providers)
      chosen    == select_provider_for(dep, local)
  IN  IF providers = <<>> THEN dep.card = "One" => dep.ty \in built
      ELSE IF dep.card # "One" THEN waits[<<"trait", dep.ty>>] \subseteq built
      ELSE IF \E p \in selected : p.concrete \in TypesOf(transients) THEN ready(selected)
      ELSE IF chosen # {} THEN ready(chosen)
      ELSE IF dep.qualifier # NoQualifier THEN TRUE
      ELSE ready(Range(local))

\* Passes over what remains, each taking every component that has become ready; it
\* stops when a pass takes nothing.  Shorter than components: a dependency cycle.
topological_sort(reg, components, prebuilt, transients) ==
  LET sortable == TypesOf(components)
      waits    == WaitExpansion(reg, transients, sortable)
      Take(acc, c) ==
        LET built == prebuilt \cup TypesOf(acc)
        IN  IF /\ c.ty \notin TypesOf(acc)
               /\ \A d \in Range(dependencies(c)) :
                    Ordering(d) => dep_ready(reg, d, waits, sortable, transients, built)
            THEN Append(acc, c) ELSE acc
      Pass(acc, k) == FoldLeft(Take, acc, components)
  IN  FoldLeft(Pass, <<>>, components)

\* The split of the components by scope, and each scope's construction order.
partition(reg, components) ==
  LET inScope(s) == SelectSeq(components, LAMBDA c : c.scope = s)
      made(s)    == SelectSeq(inScope(s), LAMBDA c : ~IsManual(c))
      transients == inScope("Transient")
      singletons == inScope("Singleton")
      seeded     == {c.ty : c \in {x \in Range(components) :
                       x.scope \notin {"Singleton", "Transient"} /\ IsManual(x)}}
      Step(acc, s) ==
        LET order == topological_sort(reg, made(s), acc.prebuilt, transients)
        IN  [prebuilt |-> acc.prebuilt \cup TypesOf(order),
             orders   |-> Append(acc.orders, order),
             stuck    |-> acc.stuck \/ Len(order) < Len(made(s))]
      scoped == FoldLeft(Step, [prebuilt |-> seeded \cup TypesOf(singletons),
                                orders |-> <<>>, stuck |-> FALSE], Chain)
  IN  [singletons |-> singletons, transient |-> transients, orders |-> scoped.orders,
       err |-> IF scoped.stuck THEN "DependencyCycle"
               ELSE IF \E c \in Range(components) :
                         /\ c.scope \notin {"Singleton", "Transient"} \cup Range(Chain)
                         /\ ~IsManual(c)
               THEN "UndeclaredScope" ELSE "ok"]
=============================================================================
