--------------------------- MODULE ConfigManager ---------------------------
(***************************************************************************)
(* ConfigManager (config/src/managed/source.rs): load and merge of the     *)
(* source files, registration and seeding of bindings, the typed read with *)
(* its snapshot, and a reload of the whole from changed files, with the    *)
(* environment changing under it. ConfigReload has the same reload in      *)
(* small steps with its hooks and triggers, over opaque values.            *)
(***************************************************************************)
EXTENDS ConfigResolve

CONSTANTS
    Stems,       \* the files of the base and the active profiles, in merge order
    Documents,   \* what a file may hold; NoNode when there is none
    Types,       \* the config types: name -> [spec, shape]
    Bindings,    \* the [type, path] pairs the program may register
    Environments,\* what the resolver chain may answer: sequences of functions
    MaxEdits,    \* bound: edits of a file
    MaxBinds     \* bound: registrations, repeated ones included

ASSUME ManagerAssumption ==
    /\ Bindings \subseteq [type : DOMAIN Types, path : Seq(STRING)]
    /\ MaxEdits \in Nat /\ MaxBinds \in Nat

VARIABLES
    cfgPhase,    \* "start", "loaded", or the error that ended the load
    cfgFiles,    \* what each file holds
    cfgSources,  \* the files that were there at load, in merge order
    cfgRoot,     \* ConfigManager::root
    cfgBound,    \* ConfigManager::bindings
    cfgLive,     \* binding -> its committed value and snapshot
    cfgChain,    \* what the resolvers answer now
    cfgEdits, cfgBinds

configVars == <<cfgPhase, cfgFiles, cfgSources, cfgRoot, cfgBound, cfgLive, cfgChain, cfgEdits,
                cfgBinds>>

Malformed == [k |-> "malformed"]
SpecOf(b) == Types[b.type].spec
Seedable(bound) == [i \in DOMAIN bound |-> [path |-> bound[i].path, spec |-> SpecOf(bound[i])]]

ConfigOff ==
    /\ cfgPhase = "off" /\ cfgFiles = <<>> /\ cfgSources = <<>> /\ cfgRoot = EmptyTable
    /\ cfgBound = <<>> /\ cfgLive = <<>> /\ cfgChain = <<>> /\ cfgEdits = 0 /\ cfgBinds = 0

ConfigInit ==
    /\ cfgPhase = "start" /\ cfgFiles \in [DOMAIN Stems -> Documents]
    /\ cfgSources = <<>> /\ cfgRoot = EmptyTable /\ cfgBound = <<>> /\ cfgLive = <<>>
    /\ cfgChain \in Environments /\ cfgEdits = 0 /\ cfgBinds = 0

(* Merges the files in order; an absent or malformed one is an error here. *)
MergeAll(order) == FoldLeft(LAMBDA tree, i : merge_into(tree, cfgFiles[i]), EmptyTable, order)
Unreadable(order) == \E i \in DOMAIN order : cfgFiles[order[i]] \in {NoNode, Malformed}

(* load_in: merge_stem skips a file that is not there. *)
load_in ==
    LET present == SelectSeq([i \in DOMAIN Stems |-> i], LAMBDA i : cfgFiles[i] # NoNode) IN
    /\ cfgPhase = "start"
    /\ IF Unreadable(present) THEN cfgPhase' = "Parse" /\ UNCHANGED <<cfgSources, cfgRoot>>
       ELSE cfgPhase' = "loaded" /\ cfgSources' = present /\ cfgRoot' = MergeAll(present)
    /\ UNCHANGED <<cfgFiles, cfgBound, cfgLive, cfgChain, cfgEdits, cfgBinds>>

(* register_binding and with_config: push_binding unless the type has the
   path already, then every binding is seeded again. *)
register_binding(b) ==
    /\ cfgPhase = "loaded" /\ cfgLive = <<>> /\ cfgBinds < MaxBinds
    /\ cfgBound' = IF b \in Range(cfgBound) THEN cfgBound ELSE Append(cfgBound, b)
    /\ cfgRoot' = seed_defaults_into(cfgRoot, Seedable(cfgBound'))
    /\ cfgBinds' = cfgBinds + 1
    /\ UNCHANGED <<cfgPhase, cfgFiles, cfgSources, cfgLive, cfgChain, cfgEdits>>

(* The tree a binding resolves against: its filled subtree is put at its path. *)
ReadRoot(base, path, subtree) ==
    IF PathFree(base, path) THEN put(base, path, subtree) ELSE base

(* get_config_in_with_snapshot *)
get_config(base, b) ==
    LET raw == lookup_path(base, b.path)
        subtree == fill_missing(IF raw = NoNode THEN EmptyTable ELSE raw, SpecOf(b))
        r == deserialize(ReadRoot(base, b.path, subtree), cfgChain, subtree, Types[b.type].shape, Fresh)
    IN IF raw = NoNode /\ SpecOf(b).kind = "none" THEN Fail(Fresh, "MissingPath")
       ELSE r

Committed(base, b) ==
    LET r == get_config(base, b) IN
    [value |-> r.out, raw |-> lookup_path(base, b.path), resolved |-> r.ctx.deps]

(* The daemon builds its Cfg<T> injectables; any error ends the build. *)
BuildBindings ==
    /\ cfgPhase = "loaded" /\ cfgBound # <<>> /\ cfgLive = <<>>
    /\ IF \E b \in Range(cfgBound) : get_config(cfgRoot, b).err # ""
       THEN cfgPhase' = "Substitution" /\ UNCHANGED cfgLive
       ELSE cfgLive' = [b \in Range(cfgBound) |-> Committed(cfgRoot, b)] /\ UNCHANGED cfgPhase
    /\ UNCHANGED <<cfgFiles, cfgSources, cfgRoot, cfgBound, cfgChain, cfgEdits, cfgBinds>>

(* External: an edit, a deletion or a half-written file, a changed variable. *)
EditFile(i, doc) ==
    /\ cfgLive # <<>> /\ cfgEdits < MaxEdits /\ doc # cfgFiles[i]
    /\ cfgFiles' = [cfgFiles EXCEPT ![i] = doc] /\ cfgEdits' = cfgEdits + 1
    /\ UNCHANGED <<cfgPhase, cfgSources, cfgRoot, cfgBound, cfgLive, cfgChain, cfgBinds>>

ChangeEnvironment(chain) ==
    /\ cfgLive # <<>> /\ cfgEdits < MaxEdits /\ chain # cfgChain
    /\ cfgChain' = chain /\ cfgEdits' = cfgEdits + 1
    /\ UNCHANGED <<cfgPhase, cfgFiles, cfgSources, cfgRoot, cfgBound, cfgLive, cfgBinds>>

(* reread: the retained sources only, merged from empty and seeded. *)
reread == seed_defaults_into(MergeAll(cfgSources), Seedable(cfgBound))

(* Mutant of SameResolved: only the raw subtree is compared. *)
RawOnly(base, committed) == TRUE

(* Every placeholder the committed pass consumed, resolved again in one context. *)
SameResolved(base, committed) ==
    FoldLeft(LAMBDA acc, d :
                LET r == resolve_placeholder(base, cfgChain, d.placeholder, acc.ctx, <<>>) IN
                [ctx |-> r.ctx, same |-> acc.same /\ r.err = "" /\ r.out = d.value],
             [ctx |-> Fresh, same |-> TRUE], committed.resolved).same

snapshot_matches(base, b) ==
    /\ lookup_path(base, b.path) = cfgLive[b].raw
    /\ SameResolved(base, cfgLive[b])

(* ConfigReloader::reload without hooks: bindings whose snapshot no longer
   matches are read again, one error rejects the whole, then all are committed. *)
reload ==
    LET base == reread
        changed == {b \in Range(cfgBound) : ~snapshot_matches(base, b)}
    IN /\ cfgLive # <<>> /\ ~Unreadable(cfgSources)
       /\ \A b \in changed : get_config(base, b).err = ""
       /\ cfgRoot' = base
       /\ cfgLive' = [b \in Range(cfgBound) |-> IF b \in changed THEN Committed(base, b) ELSE cfgLive[b]]
       /\ UNCHANGED <<cfgPhase, cfgFiles, cfgSources, cfgBound, cfgChain, cfgEdits, cfgBinds>>

ConfigNext ==
    \/ load_in
    \/ \E b \in Bindings : register_binding(b)
    \/ BuildBindings
    \/ \E i \in DOMAIN Stems, doc \in Documents : EditFile(i, doc)
    \/ \E chain \in Environments : ChangeEnvironment(chain)
    \/ reload
-----------------------------------------------------------------------------
(* Seeding after each registration gives the tree that a reload of unedited
   files gives, which seeds once (seed_defaults, reread). *)
RereadAgrees ==
    cfgPhase = "loaded" /\ cfgEdits = 0 => reread = cfgRoot

(* After a reload has gone through, every binding holds what a fresh read of
   the files would give: a snapshot that still matches means an unchanged value,
   whatever the files and the environment did (snapshot_matches, prepare). And
   a reload of files that nobody edited sees no change in the tree at all. *)
NoStaleValue ==
    /\ []RereadAgrees
    /\ [][reload => \A b \in DOMAIN cfgLive :
            /\ get_config(reread, b).err = ""
            /\ cfgLive'[b].value = get_config(reread, b).out]_configVars
-----------------------------------------------------------------------------
(* What the keys of a tree stand for, found from the leaves up: in each round,
   a key whose text uses only keys already known. *)
InTree(key) == key[1] \notin Namespaces /\ lookup_path(cfgRoot, key) # NoNode
TreeDecides(key) ==
    InTree(key) /\ (Len(key) > 1 \/ key[1] \notin Screaming \/ ChainResolve(cfgChain, key) = {})

Meaning(known, seg) ==
    IF IsLiteral(seg) THEN {seg.text}
    ELSE IF TreeDecides(seg.key) THEN {k.text : k \in {x \in known : x.key = seg.key}}
    ELSE IF ChainResolve(cfgChain, seg.key) # {} THEN ChainResolve(cfgChain, seg.key)
    ELSE seg.def

Spellings(known, node) ==
    CASE node.k = "str" -> IF \E i \in DOMAIN node.v : Meaning(known, node.v[i]) = {} THEN {}
                           ELSE {FlattenSeq([i \in DOMAIN node.v |->
                                    CHOOSE t \in Meaning(known, node.v[i]) : TRUE])}
      [] node.k = "bool" -> {IF node.v THEN <<"true">> ELSE <<"false">>}
      [] node.k = "int" -> {Digits(node.v)}
      [] OTHER -> {}

TreeKeys ==
    {<<n>> : n \in DOMAIN cfgRoot.v}
    \cup UNION {{<<n, f>> : f \in DOMAIN cfgRoot.v[n].v} : n \in {m \in DOMAIN cfgRoot.v : cfgRoot.v[m].k = "table"}}

KnownKeys ==
    FoldLeft(LAMBDA known, i : UNION {{[key |-> key, text |-> t] : t \in Spellings(known, lookup_path(cfgRoot, key))}
                                        : key \in TreeKeys},
             {}, [i \in 1..Cardinality(TreeKeys) |-> i])

(* Depth-first resolution with a stack of keys gives each placeholder the text
   it has bottom-up, and refuses exactly those that have none: a cycle, a missing
   key or a table. A key reached along two ways is no cycle. Only a limit may
   refuse more (resolve_placeholder, render_str). *)
ResolveAgrees ==
    \A key \in TreeKeys :
        LET p == Placeholder(key, {})
            r == resolve_placeholder(cfgRoot, cfgChain, p, Fresh, <<>>)
        IN IF r.err = "" THEN Meaning(KnownKeys, p) = {r.out}
           ELSE r.err \in LimitErrors \/ Meaning(KnownKeys, p) = {}
=============================================================================
