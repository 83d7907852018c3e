------------------------------ MODULE MCParts ------------------------------
(***************************************************************************)
(* The parts that share no state with any other, checked side by side: a   *)
(* behaviour exercises one of them, the others rest.                       *)
(***************************************************************************)
EXTENDS ConfigManager, NdjsonStream, JobHistories, SocketFile, MemoryTransport, RpcDispatch, HttpClient

VARIABLE part
VARIABLE tplRaw   \* the source string of a template

partVars == <<part, tplRaw, configVars, ndVars, logVars, fsVars, memVars, rpcVars, httpVars, schVars>>

CONSTANTS MaxRaw  \* bound: characters of a template

Characters == {"$", "{", "}", ":", "a"}

TypeCharacter(c) ==
    /\ Len(tplRaw) < MaxRaw /\ tplRaw' = Append(tplRaw, c)
    /\ UNCHANGED <<configVars, ndVars, logVars, fsVars, memVars, rpcVars, httpVars, schVars>>

PartsInit ==
    /\ part \in {"config", "template", "ndjson", "log", "socket", "memory", "rpc", "http", "jobs"}
    /\ tplRaw = <<>>
    /\ IF part = "config" THEN ConfigInit ELSE ConfigOff
    /\ IF part = "ndjson" THEN NdjsonInit ELSE NdjsonOff
    /\ IF part = "log" THEN LogInit ELSE LogOff
    /\ IF part = "socket" THEN SocketInit ELSE SocketOff
    /\ IF part = "memory" THEN MemoryInit ELSE MemoryOff
    /\ IF part = "rpc" THEN RpcInit ELSE RpcOff
    /\ IF part = "http" THEN HttpInit ELSE HttpOff
    /\ IF part = "jobs" THEN SchedulerInit ELSE SchedulerOff

PartsNext ==
    /\ UNCHANGED part
    /\ \/ /\ part = "config" /\ ConfigNext
          /\ UNCHANGED <<tplRaw, ndVars, logVars, fsVars, memVars, rpcVars, httpVars, schVars>>
       \/ part = "template" /\ \E c \in Characters : TypeCharacter(c)
       \/ /\ part = "ndjson" /\ NdjsonNext
          /\ UNCHANGED <<tplRaw, configVars, logVars, fsVars, memVars, rpcVars, httpVars, schVars>>
       \/ /\ part = "log" /\ LogNext
          /\ UNCHANGED <<tplRaw, configVars, ndVars, fsVars, memVars, rpcVars, httpVars, schVars>>
       \/ /\ part = "socket" /\ SocketNext
          /\ UNCHANGED <<tplRaw, configVars, ndVars, logVars, memVars, rpcVars, httpVars, schVars>>
       \/ /\ part = "memory" /\ MemoryNext
          /\ UNCHANGED <<tplRaw, configVars, ndVars, logVars, fsVars, rpcVars, httpVars, schVars>>
       \/ /\ part = "rpc" /\ RpcNext
          /\ UNCHANGED <<tplRaw, configVars, ndVars, logVars, fsVars, memVars, httpVars, schVars>>
       \/ /\ part = "http" /\ HttpNext
          /\ UNCHANGED <<tplRaw, configVars, ndVars, logVars, fsVars, memVars, rpcVars, schVars>>
       \/ /\ part = "jobs" /\ SchedulerNext
          /\ UNCHANGED <<tplRaw, configVars, ndVars, logVars, fsVars, memVars, rpcVars, httpVars>>

PartsSpec == PartsInit /\ [][PartsNext]_partVars /\ MemoryFairness /\ SchedulerFairness
NdjsonSpec == PartsInit /\ part = "ndjson" /\ [][PartsNext]_partVars
-----------------------------------------------------------------------------
Escaped(text) == FlattenSeq([i \in DOMAIN text |-> IF text[i] = "$" THEN <<"$", "$">> ELSE <<text[i]>>])
Printed(seg) ==
    IF IsLiteral(seg) THEN Escaped(seg.text)
    ELSE <<"$", "{">> \o seg.key[1] \o FlattenSeq(SetToSeq({<<":">> \o d : d \in seg.def})) \o <<"}">>

(* Any text can be written as a template: with its dollars doubled it parses to
   itself. And a template that parses is the same template when what was parsed
   is printed, with its literals escaped, and parsed again (parse_template,
   parse_placeholder). *)
TemplateRoundTrip ==
    LET segs == parse_template(tplRaw) IN
    /\ parse_template(Escaped(tplRaw)) = Flushed(<<>>, tplRaw)
    /\ segs # Unterminated =>
            parse_template(FlattenSeq([i \in DOMAIN segs |-> Printed(segs[i])])) = segs
-----------------------------------------------------------------------------
Text(word) == Str(<<Literal(<<word>>)>>)
Ref(key) == <<Placeholder(key, {})>>
RefOr(key, word) == <<Placeholder(key, {<<word>>})>>
IntShape(top) == [k |-> "int", range |-> 0..top]

MCTypes == [
    Server |-> [spec  |-> [kind |-> "fields", fields |-> [x |-> <<Literal(<<"4">>)>>, y |-> Ref(<<"b", "p">>)]],
                shape |-> [k |-> "struct", fields |-> [x |-> IntShape(4), y |-> [k |-> "str"]]]],
    Client |-> [spec  |-> [kind |-> "fields", fields |-> [p |-> RefOr(<<"HOST">>, "h")]],
                shape |-> [k |-> "struct", fields |-> [p |-> [k |-> "str"], 
                                                    q |-> [k |-> "opt", of |-> [k |-> "seq", of |-> [k |-> "str"]]]]]],
    Mode   |-> [spec  |-> [kind |-> "internal", tag |-> "t", default |-> {[tag |-> "V", unit |-> FALSE]},
                           fields |-> [V |-> [n |-> <<Literal(<<"4">>)>>]]],
                shape |-> [k |-> "tagged", tag |-> "t",
                           variants |-> [U |-> [fields |-> <<>>], V |-> [fields |-> [n |-> IntShape(4)]]]]],
    Level  |-> [spec  |-> [kind |-> "external", default |-> {[tag |-> "W", unit |-> FALSE]},
                           fields |-> [W |-> [z |-> Ref(<<"a", "x">>)]]],
                shape |-> [k |-> "enum",
                           variants |-> [on |-> [k |-> "unit"],
                                         W |-> [k |-> "struct", fields |-> [z |-> IntShape(8)]]]]]]

MCBindings == {[type |-> "Server", path |-> <<"a">>], [type |-> "Client", path |-> <<"b">>],
               [type |-> "Level", path |-> <<"e">>], [type |-> "Mode", path |-> <<"m">>]}

MCDocuments == {
    NoNode, Malformed,
    Table([a |-> Table([x |-> IntValue(8)]), b |-> Table([q |-> Array(<<Str(Ref(<<"a", "x">>)), Text("d")>>)])]),
    Table([a |-> Table([x |-> Text("0"), y |-> Str(<<Placeholder(<<"HOST">>, {}), Placeholder(<<"a", "x">>, {})>>)]),
           b |-> Table([p |-> Str(<<Placeholder(<<"a", "y">>, {<<"d">>}), Placeholder(<<"a", "x">>, {})>>)]),
           m |-> Table([n |-> Str(Ref(<<"a", "x">>))])]),
    Table([b |-> Table([p |-> Str(Ref(<<"a", "y">>))]), e |-> Text("on"),
           m |-> Table([t |-> Text("U")])]),
    Table([a |-> IntValue(4), b |-> Table([q |-> BoolValue(TRUE), p |-> Str(RefOr(<<"@run">>, "d"))])])}

MCEnvironments == {<< <<>>, <<>> >>,
                   << [k \in {<<"HOST">>} |-> <<"0">>], [k \in {<<"@run">>} |-> <<"r">>] >>}
MCStems == <<"base", "profile">>
MCScreaming == {"HOST", "MODE"}

Rpc(name, params, stream, fallible, id) ==
    [name |-> name, params |-> params, stream |-> stream, fallible |-> fallible, handler |-> id]
Service(id, name, ty, groups) == [id |-> id, name |-> name, ty |-> ty, groups |-> groups]

MCFiles == Service("files", <<"files">>, "Files",
    << <<Rpc(<<"get">>, <<"Payload", "Inject">>, FALSE, TRUE, 1)>>,
       <<Rpc(<<"copy">>, <<"Peer", "RequestStream", "Cancel">>, TRUE, FALSE, 2),
         Rpc(<<"put">>, <<"Streaming">>, FALSE, FALSE, 3)>> >>)
MCTwice == Service("twice", <<"files", "v2">>, "Twice",
    << <<Rpc(<<"get">>, <<"Streaming", "RequestStream">>, TRUE, TRUE, 4),
         Rpc(<<"who">>, <<"InjectPeer">>, FALSE, FALSE, 5)>> >>)
MCClash == Service("clash", <<"files">>, "Clash",
    << <<Rpc(<<"v2", "get">>, <<>>, FALSE, FALSE, 6)>> >>)
MCGuards == <<[kind |-> "guard", of |-> "g"], [kind |-> "layer", of |-> "l"]>>

MCRpcApps == {
    [services |-> <<MCFiles, MCTwice, MCFiles>>, layers |-> MCGuards, hook |-> TRUE, components |-> {{"PeerInfo"}}],
    [services |-> <<MCFiles, MCTwice>>, layers |-> <<>>, hook |-> FALSE, components |-> {{}}],
    [services |-> <<MCTwice, MCClash>>, layers |-> <<>>, hook |-> FALSE, components |-> {}],
    [services |-> <<MCClash>>, layers |-> MCGuards, hook |-> TRUE, components |-> {}]}
MCRpcPaths == {<<"files", "get">>, <<"files", "copy">>, <<"files", "put">>, <<"files", "v2", "get">>,
               <<"files", "v2", "who">>}

MCHeaderMaps == {<<>>, [n \in {"accept"} |-> <<"a", "b">>], [n \in {"accept", "auth"} |-> <<"own">>]}
MCProviders == {<<>>, [n \in {"auth"} |-> <<"old">>], [n \in {"auth", "trace"} |-> <<"new">>]}

MCAncestors == {Missing, PrivateDir, Entry("dir", "root", TRUE, TRUE), Entry("dir", "root", TRUE, FALSE),
                Entry("link", "root", FALSE, FALSE)}

Job(static, kind, raw, overlap, limits, holds) ==
    [static |-> static, kind |-> kind, raw |-> raw, overlap |-> overlap, limits |-> limits, holds |-> holds]
MCStaticLists == {<<Job(TRUE, "interval", "some", "Allow", {1, 2}, "none")>>,
                  <<Job(TRUE, "cron", "some", "Skip", {}, "body"), Job(TRUE, "interval", "zero", "Skip", {}, "none")>>}
MCDynamic == {Job(FALSE, "interval", "zero", "Allow", {}, "closure")}
=============================================================================
