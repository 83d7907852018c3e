--------------------------- MODULE MCConfigReload ---------------------------
(* ConfigReload with a base file and an overlay, and two bindings of which the *)
(* second may refer to the first.                                              *)
EXTENDS ConfigReload

ConfigSources   == <<"base", "overlay">>
ConfigSlots     == <<"port", "addr">>
ConfigDefaults  == [p \in {"port", "addr"} |-> IF p = "port" THEN "v1" ELSE "absent"]
ConfigTargets   == [h \in {"onAddr", "onPort"} |-> IF h = "onAddr" THEN {"addr"} ELSE {"port"}]

Doc(p, a) == [x \in {"port", "addr"} |-> IF x = "port" THEN p ELSE a]

ConfigDocuments ==
    <<{Broken, Doc("absent", "link"), Doc("absent", "bad")},
      {Doc("absent", "absent"), Doc("v2", "absent"), Doc("env", "absent"), Doc("absent", "panic")}>>
=============================================================================
