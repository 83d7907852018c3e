-------------------------- MODULE MCScopeContainer --------------------------
(* Families of small registries: components 1 to 5, traits 8 and 9.        *)
EXTENDS ScopeContainer

Ranks == [Singleton |-> 255, Connection |-> 200, Session |-> 150, Request |-> 100, Transient |-> 0]

TwoScopes == <<"Connection", "Request">>

Edge(ty, card, optional, mode, qualifier) ==
  [ty |-> ty, card |-> card, optional |-> optional, dynamic |-> FALSE, config |-> FALSE,
   qualifier |-> qualifier, mode |-> mode]

Eager(ty) == Edge(ty, "One", FALSE, "Eager", NoQualifier)
Deferred(ty) == Edge(ty, "One", FALSE, "Deferred", NoQualifier)
All(ty) == Edge(ty, "Collection", FALSE, "Eager", NoQualifier)

Factory(default, edges) == [default |-> default, deps |-> edges]
Comp(ty, scope, edges) ==
  [id |-> ty, ty |-> ty, scope |-> scope, factories |-> <<Factory(TRUE, edges)>>]
Provided(ty, scope) == [id |-> ty, ty |-> ty, scope |-> scope, factories |-> <<>>]

Provider(trait, ty, primary, priority, ordering) ==
  [trait |-> trait, concrete |-> ty, qualifier |-> <<"a", "b", "c", "d", "e">>[ty],
   primary |-> primary, priority |-> priority, ordering |-> ordering]
Gives(trait, ty, primary) == Provider(trait, ty, primary, 0, <<>>)

Order(target, traits, before) == [target |-> target, traits |-> traits, before |-> before]

-----------------------------------------------------------------------------
Singles ==
  {Edge(ty, "One", opt, m, NoQualifier) :
     ty \in {2, 9}, opt \in BOOLEAN, m \in {"Eager", "Lazy", "Fresh"}}
  \cup {Deferred(2), Deferred(9)}
Qualified == {Edge(9, "One", FALSE, m, q) : m \in {"Eager", "Deferred", "Lazy", "Fresh"}, q \in {"b", "c"}}
Many == {Edge(9, card, FALSE, m, NoQualifier) : card \in {"Collection", "Keyed"}, m \in {"Eager", "Lazy", "Fresh"}}

\* A consumer with every shape of edge over two components that may provide the trait,
\* depend on each other, or back on the consumer.
Shapes ==
  {[components |-> <<Comp(1, s1, <<e>>), Comp(2, s2, d2), Comp(3, s3, d3)>>, providers |-> ps] :
     s1 \in {"Singleton", "Request"}, e \in Singles \cup Qualified \cup Many,
     s2 \in {"Singleton", "Request", "Transient"},
     d2 \in {<<>>, <<Eager(3)>>, <<Deferred(1)>>, <<Edge(3, "One", TRUE, "Eager", NoQualifier)>>},
     s3 \in {"Singleton", "Request", "Transient"}, d3 \in {<<>>, <<Eager(2)>>, <<Eager(1)>>},
     ps \in {<<>>, <<Gives(9, 2, FALSE)>>, <<Gives(9, 2, FALSE), Gives(9, 3, TRUE)>>}}

\* A consumer of a transient provider that itself needs a second trait: what it waits
\* for is found only by expanding the recipe.
Recipes2 ==
  {[components |-> <<Comp(1, "Request", <<e>>), Comp(2, s2, <<e2>>), Comp(3, s3, <<>>),
                     Comp(4, s4, d4), Comp(5, "Connection", <<>>)>>,
    providers |-> <<Gives(9, 2, FALSE), Gives(8, 3, p3), Gives(8, 4, ~p3), Gives(8, 5, FALSE)>>] :
     e \in {Eager(9), All(9), Edge(9, "Keyed", FALSE, "Eager", NoQualifier)},
     s2 \in {"Transient", "Request"}, e2 \in {Eager(8), All(8), Edge(8, "One", FALSE, "Eager", "c")},
     s3 \in {"Connection", "Request", "Singleton"}, s4 \in {"Request", "Transient", "Connection"},
     p3 \in BOOLEAN, d4 \in {<<>>, <<Eager(5)>>, <<Deferred(8)>>}}

\* Three providers under every small set of ordering constraints, and a collection.
Orders ==
  {[components |-> <<Comp(1, "Request", <<All(9)>>), Comp(2, s2, <<>>), Comp(3, s3, <<>>), Comp(4, "Singleton", <<>>)>>,
    providers |-> <<Provider(9, 4, FALSE, 0, o4), Provider(9, 3, FALSE, n3, o3), Provider(9, 2, FALSE, 1, o2)>>] :
     s2 \in {"Request", "Transient"}, s3 \in {"Connection", "Singleton"}, n3 \in {0, 2},
     o2 \in {<<>>, <<Order(3, <<>>, TRUE)>>, <<Order(4, <<9>>, TRUE), Order(3, <<9>>, FALSE)>>, <<Order(5, <<>>, TRUE)>>},
     o3 \in {<<>>, <<Order(4, <<>>, TRUE)>>, <<Order(4, <<9>>, FALSE)>>, <<Order(1, <<9>>, TRUE)>>},
     o4 \in {<<>>, <<Order(2, <<>>, TRUE)>>, <<Order(2, <<8>>, FALSE)>>, <<Order(1, <<>>, TRUE)>>}}

\* Several descriptors of one type, several factories of one descriptor, seeds, and a
\* scope the protocol does not open.
Descriptors ==
  {[components |-> <<[id |-> 1, ty |-> 1, scope |-> "Request", factories |-> fs], c2, Comp(3, s3, <<Eager(2)>>), c4>>,
    providers |-> <<>>] :
     fs \in {<<Factory(TRUE, <<Eager(2)>>), Factory(FALSE, <<Eager(3)>>)>>,
             <<Factory(FALSE, <<>>), Factory(FALSE, <<Eager(3)>>)>>,
             <<Factory(TRUE, <<Eager(4)>>)>>},
     c2 \in {Comp(2, "Connection", <<>>), Provided(2, "Connection"), Provided(2, "Singleton")},
     s3 \in {"Connection", "Request", "Transient"},
     c4 \in {Provided(2, "Singleton"), Comp(2, "Request", <<>>), [Comp(3, "Request", <<>>) EXCEPT !.id = 9],
             [Provided(4, "Request") EXCEPT !.id = 1], Provided(4, "Request"), Comp(4, "Session", <<>>)}}

Samples == Shapes \cup Recipes2 \cup Orders \cup Descriptors
=============================================================================
