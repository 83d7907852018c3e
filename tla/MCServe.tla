------------------------------ MODULE MCServe -------------------------------
(***************************************************************************)
(* An application and, beside it, the frame reader of one of its           *)
(* connections: a behaviour exercises one of the two.                      *)
(*                                                                         *)
(* The application has a component of two start-up hooks, one of one and   *)
(* one with a shutdown hook only; over HTTP it has up to two middlewares,  *)
(* with and without the two timeouts.  The frames have one, two and three  *)
(* bytes: the last is longer than the reader accepts, and one of the       *)
(* others does not decode.                                                 *)
(***************************************************************************)
EXTENDS AppServe, MessageReader

VARIABLE exercised

serveSide == <<exercised, vars, readerVars>>

BothInit == exercised \in {"app", "reader"} /\ Init /\ ReaderInit

BothNext ==
    /\ UNCHANGED exercised
    /\ \/ exercised = "app" /\ Next /\ UNCHANGED readerVars
       \/ exercised = "reader" /\ ReaderNext /\ UNCHANGED vars

BothSpec ==
    /\ BothInit /\ [][BothNext]_serveSide
    /\ exercised = "app" => Fairness
    /\ exercised = "reader" => ReaderFairness
-----------------------------------------------------------------------------
AppStartup  == <<"db", "db", "cache">>
AppShutdown == <<"db", "cache", "log">>

MCHttpApps == {
    [middleware |-> <<"auth", "trace">>, endpoints |-> <<"feed">>, timeout |-> TRUE, graceful |-> FALSE],
    [middleware |-> <<>>, endpoints |-> <<"feed", "chat">>, timeout |-> FALSE, graceful |-> FALSE],
    [middleware |-> <<"auth">>, endpoints |-> <<>>, timeout |-> FALSE, graceful |-> TRUE],
    [middleware |-> <<>>, endpoints |-> <<"feed", "feed">>, timeout |-> FALSE, graceful |-> TRUE]}

ReaderMessages == {<<1>>, <<1, 0>>}
ReaderPayloads == ReaderMessages \cup {<<>>, <<1, 1, 0>>}
=============================================================================
