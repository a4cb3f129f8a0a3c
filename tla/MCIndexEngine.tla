--------------------------- MODULE MCIndexEngine ---------------------------
(* The instance of the index engine that TLC explores. *)
EXTENDS IndexEngine

MCScripts == {<<"index", "index">>, <<"index", "delete">>, <<"direct", "delete">>,
              <<"index", "incremental">>}
MCTogether == {{"direct", "delete"}}

ASSUME IndexEngineAssumption
============================================================================
