--------------------------- MODULE MCWorkerFirehose ---------------------------
(* Sockets that close and an operator who pushes, alone and together with    *)
(* lost calls and failing statements.                                        *)
EXTENDS WorkerFirehose

MCEnvs == {{"sockets", "inject"}, {"lost", "sql", "sockets", "inject"}}

=============================================================================
