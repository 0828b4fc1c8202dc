------------------------ MODULE MC_ConfigRepository ------------------------
(* Instantiates ConfigRepository for TLC: two keys in two namespaces, a    *)
(* watch on everything and a watch on one namespace.                       *)
EXTENDS ConfigRepository

\* "app.port" and "db.url" as segment sequences.
MCKeys == {<<"app", "port">>, <<"db", "url">>}
\* "app": matches one key and not the other.
MCWatchPrefixes == {<<"app">>}
=============================================================================
