------------------------- MODULE MCConfigLifecycle -------------------------
(* Instances of ConfigLifecycle for TLC.                                    *)
EXTENDS ConfigLifecycle

\* Started from a file without file-only settings, an empty list in it.
PlainFile == [hot |-> "a", restart |-> "plain", files |-> "unset", lists |-> "empty"]

\* Started from a file that configures TLS.
TLSFile == [hot |-> "a", restart |-> "plain", files |-> "set", lists |-> "nil"]
=============================================================================
