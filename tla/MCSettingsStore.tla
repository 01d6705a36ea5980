-------------------------- MODULE MCSettingsStore --------------------------
(* Constants for model checking SettingsStore. *)
EXTENDS SettingsStore, TLC

\* Two coroutines share a process.
MCCalls == {"c1", "c2"}
OneHost == [c \in MCCalls |-> "api"]
=============================================================================
