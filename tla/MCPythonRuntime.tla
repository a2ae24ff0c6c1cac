-------------------------- MODULE MCPythonRuntime --------------------------
(* The runtime on a small instance: one reserved and one read-only         *)
(* decoration, and Python services that keep the rules or break one.       *)
EXTENDS PythonRuntime, TLC

CONSTANTS B1, Ghost, Target, Scopes, V, Changed

Ctx(fields, backend, target, scopes) ==
  [fields |-> fields, target_backend |-> backend,
   decorations |-> (Target :> target @@ Scopes :> scopes)]

ReturnsSet == {
  Ctx(Sent, NoBackend, Unset, Unset),  \* nothing set, or everything removed
  Ctx(Sent, B1, V, Unset),             \* a backend and a target chosen
  Ctx(Sent, NoBackend, Unset, V),      \* a read-only decoration forged
  Ctx(Sent, Ghost, Unset, Unset),      \* no such backend
  Ctx(Changed, NoBackend, Unset, Unset)}
=============================================================================
