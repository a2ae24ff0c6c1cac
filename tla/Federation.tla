----------------------------- MODULE Federation -----------------------------
(***************************************************************************)
(* What the two ends of the proxy in an OpenID Federation are built from.  *)
(* A request runs until it awaits the network or a lock; a trust anchor's  *)
(* decision about an entity is valid for a lifetime from its signature on; *)
(* clocks are equal.  FederationBackend and FederationFrontend are         *)
(* specifications of their own, which share these names and no state.      *)
(***************************************************************************)
EXTENDS Integers, FiniteSets

CONSTANTS
  Handlers,    \* requests that may be under way at once
  Lifetimes,   \* how long a trust anchor's decisions may be valid
  Wait,        \* bound: what one await may last, as by the HTTP client's timeouts
  MaxNow,      \* bound: clock
  Idle, NoEntry, NoDecision, NoUse

ASSUME ClockAssumption == Lifetimes \subseteq Nat /\ {Wait, MaxNow} \subseteq Nat

VARIABLES
  now,
  handler,    \* per request under way: what it is doing
  used        \* history: the last decision a request acted on, and when

Goes(h, w) == handler' = [handler EXCEPT ![h] = w]
=============================================================================
