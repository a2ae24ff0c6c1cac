---------------------------- MODULE LoginService ----------------------------
(***************************************************************************)
(* What the proxy promises of a login, without cookies, chains, tabs or    *)
(* messages: who is sent to log in, and whom that answers.  It may promise *)
(* neither that a request is answered nor, to a requester whose browser    *)
(* begins several logins, which of them answers.                           *)
(***************************************************************************)
EXTENDS Integers, Sequences

CONSTANTS
  Flows,       \* downstream login requests
  Asking,      \* whom an answer may be computed for
  Services,    \* the positions of the micro-service chain
  TTL,         \* the lifetime of a login
  NoRequest    \* the request of a login begun for nobody's request

VARIABLES
  now,         \* the clock
  requests,    \* the requests sent, and when
  logins,      \* the upstream logins the browser was sent to
  answers      \* the answers rendered, in order

Once == [i \in Services |-> 1]

Init == now = 0 /\ requests = {} /\ logins = {} /\ answers = <<>>

(* A requester sends its browser with a new request.                       *)
Ask(f) ==
  /\ \A r \in requests : r.flow # f
  /\ requests' = requests \cup {[flow |-> f, time |-> now]}
  /\ UNCHANGED <<now, logins, answers>>

(* The browser follows a redirect to an upstream login.  One on behalf of  *)
(* a request was begun after the request was sent, and after each service  *)
(* of the chain saw it once.                                               *)
Follow ==
  /\ \E l \in logins' :
       /\ logins' = logins \cup {l}
       /\ l.time <= now
       /\ l.request # NoRequest =>
            /\ \E r \in requests : r.flow = l.request.flow /\ r.time <= l.time
            /\ l.request.runs = Once
  /\ UNCHANGED <<now, requests, answers>>

(* A request that was sent, and a login the browser was sent to, each less *)
(* than TTL ago: the login answers, for the first time, and each service   *)
(* of the chain saw the response once.                                     *)
Reply(f, l) ==
  /\ \E r \in requests : r.flow = f /\ now - r.time < TTL
  /\ l \in logins /\ now - l.time < TTL
  /\ \A i \in DOMAIN answers : answers[i].login # l
  /\ \E q \in Asking :
       answers' = Append(answers, [flow |-> f, requester |-> q, login |-> l,
                                   runs |-> Once, time |-> now])
  /\ UNCHANGED <<now, requests, logins>>

Tick == now' = now + 1 /\ UNCHANGED <<requests, logins, answers>>

Next ==
  \/ \E f \in Flows : Ask(f) \/ \E l \in logins : Reply(f, l)
  \/ Follow
  \/ Tick

Spec == Init /\ [][Next]_<<now, requests, logins, answers>>
=============================================================================
