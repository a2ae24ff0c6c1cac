------------------------------- MODULE Server -------------------------------
(***************************************************************************)
(* The server process around the proxy: the order of its start, which      *)
(* configurations it refuses, how the configured plugins become the route  *)
(* table and the instances requests are dispatched to, and the renewal of  *)
(* its TLS identity on HUP while connections come and go.                  *)
(*                                                                         *)
(* The certificate and the key are two files, replaced one after the other *)
(* by a renewal tool and read one after the other by a reload; a file may  *)
(* be found half written.  A supervisor starts the process again when it   *)
(* has ended.  Renewal tool, supervisor and clients are external.          *)
(***************************************************************************)
EXTENDS Integers, FiniteSets, Sequences, Functions

CONSTANTS
  Configs,     \* the configuration files an operator may install
  Clients,     \* TLS or plain connections
  Reloads,     \* the tasks that may execute ReloadableTls::reload
  MaxRenewal,  \* bound: renewals of the certificate
  MaxStarts,   \* bound: starts of the process
  KeyOf,       \* the private key of each certificate; a renewal may reuse it
  Idle, Begun, \* phases of a reload task before it has read a certificate
  NoConfig, NoIdentity, NoConnection, Torn, Plain

Certificates == 1 .. MaxRenewal
Keys == {KeyOf[g] : g \in Certificates}
Identities == [cert: Certificates, key: Keys]

ASSUME ServerAssumption ==
  /\ MaxRenewal \in Nat \ {0} /\ MaxStarts \in Nat \ {0}
  /\ DOMAIN KeyOf = Certificates /\ Torn \notin Certificates \cup Keys
  /\ {Idle, Begun} \cap Certificates = {} /\ Idle # Begun
  /\ NoConfig \notin Configs /\ {NoIdentity, NoConnection, Plain} \cap Identities = {}

(* The section an instance is configured in is its role.                   *)
Section(instances, role) == instances \in Seq({i \in Range(instances) : i.role = role})

ASSUME SectionAssumption ==
  \A c \in Configs : /\ Section(c.frontends, "frontend")
                     /\ Section(c.microservices, "microservice")
                     /\ Section(c.backends, "backend")

VARIABLES
  file,       \* what is installed: configuration, certificate and key file
  toWrite,    \* the files the running renewal has still to complete
  renewal,    \* the certificate the last renewal issues
  notified,   \* the last completed renewal has sent its HUP
  starts,     \* starts of the process so far
  done,       \* how many steps of StartOrder the process has taken
  config,     \* the configuration the process was started with, or NoConfig
  startCert,  \* the certificate the start has read, or NoIdentity
  live,       \* the identity of the shared resolver, or NoIdentity
  pending,    \* a HUP was delivered and not yet received by the loop
  reload,     \* per reload task: Idle, Begun, or the certificate it has read
  conn,       \* per client: the identity it was shown, Plain or NoConnection
  ended       \* why the process last ended, and whether it was ready then

tool == <<toWrite, renewal, notified>>
process == <<done, config, startCert, live, pending, reload, conn>>
vars == <<file, tool, starts, process, ended>>

----------------------------------------------------------------------------
(* Loading the configuration                                               *)

(* Every variable the file or an include names is set.                     *)
Interpolated(c) == c.variables_set
(* The file and every include can be read and parsed.                      *)
Readable(c) == Interpolated(c) /\ c.includes_readable

MinKeyLength == 32

PreviousKeysStrong(c) == \A n \in c.previous_keys : n >= MinKeyLength

Names(instances) == {instances[i].name : i \in DOMAIN instances}
UniqueNames(instances) == Cardinality(Names(instances)) = Len(instances)

(* The names of frontends and backends are not compared.                   *)
Validated(c) ==
  /\ c.tls # "empty_path" /\ c.base_url /\ c.same_site \in {"none", "lax", "strict"}
  /\ c.state_key >= MinKeyLength /\ PreviousKeysStrong(c)
  /\ 0 \notin c.http_limits
  /\ (\E i \in DOMAIN c.microservices : c.microservices[i].kind = "python")
       => c.python # "absent"
  /\ c.python # "invalid"
  /\ UniqueNames(c.microservices)

----------------------------------------------------------------------------
(* Assembling the proxy                                                    *)

(* Precedence of the route table: frontends, micro-services, backends.     *)
(* Mutant: the backends are added first.                                   *)
BackendsFirst(c) == c.backends \o c.microservices \o c.frontends
Registrants(c) == c.frontends \o c.microservices \o c.backends

(* The registry knows the type, and its constructor the configuration.     *)
Built(instance) == instance.kind # "unknown"

(* A landing page of the operator's must be readable beside the file.      *)
IndexLoads(c) == c.index_readable

(* build_proxy: CPython starts, the attribute map can be read and every    *)
(* instance is built; the landing page is loaded before it.                *)
Assembles(c) ==
  /\ IndexLoads(c)
  /\ c.attributes_readable /\ c.python # "broken"
  /\ \A i \in DOMAIN Registrants(c) : Built(Registrants(c)[i])

(* Router::add keeps the first registrant of a path (no plugin registers   *)
(* a pattern) ...                                                          *)
Routed(c, path) == {i \in DOMAIN Registrants(c) : path \in Registrants(c)[i].routes}
Owner(c, path) == Registrants(c)[CHOOSE i \in Routed(c, path) :
                                   \A j \in Routed(c, path) : i <= j]

(* ... as a kind and a name: the instance comes from the map of that kind, *)
(* where a later instance replaces an earlier one of the same name.        *)
Named(c, role, name) ==
  {i \in DOMAIN Registrants(c) : Registrants(c)[i].role = role /\ Registrants(c)[i].name = name}
Instance(c, role, name) ==
  Registrants(c)[CHOOSE i \in Named(c, role, name) : \A j \in Named(c, role, name) : j <= i]

Paths(c) == UNION {Registrants(c)[i].routes : i \in DOMAIN Registrants(c)}

(* What Proxy::run dispatches a request for the path to.                   *)
Dispatched(c, path) == Instance(c, Owner(c, path).role, Owner(c, path).name)

----------------------------------------------------------------------------
(* Start                                                                   *)

(* Mutant: the HUP handler is installed by the loop that uses it.          *)
HandlerLast == <<"load", "identity", "assemble", "bind", "handle_hup">>
StartOrder == <<"load", "handle_hup", "identity", "assemble", "bind">>

Up == done > 0
Taken(step) == \E i \in 1 .. done : StartOrder[i] = step
Starting(step) == Up /\ done < Len(StartOrder) /\ StartOrder[done + 1] = step
Ready == Taken("bind")

Down ==
  /\ done' = 0 /\ config' = NoConfig /\ startCert' = NoIdentity
  /\ live' = NoIdentity /\ pending' = FALSE
  /\ reload' = [t \in Reloads |-> Idle]
  /\ conn' = [c \in Clients |-> NoConnection]

End(reason) == Down /\ ended' = [why |-> reason, ready |-> Ready]

Load ==
  /\ ~Up /\ starts < MaxStarts
  /\ starts' = starts + 1
  /\ IF Readable(file.config) /\ Validated(file.config)
     THEN /\ done' = 1 /\ config' = file.config
          /\ UNCHANGED <<startCert, live, pending, reload, conn, ended>>
     ELSE End("refused")
  /\ UNCHANGED <<file, tool>>

HandleHup ==
  /\ Starting("handle_hup")
  /\ done' = done + 1
  /\ UNCHANGED <<file, tool, starts, config, startCert, live, pending, reload, conn, ended>>

(* Mutant: a pair the provider could not compare is accepted.              *)
AnyPair(cert, key) == key # Torn
Matches(cert, key) == key # Torn /\ KeyOf[cert] = key

(* load_identity at the start: one file, then the other; any failure ends  *)
(* the process before a listener exists.                                   *)
StartReadsCert ==
  /\ Starting("identity") /\ config.tls = "paths" /\ startCert = NoIdentity
  /\ IF file.cert = Torn
     THEN End("refused")
     ELSE startCert' = file.cert /\ UNCHANGED <<done, config, live, pending, reload, conn, ended>>
  /\ UNCHANGED <<file, tool, starts>>

StartReadsKey ==
  /\ Starting("identity") /\ startCert # NoIdentity
  /\ IF Matches(startCert, file.key)
     THEN /\ live' = [cert |-> startCert, key |-> file.key]
          /\ done' = done + 1
          /\ UNCHANGED <<config, startCert, pending, reload, conn, ended>>
     ELSE End("refused")
  /\ UNCHANGED <<file, tool, starts>>

StartWithoutTls ==
  /\ Starting("identity") /\ config.tls = "absent"
  /\ done' = done + 1
  /\ UNCHANGED <<file, tool, starts, config, startCert, live, pending, reload, conn, ended>>

Assemble ==
  /\ Starting("assemble")
  /\ IF Assembles(config)
     THEN done' = done + 1 /\ UNCHANGED <<config, startCert, live, pending, reload, conn, ended>>
     ELSE End("refused")
  /\ UNCHANGED <<file, tool, starts>>

(* The address may be taken.                                               *)
Bind ==
  /\ Starting("bind")
  /\ \/ done' = done + 1 /\ UNCHANGED <<config, startCert, live, pending, reload, conn, ended>>
     \/ End("refused")
  /\ UNCHANGED <<file, tool, starts>>

----------------------------------------------------------------------------
(* Signals and renewal                                                     *)

(* The loop polls its signal once the server runs; receiving one clears    *)
(* the flag every HUP since the last one shares.  It awaits the reload, so *)
(* at most one runs.                                                       *)
(* Mutant: a task is spawned for each signal.                              *)
Anytime == TRUE
LoopWaits == \A t \in Reloads : reload[t] = Idle

Receive(t) ==
  /\ Ready /\ Taken("handle_hup") /\ pending /\ LoopWaits /\ reload[t] = Idle
  /\ pending' = FALSE
  /\ reload' = [reload EXCEPT ![t] = IF config.tls = "paths" THEN Begun ELSE Idle]
  /\ UNCHANGED <<file, tool, starts, done, config, startCert, live, conn, ended>>

(* A file that does not parse ends the reload.                             *)
ReloadReadsCert(t) ==
  /\ reload[t] = Begun
  /\ reload' = [reload EXCEPT ![t] = IF file.cert = Torn THEN Idle ELSE file.cert]
  /\ UNCHANGED <<file, tool, starts, done, config, startCert, live, pending, conn, ended>>

(* Mutant: signals that arrive during a reload count as handled by it.     *)
SignalDropped == FALSE
SignalKept == pending

(* The pair is checked as a whole and published by the calling task.       *)
ReloadReadsKey(t) ==
  /\ reload[t] \in Certificates
  /\ reload' = [reload EXCEPT ![t] = Idle]
  /\ live' = IF Matches(reload[t], file.key)
             THEN [cert |-> reload[t], key |-> file.key] ELSE live
  /\ pending' = SignalKept
  /\ UNCHANGED <<file, tool, starts, done, config, startCert, conn, ended>>

(* A HUP with no handler installed ends the process; delivered ones        *)
(* coalesce.                                                               *)
Signalled ==
  IF Up /\ ~Taken("handle_hup")
  THEN End("hup")
  ELSE pending' = Up /\ UNCHANGED <<done, config, startCert, live, reload, conn, ended>>

(* The renewal tool: new contents for both files, in either order, with or *)
(* without a moment when a file is torn; then one HUP.                     *)
BeginRenewal ==
  /\ toWrite = {} /\ notified /\ renewal < MaxRenewal
  /\ renewal' = renewal + 1 /\ notified' = FALSE
  /\ toWrite' = {"cert", "key"}
  /\ UNCHANGED <<file, starts, process, ended>>

Tear(f) ==
  /\ f \in toWrite /\ file[f] # Torn
  /\ file' = [file EXCEPT ![f] = Torn]
  /\ UNCHANGED <<tool, starts, process, ended>>

Complete(f) ==
  /\ f \in toWrite
  /\ file' = [file EXCEPT ![f] = IF f = "cert" THEN renewal ELSE KeyOf[renewal]]
  /\ toWrite' = toWrite \ {f}
  /\ UNCHANGED <<renewal, notified, starts, process, ended>>

Notify ==
  /\ toWrite = {} /\ ~notified
  /\ notified' = TRUE
  /\ Signalled
  /\ UNCHANGED <<file, toWrite, renewal, starts>>

(* A terminal or an operator sends a HUP of its own.                       *)
StrayHup ==
  /\ Up /\ ~pending
  /\ Signalled
  /\ UNCHANGED <<file, tool, starts>>

----------------------------------------------------------------------------
(* Service                                                                 *)

(* A handshake clones the current identity; it stays with the connection.  *)
Shown == IF config.tls = "paths" THEN live ELSE Plain

Connect(c) ==
  /\ Ready /\ conn[c] = NoConnection
  /\ conn' = [conn EXCEPT ![c] = Shown]
  /\ UNCHANGED <<file, tool, starts, done, config, startCert, live, pending, reload, ended>>

Disconnect(c) ==
  /\ conn[c] # NoConnection
  /\ conn' = [conn EXCEPT ![c] = NoConnection]
  /\ UNCHANGED <<file, tool, starts, done, config, startCert, live, pending, reload, ended>>

(* The server stops or is killed; the reload in progress is dropped.       *)
Stop ==
  /\ Up
  /\ End("stopped")
  /\ UNCHANGED <<file, tool, starts>>

Install(c) ==
  /\ file.config # c
  /\ file' = [file EXCEPT !.config = c]
  /\ UNCHANGED <<tool, starts, process, ended>>

Init ==
  /\ file \in [config: Configs, cert: {1}, key: {KeyOf[1]}]
  /\ toWrite = {} /\ renewal = 1 /\ notified = TRUE
  /\ starts = 0 /\ done = 0 /\ config = NoConfig /\ startCert = NoIdentity
  /\ live = NoIdentity /\ pending = FALSE
  /\ reload = [t \in Reloads |-> Idle]
  /\ conn = [c \in Clients |-> NoConnection]
  /\ ended = [why |-> "never", ready |-> FALSE]

StartStep ==
  HandleHup \/ StartReadsCert \/ StartReadsKey \/ StartWithoutTls \/ Assemble \/ Bind
ReloadStep == \E t \in Reloads : Receive(t) \/ ReloadReadsCert(t) \/ ReloadReadsKey(t)

Next ==
  \/ Load \/ StartStep \/ ReloadStep \/ Stop
  \/ BeginRenewal \/ Notify \/ StrayHup
  \/ \E f \in {"cert", "key"} : Tear(f) \/ Complete(f)
  \/ \E c \in Clients : Connect(c) \/ Disconnect(c)
  \/ \E c \in Configs : Install(c)

Spec == Init /\ [][Next]_vars

(* A started process and the reload loop run on; nobody is obliged to      *)
(* renew, to connect, to start or to stop.                                 *)
FairSpec == Spec /\ WF_vars(StartStep) /\ WF_vars(ReloadStep)
----------------------------------------------------------------------------
(* Properties                                                              *)

TypeOK ==
  /\ file \in [config: Configs, cert: Certificates \cup {Torn}, key: Keys \cup {Torn}]
  /\ toWrite \subseteq {"cert", "key"} /\ renewal \in Certificates /\ notified \in BOOLEAN
  /\ starts \in 0 .. MaxStarts /\ done \in 0 .. Len(StartOrder)
  /\ config \in Configs \cup {NoConfig}
  /\ startCert \in Certificates \cup {NoIdentity}
  /\ live \in Identities \cup {NoIdentity} /\ pending \in BOOLEAN
  /\ reload \in [Reloads -> {Idle, Begun} \cup Certificates]
  /\ conn \in [Clients -> Identities \cup {Plain, NoConnection}]
  /\ ended \in [why: {"never", "refused", "hup", "stopped"}, ready: BOOLEAN]

(* However renewals and reloads overlap, every connection was shown the    *)
(* certificate of the very key that signs for it, and a server configured  *)
(* for TLS never talks plain HTTP (main.rs: "a broken TLS configuration    *)
(* must never silently start a plain-HTTP server").                        *)
IdentityWhole ==
  \A c \in Clients :
    conn[c] # NoConnection =>
      IF config.tls = "paths"
      THEN conn[c] \in Identities /\ KeyOf[conn[c].cert] = conn[c].key
      ELSE conn[c] = Plain

(* A process never goes back to an older certificate, although its reloads *)
(* read files that change under them: they are processed one at a time.    *)
NoStepBack ==
  [][live # NoIdentity /\ live' # NoIdentity => live'.cert >= live.cert]_vars

(* "Unix may coalesce repeated HUPs; each delivered signal reads both      *)
(* files afresh": once a renewal is complete and has sent its HUP, a       *)
(* process that has begun to start comes to serve that certificate,        *)
(* whatever reload was under way, unless it ends or the next renewal       *)
(* begins.                                                                 *)
Settled == toWrite = {} /\ notified
RenewalServed ==
  Up /\ config.tls = "paths" /\ Settled ~>
    (live # NoIdentity /\ live.cert = renewal) \/ ~Up \/ ~Settled

(* "Register before binding so a ready server always has a HUP handler":   *)
(* no HUP ends a server that a client could have reached.                  *)
HupHarmless == ~(ended.why = "hup" /\ ended.ready)

(* The instance that answers a path of a ready server is the first that    *)
(* registered it, in the order frontends, micro-services, backends, when   *)
(* the names of each kind are distinct as the configuration asks.          *)
RouteOwner ==
  Ready /\ UniqueNames(config.frontends) /\ UniqueNames(config.backends) =>
    \A path \in Paths(config) :
      LET all == config.frontends \o config.microservices \o config.backends
      IN \E i \in DOMAIN all :
           /\ Dispatched(config, path) = all[i] /\ path \in all[i].routes
           /\ \A j \in 1 .. i - 1 : path \notin all[j].routes

----------------------------------------------------------------------------
(* The inductive invariant                                                 *)

(* Each start of the process goes through StartOrder: what it holds by     *)
(* when.  Until it is ready it has no connection and reloads nothing.      *)
StartInv ==
  /\ IF Up THEN config \in Configs /\ Validated(config) ELSE config = NoConfig
  /\ startCert # NoIdentity => done >= 2 /\ config.tls = "paths"
  /\ done < 3 => live = NoIdentity
  /\ done >= 3 /\ config.tls = "paths" => live # NoIdentity
  /\ ~Ready => /\ \A t \in Reloads : reload[t] = Idle
               /\ \A c \in Clients : conn[c] = NoConnection

(* At most one task is reloading.                                          *)
OneReload ==
  \A t, u \in Reloads : reload[t] # Idle /\ reload[u] # Idle => t = u

(* A certificate that was read is no newer than what the file holds now,   *)
(* or will hold when it is whole again.                                    *)
NoNewer(cert) == cert <= renewal /\ (file.cert # Torn => cert <= file.cert)

OrderInv ==
  /\ file.cert # Torn => file.cert <= renewal
  /\ startCert # NoIdentity => NoNewer(startCert)
  /\ live # NoIdentity => NoNewer(live.cert)
  /\ \A t \in Reloads : reload[t] \in Certificates =>
       NoNewer(reload[t]) /\ (live # NoIdentity => live.cert <= reload[t])

IInv ==
  /\ TypeOK /\ StartInv /\ OneReload /\ OrderInv
  /\ live # NoIdentity => KeyOf[live.cert] = live.key
  /\ IdentityWhole /\ HupHarmless

(* The safety part of RenewalServed: no HUP is lost.  When a renewal has   *)
(* sent its HUP and no HUP waits, its certificate is served, or the start  *)
(* or the reload under way has read it or is about to.                     *)
NothingMissed ==
  Up /\ config.tls = "paths" /\ Settled /\ ~pending =>
    IF live = NoIdentity
    THEN startCert \in {NoIdentity, renewal}
    ELSE live.cert = renewal \/ \E t \in Reloads : reload[t] \in {Begun, renewal}

(* The tool sends its HUP when both files are whole, and a whole file has  *)
(* the contents of the last renewal.                                       *)
FilesInv ==
  /\ toWrite # {} => ~notified
  /\ "cert" \notin toWrite => file.cert = renewal
  /\ "key" \notin toWrite => file.key = KeyOf[renewal]
=============================================================================
