---------------------------- MODULE ServerProofs ----------------------------
(***************************************************************************)
(* Proofs about the server process, for any configurations, clients and    *)
(* renewals, whichever of them reuse a key, and any number of starts.      *)
(***************************************************************************)
EXTENDS Server, FiniteSetTheorems, WellFoundedInduction, TLAPS

LEMMA Constants ==
  /\ MaxRenewal \in Nat \ {0} /\ MaxStarts \in Nat
  /\ DOMAIN KeyOf = Certificates /\ Torn \notin Certificates \cup Keys
  /\ Idle \notin Certificates /\ Begun \notin Certificates /\ Idle # Begun
  /\ NoConfig \notin Configs
  /\ NoIdentity \notin Identities /\ NoConnection \notin Identities /\ Plain \notin Identities
BY ServerAssumption

LEMMA KeyType == ASSUME NEW g \in Certificates PROVE KeyOf[g] \in Keys
BY DEF Keys

----------------------------------------------------------------------------
(* The order of the start                                                  *)

LEMMA StartFact ==
  ASSUME done \in 0 .. Len(StartOrder)
  PROVE  /\ done \in 0 .. 5
         /\ Up <=> done > 0
         /\ Taken("handle_hup") <=> done >= 2
         /\ Ready <=> done = 5
         /\ Starting("handle_hup") <=> done = 1
         /\ Starting("identity") <=> done = 2
         /\ Starting("assemble") <=> done = 3
         /\ Starting("bind") <=> done = 4
<1>1. Len(StartOrder) = 5
  BY DEF StartOrder
<1>2. /\ StartOrder[1] = "load" /\ StartOrder[2] = "handle_hup" /\ StartOrder[3] = "identity"
      /\ StartOrder[4] = "assemble" /\ StartOrder[5] = "bind"
  BY DEF StartOrder
<1>3. done \in 0 .. 5
  BY <1>1
<1> HIDE DEF StartOrder
<1>4. Taken("handle_hup") <=> done >= 2
  BY <1>2, <1>3 DEF Taken
<1>5. Ready <=> done = 5
  BY <1>2, <1>3 DEF Taken, Ready
<1>6. \A step : Starting(step) <=> done \in 1 .. 4 /\ StartOrder[done + 1] = step
  BY <1>1, <1>3 DEF Starting, Up
<1>7. /\ Starting("handle_hup") <=> done = 1
      /\ Starting("identity") <=> done = 2
      /\ Starting("assemble") <=> done = 3
      /\ Starting("bind") <=> done = 4
  BY <1>2, <1>3, <1>6
<1> QED
  BY <1>3, <1>4, <1>5, <1>7 DEF Up

----------------------------------------------------------------------------
(* The process ends                                                        *)

LEMMA DownKeeps ==
  ASSUME IInv, Down, UNCHANGED <<file, toWrite, renewal>>, notified' \in BOOLEAN,
         starts' \in 0 .. MaxStarts,
         ended' \in [why: {"never", "refused", "hup", "stopped"}, ready: BOOLEAN], HupHarmless'
  PROVE  IInv'
<1>1. TypeOK'
  <2>1. done' \in 0 .. Len(StartOrder)
    BY DEF Down, StartOrder
  <2>2. /\ reload' \in [Reloads -> {Idle, Begun} \cup Certificates]
        /\ conn' \in [Clients -> Identities \cup {Plain, NoConnection}]
    BY DEF Down
  <2>3. /\ config' \in Configs \cup {NoConfig} /\ startCert' \in Certificates \cup {NoIdentity}
        /\ live' \in Identities \cup {NoIdentity} /\ pending' \in BOOLEAN
    BY DEF Down
  <2> QED
    BY <2>1, <2>2, <2>3 DEF IInv, TypeOK
<1>2. done' = 0 /\ ~Up' /\ ~Ready'
  BY <1>1, StartFact DEF Down, Up, Ready, Taken
<1>3. StartInv'
  BY <1>2 DEF StartInv, Down
<1>4. OneReload' /\ OrderInv' /\ IdentityWhole'
  BY Constants DEF OneReload, OrderInv, IdentityWhole, Down, IInv
<1>5. live' = NoIdentity
  BY DEF Down
<1> QED
  BY <1>1, <1>3, <1>4, <1>5 DEF IInv

(* Whenever a start or a ready server ends by itself or is stopped.        *)
LEMMA EndKeeps ==
  ASSUME IInv, NEW reason \in {"refused", "stopped"}, End(reason),
         UNCHANGED <<file, tool>>, starts' \in 0 .. MaxStarts
  PROVE  IInv'
<1>1. ended' = [why |-> reason, ready |-> Ready] /\ Ready \in BOOLEAN
  BY DEF End, Ready, Taken
<1> HIDE DEF Ready
<1>2. /\ ended' \in [why: {"never", "refused", "hup", "stopped"}, ready: BOOLEAN]
      /\ HupHarmless'
  BY <1>1 DEF HupHarmless
<1>3. UNCHANGED <<file, toWrite, renewal>> /\ notified' \in BOOLEAN
  BY DEF tool, IInv, TypeOK
<1> QED
  BY <1>2, <1>3, DownKeeps DEF End

----------------------------------------------------------------------------
(* Start                                                                   *)

LEMMA LoadKeeps ==
  ASSUME IInv, Load
  PROVE  IInv'
<1>1. starts \in 0 .. MaxStarts /\ starts < MaxStarts /\ starts' = starts + 1 /\ UNCHANGED <<file, tool>>
  BY DEF Load, IInv, TypeOK
<1>2. starts' \in 0 .. MaxStarts
  BY <1>1, Constants
<1>3. CASE Readable(file.config) /\ Validated(file.config)
  <2>1. /\ done' = 1 /\ config' = file.config /\ done = 0
        /\ UNCHANGED <<startCert, live, pending, reload, conn, ended>>
    BY <1>3 DEF Load, Up, IInv, TypeOK
  <2>2. TypeOK'
    BY <1>1, <1>2, <2>1 DEF IInv, TypeOK, tool, StartOrder
  <2>3. ~Ready /\ Ready' = FALSE /\ Up'
    BY <2>1 DEF Ready, Taken, StartOrder, Up
  <2>4. StartInv'
    BY <1>1, <1>3, <2>1, <2>3 DEF IInv, TypeOK, StartInv
  <2>5. OneReload' /\ OrderInv' /\ HupHarmless'
    BY <1>1, <2>1 DEF IInv, OneReload, OrderInv, NoNewer, HupHarmless, tool
  <2>6. IdentityWhole'
    BY <2>1, <2>3 DEF IInv, StartInv, IdentityWhole
  <2> QED
    BY <2>1, <2>2, <2>4, <2>5, <2>6 DEF IInv
<1>4. CASE ~(Readable(file.config) /\ Validated(file.config))
  BY <1>1, <1>2, <1>4, EndKeeps DEF Load
<1> QED
  BY <1>3, <1>4

(* A step of the start that only goes on.                                  *)
LEMMA GoesOnKeeps ==
  ASSUME IInv, done \in 1 .. 4, done' = done + 1,
         done = 2 => config.tls # "paths",
         UNCHANGED <<file, tool, starts, config, startCert, live, pending, reload, conn, ended>>
  PROVE  IInv'
<1>1. TypeOK'
  BY DEF IInv, TypeOK, tool, StartOrder
<1>2. done < 3 => done' < 3 \/ done = 2
  BY DEF IInv
<1>3. Up /\ Up' /\ ~Ready /\ (done < 5 => ~Ready)
  BY StartFact DEF IInv, TypeOK, Up
<1>4. StartInv'
  <2>1. config' \in Configs /\ Validated(config')
    BY <1>3 DEF IInv, StartInv
  <2>2. startCert' # NoIdentity => done' >= 2 /\ config'.tls = "paths"
    BY DEF IInv, StartInv
  <2>3. done' < 3 => live' = NoIdentity
    BY DEF IInv, StartInv
  <2>4. done' >= 3 /\ config'.tls = "paths" => live' # NoIdentity
    BY DEF IInv, StartInv
  <2>5. ~Ready' => (\A t \in Reloads : reload'[t] = Idle) /\ (\A c \in Clients : conn'[c] = NoConnection)
    BY <1>3 DEF IInv, StartInv
  <2> QED
    BY <1>3, <2>1, <2>2, <2>3, <2>4, <2>5 DEF StartInv
<1>5. OneReload' /\ OrderInv' /\ HupHarmless' /\ IdentityWhole'
  BY DEF IInv, OneReload, OrderInv, NoNewer, HupHarmless, IdentityWhole, tool
<1>6. live' # NoIdentity => KeyOf[live'.cert] = live'.key
  BY DEF IInv
<1> QED
  BY <1>1, <1>4, <1>5, <1>6 DEF IInv

LEMMA HandleHupKeeps ==
  ASSUME IInv, HandleHup
  PROVE  IInv'
<1>1. done = 1
  BY StartFact DEF HandleHup, IInv, TypeOK
<1> QED
  BY <1>1, GoesOnKeeps DEF HandleHup

LEMMA StartWithoutTlsKeeps ==
  ASSUME IInv, StartWithoutTls
  PROVE  IInv'
<1>1. done = 2 /\ config.tls = "absent"
  BY StartFact DEF StartWithoutTls, IInv, TypeOK
<1> QED
  BY <1>1, GoesOnKeeps DEF StartWithoutTls

LEMMA AssembleKeeps ==
  ASSUME IInv, Assemble \/ Bind
  PROVE  IInv'
<1>1. done \in {3, 4} /\ starts \in 0 .. MaxStarts
  BY StartFact DEF Assemble, Bind, IInv, TypeOK
<1>2. CASE End("refused")
  BY <1>1, <1>2, EndKeeps DEF Assemble, Bind
<1>3. CASE ~End("refused")
  <2>1. /\ done' = done + 1
        /\ UNCHANGED <<file, tool, starts, config, startCert, live, pending, reload, conn, ended>>
    BY <1>3 DEF Assemble, Bind
  <2> QED
    BY <1>1, <2>1, GoesOnKeeps
<1> QED
  BY <1>2, <1>3

LEMMA StartReadsCertKeeps ==
  ASSUME IInv, StartReadsCert
  PROVE  IInv'
<1>1. /\ done = 2 /\ config.tls = "paths" /\ startCert = NoIdentity /\ starts \in 0 .. MaxStarts
      /\ UNCHANGED <<file, tool, starts>>
  BY StartFact DEF StartReadsCert, IInv, TypeOK
<1>2. CASE file.cert = Torn
  BY <1>1, <1>2, EndKeeps DEF StartReadsCert
<1>3. CASE file.cert # Torn
  <2>1. /\ startCert' = file.cert
        /\ UNCHANGED <<done, config, live, pending, reload, conn, ended>>
    BY <1>3 DEF StartReadsCert
  <2>2. file.cert \in Certificates
    BY <1>3 DEF IInv, TypeOK
  <2>3. TypeOK'
    BY <1>1, <2>1, <2>2 DEF IInv, TypeOK, tool
  <2>4. Up' = Up /\ Ready' = Ready
    BY <2>1 DEF Up, Ready, Taken
  <2>5. StartInv'
    BY <1>1, <2>1, <2>4 DEF IInv, StartInv
  <2>6. NoNewer(startCert)'
    BY <1>1, <1>3, <2>1, <2>2 DEF IInv, OrderInv, NoNewer, tool, Certificates
  <2>7. OneReload' /\ HupHarmless' /\ IdentityWhole'
    BY <2>1 DEF IInv, OneReload, HupHarmless, IdentityWhole
  <2>8. OrderInv'
    BY <1>1, <2>1, <2>6 DEF IInv, OrderInv, NoNewer, tool
  <2> QED
    BY <2>1, <2>3, <2>5, <2>7, <2>8 DEF IInv
<1> QED
  BY <1>2, <1>3

LEMMA StartReadsKeyKeeps ==
  ASSUME IInv, StartReadsKey
  PROVE  IInv'
<1>1. /\ done = 2 /\ startCert # NoIdentity /\ starts \in 0 .. MaxStarts
      /\ UNCHANGED <<file, tool, starts>>
  BY StartFact DEF StartReadsKey, IInv, TypeOK
<1>2. CASE ~Matches(startCert, file.key)
  BY <1>1, <1>2, EndKeeps DEF StartReadsKey
<1>3. CASE Matches(startCert, file.key)
  <2>1. /\ live' = [cert |-> startCert, key |-> file.key] /\ done' = 3
        /\ UNCHANGED <<config, startCert, pending, reload, conn, ended>>
    BY <1>1, <1>3 DEF StartReadsKey
  <2>2. startCert \in Certificates /\ KeyOf[startCert] = file.key
    BY <1>1, <1>3 DEF IInv, TypeOK, Matches
  <2>3. live' \in Identities
    BY <2>1, <2>2, KeyType DEF Identities
  <2>4. live' # NoIdentity /\ live'.cert = startCert /\ KeyOf[live'.cert] = live'.key
    BY <2>1, <2>2, <2>3, Constants
  <2>5. TypeOK'
    BY <1>1, <2>1, <2>3 DEF IInv, TypeOK, tool, StartOrder
  <2>6. Up /\ Up' /\ ~Ready
    BY <1>1, <2>1, StartFact DEF IInv, TypeOK, Up
  <2>7. \A t \in Reloads : reload[t] = Idle
    BY <2>6 DEF IInv, StartInv
  <2>8. StartInv'
    BY <1>1, <2>1, <2>4, <2>6 DEF IInv, StartInv
  <2>9. OneReload' /\ HupHarmless' /\ IdentityWhole'
    BY <2>1 DEF IInv, OneReload, HupHarmless, IdentityWhole
  <2>10. OrderInv'
    BY <1>1, <2>1, <2>4, <2>7, Constants DEF IInv, OrderInv, NoNewer, tool
  <2> QED
    BY <2>4, <2>5, <2>8, <2>9, <2>10 DEF IInv
<1> QED
  BY <1>2, <1>3

----------------------------------------------------------------------------
(* Reloads                                                                 *)

LEMMA ReceiveKeeps ==
  ASSUME IInv, NEW t \in Reloads, Receive(t)
  PROVE  IInv'
<1> DEFINE next == IF config.tls = "paths" THEN Begun ELSE Idle
<1>1. /\ reload' = [reload EXCEPT ![t] = next] /\ pending' = FALSE
      /\ UNCHANGED <<file, tool, starts, done, config, startCert, live, conn, ended>>
  BY DEF Receive
<1>2. next \in {Idle, Begun} /\ next \notin Certificates
  BY Constants
<1> HIDE DEF next
<1>3. reload \in [Reloads -> {Idle, Begun} \cup Certificates] /\ Ready
  BY DEF IInv, TypeOK, Receive
<1>4. TypeOK'
  <2>1. reload' \in [Reloads -> {Idle, Begun} \cup Certificates]
    BY <1>1, <1>2, <1>3
  <2> QED
    BY <1>1, <2>1 DEF IInv, TypeOK, tool
<1>5. Up' = Up /\ Ready' = Ready
  BY <1>1 DEF Up, Ready, Taken
<1>6. StartInv'
  BY <1>1, <1>3, <1>5 DEF IInv, StartInv
<1>7. OneReload'
  BY <1>1, <1>3 DEF OneReload, Receive, LoopWaits
<1>8. \A u \in Reloads : reload'[u] \in Certificates => reload'[u] = reload[u]
  BY <1>1, <1>2, <1>3
<1>9. OrderInv'
  BY <1>1, <1>8 DEF IInv, OrderInv, NoNewer, tool
<1>10. HupHarmless' /\ IdentityWhole'
  BY <1>1 DEF IInv, HupHarmless, IdentityWhole
<1> QED
  BY <1>1, <1>4, <1>6, <1>7, <1>9, <1>10 DEF IInv

(* What a reload leaves when it goes on to `next`.                         *)
LEMMA ReloadGoesKeeps ==
  ASSUME IInv, NEW t \in Reloads, reload[t] # Idle, NEW next \in {Idle, Begun} \cup Certificates,
         reload' = [reload EXCEPT ![t] = next],
         UNCHANGED <<file, tool, starts, done, config, startCert, conn, ended>>,
         pending' \in BOOLEAN, live' \in Identities \cup {NoIdentity},
         live # NoIdentity => live' # NoIdentity,
         live' # NoIdentity => KeyOf[live'.cert] = live'.key /\ NoNewer(live'.cert),
         next \in Certificates => NoNewer(next) /\ (live' # NoIdentity => live'.cert <= next)
  PROVE  IInv'
<1>1. reload \in [Reloads -> {Idle, Begun} \cup Certificates]
  BY DEF IInv, TypeOK
<1>2. TypeOK'
  <2>1. reload' \in [Reloads -> {Idle, Begun} \cup Certificates]
    BY <1>1
  <2> QED
    BY <2>1 DEF IInv, TypeOK, tool
<1>3. \A u \in Reloads : u # t => reload[u] = Idle /\ reload'[u] = Idle
  BY <1>1 DEF IInv, OneReload
<1>4. reload'[t] = next
  BY <1>1
<1>5. Up' = Up /\ Ready' = Ready /\ Ready
  BY DEF Up, Ready, Taken, IInv, StartInv
<1>6. StartInv'
  <2>1. done = 5
    BY <1>5, StartFact DEF IInv, TypeOK
  <2> QED
    BY <1>5, <2>1 DEF IInv, StartInv
<1>7. OneReload'
  BY <1>3 DEF OneReload
<1>8. OrderInv'
  BY <1>3, <1>4, Constants DEF IInv, OrderInv, NoNewer, tool
<1>9. HupHarmless' /\ IdentityWhole'
  BY DEF IInv, HupHarmless, IdentityWhole
<1> QED
  BY <1>2, <1>6, <1>7, <1>8, <1>9 DEF IInv

LEMMA ReloadReadsCertKeeps ==
  ASSUME IInv, NEW t \in Reloads, ReloadReadsCert(t)
  PROVE  IInv'
<1> DEFINE next == IF file.cert = Torn THEN Idle ELSE file.cert
<1>1. /\ reload[t] = Begun /\ reload' = [reload EXCEPT ![t] = next]
      /\ UNCHANGED <<file, tool, starts, done, config, startCert, live, pending, conn, ended>>
  BY DEF ReloadReadsCert
<1>2. next \in {Idle, Begun} \cup Certificates
  BY DEF IInv, TypeOK
<1>3. next \in Certificates => NoNewer(next) /\ (live # NoIdentity => live.cert <= next)
  BY Constants DEF IInv, OrderInv, NoNewer, Certificates
<1>4. /\ live \in Identities \cup {NoIdentity} /\ pending \in BOOLEAN
      /\ live # NoIdentity => KeyOf[live.cert] = live.key /\ NoNewer(live.cert)
  BY DEF IInv, TypeOK, OrderInv
<1> HIDE DEF next
<1> QED
  BY <1>1, <1>2, <1>3, <1>4, Constants, ReloadGoesKeeps

LEMMA ReloadReadsKeyKeeps ==
  ASSUME IInv, NEW t \in Reloads, ReloadReadsKey(t)
  PROVE  IInv'
<1>1. /\ reload[t] \in Certificates /\ reload[t] # Idle
      /\ reload' = [reload EXCEPT ![t] = Idle] /\ pending' = pending
      /\ UNCHANGED <<file, tool, starts, done, config, startCert, conn, ended>>
  BY Constants DEF ReloadReadsKey, SignalKept
<1>2. Idle \in {Idle, Begun} \cup Certificates /\ Idle \notin Certificates
  BY Constants
<1>3. pending' \in BOOLEAN
  BY <1>1 DEF IInv, TypeOK
<1>4. NoNewer(reload[t])
  BY <1>1 DEF IInv, OrderInv
<1>5. CASE Matches(reload[t], file.key)
  <2>1. live' = [cert |-> reload[t], key |-> file.key]
    BY <1>5 DEF ReloadReadsKey
  <2>2. KeyOf[reload[t]] = file.key
    BY <1>5 DEF Matches
  <2>3. live' \in Identities /\ live'.cert = reload[t] /\ live'.key = file.key
    BY <1>1, <2>1, <2>2, KeyType DEF Identities
  <2>4. NoNewer(live'.cert)
    BY <1>4, <2>3
  <2>5. live' # NoIdentity
    BY <2>3, Constants
  <2> QED
    BY <1>1, <1>2, <1>3, <2>2, <2>3, <2>4, <2>5, ReloadGoesKeeps
<1>6. CASE ~Matches(reload[t], file.key)
  <2>1. live' = live
    BY <1>6 DEF ReloadReadsKey
  <2>2. /\ live \in Identities \cup {NoIdentity}
        /\ live # NoIdentity => KeyOf[live.cert] = live.key /\ NoNewer(live.cert)
    BY DEF IInv, TypeOK, OrderInv
  <2> QED
    BY <1>1, <1>2, <1>3, <2>1, <2>2, ReloadGoesKeeps
<1> QED
  BY <1>5, <1>6

----------------------------------------------------------------------------
(* Signals and renewal                                                     *)

(* A signal ends the process or is noted; the tool may note it was sent.   *)
LEMMA SignalledKeeps ==
  ASSUME IInv, Signalled, UNCHANGED <<file, toWrite, renewal, starts>>, notified' \in BOOLEAN
  PROVE  IInv'
<1>1. starts' \in 0 .. MaxStarts /\ done \in 0 .. Len(StartOrder)
  BY DEF IInv, TypeOK
<1>2. CASE Up /\ ~Taken("handle_hup")
  <2>1. End("hup") /\ ~Ready
    BY <1>1, <1>2, StartFact DEF Signalled
  <2>2. ended'.ready = Ready /\ ended'.why = "hup" /\ ended' = [why |-> "hup", ready |-> Ready]
    BY <2>1 DEF End
  <2>3. Ready \in BOOLEAN
    BY DEF Ready, Taken
  <2> HIDE DEF Ready
  <2>4. /\ ended' \in [why: {"never", "refused", "hup", "stopped"}, ready: BOOLEAN]
        /\ HupHarmless'
    BY <2>1, <2>2, <2>3 DEF HupHarmless
  <2> QED
    BY <1>1, <2>1, <2>4, DownKeeps DEF End
<1>3. CASE ~(Up /\ ~Taken("handle_hup"))
  <2>1. pending' = Up /\ UNCHANGED <<done, config, startCert, live, reload, conn, ended>>
    BY <1>3 DEF Signalled
  <2>2. TypeOK'
    BY <2>1 DEF IInv, TypeOK, Up
  <2>3. Up' = Up /\ Ready' = Ready
    BY <2>1 DEF Up, Ready, Taken
  <2>4. StartInv'
    BY <2>1, <2>3 DEF IInv, StartInv
  <2>5. OneReload' /\ OrderInv' /\ HupHarmless' /\ IdentityWhole'
    BY <2>1 DEF IInv, OneReload, OrderInv, NoNewer, HupHarmless, IdentityWhole
  <2> QED
    BY <2>1, <2>2, <2>4, <2>5 DEF IInv
<1> QED
  BY <1>2, <1>3

(* The files and the tool change and the process does not.                 *)
LEMMA FilesKeep ==
  ASSUME IInv, UNCHANGED <<starts, process, ended>>,
         file' \in [config: Configs, cert: Certificates \cup {Torn}, key: Keys \cup {Torn}],
         toWrite' \subseteq {"cert", "key"}, renewal' \in Certificates, notified' \in BOOLEAN,
         file'.cert # Torn => file'.cert <= renewal',
         \A cert \in Certificates : NoNewer(cert) => NoNewer(cert)'
  PROVE  IInv'
<1>1. UNCHANGED <<starts, done, config, startCert, live, pending, reload, conn, ended>>
  BY DEF process
<1>2. TypeOK'
  BY <1>1 DEF IInv, TypeOK
<1>3. Up' = Up /\ Ready' = Ready
  BY <1>1 DEF Up, Ready, Taken
<1>4. StartInv'
  BY <1>1, <1>3 DEF IInv, StartInv
<1>5. OneReload' /\ HupHarmless' /\ IdentityWhole'
  BY <1>1 DEF IInv, OneReload, HupHarmless, IdentityWhole
<1>6. /\ startCert # NoIdentity => startCert \in Certificates
      /\ live # NoIdentity => live.cert \in Certificates
  BY DEF IInv, TypeOK, Identities
<1>7. OrderInv'
  BY <1>1, <1>6 DEF IInv, OrderInv
<1> QED
  BY <1>1, <1>2, <1>4, <1>5, <1>7 DEF IInv

LEMMA BeginRenewalKeeps ==
  ASSUME IInv, BeginRenewal
  PROVE  IInv'
<1>1. /\ renewal < MaxRenewal /\ renewal' = renewal + 1 /\ notified' = FALSE
      /\ toWrite' = {"cert", "key"} /\ UNCHANGED <<file, starts, process, ended>>
  BY DEF BeginRenewal
<1>2. renewal \in Certificates /\ renewal' \in Certificates
  BY <1>1, Constants DEF IInv, TypeOK, Certificates
<1>3. file'.cert # Torn => file'.cert <= renewal'
  BY <1>1, <1>2, Constants DEF IInv, TypeOK, OrderInv, Certificates
<1>4. \A cert \in Certificates : NoNewer(cert) => NoNewer(cert)'
  BY <1>1, <1>2 DEF NoNewer, Certificates
<1>5. file' \in [config: Configs, cert: Certificates \cup {Torn}, key: Keys \cup {Torn}]
  BY <1>1 DEF IInv, TypeOK
<1> QED
  BY <1>1, <1>2, <1>3, <1>4, <1>5, FilesKeep

(* A file is torn, or holds what the renewal issued.                       *)
LEMMA WriteKeeps ==
  ASSUME IInv, NEW f \in {"cert", "key"}, Tear(f) \/ Complete(f)
  PROVE  IInv'
<1>1. /\ UNCHANGED <<renewal, notified, starts, process, ended>>
      /\ toWrite' \subseteq {"cert", "key"}
  BY DEF Tear, Complete, tool, IInv, TypeOK
<1>2. /\ file \in [config: Configs, cert: Certificates \cup {Torn}, key: Keys \cup {Torn}]
      /\ renewal \in Certificates /\ notified \in BOOLEAN
  BY DEF IInv, TypeOK
<1>3. CASE f = "cert"
  <2>1. PICK c \in {Torn, renewal} : file' = [file EXCEPT !.cert = c]
    BY <1>3 DEF Tear, Complete
  <2>2. file' \in [config: Configs, cert: Certificates \cup {Torn}, key: Keys \cup {Torn}]
    BY <1>2, <2>1
  <2>3. file'.cert = c
    BY <1>2, <2>1
  <2>4. file'.cert # Torn => file'.cert <= renewal'
    BY <1>1, <1>2, <2>3, Constants DEF Certificates
  <2>5. \A cert \in Certificates : NoNewer(cert) => NoNewer(cert)'
    BY <1>1, <2>3 DEF NoNewer
  <2> QED
    BY <1>1, <1>2, <2>2, <2>4, <2>5, FilesKeep
<1>4. CASE f = "key"
  <2>1. PICK k \in {Torn, KeyOf[renewal]} : file' = [file EXCEPT !.key = k]
    BY <1>4 DEF Tear, Complete
  <2>2. k \in Keys \cup {Torn}
    BY <1>2, KeyType
  <2>3. /\ file' \in [config: Configs, cert: Certificates \cup {Torn}, key: Keys \cup {Torn}]
        /\ file'.cert = file.cert
    BY <1>2, <2>1, <2>2
  <2>4. file'.cert # Torn => file'.cert <= renewal'
    BY <1>1, <2>3 DEF IInv, OrderInv
  <2>5. \A cert \in Certificates : NoNewer(cert) => NoNewer(cert)'
    BY <1>1, <2>3 DEF NoNewer
  <2> QED
    BY <1>1, <1>2, <2>3, <2>4, <2>5, FilesKeep
<1> QED
  BY <1>3, <1>4

LEMMA InstallKeeps ==
  ASSUME IInv, NEW c \in Configs, Install(c)
  PROVE  IInv'
<1>1. file' = [file EXCEPT !.config = c] /\ UNCHANGED <<tool, starts, process, ended>>
  BY DEF Install
<1>2. /\ file' \in [config: Configs, cert: Certificates \cup {Torn}, key: Keys \cup {Torn}]
      /\ file'.cert = file.cert
  BY <1>1 DEF IInv, TypeOK
<1>3. UNCHANGED <<toWrite, renewal, notified>>
  BY <1>1 DEF tool
<1>4. toWrite' \subseteq {"cert", "key"} /\ renewal' \in Certificates /\ notified' \in BOOLEAN
  BY <1>3 DEF IInv, TypeOK
<1>5. file'.cert # Torn => file'.cert <= renewal'
  BY <1>2, <1>3 DEF IInv, OrderInv
<1>6. \A cert \in Certificates : NoNewer(cert) => NoNewer(cert)'
  BY <1>2, <1>3 DEF NoNewer
<1> QED
  BY <1>1, <1>2, <1>4, <1>5, <1>6, FilesKeep

----------------------------------------------------------------------------
(* Service                                                                 *)

(* A connection opens or ends.                                             *)
LEMMA ConnKeeps ==
  ASSUME IInv, NEW c \in Clients, Connect(c) \/ Disconnect(c)
  PROVE  IInv'
<1>1. UNCHANGED <<file, tool, starts, done, config, startCert, live, pending, reload, ended>>
  BY DEF Connect, Disconnect
<1>2. PICK v : conn' = [conn EXCEPT ![c] = v] /\ (v = NoConnection \/ (v = Shown /\ Ready))
  BY DEF Connect, Disconnect
<1>3. Ready /\ config.tls = "paths" => live \in Identities /\ KeyOf[live.cert] = live.key
  BY StartFact DEF IInv, TypeOK, StartInv
<1>4. v \in Identities \cup {Plain, NoConnection}
  BY <1>2, <1>3 DEF Shown
<1>5. conn \in [Clients -> Identities \cup {Plain, NoConnection}]
  BY DEF IInv, TypeOK
<1>6. TypeOK'
  <2>1. conn' \in [Clients -> Identities \cup {Plain, NoConnection}]
    BY <1>2, <1>4, <1>5
  <2> QED
    BY <1>1, <2>1 DEF IInv, TypeOK, tool
<1>7. Up' = Up /\ Ready' = Ready
  BY <1>1 DEF Up, Ready, Taken
<1>8. StartInv'
  BY <1>1, <1>2, <1>5, <1>7 DEF IInv, StartInv
<1>9. IdentityWhole'
  BY <1>1, <1>2, <1>3, <1>5 DEF IInv, IdentityWhole, Shown
<1>10. OneReload' /\ OrderInv' /\ HupHarmless'
  BY <1>1 DEF IInv, OneReload, OrderInv, NoNewer, HupHarmless, tool
<1> QED
  BY <1>1, <1>6, <1>8, <1>9, <1>10 DEF IInv

----------------------------------------------------------------------------
(* The invariant holds always                                              *)

LEMMA InitInv == Init => IInv
<1> SUFFICES ASSUME Init PROVE IInv
  OBVIOUS
<1>1. 1 \in Certificates /\ KeyOf[1] \in Keys
  BY Constants, KeyType DEF Certificates
<1>2. TypeOK
  <2>1. file \in [config: Configs, cert: Certificates \cup {Torn}, key: Keys \cup {Torn}]
    BY <1>1 DEF Init
  <2>2. starts \in 0 .. MaxStarts /\ done \in 0 .. Len(StartOrder)
    BY Constants DEF Init, StartOrder
  <2>3. reload \in [Reloads -> {Idle, Begun} \cup Certificates]
    BY DEF Init
  <2>4. conn \in [Clients -> Identities \cup {Plain, NoConnection}]
    BY DEF Init
  <2> QED
    BY <1>1, <2>1, <2>2, <2>3, <2>4 DEF Init, TypeOK
<1>3. ~Up /\ ~Ready
  BY DEF Init, Up, Ready, Taken
<1>4. StartInv /\ OneReload /\ IdentityWhole /\ HupHarmless
  BY <1>3, Constants DEF Init, StartInv, OneReload, IdentityWhole, HupHarmless
<1>5. OrderInv
  BY Constants DEF Init, OrderInv
<1> QED
  BY <1>2, <1>4, <1>5 DEF IInv, Init

LEMMA NextInv ==
  ASSUME IInv, [Next]_vars
  PROVE  IInv'
<1>1. CASE Load \/ StartStep \/ Stop
  <2>1. CASE Stop
    <3>1. starts' \in 0 .. MaxStarts
      BY <2>1 DEF Stop, IInv, TypeOK
    <3> QED
      BY <2>1, <3>1, EndKeeps DEF Stop
  <2>2. CASE Load \/ StartStep
    BY <2>2, LoadKeeps, HandleHupKeeps, StartReadsCertKeeps, StartReadsKeyKeeps,
       StartWithoutTlsKeeps, AssembleKeeps DEF StartStep
  <2> QED
    BY <1>1, <2>1, <2>2
<1>2. CASE ReloadStep
  BY <1>2, ReceiveKeeps, ReloadReadsCertKeeps, ReloadReadsKeyKeeps DEF ReloadStep
<1>3. CASE Notify
  BY <1>3, SignalledKeeps DEF Notify
<1>4. CASE StrayHup
  <2>1. UNCHANGED <<file, toWrite, renewal, starts>> /\ notified' \in BOOLEAN
    BY <1>4 DEF StrayHup, tool, IInv, TypeOK
  <2> QED
    BY <1>4, <2>1, SignalledKeeps DEF StrayHup
<1>5. CASE BeginRenewal \/ \E f \in {"cert", "key"} : Tear(f) \/ Complete(f)
  BY <1>5, BeginRenewalKeeps, WriteKeeps
<1>6. CASE \E c \in Clients : Connect(c) \/ Disconnect(c)
  BY <1>6, ConnKeeps
<1>7. CASE \E c \in Configs : Install(c)
  BY <1>7, InstallKeeps
<1>8. CASE UNCHANGED vars
  <2>1. UNCHANGED <<file, tool, starts, process, ended>>
    BY <1>8 DEF vars
  <2>2. file'.cert # Torn => file'.cert <= renewal'
    BY <2>1 DEF IInv, OrderInv, tool
  <2>3. \A cert \in Certificates : NoNewer(cert) => NoNewer(cert)'
    BY <2>1 DEF NoNewer, tool
  <2>4. /\ file' \in [config: Configs, cert: Certificates \cup {Torn}, key: Keys \cup {Torn}]
        /\ toWrite' \subseteq {"cert", "key"} /\ renewal' \in Certificates /\ notified' \in BOOLEAN
    BY <2>1 DEF IInv, TypeOK, tool
  <2> QED
    BY <2>1, <2>2, <2>3, <2>4, FilesKeep
<1> QED
  BY <1>1, <1>2, <1>3, <1>4, <1>5, <1>6, <1>7, <1>8 DEF Next

(* The inductive invariant holds in every behaviour of the process.        *)
THEOREM Invariance == Spec => []IInv
<1>1. IInv /\ [Next]_vars => IInv'
  BY NextInv
<1> QED
  BY InitInv, <1>1, PTL DEF Spec

(* The state of the process and of its files is well typed.                *)
THEOREM TypeCorrect == Spec => []TypeOK
<1>1. IInv => TypeOK
  BY DEF IInv
<1> QED
  BY <1>1, Invariance, PTL

(* No client is shown half an identity, or plain HTTP instead of TLS.      *)
THEOREM ShownWhole == Spec => []IdentityWhole
<1>1. IInv => IdentityWhole
  BY DEF IInv
<1> QED
  BY <1>1, Invariance, PTL

(* No HUP ends a server that was ready.                                    *)
THEOREM HupSurvived == Spec => []HupHarmless
<1>1. IInv => HupHarmless
  BY DEF IInv
<1> QED
  BY <1>1, Invariance, PTL

(* Only the readings of a key give the resolver an identity.               *)
LEMMA LiveChanges ==
  ASSUME Next, live' # live, live' # NoIdentity
  PROVE  StartReadsKey \/ \E t \in Reloads : ReloadReadsKey(t)
<1>1. ~Down
  BY DEF Down
<1>2. ~Load /\ ~Stop /\ ~Notify /\ ~StrayHup
  BY <1>1 DEF Load, Stop, Notify, StrayHup, Signalled, End
<1>3. StartStep => StartReadsKey
  BY <1>1 DEF StartStep, HandleHup, StartReadsCert, StartWithoutTls, Assemble, Bind, End
<1>4. ReloadStep => \E t \in Reloads : ReloadReadsKey(t)
  BY DEF ReloadStep, Receive, ReloadReadsCert
<1>5. ~BeginRenewal /\ \A f \in {"cert", "key"} : ~Tear(f) /\ ~Complete(f)
  BY DEF BeginRenewal, Tear, Complete, process
<1>6. /\ \A c \in Clients : ~Connect(c) /\ ~Disconnect(c)
      /\ \A c \in Configs : ~Install(c)
  BY DEF Connect, Disconnect, Install, process
<1> QED
  BY <1>2, <1>3, <1>4, <1>5, <1>6 DEF Next

(* A process never goes back to an older certificate.                      *)
THEOREM CertificatesAdvance == Spec => NoStepBack
<1>1. ASSUME IInv, Next, live # NoIdentity, live' # NoIdentity
      PROVE  live'.cert >= live.cert
  <2>1. live.cert \in Certificates
    BY <1>1 DEF IInv, TypeOK, Identities
  <2>2. CASE live' = live
    BY <2>1, <2>2, Constants DEF Certificates
  <2>3. CASE live' # live /\ StartReadsKey
    <3>1. done \in 0 .. Len(StartOrder)
      BY <1>1 DEF IInv, TypeOK
    <3>2. done = 2
      BY <2>3, <3>1, StartFact DEF StartReadsKey
    <3> QED
      BY <1>1, <3>2 DEF IInv, StartInv
  <2>4. CASE live' # live /\ \E t \in Reloads : ReloadReadsKey(t)
    <3>1. PICK t \in Reloads : ReloadReadsKey(t)
      BY <2>4, Zenon
    <3>2. reload[t] \in Certificates /\ live' = [cert |-> reload[t], key |-> file.key]
      BY <2>4, <3>1 DEF ReloadReadsKey
    <3>3. live'.cert = reload[t]
      BY <3>2
    <3>4. live.cert <= reload[t]
      BY <1>1, <3>2 DEF IInv, OrderInv
    <3> QED
      BY <2>1, <3>2, <3>3, <3>4, Constants DEF Certificates
  <2> QED
    BY <1>1, <2>2, <2>3, <2>4, LiveChanges
<1>2. IInv /\ [Next]_vars =>
        [live # NoIdentity /\ live' # NoIdentity => live'.cert >= live.cert]_vars
  BY <1>1
<1> QED
  BY <1>2, Invariance, PTL DEF Spec, NoStepBack

----------------------------------------------------------------------------
(* No HUP is lost                                                          *)

LEMMA FilesStep ==
  ASSUME IInv, FilesInv, Next
  PROVE  FilesInv'
<1>1. renewal \in Certificates /\ toWrite \subseteq {"cert", "key"} /\ KeyOf[renewal] \in Keys
  BY KeyType DEF IInv, TypeOK
<1>2. CASE UNCHANGED <<file, tool>>
  BY <1>2 DEF FilesInv, tool
<1>3. CASE Load \/ StartStep \/ ReloadStep \/ Stop \/ StrayHup
           \/ \E c \in Clients : Connect(c) \/ Disconnect(c)
  <2>1. Load \/ StartStep \/ Stop \/ StrayHup => UNCHANGED <<file, tool>>
    BY DEF Load, StartStep, HandleHup, StartReadsCert, StartReadsKey, StartWithoutTls,
           Assemble, Bind, Stop, StrayHup
  <2>2. ReloadStep \/ (\E c \in Clients : Connect(c) \/ Disconnect(c)) => UNCHANGED <<file, tool>>
    BY DEF ReloadStep, Receive, ReloadReadsCert, ReloadReadsKey, Connect, Disconnect
  <2> QED
    BY <1>2, <1>3, <2>1, <2>2
<1>4. CASE BeginRenewal \/ Notify
  BY <1>4 DEF BeginRenewal, Notify, FilesInv
<1>5. ASSUME NEW f \in {"cert", "key"}, Tear(f) \/ Complete(f)
      PROVE  FilesInv'
  <2>1. file \in [config: Configs, cert: Certificates \cup {Torn}, key: Keys \cup {Torn}]
    BY DEF IInv, TypeOK
  <2>2. CASE Tear(f)
    BY <1>1, <2>1, <2>2 DEF Tear, FilesInv, tool
  <2>3. CASE Complete(f) /\ f = "cert"
    BY <1>1, <2>1, <2>3 DEF Complete, FilesInv
  <2>4. CASE Complete(f) /\ f = "key"
    BY <1>1, <2>1, <2>4 DEF Complete, FilesInv
  <2> QED
    BY <1>5, <2>2, <2>3, <2>4
<1>6. CASE \E c \in Configs : Install(c)
  <2>1. file \in [config: Configs, cert: Certificates \cup {Torn}, key: Keys \cup {Torn}]
    BY DEF IInv, TypeOK
  <2> QED
    BY <1>6, <2>1 DEF Install, FilesInv, tool
<1> QED
  BY <1>3, <1>4, <1>5, <1>6 DEF Next

(* The files as a reading finds them once the tool has sent its HUP.       *)
LEMMA WholeFiles ==
  ASSUME IInv, FilesInv, Settled
  PROVE  /\ file.cert = renewal /\ file.cert # Torn
         /\ file.key = KeyOf[renewal] /\ Matches(renewal, file.key)
<1>1. file.cert = renewal /\ file.key = KeyOf[renewal]
  BY DEF FilesInv, Settled
<1>2. renewal \in Certificates /\ KeyOf[renewal] \in Keys
  BY KeyType DEF IInv, TypeOK
<1> QED
  BY <1>1, <1>2, Constants DEF Matches

(* A process that has just begun has read nothing.                         *)
LEMMA LoadMissesNothing ==
  ASSUME IInv, Load
  PROVE  NothingMissed'
<1>1. done = 0 /\ startCert = NoIdentity /\ live = NoIdentity
  BY DEF Load, Up, IInv, TypeOK, StartInv
<1>2. startCert' = NoIdentity /\ live' = NoIdentity
  BY <1>1 DEF Load, End, Down
<1> QED
  BY <1>2 DEF NothingMissed

LEMMA EndMissesNothing ==
  ASSUME Down
  PROVE  NothingMissed'
BY DEF Down, NothingMissed, Up

(* The start reads what the tool has completed, or goes on with what it    *)
(* has.                                                                    *)
LEMMA StartMissesNothing ==
  ASSUME IInv, FilesInv, NothingMissed, StartStep
  PROVE  NothingMissed'
<1>1. done \in 0 .. Len(StartOrder)
  BY DEF IInv, TypeOK
<1>2. Up /\ UNCHANGED <<file, tool>>
  BY DEF StartStep, HandleHup, StartReadsCert, StartReadsKey, StartWithoutTls, Assemble, Bind,
         Starting
<1>3. Settled' = Settled /\ renewal' = renewal
  BY <1>2 DEF Settled, tool
<1>4. CASE Down
  BY <1>4, EndMissesNothing
<1>5. CASE ~Down /\ StartReadsCert
  <2>1. done = 2 /\ startCert = NoIdentity
    BY <1>1, <1>5, StartFact DEF StartReadsCert
  <2>2. live = NoIdentity
    BY <2>1 DEF IInv, StartInv
  <2>3. startCert' = file.cert /\ live' = live
    BY <1>5 DEF StartReadsCert, End
  <2>4. Settled => file.cert = renewal
    BY WholeFiles
  <2> QED
    BY <1>3, <2>2, <2>3, <2>4 DEF NothingMissed
<1>6. CASE ~Down /\ StartReadsKey
  <2>1. done = 2 /\ startCert # NoIdentity
    BY <1>1, <1>6, StartFact DEF StartReadsKey
  <2>2. startCert \in Certificates /\ live = NoIdentity
    BY <2>1 DEF IInv, TypeOK, StartInv
  <2>3. /\ Matches(startCert, file.key) /\ live' = [cert |-> startCert, key |-> file.key]
        /\ UNCHANGED <<config, pending>>
    BY <1>6 DEF StartReadsKey, End
  <2>4. live' \in Identities /\ live'.cert = startCert
    BY <2>2, <2>3, KeyType DEF Identities, Matches
  <2>5. live' # NoIdentity
    BY <2>4, Constants
  <2> QED
    BY <1>2, <1>3, <2>1, <2>2, <2>3, <2>4, <2>5 DEF NothingMissed
<1>7. CASE ~Down /\ ~StartReadsCert /\ ~StartReadsKey
  <2>1. UNCHANGED <<config, startCert, live, pending, reload>>
    BY <1>7 DEF StartStep, HandleHup, StartWithoutTls, Assemble, Bind, End
  <2> QED
    BY <1>2, <1>3, <2>1 DEF NothingMissed
<1> QED
  BY <1>4, <1>5, <1>6, <1>7

(* A reload that was to serve the last certificate serves it or goes on    *)
(* with it; receiving a HUP begins one.                                    *)
LEMMA ReloadMissesNothing ==
  ASSUME IInv, FilesInv, NothingMissed, NEW t \in Reloads,
         Receive(t) \/ ReloadReadsCert(t) \/ ReloadReadsKey(t)
  PROVE  NothingMissed'
<1>1. reload \in [Reloads -> {Idle, Begun} \cup Certificates] /\ done \in 0 .. Len(StartOrder)
  BY DEF IInv, TypeOK
<1>2. UNCHANGED <<file, tool, done, config, startCert>>
  BY DEF Receive, ReloadReadsCert, ReloadReadsKey
<1>3. Settled' = Settled /\ renewal' = renewal /\ Up' = Up
  BY <1>2 DEF Settled, tool, Up
<1>4. Ready
  BY Constants DEF Receive, ReloadReadsCert, ReloadReadsKey, IInv, StartInv
<1>5. config.tls = "paths" => live # NoIdentity
  BY <1>1, <1>4, StartFact DEF IInv, StartInv
<1> SUFFICES ASSUME Up, config.tls = "paths", Settled, ~pending'
             PROVE  /\ live' # NoIdentity
                    /\ live'.cert = renewal \/ \E u \in Reloads : reload'[u] \in {Begun, renewal}
  BY <1>2, <1>3 DEF NothingMissed
<1>6. CASE Receive(t)
  <2>1. live' = live /\ reload'[t] = Begun
    BY <1>1, <1>6 DEF Receive
  <2> QED
    BY <1>5, <2>1
<1>7. CASE ReloadReadsCert(t)
  <2>1. file.cert = renewal /\ file.cert # Torn
    BY WholeFiles
  <2>2. live' = live /\ reload'[t] = renewal
    BY <1>1, <1>7, <2>1 DEF ReloadReadsCert
  <2> QED
    BY <1>5, <2>2
<1>8. CASE ReloadReadsKey(t)
  <2>1. reload[t] \in Certificates /\ ~pending
    BY <1>8 DEF ReloadReadsKey, SignalKept
  <2>2. renewal \in Certificates /\ live.cert \in Certificates
    BY <1>5 DEF IInv, TypeOK, Identities
  <2>3. reload[t] <= renewal /\ live.cert <= reload[t]
    BY <1>5, <2>1 DEF IInv, OrderInv, NoNewer
  <2>4. live.cert = renewal \/ \E u \in Reloads : reload[u] \in {Begun, renewal}
    BY <1>5, <2>1 DEF NothingMissed
  <2>5. reload[t] = renewal
    <3>1. CASE live.cert = renewal
      BY <2>1, <2>2, <2>3, <3>1, Constants DEF Certificates
    <3>2. ASSUME NEW u \in Reloads, reload[u] \in {Begun, renewal}
          PROVE  reload[t] = renewal
      <4>1. u = t
        BY <2>1, <2>2, <3>2, Constants DEF IInv, OneReload
      <4> QED
        BY <2>1, <3>2, <4>1, Constants
    <3> QED
      BY <2>4, <3>1, <3>2
  <2>6. live' = [cert |-> renewal, key |-> file.key] /\ file.key = KeyOf[renewal]
    BY <1>8, <2>5, WholeFiles DEF ReloadReadsKey
  <2>7. live' \in Identities /\ live'.cert = renewal
    BY <2>2, <2>6, KeyType DEF Identities
  <2> QED
    BY <2>7, Constants
<1> QED
  BY <1>6, <1>7, <1>8

(* A HUP is noted by a process that runs.                                  *)
LEMMA SignalMissesNothing ==
  ASSUME Signalled
  PROVE  NothingMissed'
<1>1. CASE Down
  BY <1>1, EndMissesNothing
<1>2. CASE ~Down
  <2>1. pending' = Up /\ done' = done
    BY <1>2 DEF Signalled, End
  <2> QED
    BY <2>1 DEF NothingMissed, Up
<1> QED
  BY <1>1, <1>2

(* The tool works on files that it has not yet announced.                  *)
LEMMA RenewalMissesNothing ==
  ASSUME FilesInv, BeginRenewal \/ \E f \in {"cert", "key"} : Tear(f) \/ Complete(f)
  PROVE  NothingMissed'
<1>1. ~notified'
  BY DEF BeginRenewal, Tear, Complete, FilesInv, tool
<1> QED
  BY <1>1 DEF NothingMissed, Settled

LEMMA NextMissesNothing ==
  ASSUME IInv, FilesInv, NothingMissed, [Next]_vars
  PROVE  FilesInv' /\ NothingMissed'
<1>1. CASE Load \/ StartStep \/ Stop
  BY <1>1, FilesStep, LoadMissesNothing, StartMissesNothing, EndMissesNothing DEF Next, Stop, End
<1>2. CASE ReloadStep
  BY <1>2, FilesStep, ReloadMissesNothing DEF Next, ReloadStep
<1>3. CASE Notify \/ StrayHup
  BY <1>3, FilesStep, SignalMissesNothing DEF Next, Notify, StrayHup
<1>4. CASE BeginRenewal \/ \E f \in {"cert", "key"} : Tear(f) \/ Complete(f)
  BY <1>4, FilesStep, RenewalMissesNothing DEF Next
<1>5. CASE \E c \in Clients : Connect(c) \/ Disconnect(c)
  <2>1. UNCHANGED <<tool, done, config, startCert, live, pending, reload>>
    BY <1>5 DEF Connect, Disconnect
  <2>2. NothingMissed'
    BY <2>1 DEF NothingMissed, Settled, Up, tool
  <2> QED
    BY <1>5, <2>2, FilesStep DEF Next
<1>6. CASE \E c \in Configs : Install(c)
  <2>1. UNCHANGED <<tool, process>>
    BY <1>6 DEF Install
  <2>2. NothingMissed'
    BY <2>1 DEF NothingMissed, Settled, Up, tool, process
  <2> QED
    BY <1>6, <2>2, FilesStep DEF Next
<1>7. CASE UNCHANGED vars
  <2>1. UNCHANGED <<file, tool, process>>
    BY <1>7 DEF vars
  <2> QED
    BY <2>1 DEF FilesInv, NothingMissed, Settled, Up, tool, process
<1> QED
  BY <1>1, <1>2, <1>3, <1>4, <1>5, <1>6, <1>7 DEF Next

LEMMA InitMissesNothing == Init => FilesInv /\ NothingMissed
<1> SUFFICES ASSUME Init PROVE FilesInv /\ NothingMissed
  OBVIOUS
<1>1. ~Up
  BY DEF Init, Up
<1> QED
  BY <1>1 DEF Init, FilesInv, NothingMissed

(* Whatever reload was under way when the renewal tool sent its HUP, a     *)
(* server that still waits for no HUP serves the tool's last certificate   *)
(* or is about to.                                                         *)
THEOREM NoHupLost == Spec => []NothingMissed
<1> DEFINE Known == FilesInv /\ NothingMissed
<1>1. Init => Known
  BY InitMissesNothing
<1>2. IInv /\ Known /\ [Next]_vars => Known'
  BY NextMissesNothing
<1>3. Known => NothingMissed
  OBVIOUS
<1> HIDE DEF Known
<1> QED
  BY <1>1, <1>2, <1>3, Invariance, PTL DEF Spec

----------------------------------------------------------------------------
(* Routes                                                                  *)

LEMMA SectionFact ==
  ASSUME NEW s, NEW role, Section(s, role)
  PROVE  /\ Len(s) \in Nat /\ DOMAIN s = 1 .. Len(s) /\ s \in Seq(Range(s))
         /\ \A i \in DOMAIN s : s[i].role = role
<1> DEFINE T == {i \in Range(s) : i.role = role}
<1>1. s \in Seq(T) /\ \A x \in T : x \in Range(s) /\ x.role = role
  BY DEF Section
<1> HIDE DEF T
<1>2. Len(s) \in Nat /\ DOMAIN s = 1 .. Len(s) /\ \A i \in DOMAIN s : s[i] \in T
  BY <1>1
<1>3. s \in Seq(Range(s))
  BY <1>1
<1> QED
  BY <1>1, <1>2, <1>3

(* As many names as instances: no two instances share one.                 *)
LEMMA NamesDiffer ==
  ASSUME NEW s, Len(s) \in Nat, DOMAIN s = 1 .. Len(s), UniqueNames(s),
         NEW i \in DOMAIN s, NEW j \in DOMAIN s, s[i].name = s[j].name
  PROVE  i = j
<1> DEFINE S == 1 .. Len(s)
           f == [x \in S |-> s[x].name]
<1>1. IsFiniteSet(S) /\ Cardinality(S) = Len(s)
  <2>1. 1 \in Int /\ Len(s) \in Int
    OBVIOUS
  <2>2. IsFiniteSet(1 .. Len(s)) /\ Cardinality(1 .. Len(s)) = IF 1 > Len(s) THEN 0 ELSE Len(s) - 1 + 1
    BY <2>1, FS_Interval
  <2> QED
    BY <2>2
<1>2. Names(s) = {s[x].name : x \in S}
  BY DEF Names
<1>3. f \in Surjection(S, Names(s))
  BY <1>2 DEF Surjection
<1>4. Cardinality(Names(s)) = Cardinality(S)
  BY <1>1 DEF UniqueNames
<1>5. f \in Injection(S, Names(s))
  BY <1>1, <1>3, <1>4, FS_Surjection
<1>6. f[i] = f[j]
  OBVIOUS
<1> QED
  BY <1>5, <1>6 DEF Injection, IsInjective

LEMMA ConcatFact ==
  ASSUME NEW T, NEW s \in Seq(T), NEW t \in Seq(T)
  PROVE  /\ s \o t \in Seq(T) /\ Len(s \o t) = Len(s) + Len(t)
         /\ \A i \in 1 .. Len(s) + Len(t) :
              (s \o t)[i] = IF i <= Len(s) THEN s[i] ELSE t[i - Len(s)]
OBVIOUS

(* Any natural numbers have a least one.                                   *)
LEMMA LeastExists ==
  ASSUME NEW S, S \subseteq Nat, S # {}
  PROVE  \E x \in S : \A y \in S : x <= y
<1>1. PICK x \in S : \A y \in S : ~ (<<y, x>> \in OpToRel(<, Nat))
  BY NatLessThanWellFounded, WFMin, Zenon
<1>2. \A y \in S : ~ (y < x)
  BY <1>1 DEF OpToRel
<1> QED
  BY <1>2

(* The entry of the route table at i is one of this section.               *)
Placed(a, b, d, i) ==
  LET r == a \o b \o d
  IN \/ i \in DOMAIN a /\ r[i] = a[i] /\ r[i].role = "frontend"
     \/ i - Len(a) \in DOMAIN b /\ r[i] = b[i - Len(a)] /\ r[i].role = "microservice"
     \/ /\ i - (Len(a) + Len(b)) \in DOMAIN d
        /\ r[i] = d[i - (Len(a) + Len(b))] /\ r[i].role = "backend"

LEMMA TableFact ==
  ASSUME NEW a, NEW b, NEW d,
         Section(a, "frontend"), Section(b, "microservice"), Section(d, "backend")
  PROVE  /\ Len(a) \in Nat /\ Len(b) \in Nat /\ Len(d) \in Nat
         /\ DOMAIN (a \o b \o d) = 1 .. Len(a) + Len(b) + Len(d)
         /\ \A i \in DOMAIN (a \o b \o d) : Placed(a, b, d, i)
<1> DEFINE T == Range(a) \cup Range(b) \cup Range(d)
           ab == a \o b
           r == ab \o d
<1>1. /\ Len(a) \in Nat /\ DOMAIN a = 1 .. Len(a) /\ a \in Seq(Range(a))
      /\ \A i \in DOMAIN a : a[i].role = "frontend"
  BY SectionFact
<1>2. /\ Len(b) \in Nat /\ DOMAIN b = 1 .. Len(b) /\ b \in Seq(Range(b))
      /\ \A i \in DOMAIN b : b[i].role = "microservice"
  BY SectionFact
<1>3. /\ Len(d) \in Nat /\ DOMAIN d = 1 .. Len(d) /\ d \in Seq(Range(d))
      /\ \A i \in DOMAIN d : d[i].role = "backend"
  BY SectionFact
<1>4. a \in Seq(T) /\ b \in Seq(T) /\ d \in Seq(T)
  BY <1>1, <1>2, <1>3
<1> HIDE DEF T
<1>5. /\ ab \in Seq(T) /\ Len(ab) = Len(a) + Len(b)
      /\ \A i \in 1 .. Len(a) + Len(b) : ab[i] = IF i <= Len(a) THEN a[i] ELSE b[i - Len(a)]
  BY <1>4, ConcatFact
<1> HIDE DEF ab
<1>6. /\ r \in Seq(T) /\ Len(r) = Len(ab) + Len(d)
      /\ \A i \in 1 .. Len(ab) + Len(d) : r[i] = IF i <= Len(ab) THEN ab[i] ELSE d[i - Len(ab)]
  <2>1. ab \in Seq(T) /\ d \in Seq(T)
    BY <1>4, <1>5
  <2> QED
    BY <2>1, ConcatFact, Zenon
<1> HIDE DEF r
<1>7. DOMAIN r = 1 .. Len(a) + Len(b) + Len(d)
  BY <1>1, <1>2, <1>3, <1>5, <1>6
<1>8. ASSUME NEW i \in DOMAIN r
      PROVE  \/ i \in DOMAIN a /\ r[i] = a[i] /\ r[i].role = "frontend"
             \/ i - Len(a) \in DOMAIN b /\ r[i] = b[i - Len(a)] /\ r[i].role = "microservice"
             \/ /\ i - (Len(a) + Len(b)) \in DOMAIN d
                /\ r[i] = d[i - (Len(a) + Len(b))] /\ r[i].role = "backend"
  <2>1. i \in 1 .. Len(a) + Len(b) + Len(d)
    BY <1>7
  <2>2. CASE i <= Len(a)
    <3>1. i \in DOMAIN a /\ r[i] = a[i]
      BY <1>1, <1>2, <1>3, <1>5, <1>6, <2>1, <2>2
    <3> QED
      BY <1>1, <3>1
  <2>3. CASE i > Len(a) /\ i <= Len(a) + Len(b)
    <3>1. i - Len(a) \in DOMAIN b /\ r[i] = b[i - Len(a)]
      BY <1>1, <1>2, <1>3, <1>5, <1>6, <2>1, <2>3
    <3> QED
      BY <1>2, <3>1
  <2>4. CASE i > Len(a) + Len(b)
    <3>1. i - (Len(a) + Len(b)) \in DOMAIN d /\ r[i] = d[i - (Len(a) + Len(b))]
      BY <1>1, <1>2, <1>3, <1>5, <1>6, <2>1, <2>4
    <3> QED
      BY <1>3, <3>1
  <2> QED
    BY <1>1, <1>2, <2>1, <2>2, <2>3, <2>4
<1>9. r = a \o b \o d
  BY DEF r, ab
<1>10. \A i \in DOMAIN r : Placed(a, b, d, i)
  BY <1>8, <1>9 DEF Placed
<1> QED
  BY <1>1, <1>2, <1>3, <1>7, <1>9, <1>10

(* The kind and the name of a route lead to one instance.                  *)
LEMMA OneRegistrant ==
  ASSUME NEW a, NEW b, NEW d,
         Section(a, "frontend"), Section(b, "microservice"), Section(d, "backend"),
         UniqueNames(a), UniqueNames(b), UniqueNames(d),
         NEW i \in DOMAIN (a \o b \o d), NEW j \in DOMAIN (a \o b \o d),
         (a \o b \o d)[i].role = (a \o b \o d)[j].role,
         (a \o b \o d)[i].name = (a \o b \o d)[j].name
  PROVE  i = j
<1> DEFINE r == a \o b \o d
           n == Len(a) + Len(b)
<1>1. /\ Len(a) \in Nat /\ DOMAIN a = 1 .. Len(a)
      /\ Len(b) \in Nat /\ DOMAIN b = 1 .. Len(b)
      /\ Len(d) \in Nat /\ DOMAIN d = 1 .. Len(d)
  BY SectionFact
<1>2. i \in Nat /\ j \in Nat /\ n \in Nat
  BY <1>1, TableFact
<1>3. Placed(a, b, d, i) /\ Placed(a, b, d, j)
  BY TableFact, Zenon
<1>4. \A k \in {i, j} :
        \/ k \in DOMAIN a /\ r[k] = a[k] /\ r[k].role = "frontend"
        \/ k - Len(a) \in DOMAIN b /\ r[k] = b[k - Len(a)] /\ r[k].role = "microservice"
        \/ k - n \in DOMAIN d /\ r[k] = d[k - n] /\ r[k].role = "backend"
  BY <1>3 DEF Placed
<1> HIDE DEF r, n
<1>same. r[i].role = r[j].role /\ r[i].name = r[j].name
  BY DEF r
<1>5. CASE r[i].role = "frontend"
  <2>1. i \in DOMAIN a /\ j \in DOMAIN a /\ a[i].name = a[j].name
    BY <1>same, <1>4, <1>5
  <2> QED
    BY <1>1, <2>1, NamesDiffer
<1>6. CASE r[i].role = "microservice"
  <2>1. i - Len(a) \in DOMAIN b /\ j - Len(a) \in DOMAIN b /\ b[i - Len(a)].name = b[j - Len(a)].name
    BY <1>same, <1>4, <1>6
  <2>2. i - Len(a) = j - Len(a)
    BY <1>1, <2>1, NamesDiffer
  <2> QED
    BY <1>1, <1>2, <2>2
<1>7. CASE r[i].role = "backend"
  <2>1. i - n \in DOMAIN d /\ j - n \in DOMAIN d /\ d[i - n].name = d[j - n].name
    BY <1>same, <1>4, <1>7
  <2>2. i - n = j - n
    BY <1>1, <2>1, NamesDiffer
  <2> QED
    BY <1>2, <2>2
<1> QED
  BY <1>4, <1>5, <1>6, <1>7

(* A path has a first registrant, and its requests reach it.               *)
LEMMA FirstDispatched ==
  ASSUME NEW c \in Configs, UniqueNames(c.frontends), UniqueNames(c.microservices), UniqueNames(c.backends),
         NEW path \in Paths(c)
  PROVE  \E i \in DOMAIN Registrants(c) :
           /\ Dispatched(c, path) = Registrants(c)[i] /\ path \in Registrants(c)[i].routes
           /\ \A j \in 1 .. i - 1 : path \notin Registrants(c)[j].routes
<1> DEFINE r == Registrants(c)
           S == Routed(c, path)
           size == Len(c.frontends) + Len(c.microservices) + Len(c.backends)
<1>0. /\ Section(c.frontends, "frontend") /\ Section(c.microservices, "microservice")
      /\ Section(c.backends, "backend")
      /\ r = c.frontends \o c.microservices \o c.backends
  BY SectionAssumption DEF Registrants
<1>1. size \in Nat /\ DOMAIN r = 1 .. size
  <2>1. PICK a, b, d : a = c.frontends /\ b = c.microservices /\ d = c.backends
    OBVIOUS
  <2>2. Section(a, "frontend") /\ Section(b, "microservice") /\ Section(d, "backend")
    BY <1>0, <2>1
  <2>3. /\ Len(a) \in Nat /\ Len(b) \in Nat /\ Len(d) \in Nat
        /\ DOMAIN (a \o b \o d) = 1 .. Len(a) + Len(b) + Len(d)
    BY <2>2, TableFact
  <2>4. Len(a) + Len(b) + Len(d) \in Nat
    BY <2>3
  <2> QED
    BY <1>0, <2>1, <2>3, <2>4, Zenon
<1> HIDE DEF size
<1>2. S # {} /\ S \subseteq DOMAIN r
  BY DEF Routed, Paths
<1>3. \E x \in S : \A y \in S : x <= y
  BY <1>1, <1>2, LeastExists
<1> DEFINE i == CHOOSE i \in Routed(c, path) : \A j \in Routed(c, path) : i <= j
<1>5. i \in S /\ (\A j \in S : i <= j) /\ Owner(c, path) = r[i]
  BY <1>3 DEF Owner
<1> HIDE DEF i
<1>6. i \in DOMAIN r /\ path \in r[i].routes
  BY <1>5 DEF Routed
<1> DEFINE N == Named(c, r[i].role, r[i].name)
<1>7. N = {i}
  BY <1>0, <1>6, OneRegistrant DEF Named
<1>8. Dispatched(c, path) = r[i]
  <2>1. Dispatched(c, path) = r[CHOOSE k \in N : \A j \in N : j <= k]
    BY <1>5 DEF Dispatched, Instance
  <2>2. (CHOOSE k \in N : \A j \in N : j <= k) = i
    BY <1>1, <1>6, <1>7
  <2> QED
    BY <2>1, <2>2
<1>9. \A j \in 1 .. i - 1 : path \notin r[j].routes
  BY <1>1, <1>5, <1>6 DEF Routed
<1> QED
  BY <1>6, <1>8, <1>9

(* A request for a path is answered by the instance that registered it     *)
(* first, in the order of the sections.                                    *)
THEOREM FirstRegistrantAnswers == Spec => []RouteOwner
<1>1. ASSUME IInv
      PROVE  RouteOwner
  <2> SUFFICES ASSUME Ready, UniqueNames(config.frontends), UniqueNames(config.backends),
                      NEW path \in Paths(config)
               PROVE  LET all == config.frontends \o config.microservices \o config.backends
                      IN \E i \in DOMAIN all :
                           /\ Dispatched(config, path) = all[i] /\ path \in all[i].routes
                           /\ \A j \in 1 .. i - 1 : path \notin all[j].routes
    BY DEF RouteOwner
  <2>1. config \in Configs /\ UniqueNames(config.microservices)
    BY <1>1, StartFact DEF IInv, TypeOK, StartInv, Validated
  <2>2. Registrants(config) = config.frontends \o config.microservices \o config.backends
    BY DEF Registrants
  <2> QED
    BY <2>1, <2>2, FirstDispatched
<1>2. IInv => RouteOwner
  BY <1>1
<1> QED
  BY <1>2, Invariance, PTL
=============================================================================
