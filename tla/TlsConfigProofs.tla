-------------------------- MODULE TlsConfigProofs ---------------------------
(***************************************************************************)
(* Proofs about TlsConfig, for any number of reloaders, sessions and       *)
(* rotations.                                                              *)
(***************************************************************************)
EXTENDS TlsConfig, TLAPS

LEMMA TypeInit == Init => TypeOK
  <1> SUFFICES ASSUME Init PROVE TypeOK
    OBVIOUS
  <1>1. FirstConfig \in Configs
    BY RotationAssumption DEF FirstConfig, Configs, Rotations
  <1>2. built \in BOOLEAN /\ calm \in [Reloaders -> BOOLEAN]
    BY DEF Init
  <1>3. /\ 0 \in Rotations /\ 0 \in Contents
        /\ "idle" \in ReloadPCs /\ "single_cert" \in Methods /\ "new" \in SessionStates
    BY RotationAssumption
       DEF Rotations, Contents, Partial, ReloadPCs, Methods, SessionStates
  <1> QED
    BY <1>1, <1>2, <1>3 DEF Init, TypeOK

(* Mutual support of the parts of Inv: a pair in live comes from a         *)
(* reloader at "store", whose CallInv says that it was checked or that it  *)
(* read one rotation; that in turn rests on what the files can hold.       *)
LEMMA InvInit == Init => Inv
  <1> SUFFICES ASSUME Init PROVE Inv
    OBVIOUS
  <1>1. NoTornPair /\ FilesInv /\ Fresh
    BY RotationAssumption
       DEF Init, NoTornPair, IsPair, FirstConfig, FilesInv, Fresh, OnDisk, Partial
  <1>2. \A r \in Reloaders : CallInv(r)
    BY DEF Init, CallInv
  <1> QED
    BY <1>1, <1>2, TypeInit DEF Inv

(* Neither the operator nor a session touches what the other parts of      *)
(* NoTornPair and Fresh speak of.                                          *)
LEMMA InvOperator == Inv /\ Operator => Inv'
  <1> SUFFICES ASSUME Inv, Operator PROVE Inv'
    OBVIOUS
  <1> USE RotationAssumption
  <1>d. Disturb
    BY DEF Operator, TruncateCert, WriteCert, TruncateKey, WriteKey
  <1>1. /\ certFile' \in Contents /\ keyFile' \in Contents
        /\ FilesInv'
    BY DEF Inv, TypeOK, FilesInv, Contents, Partial, Operator, TruncateCert,
           WriteCert, TruncateKey, WriteKey
  <1>2. ASSUME NEW n \in Nat, OnDisk(n)
        PROVE  n <= IF certFile' = Partial THEN keyFile' + 1 ELSE certFile'
    BY <1>2 DEF Inv, TypeOK, FilesInv, Contents, Partial, OnDisk, Operator,
           TruncateCert, WriteCert, TruncateKey, WriteKey
  <1>3. calm' \in [Reloaders -> BOOLEAN]
    BY <1>d DEF Disturb
  <1>4. TypeOK'
    BY <1>d, <1>1, <1>3 DEF Disturb, callVars, sharedVars, sessionVars, Inv, TypeOK
  <1>5. NoTornPair' /\ Fresh'
    BY <1>d, <1>2 DEF Disturb, sharedVars, sessionVars, Inv, NoTornPair, IsPair,
           Fresh, OnDisk, TypeOK, Rotations, Partial
  <1>6. ASSUME NEW r \in Reloaders PROVE CallInv(r)'
    <2>1. CallInv(r) /\ cert[r] \in Nat
      BY DEF Inv, TypeOK, Contents
    <2>2. /\ pc' = pc /\ method' = method /\ cert' = cert /\ key' = key
          /\ since' = since
          /\ calm'[r] = (calm[r] /\ pc[r] # "read_key")
      BY <1>d DEF Disturb, callVars
    <2>3. ASSUME pc[r] \in {"read_key", "build", "store"}, cert[r] # Partial
          PROVE  OnDisk(cert[r])'
      <3>1. OnDisk(cert[r])
        BY <2>1, <2>3 DEF CallInv
      <3> QED
        BY <1>2, <2>1, <2>2, <3>1 DEF OnDisk, Partial
    <2>4. Partial' = Partial
      BY DEF Partial
    <2>5. pc[r] = "store" => Parses(r)' /\ Checks(r)'
      BY <2>1, <2>2, <2>4 DEF CallInv, Parses, Checks
    <2>6. pc[r] \in {"build", "store"} /\ calm'[r] => cert[r] = key[r]
      BY <2>1, <2>2 DEF CallInv
    <2>7. ~(pc[r] = "read_key" /\ calm'[r])
      BY <2>2
    <2>8. pc[r] \in {"read_key", "build", "store"} => since[r] <= cert[r]
      BY <2>1 DEF CallInv
    <2> QED
      BY <2>2, <2>3, <2>4, <2>5, <2>6, <2>7, <2>8 DEF CallInv
  <1> QED
    BY <1>1, <1>4, <1>5, <1>6 DEF Inv

(* A call's own steps leave the other calls' CallInv alone.                *)
LEMMA OthersKept ==
  ASSUME Inv, NEW r \in Reloaders, NEW q \in Reloaders, q # r,
         UNCHANGED files,
         pc'[q] = pc[q], method'[q] = method[q], cert'[q] = cert[q],
         key'[q] = key[q], since'[q] = since[q], calm'[q] = calm[q]
  PROVE  CallInv(q)'
  <1>1. CallInv(q)
    BY DEF Inv
  <1> QED
    BY <1>1 DEF CallInv, Parses, Checks, OnDisk, files, Partial

LEMMA TypeReload ==
  ASSUME Inv, NEW r \in Reloaders, Reload(r)
  PROVE  TypeOK'
  <1> USE RotationAssumption DEF Inv, TypeOK, Contents, Partial, Rotations,
          ReloadPCs, Methods
  <1>1. CASE ReadCert(r)
    <2>1. calm' \in [Reloaders -> BOOLEAN]
      BY <1>1 DEF ReadCert
    <2>2. CertRead \subseteq Contents
      BY DEF CertRead, FilesInv
    <2> QED
      BY <1>1, <2>1, <2>2 DEF ReadCert, files, sharedVars, sessionVars
  <1>2. CASE ReadKey(r)
    BY <1>2 DEF ReadKey, files, sharedVars, sessionVars
  <1>3. CASE LoadErr(r)
    BY <1>3 DEF LoadErr, files, sharedVars, sessionVars
  <1>4. CASE Build(r)
    BY <1>4 DEF Build, files, sharedVars, sessionVars
  <1>r. ASSUME Returns(r)
        PROVE  /\ pc' \in [Reloaders -> ReloadPCs]
               /\ method' \in [Reloaders -> Methods]
               /\ cert' \in [Reloaders -> Contents]
               /\ key' \in [Reloaders -> Contents]
               /\ calm' \in [Reloaders -> BOOLEAN]
               /\ since' \in [Reloaders -> Rotations]
               /\ certFile' = certFile /\ keyFile' = keyFile
               /\ session' = session /\ config' = config
    BY <1>r DEF Returns, files, sessionVars
  <1>5. CASE StoreConfig(r)
    <2>1. CallInv(r) /\ pc[r] = "store"
      BY <1>5 DEF StoreConfig
    <2>2. cert[r] \in Rotations /\ key[r] \in Rotations
      BY <2>1 DEF CallInv, Parses
    <2>3. (method[r] = "single_cert" \/ calm[r]) \in BOOLEAN
      OBVIOUS
    <2>4. live' \in Configs
      BY <1>5, <2>2, <2>3 DEF StoreConfig, Store, Configs
    <2>5. newest' \in Rotations /\ floor' \in Rotations
      BY <1>5, <2>2 DEF StoreConfig, Store, Newer
    <2>6. built' \in BOOLEAN
      BY <1>5 DEF StoreConfig, Store
    <2> QED
      BY <1>5, <1>r, <2>4, <2>5, <2>6 DEF StoreConfig
  <1>6. CASE ReloadFromConfig(r)
    <2>1. certFile \in Rotations /\ keyFile \in Rotations
      BY <1>6 DEF ReloadFromConfig, FilesInv
    <2>2. live' \in Configs
      BY <1>6, <2>1 DEF ReloadFromConfig, Store, Configs
    <2>3. newest' \in Rotations /\ floor' \in Rotations
      BY <1>6, <2>1 DEF ReloadFromConfig, Store, Newer
    <2>4. built' \in BOOLEAN
      BY <1>6 DEF ReloadFromConfig, Store
    <2> QED
      BY <1>6, <2>2, <2>3, <2>4 DEF ReloadFromConfig, files, callVars, sessionVars
  <1>7. CASE Fail(r)
    BY <1>7, <1>r DEF Fail, sharedVars
  <1> QED
    BY <1>1, <1>2, <1>3, <1>4, <1>5, <1>6, <1>7 DEF Reload

(* What a store leaves behind.                                             *)
LEMMA StoreKept ==
  ASSUME Inv, NEW c \in Configs, NEW n \in Rotations, IsPair(c), n <= c.cert,
         OnDisk(c.cert), Store(c, n), UNCHANGED <<files, sessionVars>>
  PROVE  NoTornPair' /\ FilesInv' /\ Fresh'
  <1>1. /\ c.cert \in Nat /\ n \in Nat /\ newest \in Nat
        /\ live' = c
    BY RotationAssumption DEF Configs, Rotations, Inv, TypeOK, Store
  <1>2. NoTornPair'
    BY <1>1 DEF sessionVars, Inv, NoTornPair, IsPair
  <1>3. floor' <= live'.cert
    BY <1>1 DEF Store, Newer
  <1>4. OnDisk(newest)'
    <2>1. OnDisk(newest)
      BY DEF Inv, Fresh
    <2>2. OnDisk(newest')
      BY <2>1 DEF Store, Newer
    <2> QED
      BY <2>2 DEF OnDisk, files, Partial
  <1> QED
    BY <1>2, <1>3, <1>4 DEF Fresh, FilesInv, Inv, files, Partial

LEMMA InvReload ==
  ASSUME Inv, NEW r \in Reloaders, Reload(r)
  PROVE  Inv'
  <1> USE RotationAssumption
  <1>0. /\ TypeOK /\ CallInv(r) /\ FilesInv /\ Fresh
        /\ cert[r] \in Nat /\ key[r] \in Nat /\ certFile \in Nat /\ keyFile \in Nat
        /\ newest \in Nat /\ since[r] \in Nat
    BY DEF Inv, TypeOK, Contents, Rotations
  <1>f. UNCHANGED <<files, sessionVars>>
    BY DEF Reload, ReadCert, ReadKey, LoadErr, Build, StoreConfig,
           ReloadFromConfig, Fail, Returns
  <1>o. ASSUME NEW q \in Reloaders, q # r PROVE CallInv(q)'
    <2>1. /\ pc'[q] = pc[q] /\ method'[q] = method[q] /\ cert'[q] = cert[q]
          /\ key'[q] = key[q] /\ since'[q] = since[q] /\ calm'[q] = calm[q]
      BY <1>0, <1>o DEF Reload, ReadCert, ReadKey, LoadErr, Build, StoreConfig,
             ReloadFromConfig, Fail, Returns, callVars, TypeOK
    <2> QED
      BY <1>f, <1>o, <2>1, OthersKept
  <1>s. ASSUME UNCHANGED sharedVars PROVE NoTornPair' /\ FilesInv' /\ Fresh'
    BY <1>f, <1>s DEF Inv, NoTornPair, IsPair, FilesInv, Fresh, OnDisk, sharedVars,
           files, sessionVars, Partial
  <1>p. Partial' = Partial
    BY DEF Partial
  <1>1. CASE ReadCert(r)
    <2>0. /\ newest <= Partial
          /\ certFile = Partial => certFile # keyFile
      BY <1>0 DEF FilesInv, TypeOK, Rotations, Partial
    <2>1. /\ pc'[r] = "read_key" /\ cert'[r] \in CertRead
          /\ calm'[r] = (certFile = keyFile)
          /\ since'[r] = newest /\ certFile' = certFile /\ keyFile' = keyFile
      BY <1>0, <1>1 DEF ReadCert, TypeOK, files
    <2>2. \A c \in CertRead :
            /\ newest <= c
            /\ c # Partial => OnDisk(c)
            /\ certFile = keyFile => c = keyFile
      BY <1>0, <2>0 DEF CertRead, Fresh, OnDisk
    <2>3. CallInv(r)'
      <3>1. cert'[r] # Partial => OnDisk(cert[r])'
        BY <1>p, <2>1, <2>2 DEF OnDisk
      <3>2. since'[r] <= cert'[r]
        BY <2>1, <2>2
      <3>3. calm'[r] => certFile' = keyFile' /\ cert'[r] = keyFile'
        BY <2>1, <2>2
      <3> QED
        BY <1>p, <2>1, <3>1, <3>2, <3>3 DEF CallInv
    <2> QED
      BY <1>1, <1>o, <1>s, <2>3, TypeReload DEF ReadCert, Inv
  <1>2. CASE ReadKey(r)
    <2>1. /\ pc[r] = "read_key" /\ pc'[r] = "build" /\ cert' = cert
          /\ key'[r] = keyFile
          /\ calm' = calm /\ since' = since
          /\ certFile' = certFile /\ keyFile' = keyFile
      BY <1>0, <1>2 DEF ReadKey, TypeOK, files
    <2>2. calm[r] => cert[r] = keyFile
      BY <1>0, <2>1 DEF CallInv
    <2>3. since[r] <= cert[r] /\ (cert[r] # Partial => OnDisk(cert[r]))
      BY <1>0, <2>1 DEF CallInv
    <2>4. CallInv(r)'
      BY <1>p, <2>1, <2>2, <2>3 DEF CallInv, OnDisk
    <2> QED
      BY <1>2, <1>o, <1>s, <2>4, TypeReload DEF ReadKey, Inv
  <1>3. CASE LoadErr(r)
    <2>1. CallInv(r)'
      BY <1>0, <1>3 DEF LoadErr, TypeOK, CallInv
    <2> QED
      BY <1>3, <1>o, <1>s, <2>1, TypeReload DEF LoadErr, Inv
  <1>4. CASE Build(r)
    <2>1. /\ pc[r] = "build"
          /\ pc'[r] = IF Parses(r) /\ Checks(r) THEN "store" ELSE "failed"
          /\ cert' = cert /\ key' = key /\ method' = method
          /\ calm' = calm /\ since' = since
          /\ certFile' = certFile /\ keyFile' = keyFile
      BY <1>0, <1>4 DEF Build, TypeOK, files
    <2>2. CASE Parses(r) /\ Checks(r)
      <3>1. Parses(r)' /\ Checks(r)' /\ pc'[r] = "store"
        BY <2>1, <2>2, <1>p DEF Parses, Checks
      <3>2. CallInv(r)'
        BY <1>0, <1>p, <2>1, <3>1 DEF CallInv, OnDisk
      <3> QED
        BY <1>4, <1>o, <1>s, <3>2, TypeReload DEF Build, Inv
    <2>3. CASE ~(Parses(r) /\ Checks(r))
      <3>1. CallInv(r)'
        BY <2>1, <2>3 DEF CallInv
      <3> QED
        BY <1>4, <1>o, <1>s, <3>1, TypeReload DEF Build, Inv
    <2> QED
      BY <2>2, <2>3
  <1>i. ASSUME pc'[r] = "idle" PROVE CallInv(r)'
    BY <1>i DEF CallInv
  <1>5. CASE StoreConfig(r)
    <2> DEFINE c == [cert |-> cert[r], key |-> key[r],
                     sure |-> method[r] = "single_cert" \/ calm[r]]
    <2>1. /\ pc[r] = "store" /\ Store(c, since[r])
          /\ pc'[r] = "idle"
      BY <1>0, <1>5 DEF StoreConfig, Returns, TypeOK
    <2>2. Parses(r) /\ Checks(r) /\ since[r] <= cert[r] /\ OnDisk(cert[r])
      BY <1>0, <2>1 DEF CallInv, Parses
    <2>3. cert[r] \in Rotations /\ key[r] \in Rotations /\ since[r] \in Rotations
      BY <1>0, <2>2 DEF Parses, TypeOK, Contents, Rotations, Partial
    <2>4. c \in Configs
      BY <2>3 DEF Configs
    <2>5. IsPair(c)
      <3>1. method[r] = "single_cert" => cert[r] = key[r]
        BY <2>2 DEF Checks
      <3>2. calm[r] => cert[r] = key[r]
        BY <1>0, <2>1 DEF CallInv
      <3> QED
        BY <3>1, <3>2 DEF IsPair
    <2>6. c.cert = cert[r]
      OBVIOUS
    <2> HIDE DEF c
    <2>7. NoTornPair' /\ FilesInv' /\ Fresh'
      BY <1>f, <2>1, <2>2, <2>3, <2>4, <2>5, <2>6, StoreKept
    <2> QED
      BY <1>i, <1>o, <2>1, <2>7, TypeReload DEF Inv
  <1>6. CASE ReloadFromConfig(r)
    <2> DEFINE c == [cert |-> certFile, key |-> keyFile, sure |-> TRUE]
    <2>1. Store(c, newest) /\ certFile = keyFile /\ callVars' = callVars /\ calm' = calm
      BY <1>6 DEF ReloadFromConfig
    <2>2. certFile \in Rotations /\ newest \in Rotations
      BY <1>0, <2>1 DEF FilesInv, TypeOK, Contents, Rotations, Partial
    <2>3. c \in Configs /\ IsPair(c) /\ c.cert = certFile
      BY <2>1, <2>2 DEF Configs, IsPair
    <2>4. OnDisk(certFile) /\ newest <= certFile
      <3>1. certFile # Partial
        BY <2>2 DEF Rotations, Partial
      <3> QED
        BY <1>0, <3>1 DEF OnDisk, Fresh
    <2> HIDE DEF c
    <2>5. NoTornPair' /\ FilesInv' /\ Fresh'
      BY <1>f, <2>1, <2>2, <2>3, <2>4, StoreKept
    <2>6. CallInv(r)'
      BY <1>0, <1>f, <1>p, <2>1 DEF CallInv, callVars, files, OnDisk, Parses, Checks
    <2> QED
      BY <1>o, <2>5, <2>6, TypeReload DEF Inv
  <1>7. CASE Fail(r)
    <2>1. pc'[r] = "idle"
      BY <1>0, <1>7 DEF Fail, Returns, TypeOK
    <2> QED
      BY <1>7, <1>i, <1>o, <1>s, <2>1, TypeReload DEF Fail, Inv
  <1> QED
    BY <1>1, <1>2, <1>3, <1>4, <1>5, <1>6, <1>7 DEF Reload

LEMMA InvSession ==
  ASSUME Inv, NEW s \in Sessions, Session(s)
  PROVE  Inv'
  <1>e. Elsewhere
    BY DEF Session, Accept, BeginHandshake, EndHandshake, Close
  <1>1. session' \in [Sessions -> SessionStates]
    BY DEF Session, Accept, BeginHandshake, EndHandshake, Close, Inv, TypeOK,
           SessionStates
  <1>2. /\ config' \in [Sessions -> Configs]
        /\ \A t \in Sessions : config'[t] = config[t] \/ config'[t] = live
    BY DEF Session, Accept, BeginHandshake, EndHandshake, Close, Inv, TypeOK
  <1>3. TypeOK'
    BY <1>e, <1>1, <1>2 DEF Elsewhere, files, callVars, sharedVars, Inv, TypeOK
  <1>4. NoTornPair'
    BY <1>e, <1>2 DEF Elsewhere, sharedVars, Inv, NoTornPair, IsPair
  <1>5. FilesInv' /\ Fresh'
    BY <1>e DEF Elsewhere, files, sharedVars, Inv, FilesInv, Fresh, OnDisk, Partial
  <1>6. ASSUME NEW r \in Reloaders PROVE CallInv(r)'
    <2>1. CallInv(r)
      BY DEF Inv
    <2> QED
      BY <1>e, <2>1 DEF Elsewhere, files, callVars, CallInv, Parses, Checks,
           OnDisk, Partial
  <1> QED
    BY <1>3, <1>4, <1>5, <1>6 DEF Inv

LEMMA InvStep == Inv /\ [Next]_vars => Inv'
  <1> SUFFICES ASSUME Inv, [Next]_vars PROVE Inv'
    OBVIOUS
  <1>1. CASE UNCHANGED vars
    <2>1. TypeOK' /\ NoTornPair' /\ FilesInv' /\ Fresh'
      BY <1>1 DEF vars, files, callVars, sharedVars, sessionVars, Inv, TypeOK,
             NoTornPair, IsPair, FilesInv, Fresh, OnDisk, Partial
    <2>2. ASSUME NEW r \in Reloaders PROVE CallInv(r)'
      <3>1. CallInv(r)
        BY DEF Inv
      <3> QED
        BY <1>1, <3>1 DEF vars, files, callVars, CallInv, Parses, Checks, OnDisk,
               Partial
    <2> QED
      BY <2>1, <2>2 DEF Inv
  <1> QED
    BY <1>1, InvOperator, InvReload, InvSession DEF Next

(* Inv is an inductive invariant of the shared TLS configuration.          *)
THEOREM InvAlways == Spec => []Inv
  BY InvInit, InvStep, PTL DEF Spec

(* However many loads run against a rotation of the files, and wherever    *)
(* they fail, a configuration from a loader that checks holds a pair, and  *)
(* so does one of from_sni_pem_files, which does not check, if the files   *)
(* were whole when it read the first and stayed so until it read the       *)
(* second.                                                                 *)
THEOREM PairNeverTorn == Spec => []NoTornPair
  <1>1. Inv => NoTornPair
    BY DEF Inv
  <1> QED
    BY <1>1, InvAlways, PTL

(* A handshake that begins takes live, which is what the last successful   *)
(* reload stored and no older than any pair whose reload had returned when *)
(* that one began, whatever reloads overlapped with it or failed.          *)
THEOREM HandshakeIsFresh == Spec => HandshakeSeesReload
  <1> DEFINE SeesReload ==
        \A s \in Sessions :
            session[s] = "inner" /\ session'[s] = "handshake"
                => config'[s].cert >= floor
  <1>1. Inv /\ [Next]_vars => [SeesReload]_vars
    <2> SUFFICES ASSUME Inv, Next,
                        NEW s \in Sessions,
                        session[s] = "inner", session'[s] = "handshake"
                 PROVE  config'[s].cert >= floor
      OBVIOUS
    <2>1. PICK t \in Sessions : Session(t)
      BY DEF Next, Operator, TruncateCert, WriteCert, TruncateKey, WriteKey,
             Disturb, Reload, ReadCert, ReadKey, LoadErr, Build, StoreConfig,
             ReloadFromConfig, Fail, Returns, sessionVars
    <2>2. t = s /\ BeginHandshake(s)
      BY <2>1 DEF Session, Accept, BeginHandshake, EndHandshake, Close, Inv,
                  TypeOK
    <2>3. config'[s] = live
      BY <2>2 DEF BeginHandshake, Inv, TypeOK
    <2>4. live.cert \in Nat /\ floor \in Nat /\ floor <= live.cert
      BY RotationAssumption DEF Fresh, Inv, TypeOK, Configs, Rotations
    <2> QED
      BY <2>3, <2>4
  <1> QED
    BY <1>1, InvAlways, PTL DEF Spec, HandshakeSeesReload
=============================================================================
