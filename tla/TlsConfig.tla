----------------------------- MODULE TlsConfig ------------------------------
(***************************************************************************)
(* src/src/tls_rustls: the configuration that RustlsConfig's clones share, *)
(* the methods that make and reload it, and the acceptor futures that take *)
(* it when their handshake begins.  src/src/tls_openssl has the same steps *)
(* in the same order, with SslAcceptor for ServerConfig.                   *)
(*                                                                         *)
(* A certificate or key is the number of the rotation that made it; a pair *)
(* is good when the two numbers agree.  An operator (external) replaces    *)
(* the files one at a time while reloads read them one at a time.          *)
(***************************************************************************)
EXTENDS Naturals

CONSTANTS Reloaders,   \* tasks that call a reload method, again and again
          Sessions,    \* connections handed to the acceptor
          MaxRotation  \* bound: rotations of the files

ASSUME RotationAssumption == MaxRotation \in Nat

VARIABLES certFile, keyFile,  \* what the two files hold
          live,               \* RustlsConfig.inner: the ArcSwap
          built,              \* a from_ method has made the RustlsConfig
          pc,                 \* where each reloader is in its call
          method,             \* how its call makes the configuration
          cert, key,          \* what the call has read
          calm,               \* history: the files were whole and stayed so
                              \* while the call read them
          newest,             \* history: newest certificate ever stored
          since,              \* history: newest when the call began
          floor,              \* history: what the last store promises
          session,            \* where each acceptor future is
          config              \* server_config its TlsAcceptor was made from

files == <<certFile, keyFile>>
callVars == <<pc, method, cert, key, since>>
sharedVars == <<live, built, newest, floor>>
sessionVars == <<session, config>>
vars == <<files, callVars, calm, sharedVars, sessionVars>>

Rotations == 0..MaxRotation
(* What a file that is being written may hold: nothing that parses.        *)
Partial == MaxRotation + 1
Contents == 0..Partial
ReloadPCs == {"idle", "read_key", "build", "store", "failed"}
SessionStates == {"new", "inner", "handshake", "open", "closed"}
(* config_from_pem_file and its like end in with_single_cert or in         *)
(* check_private_key; from_sni_pem_files puts a CertifiedKey in a resolver. *)
Methods == {"single_cert", "sni"}
(* sure: the loader checked the pair, or the files were calm.              *)
Configs == [cert : Rotations, key : Rotations, sure : BOOLEAN]
FirstConfig == [cert |-> 0, key |-> 0, sure |-> TRUE]

TypeOK ==
    /\ certFile \in Contents
    /\ keyFile \in Contents
    /\ live \in Configs
    /\ built \in BOOLEAN
    /\ pc \in [Reloaders -> ReloadPCs]
    /\ method \in [Reloaders -> Methods]
    /\ cert \in [Reloaders -> Contents]
    /\ key \in [Reloaders -> Contents]
    /\ calm \in [Reloaders -> BOOLEAN]
    /\ newest \in Rotations
    /\ since \in [Reloaders -> Rotations]
    /\ floor \in Rotations
    /\ session \in [Sessions -> SessionStates]
    /\ config \in [Sessions -> Configs]

(* No RustlsConfig yet, the first pair on disk.                            *)
Init ==
    /\ certFile = 0
    /\ keyFile = 0
    /\ live = FirstConfig
    /\ built = FALSE
    /\ pc = [r \in Reloaders |-> "idle"]
    /\ method = [r \in Reloaders |-> "single_cert"]
    /\ cert = [r \in Reloaders |-> 0]
    /\ key = [r \in Reloaders |-> 0]
    /\ calm = [r \in Reloaders |-> FALSE]
    /\ newest = 0
    /\ since = [r \in Reloaders |-> 0]
    /\ floor = 0
    /\ session = [s \in Sessions |-> "new"]
    /\ config = [s \in Sessions |-> FirstConfig]
-----------------------------------------------------------------------------
(* The operator: a write truncates the certificate's file, then fills it   *)
(* with the next rotation; the key's file follows.                         *)
Disturb ==
    /\ calm' = [r \in Reloaders |-> calm[r] /\ pc[r] # "read_key"]
    /\ UNCHANGED <<callVars, sharedVars, sessionVars>>

TruncateCert ==
    /\ certFile = keyFile
    /\ certFile < MaxRotation
    /\ certFile' = Partial
    /\ UNCHANGED keyFile
    /\ Disturb

WriteCert ==
    /\ certFile = Partial
    /\ certFile' = keyFile + 1
    /\ UNCHANGED keyFile
    /\ Disturb

TruncateKey ==
    /\ certFile # Partial
    /\ keyFile # Partial
    /\ certFile # keyFile
    /\ keyFile' = Partial
    /\ UNCHANGED certFile
    /\ Disturb

WriteKey ==
    /\ keyFile = Partial
    /\ keyFile' = certFile
    /\ UNCHANGED certFile
    /\ Disturb
-----------------------------------------------------------------------------
(* A read of a certificate's file that is being written gives nothing that *)
(* parses, or the new certificate already when the file is cut after it    *)
(* (the rest of its chain is then missing, and certificates_from_pem       *)
(* cannot tell).                                                           *)
CertRead == IF certFile = Partial THEN {Partial, keyFile + 1} ELSE {certFile}

(* A call begins and reads the certificate.  The first call is a from_     *)
(* method, and there is nothing to reload until it has returned.  The      *)
(* certificate is read, then the key, each with an await of its own.       *)
ReadCert(r) ==
    /\ pc[r] = "idle"
    /\ built \/ \A q \in Reloaders : pc[q] = "idle"
    /\ \E m \in Methods : method' = [method EXCEPT ![r] = m]
    /\ \E c \in CertRead : cert' = [cert EXCEPT ![r] = c]
    /\ calm' = [calm EXCEPT ![r] = certFile = keyFile]
    /\ since' = [since EXCEPT ![r] = newest]
    /\ pc' = [pc EXCEPT ![r] = "read_key"]
    /\ UNCHANGED <<files, key, sharedVars, sessionVars>>

ReadKey(r) ==
    /\ pc[r] = "read_key"
    /\ key' = [key EXCEPT ![r] = keyFile]
    /\ pc' = [pc EXCEPT ![r] = "build"]
    /\ UNCHANGED <<files, method, cert, since, calm, sharedVars, sessionVars>>

(* A read fails, the password is not the key's, the resolver refuses the   *)
(* name, or the caller drops the future.                                   *)
LoadErr(r) ==
    /\ pc[r] \in {"read_key", "build"}
    /\ pc' = [pc EXCEPT ![r] = "failed"]
    /\ UNCHANGED <<files, method, cert, key, since, calm, sharedVars, sessionVars>>

Parses(r) == cert[r] # Partial /\ key[r] # Partial

(* Mutant: the pair is not checked.                                        *)
ChecksNothing(r) == TRUE

(* with_single_cert (external) refuses a key that is not the               *)
(* certificate's, as check_private_key does for OpenSSL; CertifiedKey::new *)
(* does not look.                                                          *)
Checks(r) == method[r] = "single_cert" => cert[r] = key[r]

(* The certificates and the key have to parse, and the first failure       *)
(* returns.                                                                *)
Build(r) ==
    /\ pc[r] = "build"
    /\ pc' = [pc EXCEPT ![r] =
                IF Parses(r) /\ Checks(r) THEN "store" ELSE "failed"]
    /\ UNCHANGED <<files, method, cert, key, since, calm, sharedVars, sessionVars>>

Newer(m, n) == IF m > n THEN m ELSE n

(* The call returns Ok with c in the ArcSwap, its first value or a new one *)
(* (an SNI configuration is swapped in by reload_from_config).  From now   *)
(* on the certificate is c's, and no reload that returned before this call *)
(* began has been undone.                                                  *)
Store(c, n) ==
    /\ live' = c
    /\ built' = TRUE
    /\ newest' = Newer(c.cert, newest)
    /\ floor' = Newer(c.cert, n)

(* The call returns, and what it held is gone.                             *)
Returns(r) ==
    /\ pc' = [pc EXCEPT ![r] = "idle"]
    /\ method' = [method EXCEPT ![r] = "single_cert"]
    /\ cert' = [cert EXCEPT ![r] = 0]
    /\ key' = [key EXCEPT ![r] = 0]
    /\ calm' = [calm EXCEPT ![r] = FALSE]
    /\ since' = [since EXCEPT ![r] = 0]
    /\ UNCHANGED <<files, sessionVars>>

(* self.inner.store(inner).                                                *)
StoreConfig(r) ==
    /\ pc[r] = "store"
    /\ Store([cert |-> cert[r], key |-> key[r],
              sure |-> method[r] = "single_cert" \/ calm[r]], since[r])
    /\ Returns(r)

(* from_config and reload_from_config: the caller built the configuration  *)
(* itself (from a rotation that is whole on disk); it is stored unchecked. *)
ReloadFromConfig(r) ==
    /\ pc[r] = "idle"
    /\ built \/ \A q \in Reloaders : pc[q] = "idle"
    /\ certFile = keyFile
    /\ Store([cert |-> certFile, key |-> keyFile, sure |-> TRUE], newest)
    /\ UNCHANGED <<files, callVars, calm, sessionVars>>

(* Mutant: a reload that failed leaves the first configuration behind.     *)
FailResets(r) ==
    /\ pc[r] = "failed"
    /\ live' = FirstConfig
    /\ Returns(r)
    /\ UNCHANGED <<built, newest, floor>>

(* The call returns Err by `?`, before the store; the live configuration   *)
(* stays.                                                                  *)
Fail(r) ==
    /\ pc[r] = "failed"
    /\ Returns(r)
    /\ UNCHANGED sharedVars
-----------------------------------------------------------------------------
Elsewhere == UNCHANGED <<files, callVars, calm, sharedVars>>

(* RustlsAcceptor::accept clones the shared configuration, not its value,  *)
(* and starts the inner acceptor.                                          *)
Accept(s) ==
    /\ built
    /\ session[s] = "new"
    /\ session' = [session EXCEPT ![s] = "inner"]
    /\ UNCHANGED config
    /\ Elsewhere

(* RustlsAcceptorFuture::poll: the inner acceptor is done, get_inner()     *)
(* takes what is live now, and the timed handshake begins.                 *)
BeginHandshake(s) ==
    /\ session[s] = "inner"
    /\ config' = [config EXCEPT ![s] = live]
    /\ session' = [session EXCEPT ![s] = "handshake"]
    /\ Elsewhere

(* The handshake is done, fails or runs out of time; a connection closes.  *)
EndHandshake(s) ==
    /\ session[s] \in {"inner", "handshake"}
    /\ \/ session[s] = "handshake" /\ session' = [session EXCEPT ![s] = "open"]
       \/ session' = [session EXCEPT ![s] = "closed"]
    /\ UNCHANGED config
    /\ Elsewhere

Close(s) ==
    /\ session[s] = "open"
    /\ session' = [session EXCEPT ![s] = "closed"]
    /\ UNCHANGED config
    /\ Elsewhere

Operator == TruncateCert \/ WriteCert \/ TruncateKey \/ WriteKey

Reload(r) == \/ ReadCert(r) \/ ReadKey(r) \/ LoadErr(r) \/ Build(r)
             \/ StoreConfig(r) \/ ReloadFromConfig(r) \/ Fail(r)

Session(s) == Accept(s) \/ BeginHandshake(s) \/ EndHandshake(s) \/ Close(s)

Next == \/ Operator
        \/ \E r \in Reloaders : Reload(r)
        \/ \E s \in Sessions : Session(s)

Spec == Init /\ [][Next]_vars
-----------------------------------------------------------------------------
(* However rotations, reloads and their failures interleave, the           *)
(* certificate and the key in use, live or in a handshake, are a pair:     *)
(* with from_sni_pem_files, which does not check, as long as the files     *)
(* were whole and left alone between its two reads.                        *)
IsPair(c) == c.sure => c.cert = c.key

NoTornPair == IsPair(live) /\ \A s \in Sessions : IsPair(config[s])

(* The operator's rotations: one file at a time, the certificate first.    *)
FilesInv ==
    /\ certFile = Partial => keyFile < MaxRotation
    /\ certFile # Partial /\ keyFile # Partial => keyFile <= certFile

(* No certificate read from now on can be older than n.                    *)
OnDisk(n) == n <= IF certFile = Partial THEN keyFile + 1 ELSE certFile

(* A call in flight: calm means that it read, or is about to read, one     *)
(* rotation; what it read is no older than any store before it began.      *)
CallInv(r) ==
    /\ pc[r] = "read_key" /\ calm[r] => certFile = keyFile /\ cert[r] = keyFile
    /\ pc[r] \in {"build", "store"} /\ calm[r] => cert[r] = key[r]
    /\ pc[r] = "store" => Parses(r) /\ Checks(r)
    /\ pc[r] \in {"read_key", "build", "store"} =>
        /\ since[r] <= cert[r]
        /\ cert[r] # Partial => OnDisk(cert[r])

Fresh == floor <= live.cert /\ OnDisk(newest)

Inv == /\ TypeOK /\ NoTornPair /\ FilesInv /\ Fresh
       /\ \A r \in Reloaders : CallInv(r)

(* README.md: "loading new files replaces what the next handshake sees": a *)
(* handshake takes the certificate of the last successful reload, however  *)
(* many reloads overlap and fail around it, and that certificate is not    *)
(* older than one whose reload had returned when the last one began.       *)
HandshakeSeesReload ==
    [][\A s \in Sessions :
        session[s] = "inner" /\ session'[s] = "handshake"
            => config'[s].cert >= floor]_vars
=============================================================================
