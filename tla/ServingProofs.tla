---------------------------- MODULE ServingProofs -----------------------------
(***************************************************************************)
(* Theorems about Startup and Serving for any command lines, files, suites *)
(* and certificates.                                                       *)
(*                                                                         *)
(* main is a sequence of phases, so the invariant of Startup is a list of  *)
(* what each phase has settled for those after it.  Handshakes come when   *)
(* main has ended; their invariant says what was read and under which      *)
(* listener.                                                               *)
(***************************************************************************)
EXTENDS Serving, SequenceTheorems, TLAPS

USE StartupAssumption, ServingAssumption DEF Given, Options

-----------------------------------------------------------------------------
(* Startup. *)

AfterValidate == Phases \ {"validate", "failed"}
AfterProvider == AfterValidate \ {"provider", "panicked"}
AfterConfig == AfterProvider \ {"config"}
AfterClient == AfterConfig \ {"client"}
AfterChain == AfterClient \ {"chain"}
AfterProxy == AfterChain \ {"proxy"}
AfterTls == AfterProxy \ {"tls"}

\* What each phase has settled.
PhaseInv ==
  /\ args \in Args
  /\ phase \in Phases
  /\ phase # "running" => listeners = {}
  /\ phase \in AfterValidate => Accepted(args)
  /\ phase \in AfterProvider => suites = Allowed /\ suites # {}
  /\ phase \in AfterConfig => args.configFile # Unusable
  /\ phase \in AfterClient => NoCluster(args) \/ client # NoClient
  /\ client # NoClient => client \in Credentials(args)
  /\ phase \in AfterChain =>
       ~OidcFails(args) /\ (CertificateTrusted <=> Given(args.clientCa))
  /\ phase \in AfterProxy => ~UpstreamFilesFail(args)
  /\ phase = "panicked" => UpstreamFilesFail(args)
  /\ phase \in AfterTls =>
       /\ resolver = ResolverFor(args)
       /\ args.clientCa # Unusable
       /\ verifier = (args.clientCa \in Files)
  /\ \A l \in listeners : l.verified = (l.tls /\ verifier) /\ (l.tls => args.secure)
  /\ Running => ((\E l \in listeners : ~l.tls) <=> args.insecure)

LEMMA PhaseInit == StartInit => PhaseInv
BY DEF StartInit, PhaseInv, Running, Phases, AfterValidate, AfterProvider, AfterConfig, AfterClient,
   AfterChain, AfterProxy, AfterTls

\* The restriction that is installed is the one that was asked for.
LEMMA InstalledIsAllowed ==
  ASSUME args \in Args, Normalized(args.minVersion) # "none"
  PROVE  Installed(Normalized(args.minVersion), args.cipherSuites) = Allowed
<1>1. args.minVersion \in {"VersionTLS12", "TLS1.2", "VersionTLS13", "TLS1.3", "other"}
  BY DEF Args
<1>2. CASE args.minVersion \in {"VersionTLS12", "TLS1.2"}
  BY <1>2 DEF Normalized, Installed, Selected, Allowed
<1>3. CASE args.minVersion \in {"VersionTLS13", "TLS1.3"}
  BY <1>3 DEF Normalized, Installed, Selected, Allowed
<1>4. CASE args.minVersion = "other"
  BY <1>4 DEF Normalized
<1> QED BY <1>1, <1>2, <1>3, <1>4

\* The certificate authenticator is in the chain just when it is asked for.
LEMMA ChainHasCertificate ==
  ASSUME NEW oidc \in {<<"oidc">>, <<>>}, NEW kube \in {<<"kube">>, <<>>}
  PROVE  (\E i \in DOMAIN (CertificateFirst(args) \o oidc \o kube) :
            (CertificateFirst(args) \o oidc \o kube)[i] = "certificate")
         <=> Given(args.clientCa)
<1> DEFINE c == CertificateFirst(args) \o oidc \o kube
<1>1. CASE Given(args.clientCa)
  <2>1. CertificateFirst(args) = <<"certificate">>
    BY <1>1 DEF CertificateFirst
  <2>2. 1 \in DOMAIN c /\ c[1] = "certificate"
    BY <2>1
  <2> QED BY <1>1, <2>2
<1>2. CASE ~Given(args.clientCa)
  <2>1. CertificateFirst(args) = <<>>
    BY <1>2 DEF CertificateFirst
  <2>2. \A i \in DOMAIN c : c[i] \in {"oidc", "kube"}
    BY <2>1
  <2> QED BY <1>2, <2>2
<1> QED BY <1>1, <1>2

LEMMA FirstNamedIsThere ==
  ASSUME NEW S, NEW entries \in Seq(S), NEW name
  PROVE  FirstNamed(entries, name) \subseteq S
BY DEF FirstNamed

\* What is found is whom to ask and with which token.
LEMMA CredentialsAreRecords ==
  ASSUME args \in Args, ~NoCluster(args)
  PROVE  Credentials(args) \subseteq [server : Servers, token : Tokens]
<1>1. ASSUME args.account # Absent
      PROVE  InAccount(args.account) \subseteq [server : Servers, token : Tokens]
  <2>1. args.account \in [token : Tokens \cup {Unusable}, ca : Options]
    BY <1>1 DEF Args
  <2> QED BY <2>1 DEF InAccount
<1>2. ASSUME args.kubeconfig \notin {Absent, Unusable}
      PROVE  InKubeconfig(args.kubeconfig) \subseteq [server : Servers, token : Tokens]
  <2> DEFINE k == args.kubeconfig
             Clusters == [name : Names, server : Servers, ca : Options]
             Users == [name : Names, token : Tokens \cup {Absent},
                       tokenFile : Tokens \cup {Absent, Unusable}]
  <2>1. k \in Kubeconfigs
    BY <1>2 DEF Args
  <2>2. k.clusters \in Seq(Clusters) /\ k.users \in Seq(Users)
    BY <2>1 DEF Kubeconfigs
  <2>3. \A u \in Users : TokenOf(u) \subseteq Tokens
    BY DEF TokenOf
  <2>4. \A x \in Clusters : x.server \in Servers
    OBVIOUS
  <2> HIDE DEF Clusters, Users
  <2>5. \A c \in Context(k) : FirstNamed(k.clusters, c.cluster) \subseteq Clusters
    BY <2>2, FirstNamedIsThere
  <2>6. \A c \in Context(k) : FirstNamed(k.users, c.user) \subseteq Users
    BY <2>2, FirstNamedIsThere
  <2>7. UNION {FirstNamed(k.clusters, c.cluster) : c \in Context(k)} \subseteq Clusters
    BY <2>5
  <2>8. UNION {FirstNamed(k.users, c.user) : c \in Context(k)} \subseteq Users
    BY <2>6
  <2>9. UNION {TokenOf(u) : u \in UNION {FirstNamed(k.users, c.user) : c \in Context(k)}}
          \subseteq Tokens
    BY <2>3, <2>8
  <2> QED BY <2>7, <2>9, <2>4 DEF InKubeconfig
<1> QED BY <1>1, <1>2 DEF Credentials, NoCluster

LEMMA PhaseStep == PhaseInv /\ [StartNext]_startVars => PhaseInv'
<1> SUFFICES ASSUME PhaseInv, [StartNext]_startVars PROVE PhaseInv'
  OBVIOUS
<1> USE DEF PhaseInv, Proceed, Running, Phases, AfterValidate, AfterProvider, AfterConfig, AfterClient,
            AfterChain, AfterProxy, AfterTls, CertificateTrusted, Allowed
<1>1. CASE Validate
  BY <1>1 DEF Validate
<1>2. CASE InstallProvider
  <2>1. CASE Normalized(args.minVersion) = "none"
    BY <1>2, <2>1 DEF InstallProvider, Accepted, ValidTls
  <2>2. CASE Normalized(args.minVersion) # "none"
    BY <1>2, <2>2, InstalledIsAllowed DEF InstallProvider
  <2> QED BY <2>1, <2>2
<1>3. CASE LoadConfig
  BY <1>3 DEF LoadConfig
<1>4. CASE CreateClient
  <2>1. ASSUME NEW c \in Credentials(args), ~NoCluster(args) PROVE c # NoClient
    BY <2>1, CredentialsAreRecords
  <2> QED BY <1>4, <2>1 DEF CreateClient
<1>5. CASE BuildChain
  BY <1>5, ChainHasCertificate DEF BuildChain
<1>6. CASE BuildProxy
  BY <1>6 DEF BuildProxy
<1>7. CASE BuildTls
  BY <1>7 DEF BuildTls
<1>8. CASE Listen
  <2>1. \A l \in listeners' : l.verified = (l.tls /\ verifier) /\ (l.tls => args.secure)
    BY <1>8 DEF Listen, Listener, EndpointsListener, Wanted
  <2>2. ASSUME NEW l \in listeners', ~l.tls PROVE args.insecure
    BY <1>8, <2>2 DEF Listen, Listener, EndpointsListener, Wanted
  <2>3. ASSUME args.insecure PROVE \E l \in listeners' : ~l.tls
    <3>1. Listener("proxy", FALSE) \in listeners' /\ ~Listener("proxy", FALSE).tls
      BY <1>8, <2>3 DEF Listen, Listener, EndpointsListener, Wanted
    <3> QED BY <3>1
  <2>4. (\E l \in listeners' : ~l.tls) <=> args.insecure
    BY <2>2, <2>3
  <2> QED BY <1>8, <2>1, <2>4 DEF Listen
<1>9. CASE UNCHANGED startVars
  BY <1>9 DEF startVars
<1> QED BY <1>1, <1>2, <1>3, <1>4, <1>5, <1>6, <1>7, <1>8, <1>9 DEF StartNext

LEMMA StartTypes == PhaseInv /\ StartTypeOK /\ [StartNext]_startVars => StartTypeOK'
<1> SUFFICES ASSUME PhaseInv, StartTypeOK, [StartNext]_startVars PROVE StartTypeOK'
  OBVIOUS
<1> USE DEF StartTypeOK, Proceed, Phases
<1>1. CASE Validate
  BY <1>1 DEF Validate
<1>2. CASE InstallProvider
  <2>1. \A min, names : Installed(min, names) \subseteq Suites
    BY DEF Installed, Selected
  <2> QED BY <1>2, <2>1 DEF InstallProvider
<1>3. CASE LoadConfig
  BY <1>3 DEF LoadConfig
<1>4. CASE CreateClient
  <2>1. ASSUME NEW c \in Credentials(args), ~NoCluster(args)
        PROVE  c \in [server : Servers, token : Tokens]
    BY <2>1, CredentialsAreRecords
  <2> QED BY <1>4, <2>1 DEF CreateClient
<1>5. CASE BuildChain
  <2> DEFINE S == {"certificate", "oidc", "kube"}
  <2>1. <<"certificate">> \in Seq(S) /\ <<"oidc">> \in Seq(S) /\ <<"kube">> \in Seq(S)
        /\ <<>> \in Seq(S)
    OBVIOUS
  <2>2. CertificateFirst(args) \in Seq(S)
    BY <2>1 DEF CertificateFirst
  <2>3. \A a, b \in Seq(S) : a \o b \in Seq(S)
    BY ConcatProperties
  <2> HIDE DEF S
  <2>4. ASSUME ~OidcFails(args) PROVE chain' \in Seq(S)
    <3> DEFINE oidc == IF Given(args.issuer) THEN <<"oidc">> ELSE <<>>
               kube == IF client # NoClient THEN <<"kube">> ELSE <<>>
    <3>1. oidc \in Seq(S) /\ kube \in Seq(S)
      BY <2>1
    <3>2. chain' = CertificateFirst(args) \o oidc \o kube
      BY <1>5, <2>4 DEF BuildChain
    <3> HIDE DEF oidc, kube
    <3>3. CertificateFirst(args) \o oidc \in Seq(S)
      BY <2>2, <2>3, <3>1
    <3> QED BY <2>3, <3>1, <3>2, <3>3
  <2>5. OidcFails(args) => chain' = chain
    BY <1>5 DEF BuildChain
  <2> QED BY <1>5, <2>4, <2>5 DEF BuildChain, S
<1>6. CASE BuildProxy
  BY <1>6 DEF BuildProxy
<1>7. CASE BuildTls
  <2>1. (args.clientCa \in Files) \in BOOLEAN
    OBVIOUS
  <2>2. ResolverFor(args) \in {Absent, "reloading", "static"}
    BY DEF ResolverFor
  <2>3. verifier' \in BOOLEAN
    BY <1>7, <2>1 DEF BuildTls
  <2> QED BY <1>7, <2>2, <2>3 DEF BuildTls
<1>8. CASE Listen
  <2>1. (TRUE /\ verifier) \in BOOLEAN /\ (FALSE /\ verifier) \in BOOLEAN
    OBVIOUS
  <2>2. {Listener("proxy", TRUE), Listener("proxy", FALSE), EndpointsListener} \subseteq Listeners
    BY <2>1 DEF Listener, EndpointsListener, Listeners
  <2>3. listeners' \subseteq Listeners
    BY <1>8, <2>2 DEF Listen
  <2> QED BY <1>8, <2>3 DEF Listen
<1>9. CASE UNCHANGED startVars
  BY <1>9 DEF startVars
<1> QED BY <1>1, <1>2, <1>3, <1>4, <1>5, <1>6, <1>7, <1>8, <1>9 DEF StartNext

-----------------------------------------------------------------------------
(* What the phases settle gives the properties of Startup. *)

LEMMA PhaseGivesRestrictions == PhaseInv => RestrictionsHold
BY DEF PhaseInv, RestrictionsHold, AfterProvider, AfterValidate, Phases

\* A listener is there: main has ended, and its certificate comes from the files
\* just when they were given.
LEMMA OpenListeners ==
  ASSUME PhaseInv, NEW l \in listeners
  PROVE  /\ Running /\ (l.tls => args.secure)
         /\ l.tls => resolver = IF Given(args.tlsCert) THEN "reloading" ELSE "static"
         /\ l.verified <=> l.tls /\ Given(args.clientCa)
         /\ Given(args.clientCa) => Given(args.tlsCert)
         /\ CertificateTrusted <=> Given(args.clientCa)
<1> USE DEF PhaseInv, AfterValidate, AfterProvider, AfterConfig, AfterClient, AfterChain,
            AfterProxy, AfterTls, Phases
<1>1. Running /\ (l.tls => args.secure) /\ Accepted(args)
  BY DEF Running
<1>2. resolver = ResolverFor(args) /\ verifier = (args.clientCa \in Files)
  BY <1>1 DEF Running
<1>3. (Given(args.tlsCert) <=> Given(args.tlsKey))
      /\ (Given(args.clientCa) => Given(args.tlsCert))
  BY <1>1 DEF Accepted, ValidTls, Paired
<1>4. l.tls => resolver = IF Given(args.tlsCert) THEN "reloading" ELSE "static"
  BY <1>1, <1>2, <1>3 DEF ResolverFor
<1>5. verifier <=> Given(args.clientCa)
  <2>1. args.clientCa \in Options /\ args.clientCa # Unusable
    BY <1>1 DEF Running, Args
  <2> QED BY <1>2, <2>1
<1>6. l.verified <=> l.tls /\ Given(args.clientCa)
  <2>1. l.verified = (l.tls /\ verifier)
    OBVIOUS
  <2> QED BY <1>5, <2>1
<1>7. CertificateTrusted <=> Given(args.clientCa)
  BY <1>1 DEF Running
<1> QED BY <1>1, <1>3, <1>4, <1>6, <1>7

LEMMA PhaseGivesVerification == PhaseInv => TlsClientsAreVerified
<1> SUFFICES ASSUME PhaseInv PROVE TlsClientsAreVerified
  OBVIOUS
<1>1. ASSUME NEW l \in listeners
      PROVE  /\ l.verified <=> CertificateTrusted /\ l.tls
             /\ l.verified => resolver = "reloading"
  BY OpenListeners
<1>2. ASSUME Running
      PROVE  (\E l \in listeners : CertificateTrusted /\ ~l.verified)
             <=> CertificateTrusted /\ args.insecure
  <2>1. (\E l \in listeners : ~l.tls) <=> args.insecure
    BY <1>2 DEF PhaseInv
  <2> QED BY <1>1, <2>1
<1> QED BY <1>1, <1>2 DEF TlsClientsAreVerified

LEMMA PhaseGivesUsable == PhaseInv => NothingUnusableRuns
<1> SUFFICES ASSUME PhaseInv, Running PROVE NothingUnusableRuns
  BY DEF NothingUnusableRuns
<1> USE DEF PhaseInv, AfterValidate, AfterProvider, AfterConfig, AfterClient, AfterChain,
            AfterProxy, AfterTls, Phases, Running
<1>1. Unusable \notin {args.configFile, args.clientCa}
  OBVIOUS
<1>2. Unusable \notin {args.upstreamCert, args.upstreamKey, args.upstreamCa}
  BY DEF UpstreamFilesFail, Accepted, Paired
<1>3. Given(args.issuer) => args.oidcCa # Unusable
  BY DEF OidcFails
<1>4. Given(args.kubeconfig) \/ Given(args.account) => client # NoClient
  BY DEF NoCluster
<1>5. args.kubeconfig # Unusable
  <2>1. ASSUME args.kubeconfig = Unusable PROVE FALSE
    <3>1. client \in Credentials(args)
      BY <1>4, <2>1
    <3> QED BY <2>1, <3>1 DEF Credentials
  <2> QED BY <2>1
<1> QED BY <1>1, <1>2, <1>3, <1>4, <1>5 DEF NothingUnusableRuns

\* Duplicates do not matter: the first of a name is one entry.
LEMMA FirstNamedIsOne ==
  ASSUME NEW S, NEW entries \in Seq(S), NEW name, NEW e \in FirstNamed(entries, name)
  PROVE  /\ \E i \in DOMAIN entries :
              /\ e = entries[i] /\ entries[i].name = name
              /\ \A j \in 1 .. i - 1 : entries[j].name # name
         /\ \A f \in FirstNamed(entries, name) : f = e
<1>1. PICK i \in DOMAIN entries :
        e = entries[i] /\ entries[i].name = name /\ \A j \in 1 .. i - 1 : entries[j].name # name
  BY DEF FirstNamed
<1>2. ASSUME NEW f \in FirstNamed(entries, name) PROVE f = e
  <2>1. PICK k \in DOMAIN entries :
          f = entries[k] /\ entries[k].name = name /\ \A j \in 1 .. k - 1 : entries[j].name # name
    BY <1>2 DEF FirstNamed
  <2>2. DOMAIN entries = 1 .. Len(entries) /\ Len(entries) \in Nat
    OBVIOUS
  <2>3. ~(i < k) /\ ~(k < i)
    BY <1>1, <2>1, <2>2
  <2> QED BY <1>1, <2>1, <2>2, <2>3
<1> QED BY <1>1, <1>2

LEMMA PhaseGivesCredentials == PhaseInv => CredentialsBelongTogether
<1> SUFFICES ASSUME PhaseInv, client # NoClient PROVE CredentialsBelongTogether
  BY DEF CredentialsBelongTogether
<1>1. client \in Credentials(args) /\ args \in Args
  BY DEF PhaseInv
<1>2. CASE ~Given(args.kubeconfig)
  BY <1>1, <1>2 DEF Credentials, InAccount, CredentialsBelongTogether
<1>3. CASE Given(args.kubeconfig)
  <2> DEFINE k == args.kubeconfig
  <2>1. k # Unusable /\ client \in InKubeconfig(k) /\ k \in Kubeconfigs
    BY <1>1, <1>3 DEF Credentials, Args
  <2>2. /\ k.contexts \in Seq([name : Names, cluster : Names, user : Names])
    BY <2>1 DEF Kubeconfigs
  <2>3. PICK c \in Context(k), d \in Context(k) :
          \E x \in FirstNamed(k.clusters, c.cluster), u \in FirstNamed(k.users, d.user) :
            \E t \in TokenOf(u) : client = [server |-> x.server, token |-> t]
    BY <2>1 DEF InKubeconfig
  <2>4. d = c
    BY <2>2, FirstNamedIsOne DEF Context
  <2>5. PICK i \in DOMAIN k.contexts :
          /\ c = k.contexts[i] /\ k.contexts[i].name = k.current
          /\ \A j \in 1 .. i - 1 : k.contexts[j].name # k.current
    BY <2>2, FirstNamedIsOne DEF Context
  <2>6. PICK x \in FirstNamed(k.clusters, c.cluster), u \in FirstNamed(k.users, c.user) :
          client.server = x.server /\ client.token \in {u.token, u.tokenFile}
    BY <2>3, <2>4 DEF TokenOf
  <2> QED BY <1>3, <2>1, <2>5, <2>6 DEF CredentialsBelongTogether
<1> QED BY <1>2, <1>3

LEMMA PhaseGivesStart == PhaseInv => StartedAsAsked
BY PhaseGivesCredentials, PhaseGivesUsable DEF StartedAsAsked, PhaseInv

-----------------------------------------------------------------------------
(* Handshakes. *)

\* Why the server may refuse, whatever is on the disk.
Unwelcome == hello.offer \cap suites = {} \/ ~ServerAccepts

HandshakeTypes ==
  /\ pc \in {"closed", "hello", "key", "verify", "served", "refused"}
  /\ quiet \in BOOLEAN /\ digest \in {"name", Absent}
  /\ disk.cert \in Contents /\ disk.key \in Contents
  /\ disk = [cert |-> disk.cert, key |-> disk.key]
  /\ loaded.cert \in Contents \cup {Made, Absent}
  /\ loaded.key \in Contents \cup {Made, Absent}
  /\ loaded = [cert |-> loaded.cert, key |-> loaded.key]

\* Every handshake is of a listener there is.
HelloKnown ==
  /\ pc = "closed" => hello = NoHello
  /\ pc # "closed" =>
       /\ hello \in [listener : listeners, offer : Offers, certificate : Presented]
       /\ hello.listener.tls

\* What has been read of files that have not changed is what they hold.
ReadIsOnDisk ==
  /\ pc = "key" => resolver = "reloading"
  /\ quiet /\ resolver = "reloading" =>
       /\ pc \in {"key", "verify", "served"} => loaded.cert = disk.cert
       /\ pc \in {"verify", "served"} => loaded.key = disk.key
  /\ pc = "verify" /\ resolver # "reloading" => loaded.cert = loaded.key

\* How a handshake may have ended.
EndIsDeserved ==
  /\ pc = "served" =>
       /\ loaded.cert = loaded.key /\ ServerAccepts
       /\ digest = "name" => hello.listener.verified /\ hello.certificate = "named"
  /\ pc = "refused" /\ quiet /\ (resolver = "reloading" => Settled) => Unwelcome

HandshakeInv == HandshakeTypes /\ HelloKnown /\ ReadIsOnDisk /\ EndIsDeserved

SInv == PhaseInv /\ StartTypeOK /\ HandshakeInv

LEMMA InitSInv == Init => SInv
<1> SUFFICES ASSUME Init PROVE SInv
  OBVIOUS
<1>1. PhaseInv
  BY PhaseInit DEF Init
<1>2. StartTypeOK
  <2>1. <<>> \in Seq({"certificate", "oidc", "kube"})
    OBVIOUS
  <2> QED BY <2>1 DEF Init, StartInit, StartTypeOK, Phases
<1>3. HandshakeInv
  BY DEF Init, HandshakeInv, HandshakeTypes, HelloKnown, ReadIsOnDisk, EndIsDeserved,
         NoHello, Nothing, Contents
<1> QED BY <1>1, <1>2, <1>3 DEF SInv

\* main has ended when a connection is open.
LEMMA OpenMeansRunning ==
  ASSUME SInv, pc # "closed"
  PROVE  /\ Running /\ hello.listener \in listeners /\ hello.listener.tls
         /\ hello.offer \in Offers /\ hello.certificate \in Presented
BY DEF SInv, PhaseInv, HandshakeInv, HelloKnown, Running

LEMMA SInvStep == SInv /\ [Next]_vars => SInv'
<1> SUFFICES ASSUME SInv, [Next]_vars PROVE SInv'
  OBVIOUS
<1>1. [StartNext]_startVars
  BY DEF Next, Start, Replace, Hello, Handshake, Present, ReadCertificate, ReadKey, Complete,
         Abort, Close, Refuse, vars
<1>2. PhaseInv' /\ StartTypeOK'
  BY <1>1, PhaseStep, StartTypes DEF SInv
<1>3. HandshakeTypes /\ HelloKnown /\ ReadIsOnDisk /\ EndIsDeserved
  BY DEF SInv, HandshakeInv
<1>4. CASE Start
  <2>1. ~Running
    BY <1>4 DEF Start, StartNext, Validate, InstallProvider, LoadConfig, CreateClient,
                BuildChain, BuildProxy, BuildTls, Listen, Running
  <2>2. pc = "closed"
    BY <2>1, OpenMeansRunning
  <2>3. HandshakeInv'
    BY <1>3, <1>4, <2>2 DEF Start, handshakeVars, HandshakeInv, HandshakeTypes, HelloKnown,
       ReadIsOnDisk, EndIsDeserved
  <2> QED BY <1>2, <2>3 DEF SInv
<1>5. ASSUME NEW files \in [cert : Contents, key : Contents], Replace(files) PROVE HandshakeInv'
  <2> USE <1>3, <1>5 DEF Replace, startVars, handshakeVars
  <2>1. HandshakeTypes'
    BY DEF HandshakeTypes, Contents
  <2>2. HelloKnown'
    BY DEF HelloKnown, NoHello
  <2>3. ReadIsOnDisk'
    BY DEF ReadIsOnDisk
  <2>4. EndIsDeserved'
    BY DEF EndIsDeserved, ServerAccepts, Unwelcome, Settled
  <2> QED BY <2>1, <2>2, <2>3, <2>4 DEF HandshakeInv
<1>6. ASSUME NEW l \in listeners, NEW o \in Offers, NEW c \in Presented, Hello(l, o, c)
      PROVE  HandshakeInv'
  <2> USE <1>3, <1>6 DEF Hello, startVars, handshakeVars
  <2>1. HandshakeTypes'
    BY DEF HandshakeTypes, Contents
  <2>2. HelloKnown'
    BY DEF HelloKnown, NoHello
  <2>3. ReadIsOnDisk'
    BY DEF ReadIsOnDisk
  <2>4. EndIsDeserved'
    BY DEF EndIsDeserved, ServerAccepts, Unwelcome, Settled
  <2> QED BY <2>1, <2>2, <2>3, <2>4 DEF HandshakeInv
<1>7. ASSUME Present PROVE HandshakeInv'
  <2> USE <1>3, <1>7 DEF Present, startVars, handshakeVars
  <2>1. HandshakeTypes'
    BY DEF HandshakeTypes, Contents
  <2>2. HelloKnown'
    BY DEF HelloKnown, NoHello
  <2>3. ReadIsOnDisk'
    BY DEF ReadIsOnDisk
  <2>4. EndIsDeserved'
    BY DEF EndIsDeserved, ServerAccepts, Unwelcome, Settled
  <2> QED BY <2>1, <2>2, <2>3, <2>4 DEF HandshakeInv
<1>8. ASSUME ReadCertificate PROVE HandshakeInv'
  <2> USE <1>3, <1>8 DEF ReadCertificate, Refuse, startVars, handshakeVars
  <2>1. HandshakeTypes'
    BY DEF HandshakeTypes, Contents
  <2>2. HelloKnown'
    BY DEF HelloKnown, NoHello
  <2>3. ReadIsOnDisk'
    BY DEF ReadIsOnDisk
  <2>4. EndIsDeserved'
    BY DEF EndIsDeserved, ServerAccepts, Unwelcome, Settled
  <2> QED BY <2>1, <2>2, <2>3, <2>4 DEF HandshakeInv
<1>9. ASSUME ReadKey PROVE HandshakeInv'
  <2> USE <1>3, <1>9 DEF ReadKey, Refuse, startVars, handshakeVars
  <2>1. HandshakeTypes'
    BY DEF HandshakeTypes, Contents
  <2>2. HelloKnown'
    BY DEF HelloKnown, NoHello
  <2>3. ReadIsOnDisk'
    BY DEF ReadIsOnDisk
  <2>4. EndIsDeserved'
    BY DEF EndIsDeserved, ReadIsOnDisk, ServerAccepts, Unwelcome, Settled
  <2> QED BY <2>1, <2>2, <2>3, <2>4 DEF HandshakeInv
<1>10. ASSUME Complete PROVE HandshakeInv'
  <2> USE <1>3, <1>10 DEF Complete, ClientAccepts, startVars, handshakeVars
  <2>1. HandshakeTypes'
    BY DEF HandshakeTypes, Contents
  <2>2. HelloKnown'
    BY DEF HelloKnown, NoHello
  <2>3. ReadIsOnDisk'
    BY DEF ReadIsOnDisk
  <2>4. EndIsDeserved'
    BY DEF EndIsDeserved, ServerAccepts, Unwelcome, Settled
  <2> QED BY <2>1, <2>2, <2>3, <2>4 DEF HandshakeInv
<1>11. ASSUME Abort PROVE HandshakeInv'
  <2> USE <1>3, <1>11 DEF Abort, Refuse, ClientAccepts, startVars, handshakeVars
  <2>1. HandshakeTypes'
    BY DEF HandshakeTypes, Contents
  <2>2. HelloKnown'
    BY DEF HelloKnown, NoHello
  <2>3. ReadIsOnDisk'
    BY DEF ReadIsOnDisk
  <2>4. EndIsDeserved'
    BY DEF EndIsDeserved, ReadIsOnDisk, ServerAccepts, Unwelcome, Settled
  <2> QED BY <2>1, <2>2, <2>3, <2>4 DEF HandshakeInv
<1>12. ASSUME Close PROVE HandshakeInv'
  <2> USE <1>3, <1>12 DEF Close, Nothing, startVars, handshakeVars
  <2>1. HandshakeTypes'
    BY DEF HandshakeTypes, Contents
  <2>2. HelloKnown'
    BY DEF HelloKnown, NoHello
  <2>3. ReadIsOnDisk'
    BY DEF ReadIsOnDisk
  <2>4. EndIsDeserved'
    BY DEF EndIsDeserved, ServerAccepts, Unwelcome, Settled
  <2> QED BY <2>1, <2>2, <2>3, <2>4 DEF HandshakeInv
<1>13. ASSUME UNCHANGED vars PROVE HandshakeInv'
  <2> USE <1>3, <1>13 DEF vars, startVars, handshakeVars
  <2>1. HandshakeTypes'
    BY DEF HandshakeTypes, Contents
  <2>2. HelloKnown'
    BY DEF HelloKnown, NoHello
  <2>3. ReadIsOnDisk'
    BY DEF ReadIsOnDisk
  <2>4. EndIsDeserved'
    BY DEF EndIsDeserved, ServerAccepts, Unwelcome, Settled
  <2> QED BY <2>1, <2>2, <2>3, <2>4 DEF HandshakeInv
<1> QED
  BY <1>2, <1>4, <1>5, <1>6, <1>7, <1>8, <1>9, <1>10, <1>11, <1>12, <1>13
  DEF Next, Handshake, SInv

-----------------------------------------------------------------------------
(* Theorems. *)

LEMMA SInvHolds == Spec => []SInv
BY InitSInv, SInvStep, PTL DEF Spec

LEMMA SInvGivesTypes == SInv => TypeOK
<1> SUFFICES ASSUME SInv PROVE TypeOK
  OBVIOUS
<1>1. StartTypeOK /\ HandshakeTypes /\ HelloKnown
  BY DEF SInv, HandshakeInv
<1>2. disk \in [cert : Contents, key : Contents]
  BY <1>1 DEF HandshakeTypes
<1>3. loaded \in [cert : Contents \cup {Made, Absent}, key : Contents \cup {Made, Absent}]
  BY <1>1 DEF HandshakeTypes
<1> QED BY <1>1, <1>2, <1>3 DEF TypeOK, HandshakeTypes, HelloKnown

\* The TLS listener of an open connection, with what its phase settled.
LEMMA OpenListener ==
  ASSUME SInv, pc # "closed"
  PROVE  /\ resolver = IF Given(args.tlsCert) THEN "reloading" ELSE "static"
         /\ hello.listener.verified <=> Given(args.clientCa)
         /\ CertificateTrusted <=> Given(args.clientCa)
         /\ suites = Allowed
<1>1. PhaseInv /\ Running /\ hello.listener \in listeners /\ hello.listener.tls
  BY OpenMeansRunning DEF SInv
<1>2. suites = Allowed
  BY <1>1 DEF PhaseInv, Running, AfterProvider, AfterValidate, Phases
<1> QED BY <1>1, <1>2, OpenListeners

LEMMA SInvGivesServed == SInv => ServedFromDisk
<1> SUFFICES ASSUME SInv PROVE ServedFromDisk
  OBVIOUS
<1>1. HandshakeTypes /\ ReadIsOnDisk /\ EndIsDeserved
  BY DEF SInv, HandshakeInv
<1>2. ASSUME pc = "served"
      PROVE  loaded.cert = loaded.key /\ (Given(args.tlsCert) /\ quiet => loaded = disk)
  BY <1>1, <1>2, OpenListener DEF HandshakeTypes, ReadIsOnDisk, EndIsDeserved
<1>3. ASSUME pc = "refused", quiet, Given(args.tlsCert) => Settled
      PROVE  \/ hello.offer \cap Allowed = {}
             \/ Given(args.clientCa) /\ hello.certificate \in {"none", "foreign"}
  <2>1. Unwelcome
    BY <1>1, <1>3, OpenListener DEF EndIsDeserved
  <2>2. hello.certificate \in Presented
    BY <1>3, OpenMeansRunning
  <2> QED BY <1>3, <2>1, <2>2, OpenListener DEF Unwelcome, ServerAccepts, Presented
<1> QED BY <1>2, <1>3 DEF ServedFromDisk

LEMMA SInvGivesTrusted == SInv => OnlyTrustedClients
<1> SUFFICES ASSUME SInv, pc = "served" PROVE OnlyTrustedClients
  BY DEF OnlyTrustedClients
<1>1. EndIsDeserved
  BY DEF SInv, HandshakeInv
<1> QED BY <1>1, OpenListener DEF EndIsDeserved, ServerAccepts, OnlyTrustedClients,
                                  CertificateTrusted

\* Every variable of the start and of a handshake keeps to its values
\* (main.rs 206-337, tls.rs 93-102).
THEOREM TypeCorrect == Spec => []TypeOK
BY SInvHolds, SInvGivesTypes, PTL

\* No listener opens before the process offers just the suites the options
\* leave (tls.rs 24-48), for any suites and options.
THEOREM RestrictionsAreInstalled == Spec => []RestrictionsHold
<1>1. SInv => RestrictionsHold
  BY PhaseGivesRestrictions DEF SInv
<1> QED BY SInvHolds, <1>1, PTL

\* With the certificate authenticator every TLS listener verifies its clients, and
\* the plaintext listener, if asked for, is the one that does not, whatever the
\* command line (main.rs 224-227 and 288-331).
THEOREM VerificationIsConsistent == Spec => []TlsClientsAreVerified
<1>1. SInv => TlsClientsAreVerified
  BY PhaseGivesVerification DEF SInv
<1> QED BY SInvHolds, <1>1, PTL

\* The proxy runs with what it was asked for or not at all, for kubeconfigs
\* with any contexts, clusters and users (kube.rs 76-160).
THEOREM StartsAreAsAsked == Spec => []StartedAsAsked
<1>1. SInv => StartedAsAsked
  BY PhaseGivesStart DEF SInv
<1> QED BY SInvHolds, <1>1, PTL

\* A completed handshake used a certificate with its key, those of the disk
\* unless the files were replaced under it, and a client is refused only for
\* a reason of its own (tls.rs 93-102), however the files are written.
THEOREM ServedPairIsOnDisk == Spec => []ServedFromDisk
BY SInvHolds, SInvGivesServed, PTL

\* With a client CA no connection over TLS is without a certificate of it
\* (main.rs 288-310, cert_auth.rs 12-28).
THEOREM ServedClientsAreTrusted == Spec => []OnlyTrustedClients
BY SInvHolds, SInvGivesTrusted, PTL
===============================================================================
