------------------------------- MODULE Startup --------------------------------
(***************************************************************************)
(* From the command line to the listeners: src/main.rs with the parts of   *)
(* src/tls.rs, src/config.rs, src/kube.rs, src/oidc.rs and                 *)
(* src/pingora_proxy.rs it calls while it starts.  main is sequential, and *)
(* every `?` and expect of it is a way to end; what it has built up to     *)
(* then is state.                                                          *)
(*                                                                         *)
(* An option that names a file stands for the file too: Absent when it is  *)
(* not given, Unusable when the file cannot be read or parsed.  Lists of   *)
(* paths and names are represented by whether they are empty.              *)
(***************************************************************************)
EXTENDS Sequences, Naturals

CONSTANTS
  Tls12,         \* TLS 1.2 cipher suites of the ring provider
  Tls13,         \* its TLS 1.3 cipher suites
  Words,         \* strings that name no suite, as --tls-cipher-suites may hold
  Files,         \* usable files
  Tokens,        \* bearer tokens of service accounts and kubeconfig users
  Servers,       \* Kubernetes API servers
  InCluster,     \* the one KUBERNETES_SERVICE_HOST names
  Names,         \* of contexts, clusters and users in a kubeconfig
  CommandLines,  \* option values and environments to start with
  Absent,        \* an option, a field or a variable that is not there
  Unusable,      \* a file that cannot be read or parsed
  NoClient       \* Ok(None) of from_configuration

Suites == Tls12 \cup Tls13
Options == Files \cup {Absent, Unusable}

Kubeconfigs ==
  [current : Names \cup {Absent},
   contexts : Seq([name : Names, cluster : Names, user : Names]),
   clusters : Seq([name : Names, server : Servers, ca : Options]),
   users : Seq([name : Names, token : Tokens \cup {Absent},
                tokenFile : Tokens \cup {Absent, Unusable}])]

\* Args, and what main finds in its environment.
Args ==
  [upstream : {"http", "https", "h2c", "reparsed", "invalid"},
   forceH2c : BOOLEAN,
   upstreamCert : Options, upstreamKey : Options, upstreamCa : Options,
   secure : BOOLEAN, insecure : BOOLEAN,  \* listen addresses are given
   endpointsPort : BOOLEAN,               \* --proxy-endpoints-port is not 0
   allow : BOOLEAN, ignore : BOOLEAN,     \* paths are given
   authHeaders : BOOLEAN, headerNames : BOOLEAN,  \* both names not empty
   clientCa : Options, tlsCert : Options, tlsKey : Options,
   minVersion : {"VersionTLS12", "TLS1.2", "VersionTLS13", "TLS1.3", "other"},
   cipherSuites : SUBSET (Suites \cup Words),
   issuer : {"https", "http", Absent}, clientId : BOOLEAN,
   signAlgs : {"supported", "unsupported", "empty"}, oidcCa : Options,
   qps : {"negative", "zero", "positive", "nan"}, burst : 0 .. 1,
   http2Limits : BOOLEAN,                 \* both positive
   workers : {"zero", "positive", Absent},
   configFile : Options,
   kubeconfig : Kubeconfigs \cup {Absent, Unusable},
   account : [token : Tokens \cup {Unusable}, ca : Options] \cup {Absent},
   hostname : {"ascii", "other"}]         \* of the self-signed certificate

ASSUME StartupAssumption ==
  /\ CommandLines \subseteq Args
  /\ Tls12 \cap Tls13 = {} /\ Words \cap Suites = {}
  /\ {Absent, Unusable} \cap (Files \cup Tokens) = {} /\ Absent # Unusable
  /\ NoClient \notin [server : Servers, token : Tokens]
  /\ InCluster \in Servers

VARIABLES
  args,       \* the command line, never changed
  phase,      \* what main does next, or how it ended
  suites,     \* the process's CryptoProvider
  client,     \* kube_client: whom it asks, with whose token
  chain,      \* the authenticators, in order
  resolver,   \* tls_resolver
  verifier,   \* client_verifier
  listeners   \* what the server will listen on

startVars == <<args, phase, suites, client, chain, resolver, verifier, listeners>>

Phases == {"validate", "provider", "config", "client", "chain", "proxy", "tls",
           "listen", "running", "failed", "panicked"}

Listeners == [service : {"proxy", "endpoints"}, tls : BOOLEAN, verified : BOOLEAN]

StartTypeOK ==
  /\ args \in Args
  /\ phase \in Phases
  /\ suites \subseteq Suites
  /\ client \in [server : Servers, token : Tokens] \cup {NoClient}
  /\ chain \in Seq({"certificate", "oidc", "kube"})
  /\ resolver \in {Absent, "reloading", "static"}
  /\ verifier \in BOOLEAN
  /\ listeners \subseteq Listeners

StartInit ==
  /\ args \in CommandLines
  /\ phase = "validate"
  /\ suites = {}
  /\ client = NoClient
  /\ chain = <<>>
  /\ resolver = Absent
  /\ verifier = FALSE
  /\ listeners = {}

Given(option) == option # Absent

\* main goes on to p.
Proceed(p) == phase' = p

-----------------------------------------------------------------------------
(* Args::validate. *)

ValidUpstream(a) ==
  /\ a.upstream # "invalid"
  /\ a.forceH2c => a.upstream # "https"

Paired(cert, key) == Given(cert) <=> Given(key)

\* Mutant: the short aliases are passed on as they are.
AsGiven(v) == v

Normalized(v) ==
  CASE v \in {"VersionTLS12", "TLS1.2"} -> "VersionTLS12"
    [] v \in {"VersionTLS13", "TLS1.3"} -> "VersionTLS13"
    [] OTHER -> "none"

ValidTls(a) ==
  /\ Paired(a.tlsCert, a.tlsKey)
  /\ Given(a.clientCa) => Given(a.tlsCert)
  /\ Normalized(a.minVersion) # "none"
  /\ a.cipherSuites \subseteq Suites

ValidOidc(a) == Given(a.issuer) => a.clientId /\ a.issuer = "https"

\* NaN is neither negative nor positive.
ValidLimits(a) ==
  /\ a.qps # "negative"
  /\ a.qps = "positive" => a.burst # 0
  /\ a.http2Limits
  /\ a.workers # "zero"

ValidListeners(a) ==
  /\ a.secure \/ a.insecure
  /\ a.endpointsPort => a.secure

Accepted(a) ==
  /\ ~(a.allow /\ a.ignore)
  /\ ValidUpstream(a)
  /\ Paired(a.upstreamCert, a.upstreamKey)
  /\ ValidTls(a)
  /\ ValidOidc(a)
  /\ a.authHeaders => a.headerNames
  /\ ValidLimits(a)
  /\ ValidListeners(a)

Validate ==
  /\ phase = "validate"
  /\ Proceed(IF Accepted(args) THEN "provider" ELSE "failed")
  /\ UNCHANGED <<args, suites, client, chain, resolver, verifier, listeners>>

-----------------------------------------------------------------------------
(* tls::install_provider. *)

\* provider_for: the suites of an allowed version with an allowed name.
Selected(min, names) ==
  {s \in Suites : (min = "VersionTLS13" => s \in Tls13) /\ (names # {} => s \in names)}

\* Without restrictions nothing is installed: rustls takes ring's provider.
Installed(min, names) ==
  IF min = "VersionTLS12" /\ names = {} THEN Suites ELSE Selected(min, names)

InstallProvider ==
  /\ phase = "provider"
  /\ LET min == Normalized(args.minVersion)
         offered == IF min = "none" THEN {} ELSE Installed(min, args.cipherSuites)
     IN /\ suites' = offered
        /\ Proceed(IF min = "none" THEN "panicked"
                   ELSE IF offered = {} THEN "failed" ELSE "config")
  /\ UNCHANGED <<args, client, chain, resolver, verifier, listeners>>

\* config::load; what it validates is in Authorization.
LoadConfig ==
  /\ phase = "config"
  /\ Proceed(IF args.configFile = Unusable THEN "failed" ELSE "client")
  /\ UNCHANGED <<args, suites, client, chain, resolver, verifier, listeners>>

-----------------------------------------------------------------------------
(* KubernetesClient::from_configuration.  Each operator gives the set of    *)
(* what the code finds: one element, or none where it returns an error.     *)

\* .iter().find(|x| x.name == name)
FirstNamed(entries, name) ==
  {entries[i] : i \in {i \in DOMAIN entries :
     /\ entries[i].name = name
     /\ \A j \in 1 .. i - 1 : entries[j].name # name}}

\* Mutant: a token file that cannot be read is an empty one.
TokenOrNone(user) == {IF Given(user.token) THEN user.token ELSE user.tokenFile}

\* user.token, or else what user.tokenFile holds
TokenOf(user) ==
  (IF Given(user.token) THEN {user.token} ELSE {user.tokenFile}) \ {Absent, Unusable}

Context(k) == FirstNamed(k.contexts, k.current)

InKubeconfig(k) ==
  LET clusters == UNION {FirstNamed(k.clusters, c.cluster) : c \in Context(k)}
      users == UNION {FirstNamed(k.users, c.user) : c \in Context(k)}
  IN {[server |-> c.server, token |-> t] :
        c \in {x \in clusters : x.ca # Unusable}, t \in UNION {TokenOf(u) : u \in users}}

\* A service account's ca.crt may be missing, its token may not.
InAccount(account) ==
  {[server |-> InCluster, token |-> t] :
     t \in IF account.ca = Unusable THEN {} ELSE {account.token} \ {Unusable}}

\* Mutant: a kubeconfig that gives nothing leaves it to the service account.
FallBack(a) ==
  LET found == IF a.kubeconfig \in {Absent, Unusable} THEN {} ELSE InKubeconfig(a.kubeconfig)
  IN IF found = {} /\ Given(a.account) THEN InAccount(a.account) ELSE found

Credentials(a) ==
  IF ~Given(a.kubeconfig) THEN InAccount(a.account)
  ELSE IF a.kubeconfig = Unusable THEN {} ELSE InKubeconfig(a.kubeconfig)

\* Neither a kubeconfig nor KUBERNETES_SERVICE_HOST.
NoCluster(a) == ~Given(a.kubeconfig) /\ ~Given(a.account)

CreateClient ==
  /\ phase = "client"
  /\ \/ NoCluster(args) /\ Proceed("chain") /\ UNCHANGED client
     \/ /\ ~NoCluster(args)
        /\ \E c \in Credentials(args) : client' = c
        /\ Proceed("chain")
     \/ ~NoCluster(args) /\ Credentials(args) = {} /\ Proceed("failed") /\ UNCHANGED client
  /\ UNCHANGED <<args, suites, chain, resolver, verifier, listeners>>

-----------------------------------------------------------------------------
(* The authenticators, the proxy and the listeners. *)

\* OidcAuthenticator::new
OidcFails(a) == Given(a.issuer) /\ (a.signAlgs # "supported" \/ a.oidcCa = Unusable)

\* Mutant: the client is in the chain even when nothing verifies it.
AlwaysCertificate(a) == <<"certificate">>

CertificateFirst(a) == IF Given(a.clientCa) THEN <<"certificate">> ELSE <<>>

BuildChain ==
  /\ phase = "chain"
  /\ \/ OidcFails(args) /\ Proceed("failed") /\ UNCHANGED chain
     \/ /\ ~OidcFails(args)
        /\ chain' = CertificateFirst(args)
                    \o (IF Given(args.issuer) THEN <<"oidc">> ELSE <<>>)
                    \o (IF client # NoClient THEN <<"kube">> ELSE <<>>)
        /\ Proceed("proxy")
  /\ UNCHANGED <<args, suites, client, resolver, verifier, listeners>>

\* The expects of build_proxy.
UpstreamFilesFail(a) ==
  \/ Given(a.upstreamCert) /\ Given(a.upstreamKey) /\ Unusable \in {a.upstreamCert, a.upstreamKey}
  \/ a.upstreamCa = Unusable

\* http::Uri refuses URLs that url::Url, which validate uses, rewrites.
BuildProxy ==
  /\ phase = "proxy"
  /\ Proceed(CASE args.upstream = "reparsed" -> "failed"
               [] args.upstream # "reparsed" /\ UpstreamFilesFail(args) -> "panicked"
               [] OTHER -> "tls")
  /\ UNCHANGED <<args, suites, client, chain, resolver, verifier, listeners>>

\* Mutant: certificate files are for verified clients only.
OnlyForVerifiedClients(a) ==
  IF ~a.secure THEN Absent ELSE IF Given(a.clientCa) THEN "reloading" ELSE "static"

\* Certificate files, a generated certificate, or no TLS at all.
ResolverFor(a) ==
  IF ~a.secure THEN Absent
  ELSE IF Given(a.tlsCert) /\ Given(a.tlsKey) THEN "reloading" ELSE "static"

BuildTls ==
  /\ phase = "tls"
  /\ \/ /\ ResolverFor(args) = "static" /\ args.hostname # "ascii"
        /\ Proceed("failed") /\ UNCHANGED <<resolver, verifier>>
     \/ /\ ~(ResolverFor(args) = "static" /\ args.hostname # "ascii")
        /\ resolver' = ResolverFor(args)
        /\ verifier' = (args.clientCa \in Files)
        /\ Proceed(IF args.clientCa = Unusable THEN "failed" ELSE "listen")
  /\ UNCHANGED <<args, suites, client, chain, listeners>>

Listener(service, tls) ==
  [service |-> service, tls |-> tls, verified |-> tls /\ verifier]

\* Mutant: the second make_tls has no verifier.
EndpointsForAll == [service |-> "endpoints", tls |-> TRUE, verified |-> FALSE]

\* Both TLS listeners are made by make_tls.
EndpointsListener == Listener("endpoints", TRUE)

Wanted(l) ==
  IF l.service = "endpoints" THEN args.endpointsPort /\ args.secure
  ELSE IF l.tls THEN args.secure ELSE args.insecure

Listen ==
  /\ phase = "listen"
  /\ listeners' = {l \in {Listener("proxy", TRUE), Listener("proxy", FALSE), EndpointsListener} :
                     Wanted(l)}
  /\ Proceed("running")
  /\ UNCHANGED <<args, suites, client, chain, resolver, verifier>>

StartNext ==
  \/ Validate \/ InstallProvider \/ LoadConfig \/ CreateClient
  \/ BuildChain \/ BuildProxy \/ BuildTls \/ Listen

StartSpec == StartInit /\ [][StartNext]_startVars

-----------------------------------------------------------------------------
(* Properties. *)

Running == phase = "running"

\* What the operator asked for, alias or not: the suites a client may use.
Allowed ==
  {s \in Suites : /\ args.minVersion \in {"VersionTLS13", "TLS1.3"} => s \in Tls13
                  /\ args.cipherSuites # {} => s \in args.cipherSuites}

\* "TLS 1.2/1.3 and configured cipher restrictions are enforced" (PLAN.md 197):
\* no listener opens before the process offers exactly the suites the options
\* leave, and never with none.
RestrictionsHold == listeners # {} => suites = Allowed /\ suites # {}

\* The certificate authenticator is asked, on every listener alike.
CertificateTrusted == \E i \in DOMAIN chain : chain[i] = "certificate"

\* With the certificate authenticator in the chain every TLS listener verifies
\* its clients, the one of --proxy-endpoints-port too, and presents the
\* configured certificate, never a generated one (MIGRATION.md 9-16); without it
\* none does.  The listener where the authenticator believes clients nobody
\* verified is --insecure-listen-address, and there always is one when both
\* options are given (main.rs 224-227, 288-317).
TlsClientsAreVerified ==
  /\ \A l \in listeners : /\ l.verified <=> CertificateTrusted /\ l.tls
                          /\ l.verified => resolver = "reloading"
  /\ Running => ((\E l \in listeners : CertificateTrusted /\ ~l.verified)
                   <=> CertificateTrusted /\ args.insecure)

\* Server and token belong to one context of the kubeconfig, the first of the
\* current name, or to the service account: never one of each.
CredentialsBelongTogether ==
  client # NoClient =>
    IF Given(args.kubeconfig)
    THEN args.kubeconfig # Unusable /\ \E i \in DOMAIN args.kubeconfig.contexts :
           LET c == args.kubeconfig.contexts[i] IN
           /\ c.name = args.kubeconfig.current
           /\ \A j \in 1 .. i - 1 : args.kubeconfig.contexts[j].name # c.name
           /\ \E k \in FirstNamed(args.kubeconfig.clusters, c.cluster) :
                k.server = client.server
           /\ \E u \in FirstNamed(args.kubeconfig.users, c.user) :
                client.token \in {u.token, u.tokenFile}
    ELSE client = [server |-> InCluster, token |-> args.account.token]

\* What was asked for and does not serve never leaves the proxy running
\* without it.
NothingUnusableRuns ==
  Running => /\ Unusable \notin {args.configFile, args.kubeconfig, args.clientCa,
                                 args.upstreamCert, args.upstreamKey, args.upstreamCa}
             /\ Given(args.issuer) => args.oidcCa # Unusable
             /\ Given(args.kubeconfig) \/ Given(args.account) => client # NoClient

\* A start is as it was asked for or none: no file that does not serve is
\* passed over, and a kubeconfig that gives nothing is not made up for by the
\* service account (kube.rs 94-140).  What fails ends main with an error, not
\* a panic, except for the upstream's certificate, key and CA
\* (pingora_proxy.rs 225-243).
StartedAsAsked ==
  /\ CredentialsBelongTogether
  /\ NothingUnusableRuns
  /\ phase = "panicked" => UpstreamFilesFail(args)
===============================================================================
