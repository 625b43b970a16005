------------------------------ MODULE MCServing -------------------------------
(***************************************************************************)
(* Serving, and with it Startup, for TLC: command lines that differ from   *)
(* one of two in few options.                                              *)
(***************************************************************************)
EXTENDS Serving

Kubeconfig(current, caOfB, tokenOfA, tokenFileOfA) ==
  [current |-> current,
   contexts |-> <<[name |-> "a", cluster |-> "b", user |-> "a"],
                  [name |-> "b", cluster |-> "a", user |-> "b"],
                  [name |-> "a", cluster |-> "a", user |-> "b"]>>,
   clusters |-> <<[name |-> "a", server |-> "s1", ca |-> Absent],
                  [name |-> "b", server |-> "s2", ca |-> caOfB]>>,
   users |-> <<[name |-> "a", token |-> tokenOfA, tokenFile |-> tokenFileOfA]>>]

\* Good ones, and one for each way the lookup can fail: user b is missing.
SomeKubeconfigs ==
  {Kubeconfig("a", "file", "t1", "t2"), Kubeconfig("a", Absent, Absent, "t2"),
   Kubeconfig("b", "file", "t1", "t2"), Kubeconfig("c", "file", "t1", "t2"),
   Kubeconfig(Absent, "file", "t1", "t2"), Kubeconfig("a", Unusable, "t1", "t2"),
   Kubeconfig("a", "file", Absent, Unusable), Kubeconfig("a", "file", Absent, Absent)}

Account(token, ca) == [token |-> token, ca |-> ca]

FileOptions == {"file", Absent, Unusable}

Values ==
  [upstream |-> {"http", "https", "h2c", "reparsed", "invalid"}, forceH2c |-> BOOLEAN,
   upstreamCert |-> FileOptions, upstreamKey |-> FileOptions, upstreamCa |-> FileOptions,
   secure |-> BOOLEAN, insecure |-> BOOLEAN, endpointsPort |-> BOOLEAN,
   allow |-> BOOLEAN, ignore |-> BOOLEAN, authHeaders |-> BOOLEAN, headerNames |-> BOOLEAN,
   clientCa |-> FileOptions, tlsCert |-> FileOptions, tlsKey |-> FileOptions,
   minVersion |-> {"VersionTLS12", "TLS1.2", "VersionTLS13", "TLS1.3", "other"},
   cipherSuites |-> {{}, {"old"}, {"new"}, {"old", "new"}, {"word"}},
   issuer |-> {"https", "http", Absent}, clientId |-> BOOLEAN,
   signAlgs |-> {"supported", "unsupported", "empty"}, oidcCa |-> FileOptions,
   qps |-> {"negative", "zero", "positive", "nan"}, burst |-> 0 .. 1,
   http2Limits |-> BOOLEAN, workers |-> {"zero", "positive", Absent},
   configFile |-> FileOptions, kubeconfig |-> SomeKubeconfigs \cup {Absent, Unusable},
   account |-> {Absent, Account("t3", Absent), Account(Unusable, Absent), Account("t3", Unusable)},
   hostname |-> {"ascii", "other"}]

\* Little more than the listener: a generated certificate, no authenticator.
Minimal ==
  [upstream |-> "http", forceH2c |-> FALSE, upstreamCert |-> Absent, upstreamKey |-> Absent,
   upstreamCa |-> Absent, secure |-> TRUE, insecure |-> FALSE, endpointsPort |-> FALSE,
   allow |-> FALSE, ignore |-> FALSE, authHeaders |-> FALSE, headerNames |-> TRUE,
   clientCa |-> Absent, tlsCert |-> Absent, tlsKey |-> Absent,
   minVersion |-> "VersionTLS12", cipherSuites |-> {},
   issuer |-> Absent, clientId |-> FALSE, signAlgs |-> "supported", oidcCa |-> Absent,
   qps |-> "zero", burst |-> 0, http2Limits |-> TRUE, workers |-> Absent,
   configFile |-> Absent, kubeconfig |-> Absent, account |-> Absent, hostname |-> "ascii"]

\* Everything at once, in a pod of another cluster.
Full ==
  [upstream |-> "http", forceH2c |-> TRUE, upstreamCert |-> "file", upstreamKey |-> "file",
   upstreamCa |-> "file", secure |-> TRUE, insecure |-> TRUE, endpointsPort |-> TRUE,
   allow |-> TRUE, ignore |-> FALSE, authHeaders |-> TRUE, headerNames |-> TRUE,
   clientCa |-> "file", tlsCert |-> "file", tlsKey |-> "file",
   minVersion |-> "TLS1.3", cipherSuites |-> {"new"},
   issuer |-> "https", clientId |-> TRUE, signAlgs |-> "supported", oidcCa |-> "file",
   qps |-> "positive", burst |-> 1, http2Limits |-> TRUE, workers |-> "positive",
   configFile |-> "file", kubeconfig |-> Kubeconfig("a", "file", "t1", "t2"),
   account |-> Account("t3", Absent), hostname |-> "ascii"]

Changes(lines) ==
  UNION {{[a EXCEPT ![f] = v] : a \in lines, v \in Values[f]} : f \in DOMAIN Values}

\* Up to two options other than in Minimal, one other than in Full.
SomeCommandLines == Changes(Changes({Minimal})) \cup Changes({Full})

OldSuites == {"old"}
NewSuites == {"new", "newer"}
SomeOffers == {{"old"}, {"old", "new", "newer"}}
===============================================================================
