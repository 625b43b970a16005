------------------------------- MODULE Serving --------------------------------
(***************************************************************************)
(* TLS handshakes of the running proxy: ReloadingCertificateResolver and   *)
(* StaticCertificateResolver of src/tls.rs and the callback of             *)
(* src/cert_auth.rs, on the listeners Startup made, while another process  *)
(* replaces the certificate and key files.  load() reads the two files one *)
(* after the other and does not compare what it read.                      *)
(*                                                                         *)
(* Handshakes share nothing that they write, so one at a time is followed. *)
(***************************************************************************)
EXTENDS Startup

CONSTANTS
  Pairs,   \* certificates; the key of a certificate goes by its name
  Torn,    \* a file in the middle of being written
  Made,    \* the pair self_signed_resolver generates
  Offers   \* sets of suites that clients offer

\* What a file may hold; Unusable is also a file that is not there.
Contents == Pairs \cup {Torn, Unusable}

\* What a client presents when it is asked for a certificate: none, one of
\* the client CA, with or without a common name, or one of another CA.
Presented == {"none", "named", "nameless", "foreign"}

ASSUME ServingAssumption ==
  /\ Pairs \cap {Torn, Unusable, Made, Absent} = {}
  /\ Torn \notin {Unusable, Made, Absent} /\ Made \notin {Unusable, Absent}
  /\ Absent # "name"
  /\ Offers \subseteq SUBSET Suites

VARIABLES
  disk,    \* the certificate file and the key file
  pc,      \* where the handshake is
  hello,   \* its listener, the suites offered and the client's certificate
  loaded,  \* the certificate and the key load() has read for it
  digest,  \* what handshake_complete_callback put in the TLS digest
  quiet    \* the files have not changed since the ClientHello (history)

handshakeVars == <<pc, hello, loaded, digest>>
vars == <<startVars, disk, handshakeVars, quiet>>

Nothing == [cert |-> Absent, key |-> Absent]
NoHello == [listener |-> Absent, offer |-> {}, certificate |-> "none"]

TypeOK ==
  /\ StartTypeOK
  /\ disk \in [cert : Contents, key : Contents]
  /\ pc \in {"closed", "hello", "key", "verify", "served", "refused"}
  /\ hello = NoHello \/ hello \in [listener : listeners, offer : Offers, certificate : Presented]
  /\ loaded \in [cert : Contents \cup {Made, Absent}, key : Contents \cup {Made, Absent}]
  /\ digest \in {"name", Absent}
  /\ quiet \in BOOLEAN

Init ==
  /\ StartInit
  /\ disk = [cert |-> Unusable, key |-> Unusable]
  /\ pc = "closed"
  /\ hello = NoHello
  /\ loaded = Nothing
  /\ digest = Absent
  /\ quiet = TRUE

Start == StartNext /\ UNCHANGED <<disk, handshakeVars, quiet>>

\* Another process writes one of the files or both, at once or byte by byte.
Replace(files) ==
  /\ Running /\ Given(args.tlsCert)
  /\ files # disk
  /\ disk' = files
  /\ quiet' = (pc = "closed")
  /\ UNCHANGED <<startVars, handshakeVars>>

-----------------------------------------------------------------------------
Hello(listener, offer, certificate) ==
  /\ Running
  /\ pc = "closed"
  /\ listener.tls
  /\ pc' = "hello"
  /\ hello' = [listener |-> listener, offer |-> offer, certificate |-> certificate]
  /\ quiet' = TRUE
  /\ UNCHANGED <<startVars, disk, loaded, digest>>

\* The handshake ends with an alert, or with the client closing it.
Refuse ==
  /\ pc' = "refused"
  /\ UNCHANGED <<startVars, disk, hello, digest, quiet>>

\* StaticCertificateResolver::resolve
Present ==
  /\ pc = "hello" /\ resolver = "static"
  /\ loaded' = [cert |-> Made, key |-> Made]
  /\ pc' = "verify"
  /\ UNCHANGED <<startVars, disk, hello, digest, quiet>>

\* certs(..): of a torn file the certificates that are whole, perhaps none,
\* are taken, or it ends in the middle of one.
ReadCertificate ==
  /\ pc = "hello" /\ resolver = "reloading"
  /\ loaded' = [loaded EXCEPT !.cert = disk.cert]
  /\ \/ /\ disk.cert # Unusable
        /\ pc' = "key"
        /\ UNCHANGED <<startVars, disk, hello, digest, quiet>>
     \/ disk.cert \in {Torn, Unusable} /\ Refuse

\* private_key(..) and any_supported_type: a torn key is no key.
ReadKey ==
  /\ pc = "key"
  /\ loaded' = [loaded EXCEPT !.key = disk.key]
  /\ \/ /\ disk.key \in Pairs
        /\ pc' = "verify"
        /\ UNCHANGED <<startVars, disk, hello, digest, quiet>>
     \/ disk.key \notin Pairs /\ Refuse

\* The client checks the signature against the certificate it was sent.
ClientAccepts == loaded.cert = loaded.key

\* WebPkiClientVerifier: a certificate of the client CA is mandatory.
ServerAccepts == hello.listener.verified => hello.certificate \in {"named", "nameless"}

Complete ==
  /\ pc = "verify"
  /\ hello.offer \cap suites # {}
  /\ ClientAccepts /\ ServerAccepts
  /\ pc' = "served"
  /\ digest' = IF hello.listener.verified /\ hello.certificate = "named"
               THEN "name" ELSE Absent
  /\ UNCHANGED <<startVars, disk, hello, loaded, quiet>>

Abort ==
  /\ pc = "verify"
  /\ ~(hello.offer \cap suites # {} /\ ClientAccepts /\ ServerAccepts)
  /\ Refuse
  /\ UNCHANGED loaded

Close ==
  /\ pc \in {"served", "refused"}
  /\ pc' = "closed"
  /\ hello' = NoHello
  /\ loaded' = Nothing
  /\ digest' = Absent
  /\ quiet' = TRUE
  /\ UNCHANGED <<startVars, disk>>

Handshake == Present \/ ReadCertificate \/ ReadKey \/ Complete \/ Abort \/ Close

Next ==
  \/ Start
  \/ \E files \in [cert : Contents, key : Contents] : Replace(files)
  \/ \E l \in listeners, o \in Offers, c \in Presented : Hello(l, o, c)
  \/ Handshake

Spec == Init /\ [][Next]_vars

\* The peers of a handshake go on or hang up.
FairSpec == Spec /\ WF_vars(Handshake)

-----------------------------------------------------------------------------
(* Properties. *)

Settled == disk.cert = disk.key /\ disk.cert \in Pairs

\* Whom the client asked for is whom it got: a handshake is completed only
\* with a certificate and its key, and, unless the files were replaced under
\* it, with those of the disk (tls.rs 78-79); nobody is refused for a change
\* that was over before the ClientHello.
ServedFromDisk ==
  /\ pc = "served" =>
       /\ loaded.cert = loaded.key
       /\ Given(args.tlsCert) /\ quiet => loaded = disk
  /\ pc = "refused" /\ quiet /\ (Given(args.tlsCert) => Settled) =>
       \/ hello.offer \cap Allowed = {}
       \/ Given(args.clientCa) /\ hello.certificate \in {"none", "foreign"}

\* "Invalid certificates cannot reach the upstream" (PLAN.md 178): with a
\* client CA every connection over TLS, on either port, has a certificate of
\* that CA; and a name is in the digest only from such a certificate.
OnlyTrustedClients ==
  pc = "served" =>
    /\ Given(args.clientCa) => hello.certificate \in {"named", "nameless"}
    /\ digest = "name" =>
         /\ \E i \in DOMAIN chain : chain[i] = "certificate"
         /\ hello.certificate = "named"

\* A handshake the server has no reason to refuse, of a listener with
\* certificate files.
Welcome ==
  /\ pc = "hello" /\ Given(args.tlsCert)
  /\ hello.offer \cap Allowed # {}
  /\ Given(args.clientCa) => hello.certificate \in {"named", "nameless"}

\* Replacing the files takes effect without a restart (PLAN.md 198): once they
\* are left alone as a pair, from some point on every handshake that is
\* welcome is served, and with that pair, whatever was on the disk before and
\* however many handshakes failed on it (tls.rs 157-160).
ReplacementTakesEffect ==
  <>[][disk' = disk /\ Settled]_vars =>
    <>[](Welcome => <>(pc = "served" /\ loaded = disk))
===============================================================================
