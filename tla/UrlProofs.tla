------------------------------ MODULE UrlProofs ------------------------------
(***************************************************************************)
(* Proofs about WebsocketUrl: create_websocket_url keeps a URL's host and  *)
(* maps its scheme to ws or wss, whatever it is applied to, and the        *)
(* service, the invitation and the client's entry stay linked by it, so    *)
(* a client dials the host the operator typed, for all sets of schemes,    *)
(* hosts, ports and digit strings that satisfy UrlAssumption.              *)
(***************************************************************************)
EXTENDS WebsocketUrl, TLAPS

\* The shapes of text the model handles: scheme://host[:port]path,
\* word:digits, and a bare word.
AnyScheme == Schemes \cup {"http", "ws", "wss"}
HierSet ==
    [form : {"hier"}, scheme : AnyScheme, host : Hosts \cup {"localhost"},
     port : Nat \cup {NoPort}, path : {EmptyPath, "/"}, digits : {NoDigits}]
OpaqueSet ==
    [form : {"opaque"}, scheme : Hosts, host : {NoHost}, port : {NoPort},
     path : {EmptyPath}, digits : Digits]
BareSet ==
    [form : {"bare"}, scheme : {NoScheme}, host : Hosts, port : {NoPort},
     path : {EmptyPath}, digits : {NoDigits}]

\* What the operator types, and what create_websocket_url writes, has one
\* of the three shapes.
LEMMA InputShapes == Inputs \cup Texts \subseteq HierSet \cup OpaqueSet \cup BareSet
  <1>1. Texts \subseteq HierSet
    BY DEF Texts, HierSet, AnyScheme
  <1>2. DefaultUrl \in HierSet
    BY DEF DefaultUrl, Hier, Text, HierSet, AnyScheme
  <1>3. \A s \in Schemes, h \in Hosts, p \in Ports \cup {NoPort} :
            Hier(s, h, p, EmptyPath) \in HierSet
    BY UrlAssumption DEF Hier, Text, HierSet, AnyScheme
  <1>4. \A h \in Hosts, d \in Digits : Text("opaque", h, NoHost, NoPort, EmptyPath, d) \in OpaqueSet
    BY DEF Text, OpaqueSet
  <1>5. \A h \in Hosts : Text("bare", NoScheme, h, NoPort, EmptyPath, NoDigits) \in BareSet
    BY DEF Text, BareSet
  <1>6. QED
    BY <1>1, <1>2, <1>3, <1>4, <1>5 DEF Inputs

\* A hierarchical URL keeps its host, and its scheme becomes WsScheme of
\* it, unless it does not parse.
LEMMA HierCreate ==
    ASSUME NEW t \in HierSet
    PROVE  CreateWebsocketUrl(t) \in
               {ParseError} \cup {r \in Texts : /\ r.host = t.host
                                                /\ r.scheme = WsScheme(t.scheme)}
  <1> DEFINE u == UrlParse(t)
  <1>1. CASE u = ParseError
    BY <1>1 DEF CreateWebsocketUrl
  <1>2. CASE u # ParseError
    <2>1. u = [t EXCEPT !.port = IF t.port = KnownDefault(t.scheme) THEN NoPort ELSE t.port,
                        !.path = IF t.form = "hier" /\ t.scheme \in Special /\ t.path = EmptyPath
                                 THEN "/" ELSE t.path]
      BY <1>2 DEF UrlParse
    <2>2. /\ u.digits = NoDigits
          /\ u.host = t.host
          /\ u.scheme = t.scheme
          /\ u.path \in {EmptyPath, "/"}
          /\ u.port \in Nat \cup {NoPort}
      BY <2>1 DEF HierSet
    <2>3. u.host # NoHost
      BY <2>2, UrlAssumption DEF HierSet
    <2>4. (IF u.port = NoPort THEN 8080 ELSE u.port) \in Nat
      BY <2>2
    <2>5. CreateWebsocketUrl(t) =
              Hier(WsScheme(t.scheme), t.host,
                   IF u.port = NoPort THEN 8080 ELSE u.port, u.path)
      BY <1>2, <2>2, <2>3 DEF CreateWebsocketUrl, Format
    <2>6. QED
      BY <2>2, <2>4, <2>5 DEF Hier, Text, Texts, WsScheme, HierSet
  <1>3. QED
    BY <1>1, <1>2

\* A word:digits text becomes wss://localhost:8080digits (or fails).
LEMMA OpaqueCreate ==
    ASSUME NEW t \in OpaqueSet
    PROVE  CreateWebsocketUrl(t) \in Texts \cup {ParseError}
  <1> DEFINE u == UrlParse(t)
  <1>1. CASE u = ParseError
    BY <1>1 DEF CreateWebsocketUrl
  <1>2. CASE u # ParseError
    <2>1. u = [t EXCEPT !.port = IF t.port = KnownDefault(t.scheme) THEN NoPort ELSE t.port,
                        !.path = IF t.form = "hier" /\ t.scheme \in Special /\ t.path = EmptyPath
                                 THEN "/" ELSE t.path]
      BY <1>2 DEF UrlParse
    <2>2. /\ u.digits = t.digits /\ u.digits \in Digits
          /\ u.host = NoHost
          /\ u.port = NoPort
          /\ u.scheme = t.scheme
      BY <2>1 DEF OpaqueSet
    <2>3. u.digits # NoDigits /\ u.digits.shift \in Nat /\ u.digits.value \in Nat
      BY <2>2, UrlAssumption
    <2>4. CreateWebsocketUrl(t) = Format(WsScheme(t.scheme), "localhost", 8080, u)
      BY <1>2, <2>2 DEF CreateWebsocketUrl
    <2>7. Format(WsScheme(t.scheme), "localhost", 8080, u) =
              Hier(WsScheme(t.scheme), "localhost",
                   8080 * u.digits.shift + u.digits.value, EmptyPath)
      BY <2>3 DEF Format
    <2>5. 8080 * u.digits.shift + u.digits.value \in Nat
      BY <2>3
    <2>6. QED
      BY <2>4, <2>5, <2>7 DEF Hier, Text, Texts, WsScheme
  <1>3. QED
    BY <1>1, <1>2

\* A bare word does not parse.
LEMMA BareCreate ==
    ASSUME NEW t \in BareSet
    PROVE  CreateWebsocketUrl(t) = ParseError
  BY DEF BareSet, CreateWebsocketUrl, UrlParse

\* create_websocket_url gives a websocket URL text or an error.
LEMMA CreateType ==
    ASSUME NEW t \in Inputs \cup Texts
    PROVE  CreateWebsocketUrl(t) \in Texts \cup {ParseError}
  BY InputShapes, HierCreate, OpaqueCreate, BareCreate


\* A websocket scheme is its own websocket scheme: from_invite's second
\* conversion keeps what ServiceConfig::new chose.
LEMMA WsSchemeIdem ==
    ASSUME NEW s
    PROVE  /\ WsScheme(WsScheme(s)) = WsScheme(s)
           /\ WsScheme(s) = "ws" <=> s \in {"http", "ws"}
  BY DEF WsScheme

(***************************************************************************)
(* The inductive invariant behind DialsTypedHost (UrlProofs): the service  *)
(* url is create_websocket_url of the operator's --host, the invitation    *)
(* carries it, the client's entry is create_websocket_url of the           *)
(* invitation, and the client dials that entry.                           *)
(***************************************************************************)
UrlInv ==
    /\ TypeOK
    /\ svcUrl # NoUrl =>
           /\ host # NoUrl
           /\ svcUrl = CreateWebsocketUrl(host) /\ svcUrl # ParseError
    /\ invite \in {NoUrl, svcUrl}
    /\ server \notin {NoUrl, AddErr} =>
           /\ invite # NoUrl
           /\ server = CreateWebsocketUrl(invite) /\ server # ParseError
    /\ dialled # NoUrl => dialled = server /\ server \notin {NoUrl, AddErr}

\* The initial state satisfies the linking invariant.
LEMMA InitInv == Init => UrlInv
  BY DEF Init, UrlInv, TypeOK

\* Before `init` has run, no url exists anywhere.
LEMMA Empty ==
    ASSUME UrlInv, host = NoUrl
    PROVE  /\ svcUrl = NoUrl /\ invite = NoUrl
           /\ server \in {NoUrl, AddErr} /\ dialled = NoUrl
  BY DEF UrlInv, TypeOK

\* Every step of the service and the client keeps the linking invariant.
LEMMA StepInv == UrlInv /\ [Next]_vars => UrlInv'
  <1> SUFFICES ASSUME UrlInv, [Next]_vars PROVE UrlInv'
    OBVIOUS
  <1>1. ASSUME NEW t \in Inputs, NEW force \in BOOLEAN, PortalInit(t, force)
        PROVE  UrlInv'
    <2>1. /\ svcUrl = NoUrl /\ invite = NoUrl
          /\ server \in {NoUrl, AddErr} /\ dialled = NoUrl
      BY <1>1, Empty DEF PortalInit
    <2>2. t # NoUrl
      BY MarkerAssumption
    <2>3. CreateWebsocketUrl(t) \in Texts \cup {ParseError}
      BY CreateType
    <2>4. /\ \/ svcUrl' = NoUrl
             \/ svcUrl' = CreateWebsocketUrl(t) /\ svcUrl' # ParseError
          /\ cfg' \in {"absent", "present", "bailed", "failed"}
          /\ host' = t
          /\ UNCHANGED <<invite, server, dialled>>
      <3>1. CASE cfg = "present" /\ ~force
        BY <1>1, <2>1, <3>1 DEF PortalInit
      <3>2. CASE ~(cfg = "present" /\ ~force) /\ CreateWebsocketUrl(t) = ParseError
        BY <1>1, <2>1, <3>2 DEF PortalInit, ServiceConfigCreate
      <3>3. CASE ~(cfg = "present" /\ ~force) /\ CreateWebsocketUrl(t) # ParseError
        BY <1>1, <3>3 DEF PortalInit, ServiceConfigCreate
      <3>4. QED
        BY <3>1, <3>2, <3>3
    <2>5. QED
      BY <2>1, <2>2, <2>3, <2>4 DEF UrlInv, TypeOK
  <1>2. CASE AddClient
    BY <1>2 DEF AddClient, UrlInv, TypeOK
  <1>3. CASE AddServer
    <2>1. invite \in Texts /\ invite # NoUrl /\ server = NoUrl
      BY <1>3 DEF AddServer, UrlInv, TypeOK
    <2>2. CreateWebsocketUrl(invite) \in Texts \cup {ParseError}
      BY <2>1, CreateType
    <2>3. dialled = NoUrl
      BY <2>1 DEF UrlInv
    <2>4. \/ server' = AddErr
          \/ server' = CreateWebsocketUrl(invite) /\ server' # ParseError
      BY <1>3 DEF AddServer
    <2>5. QED
      BY <1>3, <2>1, <2>2, <2>3, <2>4 DEF AddServer, UrlInv, TypeOK
  <1>4. CASE Dial
    BY <1>4 DEF Dial, UrlInv, TypeOK
  <1>5. CASE UNCHANGED vars
    BY <1>5 DEF vars, UrlInv, TypeOK
  <1>6. QED
    BY <1>1, <1>2, <1>3, <1>4, <1>5 DEF Next

\* create_websocket_url applied by ServiceConfig::new and again by
\* ServerConfig::from_invite leaves the service url, the invitation, the
\* client's server entry and the dialled url linked in every reachable
\* state, whatever schemes, hosts, ports and digits the operator may type.
LEMMA UrlConsistent == Spec => []UrlInv
  BY InitInv, StepInv, PTL DEF Spec

\* Every url the service stores, issues, and the client stores or dials is
\* a ws/wss text, and add_server's failure is the only other outcome.
THEOREM UrlTypeCorrect == Spec => []TypeOK
  <1>1. UrlInv => TypeOK
    BY DEF UrlInv
  <1>2. QED
    BY UrlConsistent, <1>1, PTL

\* The linking invariant implies that the client dials the host typed at
\* `init --host`, over ws exactly when a plain scheme was typed.
LEMMA InvDials == UrlInv => DialsTypedHost
  <1> SUFFICES ASSUME UrlInv, dialled # NoUrl, host.form = "hier"
               PROVE  /\ dialled.host = host.host
                      /\ dialled.scheme = "ws" <=> host.scheme \in {"http", "ws"}
    BY DEF DialsTypedHost
  <1>1. /\ dialled = server /\ server # ParseError
        /\ server = CreateWebsocketUrl(invite)
        /\ invite = svcUrl /\ svcUrl # ParseError
        /\ svcUrl = CreateWebsocketUrl(host) /\ host \in Inputs
    BY DEF UrlInv, TypeOK
  <1>2. host \in HierSet
    BY <1>1, InputShapes DEF OpaqueSet, BareSet
  <1>3. invite \in Texts /\ invite.host = host.host
        /\ invite.scheme = WsScheme(host.scheme)
    BY <1>1, <1>2, HierCreate
  <1>4. invite \in HierSet
    BY <1>3 DEF Texts, HierSet, AnyScheme
  <1>5. server.host = invite.host /\ server.scheme = WsScheme(invite.scheme)
    BY <1>1, <1>4, HierCreate
  <1>6. QED
    BY <1>1, <1>3, <1>5, WsSchemeIdem

\* A client dials the host the operator typed, and over ws only when the
\* operator typed http or ws (create_websocket_url, twice): for every
\* instance, not only the one the url_pipeline run checks.
THEOREM DialsOperatorsHost == Spec => []DialsTypedHost
  BY UrlConsistent, InvDials, PTL

=============================================================================
