---------------------------- MODULE WebsocketUrl ----------------------------
(***************************************************************************)
(* The websocket URL of a service, from the host the operator types at    *)
(* `init --host` to the address a client of that service dials           *)
(* (paddington/src/config.rs, portal-svc/src/main.rs).                     *)
(*                                                                         *)
(* The URL passes through create_websocket_url twice: once when the        *)
(* service's configuration is created (ServiceConfig::new), and again      *)
(* when a client loads the invitation the service issued                   *)
(* (ServerConfig::from_invite).  The client then dials the stored text     *)
(* (get_websocket_url).                                                    *)
(*                                                                         *)
(* URL text is abstracted to its parts.  A text is "hier"                  *)
(* (scheme://host[:port]path), "opaque" (word:digits, which the url crate  *)
(* reads as scheme "word" and path "digits") or "bare" (a word with no     *)
(* colon, which does not parse).  The parser is modelled by what url::Url  *)
(* answers: port() is absent when the port is the scheme's default, and    *)
(* path() of an empty path of a special scheme is "/".  The formatter is   *)
(* modelled by what format!("{}://{}:{}{}") writes: the digits of an       *)
(* opaque path run on into the port.                                       *)
(***************************************************************************)
EXTENDS Naturals

CONSTANTS
    Schemes,     \* schemes an operator may type
    Hosts,       \* host names an operator may type
    Ports,       \* explicit ports an operator may type
    Digits,      \* the digits after "host:" when no scheme is typed, each
                 \* as its value and 10^(number of digits)
    NoPort, NoHost, NoDigits, NoUrl, ParseError, AddErr

MaxPort == 65535   \* u16

\* Ports are numbers, a digit string has one to nine digits, and the
\* markers for "none" are not values of the sets they stand beside.
ASSUME UrlAssumption ==
    /\ Ports \subseteq Nat
    /\ Digits \subseteq [value : Nat, shift : Nat]
    /\ \A d \in Digits : d.value < d.shift /\ \E k \in 1..9 : d.shift = 10^k
    /\ NoHost \notin Hosts \cup {"localhost"}
    /\ NoDigits \notin Digits

\* The url crate's special schemes and their default ports.
Special == {"http", "https", "ws", "wss", "ftp"}
KnownDefault(s) ==
    CASE s \in {"http", "ws"}   -> 80
      [] s \in {"https", "wss"} -> 443
      [] s = "ftp"              -> 21
      [] OTHER                  -> NoPort

\* The empty path, and the scheme of a text that has none.
EmptyPath == ""
NoScheme  == ""

Text(f, s, h, p, path, d) ==
    [form |-> f, scheme |-> s, host |-> h, port |-> p, path |-> path, digits |-> d]
Hier(s, h, p, path) == Text("hier", s, h, p, path, NoDigits)

\* What Defaults::parse gives when no URL is passed.
DefaultUrl == Hier("http", "localhost", 8000, EmptyPath)

\* What the operator may type as --host.
Inputs ==
    {Hier(s, h, p, EmptyPath) : s \in Schemes, h \in Hosts, p \in Ports \cup {NoPort}}
    \cup {Text("opaque", h, NoHost, NoPort, EmptyPath, d) : h \in Hosts, d \in Digits}
    \cup {Text("bare", NoScheme, h, NoPort, EmptyPath, NoDigits) : h \in Hosts}
    \cup {DefaultUrl}

\* "No url yet" is not a text the operator may type.
ASSUME MarkerAssumption == NoUrl \notin Inputs

\* url::Url::parse, as seen through scheme(), host_str(), port() and path().
UrlParse(t) ==
    IF \/ t.form = "bare"
       \/ t.port # NoPort /\ t.port > MaxPort
    THEN ParseError
    ELSE [t EXCEPT !.port = IF t.port = KnownDefault(t.scheme) THEN NoPort ELSE t.port,
                   !.path = IF t.form = "hier" /\ t.scheme \in Special /\ t.path = EmptyPath
                            THEN "/" ELSE t.path]

\* Mutant: http is not recognised as a plain scheme.
WsSchemeHttpWss(s) == IF s = "ws" THEN "ws" ELSE "wss"

\* The websocket scheme chosen for a scheme: ws for ws and http, else wss.
WsScheme(s) == IF s \in {"ws", "http"} THEN "ws" ELSE "wss"

\* format!("{}://{}:{}{}", scheme, host, port, path).
Format(s, h, p, u) ==
    IF u.digits = NoDigits
    THEN Hier(s, h, p, u.path)
    ELSE Hier(s, h, p * u.digits.shift + u.digits.value, EmptyPath)

\* Mutant: the parsed scheme is written back unconverted.
CreateWebsocketUrlKeepScheme(t) ==
    LET u == UrlParse(t) IN
    IF u = ParseError THEN ParseError
    ELSE Format(u.scheme,
                IF u.host = NoHost THEN "localhost" ELSE u.host,
                IF u.port = NoPort THEN 8080 ELSE u.port,
                u)

\* create_websocket_url: a parse error is returned, else the text is
\* rebuilt with host "localhost" and port 8080 when the URL names none.
CreateWebsocketUrl(t) ==
    LET u == UrlParse(t) IN
    IF u = ParseError THEN ParseError
    ELSE Format(WsScheme(u.scheme),
                IF u.host = NoHost THEN "localhost" ELSE u.host,
                IF u.port = NoPort THEN 8080 ELSE u.port,
                u)

\* ServiceConfig::create on a directory with no configuration:
\* ServiceConfig::new stores create_websocket_url of the url or fails with
\* its error; the save and the load that follow give the record back.
ServiceConfigCreate(t) == CreateWebsocketUrl(t)

(***************************************************************************)
(* State: whether a configuration exists on disk, the operator's --host,  *)
(* the service's stored url, the url of the invitation it issued, the url  *)
(* of the client's server entry and the url the client dials.             *)
(***************************************************************************)
VARIABLES cfg, host, svcUrl, invite, server, dialled

vars == <<cfg, host, svcUrl, invite, server, dialled>>

Texts ==
    [form : {"hier"}, scheme : {"ws", "wss"}, host : Hosts \cup {"localhost"},
     port : Nat, path : {EmptyPath, "/"}, digits : {NoDigits}]

TypeOK ==
    /\ cfg \in {"absent", "present", "bailed", "failed"}
    /\ host \in Inputs \cup {NoUrl}
    /\ svcUrl \in Texts \cup {NoUrl}
    /\ invite \in Texts \cup {NoUrl}
    /\ server \in Texts \cup {NoUrl, AddErr}
    /\ dialled \in Texts \cup {NoUrl}

\* The config directory may or may not exist before `init`.
Init ==
    /\ cfg \in {"absent", "present"}
    /\ host = NoUrl
    /\ svcUrl = NoUrl
    /\ invite = NoUrl
    /\ server = NoUrl
    /\ dialled = NoUrl

\* `portal-svc init --host t [--force]`: an existing directory is kept and
\* the command bails unless --force, which removes it; then
\* ServiceConfig::create, whose ServiceConfig::new fails on a URL that
\* create_websocket_url refuses.
PortalInit(t, force) ==
    /\ host = NoUrl
    /\ cfg \in {"absent", "present"}
    /\ host' = t
    /\ IF cfg = "present" /\ ~force
       THEN cfg' = "bailed" /\ UNCHANGED svcUrl
       ELSE LET url == ServiceConfigCreate(t) IN
            IF url = ParseError
            THEN cfg' = "failed" /\ UNCHANGED svcUrl
            ELSE cfg' = "present" /\ svcUrl' = url
    /\ UNCHANGED <<invite, server, dialled>>

\* ServiceConfig::add_client: the invitation carries the service's url.
AddClient ==
    /\ svcUrl # NoUrl /\ host # NoUrl
    /\ invite = NoUrl
    /\ invite' = svcUrl
    /\ UNCHANGED <<cfg, host, svcUrl, server, dialled>>

\* Mutant: from_invite copies the invitation's url unconverted.
AddServerNoConvert ==
    /\ invite # NoUrl
    /\ server = NoUrl
    /\ server' = invite
    /\ UNCHANGED <<cfg, host, svcUrl, invite, dialled>>

\* ServiceConfig::add_server on the client: ServerConfig::from_invite
\* converts the invitation's url again, and its error is returned.
AddServer ==
    /\ invite # NoUrl
    /\ server = NoUrl
    /\ LET url == CreateWebsocketUrl(invite) IN
       server' = IF url = ParseError THEN AddErr ELSE url
    /\ UNCHANGED <<cfg, host, svcUrl, invite, dialled>>

\* get_websocket_url: the client dials the stored url of its server entry.
Dial ==
    /\ server \notin {NoUrl, AddErr}
    /\ dialled = NoUrl
    /\ dialled' = server
    /\ UNCHANGED <<cfg, host, svcUrl, invite, server>>

Next ==
    \/ \E t \in Inputs, force \in BOOLEAN : PortalInit(t, force)
    \/ AddClient
    \/ AddServer
    \/ Dial

Spec == Init /\ [][Next]_vars

(***************************************************************************)
(* A client dials the host the operator typed, and dials it over plain ws *)
(* only when the operator asked for a plain scheme (http or ws): https,   *)
(* wss and any other scheme are dialled over wss.  This is the scheme      *)
(* match and host_str() of create_websocket_url, kept through its second   *)
(* application in ServerConfig::from_invite on the client.                 *)
(***************************************************************************)
DialsTypedHost ==
    dialled # NoUrl /\ host.form = "hier" =>
        /\ dialled.host = host.host
        /\ dialled.scheme = "ws" <=> host.scheme \in {"http", "ws"}

\* The port the operator wrote in --host: after "scheme://host:", or after
\* "host:" when no scheme is given.
TypedPort(t) == IF t.form = "opaque" THEN t.digits.value ELSE t.port

(***************************************************************************)
(* The init help text says "Hostname of the service (e.g.                  *)
(* https://localhost - protocol is optional)", and create_websocket_url    *)
(* falls back to port 8080 only when the URL names no port                 *)
(* (url.port().unwrap_or(8080)): a client that loads the invitation of a   *)
(* service is not refused by add_server, and its server entry names the    *)
(* port the operator wrote in --host, with or without a scheme.           *)
(***************************************************************************)
ReachesTypedPort ==
    server # NoUrl =>
        /\ server # AddErr
        /\ TypedPort(host) # NoPort => server.port = TypedPort(host)

=============================================================================
