------------------------------- MODULE Config -------------------------------
(***************************************************************************)
(* The peer configuration of the services (paddington/src/config.rs) and   *)
(* the invitations that pair them.                                         *)
(*                                                                         *)
(* A service s that accepts a client c holds a client entry for c with a   *)
(* freshly generated pair of keys (add_client) and writes an invitation    *)
(* carrying its own name and those keys.  The invitation is a file moved   *)
(* out of band; whoever loads it (add_server) holds a server entry for s   *)
(* with the same keys.  A key pair is a model value drawn from a counter:  *)
(* Key::generate never repeats.  The IP address or range of a client      *)
(* entry is left out (no property tells addresses apart); a malformed one  *)
(* or an empty name makes add_client return an error with nothing         *)
(* changed, which is a stutter.                                            *)
(***************************************************************************)
EXTENDS Naturals, FiniteSets

CONSTANTS
    Services,   \* the names of the services
    MaxKeys     \* how many key pairs may be generated

ASSUME ConfigAssumption ==
    /\ Services # {}
    /\ MaxKeys \in Nat \ {0}

VARIABLES
    clients,    \* clients[s]: the client entries of s, as [name, key]
    servers,    \* servers[s]: the server entries of s, as [name, key]
    invites,    \* the invitation files written so far, as [name, key]
    nextKey     \* the key pairs generated so far

vars == <<clients, servers, invites, nextKey>>

Keys  == 1..MaxKeys
Entry == [name : Services, key : Keys]

\* The entries of a list that carry a name.
Named(list, n) == {e \in list : e.name = n}

Init ==
    /\ clients = [s \in Services |-> {}]
    /\ servers = [s \in Services |-> {}]
    /\ invites = {}
    /\ nextKey = 0

\* Mutant: the check for an existing client of that name left out.
AddClientNoDupCheck(s, c) ==
    /\ nextKey < MaxKeys
    /\ clients' = [clients EXCEPT ![s] = @ \cup {[name |-> c, key |-> nextKey + 1]}]
    /\ invites' = invites \cup {[name |-> s, key |-> nextKey + 1]}
    /\ nextKey' = nextKey + 1
    /\ UNCHANGED servers

\* Mutant: the counter is not advanced, so the next client gets the same keys.
AddClientKeyReused(s, c) ==
    /\ Named(clients[s], c) = {}
    /\ nextKey < MaxKeys
    /\ clients' = [clients EXCEPT ![s] = @ \cup {[name |-> c, key |-> nextKey + 1]}]
    /\ invites' = invites \cup {[name |-> s, key |-> nextKey + 1]}
    /\ UNCHANGED <<servers, nextKey>>

(***************************************************************************)
(* ServiceConfig::add_client: refused when a client of that name exists;   *)
(* otherwise a client entry with new keys is pushed and an invitation with *)
(* the service's own name and those keys is returned.                      *)
(***************************************************************************)
AddClient(s, c) ==
    /\ Named(clients[s], c) = {}
    /\ nextKey < MaxKeys
    /\ clients' = [clients EXCEPT ![s] = @ \cup {[name |-> c, key |-> nextKey + 1]}]
    /\ invites' = invites \cup {[name |-> s, key |-> nextKey + 1]}
    /\ nextKey' = nextKey + 1
    /\ UNCHANGED servers

\* ServiceConfig::remove_client: every client entry of that name goes.
RemoveClient(s, c) ==
    /\ clients' = [clients EXCEPT ![s] = @ \ Named(@, c)]
    /\ UNCHANGED <<servers, invites, nextKey>>

(***************************************************************************)
(* ServiceConfig::add_server(invite): refused when a server of the         *)
(* invitation's name exists; otherwise a server entry with the             *)
(* invitation's name and keys is pushed (ServerConfig::from_invite).       *)
(***************************************************************************)
AddServer(c, inv) ==
    /\ Named(servers[c], inv.name) = {}
    /\ servers' = [servers EXCEPT ![c] = @ \cup {inv}]
    /\ UNCHANGED <<clients, invites, nextKey>>

\* ServiceConfig::remove_server: every server entry of that name goes.
RemoveServer(c, n) ==
    /\ servers' = [servers EXCEPT ![c] = @ \ Named(@, n)]
    /\ UNCHANGED <<clients, invites, nextKey>>

Next ==
    \/ \E s, c \in Services : AddClient(s, c) \/ RemoveClient(s, c)
    \/ \E c \in Services, inv \in invites : AddServer(c, inv)
    \/ \E c, n \in Services : RemoveServer(c, n)

Spec == Init /\ [][Next]_vars

-----------------------------------------------------------------------------
TypeOK ==
    /\ clients \in [Services -> SUBSET Entry]
    /\ servers \in [Services -> SUBSET Entry]
    /\ invites \subseteq Entry
    /\ nextKey \in 0..MaxKeys

(***************************************************************************)
(* A service never holds two client entries, or two server entries, of the *)
(* same name, whatever order entries are added, removed and re-added in    *)
(* and whichever invitation files are loaded: the server side picks the    *)
(* client entry by name during the handshake, so a second one would make   *)
(* the keys it uses ambiguous.  This is what the "already exists" checks   *)
(* of add_client and add_server are for.                                   *)
(***************************************************************************)
NamesUnique ==
    \A s \in Services, n \in Services :
        /\ Cardinality(Named(clients[s], n)) <= 1
        /\ Cardinality(Named(servers[s], n)) <= 1

(***************************************************************************)
(* The keys of a server entry identify the service it names: whatever      *)
(* invitations are loaded, and however clients are removed and added again *)
(* under the same name, a client entry that holds the keys of c's server   *)
(* entry for s is one of s's.  Key::generate never repeats in add_client,  *)
(* so the peer that completes the handshake with those keys is s.          *)
(***************************************************************************)
ServerKeysIdentify ==
    \A c, s \in Services :
        \A se \in servers[c], ce \in clients[s] : ce.key = se.key => s = se.name

=============================================================================
