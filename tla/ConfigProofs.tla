---------------------------- MODULE ConfigProofs ----------------------------
(***************************************************************************)
(* Proofs about the peer configuration (Config): every reachable state is  *)
(* well typed, and no service ever holds two client entries or two server  *)
(* entries of the same name, for any set of services and any key bound.    *)
(***************************************************************************)
EXTENDS Config, FiniteSetTheorems, TLAPS

\* A list of entries in which a name picks out at most one entry.
UniqueNames(list) == \A e1, e2 \in list : e1.name = e2.name => e1 = e2

\* The inductive invariant: NamesUnique stated without cardinalities.
IInv ==
    /\ TypeOK
    /\ \A s \in Services : UniqueNames(clients[s]) /\ UniqueNames(servers[s])

\* In a list with unique names, a name picks out at most one entry.
LEMMA NamedAtMostOne ==
    ASSUME NEW list, UniqueNames(list), NEW n
    PROVE  Cardinality(Named(list, n)) <= 1
<1>1. CASE Named(list, n) = {}
    BY <1>1, FS_EmptySet
<1>2. CASE Named(list, n) # {}
    <2>1. PICK e \in Named(list, n) : TRUE
        BY <1>2
    <2>2. Named(list, n) = {e}
        BY <2>1 DEF UniqueNames, Named
    <2>3. QED
        BY <2>2, FS_Singleton
<1>3. QED
    BY <1>1, <1>2

\* Adding an entry whose name is not yet used keeps names unique.
LEMMA AddFresh ==
    ASSUME NEW list, UniqueNames(list), NEW e, Named(list, e.name) = {}
    PROVE  UniqueNames(list \cup {e})
BY DEF UniqueNames, Named

\* Removing entries keeps names unique.
LEMMA RemoveSome ==
    ASSUME NEW list, UniqueNames(list), NEW gone
    PROVE  UniqueNames(list \ gone)
BY DEF UniqueNames

LEMMA InitIInv == Init => IInv
BY ConfigAssumption DEF Init, IInv, TypeOK, UniqueNames

LEMMA NextIInv == IInv /\ [Next]_vars => IInv'
<1> SUFFICES ASSUME IInv, [Next]_vars PROVE IInv'
    OBVIOUS
<1>1. ASSUME NEW s \in Services, NEW c \in Services, AddClient(s, c)
      PROVE  IInv'
    <2> DEFINE e == [name |-> c, key |-> nextKey + 1]
    <2>1. e \in Entry /\ nextKey + 1 \in 0..MaxKeys
        BY <1>1, ConfigAssumption DEF IInv, TypeOK, AddClient, Entry, Keys
    <2>2. clients' = [clients EXCEPT ![s] = @ \cup {e}]
        BY <1>1 DEF AddClient
    <2>3. TypeOK'
        <3>1. clients' \in [Services -> SUBSET Entry]
            BY <2>1, <2>2 DEF IInv, TypeOK
        <3>2. invites' \subseteq Entry
            BY <1>1, ConfigAssumption DEF IInv, TypeOK, AddClient, Entry, Keys
        <3>3. nextKey' \in 0..MaxKeys /\ servers' = servers
            BY <1>1, <2>1 DEF AddClient
        <3>4. QED
            BY <3>1, <3>2, <3>3 DEF IInv, TypeOK
    <2>4. UniqueNames(clients[s] \cup {e})
        BY <1>1, AddFresh DEF IInv, AddClient
    <2>5. \A t \in Services : UniqueNames(clients'[t]) /\ UniqueNames(servers'[t])
        BY <1>1, <2>2, <2>4 DEF IInv, TypeOK, AddClient
    <2>6. QED
        BY <2>3, <2>5 DEF IInv
<1>2. ASSUME NEW s \in Services, NEW c \in Services, RemoveClient(s, c)
      PROVE  IInv'
    <2>1. UniqueNames(clients[s] \ Named(clients[s], c))
        BY RemoveSome DEF IInv
    <2>2. TypeOK'
        BY <1>2 DEF IInv, TypeOK, RemoveClient
    <2>3. QED
        BY <1>2, <2>1, <2>2 DEF IInv, TypeOK, RemoveClient
<1>3. ASSUME NEW c \in Services, NEW inv \in invites, AddServer(c, inv)
      PROVE  IInv'
    <2>1. inv \in Entry
        BY DEF IInv, TypeOK
    <2>2. UniqueNames(servers[c] \cup {inv})
        BY <1>3, AddFresh DEF IInv, AddServer
    <2>3. TypeOK'
        BY <1>3, <2>1 DEF IInv, TypeOK, AddServer
    <2>4. QED
        BY <1>3, <2>2, <2>3 DEF IInv, TypeOK, AddServer
<1>4. ASSUME NEW c \in Services, NEW n \in Services, RemoveServer(c, n)
      PROVE  IInv'
    <2>1. UniqueNames(servers[c] \ Named(servers[c], n))
        BY RemoveSome DEF IInv
    <2>2. TypeOK'
        BY <1>4 DEF IInv, TypeOK, RemoveServer
    <2>3. QED
        BY <1>4, <2>1, <2>2 DEF IInv, TypeOK, RemoveServer
<1>5. CASE UNCHANGED vars
    BY <1>5 DEF IInv, TypeOK, vars
<1>6. QED
    BY <1>1, <1>2, <1>3, <1>4, <1>5 DEF Next

(***************************************************************************)
(* Configuration operations keep every entry well typed: keys come from   *)
(* the generated range and names from the services (add_client,            *)
(* add_server, remove_client, remove_server in any order).                 *)
(***************************************************************************)
THEOREM ConfigTypeCorrect == Spec => []TypeOK
<1>1. IInv => TypeOK
    BY DEF IInv
<1>2. QED
    BY <1>1, InitIInv, NextIInv, PTL DEF Spec

(***************************************************************************)
(* The "already exists" checks of add_client and add_server keep client    *)
(* and server names unique on every service, whatever sequence of adds,    *)
(* removes, re-adds and invitation loads happens.                          *)
(***************************************************************************)
THEOREM NamesAreUnique == Spec => []NamesUnique
<1>1. IInv => NamesUnique
    BY NamedAtMostOne DEF IInv, NamesUnique
<1>2. QED
    BY <1>1, InitIInv, NextIInv, PTL DEF Spec


\* Why the keys identify a service: no key is newer than the counter, a
\* client entry holding an invitation's keys belongs to the service that
\* wrote it, and a server entry is a loaded invitation.
KeyInv ==
    /\ \A s \in Services : \A e \in clients[s] : e.key <= nextKey
    /\ \A i \in invites :
           /\ i.key <= nextKey
           /\ \A s \in Services : \A ce \in clients[s] : ce.key = i.key => s = i.name
    /\ \A c \in Services : servers[c] \subseteq invites

\* The key facts hold before anything is configured.
LEMMA InitKeyInv == Init => KeyInv
BY DEF Init, KeyInv

\* A step that only shrinks client lists and leaves the counter and the
\* invitations alone keeps the key facts.
LEMMA ShrinkKeeps ==
    ASSUME KeyInv, nextKey' = nextKey, invites' = invites,
           \A s \in Services : clients'[s] \subseteq clients[s],
           \A c \in Services : servers'[c] \subseteq invites
    PROVE  KeyInv'
BY DEF KeyInv

\* Every step keeps the key facts: add_client draws a key above every key
\* in use and issues it to one service only.
LEMMA NextKeyInv == IInv /\ KeyInv /\ [Next]_vars => KeyInv'
<1> SUFFICES ASSUME IInv, KeyInv, [Next]_vars PROVE KeyInv'
    OBVIOUS
<1>1. ASSUME NEW s \in Services, NEW c \in Services, AddClient(s, c)
      PROVE  KeyInv'
    <2> DEFINE k == nextKey + 1
               e == [name |-> c, key |-> k]
               j == [name |-> s, key |-> k]
    <2>1. /\ clients' = [clients EXCEPT ![s] = @ \cup {e}]
          /\ invites' = invites \cup {j}
          /\ nextKey' = k
          /\ servers' = servers
        BY <1>1 DEF AddClient
    <2>2. /\ nextKey \in Nat /\ clients \in [Services -> SUBSET Entry]
          /\ \A t \in Services : \A ce \in clients[t] : ce.key \in Nat
          /\ \A i \in invites : i.key \in Nat
        BY DEF IInv, TypeOK, Entry, Keys
    <2>3. \A t \in Services : \A ce \in clients'[t] :
              \/ ce \in clients[t] /\ ce.key <= nextKey
              \/ t = s /\ ce = e
        BY <2>1, <2>2 DEF KeyInv
    <2>4. \A t \in Services : \A ce \in clients'[t] : ce.key <= nextKey'
        <3>1. e.key = nextKey'
            BY <2>1
        <3>2. QED
            BY <2>2, <2>3, <3>1
    <2>5. ASSUME NEW i \in invites'
          PROVE  /\ i.key <= nextKey'
                 /\ \A t \in Services : \A ce \in clients'[t] : ce.key = i.key => t = i.name
        <3>1. CASE i \in invites
            <4>1. i.key <= nextKey /\ i.key # k
                BY <2>2, <3>1 DEF KeyInv
            <4>2. \A t \in Services : \A ce \in clients[t] : ce.key = i.key => t = i.name
                BY <3>1 DEF KeyInv
            <4>3. QED
                BY <2>1, <2>2, <2>3, <4>1, <4>2
        <3>2. CASE i = j
            <4>1. \A t \in Services : \A ce \in clients[t] : ce.key # k
                BY <2>2 DEF KeyInv
            <4>2. QED
                BY <2>1, <2>3, <3>2, <4>1
        <3>3. QED
            BY <2>1, <3>1, <3>2
    <2>6. QED
        BY <2>1, <2>4, <2>5 DEF KeyInv
<1>2. ASSUME NEW s \in Services, NEW c \in Services, RemoveClient(s, c)
      PROVE  KeyInv'
    BY <1>2, ShrinkKeeps DEF RemoveClient, KeyInv, IInv, TypeOK
<1>3. ASSUME NEW c \in Services, NEW inv \in invites, AddServer(c, inv)
      PROVE  KeyInv'
    BY <1>3, ShrinkKeeps DEF AddServer, KeyInv, IInv, TypeOK
<1>4. ASSUME NEW c \in Services, NEW n \in Services, RemoveServer(c, n)
      PROVE  KeyInv'
    BY <1>4, ShrinkKeeps DEF RemoveServer, KeyInv, IInv, TypeOK
<1>5. CASE UNCHANGED vars
    BY <1>5 DEF KeyInv, vars
<1>6. QED
    BY <1>1, <1>2, <1>3, <1>4, <1>5 DEF Next

(***************************************************************************)
(* Because Key::generate never repeats, the keys of every server entry a   *)
(* service loads from an invitation are held by no client entry but those *)
(* of the service the entry names, whatever add_client, remove_client,     *)
(* add_server and remove_server calls came before, for any services and   *)
(* key bound.                                                              *)
(***************************************************************************)
THEOREM ServerKeysIdentifyService == Spec => []ServerKeysIdentify
<1>1. KeyInv => ServerKeysIdentify
    BY DEF KeyInv, ServerKeysIdentify
<1>2. QED
    BY <1>1, InitIInv, NextIInv, InitKeyInv, NextKeyInv, PTL DEF Spec

=============================================================================
