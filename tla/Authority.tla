------------------------------ MODULE Authority ------------------------------
(***************************************************************************)
(* Accounts and their authorities: the messages that make and change them  *)
(* (native_contract/xmax_contract.cpp) and check_authorization, which says *)
(* whether the keys that signed a transaction suffice for it               *)
(* (chain/authority_utls.cpp).                                             *)
(*                                                                         *)
(* An authority is [threshold, keys, accounts]: keys is a sequence of       *)
(* [key, weight] and accounts one of [auth, weight], where auth is          *)
(* [account, authority].  A transaction has one message here, with one      *)
(* declared authorization au.                                              *)
(*                                                                         *)
(* The module takes the handlers as they are written.  In this build        *)
(* native_contract_chain_init registers addaccount and the handlers that   *)
(* make contracts and tokens; for updateauth, deleteauth, linkauth and     *)
(* unlinkauth check_authorization has its cases and xmax_contract.hpp      *)
(* exports the handlers, but none is dispatched yet.                       *)
(***************************************************************************)
EXTENDS Integers, Sequences, FiniteSets

CONSTANTS Accounts,     \* names of accounts
          Initial,      \* initial_accounts, in order, each [name, owner_key, active_key]
          Names,        \* names of authorities besides "owner" and "active"
          Keys,
          Funcs,        \* functions that links name, "" for all
          New,          \* the authorities that addaccount messages carry
          Candidates,   \* the authorities that updateauth messages carry
          WeightRange,  \* values of auth_weight, 2^16 in the code
          ThresholdRange, \* values of a threshold, and of an int, 2^32 in the code
          MaxDepth,     \* max_check_depth, 3 in the code
          MaxIds,       \* bound: authority objects ever made
          MaxEntries,   \* bound: keys and accounts of an authority object
          MaxLinks      \* bound: links at a time

System == "xmax"
SysAny == "sys.any"
AllNames == {"owner", "active"} \cup Names
Declared == [account : Accounts, authority : AllNames]

\* authority and mapped_authoritys
Authorities == [threshold : 0..(ThresholdRange - 1),
                keys : Seq([key : Keys, weight : Nat]),
                accounts : Seq([auth : Declared, weight : Nat])]

ASSUME AuthorityAssumption ==
  /\ WeightRange \in Nat \ {0} /\ ThresholdRange \in Nat \ {0, 1}
  /\ MaxDepth \in Nat /\ MaxIds \in Nat /\ MaxEntries \in Nat /\ MaxLinks \in Nat
  /\ Initial \in Seq([name : Accounts, owner_key : Keys, active_key : Keys])
  /\ \A i, j \in 1..Len(Initial) : Initial[i].name = Initial[j].name => i = j
  /\ \A i \in 1..Len(Initial) : Initial[i].name # System
  /\ 2 * Len(Initial) <= MaxIds
  /\ New \cup Candidates \subseteq Authorities

VARIABLES accounts, \* account_object: the type under the name
          auths,    \* authority_object, under its id
          links,    \* linked_permission_object: the authority under account, code and func
          next      \* the id of the next authority_object

vars == <<accounts, auths, links, next>>

\* account_type; "contract" is acc_contract, acc_erc20 and acc_erc721.
AccountTypes == {"system", "personal", "contract"}

\* The objects that addaccount makes for an account, the first with an id.
Fresh(a, id, owner, active) ==
  [i \in {id, id + 1} |->
     [owner |-> a, name |-> IF i = id THEN "owner" ELSE "active",
      parent |-> IF i = id THEN 0 ELSE id, auth |-> IF i = id THEN owner ELSE active]]

Merged(f, g) == [x \in DOMAIN f \cup DOMAIN g |-> IF x \in DOMAIN g THEN g[x] ELSE f[x]]

\* KeyAuthority of prepare_data
KeyAuthority(k) == [threshold |-> 1, keys |-> <<[key |-> k, weight |-> 1]>>, accounts |-> <<>>]

\* The state after the genesis transaction: the account of the system contract, which
\* create_native_account makes without authorities, and an addaccount for each initial
\* account.
Init ==
  /\ accounts = [a \in {System} \cup {Initial[i].name : i \in 1..Len(Initial)} |->
                   IF a = System THEN "system" ELSE "personal"]
  /\ auths = [i \in 0..(2 * Len(Initial) - 1) |->
                LET a == Initial[(i \div 2) + 1]
                IN Fresh(a.name, 2 * (i \div 2), KeyAuthority(a.owner_key),
                         KeyAuthority(a.active_key))[i]]
  /\ links = <<>>
  /\ next = 2 * Len(Initial)

-----------------------------------------------------------------------------
\* find_authority_object
Ids(au) == {i \in DOMAIN auths : auths[i].owner = au.account /\ auths[i].name = au.authority}
Exists(au) == Ids(au) # {}
IdOf(au) == CHOOSE i \in Ids(au) : TRUE

\* account_assert
HasAccount(a) == a \in DOMAIN accounts

\* by_name and by_owner of authority_object begin with the account: what linkauth finds
\* with a name is some authority of the account of that name.
OwnsAuthority(a) == \E i \in DOMAIN auths : auths[i].owner = a

\* Mutant: only the parent of the parent is looked at.
WalkOnce(editor, id) == id \in DOMAIN auths /\ auths[id].parent = editor

\* The loop of parent_permission_valid from object id, over at most MaxIds objects.
Walk(editor, id) ==
  LET walk[n \in 0..MaxIds] ==
        IF n = 0 THEN [i \in 0..MaxIds |-> FALSE]
        ELSE [i \in 0..MaxIds |->
                /\ i \in DOMAIN auths
                /\ \/ auths[i].parent = editor
                   \/ auths[i].parent # 0 /\ walk[n - 1][auths[i].parent]]
  IN walk[MaxIds][id]

\* parent_permission_valid
ParentPermissionValid(editor, info) ==
  /\ auths[editor].owner = auths[info].owner
  /\ editor = auths[info].parent \/ Walk(editor, auths[info].parent)

\* find_linked_permission: a link for the function, or else one for all functions.
LinkKeys(a, code, func) ==
  IF <<a, code, func>> \in DOMAIN links THEN {<<a, code, func>>}
  ELSE {<<a, code, "">>} \cap DOMAIN links

\* min_linked_permission, as the names that its result may be read as: "active" without
\* a link, and any for a link to sys.any, where check_authorization reads an optional
\* that is empty.
MinLinked(a, code, func) ==
  LET keys == LinkKeys(a, code, func)
  IN CASE keys = {} -> {"active"}
       [] \E k \in keys : links[k] = SysAny -> AllNames
       [] OTHER -> {links[k] : k \in keys}

\* The loop of check_authorization, for a function of the system contract that is
\* not one of the four below.
LinkAllows(au, func) ==
  \E n \in MinLinked(au.account, System, func) :
    LET sub == [account |-> au.account, authority |-> n]
    IN sub = au \/ (Exists(au) /\ Exists(sub) /\ ParentPermissionValid(IdOf(au), IdOf(sub)))

-----------------------------------------------------------------------------
\* The weights of the entries that are in a set, added up.
Total(entries, counted) ==
  LET total[i \in 0..Len(entries)] ==
        IF i = 0 THEN 0
        ELSE IF i \in counted THEN total[i - 1] + entries[i].weight ELSE total[i - 1]
  IN total[Len(entries)]

\* The weight of the keys of an authority that signed.
KeyWeight(auth, keys) ==
  Total(auth.keys, {i \in DOMAIN auth.keys : auth.keys[i].key \in keys})

\* Mutant: an account is in the cache before it was checked.
VisitCachedFirst(deeper, w, run) ==
  LET below == IF w.auth \in run.cache THEN run ELSE deeper[w.auth][run.cache \cup {w.auth}]
  IN IF ~run.ok THEN run
     ELSE [ok |-> below.ok, cache |-> below.cache \cup {w.auth}, weight |-> run.weight + w.weight]

\* check_impl for one account of an authority: it must pass, now or before.
Visit(deeper, w, run) ==
  LET below == IF w.auth \in run.cache THEN run ELSE deeper[w.auth][run.cache]
  IN IF ~run.ok THEN run
     ELSE [ok |-> below.ok, cache |-> below.cache \cup {w.auth}, weight |-> run.weight + w.weight]

\* The second loop of check_impl, over the accounts of an authority.
VisitAll(deeper, ws, first) ==
  LET run[i \in 0..Len(ws)] ==
        IF i = 0 THEN first ELSE Visit(deeper, ws[i], run[i - 1])
  IN run[Len(ws)]

\* int() of an unsigned number of the same width.
AsInt(v) == IF 2 * v >= ThresholdRange THEN v - ThresholdRange ELSE v

\* check_impl; deeper is check_with_depth at the next depth.
CheckOne(keys, deeper, au, cache) ==
  LET auth == auths[IdOf(au)].auth
      run == VisitAll(deeper, auth.accounts,
                      [ok |-> TRUE, cache |-> cache, weight |-> KeyWeight(auth, keys)])
  IN IF ~Exists(au) THEN [ok |-> FALSE, cache |-> cache]
     ELSE [ok |-> run.ok /\ run.weight >= AsInt(auth.threshold), cache |-> run.cache]

\* check_with_depth at each depth, as the number of depths that are left.
CheckImpl(keys) ==
  LET check[left \in 0..MaxDepth] ==
        IF left = 0
        THEN [au \in Declared |-> [cache \in SUBSET Declared |-> [ok |-> FALSE, cache |-> cache]]]
        ELSE [au \in Declared |-> [cache \in SUBSET Declared |->
                CheckOne(keys, check[left - 1], au, cache)]]
  IN check

\* auth_checker on the authorizations of a transaction, in order.
Checked(aus, keys) ==
  LET run[i \in 0..Len(aus)] ==
        IF i = 0 THEN [ok |-> TRUE, cache |-> {}]
        ELSE IF run[i - 1].ok THEN CheckImpl(keys)[MaxDepth][aus[i]][run[i - 1].cache] ELSE run[i - 1]
  IN run[Len(aus)].ok

\* check_updateauth; an owner authority, which has no parent, is not found.
UpdateAllowed(m) == Exists([account |-> m.account, authority |-> m.parent])

\* check_authorization of a message m, whose declared authorization the keys that
\* signed satisfy; the four messages about authorities need no link.
Authorized(m) ==
  CASE m.type \in {"addaccount", "addcontract"} -> LinkAllows(m.au, m.type)
    [] m.type = "updateauth" -> m.au.account = m.account /\ UpdateAllowed(m)
    [] OTHER -> m.au.account = m.account

-----------------------------------------------------------------------------
\* xmax_system_addaccount: nothing validates the authorities of a new account; the
\* messages here carry one for both.
AddAccount(m) ==
  /\ ~HasAccount(m.account) /\ next + 1 < MaxIds
  /\ auths' = Merged(auths, Fresh(m.account, next, m.auth, m.auth))
  /\ next' = next + 2
  /\ accounts' = Merged(accounts, [a \in {m.account} |-> "personal"])
  /\ UNCHANGED links

\* xmax_new_account for addcontract, adderc20 and adderc721: an account without
\* authorities.
AddContract(m) ==
  /\ ~HasAccount(m.account)
  /\ accounts' = Merged(accounts, [a \in {m.account} |-> "contract"])
  /\ UNCHANGED <<auths, links, next>>

\* validate_weight_format; the sum has the type of a weight.
ValidWeights(auth) ==
  /\ auth.threshold > 0
  /\ (Total(auth.keys, DOMAIN auth.keys) + Total(auth.accounts, DOMAIN auth.accounts)) % WeightRange
       >= auth.threshold

\* validate_authority
ValidAccounts(auth) ==
  \A i \in 1..Len(auth.accounts) :
    LET au == auth.accounts[i].auth
    IN HasAccount(au.account) /\ (au.authority \in {"owner", "active"} \/ Exists(au))

\* mapped_authoritys::operator=: the entries are added to those that are there.
Assigned(old, new) == [threshold |-> new.threshold, keys |-> old.keys \o new.keys,
                       accounts |-> old.accounts \o new.accounts]

\* Mutant: an update may move an authority under another parent.
SetAuthAnywhere(m, parent) ==
  LET au == [account |-> m.account, authority |-> m.permission]
      new == [owner |-> m.account, name |-> m.permission, parent |-> parent, auth |-> m.auth]
  IN IF Exists(au)
     THEN auths' = [auths EXCEPT ![IdOf(au)] = new] /\ UNCHANGED next
     ELSE next < MaxIds /\ auths' = Merged(auths, [i \in {next} |-> new]) /\ next' = next + 1

\* The end of updateauth: the authority is modified, unless its parent would
\* change, or made.
SetAuth(m, parent) ==
  LET au == [account |-> m.account, authority |-> m.permission]
      new == [owner |-> m.account, name |-> m.permission, parent |-> parent, auth |-> m.auth]
  IN \/ /\ Exists(au) /\ auths[IdOf(au)].parent = parent
        /\ LET auth == Assigned(auths[IdOf(au)].auth, m.auth)
           IN /\ Len(auth.keys) + Len(auth.accounts) <= MaxEntries
              /\ auths' = [auths EXCEPT ![IdOf(au)].auth = auth]
        /\ UNCHANGED next
     \/ /\ ~Exists(au) /\ next < MaxIds
        /\ auths' = Merged(auths, [i \in {next} |-> new])
        /\ next' = next + 1

\* xmax_system_updateauth of an authority that is not "owner".
UpdateAuth(m) ==
  LET up == [account |-> m.account, authority |-> m.parent]
  IN /\ m.permission # "owner" /\ m.permission # m.parent
     /\ HasAccount(m.account) /\ ValidWeights(m.auth)
     /\ m.permission = "active" => m.parent = "owner"
     /\ ValidAccounts(m.auth)
     /\ Exists(up)
     /\ SetAuth(m, IdOf(up))
     /\ UNCHANGED <<accounts, links>>

\* remove_linked_object: a linked authority is not deleted.
Unlinked(m) == \A k \in DOMAIN links : ~(k[1] = m.account /\ links[k] = m.permission)

\* The conditions of deleteauth.
Deletable(m) == m.permission \notin {"active", "owner"} /\ Unlinked(m)

\* xmax_system_deleteauth; what has it as its parent stays.
DeleteAuth(m) ==
  LET au == [account |-> m.account, authority |-> m.permission]
  IN /\ Deletable(m) /\ Exists(au)
     /\ auths' = [i \in DOMAIN auths \ {IdOf(au)} |-> auths[i]]
     /\ UNCHANGED <<accounts, links, next>>

\* xmax_system_linkauth for the system contract
LinkAuth(m) ==
  LET k == <<m.account, System, m.func>>
  IN /\ HasAccount(m.account) /\ HasAccount(System) /\ OwnsAuthority(m.permission)
     /\ k \in DOMAIN links => links[k] # m.permission
     /\ k \notin DOMAIN links => Cardinality(DOMAIN links) < MaxLinks
     /\ links' = Merged(links, [x \in {k} |-> m.permission])
     /\ UNCHANGED <<accounts, auths, next>>

\* xmax_system_unlinkauth
UnlinkAuth(m) ==
  LET k == <<m.account, System, m.func>>
  IN /\ k \in DOMAIN links
     /\ links' = [x \in DOMAIN links \ {k} |-> links[x]]
     /\ UNCHANGED <<accounts, auths, next>>

-----------------------------------------------------------------------------
\* The messages, with the fields that their type has.
AddMessages(au) ==
  [type : {"addaccount"}, au : {au}, account : Accounts, auth : New]
ContractMessages(au) ==
  [type : {"addcontract"}, au : {au}, account : Accounts]
UpdateMessages(au) ==
  [type : {"updateauth"}, au : {au}, account : {au.account}, permission : AllNames,
   parent : AllNames, auth : Candidates]
DeleteMessages(au) ==
  [type : {"deleteauth"}, au : {au}, account : {au.account}, permission : AllNames]
LinkMessages(au) ==
  [type : {"linkauth"}, au : {au}, account : {au.account}, permission : AllNames, func : Funcs]
UnlinkMessages(au) ==
  [type : {"unlinkauth"}, au : {au}, account : {au.account}, func : Funcs]

\* Some keys satisfy a declared authorization.
Signed(au) == \E keys \in SUBSET Keys : Checked(<<au>>, keys)

Next ==
  \E au \in Declared :
    /\ Signed(au)
    /\ \/ \E m \in AddMessages(au) : Authorized(m) /\ AddAccount(m)
       \/ \E m \in ContractMessages(au) : Authorized(m) /\ AddContract(m)
       \/ \E m \in UpdateMessages(au) : Authorized(m) /\ UpdateAuth(m)
       \/ \E m \in DeleteMessages(au) : Authorized(m) /\ DeleteAuth(m)
       \/ \E m \in LinkMessages(au) : Authorized(m) /\ LinkAuth(m)
       \/ \E m \in UnlinkMessages(au) : Authorized(m) /\ UnlinkAuth(m)

Spec == Init /\ [][Next]_vars

-----------------------------------------------------------------------------
\* The shape of the state: an account has at most one authority of a name, and
\* ids come from next.
TypeOK ==
  /\ DOMAIN accounts \subseteq Accounts \cup {System}
  /\ \A a \in DOMAIN accounts : accounts[a] \in AccountTypes
  /\ DOMAIN auths \subseteq 0..(next - 1) /\ next \in 0..MaxIds
  /\ \A i \in DOMAIN auths :
       auths[i].owner \in Accounts /\ auths[i].name \in AllNames /\ auths[i].parent \in 0..MaxIds
  /\ \A au \in Declared : Cardinality(Ids(au)) <= 1
  /\ DOMAIN links \subseteq Accounts \X {System} \X Funcs

\* Whatever is deleted and made again, every personal account has its owner and its
\* active authority, which check_authorization counts on, every authority is of such an
\* account, so that the name of a contract never gets one by addaccount, and the way from
\* an authority to its parents goes to older objects, so that the loop of
\* parent_permission_valid ends.
AuthoritiesRooted ==
  /\ \A a \in DOMAIN accounts : accounts[a] = "personal" =>
       \A n \in {"owner", "active"} : Exists([account |-> a, authority |-> n])
  /\ \A i \in DOMAIN auths : HasAccount(auths[i].owner) /\ accounts[auths[i].owner] = "personal"
  /\ \A i \in DOMAIN auths : auths[i].parent < i \/ auths[i].name = "owner"

\* What a comment of validate_authority says: all accounts, here those that messages
\* make, have owner and active authorities.
AllRooted ==
  \A a \in DOMAIN accounts \ {System}, n \in {"owner", "active"} :
    Exists([account |-> a, authority |-> n])

\* The authorities above an authority, owner at the top; a deleted one cuts the way.
Above ==
  LET up[i \in 0..MaxIds] ==
        IF i \notin DOMAIN auths \/ auths[i].name = "owner" THEN {}
        ELSE ({auths[i].parent} \cap DOMAIN auths) \cup up[auths[i].parent]
  IN up

\* parent_permission_valid finds exactly the authorities above another.
AncestorsExact ==
  \A e, i \in DOMAIN auths : e # i => (ParentPermissionValid(e, i) <=> e \in Above[i])

\* The authorities that reach their threshold, as check_impl reads it, with keys and
\* with accounts in S; a threshold beyond int is negative there, and always reached.
Reached(keys, S) ==
  {i \in DOMAIN auths :
     LET auth == auths[i].auth
     IN KeyWeight(auth, keys)
        + Total(auth.accounts, {k \in DOMAIN auth.accounts : Ids(auth.accounts[k].auth) \cap S # {}})
          >= AsInt(auth.threshold)}

\* The authorities that keys satisfy: the smallest set that has all those that reach
\* their threshold with the keys and with accounts in the set.
Satisfied(keys) ==
  LET closed == {S \in SUBSET DOMAIN auths : Reached(keys, S) \subseteq S}
  IN {i \in DOMAIN auths : \A S \in closed : i \in S}

\* What auth_checker lets pass, the keys satisfy, even when authorities name each
\* other in a circle and a second authorization finds the cache of the first.
ChecksSound ==
  \A keys \in SUBSET Keys :
    LET satisfied == Satisfied(keys)
    IN \A x, y \in DOMAIN auths :
         Checked(<<[account |-> auths[x].owner, authority |-> auths[x].name],
                   [account |-> auths[y].owner, authority |-> auths[y].name]>>, keys)
           => {x, y} \subseteq satisfied

\* A link names an authority of its account.
LinksKnown == \A k \in DOMAIN links : Exists([account |-> k[1], authority |-> links[k]])

\* No authorization passes with less weight than the threshold that the authority was
\* given, all its accounts counted.
ThresholdsCount ==
  \A keys \in SUBSET Keys, i \in DOMAIN auths :
    LET auth == auths[i].auth
    IN Checked(<<[account |-> auths[i].owner, authority |-> auths[i].name]>>, keys)
         => KeyWeight(auth, keys) + Total(auth.accounts, DOMAIN auth.accounts) >= auth.threshold

=============================================================================
