------------------------------- MODULE Accounts -------------------------------
(***************************************************************************)
(* The accounts: profiles, the map from ids to profiles, OAuth users and   *)
(* feed infos with their services, in four tables of two stores            *)
(* (storage/table.go), under the concurrent handlers of server/auth.go,    *)
(* PostFeedinfo and MarkDelete.  Each Get and each Put is an action; there *)
(* is no lock.                                                             *)
(***************************************************************************)
EXTENDS Naturals, Sequences, SequencesExt

CONSTANTS
    Handlers,    \* the goroutines that serve calls
    Users,       \* the uuids of profiles, each with an id of its own
    Logins,      \* the OAuth accounts, a provider and a user id each
    TwitterLogins,
    Keys,        \* remote keys
    Twitter,     \* the id of the service that a twitter login adds
    OtherIds,    \* ids of the services that arrive with a feed info
    Arriving,    \* the service lists that arrive with a feed info
    None,        \* no value, no user, no remote key
    Refused,     \* no user may be put
    MaxCalls,    \* bound on the calls
    MaxCrashes   \* bound on the crashes

Service == [id : {Twitter} \union OtherIds, login : TwitterLogins \union {None}]

ASSUME ConstantsAssumption ==
    /\ TwitterLogins \subseteq Logins
    /\ Twitter \notin OtherIds
    /\ Arriving \subseteq Seq([id : {Twitter} \union OtherIds, login : {None}])
    /\ None \notin Users \union Keys \union TwitterLogins
    /\ Refused \notin Users \union {None}
    /\ None \notin [key : Keys \union {None}, deleted : BOOLEAN]
    /\ None \notin [user : Users \union {None}]
    /\ MaxCalls \in Nat /\ MaxCrashes \in Nat

VARIABLES
    mapped,   \* the users whose id is in the id map
    profile,  \* TableProfile: user -> remote key and mark of deletion
    info,     \* TableFeedinfo: user -> remote key, services, and whether it
              \*   has the user's uuid; a missing record reads as NoInfo
    oauth,    \* TableOAuth...: login -> [user], None if there is no record
    pc,       \* handler -> where it is
    req,      \* handler -> the call it serves
    owner,    \* handler -> the user whose profile and feed info it writes
    newProfile, newInfo,  \* handler -> what it is going to put
    base,     \* ghost: handler -> <<the value its next put was made from>> or <<>>
    raced,    \* ghost: the users and logins put over a value not read
    cut,      \* ghost: the users whose PostFeedinfo ended between its stores
    calls, crashes  \* counters for the bounds

tables  == <<mapped, profile, info, oauth>>
handler == <<pc, req, owner, newProfile, newInfo, base>>
ghosts  == <<raced, cut>>
bounds  == <<calls, crashes>>
vars    == <<tables, handler, ghosts, bounds>>

NoKey == None
Profile(key, deleted) == [key |-> key, deleted |-> deleted]
Info(key, services, named) == [key |-> key, services |-> services, named |-> named]

\* a key that holds nothing unmarshals to an empty message
NoInfo == Info(NoKey, <<>>, FALSE)

Posts  == [op : {"post"}, user : Users, key : Keys \union {NoKey}, services : Arriving]
Marks  == [op : {"mark"}, user : Users]
OAuths == [op : {"login"}, login : Logins, user : Users \union {None}]
Binds  == [op : {"bind"}, login : Logins, user : Users]
Drops  == [op : {"drop"}, user : Users, id : {Twitter} \union OtherIds]
Requests == Posts \union Marks \union OAuths \union Binds \union Drops

Init ==
    /\ mapped = {}
    /\ profile = [u \in Users |-> None]
    /\ info = [u \in Users |-> NoInfo]
    /\ oauth = [l \in Logins |-> None]
    /\ pc = [h \in Handlers |-> "idle"]
    /\ req = [h \in Handlers |-> None]
    /\ owner = [h \in Handlers |-> None]
    /\ newProfile = [h \in Handlers |-> None]
    /\ newInfo = [h \in Handlers |-> NoInfo]
    /\ base = [h \in Handlers |-> <<>>]
    /\ raced = {} /\ cut = {}
    /\ calls = 0 /\ crashes = 0

-----------------------------------------------------------------------------
(* DeleteService removes each service of an id from the list it ranges     *)
(* over.  The range keeps the length the list had at first, and reads from *)
(* the array that the removals shift; a removal past the end panics.       *)

\* mutant of Removed: the service after the one found is removed
RemovedAfter(list, len, i) ==
    [j \in DOMAIN list |-> IF i < j /\ j < len THEN list[j + 1] ELSE list[j]]

\* the array once the i-th of its first len elements was removed
Removed(list, len, i) ==
    [j \in DOMAIN list |-> IF i <= j /\ j < len THEN list[j + 1] ELSE list[j]]

DropLoop(services, id) ==
    FoldLeft(LAMBDA st, i :
                 IF ~st.ok \/ st.list[i].id # id THEN st
                 ELSE IF i > st.len THEN [st EXCEPT !.ok = FALSE]
                 ELSE [list |-> Removed(st.list, st.len, i), len |-> st.len - 1, ok |-> TRUE],
             [list |-> services, len |-> Len(services), ok |-> TRUE],
             [i \in DOMAIN services |-> i])

Panics(services, id) == ~DropLoop(services, id).ok
Dropped(services, id) ==
    LET end == DropLoop(services, id) IN SubSeq(end.list, 1, end.len)

-----------------------------------------------------------------------------
Goto(h, place) == pc' = [pc EXCEPT ![h] = place]

\* PostFeedinfo and MarkDelete lead to UpdateProfile, PutOAuth and BindUserFeed
\* to an OAuth record, DeleteService to the services
Call(h, r) ==
    /\ pc[h] = "idle"
    /\ calls < MaxCalls
    /\ calls' = calls + 1
    /\ req' = [req EXCEPT ![h] = r]
    /\ owner' = [owner EXCEPT ![h] = IF r \in OAuths THEN None ELSE r.user]
    /\ newProfile' = [newProfile EXCEPT ![h] =
                         IF r \in Posts THEN Profile(r.key, FALSE) ELSE None]
    /\ newInfo' = [newInfo EXCEPT ![h] =
                      IF r \in Posts THEN Info(r.key, r.services, TRUE) ELSE NoInfo]
    /\ base' = [base EXCEPT ![h] = <<>>]
    /\ Goto(h, CASE r \in Posts -> "map"
                 [] r \in Marks -> "find"
                 [] r \in OAuths \union Binds -> "oauth"
                 [] r \in Drops -> "services")
    /\ UNCHANGED <<tables, ghosts, crashes>>

\* MarkDelete: a missing profile is an empty one, which UpdateProfile refuses
FindProfile(h) ==
    /\ pc[h] = "find"
    /\ LET old == profile[owner[h]]
       IN  IF owner[h] \in mapped /\ old # None /\ ~old.deleted
           THEN /\ newProfile' = [newProfile EXCEPT ![h] = Profile(old.key, TRUE)]
                /\ base' = [base EXCEPT ![h] = <<old>>]
                /\ Goto(h, "map")
           ELSE Goto(h, "idle") /\ UNCHANGED <<newProfile, base>>
    /\ UNCHANGED <<tables, req, owner, newInfo, ghosts, bounds>>

(* UpdateProfile: the id map, then the profile; without a remote key of    *)
(* its own the profile takes over the one that is there.                   *)

PutMap(h) ==
    /\ pc[h] = "map"
    /\ mapped' = mapped \union {owner[h]}
    /\ Goto(h, IF newProfile[h].key = NoKey THEN "oldkey" ELSE "profile")
    /\ UNCHANGED <<profile, info, oauth, req, owner, newProfile, newInfo, base, ghosts, bounds>>

\* the value a put was made from is the one read first
Base(h, value) == base' = [base EXCEPT ![h] = IF @ = <<>> THEN <<value>> ELSE @]

ReadOldKey(h) ==
    /\ pc[h] = "oldkey"
    /\ LET old == profile[owner[h]]
           key == IF old = None THEN NoKey ELSE old.key
       IN  /\ newProfile' = [newProfile EXCEPT ![h] = Profile(key, newProfile[h].deleted)]
           /\ Base(h, old)
    /\ Goto(h, "profile")
    /\ UNCHANGED <<tables, req, owner, newInfo, ghosts, bounds>>

Race(h, what, value) ==
    raced' = IF base[h] \notin {<<>>, <<value>>} THEN raced \union {what} ELSE raced

\* mutant of SaveFeedinfo: the old remote key is not looked for
SaveFeedinfoBlind(h) == Goto(h, "info")

SaveFeedinfo(h) == Goto(h, IF newInfo'[h].key = NoKey THEN "oldinfo" ELSE "info")

\* mutant of PutProfile: the feed info is saved only with a remote key
PutProfileKeyed(h) ==
    /\ pc[h] = "profile"
    /\ profile' = [profile EXCEPT ![owner[h]] = newProfile[h]]
    /\ Race(h, owner[h], profile[owner[h]])
    /\ base' = [base EXCEPT ![h] = <<>>]
    /\ Goto(h, IF req[h] \in Posts /\ newProfile[h].key # NoKey THEN "info" ELSE "idle")
    /\ UNCHANGED <<mapped, info, oauth, req, owner, newProfile, newInfo, cut, bounds>>

PutProfile(h) ==
    /\ pc[h] = "profile"
    /\ profile' = [profile EXCEPT ![owner[h]] = newProfile[h]]
    /\ Race(h, owner[h], profile[owner[h]])
    /\ base' = [base EXCEPT ![h] = <<>>]
    /\ UNCHANGED newInfo
    /\ IF req[h] \in Posts THEN SaveFeedinfo(h) ELSE Goto(h, "idle")
    /\ UNCHANGED <<mapped, info, oauth, req, owner, newProfile, cut, bounds>>

(* SaveFeedinfo, in the same way.                                          *)

ReadOldInfo(h) ==
    /\ pc[h] = "oldinfo"
    /\ newInfo' = [newInfo EXCEPT ![h] =
                      Info(info[owner[h]].key, newInfo[h].services, newInfo[h].named)]
    /\ Base(h, info[owner[h]])
    /\ Goto(h, "info")
    /\ UNCHANGED <<tables, req, owner, newProfile, ghosts, bounds>>

PutInfo(h) ==
    /\ pc[h] = "info"
    /\ info' = [info EXCEPT ![owner[h]] = newInfo[h]]
    /\ Race(h, owner[h], info[owner[h]])
    /\ Goto(h, "idle")
    /\ UNCHANGED <<mapped, profile, oauth, req, owner, newProfile, newInfo, base, cut, bounds>>

(* PutOAuthUser and BindOAuthUser: a record that has a user keeps it.      *)

\* mutant of UserFor: the bound user is not compared
UserForAny(r, bound) == IF r.user = None THEN bound ELSE r.user

UserFor(r, bound) ==
    IF r.user = None THEN bound
    ELSE IF bound \in {None, r.user} THEN r.user
    ELSE Refused

ReadOAuth(h) ==
    /\ pc[h] = "oauth"
    /\ LET old   == oauth[req[h].login]
           bound == IF old = None THEN None ELSE old.user
           user  == UserFor(req[h], bound)
           binds == req[h] \in OAuths \/ (old # None /\ bound # req[h].user)
       IN  IF user # Refused /\ binds
           THEN /\ owner' = [owner EXCEPT ![h] = user]
                /\ base' = [base EXCEPT ![h] = <<old>>]
                /\ Goto(h, "putoauth")
           ELSE Goto(h, "idle") /\ UNCHANGED <<owner, base>>
    /\ UNCHANGED <<tables, req, newProfile, newInfo, ghosts, bounds>>

\* mutant of PutOAuth: services are built for a login that has no user
PutOAuthAnyUser(h) ==
    /\ pc[h] = "putoauth"
    /\ oauth' = [oauth EXCEPT ![req[h].login] = [user |-> owner[h]]]
    /\ Race(h, req[h].login, oauth[req[h].login])
    /\ base' = [base EXCEPT ![h] = <<>>]
    /\ Goto(h, IF req[h] \in OAuths THEN "profileof" ELSE "idle")
    /\ UNCHANGED <<mapped, profile, info, req, owner, newProfile, newInfo, cut, bounds>>

PutOAuth(h) ==
    /\ pc[h] = "putoauth"
    /\ oauth' = [oauth EXCEPT ![req[h].login] = [user |-> owner[h]]]
    /\ Race(h, req[h].login, oauth[req[h].login])
    /\ base' = [base EXCEPT ![h] = <<>>]
    /\ Goto(h, IF req[h] \in OAuths /\ owner[h] # None THEN "profileof" ELSE "idle")
    /\ UNCHANGED <<mapped, profile, info, req, owner, newProfile, newInfo, cut, bounds>>

\* a deleted profile is an error, a missing one is empty and has no feed info
ReadProfile(h) ==
    /\ pc[h] = "profileof"
    /\ LET old == profile[owner[h]]
       IN  Goto(h, IF old # None /\ ~old.deleted /\ req[h].login \in TwitterLogins
                   THEN "services" ELSE "idle")
    /\ UNCHANGED <<tables, req, owner, newProfile, newInfo, base, ghosts, bounds>>

(* A twitter login appends its service, DeleteService removes those of an  *)
(* id; a feed info without a uuid is not saved by the latter.              *)

AddService(h) ==
    /\ pc[h] = "services"
    /\ req[h] \in OAuths
    /\ LET old == info[owner[h]]
           new == Append(old.services, [id |-> Twitter, login |-> req[h].login])
       IN  newInfo' = [newInfo EXCEPT ![h] = Info(old.key, new, old.named)]
    /\ Base(h, info[owner[h]])
    /\ SaveFeedinfo(h)
    /\ UNCHANGED <<tables, req, owner, newProfile, ghosts, bounds>>

DropService(h) ==
    /\ pc[h] = "services"
    /\ req[h] \in Drops
    /\ LET old == info[owner[h]]
       IN  /\ ~Panics(old.services, req[h].id)
           /\ newInfo' = [newInfo EXCEPT ![h] =
                             Info(old.key, Dropped(old.services, req[h].id), old.named)]
           /\ Base(h, info[owner[h]])
           /\ IF old.named THEN SaveFeedinfo(h) ELSE Goto(h, "idle")
    /\ UNCHANGED <<tables, req, owner, newProfile, ghosts, bounds>>

(* The process ends, by a crash or by a panic, and is respawned.           *)
Respawn ==
    /\ pc' = [h \in Handlers |-> "idle"]
    /\ cut' = cut \union
          {owner[h] : h \in {g \in Handlers : req[g] \in Posts /\ pc[g] \in {"oldinfo", "info"}}}
    /\ UNCHANGED <<tables, req, owner, newProfile, newInfo, base, raced, calls>>

DropPanic(h) ==
    /\ pc[h] = "services"
    /\ req[h] \in Drops
    /\ Panics(info[owner[h]].services, req[h].id)
    /\ Respawn
    /\ UNCHANGED crashes

Crash == crashes < MaxCrashes /\ crashes' = crashes + 1 /\ Respawn

Next ==
    \/ \E h \in Handlers :
           \/ \E r \in Requests : Call(h, r)
           \/ FindProfile(h) \/ PutMap(h) \/ ReadOldKey(h) \/ PutProfile(h)
           \/ ReadOldInfo(h) \/ PutInfo(h)
           \/ ReadOAuth(h) \/ PutOAuth(h) \/ ReadProfile(h)
           \/ AddService(h) \/ DropService(h) \/ DropPanic(h)
    \/ Crash

Spec == Init /\ [][Next]_vars

-----------------------------------------------------------------------------
Places == {"idle", "find", "map", "oldkey", "profile", "oldinfo", "info",
           "oauth", "putoauth", "profileof", "services"}
Profiles == [key : Keys \union {NoKey}, deleted : BOOLEAN]
Infos    == [key : Keys \union {NoKey}, services : Seq(Service), named : BOOLEAN]
Records  == [user : Users \union {None}]

\* Every table holds what its messages can hold, and a handler on its way to a
\* put has an owner and a value for it.
TypeOK ==
    /\ mapped \subseteq Users
    /\ profile \in [Users -> Profiles \union {None}]
    /\ info \in [Users -> Infos]
    /\ oauth \in [Logins -> Records \union {None}]
    /\ pc \in [Handlers -> Places]
    /\ req \in [Handlers -> Requests \union {None}]
    /\ owner \in [Handlers -> Users \union {None}]
    /\ newProfile \in [Handlers -> Profiles \union {None}]
    /\ newInfo \in [Handlers -> Infos]
    /\ raced \subseteq Users \union Logins
    /\ cut \subseteq Users
    /\ calls \in Nat /\ crashes \in Nat
    /\ \A h \in Handlers :
        /\ pc[h] # "idle" => req[h] \in Requests
        /\ pc[h] \in {"map", "oldkey", "profile"} => newProfile[h] # None
        /\ pc[h] \in {"oldinfo", "info"} => newInfo[h] # NoInfo
        /\ pc[h] \notin {"idle", "oauth", "putoauth"} => owner[h] # None

HasKey(value) == value # None /\ value.key # NoKey

\* A remote key, once recorded in a profile or a feed info, is never dropped:
\* an update without one takes it over (storage/table.go:118-131, 244-254),
\* unless the update had read the value before the key came.
KeyKept ==
    [][\A u \in Users \ raced' :
          /\ HasKey(profile[u]) => HasKey(profile'[u])
          /\ info[u].key # NoKey => info'[u].key # NoKey]_vars

\* An OAuth record that has a user keeps it ("user mismatch", "can not bind to
\* another user"), unless two calls bind it at once.
BoundForGood ==
    [][\A l \in Logins \ raced' :
          oauth[l] # None /\ oauth[l].user # None => oauth'[l] = oauth[l]]_vars

\* A twitter service feeds only the user its OAuth record is bound to, though
\* the record and the service are put to two tables by steps far apart.
ServiceOfItsUser ==
    \A u \in Users : \A i \in DOMAIN info[u].services :
        LET login == info[u].services[i].login
        IN  login # None /\ login \notin raced => oauth[login] = [user |-> u]

Busy(u) == \E h \in Handlers : pc[h] # "idle" /\ owner[h] = u

\* When nobody works on a user, a profile is found by its id and has a feed info
\* that can be saved, with a remote key exactly when the profile has one, unless
\* a PostFeedinfo was cut short or a write was lost.
AccountComplete ==
    \A u \in Users \ (raced \union cut) :
        profile[u] # None /\ ~Busy(u) =>
            /\ u \in mapped
            /\ info[u].named
            /\ HasKey(profile[u]) <=> info[u].key # NoKey

Twice(services) ==
    \E i, j \in DOMAIN services : i # j /\ services[i].id = services[j].id
Others(services, id) ==
    FoldLeft(LAMBDA kept, s : IF s.id = id THEN kept ELSE Append(kept, s), <<>>, services)

Dropping(h) == pc[h] = "services" /\ req[h] \in Drops
Deletes(services, id) == ~Panics(services, id) /\ Dropped(services, id) = Others(services, id)

\* Where no service is there twice, DeleteService removes the one of its id and
\* leaves the others in their order, though it shrinks the list it ranges over.
DropsOneOfItsKind ==
    \A h \in Handlers : Dropping(h) =>
        LET services == info[owner[h]].services
        IN  Twice(services) \/ Deletes(services, req[h].id)

\* "DELETE(all of {{service.Id}} type)": DeleteService returns, and no service
\* of its id is left.
DropsAllOfItsKind ==
    \A h \in Handlers : Dropping(h) =>
        Deletes(info[owner[h]].services, req[h].id)
=============================================================================
