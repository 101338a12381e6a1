--------------------------- MODULE AccountsProofs ---------------------------
(***************************************************************************)
(* What Accounts promises, for all constants: its types; bindings and      *)
(* remote keys survive every step that does not put over a value its       *)
(* handler had not read; a twitter service feeds its user; an account is   *)
(* complete; DeleteService deletes a service that is there once.           *)
(***************************************************************************)
EXTENDS Accounts, SequenceFacts, TLAPS

-----------------------------------------------------------------------------
(* What the two properties need of the types: the services are left out.   *)
TablesOK ==
    /\ profile \in [Users -> Profiles \union {None}]
    /\ info = [u \in Users |-> info[u]]
    /\ oauth \in [Logins -> Records \union {None}]

HandlersOK ==
    /\ pc \in [Handlers -> Places]
    /\ req = [h \in Handlers |-> req[h]]
    /\ owner \in [Handlers -> Users \union {None}]
    /\ newProfile \in [Handlers -> Profiles \union {None}]
    /\ newInfo = [h \in Handlers |-> newInfo[h]]
    /\ base = [h \in Handlers |-> base[h]]

\* Something was read into b.
WasRead(b) == b # <<>> /\ b = <<b[1]>>

\* A profile that is put without a remote key was made from one without.
ProfileOK(h) ==
    /\ pc[h] = "find" => owner[h] \in Users /\ base[h] = <<>>
    /\ pc[h] \in {"map", "oldkey", "profile"} =>
           newProfile[h] \in Profiles /\ owner[h] \in Users
    /\ pc[h] = "oldkey" => newProfile[h].key = NoKey
    /\ pc[h] \in {"map", "oldkey"} /\ newProfile[h].key = NoKey =>
           base[h] = <<>> \/ (WasRead(base[h]) /\ ~HasKey(base[h][1]))
    /\ pc[h] = "profile" /\ newProfile[h].key = NoKey =>
           WasRead(base[h]) /\ ~HasKey(base[h][1])

\* So was a feed info.
InfoOK(h) ==
    /\ pc[h] \in {"profileof", "services"} => base[h] = <<>>
    /\ pc[h] = "oldinfo" =>
           base[h] = <<>> \/ (WasRead(base[h]) /\ base[h][1].key = NoKey)
    /\ pc[h] = "info" /\ newInfo[h].key = NoKey =>
           WasRead(base[h]) /\ base[h][1].key = NoKey

\* An OAuth record is put for the user it was read with.
OAuthOK(h) ==
    /\ pc[h] \in {"oauth", "putoauth"} => req[h] \in OAuths \union Binds
    /\ pc[h] = "putoauth" =>
           /\ WasRead(base[h])
           /\ base[h][1] # None /\ base[h][1].user # None => owner[h] = base[h][1].user

HandlerInv(h) == ProfileOK(h) /\ InfoOK(h) /\ OAuthOK(h)

IInv == TablesOK /\ HandlersOK /\ \A h \in Handlers : HandlerInv(h)

-----------------------------------------------------------------------------
\* The value that Base notes was read.
LEMMA NotedBase ==
    ASSUME NEW h \in Handlers, NEW v, HandlersOK, Base(h, v)
    PROVE  /\ base' = [g \in Handlers |-> base'[g]]
           /\ base[h] = <<>> => base'[h] = <<v>>
           /\ base[h] # <<>> => base'[h] = base[h]
           /\ \A g \in Handlers \ {h} : base'[g] = base[g]
  BY DEF HandlersOK, Base

LEMMA OneRead ==
    ASSUME NEW v
    PROVE  WasRead(<<v>>) /\ <<v>>[1] = v
  BY DEF WasRead

\* A handler whose own variables a step leaves alone keeps its invariant.
LEMMA OthersKeep ==
    ASSUME NEW g \in Handlers, HandlerInv(g),
           pc'[g] = pc[g], req'[g] = req[g], owner'[g] = owner[g],
           newProfile'[g] = newProfile[g], newInfo'[g] = newInfo[g], base'[g] = base[g]
    PROVE  HandlerInv(g)'
  BY DEF HandlerInv, ProfileOK, InfoOK, OAuthOK

LEMMA InitIInv == Init => IInv
  BY ConstantsAssumption
  DEF Init, IInv, TablesOK, HandlersOK, HandlerInv, ProfileOK, InfoOK, OAuthOK, Places,
      NoInfo, NoKey, Info

\* What a call brings.
LEMMA RequestTypes ==
    ASSUME NEW r \in Requests
    PROVE  /\ r \in Posts \union Marks \union OAuths \union Binds \union Drops
           /\ r \in Posts => Profile(r.key, FALSE) \in Profiles
           /\ r \notin OAuths => r.user \in Users
           /\ r \in Posts \/ r \in Marks \/ r \in Drops => r \notin OAuths \union Binds
           /\ r \in Marks => r \notin Posts
  BY DEF Requests, Posts, Marks, OAuths, Binds, Drops, Profile, Profiles, NoKey

LEMMA CallKeeps ==
    ASSUME IInv, NEW h \in Handlers, NEW r \in Requests, Call(h, r)
    PROVE  IInv'
<1>1. TablesOK'
  BY DEF Call, tables, IInv, TablesOK
<1>2. HandlersOK'
  BY RequestTypes DEF Call, IInv, HandlersOK, Goto, Places
<1>3. HandlerInv(h)'
  BY RequestTypes DEF Call, IInv, HandlersOK, Goto, HandlerInv, ProfileOK, InfoOK, OAuthOK
<1>4. \A g \in Handlers \ {h} : HandlerInv(g)'
  BY OthersKeep DEF Call, IInv, HandlersOK, Goto
<1> QED BY <1>1, <1>2, <1>3, <1>4 DEF IInv

LEMMA ProfileStepsKeep ==
    ASSUME IInv, NEW h \in Handlers,
           FindProfile(h) \/ PutMap(h) \/ ReadOldKey(h) \/ PutProfile(h)
    PROVE  IInv'
<1>1. CASE FindProfile(h)
  <2>1. TablesOK'
    BY <1>1 DEF FindProfile, tables, IInv, TablesOK
  <2>2. profile[owner[h]] # None => profile[owner[h]] \in Profiles
    BY <1>1 DEF FindProfile, IInv, TablesOK, HandlerInv, ProfileOK
  <2> DEFINE old == profile[owner[h]]
             marked == Profile(old.key, TRUE)
  <2>3. \/ /\ old \in Profiles
           /\ newProfile' = [newProfile EXCEPT ![h] = marked]
           /\ base' = [base EXCEPT ![h] = <<old>>]
           /\ pc' = [pc EXCEPT ![h] = "map"]
        \/ pc' = [pc EXCEPT ![h] = "idle"] /\ UNCHANGED <<newProfile, base>>
    BY <1>1, <2>2 DEF FindProfile, Goto
  <2>4. old \in Profiles =>
            /\ marked \in Profiles /\ marked.key = old.key
            /\ old.key = NoKey => ~HasKey(old)
    BY DEF Profiles, Profile, HasKey
  <2>5. HandlersOK'
    <3>1. UNCHANGED <<req, owner, newInfo>>
      BY <1>1 DEF FindProfile
    <3> HIDE DEF old, marked
    <3> QED BY <2>3, <2>4, <3>1 DEF IInv, HandlersOK, Places
  <2>6. WasRead(<<old>>) /\ <<old>>[1] = old
    BY OneRead
  <2>7. HandlerInv(h)'
    <3>1. owner'[h] = owner[h] /\ owner[h] \in Users
      BY <1>1 DEF FindProfile, IInv, HandlerInv, ProfileOK
    <3> HIDE DEF old, marked
    <3> QED
      BY <2>3, <2>4, <2>6, <3>1
      DEF IInv, HandlersOK, HandlerInv, ProfileOK, InfoOK, OAuthOK
  <2>8. \A g \in Handlers \ {h} : HandlerInv(g)'
    BY <1>1, OthersKeep DEF FindProfile, IInv, HandlersOK, Goto
  <2> QED BY <2>1, <2>5, <2>7, <2>8 DEF IInv
<1>2. CASE PutMap(h)
  <2>1. TablesOK' /\ HandlersOK'
    BY <1>2 DEF PutMap, IInv, TablesOK, HandlersOK, Goto, Places
  <2>2. HandlerInv(h)'
    BY <1>2 DEF PutMap, IInv, HandlersOK, Goto, HandlerInv, ProfileOK, InfoOK, OAuthOK
  <2>3. \A g \in Handlers \ {h} : HandlerInv(g)'
    BY <1>2, OthersKeep DEF PutMap, IInv, HandlersOK, Goto
  <2> QED BY <2>1, <2>2, <2>3 DEF IInv
<1>3. CASE ReadOldKey(h)
  <2> DEFINE old == profile[owner[h]]
  <2>1. /\ old \in Profiles \union {None}
        /\ newProfile[h] \in Profiles
        /\ newProfile'[h] \in Profiles
        /\ newProfile'[h].key = NoKey => ~HasKey(old)
    BY <1>3, ConstantsAssumption
    DEF ReadOldKey, IInv, TablesOK, HandlersOK, HandlerInv, ProfileOK, Profiles, Profile,
        HasKey, NoKey
  <2>2. Base(h, old)
    BY <1>3 DEF ReadOldKey
  <2>3. TablesOK'
    BY <1>3 DEF ReadOldKey, tables, IInv, TablesOK
  <2>4. HandlersOK'
    BY <1>3, <2>1, <2>2, NotedBase DEF ReadOldKey, IInv, HandlersOK, Goto, Places
  <2>5. newProfile'[h].key = NoKey => WasRead(base'[h]) /\ ~HasKey(base'[h][1])
    <3>1. /\ newProfile[h].key = NoKey
          /\ base[h] = <<>> \/ (WasRead(base[h]) /\ ~HasKey(base[h][1]))
      BY <1>3 DEF ReadOldKey, IInv, HandlerInv, ProfileOK
    <3>2. base'[h] = <<old>> \/ (base[h] # <<>> /\ base'[h] = base[h])
      BY <2>2, NotedBase DEF IInv
    <3>3. WasRead(<<old>>) /\ <<old>>[1] = old
      BY OneRead
    <3> HIDE DEF old
    <3> QED BY <2>1, <3>1, <3>2, <3>3
  <2>6. HandlerInv(h)'
    BY <1>3, <2>1, <2>5
    DEF ReadOldKey, IInv, HandlersOK, Goto, HandlerInv, ProfileOK, InfoOK, OAuthOK
  <2>7. \A g \in Handlers \ {h} : HandlerInv(g)'
    BY <1>3, <2>2, NotedBase, OthersKeep DEF ReadOldKey, IInv, HandlersOK, Goto
  <2> QED BY <2>3, <2>4, <2>6, <2>7 DEF IInv
<1>4. CASE PutProfile(h)
  <2>1. TablesOK'
    BY <1>4 DEF PutProfile, IInv, TablesOK, HandlerInv, ProfileOK
  <2>2. HandlersOK'
    BY <1>4 DEF PutProfile, SaveFeedinfo, IInv, HandlersOK, Goto, Places
  <2>3. HandlerInv(h)'
    BY <1>4
    DEF PutProfile, SaveFeedinfo, IInv, HandlersOK, Goto, HandlerInv, ProfileOK, InfoOK, OAuthOK
  <2>4. \A g \in Handlers \ {h} : HandlerInv(g)'
    BY <1>4, OthersKeep DEF PutProfile, SaveFeedinfo, IInv, HandlersOK, Goto
  <2> QED BY <2>1, <2>2, <2>3, <2>4 DEF IInv
<1> QED BY <1>1, <1>2, <1>3, <1>4

LEMMA InfoStepsKeep ==
    ASSUME IInv, NEW h \in Handlers,
           ReadOldInfo(h) \/ PutInfo(h) \/ AddService(h) \/ DropService(h)
    PROVE  IInv'
<1>1. CASE ReadOldInfo(h)
  <2>1. newInfo'[h].key = info[owner[h]].key /\ Base(h, info[owner[h]])
    BY <1>1 DEF ReadOldInfo, IInv, HandlersOK, Info
  <2>2. TablesOK'
    BY <1>1 DEF ReadOldInfo, tables, IInv, TablesOK
  <2>3. HandlersOK'
    BY <1>1, <2>1, NotedBase DEF ReadOldInfo, IInv, HandlersOK, Goto, Places
  <2>4. newInfo'[h].key = NoKey => WasRead(base'[h]) /\ base'[h][1].key = NoKey
    <3> DEFINE old == info[owner[h]]
    <3>1. base[h] = <<>> \/ (WasRead(base[h]) /\ base[h][1].key = NoKey)
      BY <1>1 DEF ReadOldInfo, IInv, HandlerInv, InfoOK
    <3>2. base'[h] = <<old>> \/ (base[h] # <<>> /\ base'[h] = base[h])
      BY <2>1, NotedBase DEF IInv
    <3>3. WasRead(<<old>>) /\ <<old>>[1] = old
      BY OneRead
    <3>4. newInfo'[h].key = old.key
      BY <2>1
    <3> HIDE DEF old
    <3> QED BY <3>1, <3>2, <3>3, <3>4
  <2>5. HandlerInv(h)'
    BY <1>1, <2>4
    DEF ReadOldInfo, IInv, HandlersOK, Goto, HandlerInv, ProfileOK, InfoOK, OAuthOK
  <2>6. \A g \in Handlers \ {h} : HandlerInv(g)'
    BY <1>1, <2>1, NotedBase, OthersKeep DEF ReadOldInfo, IInv, HandlersOK, Goto
  <2> QED BY <2>2, <2>3, <2>5, <2>6 DEF IInv
<1>2. CASE PutInfo(h)
  <2>1. TablesOK' /\ HandlersOK'
    BY <1>2 DEF PutInfo, IInv, TablesOK, HandlersOK, Goto, Places
  <2>2. HandlerInv(h)'
    BY <1>2 DEF PutInfo, IInv, HandlersOK, Goto, HandlerInv, ProfileOK, InfoOK, OAuthOK
  <2>3. \A g \in Handlers \ {h} : HandlerInv(g)'
    BY <1>2, OthersKeep DEF PutInfo, IInv, HandlersOK, Goto
  <2> QED BY <2>1, <2>2, <2>3 DEF IInv
<1>3. CASE AddService(h) \/ DropService(h)
  <2>1. /\ base[h] = <<>>
        /\ Base(h, info[owner[h]])
        /\ newInfo'[h].key = info[owner[h]].key
        /\ newInfo' = [g \in Handlers |-> newInfo'[g]]
        /\ \A g \in Handlers \ {h} : newInfo'[g] = newInfo[g]
    BY <1>3 DEF AddService, DropService, IInv, HandlersOK, HandlerInv, InfoOK, Info
  <2>2. /\ WasRead(base'[h])
        /\ base'[h][1] = info[owner[h]]
    <3>1. base'[h] = <<info[owner[h]]>>
      BY <2>1, NotedBase DEF IInv
    <3>2. WasRead(<<info[owner[h]]>>) /\ <<info[owner[h]]>>[1] = info[owner[h]]
      BY OneRead
    <3> QED BY <3>1, <3>2
  <2>3. pc'[h] \in {"idle", "oldinfo", "info"}
        /\ (pc'[h] = "oldinfo" => newInfo'[h].key = NoKey)
    BY <1>3 DEF AddService, DropService, SaveFeedinfo, IInv, HandlersOK, Goto
  <2>4. /\ pc' \in [Handlers -> Places]
        /\ \A g \in Handlers \ {h} : pc'[g] = pc[g]
    BY <1>3 DEF AddService, DropService, SaveFeedinfo, IInv, HandlersOK, Goto, Places
  <2>5. UNCHANGED <<tables, req, owner, newProfile>>
    BY <1>3 DEF AddService, DropService
  <2>6. TablesOK' /\ HandlersOK'
    BY <2>1, <2>4, <2>5, NotedBase DEF tables, IInv, TablesOK, HandlersOK
  <2>7. HandlerInv(h)'
    BY <2>1, <2>2, <2>3 DEF HandlerInv, ProfileOK, InfoOK, OAuthOK
  <2>8. \A g \in Handlers \ {h} : HandlerInv(g)'
    BY <2>1, <2>4, <2>5, NotedBase, OthersKeep DEF IInv
  <2> QED BY <2>6, <2>7, <2>8 DEF IInv
<1> QED BY <1>1, <1>2, <1>3

\* A record that has a user keeps it through UserFor.
LEMMA KeptUser ==
    ASSUME NEW r \in OAuths \union Binds, NEW bound \in Users \union {None},
           UserFor(r, bound) # Refused
    PROVE  /\ UserFor(r, bound) \in Users \union {None}
           /\ bound # None => UserFor(r, bound) = bound
  BY DEF UserFor, OAuths, Binds

LEMMA OAuthStepsKeep ==
    ASSUME IInv, NEW h \in Handlers, ReadOAuth(h) \/ PutOAuth(h) \/ ReadProfile(h)
    PROVE  IInv'
<1>1. CASE ReadOAuth(h)
  <2> DEFINE old   == oauth[req[h].login]
             bound == IF old = None THEN None ELSE old.user
             user  == UserFor(req[h], bound)
  <2>1. UNCHANGED <<tables, req, newProfile, newInfo>>
    BY <1>1 DEF ReadOAuth
  <2>2. \/ /\ user # Refused
           /\ owner' = [owner EXCEPT ![h] = user]
           /\ base' = [base EXCEPT ![h] = <<old>>]
           /\ pc' = [pc EXCEPT ![h] = "putoauth"]
        \/ pc' = [pc EXCEPT ![h] = "idle"] /\ UNCHANGED <<owner, base>>
    BY <1>1 DEF ReadOAuth, Goto
  <2>3. req[h] \in OAuths \union Binds
    BY <1>1 DEF ReadOAuth, IInv, HandlerInv, OAuthOK
  <2>4. old \in Records \union {None}
    BY <2>3 DEF IInv, TablesOK, OAuths, Binds
  <2>5. bound \in Users \union {None}
    BY <2>4 DEF Records
  <2>6. user # Refused =>
            /\ user \in Users \union {None}
            /\ bound # None => user = bound
    BY <2>3, <2>5, KeptUser
  <2>7. WasRead(<<old>>) /\ <<old>>[1] = old
    BY OneRead
  <2>8. old # None /\ old.user # None => bound # None /\ bound = old.user
    OBVIOUS
  <2> HIDE DEF old, bound, user
  <2>9. TablesOK' /\ HandlersOK'
    BY <2>1, <2>2, <2>6 DEF tables, IInv, TablesOK, HandlersOK, Places
  <2>10. HandlerInv(h)'
    BY <2>1, <2>2, <2>3, <2>6, <2>7, <2>8
    DEF IInv, HandlersOK, HandlerInv, ProfileOK, InfoOK, OAuthOK
  <2>11. \A g \in Handlers \ {h} : HandlerInv(g)'
    BY <2>1, <2>2, OthersKeep DEF IInv, HandlersOK
  <2> QED BY <2>9, <2>10, <2>11 DEF IInv
<1>2. CASE PutOAuth(h)
  <2>1. TablesOK'
    BY <1>2 DEF PutOAuth, IInv, TablesOK, HandlersOK, Records
  <2>2. HandlersOK'
    BY <1>2 DEF PutOAuth, IInv, HandlersOK, Goto, Places
  <2>3. HandlerInv(h)'
    BY <1>2 DEF PutOAuth, IInv, HandlersOK, Goto, HandlerInv, ProfileOK, InfoOK, OAuthOK
  <2>4. \A g \in Handlers \ {h} : HandlerInv(g)'
    BY <1>2, OthersKeep DEF PutOAuth, IInv, HandlersOK, Goto
  <2> QED BY <2>1, <2>2, <2>3, <2>4 DEF IInv
<1>3. CASE ReadProfile(h)
  <2>1. UNCHANGED <<tables, req, owner, newProfile, newInfo, base>>
    BY <1>3 DEF ReadProfile
  <2>2. /\ pc[h] = "profileof"
        /\ \/ pc' = [pc EXCEPT ![h] = "services"]
           \/ pc' = [pc EXCEPT ![h] = "idle"]
    BY <1>3 DEF ReadProfile, Goto
  <2>3. TablesOK' /\ HandlersOK'
    BY <2>1, <2>2 DEF tables, IInv, TablesOK, HandlersOK, Places
  <2>4. HandlerInv(h)'
    BY <2>1, <2>2 DEF IInv, HandlersOK, HandlerInv, ProfileOK, InfoOK, OAuthOK
  <2>5. \A g \in Handlers \ {h} : HandlerInv(g)'
    BY <2>1, <2>2, OthersKeep DEF IInv, HandlersOK
  <2> QED BY <2>3, <2>4, <2>5 DEF IInv
<1> QED BY <1>1, <1>2, <1>3

LEMMA RespawnKeeps ==
    ASSUME IInv, Respawn
    PROVE  IInv'
<1>1. TablesOK' /\ HandlersOK'
  BY DEF Respawn, tables, IInv, TablesOK, HandlersOK, Places
<1>2. \A h \in Handlers : HandlerInv(h)'
  BY DEF Respawn, HandlerInv, ProfileOK, InfoOK, OAuthOK
<1> QED BY <1>1, <1>2 DEF IInv

LEMMA NextIInv == IInv /\ [Next]_vars => IInv'
<1> SUFFICES ASSUME IInv, [Next]_vars PROVE IInv'
  OBVIOUS
<1>1. ASSUME NEW h \in Handlers, NEW r \in Requests, Call(h, r) PROVE IInv'
  BY <1>1, CallKeeps
<1>2. ASSUME NEW h \in Handlers,
             FindProfile(h) \/ PutMap(h) \/ ReadOldKey(h) \/ PutProfile(h)
      PROVE  IInv'
  BY <1>2, ProfileStepsKeep
<1>3. ASSUME NEW h \in Handlers,
             ReadOldInfo(h) \/ PutInfo(h) \/ AddService(h) \/ DropService(h)
      PROVE  IInv'
  BY <1>3, InfoStepsKeep
<1>4. ASSUME NEW h \in Handlers, ReadOAuth(h) \/ PutOAuth(h) \/ ReadProfile(h)
      PROVE  IInv'
  BY <1>4, OAuthStepsKeep
<1>5. ASSUME NEW h \in Handlers, DropPanic(h) PROVE IInv'
  BY <1>5, RespawnKeeps DEF DropPanic
<1>6. CASE Crash
  BY <1>6, RespawnKeeps DEF Crash
<1>7. CASE UNCHANGED vars
  BY <1>7 DEF vars, tables, handler, IInv, TablesOK, HandlersOK, HandlerInv, ProfileOK,
       InfoOK, OAuthOK
<1> QED BY <1>1, <1>2, <1>3, <1>4, <1>5, <1>6, <1>7 DEF Next

-----------------------------------------------------------------------------
\* Only PutOAuth writes an OAuth record, only PutProfile a profile, and only
\* PutInfo a feed info.
LEMMA OneWriter ==
    ASSUME [Next]_vars
    PROVE  /\ oauth' = oauth \/ \E h \in Handlers : PutOAuth(h)
           /\ profile' = profile \/ \E h \in Handlers : PutProfile(h)
           /\ info' = info \/ \E h \in Handlers : PutInfo(h)
  BY DEF Next, vars, tables, Call, FindProfile, PutMap, ReadOldKey, PutProfile, ReadOldInfo,
     PutInfo, ReadOAuth, PutOAuth, ReadProfile, AddService, DropService, DropPanic, Crash, Respawn

\* A put that is not named as a race overwrites the value its handler had read.
LEMMA NoRace ==
    ASSUME NEW h \in Handlers, NEW what, NEW value, Race(h, what, value),
           what \notin raced', WasRead(base[h])
    PROVE  base[h][1] = value
<1>1. base[h] = <<value>>
  BY DEF Race, WasRead
<1> QED BY <1>1, OneRead

\* A bound record stays as it is.
LEMMA BindingStep ==
    ASSUME IInv, [Next]_vars, NEW l \in Logins \ raced', oauth[l] # None, oauth[l].user # None
    PROVE  oauth'[l] = oauth[l]
<1> SUFFICES ASSUME NEW h \in Handlers, PutOAuth(h), l = req[h].login
             PROVE  oauth'[l] = oauth[l]
  BY OneWriter DEF PutOAuth, IInv, TablesOK
<1>1. base[h][1] = oauth[l]
  BY NoRace DEF PutOAuth, IInv, HandlerInv, OAuthOK
<1>2. owner[h] = oauth[l].user
  BY <1>1 DEF PutOAuth, IInv, HandlerInv, OAuthOK
<1>3. oauth'[l] = [user |-> owner[h]]
  BY DEF PutOAuth, IInv, TablesOK
<1>4. oauth[l] \in Records
  BY DEF IInv, TablesOK
<1> QED BY <1>2, <1>3, <1>4 DEF Records

\* An OAuth record that has a user keeps it, unless two calls bind it at once
\* (storage/table.go:340-351, 385-400).
THEOREM BindingTheorem == Spec => BoundForGood
<1>1. IInv /\ [Next]_vars =>
          \A l \in Logins \ raced' :
              oauth[l] # None /\ oauth[l].user # None => oauth'[l] = oauth[l]
  BY BindingStep
<1> QED BY <1>1, InitIInv, NextIInv, PTL DEF Spec, BoundForGood

\* A remote key stays in a profile and in a feed info.
LEMMA ProfileKeyStep ==
    ASSUME IInv, [Next]_vars, NEW u \in Users \ raced', HasKey(profile[u])
    PROVE  HasKey(profile'[u])
<1> SUFFICES ASSUME NEW h \in Handlers, PutProfile(h), u = owner[h]
             PROVE  HasKey(profile'[u])
  BY OneWriter DEF PutProfile, IInv, TablesOK
<1>1. profile'[u] = newProfile[h] /\ newProfile[h] \in Profiles
  BY DEF PutProfile, IInv, TablesOK, HandlerInv, ProfileOK
<1>2. newProfile[h].key # NoKey
  <2> SUFFICES ASSUME newProfile[h].key = NoKey PROVE FALSE
    OBVIOUS
  <2>1. WasRead(base[h]) /\ ~HasKey(base[h][1])
    BY DEF PutProfile, IInv, HandlerInv, ProfileOK
  <2>2. base[h][1] = profile[u]
    BY <2>1, NoRace DEF PutProfile
  <2> QED BY <2>1, <2>2
<1> QED BY <1>1, <1>2, ConstantsAssumption DEF HasKey, Profiles, NoKey

LEMMA InfoKeyStep ==
    ASSUME IInv, [Next]_vars, NEW u \in Users \ raced', info[u].key # NoKey
    PROVE  info'[u].key # NoKey
<1> SUFFICES ASSUME NEW h \in Handlers, PutInfo(h), u = owner[h], newInfo[h].key = NoKey
             PROVE  FALSE
  BY OneWriter DEF PutInfo, IInv, TablesOK
<1>1. WasRead(base[h]) /\ base[h][1].key = NoKey
  BY DEF PutInfo, IInv, HandlerInv, InfoOK
<1>2. base[h][1] = info[u]
  BY <1>1, NoRace DEF PutInfo
<1> QED BY <1>1, <1>2

\* A remote key in a profile or a feed info is never dropped, unless a handler
\* puts over a value it had not read (storage/table.go:118-131, 244-254).
THEOREM KeyTheorem == Spec => KeyKept
<1>1. IInv /\ [Next]_vars =>
          \A u \in Users \ raced' :
              /\ HasKey(profile[u]) => HasKey(profile'[u])
              /\ info[u].key # NoKey => info'[u].key # NoKey
  BY ProfileKeyStep, InfoKeyStep
<1> QED BY <1>1, InitIInv, NextIInv, PTL DEF Spec, KeyKept

-----------------------------------------------------------------------------
(* DeleteService's loop, a fold over the positions of the list.            *)

Start(services) == [list |-> services, len |-> Len(services), ok |-> TRUE]

\* what the loop does at position i
Step(id, st, i) ==
    IF ~st.ok \/ st.list[i].id # id THEN st
    ELSE IF i > st.len THEN [st EXCEPT !.ok = FALSE]
    ELSE [list |-> Removed(st.list, st.len, i), len |-> st.len - 1, ok |-> TRUE]

\* where it can be: the array holds services of the list it began with
LoopStates(services) ==
    [list : [1 .. Len(services) -> Range(services)], len : 0 .. Len(services), ok : BOOLEAN]

Loop(services, id) ==
    [p \in LoopStates(services) \X (1 .. Len(services)) |-> Step(id, p[1], p[2])]

LEMMA StepStays ==
    ASSUME NEW services \in Seq(Service), NEW id,
           NEW st \in LoopStates(services), NEW i \in 1 .. Len(services)
    PROVE  Step(id, st, i) \in LoopStates(services)
<1> DEFINE n == Len(services)
<1>1. n \in Nat
  OBVIOUS
<1>2. /\ st.list \in [1 .. n -> Range(services)] /\ st.len \in 0 .. n /\ st.ok \in BOOLEAN
      /\ st = [list |-> st.list, len |-> st.len, ok |-> st.ok]
  BY DEF LoopStates
<1>3. CASE Step(id, st, i) = st
  BY <1>3
<1>4. CASE Step(id, st, i) = [st EXCEPT !.ok = FALSE]
  BY <1>2, <1>4 DEF LoopStates
<1>5. CASE /\ i <= st.len
           /\ Step(id, st, i) = [list |-> Removed(st.list, st.len, i), len |-> st.len - 1, ok |-> TRUE]
  <2> DEFINE list == Removed(st.list, st.len, i)
             len == st.len - 1
  <2>1. list = [j \in 1 .. n |-> IF i <= j /\ j < st.len THEN st.list[j + 1] ELSE st.list[j]]
    BY <1>2 DEF Removed
  <2>2. ASSUME NEW j \in 1 .. n
        PROVE  (IF i <= j /\ j < st.len THEN st.list[j + 1] ELSE st.list[j]) \in Range(services)
    BY <1>1, <1>2
  <2>3. list \in [1 .. n -> Range(services)]
    BY <2>1, <2>2
  <2>4. len \in 0 .. n
    BY <1>1, <1>2, <1>5
  <2> HIDE DEF list, len
  <2>5. [list |-> list, len |-> len, ok |-> TRUE] \in LoopStates(services)
    BY <2>3, <2>4 DEF LoopStates
  <2> QED BY <1>5, <2>5 DEF list, len
<1> QED BY <1>1, <1>2, <1>3, <1>4, <1>5 DEF Step

\* the recursive function by which the fold is defined
DropIter(services, id) == CHOOSE g :
    g = [s \in SUBSET DOMAIN [i \in DOMAIN services |-> i] |->
            IF s = {} THEN Start(services)
            ELSE Step(id, g[s \ {Max(s)}], [i \in DOMAIN services |-> i][Max(s)])]

LEMMA DropUnfolds ==
    ASSUME NEW services, NEW id
    PROVE  DropLoop(services, id)
               = DropIter(services, id)[DOMAIN [i \in DOMAIN services |-> i]]
  BY Zenon DEF DropLoop, FoldLeft, MapThenFoldSet, DropIter, Start, Step

\* f is what the loop goes through
LoopRun(f, services, id) ==
    /\ IsRun(f, Loop(services, id), Start(services), Len(services), LoopStates(services))
    /\ DropLoop(services, id) = f[Len(services)]

LEMMA DropRuns ==
    ASSUME NEW services \in Seq(Service), NEW id
    PROVE  \E f : LoopRun(f, services, id)
<1> DEFINE n == Len(services)
           S == LoopStates(services)
           b == Start(services)
           F == Loop(services, id)
           at == [i \in DOMAIN services |-> i]
           Eq(g) == g = [s \in SUBSET DOMAIN at |->
                            IF s = {} THEN b ELSE Step(id, g[s \ {Max(s)}], at[Max(s)])]
           d == DropIter(services, id)
<1>1. n \in Nat /\ DOMAIN services = 1 .. n /\ DOMAIN at = 1 .. n
  OBVIOUS
<1>2. b \in S
  <2>1. services \in [1 .. n -> Range(services)]
    BY <1>1 DEF Range
  <2> QED BY <1>1, <2>1 DEF Start, LoopStates
<1>3. \A st \in S : \A i \in 1 .. n : Step(id, st, i) \in S /\ F[<<st, i>>] = Step(id, st, i)
  <2>1. ASSUME NEW st \in S, NEW i \in 1 .. n
        PROVE  Step(id, st, i) \in S /\ F[<<st, i>>] = Step(id, st, i)
    <3>1. Step(id, st, i) \in S
      BY StepStays
    <3> HIDE DEF S, n
    <3>2. F[<<st, i>>] = Step(id, st, i)
      BY DEF Loop, S, n
    <3> QED BY <3>1, <3>2
  <2> QED BY <2>1
<1>4. F \in [S \X (1 .. n) -> S]
  BY <1>3 DEF Loop
<1> HIDE DEF n, S, b, F, d
<1>5. PICK h : IsIter(h, F, b, n, S)
  BY <1>1, <1>2, <1>4, IterExists
<1>6. \A s \in SUBSET (1 .. n) : s # {} =>
          /\ Max(s) \in 1 .. n /\ at[Max(s)] = Max(s)
          /\ s \ {Max(s)} \in SUBSET (1 .. n)
  <2>1. ASSUME NEW s \in SUBSET (1 .. n), s # {}
        PROVE  Max(s) \in 1 .. n /\ at[Max(s)] = Max(s)
    <3>1. Max(s) \in 1 .. n
      BY <1>1, <2>1, MaxFact
    <3> QED BY <1>1, <3>1
  <2> QED BY <2>1
<1>7. Eq(h)
  <2>1. ASSUME NEW s \in SUBSET (1 .. n)
        PROVE  h[s] = IF s = {} THEN b ELSE Step(id, h[s \ {Max(s)}], at[Max(s)])
    <3>1. CASE s = {}
      BY <1>5, <3>1 DEF IsIter
    <3>2. CASE s # {}
      <4>1. /\ Max(s) \in 1 .. n /\ at[Max(s)] = Max(s)
            /\ s \ {Max(s)} \in SUBSET (1 .. n)
        BY <1>6, <3>2
      <4> HIDE DEF at
      <4>2. h[s \ {Max(s)}] \in S
        BY <1>5, <4>1 DEF IsIter
      <4>3. h[s] = F[<<h[s \ {Max(s)}], Max(s)>>]
        BY <1>5, <3>2 DEF IsIter
      <4> QED BY <1>3, <3>2, <4>1, <4>2, <4>3
    <3> QED BY <3>1, <3>2
  <2>2. h = [s \in SUBSET (1 .. n) |-> h[s]]
    BY <1>5 DEF IsIter
  <2>3. [s \in SUBSET (1 .. n) |-> h[s]]
            = [s \in SUBSET (1 .. n) |-> IF s = {} THEN b ELSE Step(id, h[s \ {Max(s)}], at[Max(s)])]
    <3> HIDE DEF at
    <3> QED BY <2>1
  <2> HIDE DEF at
  <2> QED BY <1>1, <2>2, <2>3
<1>8. Eq(d)
  <2>1. d = CHOOSE g : Eq(g)
    BY DEF d, DropIter, b
  <2> HIDE DEF Eq
  <2> QED BY <1>7, <2>1, Zenon
<1>9. d[{}] = b
  <2> HIDE DEF at
  <2> QED BY <1>1, <1>8
<1>10. ASSUME NEW s \in SUBSET (1 .. n), s # {}, d[s \ {Max(s)}] \in S
       PROVE  d[s] = F[<<d[s \ {Max(s)}], Max(s)>>]
  <2>1. /\ Max(s) \in 1 .. n /\ at[Max(s)] = Max(s)
        /\ s \ {Max(s)} \in SUBSET (1 .. n)
    BY <1>6, <1>10
  <2> HIDE DEF at
  <2>2. d[s] = Step(id, d[s \ {Max(s)}], Max(s))
    BY <1>1, <1>8, <1>10, <2>1
  <2> QED BY <1>3, <1>10, <2>1, <2>2
<1> DEFINE f == [i \in 0 .. n |-> d[1 .. i]]
<1> HIDE DEF Eq, at
<1>11. IsRun(f, F, b, n, S)
  <2>1. Iterates(d, F, b, n, S)
    BY <1>9, <1>10 DEF Iterates
  <2> QED BY <1>1, <1>2, <1>4, <2>1, PrefixesRun
<1>12. f[n] = d[1 .. n]
  BY <1>1
<1>13. DropLoop(services, id) = d[1 .. n]
  BY <1>1, DropUnfolds DEF d, at
<1> HIDE DEF f
<1>14. LoopRun(f, services, id)
  BY <1>11, <1>12, <1>13 DEF LoopRun, F, b, n, S
<1> QED BY <1>14

\* What DeleteService leaves was there before.
LEMMA DroppedType ==
    ASSUME NEW services \in Seq(Service), NEW id
    PROVE  /\ Dropped(services, id) \in Seq(Service)
           /\ \A i \in DOMAIN Dropped(services, id) :
                  Dropped(services, id)[i] \in Range(services)
<1> DEFINE end == DropLoop(services, id)
<1>1. PICK f : LoopRun(f, services, id)
  BY DropRuns
<1>2. Len(services) \in Nat
  OBVIOUS
<1>3. end \in LoopStates(services)
  BY <1>1, <1>2 DEF LoopRun, IsRun
<1>4. end.list \in [1 .. Len(services) -> Range(services)] /\ end.len \in 0 .. Len(services)
  BY <1>3 DEF LoopStates
<1>5. Range(services) \subseteq Service
  BY DEF Range
<1> HIDE DEF end
<1>6. end.list \in Seq(Range(services)) /\ Len(end.list) = Len(services)
  BY <1>2, <1>4
<1>7. SubSeq(end.list, 1, end.len) \in Seq(Range(services))
  BY <1>2, <1>4, <1>6
<1>8. Dropped(services, id) = SubSeq(end.list, 1, end.len)
  BY DEF Dropped, end
<1> QED BY <1>5, <1>7, <1>8

\* k is the position of the only service with an id, or the one after the end.
Alone(services, id, k) ==
    /\ k \in 1 .. Len(services) + 1
    /\ \A i \in 1 .. Len(services) : services[i].id = id <=> i = k

\* The loop meets it once and does not run out of the list.
LEMMA DropsTheOne ==
    ASSUME NEW services \in Seq(Service), NEW id, NEW k, Alone(services, id, k)
    PROVE  ~Panics(services, id) /\ IsAllBut(Dropped(services, id), services, k, Len(services), Service)
<1> DEFINE n == Len(services)
           once == [list |-> Removed(services, n, k), len |-> n - 1, ok |-> TRUE]
           at(i) == IF i < k THEN Start(services) ELSE once
<1>1. PICK f : LoopRun(f, services, id)
  BY DropRuns
<1> DEFINE A == {i \in 0 .. n : f[i] = at(i)}
<1>2. n \in Nat /\ k \in 1 .. n + 1 /\ DOMAIN services = 1 .. n
  BY DEF Alone
<1>3. \A j \in 1 .. n : Removed(services, n, k)[j]
                            = IF k <= j /\ j < n THEN services[j + 1] ELSE services[j]
  BY <1>2 DEF Removed
<1>4. /\ Start(services).list = services /\ Start(services).len = n /\ Start(services).ok = TRUE
      /\ once.list = Removed(services, n, k) /\ once.len = n - 1 /\ once.ok = TRUE
  BY DEF Start
<1>5. 0 \in A
  BY <1>1, <1>2 DEF LoopRun, IsRun
<1>6. ASSUME NEW i \in 1 .. n, i - 1 \in A
      PROVE  i \in A
  <2>1. f[i - 1] \in LoopStates(services) /\ f[i] = Loop(services, id)[<<f[i - 1], i>>]
    BY <1>1, <1>2 DEF LoopRun, IsRun
  <2>2. f[i] = Step(id, f[i - 1], i)
    BY <2>1 DEF Loop
  <2>3. f[i - 1] = at(i - 1)
    BY <1>6
  <2>4. CASE i < k
    <3>1. services[i].id # id
      BY <1>2, <2>4 DEF Alone
    <3>2. i - 1 < k
      BY <1>2, <2>4
    <3> HIDE DEF once
    <3> QED BY <1>4, <2>2, <2>3, <2>4, <3>1, <3>2 DEF Step
  <2>5. CASE i = k
    <3>1. services[i].id = id
      BY <2>5 DEF Alone
    <3>2. i - 1 < k /\ i <= n
      BY <1>2, <2>5
    <3>3. f[i - 1] = Start(services)
      BY <2>3, <3>2
    <3>4. Step(id, Start(services), i) = once
      BY <1>2, <1>4, <2>5, <3>1, <3>2 DEF Step
    <3> HIDE DEF once
    <3> QED BY <1>2, <2>2, <2>5, <3>3, <3>4
  <2>6. CASE i > k
    <3>1. f[i - 1] = once
      BY <1>2, <2>3, <2>6
    <3>2. once.list[i] = IF i < n THEN services[i + 1] ELSE services[n]
      BY <1>2, <1>3, <1>4, <2>6
    <3> HIDE DEF once
    <3>3. once.list[i].id # id
      <4> HIDE DEF n
      <4>1. CASE i < n
        <5>1. i + 1 \in 1 .. n /\ i + 1 # k
          BY <1>2, <2>6, <4>1
        <5> QED BY <3>2, <4>1, <5>1 DEF Alone, n
      <4>2. CASE i = n
        <5>1. n \in 1 .. n /\ n # k
          BY <1>2, <2>6, <4>2
        <5> QED BY <3>2, <4>2, <5>1 DEF Alone, n
      <4> QED BY <1>2, <4>1, <4>2
    <3>4. Step(id, once, i) = once
      BY <3>3 DEF Step
    <3> QED BY <1>2, <2>2, <2>6, <3>1, <3>4
  <2> QED BY <1>2, <2>4, <2>5, <2>6
<1> HIDE DEF A
<1>7. 0 .. n \subseteq A
  BY <1>2, <1>5, <1>6, StepsReach
<1>8. DropLoop(services, id) = at(n)
  <2>1. n \in A
    BY <1>2, <1>7
  <2> QED BY <1>1, <2>1 DEF A, LoopRun
<1>9. ~Panics(services, id)
  BY <1>4, <1>8 DEF Panics
<1>10. IsAllBut(Dropped(services, id), services, k, n, Service)
  <2>1. CASE k > n
    <3>1. DropLoop(services, id) = Start(services)
      BY <1>2, <1>8, <2>1
    <3>2. Dropped(services, id) = SubSeq(services, 1, n)
      BY <1>4, <3>1 DEF Dropped
    <3>3. SubSeq(services, 1, n) = services
      BY <1>2
    <3> QED BY <1>2, <2>1, <3>2, <3>3 DEF IsAllBut
  <2>2. CASE k <= n
    <3> DEFINE list == Removed(services, n, k)
               res == SubSeq(list, 1, n - 1)
    <3>1. Dropped(services, id) = res
      BY <1>2, <1>4, <1>8, <2>2 DEF Dropped
    <3>2. list \in Seq(Service) /\ Len(list) = n
      <4>1. list = [j \in 1 .. n |-> IF k <= j /\ j < n THEN services[j + 1] ELSE services[j]]
        BY <1>2 DEF Removed
      <4>2. ASSUME NEW j \in 1 .. n
            PROVE  (IF k <= j /\ j < n THEN services[j + 1] ELSE services[j]) \in Service
        BY <1>2
      <4>3. list \in [1 .. n -> Service]
        BY <4>1, <4>2
      <4> HIDE DEF list
      <4> QED BY <1>2, <4>3
    <3> HIDE DEF list
    <3>3. res \in Seq(Service) /\ Len(res) = n - 1 /\ \A j \in 1 .. n - 1 : res[j] = list[j]
      BY <1>2, <2>2, <3>2
    <3>4. \A j \in 1 .. n - 1 : res[j] = IF j < k THEN services[j] ELSE services[j + 1]
      <4>1. ASSUME NEW j \in 1 .. n - 1
            PROVE  list[j] = IF j < k THEN services[j] ELSE services[j + 1]
        BY <1>2, <1>3, <2>2 DEF list
      <4> QED BY <3>3, <4>1
    <3> HIDE DEF res
    <3> QED BY <1>2, <2>2, <3>1, <3>3, <3>4 DEF IsAllBut
  <2> QED BY <1>2, <2>1, <2>2
<1> QED BY <1>9, <1>10

\* the fold that Others is
Keep(id, kept, s) == IF s.id = id THEN kept ELSE Append(kept, s)
KeepStep(services, id) ==
    [p \in Seq(Service) \X (1 .. Len(services)) |-> Keep(id, p[1], services[p[2]])]
OthersIter(services, id) == CHOOSE g :
    g = [s \in SUBSET DOMAIN services |->
            IF s = {} THEN <<>> ELSE Keep(id, g[s \ {Max(s)}], services[Max(s)])]

LEMMA OthersUnfold ==
    ASSUME NEW services, NEW id
    PROVE  Others(services, id) = OthersIter(services, id)[DOMAIN services]
  BY Zenon DEF Others, FoldLeft, MapThenFoldSet, OthersIter, Keep

LEMMA OthersOfTheOne ==
    ASSUME NEW services \in Seq(Service), NEW id, NEW k, Alone(services, id, k)
    PROVE  IsAllBut(Others(services, id), services, k, Len(services), Service)
<1> DEFINE n == Len(services)
           S == Seq(Service)
           F == KeepStep(services, id)
           Eq(g) == g = [s \in SUBSET (1 .. n) |->
                            IF s = {} THEN <<>> ELSE Keep(id, g[s \ {Max(s)}], services[Max(s)])]
           d == OthersIter(services, id)
<1>1. n \in Nat /\ DOMAIN services = 1 .. n /\ <<>> \in S
  OBVIOUS
<1>2. \A st \in S : \A i \in 1 .. n :
          Keep(id, st, services[i]) \in S /\ F[<<st, i>>] = Keep(id, st, services[i])
  BY DEF KeepStep, Keep
<1>3. F \in [S \X (1 .. n) -> S]
  BY <1>2 DEF KeepStep
<1> HIDE DEF n, S, F, d
<1>4. PICK h : IsIter(h, F, <<>>, n, S)
  BY <1>1, <1>3, IterExists
<1>5. \A s \in SUBSET (1 .. n) : s # {} =>
          Max(s) \in 1 .. n /\ s \ {Max(s)} \in SUBSET (1 .. n)
  BY <1>1, MaxFact
<1>6. Eq(h)
  <2>1. ASSUME NEW s \in SUBSET (1 .. n)
        PROVE  h[s] = IF s = {} THEN <<>> ELSE Keep(id, h[s \ {Max(s)}], services[Max(s)])
    <3>1. CASE s = {}
      BY <1>4, <3>1 DEF IsIter
    <3>2. CASE s # {}
      <4>1. Max(s) \in 1 .. n /\ s \ {Max(s)} \in SUBSET (1 .. n)
        BY <1>5, <3>2
      <4>2. h[s \ {Max(s)}] \in S
        BY <1>4, <4>1 DEF IsIter
      <4>3. h[s] = F[<<h[s \ {Max(s)}], Max(s)>>]
        BY <1>4, <3>2 DEF IsIter
      <4> QED BY <1>2, <3>2, <4>1, <4>2, <4>3
    <3> QED BY <3>1, <3>2
  <2>2. h = [s \in SUBSET (1 .. n) |-> h[s]]
    BY <1>4 DEF IsIter
  <2>3. [s \in SUBSET (1 .. n) |-> h[s]]
            = [s \in SUBSET (1 .. n) |->
                  IF s = {} THEN <<>> ELSE Keep(id, h[s \ {Max(s)}], services[Max(s)])]
    BY <2>1
  <2> QED BY <2>2, <2>3
<1>7. Eq(d)
  <2>1. d = CHOOSE g : Eq(g)
    BY <1>1 DEF d, OthersIter
  <2> HIDE DEF Eq
  <2> QED BY <1>6, <2>1, Zenon
<1>8. Iterates(d, F, <<>>, n, S)
  <2>1. d[{}] = <<>>
    BY <1>7
  <2>2. ASSUME NEW s \in SUBSET (1 .. n), s # {}, d[s \ {Max(s)}] \in S
        PROVE  d[s] = F[<<d[s \ {Max(s)}], Max(s)>>]
    <3>1. Max(s) \in 1 .. n
      BY <1>5, <2>2
    <3>2. d[s] = Keep(id, d[s \ {Max(s)}], services[Max(s)])
      BY <1>7, <2>2
    <3> QED BY <1>2, <2>2, <3>1, <3>2
  <2> QED BY <2>1, <2>2 DEF Iterates
<1> HIDE DEF Eq
<1> DEFINE f == [i \in 0 .. n |-> d[1 .. i]]
<1>9. IsRun(f, F, <<>>, n, S)
  BY <1>1, <1>3, <1>8, PrefixesRun
<1>10. f[n] = Others(services, id)
  BY <1>1, OthersUnfold DEF d
<1> HIDE DEF f
<1>11. \A acc \in Seq(Service) : \A i \in 1 .. n :
           F[<<acc, i>>] = IF i = k THEN acc ELSE Append(acc, services[i])
  BY <1>2 DEF Keep, Alone, S, n
<1>12. IsAllBut(f[n], services, k, n, Service)
  <2>1. k \in 1 .. n + 1
    BY DEF Alone, n
  <2> QED BY <1>9, <1>11, <2>1, AllButOne DEF n, S
<1> QED BY <1>10, <1>12 DEF n

\* Two sequences that leave out the same element are one.
LEMMA SameAllBut ==
    ASSUME NEW S, NEW a, NEW b, NEW seq, NEW k, NEW n,
           IsAllBut(a, seq, k, n, S), IsAllBut(b, seq, k, n, S)
    PROVE  a = b
<1>1. a \in Seq(S) /\ b \in Seq(S) /\ Len(a) = Len(b) /\ \A j \in 1 .. Len(a) : a[j] = b[j]
  BY DEF IsAllBut
<1> QED BY <1>1, SeqEqual

\* Without two of an id, it has one place or none.
LEMMA OnePlace ==
    ASSUME NEW services \in Seq(Service), NEW id, ~Twice(services)
    PROVE  \E k : Alone(services, id, k)
<1> DEFINE n == Len(services)
<1>1. n \in Nat /\ DOMAIN services = 1 .. n
  OBVIOUS
<1>2. CASE \E k \in 1 .. n : services[k].id = id
  <2>1. PICK k \in 1 .. n : services[k].id = id
    BY <1>2
  <2>2. Alone(services, id, k)
    BY <1>1, <2>1 DEF Alone, Twice
  <2> QED BY <2>2
<1>3. CASE \A k \in 1 .. n : services[k].id # id
  <2>1. Alone(services, id, n + 1)
    BY <1>1, <1>3 DEF Alone
  <2> QED BY <2>1
<1> QED BY <1>2, <1>3

\* DeleteService does what it says to a list in which no service is there twice.
LEMMA DeletesOnce ==
    ASSUME NEW services \in Seq(Service), NEW id, ~Twice(services)
    PROVE  Deletes(services, id)
<1>1. PICK k : Alone(services, id, k)
  BY OnePlace
<1>2. /\ ~Panics(services, id)
      /\ IsAllBut(Dropped(services, id), services, k, Len(services), Service)
  BY <1>1, DropsTheOne
<1>3. IsAllBut(Others(services, id), services, k, Len(services), Service)
  BY <1>1, OthersOfTheOne
<1>4. Dropped(services, id) = Others(services, id)
  BY <1>2, <1>3, SameAllBut
<1> QED BY <1>2, <1>4 DEF Deletes

-----------------------------------------------------------------------------
(* The types, with the calls that lead to each place.                      *)

FlowOK(h) ==
    /\ pc[h] # "idle" => req[h] \in Requests
    /\ pc[h] = "find" => req[h] \in Marks
    /\ pc[h] \in {"map", "oldkey", "profile"} => req[h] \in Posts \union Marks
    /\ pc[h] = "profileof" => req[h] \in OAuths /\ owner[h] \in Users
    /\ pc[h] = "services" =>
           /\ owner[h] \in Users
           /\ req[h] \in Drops \/ (req[h] \in OAuths /\ req[h].login \in TwitterLogins)
    /\ pc[h] \in {"oldinfo", "info"} =>
           owner[h] \in Users /\ req[h] \in Posts \union OAuths \union Drops

\* A feed info on its way to a put has a uuid or a service.
MadeOK(h) ==
    /\ newInfo[h] \in Infos
    /\ pc[h] \in {"map", "oldkey", "profile"} /\ req[h] \in Posts => newInfo[h].named
    /\ pc[h] \in {"oldinfo", "info"} =>
           newInfo[h].named \/ (req[h] \in OAuths /\ newInfo[h].services # <<>>)

DataOK ==
    /\ mapped \subseteq Users
    /\ info \in [Users -> Infos]
    /\ req \in [Handlers -> Requests \union {None}]
    /\ raced \subseteq Users \union Logins
    /\ cut \subseteq Users
    /\ calls \in Nat /\ crashes \in Nat

TInv == DataOK /\ \A h \in Handlers : FlowOK(h) /\ MadeOK(h)

IsInfo(i, key, services, named) ==
    i \in Infos /\ i.key = key /\ i.services = services /\ i.named = named

LEMMA InfoType ==
    ASSUME NEW key \in Keys \union {NoKey}, NEW services \in Seq(Service), NEW named \in BOOLEAN,
           NEW i, i = Info(key, services, named)
    PROVE  IsInfo(i, key, services, named)
  BY DEF Info, Infos, IsInfo

LEMMA InfoFields ==
    ASSUME NEW i \in Infos
    PROVE  i.key \in Keys \union {NoKey} /\ i.services \in Seq(Service) /\ i.named \in BOOLEAN
  BY DEF Infos

LEMMA NoInfoType == NoInfo \in Infos /\ NoInfo.named = FALSE /\ NoInfo.services = <<>>
<1>1. <<>> \in Seq(Service)
  OBVIOUS
<1> QED BY <1>1 DEF NoInfo, Info, Infos

\* What a call brings, and where it can lead.
LEMMA CallTypes ==
    ASSUME NEW r \in Requests
    PROVE  /\ r \in Posts \union Marks \union OAuths \union Binds \union Drops
           /\ r \in Posts => r \notin Marks \union OAuths \union Binds \union Drops
           /\ r \in Marks => r \notin OAuths \union Binds \union Drops
           /\ r \in OAuths \union Binds => r \notin Drops /\ r.login \in Logins
           /\ r \notin OAuths => r.user \in Users
  BY DEF Requests, Posts, Marks, OAuths, Binds, Drops

LEMMA PostType ==
    ASSUME NEW r \in Posts
    PROVE  /\ r.key \in Keys \union {NoKey} /\ r.services \in Seq(Service)
           /\ \A i \in DOMAIN r.services : r.services[i].login = None
<1> DEFINE A == [id : {Twitter} \union OtherIds, login : {None}]
<1>1. r.key \in Keys \union {NoKey} /\ r.services \in Arriving
  BY DEF Posts
<1>2. r.services \in Seq(A)
  BY <1>1, ConstantsAssumption
<1>3. A \subseteq Service /\ \A s \in A : s.login = None
  BY DEF Service
<1> HIDE DEF A
<1> QED BY <1>1, <1>2, <1>3

LEMMA Keeps ==
    ASSUME NEW g \in Handlers, FlowOK(g), MadeOK(g),
           pc'[g] = pc[g], req'[g] = req[g], owner'[g] = owner[g], newInfo'[g] = newInfo[g]
    PROVE  FlowOK(g)' /\ MadeOK(g)'
  BY DEF FlowOK, MadeOK

LEMMA RacedType ==
    ASSUME NEW h, NEW what \in Users \union Logins, NEW value,
           raced \subseteq Users \union Logins, Race(h, what, value)
    PROVE  raced' \subseteq Users \union Logins
  BY DEF Race

LEMMA InitTInv == Init => TInv
  BY NoInfoType DEF Init, TInv, DataOK, FlowOK, MadeOK

LEMMA CallTypesKept ==
    ASSUME IInv, TInv, NEW h \in Handlers, NEW r \in Requests, Call(h, r)
    PROVE  TInv'
<1>1. DataOK'
  BY ConstantsAssumption DEF Call, tables, ghosts, TInv, DataOK
<1>2. /\ pc[h] = "idle" /\ req'[h] = r
      /\ owner'[h] = IF r \in OAuths THEN None ELSE r.user
      /\ pc'[h] = CASE r \in Posts -> "map"
                    [] r \in Marks -> "find"
                    [] r \in OAuths \union Binds -> "oauth"
                    [] r \in Drops -> "services"
  BY DEF Call, Goto, IInv, HandlersOK, TInv, DataOK
<1>3. newInfo'[h] = IF r \in Posts THEN Info(r.key, r.services, TRUE) ELSE NoInfo
  BY DEF Call, IInv, HandlersOK
<1>4. newInfo'[h] \in Infos /\ (r \in Posts => newInfo'[h].named)
  <2>1. CASE r \in Posts
    <3>1. newInfo'[h] = Info(r.key, r.services, TRUE)
      BY <1>3, <2>1
    <3>2. r.key \in Keys \union {NoKey} /\ r.services \in Seq(Service)
      BY <2>1, PostType
    <3>3. IsInfo(newInfo'[h], r.key, r.services, TRUE)
      BY <3>1, <3>2, InfoType
    <3> QED BY <3>3 DEF IsInfo
  <2>2. CASE r \notin Posts
    BY <1>3, <2>2, NoInfoType
  <2> QED BY <2>1, <2>2
<1>5. FlowOK(h)' /\ MadeOK(h)'
  <2>1. CASE r \in Posts
    BY <1>2, <1>4, <2>1, CallTypes DEF FlowOK, MadeOK
  <2>2. CASE r \in Marks
    BY <1>2, <1>4, <2>2, CallTypes DEF FlowOK, MadeOK
  <2>3. CASE r \in OAuths \union Binds
    BY <1>2, <1>4, <2>3, CallTypes DEF FlowOK, MadeOK
  <2>4. CASE r \in Drops
    BY <1>2, <1>4, <2>4, CallTypes DEF FlowOK, MadeOK
  <2> QED BY <2>1, <2>2, <2>3, <2>4, CallTypes
<1>6. ASSUME NEW g \in Handlers \ {h} PROVE FlowOK(g)' /\ MadeOK(g)'
  <2>1. /\ pc'[g] = pc[g] /\ req'[g] = req[g] /\ owner'[g] = owner[g]
        /\ newInfo'[g] = newInfo[g]
    BY DEF Call, Goto, IInv, HandlersOK, TInv, DataOK
  <2> QED BY <2>1, Keeps DEF TInv
<1> QED BY <1>1, <1>5, <1>6 DEF TInv

LEMMA ProfileTypesKept ==
    ASSUME IInv, TInv, NEW h \in Handlers,
           FindProfile(h) \/ PutMap(h) \/ ReadOldKey(h) \/ PutProfile(h)
    PROVE  TInv'
<1>1. pc[h] \in {"find", "map", "oldkey", "profile"} /\ owner[h] \in Users
  BY DEF FindProfile, PutMap, ReadOldKey, PutProfile, IInv, HandlerInv, ProfileOK
<1>2. UNCHANGED <<info, req, owner, newInfo, cut, calls, crashes>>
  BY DEF FindProfile, PutMap, ReadOldKey, PutProfile, tables, ghosts, bounds
<1>3. mapped' \subseteq Users
  BY <1>1 DEF FindProfile, PutMap, ReadOldKey, PutProfile, tables, TInv, DataOK
<1>4. raced' \subseteq Users \union Logins
  BY <1>1, RacedType DEF FindProfile, PutMap, ReadOldKey, PutProfile, ghosts, TInv, DataOK
<1>5. DataOK'
  BY <1>2, <1>3, <1>4 DEF TInv, DataOK
<1>6. \/ pc[h] = "find" /\ pc'[h] \in {"map", "idle"}
      \/ pc[h] \in {"map", "oldkey"} /\ pc'[h] \in {"oldkey", "profile"}
      \/ pc[h] = "profile" /\ (pc'[h] = "idle" \/ (req[h] \in Posts /\ pc'[h] \in {"oldinfo", "info"}))
  BY DEF FindProfile, PutMap, ReadOldKey, PutProfile, SaveFeedinfo, Goto, IInv, HandlersOK
<1>7. FlowOK(h) /\ MadeOK(h) /\ (req[h] \in Marks => req[h] \notin Posts)
  BY CallTypes DEF TInv, Requests
<1>8. FlowOK(h)' /\ MadeOK(h)'
  BY <1>1, <1>2, <1>6, <1>7 DEF FlowOK, MadeOK, Requests
<1>9. ASSUME NEW g \in Handlers \ {h} PROVE FlowOK(g)' /\ MadeOK(g)'
  <2>1. pc'[g] = pc[g]
    BY DEF FindProfile, PutMap, ReadOldKey, PutProfile, SaveFeedinfo, Goto, IInv, HandlersOK
  <2> QED BY <1>2, <2>1, Keeps DEF TInv
<1> QED BY <1>5, <1>8, <1>9 DEF TInv

\* The list with a twitter service appended.
LEMMA AddedType ==
    ASSUME NEW services \in Seq(Service), NEW login \in TwitterLogins
    PROVE  LET new == Append(services, [id |-> Twitter, login |-> login])
           IN  /\ new \in Seq(Service) /\ new # <<>>
               /\ \A i \in DOMAIN new :
                      new[i].login = login \/ \E j \in DOMAIN services : new[i] = services[j]
<1> DEFINE s == [id |-> Twitter, login |-> login]
<1>1. s \in Service /\ s.login = login
  BY DEF Service
<1> HIDE DEF s
<1>2. /\ Append(services, s) \in Seq(Service) /\ Len(Append(services, s)) = Len(services) + 1
      /\ \A i \in 1 .. Len(services) : Append(services, s)[i] = services[i]
      /\ Append(services, s)[Len(services) + 1] = s
  BY <1>1
<1>3. Append(services, s) # <<>>
  BY <1>2
<1>4. \A i \in DOMAIN Append(services, s) :
          Append(services, s)[i].login = login \/ \E j \in DOMAIN services : Append(services, s)[i] = services[j]
  <2>1. ASSUME NEW i \in DOMAIN Append(services, s)
        PROVE  Append(services, s)[i].login = login
                   \/ \E j \in DOMAIN services : Append(services, s)[i] = services[j]
    <3>1. i \in 1 .. Len(services) \/ i = Len(services) + 1
      BY <1>2
    <3> QED BY <1>1, <1>2, <3>1
  <2> QED BY <2>1
<1> QED BY <1>2, <1>3, <1>4 DEF s

\* What the step at "services" is going to save.
LEMMA ServiceStep ==
    ASSUME IInv, TInv, NEW h \in Handlers, AddService(h) \/ DropService(h)
    PROVE  /\ pc[h] = "services" /\ owner[h] \in Users
           /\ UNCHANGED <<tables, req, owner, newProfile, ghosts, bounds>>
           /\ Base(h, info[owner[h]])
           /\ newInfo'[h] \in Infos
           /\ newInfo'[h].key = info[owner[h]].key
           /\ newInfo'[h].named = info[owner[h]].named
           /\ \/ /\ req[h] \in OAuths /\ req[h].login \in TwitterLogins
                 /\ newInfo'[h].services
                        = Append(info[owner[h]].services, [id |-> Twitter, login |-> req[h].login])
              \/ /\ req[h] \in Drops
                 /\ newInfo'[h].services = Dropped(info[owner[h]].services, req[h].id)
           /\ \/ pc'[h] = "oldinfo" /\ newInfo'[h].key = NoKey
              \/ pc'[h] = "info" /\ newInfo'[h].key # NoKey
              \/ pc'[h] = "idle" /\ req[h] \in Drops
           /\ req[h] \in Drops /\ pc'[h] # "idle" => newInfo'[h].named
           /\ \A g \in Handlers \ {h} : pc'[g] = pc[g] /\ newInfo'[g] = newInfo[g]
<1> DEFINE old == info[owner[h]]
           new == IF req[h] \in OAuths
                  THEN Append(old.services, [id |-> Twitter, login |-> req[h].login])
                  ELSE Dropped(old.services, req[h].id)
<1>1. /\ pc[h] = "services" /\ owner[h] \in Users
      /\ UNCHANGED <<tables, req, owner, newProfile, ghosts, bounds>>
      /\ Base(h, info[owner[h]])
  BY DEF AddService, DropService, TInv, FlowOK
<1>2. FlowOK(h) /\ (req[h] \in Drops => req[h] \notin OAuths)
  BY <1>1, CallTypes DEF TInv, Requests
<1>3. old \in Infos
  BY <1>1 DEF TInv, DataOK
<1>4. old.key \in Keys \union {NoKey} /\ old.services \in Seq(Service) /\ old.named \in BOOLEAN
  BY <1>3, InfoFields
<1>5. /\ newInfo' = [newInfo EXCEPT ![h] = Info(old.key, new, old.named)]
      /\ \/ req[h] \in OAuths /\ req[h].login \in TwitterLogins /\ SaveFeedinfo(h)
         \/ req[h] \in Drops /\ IF old.named THEN SaveFeedinfo(h) ELSE Goto(h, "idle")
  BY <1>1, <1>2 DEF AddService, DropService, FlowOK
<1>6. new \in Seq(Service)
  <2>1. CASE req[h] \in OAuths
    BY <1>2, <1>4, <1>5, <2>1, AddedType
  <2>2. CASE req[h] \notin OAuths
    BY <1>4, <2>2, DroppedType
  <2> QED BY <2>1, <2>2
<1>7. \/ /\ req[h] \in OAuths /\ new = Append(old.services, [id |-> Twitter, login |-> req[h].login])
      \/ /\ req[h] \in Drops /\ new = Dropped(old.services, req[h].id)
  BY <1>2, <1>5
<1> HIDE DEF new
<1>8. /\ newInfo'[h] = Info(old.key, new, old.named)
      /\ \A g \in Handlers \ {h} : newInfo'[g] = newInfo[g]
  BY <1>5 DEF IInv, HandlersOK
<1>9. /\ newInfo'[h] \in Infos /\ newInfo'[h].key = old.key
      /\ newInfo'[h].services = new /\ newInfo'[h].named = old.named
  <2>1. IsInfo(newInfo'[h], old.key, new, old.named)
    BY <1>4, <1>6, <1>8, InfoType
  <2> QED BY <2>1 DEF IsInfo
<1>10. /\ \/ pc'[h] = "oldinfo" /\ newInfo'[h].key = NoKey
          \/ pc'[h] = "info" /\ newInfo'[h].key # NoKey
          \/ pc'[h] = "idle" /\ req[h] \in Drops /\ ~old.named
       /\ \A g \in Handlers \ {h} : pc'[g] = pc[g]
  BY <1>5 DEF SaveFeedinfo, Goto, IInv, HandlersOK
<1>11. req[h] \in Drops /\ pc'[h] # "idle" => old.named
  BY <1>2, <1>5 DEF Goto, IInv, HandlersOK
<1> HIDE DEF old
<1>12. \/ /\ req[h] \in OAuths /\ req[h].login \in TwitterLogins
          /\ new = Append(old.services, [id |-> Twitter, login |-> req[h].login])
       \/ /\ req[h] \in Drops /\ new = Dropped(old.services, req[h].id)
  BY <1>2, <1>5, <1>7
<1> QED BY <1>1, <1>8, <1>9, <1>10, <1>11, <1>12 DEF old

LEMMA InfoTypesKept ==
    ASSUME IInv, TInv, NEW h \in Handlers,
           ReadOldInfo(h) \/ PutInfo(h) \/ AddService(h) \/ DropService(h)
    PROVE  TInv'
<1>1. CASE ReadOldInfo(h)
  <2>1. /\ pc[h] = "oldinfo" /\ owner[h] \in Users
        /\ UNCHANGED <<tables, req, owner, newProfile, ghosts, bounds>>
        /\ pc'[h] = "info" /\ (\A g \in Handlers \ {h} : pc'[g] = pc[g])
        /\ newInfo'[h] = Info(info[owner[h]].key, newInfo[h].services, newInfo[h].named)
        /\ \A g \in Handlers \ {h} : newInfo'[g] = newInfo[g]
    BY <1>1 DEF ReadOldInfo, Goto, IInv, HandlersOK, TInv, FlowOK
  <2>2. info[owner[h]] \in Infos /\ newInfo[h] \in Infos
    BY <2>1 DEF TInv, DataOK, MadeOK
  <2>3. /\ newInfo'[h] \in Infos /\ newInfo'[h].services = newInfo[h].services
        /\ newInfo'[h].named = newInfo[h].named
    <3> DEFINE old == info[owner[h]]
    <3>1. /\ old.key \in Keys \union {NoKey}
          /\ newInfo[h].services \in Seq(Service) /\ newInfo[h].named \in BOOLEAN
      BY <2>2, InfoFields
    <3>2. newInfo'[h] = Info(old.key, newInfo[h].services, newInfo[h].named)
      BY <2>1
    <3> HIDE DEF old
    <3>3. IsInfo(newInfo'[h], old.key, newInfo[h].services, newInfo[h].named)
      BY <3>1, <3>2, InfoType
    <3> QED BY <3>3 DEF IsInfo
  <2>4. FlowOK(h)' /\ MadeOK(h)'
    BY <2>1, <2>3 DEF TInv, FlowOK, MadeOK
  <2>5. DataOK'
    BY <2>1 DEF tables, ghosts, bounds, TInv, DataOK
  <2>6. ASSUME NEW g \in Handlers \ {h} PROVE FlowOK(g)' /\ MadeOK(g)'
    BY <2>1, Keeps DEF TInv
  <2> QED BY <2>4, <2>5, <2>6 DEF TInv
<1>2. CASE PutInfo(h)
  <2>1. /\ pc[h] = "info" /\ owner[h] \in Users /\ newInfo[h] \in Infos
        /\ UNCHANGED <<mapped, profile, oauth, req, owner, newProfile, newInfo, base, cut, bounds>>
        /\ pc'[h] = "idle" /\ (\A g \in Handlers \ {h} : pc'[g] = pc[g])
        /\ info' = [info EXCEPT ![owner[h]] = newInfo[h]]
        /\ Race(h, owner[h], info[owner[h]])
    BY <1>2 DEF PutInfo, Goto, IInv, HandlersOK, TInv, FlowOK, MadeOK
  <2>2. raced' \subseteq Users \union Logins
    BY <2>1, RacedType DEF TInv, DataOK
  <2>3. DataOK'
    BY <2>1, <2>2 DEF bounds, TInv, DataOK
  <2>4. FlowOK(h)' /\ MadeOK(h)'
    BY <2>1 DEF FlowOK, MadeOK
  <2>5. ASSUME NEW g \in Handlers \ {h} PROVE FlowOK(g)' /\ MadeOK(g)'
    BY <2>1, Keeps DEF TInv
  <2> QED BY <2>3, <2>4, <2>5 DEF TInv
<1>3. CASE AddService(h) \/ DropService(h)
  <2>1. /\ pc[h] = "services" /\ owner[h] \in Users
        /\ UNCHANGED <<tables, req, owner, newProfile, ghosts, bounds>>
        /\ newInfo'[h] \in Infos
        /\ pc'[h] \in {"idle", "oldinfo", "info"}
        /\ req[h] \in Drops /\ pc'[h] # "idle" => newInfo'[h].named
        /\ \A g \in Handlers \ {h} : pc'[g] = pc[g] /\ newInfo'[g] = newInfo[g]
    BY <1>3, ServiceStep
  <2>2. \/ req[h] \in OAuths /\ newInfo'[h].services # <<>>
        \/ req[h] \in Drops
    <3>1. \/ /\ req[h] \in OAuths /\ req[h].login \in TwitterLogins
             /\ newInfo'[h].services
                    = Append(info[owner[h]].services, [id |-> Twitter, login |-> req[h].login])
          \/ req[h] \in Drops
      BY <1>3, ServiceStep
    <3>2. info[owner[h]].services \in Seq(Service)
      BY <2>1, InfoFields DEF TInv, DataOK
    <3> QED BY <3>1, <3>2, AddedType
  <2>3. FlowOK(h)' /\ MadeOK(h)'
    BY <2>1, <2>2 DEF FlowOK, MadeOK, Requests
  <2>4. DataOK'
    BY <2>1 DEF tables, ghosts, bounds, TInv, DataOK
  <2>5. ASSUME NEW g \in Handlers \ {h} PROVE FlowOK(g)' /\ MadeOK(g)'
    BY <2>1, Keeps DEF TInv
  <2> QED BY <2>3, <2>4, <2>5 DEF TInv
<1> QED BY <1>1, <1>2, <1>3

LEMMA OAuthTypesKept ==
    ASSUME IInv, TInv, NEW h \in Handlers, ReadOAuth(h) \/ PutOAuth(h) \/ ReadProfile(h)
    PROVE  TInv'
<1>1. /\ pc[h] \in {"oauth", "putoauth", "profileof"}
      /\ UNCHANGED <<mapped, info, req, newInfo, cut, bounds>>
  BY DEF ReadOAuth, PutOAuth, ReadProfile, tables, ghosts
<1>2. req[h] \in OAuths \union Binds /\ req[h].login \in Logins
  BY <1>1, CallTypes DEF IInv, HandlerInv, OAuthOK, TInv, FlowOK, Requests
<1>3. raced' \subseteq Users \union Logins
  BY <1>2, RacedType DEF ReadOAuth, PutOAuth, ReadProfile, ghosts, TInv, DataOK
<1>4. DataOK'
  BY <1>1, <1>3 DEF bounds, TInv, DataOK
<1>5. \A g \in Handlers \ {h} : pc'[g] = pc[g] /\ owner'[g] = owner[g]
  BY DEF ReadOAuth, PutOAuth, ReadProfile, Goto, IInv, HandlersOK
<1>6. \/ pc[h] = "oauth" /\ pc'[h] \in {"putoauth", "idle"}
      \/ pc[h] = "putoauth" /\ owner'[h] = owner[h] /\ pc'[h] = "idle"
      \/ pc[h] = "putoauth" /\ owner'[h] = owner[h] /\ pc'[h] = "profileof" /\ req[h] \in OAuths /\ owner[h] # None
      \/ pc[h] = "profileof" /\ owner'[h] = owner[h] /\ pc'[h] = "idle"
      \/ pc[h] = "profileof" /\ owner'[h] = owner[h] /\ pc'[h] = "services" /\ req[h].login \in TwitterLogins
  BY DEF ReadOAuth, PutOAuth, ReadProfile, Goto, IInv, HandlersOK
<1>7. owner[h] \in Users \union {None}
  BY DEF IInv, HandlersOK
<1>8. FlowOK(h)' /\ MadeOK(h)'
  BY <1>1, <1>2, <1>6, <1>7 DEF TInv, FlowOK, MadeOK
<1>9. ASSUME NEW g \in Handlers \ {h} PROVE FlowOK(g)' /\ MadeOK(g)'
  BY <1>1, <1>5, Keeps DEF TInv
<1> QED BY <1>4, <1>8, <1>9 DEF TInv

LEMMA RespawnTypesKept ==
    ASSUME IInv, TInv, Respawn, crashes' \in Nat
    PROVE  TInv'
<1>1. cut' \subseteq Users
  BY DEF Respawn, TInv, DataOK, FlowOK
<1>2. DataOK'
  BY <1>1 DEF Respawn, tables, TInv, DataOK
<1>3. \A h \in Handlers : FlowOK(h)' /\ MadeOK(h)'
  BY DEF Respawn, TInv, FlowOK, MadeOK
<1> QED BY <1>2, <1>3 DEF TInv

LEMMA NextTInv == IInv /\ TInv /\ [Next]_vars => TInv'
<1> SUFFICES ASSUME IInv, TInv, [Next]_vars PROVE TInv'
  OBVIOUS
<1>1. ASSUME NEW h \in Handlers, NEW r \in Requests, Call(h, r) PROVE TInv'
  BY <1>1, CallTypesKept
<1>2. ASSUME NEW h \in Handlers,
             FindProfile(h) \/ PutMap(h) \/ ReadOldKey(h) \/ PutProfile(h)
      PROVE  TInv'
  BY <1>2, ProfileTypesKept
<1>3. ASSUME NEW h \in Handlers,
             ReadOldInfo(h) \/ PutInfo(h) \/ AddService(h) \/ DropService(h)
      PROVE  TInv'
  BY <1>3, InfoTypesKept
<1>4. ASSUME NEW h \in Handlers, ReadOAuth(h) \/ PutOAuth(h) \/ ReadProfile(h)
      PROVE  TInv'
  BY <1>4, OAuthTypesKept
<1>5. ASSUME NEW h \in Handlers, DropPanic(h) PROVE TInv'
  BY <1>5, RespawnTypesKept DEF DropPanic, TInv, DataOK
<1>6. CASE Crash
  BY <1>6, RespawnTypesKept DEF Crash, TInv, DataOK
<1>7. CASE UNCHANGED vars
  BY <1>7 DEF vars, tables, handler, ghosts, bounds, TInv, DataOK, FlowOK, MadeOK
<1> QED BY <1>1, <1>2, <1>3, <1>4, <1>5, <1>6, <1>7 DEF Next

\* Every table holds what its messages can hold, and a handler on its way to a
\* put has an owner and a value for it (storage/table.go:95-140, 225-280, 335-412,
\* server/auth.go:12-87).
THEOREM TypeTheorem == Spec => []TypeOK
<1>1. IInv /\ TInv => TypeOK
  <2> SUFFICES ASSUME IInv, TInv PROVE TypeOK
    OBVIOUS
  <2>1. newInfo \in [Handlers -> Infos]
    BY DEF IInv, HandlersOK, TInv, MadeOK
  <2>2. ASSUME NEW h \in Handlers
        PROVE  /\ pc[h] # "idle" => req[h] \in Requests
               /\ pc[h] \in {"map", "oldkey", "profile"} => newProfile[h] # None
               /\ pc[h] \in {"oldinfo", "info"} => newInfo[h] # NoInfo
               /\ pc[h] \notin {"idle", "oauth", "putoauth"} => owner[h] # None
    <3>1. pc[h] # "idle" => req[h] \in Requests
      BY DEF TInv, FlowOK
    <3>2. pc[h] \in {"map", "oldkey", "profile"} => newProfile[h] # None
      BY ConstantsAssumption DEF IInv, HandlerInv, ProfileOK, Profiles, NoKey
    <3>3. pc[h] \in {"oldinfo", "info"} => newInfo[h] # NoInfo
      BY NoInfoType DEF TInv, MadeOK
    <3>4. None \notin Users
      BY ConstantsAssumption
    <3>5. pc[h] \notin {"idle", "oauth", "putoauth"} => owner[h] \in Users
      BY DEF IInv, HandlersOK, Places, HandlerInv, ProfileOK, TInv, FlowOK
    <3> QED BY <3>1, <3>2, <3>3, <3>4, <3>5
  <2> QED BY <2>1, <2>2 DEF TypeOK, IInv, TablesOK, HandlersOK, TInv, DataOK
<1> QED BY <1>1, InitIInv, InitTInv, NextIInv, NextTInv, PTL DEF Spec

-----------------------------------------------------------------------------
(* Where the services come from.                                           *)

Bound(login, u) == login # None /\ login \notin raced => oauth[login] = [user |-> u]
Feeds(services, u) == \A i \in DOMAIN services : Bound(services[i].login, u)

BoundNext(login, u) == login # None /\ login \notin raced' => oauth'[login] = [user |-> u]
FeedsNext(services, u) == \A i \in DOMAIN services : BoundNext(services[i].login, u)

\* A service with a login is on its way to the user of the login.
Serves(h) ==
    /\ pc[h] \in {"map", "oldkey", "profile"} /\ req[h] \in Posts =>
           \A i \in DOMAIN newInfo[h].services : newInfo[h].services[i].login = None
    /\ pc[h] \in {"profileof", "services"} /\ req[h] \in OAuths =>
           Bound(req[h].login, owner[h])
    /\ pc[h] \in {"oldinfo", "info"} => Feeds(newInfo[h].services, owner[h])

SInv == (\A u \in Users : Feeds(info[u].services, u)) /\ \A h \in Handlers : Serves(h)

LEMMA InitSInv == Init => SInv
  BY NoInfoType DEF Init, SInv, Serves, Feeds

LEMMA RacedGrows ==
    ASSUME [Next]_vars
    PROVE  raced \subseteq raced'
  BY DEF Next, vars, ghosts, Call, FindProfile, PutMap, ReadOldKey, PutProfile, ReadOldInfo,
     PutInfo, ReadOAuth, PutOAuth, ReadProfile, AddService, DropService, DropPanic, Crash,
     Respawn, Race

LEMMA BoundKept ==
    ASSUME IInv, [Next]_vars, NEW u \in Users, NEW l \in Logins \union {None}, Bound(l, u)
    PROVE  BoundNext(l, u)
<1> SUFFICES ASSUME l # None, l \notin raced' PROVE oauth'[l] = [user |-> u]
  BY DEF BoundNext
<1>1. oauth[l] = [user |-> u]
  BY RacedGrows DEF Bound
<1>2. oauth[l].user = u /\ u # None /\ oauth[l] # None
  BY <1>1, ConstantsAssumption
<1> QED BY <1>1, <1>2, BindingStep

LEMMA LoginOf ==
    ASSUME NEW services \in Seq(Service), NEW i \in DOMAIN services
    PROVE  services[i].login \in Logins \union {None}
<1>1. services[i] \in Service
  OBVIOUS
<1> QED BY <1>1, ConstantsAssumption DEF Service

LEMMA FeedsKept ==
    ASSUME IInv, [Next]_vars, NEW u \in Users, NEW services \in Seq(Service), Feeds(services, u)
    PROVE  FeedsNext(services, u)
<1> SUFFICES ASSUME NEW i \in DOMAIN services PROVE BoundNext(services[i].login, u)
  BY DEF FeedsNext
<1> DEFINE l == services[i].login
<1>1. l \in Logins \union {None}
  BY LoginOf
<1>2. Bound(l, u)
  BY DEF Feeds
<1> HIDE DEF l
<1>3. BoundNext(l, u)
  BY <1>1, <1>2, BoundKept
<1> QED BY <1>3 DEF l

\* A handler that a step leaves alone.
LEMMA ServesOn ==
    ASSUME IInv, TInv, [Next]_vars, NEW g \in Handlers, Serves(g),
           pc'[g] = pc[g], req'[g] = req[g], owner'[g] = owner[g], newInfo'[g] = newInfo[g]
    PROVE  Serves(g)'
<1>1. /\ pc[g] \in {"map", "oldkey", "profile"} /\ req[g] \in Posts =>
             \A i \in DOMAIN newInfo[g].services : newInfo[g].services[i].login = None
      /\ pc[g] \in {"profileof", "services"} /\ req[g] \in OAuths =>
             Bound(req[g].login, owner[g])
      /\ pc[g] \in {"oldinfo", "info"} => Feeds(newInfo[g].services, owner[g])
  BY DEF Serves
<1>2. ASSUME pc[g] \in {"profileof", "services"}, req[g] \in OAuths
      PROVE  BoundNext(req[g].login, owner[g])
  <2>1. owner[g] \in Users
    BY <1>2 DEF TInv, FlowOK
  <2>2. req[g].login \in Logins \union {None}
    BY <1>2 DEF OAuths
  <2> QED BY <1>1, <1>2, <2>1, <2>2, BoundKept
<1>3. ASSUME pc[g] \in {"oldinfo", "info"}
      PROVE  FeedsNext(newInfo[g].services, owner[g])
  <2>1. owner[g] \in Users
    BY <1>3 DEF TInv, FlowOK
  <2>2. newInfo[g].services \in Seq(Service)
    BY InfoFields DEF TInv, MadeOK
  <2> QED BY <1>1, <1>3, <2>1, <2>2, FeedsKept
<1> QED BY <1>1, <1>2, <1>3 DEF Serves, Bound, Feeds, BoundNext, FeedsNext

\* Where the step of a handler leads, as far as services go.
LEMMA StepServes ==
    ASSUME IInv, TInv, SInv, [Next]_vars, NEW h \in Handlers,
           \/ FindProfile(h) \/ PutMap(h) \/ ReadOldKey(h) \/ PutProfile(h)
           \/ ReadOldInfo(h) \/ PutInfo(h)
           \/ ReadOAuth(h) \/ PutOAuth(h) \/ ReadProfile(h)
           \/ AddService(h) \/ DropService(h)
    PROVE  Serves(h)'
<1>1. CASE FindProfile(h) \/ PutMap(h) \/ ReadOldKey(h) \/ PutProfile(h)
  <2>1. UNCHANGED <<req, owner, newInfo>> /\ owner[h] \in Users
    BY <1>1 DEF FindProfile, PutMap, ReadOldKey, PutProfile, IInv, HandlerInv, ProfileOK
  <2>2. \/ req[h] \notin Posts /\ pc'[h] \notin {"profileof", "services", "oldinfo", "info"}
        \/ /\ req[h] \in Posts /\ pc[h] \in {"map", "oldkey", "profile"}
           /\ pc'[h] \in {"idle", "map", "oldkey", "profile", "oldinfo", "info"}
    <3>1. pc[h] = "find" => req[h] \notin Posts
      BY CallTypes DEF TInv, FlowOK, Requests
    <3> QED
      BY <1>1, <3>1
      DEF FindProfile, PutMap, ReadOldKey, PutProfile, SaveFeedinfo, Goto, IInv, HandlersOK
  <2>3. CASE req[h] \in Posts /\ pc[h] \in {"map", "oldkey", "profile"}
    <3>1. \A i \in DOMAIN newInfo[h].services : newInfo[h].services[i].login = None
      BY <2>3 DEF SInv, Serves
    <3>2. FeedsNext(newInfo[h].services, owner[h])
      BY <3>1 DEF FeedsNext, BoundNext
    <3>3. req[h] \notin OAuths
      BY <2>3, CallTypes DEF Requests
    <3> QED BY <2>1, <3>1, <3>2, <3>3 DEF Serves, Feeds, Bound, FeedsNext, BoundNext
  <2>4. CASE req[h] \notin Posts /\ pc'[h] \notin {"profileof", "services", "oldinfo", "info"}
    BY <2>1, <2>4 DEF Serves
  <2> QED BY <2>2, <2>3, <2>4
<1>2. CASE ReadOldInfo(h)
  <2>1. /\ pc[h] = "oldinfo" /\ pc'[h] = "info" /\ owner[h] \in Users /\ UNCHANGED owner
        /\ newInfo'[h].services = newInfo[h].services
    BY <1>2 DEF ReadOldInfo, Goto, Info, IInv, HandlersOK, TInv, FlowOK
  <2>2. newInfo[h].services \in Seq(Service)
    BY InfoFields DEF TInv, MadeOK
  <2>3. FeedsNext(newInfo[h].services, owner[h])
    BY <2>1, <2>2, FeedsKept DEF SInv, Serves
  <2> QED BY <2>1, <2>3 DEF Serves, Feeds, Bound, FeedsNext, BoundNext
<1>3. CASE PutInfo(h) \/ ReadOAuth(h)
  <2>1. pc'[h] \in {"idle", "putoauth"}
    BY <1>3 DEF PutInfo, ReadOAuth, Goto, IInv, HandlersOK
  <2> QED BY <2>1 DEF Serves
<1>4. CASE PutOAuth(h)
  <2>1. /\ pc'[h] \in {"idle", "profileof"} /\ UNCHANGED <<req, owner>>
        /\ oauth' = [oauth EXCEPT ![req[h].login] = [user |-> owner[h]]]
        /\ req[h] \in OAuths \union Binds
    BY <1>4 DEF PutOAuth, Goto, IInv, HandlersOK, HandlerInv, OAuthOK
  <2>2. req[h].login \in Logins
    BY <2>1 DEF OAuths, Binds
  <2>3. oauth'[req[h].login] = [user |-> owner[h]]
    BY <2>1, <2>2 DEF IInv, TablesOK
  <2> QED BY <2>1, <2>3 DEF Serves, Bound
<1>5. CASE ReadProfile(h)
  <2>1. /\ pc[h] = "profileof" /\ pc'[h] \in {"idle", "services"} /\ UNCHANGED <<req, owner>>
        /\ req[h] \in OAuths /\ owner[h] \in Users
    BY <1>5 DEF ReadProfile, Goto, IInv, HandlersOK, TInv, FlowOK
  <2>2. req[h].login \in Logins \union {None}
    BY <2>1 DEF OAuths
  <2>3. BoundNext(req[h].login, owner[h])
    BY <2>1, <2>2, BoundKept DEF SInv, Serves
  <2> QED BY <2>1, <2>3 DEF Serves, Bound, BoundNext
<1>6. CASE AddService(h) \/ DropService(h)
  <2> DEFINE old == info[owner[h]].services
             new == newInfo'[h].services
  <2>1. /\ pc[h] = "services" /\ owner[h] \in Users /\ UNCHANGED <<req, owner>>
        /\ pc'[h] \in {"idle", "oldinfo", "info"}
        /\ \/ /\ req[h] \in OAuths /\ req[h].login \in TwitterLogins
              /\ new = Append(old, [id |-> Twitter, login |-> req[h].login])
           \/ new = Dropped(old, req[h].id)
    BY <1>6, ServiceStep
  <2>2. old \in Seq(Service)
    BY <2>1, InfoFields DEF TInv, DataOK
  <2>3. FeedsNext(old, owner[h])
    BY <2>1, <2>2, FeedsKept DEF SInv
  <2>4. ASSUME req[h] \in OAuths PROVE BoundNext(req[h].login, owner[h])
    <3>1. Bound(req[h].login, owner[h])
      BY <2>1, <2>4 DEF SInv, Serves
    <3>2. req[h].login \in Logins \union {None}
      BY <2>4 DEF OAuths
    <3> QED BY <2>1, <3>1, <3>2, BoundKept
  <2>5. ASSUME req[h] \in OAuths, req[h].login \in TwitterLogins,
               new = Append(old, [id |-> Twitter, login |-> req[h].login])
        PROVE  FeedsNext(new, owner[h])
    <3>1. \A i \in DOMAIN new :
              new[i].login = req[h].login \/ \E j \in DOMAIN old : new[i] = old[j]
      BY <2>2, <2>5, AddedType
    <3> HIDE DEF old, new
    <3> QED BY <2>3, <2>4, <2>5, <3>1 DEF FeedsNext
  <2>6. ASSUME new = Dropped(old, req[h].id)
        PROVE  FeedsNext(new, owner[h])
    <3>1. \A i \in DOMAIN new : new[i] \in Range(old)
      BY <2>2, <2>6, DroppedType
    <3>2. \A i \in DOMAIN new : \E j \in DOMAIN old : new[i] = old[j]
      BY <3>1 DEF Range
    <3> HIDE DEF old, new
    <3> QED BY <2>3, <3>2 DEF FeedsNext
  <2>7. FeedsNext(new, owner[h])
    BY <2>1, <2>5, <2>6
  <2> QED BY <2>1, <2>7 DEF Serves, Feeds, Bound, FeedsNext, BoundNext
<1> QED BY <1>1, <1>2, <1>3, <1>4, <1>5, <1>6

LEMMA CallServes ==
    ASSUME IInv, TInv, NEW h \in Handlers, NEW r \in Requests, Call(h, r)
    PROVE  Serves(h)'
<1>1. /\ req'[h] = r
      /\ newInfo'[h] = IF r \in Posts THEN Info(r.key, r.services, TRUE) ELSE NoInfo
      /\ pc'[h] = CASE r \in Posts -> "map"
                    [] r \in Marks -> "find"
                    [] r \in OAuths \union Binds -> "oauth"
                    [] r \in Drops -> "services"
  BY DEF Call, Goto, IInv, HandlersOK, TInv, DataOK
<1>2. CASE r \in Posts
  <2>1. newInfo'[h].services = r.services
    BY <1>1, <1>2 DEF Info
  <2>2. pc'[h] = "map"
    BY <1>1, <1>2, CallTypes
  <2> QED BY <1>1, <1>2, <2>1, <2>2, PostType DEF Serves
<1>3. CASE r \notin Posts
  <2>1. r \in Marks \/ r \in OAuths \union Binds
            \/ (r \in Drops /\ r \notin Marks \union OAuths \union Binds)
    BY <1>3, CallTypes
  <2>2. pc'[h] \in {"find", "oauth"} \/ (pc'[h] = "services" /\ r \notin OAuths)
    <3>1. CASE r \in Marks
      BY <1>1, <1>3, <3>1, CallTypes
    <3>2. CASE r \in OAuths \union Binds
      BY <1>1, <1>3, <3>2, CallTypes
    <3>3. CASE r \in Drops /\ r \notin Marks \union OAuths \union Binds
      BY <1>1, <1>3, <3>3
    <3> QED BY <2>1, <3>1, <3>2, <3>3
  <2> QED BY <1>1, <1>3, <2>2 DEF Serves
<1> QED BY <1>2, <1>3

\* A step of h other than the panic that ends the process.
StepOf(h) ==
    \/ \E r \in Requests : Call(h, r)
    \/ FindProfile(h) \/ PutMap(h) \/ ReadOldKey(h) \/ PutProfile(h)
    \/ ReadOldInfo(h) \/ PutInfo(h)
    \/ ReadOAuth(h) \/ PutOAuth(h) \/ ReadProfile(h)
    \/ AddService(h) \/ DropService(h)

Untouched(g) ==
    /\ pc'[g] = pc[g] /\ req'[g] = req[g] /\ owner'[g] = owner[g]
    /\ newProfile'[g] = newProfile[g] /\ newInfo'[g] = newInfo[g] /\ base'[g] = base[g]

\* One handler takes the step, or all of them stop, or none.
LEMMA WhoSteps ==
    ASSUME IInv, TInv, [Next]_vars
    PROVE  \/ Respawn
           \/ UNCHANGED vars /\ \A g \in Handlers : Untouched(g)
           \/ \E h \in Handlers : StepOf(h) /\ \A g \in Handlers \ {h} : Untouched(g)
<1>1. CASE UNCHANGED vars
  BY <1>1 DEF vars, handler, Untouched
<1>2. CASE Crash \/ \E h \in Handlers : DropPanic(h)
  BY <1>2 DEF Crash, DropPanic
<1>3. ASSUME NEW h \in Handlers, StepOf(h), NEW g \in Handlers \ {h}
      PROVE  Untouched(g)
  <2>1. CASE \E r \in Requests : Call(h, r)
    BY <2>1 DEF Call, Goto, IInv, HandlersOK, TInv, DataOK, Untouched
  <2>2. CASE FindProfile(h) \/ PutMap(h) \/ PutProfile(h)
    BY <2>2 DEF FindProfile, PutMap, PutProfile, SaveFeedinfo, Goto, IInv, HandlersOK, Untouched
  <2>3. CASE ReadOldKey(h) \/ ReadOldInfo(h)
    <3>1. base'[g] = base[g]
      BY <2>3, NotedBase DEF ReadOldKey, ReadOldInfo, IInv
    <3> QED BY <2>3, <3>1 DEF ReadOldKey, ReadOldInfo, Goto, IInv, HandlersOK, Untouched
  <2>4. CASE PutInfo(h) \/ ReadOAuth(h) \/ PutOAuth(h) \/ ReadProfile(h)
    BY <2>4 DEF PutInfo, ReadOAuth, PutOAuth, ReadProfile, Goto, IInv, HandlersOK, Untouched
  <2>5. CASE AddService(h) \/ DropService(h)
    <3>1. /\ UNCHANGED <<req, owner, newProfile>> /\ Base(h, info[owner[h]])
          /\ \A k \in Handlers \ {h} : pc'[k] = pc[k] /\ newInfo'[k] = newInfo[k]
      BY <2>5, ServiceStep
    <3>2. base'[g] = base[g]
      BY <3>1, NotedBase DEF IInv
    <3> QED BY <3>1, <3>2 DEF Untouched
  <2> QED BY <1>3, <2>1, <2>2, <2>3, <2>4, <2>5 DEF StepOf
<1> QED BY <1>1, <1>2, <1>3 DEF Next, StepOf

LEMMA NextSInv == IInv /\ TInv /\ SInv /\ [Next]_vars => SInv'
<1> SUFFICES ASSUME IInv, TInv, SInv, [Next]_vars PROVE SInv'
  OBVIOUS
<1>1. ASSUME NEW u \in Users PROVE FeedsNext(info'[u].services, u)
  <2>1. CASE info'[u] = info[u]
    <3>1. info[u].services \in Seq(Service)
      BY InfoFields DEF TInv, DataOK
    <3> QED BY <2>1, <3>1, FeedsKept DEF SInv
  <2>2. CASE info'[u] # info[u]
    <3>1. PICK h \in Handlers : PutInfo(h)
      BY <2>2, OneWriter
    <3>2. pc[h] = "info" /\ owner[h] = u /\ info'[u] = newInfo[h]
      BY <2>2, <3>1 DEF PutInfo, TInv, DataOK
    <3>3. newInfo[h].services \in Seq(Service)
      BY InfoFields DEF TInv, MadeOK
    <3> QED BY <3>2, <3>3, FeedsKept DEF SInv, Serves
  <2> QED BY <2>1, <2>2
<1>2. \A u \in Users : Feeds(info[u].services, u)'
  BY <1>1 DEF Feeds, Bound, FeedsNext, BoundNext
<1>3. \A h \in Handlers : Serves(h)'
  <2>1. CASE Respawn
    BY <2>1 DEF Respawn, Serves
  <2>2. CASE \A g \in Handlers : Untouched(g)
    BY <2>2, ServesOn DEF SInv, Untouched
  <2>3. ASSUME NEW h \in Handlers, StepOf(h), \A g \in Handlers \ {h} : Untouched(g)
        PROVE  \A g \in Handlers : Serves(g)'
    <3>1. Serves(h)'
      BY <2>3, StepServes, CallServes DEF StepOf
    <3>2. \A g \in Handlers \ {h} : Serves(g)'
      BY <2>3, ServesOn DEF SInv, Untouched
    <3> QED BY <3>1, <3>2
  <2> QED BY <2>1, <2>2, <2>3, WhoSteps
<1> QED BY <1>2, <1>3 DEF SInv

\* A twitter service feeds only the user its OAuth record is bound to
\* (server/auth.go:12-57, storage/table.go:335-412).
THEOREM ServiceTheorem == Spec => []ServiceOfItsUser
<1>1. SInv => ServiceOfItsUser
  BY DEF SInv, ServiceOfItsUser, Feeds, Bound
<1> QED BY <1>1, InitIInv, InitTInv, InitSInv, NextIInv, NextTInv, NextSInv, PTL DEF Spec

\* Where no service is there twice, DeleteService removes the one of its id and
\* leaves the others in their order (server/auth.go:71-87).
THEOREM DropTheorem == Spec => []DropsOneOfItsKind
<1>1. IInv /\ TInv => DropsOneOfItsKind
  <2> SUFFICES ASSUME IInv, TInv, NEW h \in Handlers, Dropping(h),
                      ~Twice(info[owner[h]].services)
               PROVE  Deletes(info[owner[h]].services, req[h].id)
    BY DEF DropsOneOfItsKind
  <2>1. info[owner[h]] \in Infos
    BY DEF Dropping, TInv, DataOK, FlowOK
  <2>2. info[owner[h]].services \in Seq(Service)
    BY <2>1, InfoFields
  <2> QED BY <2>2, DeletesOnce
<1> QED BY <1>1, InitIInv, InitTInv, NextIInv, NextTInv, PTL DEF Spec

-----------------------------------------------------------------------------
(* What makes an account complete.                                         *)

\* h is between the two stores of a PostFeedinfo of u.
Posting(h, u) == pc[h] \in {"oldinfo", "info"} /\ req[h] \in Posts /\ owner[h] = u

UserOK(u) ==
    /\ profile[u] # None => u \in mapped
    /\ u \notin raced /\ info[u].key # NoKey => HasKey(profile[u])
    /\ u \notin raced \union cut /\ profile[u] # None =>
           info[u].named \/ \E h \in Handlers : Posting(h, u)
    /\ u \notin raced \union cut /\ HasKey(profile[u]) =>
           \/ info[u].key # NoKey
           \/ \E h \in Handlers : Posting(h, u) /\ pc[h] = "info" /\ newInfo[h].key # NoKey

\* A profile is put for a user who has one, or by a PostFeedinfo; a key comes
\* with the call, and its feed info will have it, or from the profile.
UpdateOK(h) ==
    /\ pc[h] \in {"oldkey", "profile"} => owner[h] \in mapped
    /\ pc[h] \in {"map", "oldkey", "profile"} /\ req[h] \in Marks => profile[owner[h]] # None
    /\ pc[h] \in {"map", "oldkey", "profile"} /\ req[h] \in Posts /\ newInfo[h].key # NoKey =>
           newProfile[h].key # NoKey
    /\ pc[h] \in {"map", "oldkey", "profile"} /\ newProfile[h].key # NoKey =>
           \/ req[h] \in Posts /\ newInfo[h].key # NoKey
           \/ owner[h] \in raced \/ HasKey(profile[owner[h]])

\* A feed info is put with a key only when the profile has one, and without a
\* uuid only when it was read without one.
SaveOK(h) ==
    pc[h] \in {"oldinfo", "info"} =>
        /\ newInfo[h].key # NoKey /\ owner[h] \notin raced => HasKey(profile[owner[h]])
        /\ ~newInfo[h].named => WasRead(base[h]) /\ ~base[h][1].named

CInv == (\A u \in Users : UserOK(u)) /\ \A h \in Handlers : UpdateOK(h) /\ SaveOK(h)

LEMMA InitCInv == Init => CInv
  BY DEF Init, CInv, UserOK, UpdateOK, SaveOK, HasKey, NoInfo, Info

\* What never comes undone.
LEMMA Grows ==
    ASSUME IInv, [Next]_vars
    PROVE  /\ mapped \subseteq mapped' /\ raced \subseteq raced' /\ cut \subseteq cut'
           /\ \A u \in Users : profile[u] # None => profile'[u] # None
<1>1. mapped \subseteq mapped' /\ cut \subseteq cut'
  BY DEF Next, vars, tables, ghosts, Call, FindProfile, PutMap, ReadOldKey, PutProfile,
     ReadOldInfo, PutInfo, ReadOAuth, PutOAuth, ReadProfile, AddService, DropService,
     DropPanic, Crash, Respawn
<1>2. ASSUME NEW u \in Users, profile[u] # None PROVE profile'[u] # None
  <2> SUFFICES ASSUME NEW h \in Handlers, PutProfile(h) PROVE profile'[u] # None
    BY <1>2, OneWriter
  <2>1. newProfile[h] \in Profiles
    BY DEF PutProfile, IInv, HandlerInv, ProfileOK
  <2>2. newProfile[h] # None
    BY <2>1, ConstantsAssumption DEF Profiles, NoKey
  <2> QED BY <1>2, <2>2 DEF PutProfile, IInv, TablesOK
<1> QED BY <1>1, <1>2, RacedGrows

\* A handler that a step leaves alone, and one on its way from a store to the
\* other.
LEMMA UpdateOn ==
    ASSUME IInv, TInv, [Next]_vars, NEW g \in Handlers, UpdateOK(g), SaveOK(g), Untouched(g)
    PROVE  UpdateOK(g)' /\ SaveOK(g)'
<1> DEFINE u == owner[g]
<1>1. ASSUME pc[g] \in {"map", "oldkey", "profile", "oldinfo", "info"}
      PROVE  /\ u \in Users
             /\ profile[u] # None => profile'[u] # None
             /\ u \notin raced' /\ HasKey(profile[u]) => HasKey(profile'[u])
  <2>1. u \in Users
    BY <1>1 DEF IInv, HandlerInv, ProfileOK, TInv, FlowOK
  <2> QED BY <2>1, Grows, ProfileKeyStep
<1>2. mapped \subseteq mapped' /\ raced \subseteq raced'
  BY Grows
<1>3. UpdateOK(g)'
  BY <1>1, <1>2 DEF UpdateOK, Untouched
<1>4. SaveOK(g)'
  BY <1>1, <1>2 DEF SaveOK, Untouched
<1> QED BY <1>3, <1>4

\* The step of a handler on its way to the profile.
LEMMA StepUpdates ==
    ASSUME IInv, TInv, CInv, [Next]_vars, NEW h \in Handlers, StepOf(h)
    PROVE  UpdateOK(h)'
<1>1. CASE \E r \in Requests : Call(h, r)
  <2>1. PICK r \in Requests : Call(h, r)
    BY <1>1
  <2>2. /\ req'[h] = r
        /\ newProfile'[h] = IF r \in Posts THEN Profile(r.key, FALSE) ELSE None
        /\ newInfo'[h] = IF r \in Posts THEN Info(r.key, r.services, TRUE) ELSE NoInfo
        /\ pc'[h] = CASE r \in Posts -> "map"
                      [] r \in Marks -> "find"
                      [] r \in OAuths \union Binds -> "oauth"
                      [] r \in Drops -> "services"
    BY <2>1 DEF Call, Goto, IInv, HandlersOK, TInv, DataOK
  <2>3. CASE r \in Posts
    <3>1. /\ pc'[h] = "map" /\ req'[h] \in Posts /\ req'[h] \notin Marks
          /\ newProfile'[h].key = r.key /\ newInfo'[h].key = r.key
      BY <2>2, <2>3, CallTypes DEF Profile, Info
    <3> QED BY <3>1 DEF UpdateOK
  <2>4. CASE r \notin Posts
    <3>1. pc'[h] \notin {"map", "oldkey", "profile"}
      BY <2>2, <2>4, CallTypes
    <3> QED BY <3>1 DEF UpdateOK
  <2> QED BY <2>3, <2>4
<1>2. CASE FindProfile(h)
  <2>1. /\ UNCHANGED <<profile, req, owner>> /\ req[h] \in Marks /\ req[h] \notin Posts
        /\ \/ /\ pc'[h] = "map" /\ profile[owner[h]] # None
              /\ newProfile'[h] = Profile(profile[owner[h]].key, TRUE)
           \/ pc'[h] = "idle"
    <3>1. req[h] \in Marks /\ req[h] \notin Posts
      BY <1>2, CallTypes DEF FindProfile, TInv, FlowOK, Requests
    <3> QED BY <1>2, <3>1 DEF FindProfile, tables, Goto, IInv, HandlersOK
  <2>2. pc'[h] = "map" /\ newProfile'[h].key # NoKey => HasKey(profile[owner[h]])
    BY <2>1 DEF Profile, HasKey
  <2> QED BY <2>1, <2>2 DEF UpdateOK
<1>3. CASE PutMap(h)
  <2>1. /\ pc[h] = "map" /\ owner[h] \in mapped'
        /\ UNCHANGED <<profile, req, owner, newProfile, newInfo, raced>>
    BY <1>3 DEF PutMap, ghosts
  <2>2. UpdateOK(h)
    BY DEF CInv
  <2> QED BY <2>1, <2>2 DEF UpdateOK
<1>4. CASE ReadOldKey(h)
  <2>1. /\ pc[h] = "oldkey" /\ UNCHANGED <<mapped, profile, req, owner, newInfo, raced>>
        /\ newProfile[h].key = NoKey
        /\ newProfile'[h].key = IF profile[owner[h]] = None THEN NoKey ELSE profile[owner[h]].key
    BY <1>4 DEF ReadOldKey, tables, ghosts, Profile, IInv, HandlersOK, HandlerInv, ProfileOK
  <2>2. UpdateOK(h)
    BY DEF CInv
  <2>3. newProfile'[h].key # NoKey => HasKey(profile[owner[h]])
    BY <2>1 DEF HasKey
  <2> QED BY <2>1, <2>2, <2>3 DEF UpdateOK
<1>5. CASE PutProfile(h) \/ PutInfo(h) \/ ReadOldInfo(h) \/ ReadOAuth(h) \/ PutOAuth(h)
           \/ ReadProfile(h)
  <2>1. pc'[h] \notin {"map", "oldkey", "profile"}
    BY <1>5 DEF PutProfile, SaveFeedinfo, PutInfo, ReadOldInfo, ReadOAuth, PutOAuth, ReadProfile,
       Goto, IInv, HandlersOK
  <2> QED BY <2>1 DEF UpdateOK
<1>6. CASE AddService(h) \/ DropService(h)
  <2>1. pc'[h] \in {"oldinfo", "info", "idle"}
    BY <1>6, ServiceStep
  <2> QED BY <2>1 DEF UpdateOK
<1> QED BY <1>1, <1>2, <1>3, <1>4, <1>5, <1>6 DEF StepOf

\* The step of a handler on its way to the feed info.
LEMMA StepSaves ==
    ASSUME IInv, TInv, CInv, [Next]_vars, NEW h \in Handlers, StepOf(h)
    PROVE  SaveOK(h)'
<1>1. CASE PutProfile(h)
  <2>1. /\ pc[h] = "profile" /\ owner[h] \in Users /\ newProfile[h] \in Profiles
        /\ UNCHANGED <<req, owner, newInfo>>
        /\ profile'[owner[h]] = newProfile[h]
        /\ pc'[h] = "idle" \/ req[h] \in Posts
    BY <1>1 DEF PutProfile, SaveFeedinfo, Goto, IInv, TablesOK, HandlersOK, HandlerInv, ProfileOK
  <2>2. newProfile[h] # None
    BY <2>1, ConstantsAssumption DEF Profiles, NoKey
  <2>3. req[h] \in Posts /\ newInfo[h].key # NoKey => HasKey(profile'[owner[h]])
    BY <2>1, <2>2 DEF CInv, UpdateOK, HasKey
  <2>4. req[h] \in Posts => newInfo[h].named
    BY <2>1 DEF TInv, MadeOK
  <2> QED BY <2>1, <2>3, <2>4 DEF SaveOK
<1>2. CASE ReadOldInfo(h)
  <2>1. /\ pc[h] = "oldinfo" /\ owner[h] \in Users /\ UNCHANGED <<profile, owner, raced>>
        /\ newInfo'[h].key = info[owner[h]].key /\ newInfo'[h].named = newInfo[h].named
        /\ Base(h, info[owner[h]])
    BY <1>2 DEF ReadOldInfo, tables, ghosts, Info, IInv, HandlersOK, TInv, FlowOK
  <2>2. newInfo'[h].key # NoKey /\ owner[h] \notin raced => HasKey(profile[owner[h]])
    BY <2>1 DEF CInv, UserOK
  <2>3. ASSUME ~newInfo[h].named
        PROVE  WasRead(base'[h]) /\ ~base'[h][1].named
    <3>1. WasRead(base[h]) /\ ~base[h][1].named
      BY <2>1, <2>3 DEF CInv, SaveOK
    <3>2. base'[h] = base[h]
      BY <2>1, <3>1, NotedBase DEF IInv, WasRead
    <3> QED BY <3>1, <3>2
  <2> QED BY <2>1, <2>2, <2>3 DEF SaveOK
<1>3. CASE AddService(h) \/ DropService(h)
  <2> DEFINE old == info[owner[h]]
  <2>1. /\ pc[h] = "services" /\ owner[h] \in Users
        /\ UNCHANGED <<tables, req, owner, newProfile, ghosts, bounds>>
        /\ Base(h, old) /\ newInfo'[h].key = old.key /\ newInfo'[h].named = old.named
    BY <1>3, ServiceStep
  <2>2. base[h] = <<>>
    BY <2>1 DEF IInv, HandlerInv, InfoOK
  <2>3. old.key # NoKey /\ owner[h] \notin raced => HasKey(profile[owner[h]])
    BY <2>1 DEF CInv, UserOK
  <2>4. base'[h] = <<old>>
    BY <2>1, <2>2, NotedBase DEF IInv
  <2>5. WasRead(<<old>>) /\ <<old>>[1] = old
    BY OneRead
  <2> HIDE DEF old
  <2> QED BY <2>1, <2>3, <2>4, <2>5 DEF SaveOK, tables, ghosts
<1>4. CASE \E r \in Requests : Call(h, r)
  <2>1. pc'[h] \in {"map", "find", "oauth", "services"}
    <3>1. PICK r \in Requests : Call(h, r)
      BY <1>4
    <3> QED BY <3>1, CallTypes DEF Call, Goto, IInv, HandlersOK
  <2> QED BY <2>1 DEF SaveOK
<1>5. CASE FindProfile(h) \/ PutMap(h) \/ ReadOldKey(h) \/ PutInfo(h) \/ ReadOAuth(h) \/ PutOAuth(h)
           \/ ReadProfile(h)
  <2>1. pc'[h] \notin {"oldinfo", "info"}
    BY <1>5 DEF FindProfile, PutMap, ReadOldKey, PutInfo, ReadOAuth, PutOAuth, ReadProfile,
       Goto, IInv, HandlersOK
  <2> QED BY <2>1 DEF SaveOK
<1> QED BY <1>1, <1>2, <1>3, <1>4, <1>5 DEF StepOf

\* A PostFeedinfo between its stores goes on until it puts the feed info or is
\* cut short.
LEMMA PostingOn ==
    ASSUME IInv, TInv, [Next]_vars, NEW u \in Users, NEW g \in Handlers, Posting(g, u)
    PROVE  \/ u \in cut'
           \/ PutInfo(g)
           \/ /\ Posting(g, u)'
              /\ pc[g] = "info" => pc'[g] = "info" /\ newInfo'[g] = newInfo[g]
<1>1. CASE Respawn
  BY <1>1 DEF Respawn, Posting
<1>2. CASE Untouched(g)
  BY <1>2 DEF Untouched, Posting
<1>3. CASE StepOf(g)
  <2>1. req[g] \in Posts /\ pc[g] \in {"oldinfo", "info"}
    BY DEF Posting
  <2>2. ReadOldInfo(g) \/ PutInfo(g)
    BY <1>3, <2>1 DEF StepOf, Call, FindProfile, PutMap, ReadOldKey, PutProfile, ReadOAuth,
       PutOAuth, ReadProfile, AddService, DropService
  <2>3. CASE ReadOldInfo(g)
    BY <2>3 DEF ReadOldInfo, Posting, Goto, IInv, HandlersOK
  <2> QED BY <2>2, <2>3
<1>4. \/ Respawn
      \/ \A h \in Handlers : Untouched(h)
      \/ \E h \in Handlers : StepOf(h) /\ \A k \in Handlers \ {h} : Untouched(k)
  BY WhoSteps
<1> QED BY <1>1, <1>2, <1>3, <1>4

\* The user whose profile is put.
LEMMA ProfilePut ==
    ASSUME IInv, TInv, CInv, [Next]_vars, NEW h \in Handlers, PutProfile(h),
           NEW u, u = owner[h]
    PROVE  /\ u \in mapped /\ UNCHANGED <<mapped, info, cut>>
           /\ profile[u] # None \/ Posting(h, u)'
           /\ u \notin raced' /\ HasKey(profile'[u]) =>
                  \/ HasKey(profile[u])
                  \/ Posting(h, u)' /\ pc'[h] = "info" /\ newInfo'[h].key # NoKey
<1>1. /\ u \in Users /\ pc[h] = "profile" /\ UNCHANGED <<mapped, info, cut, req, owner, newInfo>>
      /\ profile' = [profile EXCEPT ![u] = newProfile[h]]
  BY DEF PutProfile, IInv, HandlerInv, ProfileOK
<1>2. u \in mapped
  BY <1>1 DEF CInv, UpdateOK
<1>3. req[h] \in Posts \union Marks
  BY <1>1 DEF TInv, FlowOK
<1>4. req[h] \in Posts =>
          /\ Posting(h, u)'
          /\ newInfo[h].key # NoKey => pc'[h] = "info"
  BY <1>1 DEF PutProfile, SaveFeedinfo, Goto, Posting, IInv, HandlersOK
<1>5. req[h] \in Marks => profile[u] # None
  BY <1>1 DEF CInv, UpdateOK
<1>6. HasKey(profile'[u]) => newProfile[h].key # NoKey
  BY <1>1 DEF HasKey, IInv, TablesOK
<1>7. newProfile[h].key # NoKey =>
          \/ req[h] \in Posts /\ newInfo[h].key # NoKey
          \/ u \in raced' \/ HasKey(profile[u])
  BY <1>1, RacedGrows DEF CInv, UpdateOK
<1> QED BY <1>1, <1>2, <1>3, <1>4, <1>5, <1>6, <1>7

\* The user whose feed info is put.
LEMMA InfoPut ==
    ASSUME IInv, TInv, CInv, [Next]_vars, NEW h \in Handlers, PutInfo(h),
           NEW u, u = owner[h], u \notin raced'
    PROVE  /\ UNCHANGED <<mapped, profile, cut>>
           /\ info' = [info EXCEPT ![u] = newInfo[h]]
           /\ newInfo[h].key # NoKey => HasKey(profile[u])
           /\ info[u].named => newInfo[h].named
           /\ Posting(h, u) => newInfo[h].named
<1>1. /\ u \in Users /\ pc[h] = "info" /\ UNCHANGED <<mapped, profile, cut>>
      /\ info' = [info EXCEPT ![u] = newInfo[h]]
      /\ Race(h, u, info[u])
  BY DEF PutInfo, TInv, FlowOK
<1>2. u \notin raced
  BY RacedGrows
<1>3. newInfo[h].key # NoKey => HasKey(profile[u])
  BY <1>1, <1>2 DEF CInv, SaveOK
<1>4. ASSUME ~newInfo[h].named
      PROVE  ~info[u].named /\ ~Posting(h, u)
  <2>1. WasRead(base[h]) /\ ~base[h][1].named
    BY <1>1, <1>4 DEF CInv, SaveOK
  <2>2. base[h][1] = info[u]
    BY <1>1, <2>1, NoRace
  <2>3. req[h] \in OAuths
    BY <1>1, <1>4 DEF TInv, MadeOK
  <2>4. req[h] \notin Posts
    BY <2>3, CallTypes DEF Requests
  <2> QED BY <2>1, <2>2, <2>4 DEF Posting
<1>5. info[u].named => newInfo[h].named
  BY <1>4
<1>6. Posting(h, u) => newInfo[h].named
  BY <1>4
<1> QED BY <1>1, <1>3, <1>5, <1>6

LEMMA NextCInv == IInv /\ TInv /\ CInv /\ [Next]_vars => CInv'
<1> SUFFICES ASSUME IInv, TInv, CInv, [Next]_vars PROVE CInv'
  OBVIOUS
<1>1. ASSUME NEW u \in Users PROVE UserOK(u)'
  <2>1. UserOK(u) /\ mapped \subseteq mapped' /\ raced \subseteq raced' /\ cut \subseteq cut'
    BY Grows DEF CInv
  <2>2. CASE \E h \in Handlers : PutProfile(h) /\ owner[h] = u
    <3>1. PICK h \in Handlers : PutProfile(h) /\ owner[h] = u
      BY <2>2
    <3>2. /\ u \in mapped /\ UNCHANGED <<mapped, info, cut>>
          /\ profile[u] # None \/ Posting(h, u)'
          /\ u \notin raced' /\ HasKey(profile'[u]) =>
                 \/ HasKey(profile[u])
                 \/ Posting(h, u)' /\ pc'[h] = "info" /\ newInfo'[h].key # NoKey
      BY <3>1, ProfilePut
    <3>3. \A g \in Handlers : Posting(g, u) /\ u \notin cut' =>
              /\ Posting(g, u)'
              /\ pc[g] = "info" => pc'[g] = "info" /\ newInfo'[g] = newInfo[g]
      <4>1. \A g \in Handlers : ~PutInfo(g)
        BY <3>1, <3>2 DEF PutProfile, PutInfo, IInv, HandlersOK, Goto, SaveFeedinfo
      <4> QED BY <4>1, PostingOn
    <3>4. u \notin raced' /\ HasKey(profile[u]) => HasKey(profile'[u])
      BY ProfileKeyStep
    <3> QED BY <2>1, <3>2, <3>3, <3>4 DEF UserOK
  <2>3. CASE \E h \in Handlers : PutInfo(h) /\ owner[h] = u
    <3>1. PICK h \in Handlers : PutInfo(h) /\ owner[h] = u
      BY <2>3
    <3>2. CASE u \in raced'
      <4>1. UNCHANGED <<mapped, profile>>
        BY <3>1 DEF PutInfo
      <4> QED BY <2>1, <3>2, <4>1 DEF UserOK
    <3>3. CASE u \notin raced'
      <4>1. /\ UNCHANGED <<mapped, profile, cut>> /\ info'[u] = newInfo[h]
            /\ newInfo[h].key # NoKey => HasKey(profile[u])
            /\ info[u].named => newInfo[h].named
            /\ Posting(h, u) => newInfo[h].named
        <5>1. /\ UNCHANGED <<mapped, profile, cut>>
              /\ info' = [info EXCEPT ![u] = newInfo[h]]
              /\ newInfo[h].key # NoKey => HasKey(profile[u])
              /\ info[u].named => newInfo[h].named
              /\ Posting(h, u) => newInfo[h].named
          BY <3>1, <3>3, InfoPut
        <5> QED BY <5>1 DEF IInv, TablesOK
      <4>2. \A g \in Handlers \ {h} : ~PutInfo(g)
        BY <3>1 DEF PutInfo, Goto, IInv, HandlersOK
      <4>3. \A g \in Handlers \ {h} : Posting(g, u) /\ u \notin cut' =>
                /\ Posting(g, u)'
                /\ pc[g] = "info" => pc'[g] = "info" /\ newInfo'[g] = newInfo[g]
        BY <4>2, PostingOn
      <4>4. info[u].key # NoKey => newInfo[h].key # NoKey
        BY <3>3, <4>1, InfoKeyStep
      <4>5. u \notin cut' => u \notin raced \union cut
        BY <2>1, <3>3
      <4> QED BY <2>1, <3>3, <4>1, <4>3, <4>4, <4>5 DEF UserOK
    <3> QED BY <3>2, <3>3
  <2>4. CASE /\ \A h \in Handlers : PutProfile(h) => owner[h] # u
             /\ \A h \in Handlers : PutInfo(h) => owner[h] # u
    <3>1. profile'[u] = profile[u]
      BY <2>4, OneWriter DEF PutProfile, IInv, TablesOK
    <3>2. info'[u] = info[u]
      BY <2>4, OneWriter DEF PutInfo, IInv, TablesOK
    <3>3. \A g \in Handlers : Posting(g, u) /\ u \notin cut' =>
              /\ Posting(g, u)'
              /\ pc[g] = "info" => pc'[g] = "info" /\ newInfo'[g] = newInfo[g]
      BY <2>4, PostingOn DEF Posting
    <3> QED BY <2>1, <3>1, <3>2, <3>3 DEF UserOK
  <2> QED BY <2>2, <2>3, <2>4
<1>2. \A h \in Handlers : UpdateOK(h)' /\ SaveOK(h)'
  <2>1. CASE Respawn
    BY <2>1 DEF Respawn, UpdateOK, SaveOK
  <2>2. CASE \A g \in Handlers : Untouched(g)
    BY <2>2, UpdateOn DEF CInv
  <2>3. ASSUME NEW h \in Handlers, StepOf(h), \A g \in Handlers \ {h} : Untouched(g)
        PROVE  \A g \in Handlers : UpdateOK(g)' /\ SaveOK(g)'
    <3>1. UpdateOK(h)' /\ SaveOK(h)'
      BY <2>3, StepUpdates, StepSaves
    <3>2. \A g \in Handlers \ {h} : UpdateOK(g)' /\ SaveOK(g)'
      BY <2>3, UpdateOn DEF CInv
    <3> QED BY <3>1, <3>2
  <2> QED BY <2>1, <2>2, <2>3, WhoSteps
<1> QED BY <1>1, <1>2 DEF CInv

\* When nobody works on a user, a profile is found by its id and has a feed info
\* that can be saved, with a remote key exactly when the profile has one, unless
\* a PostFeedinfo was cut short or a write was lost (storage/table.go:95-140,
\* 225-260, server/server.go:86-115).
THEOREM CompleteTheorem == Spec => []AccountComplete
<1>1. CInv => AccountComplete
  <2> SUFFICES ASSUME CInv, NEW u \in Users \ (raced \union cut), profile[u] # None, ~Busy(u)
               PROVE  /\ u \in mapped /\ info[u].named
                      /\ HasKey(profile[u]) <=> info[u].key # NoKey
    BY DEF AccountComplete
  <2>1. \A h \in Handlers : ~Posting(h, u)
    BY DEF Busy, Posting
  <2> QED BY <2>1 DEF CInv, UserOK
<1> QED BY <1>1, InitIInv, InitTInv, InitCInv, NextIInv, NextTInv, NextCInv, PTL DEF Spec
=============================================================================
