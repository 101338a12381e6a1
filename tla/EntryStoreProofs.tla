--------------------------- MODULE EntryStoreProofs ---------------------------
(***************************************************************************)
(* TypeOK and the invariants of EntryStore for any number of handlers,     *)
(* entries, calls and crashes.  The order of the puts in PutEntry is what  *)
(* keeps KeysHaveEntries, ListedUnlessCut and SerialUnlessRaced; NothingTwice *)
(* holds because every edit looks for what it adds.                        *)
(***************************************************************************)
EXTENDS EntryStore, SequenceFacts, TLAPS

USE DEF Target, handler, ghosts, bounds

\* a handler that serves a call knows its entry
CallsOK == \A h \in Handlers : pc[h] # "idle" => Target(h) \in Entries

\* a handler about to put has a body, one past its put has an entry
PlacesOK ==
    \A h \in Handlers :
        /\ pc[h] \in {"check", "put", "update"} => draft[h] # None
        /\ pc[h] \in {"index", "spread"} => table[Target(h)] # None

\* the tables and the handlers' variables are functions
ShapeOK ==
    /\ table = [e \in Entries |-> table[e]]
    /\ pc = [h \in Handlers |-> pc[h]]
    /\ req = [h \in Handlers |-> req[h]]
    /\ draft = [h \in Handlers |-> draft[h]]

KeysInv == ShapeOK /\ CallsOK /\ PlacesOK /\ KeysHaveEntries

LEMMA RequestEntry == \A r \in Requests : r.entry \in Entries
BY DEF Requests, Posts, Likes, Remarks, Removals

LEMMA PostBody == \A r \in Posts : r.body # None
BY ConstantsAssumption DEF Posts

LEMMA KeysInit == Init => KeysInv
BY DEF Init, KeysInv, ShapeOK, CallsOK, PlacesOK, KeysHaveEntries, Stored

\* A step of one handler that leaves the tables alone, and takes its handler
\* to a place where it has what it needs there, keeps the invariant.
LEMMA LocalStep ==
    ASSUME KeysInv, UNCHANGED <<table, revIndex, public>>, ShapeOK',
           NEW h \in Handlers,
           \A g \in Handlers \ {h} :
               pc'[g] = pc[g] /\ req'[g] = req[g] /\ draft'[g] = draft[g],
           pc'[h] # "idle" => req'[h].entry \in Entries,
           pc'[h] \in {"check", "put", "update"} => draft'[h] # None,
           pc'[h] \in {"index", "spread"} => table[req'[h].entry] # None
    PROVE  KeysInv'
<1>1. CallsOK' /\ PlacesOK'
  BY DEF KeysInv, CallsOK, PlacesOK
<1>2. KeysHaveEntries'
  BY DEF KeysInv, KeysHaveEntries, Stored
<1> QED BY <1>1, <1>2 DEF KeysInv

LEMMA CallKeeps ==
    ASSUME KeysInv, NEW h \in Handlers, NEW r \in Requests, Call(h, r)
    PROVE  KeysInv'
<1>1. ShapeOK' /\ UNCHANGED <<table, revIndex, public>>
  BY DEF KeysInv, ShapeOK, Call, Goto
<1>2. \A g \in Handlers \ {h} :
          pc'[g] = pc[g] /\ req'[g] = req[g] /\ draft'[g] = draft[g]
  BY DEF KeysInv, ShapeOK, Call, Goto
<1>3. /\ pc'[h] = (IF r \in Posts THEN "check" ELSE "read")
      /\ req'[h] = r
      /\ draft'[h] = (IF r \in Posts THEN r.body ELSE None)
  BY DEF KeysInv, ShapeOK, Call, Goto
<1> QED BY <1>1, <1>2, <1>3, RequestEntry, PostBody, LocalStep

LEMMA ReadKeeps == ASSUME KeysInv, NEW h \in Handlers, ReadEntry(h) PROVE KeysInv'
<1> DEFINE old == table[Target(h)]
           new == IF old = None THEN None ELSE Edited(req[h], old)
<1>1. ShapeOK' /\ UNCHANGED <<table, revIndex, public, req>>
  BY DEF KeysInv, ShapeOK, ReadEntry, Goto
<1>2. \A g \in Handlers \ {h} : pc'[g] = pc[g] /\ draft'[g] = draft[g]
  BY DEF KeysInv, ShapeOK, ReadEntry, Goto
<1>3. /\ pc'[h] = (IF new = None THEN "idle" ELSE "check")
      /\ draft'[h] = new
  BY DEF KeysInv, ShapeOK, ReadEntry, Goto
<1>4. Target(h) \in Entries
  BY DEF KeysInv, CallsOK, ReadEntry
<1> HIDE DEF new
<1> QED BY <1>1, <1>2, <1>3, <1>4, LocalStep

LEMMA CheckKeeps == ASSUME KeysInv, NEW h \in Handlers, CheckExists(h) PROVE KeysInv'
<1>1. ShapeOK' /\ UNCHANGED <<table, revIndex, public, req, draft>>
  BY DEF KeysInv, ShapeOK, CheckExists, Goto
<1>2. \A g \in Handlers \ {h} : pc'[g] = pc[g]
  BY DEF KeysInv, ShapeOK, CheckExists, Goto
<1>3. pc'[h] \in {"idle", "put", "update"}
  BY DEF KeysInv, ShapeOK, CheckExists, Goto
<1>4. Target(h) \in Entries /\ draft[h] # None
  BY DEF KeysInv, CallsOK, PlacesOK, CheckExists
<1> QED BY <1>1, <1>2, <1>3, <1>4, LocalStep

\* A put only adds entries, and its handler goes on with one that is there.
LEMMA PutKeeps ==
    ASSUME KeysInv, NEW h \in Handlers, PutUpdate(h) \/ PutNew(h)
    PROVE  KeysInv'
<1>1. /\ Target(h) \in Entries /\ draft[h] # None
      /\ table' = [table EXCEPT ![Target(h)] = draft[h]]
      /\ UNCHANGED <<revIndex, public, req, draft>>
  BY DEF KeysInv, CallsOK, PlacesOK, PutUpdate, PutNew, Put
<1>2. \A e \in Entries : table[e] # None => table'[e] # None
  BY <1>1 DEF KeysInv, ShapeOK
<1>3. table'[Target(h)] # None
  BY <1>1 DEF KeysInv, ShapeOK
<1>4. /\ ShapeOK'
      /\ pc'[h] \in {"idle", "index", "spread"}
      /\ \A g \in Handlers \ {h} : pc'[g] = pc[g]
  BY <1>1 DEF KeysInv, ShapeOK, PutUpdate, PutNew, Goto
<1>5. CallsOK' /\ PlacesOK'
  BY <1>1, <1>2, <1>3, <1>4 DEF KeysInv, CallsOK, PlacesOK
<1>6. KeysHaveEntries'
  BY <1>1, <1>2 DEF KeysInv, KeysHaveEntries, Stored
<1> QED BY <1>4, <1>5, <1>6 DEF KeysInv

LEMMA IndexKeeps == ASSUME KeysInv, NEW h \in Handlers, PutIndex(h) PROVE KeysInv'
<1>1. /\ Target(h) \in Entries /\ table[Target(h)] # None
      /\ UNCHANGED <<table, public, req, draft>>
  BY DEF KeysInv, CallsOK, PlacesOK, PutIndex
<1>2. \A k \in DOMAIN revIndex' :
          \/ revIndex'[k] = Target(h)
          \/ k \in DOMAIN revIndex /\ revIndex'[k] = revIndex[k]
  <2> DEFINE key == IndexKey(Target(h))
  <2>1. revIndex' = [k \in DOMAIN revIndex \union {key} |->
                        IF k = key THEN Target(h) ELSE revIndex[k]]
    BY DEF PutIndex, Indexed
  <2> HIDE DEF key
  <2> QED BY <2>1
<1>3. KeysHaveEntries'
  BY <1>1, <1>2 DEF KeysInv, KeysHaveEntries, Stored
<1>4. ShapeOK' /\ pc'[h] = "spread" /\ \A g \in Handlers \ {h} : pc'[g] = pc[g]
  BY <1>1 DEF KeysInv, ShapeOK, PutIndex, Goto
<1>5. CallsOK' /\ PlacesOK'
  BY <1>1, <1>4 DEF KeysInv, CallsOK, PlacesOK
<1> QED BY <1>3, <1>4, <1>5 DEF KeysInv

LEMMA SpreadKeeps == ASSUME KeysInv, NEW h \in Handlers, Spread(h) PROVE KeysInv'
<1>1. /\ Target(h) \in Entries /\ table[Target(h)] # None
      /\ public' = public \union {Target(h)}
      /\ UNCHANGED <<table, revIndex, req, draft>>
  BY DEF KeysInv, CallsOK, PlacesOK, Spread
<1>2. KeysHaveEntries'
  BY <1>1 DEF KeysInv, KeysHaveEntries, Stored
<1>3. ShapeOK' /\ pc'[h] = "idle" /\ \A g \in Handlers \ {h} : pc'[g] = pc[g]
  BY <1>1 DEF KeysInv, ShapeOK, Spread, Goto
<1>4. CallsOK' /\ PlacesOK'
  BY <1>1, <1>3 DEF KeysInv, CallsOK, PlacesOK
<1> QED BY <1>2, <1>3, <1>4 DEF KeysInv

\* A crash drops every handler and keeps both tables.
LEMMA CrashKeeps == ASSUME KeysInv, Crash PROVE KeysInv'
BY DEF KeysInv, ShapeOK, CallsOK, PlacesOK, KeysHaveEntries, Stored, Crash

LEMMA KeysStep == KeysInv /\ [Next]_vars => KeysInv'
<1> SUFFICES ASSUME KeysInv, [Next]_vars PROVE KeysInv'
  OBVIOUS
<1>1. ASSUME NEW h \in Handlers, NEW r \in Requests, Call(h, r) PROVE KeysInv'
  BY <1>1, CallKeeps
<1>2. ASSUME NEW h \in Handlers, ReadEntry(h) PROVE KeysInv'
  BY <1>2, ReadKeeps
<1>3. ASSUME NEW h \in Handlers, CheckExists(h) PROVE KeysInv'
  BY <1>3, CheckKeeps
<1>4. ASSUME NEW h \in Handlers, PutUpdate(h) \/ PutNew(h) PROVE KeysInv'
  BY <1>4, PutKeeps
<1>5. ASSUME NEW h \in Handlers, PutIndex(h) PROVE KeysInv'
  BY <1>5, IndexKeeps
<1>6. ASSUME NEW h \in Handlers, Spread(h) PROVE KeysInv'
  BY <1>6, SpreadKeeps
<1>7. CASE Crash
  BY <1>7, CrashKeeps
<1>8. CASE UNCHANGED vars
  BY <1>8 DEF vars, KeysInv, ShapeOK, CallsOK, PlacesOK, KeysHaveEntries, Stored
<1> QED BY <1>1, <1>2, <1>3, <1>4, <1>5, <1>6, <1>7, <1>8 DEF Next

\* No key of a feed or of the public page is ever without its entry, for any
\* interleaving of any number of handlers and crashes.
THEOREM KeysTheorem == Spec => []KeysHaveEntries
<1>1. KeysInv => KeysHaveEntries
  BY DEF KeysInv
<1> QED BY <1>1, KeysInit, KeysStep, PTL DEF Spec

-----------------------------------------------------------------------------
(* The history: what an entry is made of and where it is listed.           *)

HistoryShape ==
    /\ base = [h \in Handlers |-> base[h]]
    /\ wanted = [e \in Entries |-> wanted[e]]

\* what a handler knows where it is: a posted body is put as it came, an edit
\* is one of what was read, only a post goes to an entry that is not there
FlowOK ==
    \A h \in Handlers :
        /\ pc[h] # "idle" => req[h] \in Requests
        /\ pc[h] = "read" => req[h] \notin Posts
        /\ pc[h] \in {"check", "update"} /\ req[h] \notin Posts =>
            /\ base[h] # None /\ draft[h] = Edited(req[h], base[h])
            /\ table[Target(h)] # None
        /\ pc[h] \in {"check", "put", "update"} /\ req[h] \in Posts =>
            draft[h] = req[h].body
        /\ pc[h] = "put" => req[h] \in Posts
        /\ pc[h] = "update" => table[Target(h)] # None /\ req[h].op # "post"
        /\ pc[h] = "index" => Second[Target(h)] # NoDate

\* a key is that of its entry, which has a date
OwnKey ==
    \A k \in DOMAIN revIndex :
        /\ revIndex[k] \in Entries
        /\ IndexKey(revIndex[k]) = k /\ Second[revIndex[k]] # NoDate

\* an entry has its key, or a handler is about to put it
KeyOrHandler ==
    \A e \in Stored \ cut :
        \/ IndexKey(e) \in DOMAIN revIndex
        \/ \E h \in Handlers : pc[h] = "index" /\ Target(h) = e

\* an entry that was not cut has a date
Dated == \A e \in Stored \ cut : Second[e] # NoDate

HistoryInv ==
    /\ KeysInv /\ HistoryShape /\ FlowOK
    /\ OwnKey /\ KeyOrHandler /\ Dated /\ SerialUnlessRaced

LEMMA PostOps ==
    /\ \A r \in Posts : r.op \in {"post", "force"}
    /\ \A r \in Requests \ Posts : r.op \notin {"post", "force"}
BY DEF Requests, Posts, Likes, Remarks, Removals

LEMMA HistoryInit == Init => HistoryInv
<1> SUFFICES ASSUME Init PROVE HistoryInv
  OBVIOUS
<1> QED BY KeysInit DEF Init, HistoryInv, HistoryShape, FlowOK, OwnKey, KeyOrHandler,
          Dated, SerialUnlessRaced, Stored

\* A step of one handler that leaves the tables and ghosts alone, and does not
\* start or end at the index put.
LEMMA QuietStep ==
    ASSUME HistoryInv, KeysInv', HistoryShape',
           UNCHANGED <<table, revIndex, ghosts>>,
           NEW h \in Handlers, pc[h] # "index", pc'[h] # "index",
           \A g \in Handlers \ {h} :
               /\ pc'[g] = pc[g] /\ req'[g] = req[g]
               /\ draft'[g] = draft[g] /\ base'[g] = base[g],
           /\ pc'[h] # "idle" => req'[h] \in Requests
           /\ pc'[h] = "read" => req'[h] \notin Posts
           /\ pc'[h] \in {"check", "update"} /\ req'[h] \notin Posts =>
               /\ base'[h] # None /\ draft'[h] = Edited(req'[h], base'[h])
               /\ table[req'[h].entry] # None
           /\ pc'[h] \in {"check", "put", "update"} /\ req'[h] \in Posts =>
               draft'[h] = req'[h].body
           /\ pc'[h] = "put" => req'[h] \in Posts
           /\ pc'[h] = "update" => table[req'[h].entry] # None /\ req'[h].op # "post"
    PROVE  HistoryInv'
<1>1. FlowOK'
  BY DEF HistoryInv, FlowOK
<1>2. OwnKey' /\ SerialUnlessRaced'
  BY DEF HistoryInv, OwnKey, SerialUnlessRaced, IndexKey
<1>3. KeyOrHandler' /\ Dated'
  BY DEF HistoryInv, KeyOrHandler, Dated, Stored, IndexKey
<1> QED BY <1>1, <1>2, <1>3 DEF HistoryInv

LEMMA CallHistory ==
    ASSUME HistoryInv, KeysInv', NEW h \in Handlers, NEW r \in Requests, Call(h, r)
    PROVE  HistoryInv'
<1>1. HistoryShape' /\ UNCHANGED <<table, revIndex, ghosts>> /\ pc[h] = "idle"
  BY DEF HistoryInv, HistoryShape, KeysInv, ShapeOK, Call, Goto
<1>2. \A g \in Handlers \ {h} :
          /\ pc'[g] = pc[g] /\ req'[g] = req[g]
          /\ draft'[g] = draft[g] /\ base'[g] = base[g]
  BY DEF HistoryInv, HistoryShape, KeysInv, ShapeOK, Call, Goto
<1>3. /\ pc'[h] = (IF r \in Posts THEN "check" ELSE "read")
      /\ req'[h] = r
      /\ draft'[h] = (IF r \in Posts THEN r.body ELSE None)
  BY DEF HistoryInv, HistoryShape, KeysInv, ShapeOK, Call, Goto
<1> QED BY <1>1, <1>2, <1>3, QuietStep

LEMMA ReadHistory ==
    ASSUME HistoryInv, KeysInv', NEW h \in Handlers, ReadEntry(h)
    PROVE  HistoryInv'
<1> DEFINE old == table[Target(h)]
           new == IF old = None THEN None ELSE Edited(req[h], old)
<1>1. HistoryShape' /\ UNCHANGED <<table, revIndex, req, ghosts>> /\ pc[h] = "read"
  BY DEF HistoryInv, HistoryShape, KeysInv, ShapeOK, ReadEntry, Goto
<1>2. \A g \in Handlers \ {h} :
          pc'[g] = pc[g] /\ draft'[g] = draft[g] /\ base'[g] = base[g]
  BY DEF HistoryInv, HistoryShape, KeysInv, ShapeOK, ReadEntry, Goto
<1>3. /\ pc'[h] = (IF new = None THEN "idle" ELSE "check")
      /\ draft'[h] = new /\ base'[h] = old
  BY DEF HistoryInv, HistoryShape, KeysInv, ShapeOK, ReadEntry, Goto
<1>4. req[h] \in Requests /\ req[h] \notin Posts
  BY <1>1 DEF HistoryInv, FlowOK, ReadEntry
<1>5. new # None => old # None /\ new = Edited(req[h], old)
  OBVIOUS
<1> HIDE DEF new
<1> QED BY <1>1, <1>2, <1>3, <1>4, <1>5, QuietStep

LEMMA CheckHistory ==
    ASSUME HistoryInv, KeysInv', NEW h \in Handlers, CheckExists(h)
    PROVE  HistoryInv'
<1>1. HistoryShape' /\ UNCHANGED <<table, revIndex, req, draft, base, ghosts>>
  BY DEF HistoryInv, HistoryShape, CheckExists
<1>2. /\ pc[h] = "check" /\ \A g \in Handlers \ {h} : pc'[g] = pc[g]
      /\ pc'[h] = IF table[Target(h)] = None THEN "put"
                  ELSE IF req[h].op = "post" THEN "idle" ELSE "update"
  BY DEF HistoryInv, KeysInv, ShapeOK, CheckExists, Goto
<1>3. req[h] \in Requests
  BY <1>2 DEF HistoryInv, FlowOK
<1>4. req[h] \notin Posts =>
          /\ base[h] # None /\ draft[h] = Edited(req[h], base[h])
          /\ table[Target(h)] # None
  BY <1>2 DEF HistoryInv, FlowOK
<1>5. req[h] \in Posts => draft[h] = req[h].body
  BY <1>2 DEF HistoryInv, FlowOK
<1> QED BY <1>1, <1>2, <1>3, <1>4, <1>5, QuietStep

\* The body that is put is what the call makes of the entry, if the entry is
\* still what the handler read.
LEMMA PutSerial ==
    ASSUME HistoryInv, NEW h \in Handlers, PutUpdate(h) \/ PutNew(h), SerialUnlessRaced
    PROVE  SerialUnlessRaced'
<1>1. /\ Target(h) \in Entries /\ draft[h] # None /\ req[h] \in Requests
      /\ table' = [table EXCEPT ![Target(h)] = draft[h]]
      /\ wanted' = [wanted EXCEPT ![Target(h)] = Effect(req[h], @)]
      /\ raced \subseteq raced'
  BY DEF HistoryInv, FlowOK, KeysInv, CallsOK, PlacesOK, PutUpdate, PutNew, Put
<1>2. table'[Target(h)] = draft[h] /\ wanted'[Target(h)] = Effect(req[h], wanted[Target(h)])
  BY <1>1 DEF HistoryInv, HistoryShape, KeysInv, ShapeOK
<1>3. \A e \in Entries \ {Target(h)} : table'[e] = table[e] /\ wanted'[e] = wanted[e]
  BY <1>1 DEF HistoryInv, HistoryShape, KeysInv, ShapeOK
<1>4. ASSUME Target(h) \notin raced' PROVE Effect(req[h], wanted[Target(h)]) = draft[h]
  <2>1. wanted[Target(h)] = table[Target(h)]
    BY <1>1, <1>4 DEF SerialUnlessRaced
  <2>2. CASE PutUpdate(h) /\ req[h] \notin Posts
    <3>1. /\ table[Target(h)] = base[h] /\ base[h] # None
          /\ draft[h] = Edited(req[h], base[h])
      BY <2>2, <1>4 DEF PutUpdate, HistoryInv, FlowOK
    <3>2. req[h].op \notin {"post", "force"}
      BY <1>1, <2>2, PostOps
    <3> QED BY <1>1, <2>1, <3>1, <3>2 DEF Effect
  <2>3. CASE PutUpdate(h) /\ req[h] \in Posts
    <3>1. req[h].op = "force" /\ draft[h] = req[h].body
      BY <2>3, PostOps DEF PutUpdate, HistoryInv, FlowOK
    <3> QED BY <3>1 DEF Effect
  <2>4. CASE PutNew(h)
    <3>1. req[h] \in Posts /\ draft[h] = req[h].body /\ table[Target(h)] = None
      BY <2>4, <1>4 DEF PutNew, HistoryInv, FlowOK
    <3> QED BY <2>1, <3>1, PostOps DEF Effect
  <2> QED BY <2>2, <2>3, <2>4
<1> QED BY <1>1, <1>2, <1>3, <1>4 DEF SerialUnlessRaced

LEMMA PutHistory ==
    ASSUME HistoryInv, KeysInv', NEW h \in Handlers, PutUpdate(h) \/ PutNew(h)
    PROVE  HistoryInv'
<1>1. /\ Target(h) \in Entries /\ draft[h] # None /\ req[h] \in Requests
      /\ table' = [table EXCEPT ![Target(h)] = draft[h]]
      /\ UNCHANGED <<revIndex, req, draft, base>>
  BY DEF HistoryInv, FlowOK, KeysInv, CallsOK, PlacesOK, PutUpdate, PutNew, Put
<1>2. /\ \A e \in Entries \ {Target(h)} : table'[e] = table[e]
      /\ table'[Target(h)] # None
  BY <1>1 DEF HistoryInv, KeysInv, ShapeOK
<1>3. HistoryShape'
  BY <1>1 DEF HistoryInv, HistoryShape, PutUpdate, PutNew, Put
<1>4. \A g \in Handlers \ {h} : pc'[g] = pc[g]
  BY DEF HistoryInv, KeysInv, ShapeOK, PutUpdate, PutNew, Goto
<1>5. \/ PutUpdate(h) /\ pc'[h] \in {"idle", "spread"}
      \/ PutNew(h) /\ Second[Target(h)] = NoDate /\ pc'[h] = "idle"
         /\ cut' = cut \union {Target(h)}
      \/ PutNew(h) /\ Second[Target(h)] # NoDate /\ pc'[h] = "index"
  BY DEF HistoryInv, KeysInv, ShapeOK, PutUpdate, PutNew, Goto
<1>6. FlowOK'
  <2> SUFFICES ASSUME NEW g \in Handlers PROVE FlowOK!(g)'
    BY DEF FlowOK
  <2>1. CASE g = h
    BY <2>1, <1>1, <1>5 DEF FlowOK
  <2>2. CASE g # h
    <3>1. table[Target(g)] # None /\ Target(g) \in Entries => table'[Target(g)] # None
      BY <1>2
    <3>2. pc[g] # "idle" => Target(g) \in Entries
      BY DEF HistoryInv, KeysInv, CallsOK
    <3> QED BY <2>2, <3>1, <3>2, <1>1, <1>4 DEF HistoryInv, FlowOK
  <2> QED BY <2>1, <2>2
<1>7. OwnKey'
  BY <1>1 DEF HistoryInv, OwnKey, IndexKey
<1>8. KeyOrHandler'
  <2> SUFFICES ASSUME NEW e \in Stored' \ cut', IndexKey(e) \notin DOMAIN revIndex
               PROVE  \E g \in Handlers : pc'[g] = "index" /\ Target(g)' = e
    BY <1>1 DEF KeyOrHandler, IndexKey
  <2>1. cut \subseteq cut' /\ e \in Entries
    BY DEF PutUpdate, PutNew, Stored
  <2>2. CASE e # Target(h)
    <3>1. e \in Stored \ cut
      BY <2>1, <2>2, <1>2 DEF Stored
    <3>2. PICK g \in Handlers : pc[g] = "index" /\ Target(g) = e
      BY <3>1 DEF HistoryInv, KeyOrHandler
    <3> QED BY <3>2, <1>1, <1>4, <2>2
  <2>3. CASE e = Target(h) /\ PutUpdate(h)
    <3>1. e \in Stored \ cut
      BY <2>1, <2>3 DEF HistoryInv, FlowOK, PutUpdate, Stored
    <3>2. PICK g \in Handlers : pc[g] = "index" /\ Target(g) = e
      BY <3>1 DEF HistoryInv, KeyOrHandler
    <3>3. g # h
      BY <3>2, <2>3 DEF PutUpdate
    <3> QED BY <3>2, <3>3, <1>1, <1>4
  <2>4. CASE e = Target(h) /\ PutNew(h)
    BY <2>1, <2>4, <1>1, <1>5 DEF PutUpdate, PutNew
  <2> QED BY <2>2, <2>3, <2>4
<1>9. SerialUnlessRaced'
  BY PutSerial DEF HistoryInv
<1>10. Dated'
  <2> SUFFICES ASSUME NEW e \in Stored' \ cut' PROVE Second[e] # NoDate
    BY DEF Dated
  <2>1. cut \subseteq cut' /\ e \in Entries
    BY DEF PutUpdate, PutNew, Stored
  <2>2. CASE e # Target(h)
    BY <2>1, <2>2, <1>2 DEF HistoryInv, Dated, Stored
  <2>3. CASE e = Target(h) /\ PutUpdate(h)
    BY <2>1, <2>3 DEF HistoryInv, Dated, FlowOK, PutUpdate, Stored
  <2>4. CASE e = Target(h) /\ PutNew(h)
    BY <2>4 DEF PutNew
  <2> QED BY <2>2, <2>3, <2>4
<1> QED BY <1>3, <1>6, <1>7, <1>8, <1>9, <1>10 DEF HistoryInv

LEMMA IndexHistory ==
    ASSUME HistoryInv, KeysInv', NEW h \in Handlers, PutIndex(h)
    PROVE  HistoryInv'
<1> DEFINE key == IndexKey(Target(h))
<1>1. /\ UNCHANGED <<table, req, draft, base, ghosts>> /\ HistoryShape'
      /\ Target(h) \in Entries /\ Second[Target(h)] # NoDate
  BY DEF HistoryInv, HistoryShape, FlowOK, KeysInv, CallsOK, PutIndex
<1>2. revIndex' = [k \in DOMAIN revIndex \union {key} |->
                      IF k = key THEN Target(h) ELSE revIndex[k]]
  BY DEF PutIndex, Indexed
<1>3. pc'[h] = "spread" /\ \A g \in Handlers \ {h} : pc'[g] = pc[g]
  BY DEF HistoryInv, KeysInv, ShapeOK, PutIndex, Goto
<1>4. FlowOK'
  <2> SUFFICES ASSUME NEW g \in Handlers PROVE FlowOK!(g)'
    BY DEF FlowOK
  <2>1. CASE g = h
    BY <2>1, <1>1, <1>3 DEF HistoryInv, FlowOK, PutIndex
  <2>2. CASE g # h
    BY <2>2, <1>1, <1>3 DEF HistoryInv, FlowOK
  <2> QED BY <2>1, <2>2
<1>5. OwnKey'
  <2>1. key = IndexKey(Target(h))
    OBVIOUS
  <2> HIDE DEF key
  <2> QED BY <1>1, <1>2, <2>1 DEF HistoryInv, OwnKey, IndexKey
<1>6. KeyOrHandler'
  <2> SUFFICES ASSUME NEW e \in Stored \ cut, IndexKey(e) \notin DOMAIN revIndex'
               PROVE  \E g \in Handlers : pc'[g] = "index" /\ Target(g) = e
    BY <1>1 DEF KeyOrHandler, IndexKey, Stored
  <2>1. e # Target(h) /\ IndexKey(e) \notin DOMAIN revIndex
    <3> HIDE DEF key
    <3>1. key \in DOMAIN revIndex' /\ DOMAIN revIndex \subseteq DOMAIN revIndex'
      BY <1>2
    <3> QED BY <3>1 DEF key
  <2>2. PICK g \in Handlers : pc[g] = "index" /\ Target(g) = e
    BY <2>1 DEF HistoryInv, KeyOrHandler
  <2> QED BY <2>1, <2>2, <1>3
<1>7. SerialUnlessRaced' /\ Dated'
  BY <1>1 DEF HistoryInv, SerialUnlessRaced, Dated, Stored
<1> QED BY <1>1, <1>4, <1>5, <1>6, <1>7 DEF HistoryInv

LEMMA SpreadHistory ==
    ASSUME HistoryInv, KeysInv', NEW h \in Handlers, Spread(h)
    PROVE  HistoryInv'
<1>1. UNCHANGED <<table, revIndex, req, draft, base, ghosts>> /\ HistoryShape'
  BY DEF HistoryInv, HistoryShape, Spread
<1>2. /\ pc[h] = "spread" /\ pc'[h] = "idle"
      /\ \A g \in Handlers \ {h} : pc'[g] = pc[g]
  BY DEF HistoryInv, KeysInv, ShapeOK, Spread, Goto
<1> QED BY <1>1, <1>2, QuietStep

\* What a crash cuts is marked.
LEMMA CrashHistory == ASSUME HistoryInv, KeysInv', Crash PROVE HistoryInv'
<1>1. /\ UNCHANGED <<table, revIndex, req, draft, base, raced, wanted>>
      /\ \A h \in Handlers : pc'[h] = "idle"
      /\ cut' = cut \union {Target(h) : h \in {g \in Handlers : pc[g] = "index"}}
  BY DEF Crash
<1>2. HistoryShape' /\ FlowOK' /\ OwnKey' /\ SerialUnlessRaced'
  BY <1>1 DEF HistoryInv, HistoryShape, FlowOK, OwnKey, IndexKey, SerialUnlessRaced
<1>3. KeyOrHandler' /\ Dated'
  BY <1>1 DEF HistoryInv, KeyOrHandler, Dated, Stored, IndexKey
<1> QED BY <1>2, <1>3 DEF HistoryInv

LEMMA HistoryStep == HistoryInv /\ [Next]_vars => HistoryInv'
<1> SUFFICES ASSUME HistoryInv, [Next]_vars PROVE HistoryInv'
  OBVIOUS
<1> KeysInv'
  BY KeysStep DEF HistoryInv
<1>1. ASSUME NEW h \in Handlers, NEW r \in Requests, Call(h, r) PROVE HistoryInv'
  BY <1>1, CallHistory
<1>2. ASSUME NEW h \in Handlers, ReadEntry(h) PROVE HistoryInv'
  BY <1>2, ReadHistory
<1>3. ASSUME NEW h \in Handlers, CheckExists(h) PROVE HistoryInv'
  BY <1>3, CheckHistory
<1>4. ASSUME NEW h \in Handlers, PutUpdate(h) \/ PutNew(h) PROVE HistoryInv'
  BY <1>4, PutHistory
<1>5. ASSUME NEW h \in Handlers, PutIndex(h) PROVE HistoryInv'
  BY <1>5, IndexHistory
<1>6. ASSUME NEW h \in Handlers, Spread(h) PROVE HistoryInv'
  BY <1>6, SpreadHistory
<1>7. CASE Crash
  BY <1>7, CrashHistory
<1>8. CASE UNCHANGED vars
  BY <1>8 DEF vars, HistoryInv, HistoryShape, FlowOK, OwnKey, IndexKey, KeyOrHandler,
      Dated, Stored, SerialUnlessRaced
<1> QED BY <1>1, <1>2, <1>3, <1>4, <1>5, <1>6, <1>7, <1>8 DEF Next

\* An entry that was put whole is in its author's feed, whatever handlers
\* interleave and whenever the process crashes, or another entry of its author
\* and second has its key.
THEOREM ListedTheorem == Spec => []ListedUnlessCut
<1>1. HistoryInv => ListedUnlessCut
  <2> SUFFICES ASSUME HistoryInv, NEW e \in Stored \ cut,
                      \A h \in Handlers : pc[h] = "index" => Target(h) # e
               PROVE  /\ IndexKey(e) \in DOMAIN revIndex
                      /\ LET shown == revIndex[IndexKey(e)]
                         IN  Author[shown] = Author[e] /\ Second[shown] = Second[e]
    BY DEF ListedUnlessCut
  <2>1. IndexKey(e) \in DOMAIN revIndex
    BY DEF HistoryInv, KeyOrHandler
  <2>2. PICK shown \in Entries : shown = revIndex[IndexKey(e)]
    BY <2>1 DEF HistoryInv, OwnKey
  <2>3. IndexKey(shown) = IndexKey(e) /\ Second[shown] # NoDate /\ Second[e] # NoDate
    BY <2>1, <2>2 DEF HistoryInv, OwnKey, Dated
  <2>4. Author[shown] = Author[e] /\ MaxSecond - Second[shown] = MaxSecond - Second[e]
    BY <2>3 DEF IndexKey
  <2>5. /\ MaxSecond \in Nat
        /\ Second[shown] \in 0 .. MaxSecond /\ Second[e] \in 0 .. MaxSecond
    BY <2>3, ConstantsAssumption DEF Stored
  <2>6. Second[shown] = Second[e]
    BY <2>4, <2>5
  <2> QED BY <2>1, <2>2, <2>4, <2>6
<1> QED BY <1>1, HistoryInit, HistoryStep, PTL DEF Spec

\* An entry that no handler put over a value it had not read is what the calls
\* would have left one after the other.
THEOREM SerialTheorem == Spec => []SerialUnlessRaced
<1>1. HistoryInv => SerialUnlessRaced
  BY DEF HistoryInv
<1> QED BY <1>1, HistoryInit, HistoryStep, PTL DEF Spec

-----------------------------------------------------------------------------
(* The bodies: an edit of a body in which nothing is twice is another.     *)

\* Appending something new, removing or replacing in place doubles nothing.
LEMMA LikeOnce ==
    ASSUME NEW body \in Bodies, Once(body), NEW user \in Users, Like(user, body) # None
    PROVE  Like(user, body) \in Bodies /\ Once(Like(user, body))
<1> DEFINE ls == body.likes
<1>1. /\ Like(user, body) = [likes |-> Append(ls, user), comments |-> body.comments]
      /\ \A i \in 1 .. Len(ls) : ls[i] # user
  BY DEF Like, Contains
<1>2. /\ ls \in Seq(Users) /\ body.comments \in Seq(Comments)
      /\ \A i, j \in 1 .. Len(ls) : ls[i] = ls[j] => i = j
      /\ \A i, j \in DOMAIN body.comments :
          body.comments[i].id = body.comments[j].id => i = j
  BY DEF Bodies, Once, IsInjective
<1> HIDE DEF ls
<1>3. \A i, j \in 1 .. Len(ls) + 1 : Append(ls, user)[i] = Append(ls, user)[j] => i = j
  BY <1>1, <1>2
<1>4. Append(ls, user) \in Seq(Users) /\ DOMAIN Append(ls, user) = 1 .. Len(ls) + 1
  BY <1>2
<1> QED BY <1>1, <1>2, <1>3, <1>4 DEF Bodies, Once, IsInjective

LEMMA DeleteLikeOnce ==
    ASSUME NEW body \in Bodies, Once(body), NEW user \in Users,
           DeleteLike(user, body) # None
    PROVE  DeleteLike(user, body) \in Bodies /\ Once(DeleteLike(user, body))
<1> DEFINE ls == body.likes
           I == {i \in 1 .. Len(ls) : ls[i] = user}
           k == IF I # {} THEN Min(I) ELSE 0
<1>1. SelectInSeq(ls, LAMBDA from : from = user) = k
  BY DEF SelectInSeq
<1>2. k # 0 /\ DeleteLike(user, body) =
          [likes |-> RemoveAt(ls, k), comments |-> body.comments]
  BY <1>1 DEF DeleteLike
<1>3. /\ ls \in Seq(Users) /\ body.comments \in Seq(Comments)
      /\ \A i, j \in 1 .. Len(ls) : ls[i] = ls[j] => i = j
      /\ \A i, j \in DOMAIN body.comments :
          body.comments[i].id = body.comments[j].id => i = j
  BY DEF Bodies, Once, IsInjective
<1>4. I \in SUBSET (1 .. Len(ls)) /\ Len(ls) \in Nat
  BY <1>3
<1> HIDE DEF I
<1>5. k \in 1 .. Len(ls)
  BY <1>2, <1>4, PositionFact
<1> HIDE DEF k, ls
<1>6. /\ RemoveAt(ls, k) \in Seq(Users) /\ Len(RemoveAt(ls, k)) = Len(ls) - 1
      /\ \A j \in 1 .. Len(ls) - 1 :
            RemoveAt(ls, k)[j] = IF j < k THEN ls[j] ELSE ls[j + 1]
  BY <1>3, <1>5, RemoveAtFact
<1>7. ASSUME NEW i \in 1 .. Len(ls) - 1, NEW j \in 1 .. Len(ls) - 1,
             RemoveAt(ls, k)[i] = RemoveAt(ls, k)[j]
      PROVE  i = j
  BY <1>3, <1>4, <1>5, <1>6, <1>7
<1>8. DOMAIN RemoveAt(ls, k) = 1 .. Len(ls) - 1
  BY <1>6
<1> QED BY <1>2, <1>3, <1>6, <1>7, <1>8 DEF Bodies, Once, IsInjective

LEMMA DeleteCommentOnce ==
    ASSUME NEW body \in Bodies, Once(body), NEW id, DeleteComment(id, body) # None
    PROVE  DeleteComment(id, body) \in Bodies /\ Once(DeleteComment(id, body))
<1> DEFINE cs == body.comments
           I == {i \in 1 .. Len(cs) : cs[i].id = id}
           k == IF I # {} THEN Min(I) ELSE 0
<1>1. SelectInSeq(cs, LAMBDA c : c.id = id) = k
  BY DEF SelectInSeq
<1>2. k # 0 /\ DeleteComment(id, body) =
          [likes |-> body.likes, comments |-> RemoveAt(cs, k)]
  BY <1>1 DEF DeleteComment
<1>3. /\ cs \in Seq(Comments) /\ body.likes \in Seq(Users) /\ IsInjective(body.likes)
      /\ \A i, j \in 1 .. Len(cs) : cs[i].id = cs[j].id => i = j
  BY DEF Bodies, Once
<1>4. I \in SUBSET (1 .. Len(cs)) /\ Len(cs) \in Nat
  BY <1>3
<1> HIDE DEF I
<1>5. k \in 1 .. Len(cs)
  BY <1>2, <1>4, PositionFact
<1> HIDE DEF k, cs
<1>6. /\ RemoveAt(cs, k) \in Seq(Comments) /\ Len(RemoveAt(cs, k)) = Len(cs) - 1
      /\ \A j \in 1 .. Len(cs) - 1 :
            RemoveAt(cs, k)[j] = IF j < k THEN cs[j] ELSE cs[j + 1]
  BY <1>3, <1>5, RemoveAtFact
<1>7. ASSUME NEW i \in 1 .. Len(cs) - 1, NEW j \in 1 .. Len(cs) - 1,
             RemoveAt(cs, k)[i].id = RemoveAt(cs, k)[j].id
      PROVE  i = j
  BY <1>3, <1>4, <1>5, <1>6, <1>7
<1>8. DOMAIN RemoveAt(cs, k) = 1 .. Len(cs) - 1
  BY <1>6
<1> QED BY <1>2, <1>3, <1>6, <1>7, <1>8 DEF Bodies, Once

LEMMA CommentOnce ==
    ASSUME NEW body \in Bodies, Once(body), NEW new \in Comments, Comment(new, body) # None
    PROVE  Comment(new, body) \in Bodies /\ Once(Comment(new, body))
<1> DEFINE cs == body.comments
           I == {i \in 1 .. Len(cs) : cs[i].id = new.id}
           k == IF I # {} THEN Min(I) ELSE 0
<1>1. SelectInSeq(cs, LAMBDA c : c.id = new.id) = k
  BY DEF SelectInSeq
<1>2. Comment(new, body) =
          [likes |-> body.likes,
           comments |-> IF k = 0 THEN Append(cs, new) ELSE ReplaceAt(cs, k, new)]
  <2> HIDE DEF k, I
  <2>1. CASE k = 0
    BY <1>1, <2>1 DEF Comment
  <2>2. CASE k # 0
    BY <1>1, <2>2 DEF Comment
  <2> QED BY <2>1, <2>2
<1>3. /\ cs \in Seq(Comments) /\ body.likes \in Seq(Users) /\ IsInjective(body.likes)
      /\ \A i, j \in 1 .. Len(cs) : cs[i].id = cs[j].id => i = j
  BY DEF Bodies, Once
<1>4. I \in SUBSET (1 .. Len(cs)) /\ Len(cs) \in Nat
  BY <1>3
<1>5. \/ k = 0 /\ \A i \in 1 .. Len(cs) : cs[i].id # new.id
      \/ k \in 1 .. Len(cs) /\ k # 0 /\ cs[k].id = new.id
  <2> HIDE DEF I
  <2>1. \/ k = 0 /\ I = {}
        \/ k \in I /\ k \in 1 .. Len(cs)
    BY <1>4, PositionFact
  <2> HIDE DEF k
  <2>2. CASE k = 0 /\ I = {}
    BY <2>2 DEF I
  <2>3. CASE k \in I /\ k \in 1 .. Len(cs)
    <3>1. cs[k].id = new.id
      BY <2>3 DEF I
    <3>2. k # 0
      BY <2>3, <1>4
    <3> QED BY <2>3, <3>1, <3>2
  <2> QED BY <2>1, <2>2, <2>3
<1> HIDE DEF I, k, cs
<1>6. CASE k = 0
  <2>1. /\ Append(cs, new) \in Seq(Comments)
        /\ DOMAIN Append(cs, new) = 1 .. Len(cs) + 1
        /\ \A i \in 1 .. Len(cs) + 1 :
              Append(cs, new)[i] = IF i <= Len(cs) THEN cs[i] ELSE new
    BY <1>3
  <2>2. ASSUME NEW i \in 1 .. Len(cs) + 1, NEW j \in 1 .. Len(cs) + 1,
               Append(cs, new)[i].id = Append(cs, new)[j].id
        PROVE  i = j
    BY <1>3, <1>4, <1>5, <1>6, <2>1, <2>2
  <2> QED BY <1>2, <1>3, <1>6, <2>1, <2>2 DEF Bodies, Once
<1>7. CASE k # 0
  <2>1. /\ ReplaceAt(cs, k, new) \in Seq(Comments)
        /\ Len(ReplaceAt(cs, k, new)) = Len(cs)
        /\ \A j \in 1 .. Len(cs) : ReplaceAt(cs, k, new)[j] = IF j = k THEN new ELSE cs[j]
    <3>1. k \in 1 .. Len(cs)
      BY <1>5, <1>7
    <3>2. IsReplaced(ReplaceAt(cs, k, new), cs, k, new, Comments)
      BY <1>3, <3>1, ReplacedFact
    <3> QED BY ONLY <3>2 DEF IsReplaced
  <2>2. ASSUME NEW i \in 1 .. Len(cs), NEW j \in 1 .. Len(cs),
               ReplaceAt(cs, k, new)[i].id = ReplaceAt(cs, k, new)[j].id
        PROVE  i = j
    BY <1>3, <1>5, <1>7, <2>1, <2>2
  <2>3. DOMAIN ReplaceAt(cs, k, new) = 1 .. Len(cs)
    BY <2>1
  <2> QED BY <1>2, <1>3, <1>7, <2>1, <2>2, <2>3 DEF Bodies, Once
<1> QED BY <1>6, <1>7

\* An edit of such a body by a call of the program is such a body.
LEMMA EditedOnce ==
    ASSUME NEW r \in Requests \ Posts, NEW body \in Bodies, Once(body),
           Edited(r, body) # None
    PROVE  Edited(r, body) \in Bodies /\ Once(Edited(r, body))
<1>1. CASE r.op = "like" /\ r \in Likes
  BY <1>1, LikeOnce DEF Edited, Likes
<1>2. CASE r.op = "unlike" /\ r \in Likes
  BY <1>2, DeleteLikeOnce DEF Edited, Likes
<1>3. CASE r.op = "comment" /\ r \in Remarks
  BY <1>3, CommentOnce DEF Edited, Remarks
<1>4. CASE r.op = "uncomment" /\ r \in Removals
  BY <1>4, DeleteCommentOnce DEF Edited, Removals
<1> QED BY <1>1, <1>2, <1>3, <1>4 DEF Requests, Likes, Remarks, Removals

\* What is stored and what handlers are about to put has nothing twice.
BodiesOK ==
    /\ \A e \in Entries : table[e] # None => table[e] \in Bodies /\ Once(table[e])
    /\ \A h \in Handlers : draft[h] # None => draft[h] \in Bodies /\ Once(draft[h])

BodiesInv == HistoryInv /\ BodiesOK

LEMMA BodiesInit == Init => BodiesInv
BY HistoryInit DEF Init, BodiesInv, BodiesOK

LEMMA BodiesStep == BodiesInv /\ [Next]_vars => BodiesInv'
<1> SUFFICES ASSUME BodiesInv, [Next]_vars PROVE BodiesOK'
  BY HistoryStep DEF BodiesInv
<1>1. ASSUME NEW h \in Handlers, NEW r \in Requests, Call(h, r) PROVE BodiesOK'
  <2>1. /\ UNCHANGED table
        /\ draft' = [draft EXCEPT ![h] = IF r \in Posts THEN r.body ELSE None]
    BY <1>1 DEF Call
  <2>2. r \in Posts => r.body \in Bodies /\ Once(r.body)
    BY ConstantsAssumption DEF Posts
  <2> QED BY <2>1, <2>2 DEF BodiesInv, BodiesOK, HistoryInv, KeysInv, ShapeOK
<1>2. ASSUME NEW h \in Handlers, ReadEntry(h) PROVE BodiesOK'
  <2> DEFINE old == table[Target(h)]
             new == IF old = None THEN None ELSE Edited(req[h], old)
  <2>1. UNCHANGED table /\ draft' = [draft EXCEPT ![h] = new]
    BY <1>2 DEF ReadEntry
  <2>2. req[h] \in Requests \ Posts /\ Target(h) \in Entries
    BY <1>2 DEF ReadEntry, BodiesInv, HistoryInv, FlowOK, KeysInv, CallsOK
  <2>3. new # None => new \in Bodies /\ Once(new)
    BY <2>2, EditedOnce DEF BodiesInv, BodiesOK
  <2> HIDE DEF new
  <2> QED BY <2>1, <2>3 DEF BodiesInv, BodiesOK, HistoryInv, KeysInv, ShapeOK
<1>3. ASSUME NEW h \in Handlers, PutUpdate(h) \/ PutNew(h) PROVE BodiesOK'
  <2>1. /\ table' = [table EXCEPT ![Target(h)] = draft[h]] /\ UNCHANGED draft
        /\ draft[h] # None
    BY <1>3 DEF PutUpdate, PutNew, Put, BodiesInv, HistoryInv, KeysInv, PlacesOK
  <2> QED BY <2>1 DEF BodiesInv, BodiesOK, HistoryInv, KeysInv, ShapeOK
<1>4. ASSUME UNCHANGED <<table, draft>> PROVE BodiesOK'
  BY <1>4 DEF BodiesInv, BodiesOK
<1> QED
  BY <1>1, <1>2, <1>3, <1>4
  DEF Next, CheckExists, PutIndex, Spread, Crash, vars

\* The handlers that edit copies of an entry at the same time may lose an edit,
\* never double one, whatever they are and however they interleave.
THEOREM OnceTheorem == Spec => []NothingTwice
<1>1. BodiesInv => NothingTwice
  BY DEF BodiesInv, BodiesOK, NothingTwice, Stored
<1> QED BY <1>1, BodiesInit, BodiesStep, PTL DEF Spec

\* The rest of TypeOK.
TypesInv ==
    /\ BodiesInv
    /\ \A e \in Entries :
        wanted[e] # None => wanted[e] \in Bodies /\ Once(wanted[e])
    /\ public \subseteq Entries /\ raced \subseteq Entries /\ cut \subseteq Entries
    /\ \A h \in Handlers :
        /\ pc[h] \in {"idle", "read", "check", "put", "update", "index", "spread"}
        /\ req[h] \in Requests \union {None}
        /\ base[h] \in Bodies \union {None}
        /\ pc[h] # "idle" => req[h] # None
    /\ calls \in Nat /\ crashes \in Nat

LEMMA TypesInit == Init => TypesInv
<1> SUFFICES ASSUME Init PROVE TypesInv
  OBVIOUS
<1> QED BY BodiesInit, ConstantsAssumption DEF Init, TypesInv

\* What a put makes of the wanted body has a type.
LEMMA EffectOnce ==
    ASSUME NEW r \in Requests, NEW body, body # None => body \in Bodies /\ Once(body),
           Effect(r, body) # None
    PROVE  Effect(r, body) \in Bodies /\ Once(Effect(r, body))
<1>1. CASE r \in Posts
  <2>1. r.body \in Bodies /\ Once(r.body)
    BY <1>1, ConstantsAssumption DEF Posts
  <2> QED BY <1>1, <2>1, PostOps DEF Effect
<1>2. CASE r \notin Posts
  <2>1. Effect(r, body) = IF body = None \/ Edited(r, body) = None THEN body
                          ELSE Edited(r, body)
    BY <1>2, PostOps DEF Effect
  <2>2. CASE body = None \/ Edited(r, body) = None
    BY <2>1, <2>2
  <2>3. CASE body # None /\ Edited(r, body) # None
    BY <1>2, <2>1, <2>3, EditedOnce
  <2> QED BY <2>2, <2>3
<1> QED BY <1>1, <1>2

LEMMA TypesStep == TypesInv /\ [Next]_vars => TypesInv'
<1> SUFFICES ASSUME TypesInv, [Next]_vars PROVE TypesInv'
  OBVIOUS
<1> BodiesInv'
  BY BodiesStep DEF TypesInv
<1> USE DEF Goto
<1>1. ASSUME NEW h \in Handlers, NEW r \in Requests, Call(h, r) PROVE TypesInv'
  <2>1. /\ UNCHANGED <<public, ghosts, crashes>> /\ calls' = calls + 1
        /\ req' = [req EXCEPT ![h] = r] /\ base' = [base EXCEPT ![h] = None]
        /\ pc' = [pc EXCEPT ![h] = IF r \in Posts THEN "check" ELSE "read"]
    BY <1>1 DEF Call
  <2>2. /\ \A g \in Handlers \ {h} : pc'[g] = pc[g] /\ req'[g] = req[g] /\ base'[g] = base[g]
        /\ pc'[h] \in {"check", "read"} /\ req'[h] = r /\ base'[h] = None
    BY <2>1 DEF TypesInv, BodiesInv, HistoryInv, HistoryShape, KeysInv, ShapeOK
  <2>3. r # None
    BY RequestAssumption
  <2> QED BY <2>1, <2>2, <2>3 DEF TypesInv
<1>2. ASSUME NEW h \in Handlers, ReadEntry(h) PROVE TypesInv'
  <2>1. Target(h) \in Entries /\ base' = [base EXCEPT ![h] = table[Target(h)]]
    BY <1>2 DEF ReadEntry, TypesInv, BodiesInv, HistoryInv, KeysInv, CallsOK
  <2>2. \A g \in Handlers : base'[g] \in Bodies \union {None}
    BY <2>1 DEF TypesInv, BodiesInv, BodiesOK, HistoryInv, HistoryShape
  <2>3. /\ \A g \in Handlers \ {h} : pc'[g] = pc[g]
        /\ pc'[h] \in {"idle", "check"} /\ pc[h] = "read"
        /\ UNCHANGED <<public, req, ghosts, bounds>>
    BY <1>2 DEF ReadEntry, TypesInv, BodiesInv, HistoryInv, KeysInv, ShapeOK
  <2> QED BY <2>2, <2>3 DEF TypesInv
<1>3. ASSUME NEW h \in Handlers, PutUpdate(h) \/ PutNew(h) PROVE TypesInv'
  <2>1. /\ Target(h) \in Entries /\ req[h] \in Requests
        /\ wanted' = [wanted EXCEPT ![Target(h)] = Effect(req[h], @)]
        /\ UNCHANGED <<public, req, base, bounds>>
    BY <1>3 DEF PutUpdate, PutNew, Put, TypesInv, BodiesInv, HistoryInv, FlowOK,
       KeysInv, CallsOK
  <2>2. \A e \in Entries : wanted'[e] # None => wanted'[e] \in Bodies /\ Once(wanted'[e])
    BY <2>1, EffectOnce DEF TypesInv, BodiesInv, HistoryInv, HistoryShape
  <2>3. raced' \subseteq Entries /\ cut' \subseteq Entries
    BY <1>3, <2>1 DEF PutUpdate, PutNew, TypesInv
  <2>4. /\ \A g \in Handlers \ {h} : pc'[g] = pc[g]
        /\ pc'[h] \in {"idle", "index", "spread"} /\ pc[h] # "idle"
    BY <1>3 DEF PutUpdate, PutNew, TypesInv, BodiesInv, HistoryInv, KeysInv, ShapeOK
  <2> QED BY <2>1, <2>2, <2>3, <2>4 DEF TypesInv
<1>4. ASSUME NEW h \in Handlers, CheckExists(h) \/ PutIndex(h) \/ Spread(h) PROVE TypesInv'
  <2>1. /\ \A g \in Handlers \ {h} : pc'[g] = pc[g]
        /\ pc'[h] \in {"idle", "put", "update", "spread"} /\ pc[h] # "idle"
        /\ UNCHANGED <<req, base, ghosts, bounds>>
    BY <1>4 DEF CheckExists, PutIndex, Spread, TypesInv, BodiesInv, HistoryInv, KeysInv, ShapeOK
  <2>2. public' \subseteq Entries
    BY <1>4 DEF CheckExists, PutIndex, Spread, TypesInv, BodiesInv, HistoryInv, KeysInv, CallsOK
  <2> QED BY <2>1, <2>2 DEF TypesInv
<1>5. CASE Crash
  <2>1. \A h \in Handlers : pc[h] = "index" => Target(h) \in Entries
    BY DEF TypesInv, BodiesInv, HistoryInv, KeysInv, CallsOK
  <2> QED BY <1>5, <2>1 DEF Crash, TypesInv
<1>6. CASE UNCHANGED vars
  BY <1>6 DEF vars, TypesInv
<1> QED BY <1>1, <1>2, <1>3, <1>4, <1>5, <1>6 DEF Next

\* The tables hold entries and keys, and a handler past its read has a body to put.
THEOREM TypeTheorem == Spec => []TypeOK
<1>1. TypesInv => TypeOK
  <2> SUFFICES ASSUME TypesInv PROVE TypeOK
    OBVIOUS
  <2>1. DOMAIN revIndex \subseteq Users \X (0 .. MaxSecond)
    <3> SUFFICES ASSUME NEW k \in DOMAIN revIndex PROVE k \in Users \X (0 .. MaxSecond)
      OBVIOUS
    <3> DEFINE e == revIndex[k]
    <3>1. e \in Entries /\ k = IndexKey(e) /\ Second[e] # NoDate
      BY DEF TypesInv, BodiesInv, HistoryInv, OwnKey
    <3>2. Author[e] \in Users /\ Second[e] \in 0 .. MaxSecond
      BY <3>1, ConstantsAssumption
    <3>3. MaxSecond - Second[e] \in 0 .. MaxSecond
      BY <3>2, ConstantsAssumption
    <3> HIDE DEF e
    <3> QED BY <3>1, <3>2, <3>3 DEF IndexKey
  <2>2. /\ table \in [Entries -> Bodies \union {None}]
        /\ wanted \in [Entries -> Bodies \union {None}]
    BY DEF TypesInv, BodiesInv, BodiesOK, HistoryInv, HistoryShape, KeysInv, ShapeOK
  <2>3. /\ pc \in [Handlers -> {"idle", "read", "check", "put", "update", "index", "spread"}]
        /\ req \in [Handlers -> Requests \union {None}]
        /\ draft \in [Handlers -> Bodies \union {None}]
        /\ base \in [Handlers -> Bodies \union {None}]
    BY DEF TypesInv, BodiesInv, BodiesOK, HistoryInv, HistoryShape, KeysInv, ShapeOK
  <2>4. \A k \in DOMAIN revIndex : revIndex[k] \in Entries
    BY DEF TypesInv, BodiesInv, HistoryInv, OwnKey
  <2>5. \A h \in Handlers : pc[h] \in {"check", "put", "update"} => draft[h] # None
    BY DEF TypesInv, BodiesInv, HistoryInv, KeysInv, PlacesOK
  <2> QED BY <2>1, <2>2, <2>3, <2>4, <2>5 DEF TypeOK, TypesInv
<1> QED BY <1>1, TypesInit, TypesStep, PTL DEF Spec
=============================================================================
