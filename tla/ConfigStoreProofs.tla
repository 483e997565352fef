-------------------------- MODULE ConfigStoreProofs --------------------------
(***************************************************************************)
(* Theorems about ConfigStore for any number of requests of any kind and   *)
(* any number of crashes, failing operations and redeploys.                *)
(*                                                                         *)
(* What survives in the files is not inductive by itself: an edit is on    *)
(* its way through four places, the memory, the document a writer read,    *)
(* the file it has written and the file it has still to write.  StoreInv   *)
(* says for each of them what it holds, and which writer accounts for a    *)
(* file that is torn or behind the memory.                                 *)
(***************************************************************************)
EXTENDS ConfigStore, TLAPS

\* A writer that works on the files: of the persisters, the one that has the
\* lock.
AtFiles(w) == pc[w] \in {"read", "open", "write", "finish"}

\* The files writer w is through with.
Passed(w) ==
    IF pc[w] = "finish" THEN File
    ELSE IF AtFiles(w) /\ cur[w] = "source" THEN {"active"} ELSE {}

\* Document d holds the edit of request r.
Carries(d, r) ==
    CASE Kind[r] = "modes"  -> d.modes >= mine[r]
      [] Kind[r] = "preset" -> d.presets >= mine[r]
      [] r \in RowEditors   -> r \in d.rows

-----------------------------------------------------------------------------
(* In every state                                                           *)

StampedAcks == [modes : 0 .. stamp, presets : 0 .. stamp, rows : SUBSET RowEditors]
StampedDocs == [modes : 0 .. stamp, presets : 0 .. stamp, agents : SUBSET RowEditors,
                rows : SUBSET RowEditors]

\* Every version in a document was given out.
Stamped ==
    /\ doc \in [Writers -> StampedDocs]
    /\ content \in [File -> StampedDocs]
    /\ acked \in StampedAcks

\* A request's place: under the lock, before which file, with what done.
PlacedAt(r) ==
    /\ r \in Persisters => (AtFiles(r) <=> modesLock = r)
    /\ pc[r] = "lock" => Kind[r] = "preset"
    /\ pc[r] \in {"start", "lock"} => cur[r] = "active" /\ done[r] = {}
    /\ pc[r] = "finish" => cur[r] = "source"
    /\ AtFiles(r) => done[r] \subseteq Passed(r)
    /\ InProgress(r) => up

Placed == \A r \in Requests : PlacedAt(r)

ProxyPlaced ==
    /\ pc[Proxy] \in {"start", "open", "write", "read"}
    /\ pc[Proxy] \in {"open", "write"} => cur[Proxy] = "active"
    /\ deploys = 0 => pc[Proxy] = "start"
    /\ crashes = 0 /\ deploys = 0 => up

\* The memory never falls behind an edit whose request is still at work.
EditHeld(r) ==
    InProgress(r) => /\ Kind[r] = "modes" => modes >= mine[r]
                     /\ Kind[r] = "preset" => presets >= mine[r]
                     /\ Kind[r] = "tokens" => r \in live \/ r \notin deployed

EditInMemory == \A r \in Requests : EditHeld(r)

-----------------------------------------------------------------------------
(* While row edits and redeploys meet no other writer                       *)

Alone ==
    ~overlapped =>
        /\ ~Clash
        /\ disturbed = {}
        /\ \A w \in Writers : pc[w] = "write" => ~readable[cur[w]]

\* ... and no open or write fails: what was acknowledged is in both files that
\* parse, in the memory, and in every document that will be written; what will
\* be acknowledged is in the files its request is through with.
HoldsLasting(d) ==
    /\ d.modes >= acked.modes
    /\ d.presets >= acked.presets
    /\ acked.rows \ leftOut \subseteq d.rows

\* What the memory holds, with the rows that it has no agent for.
Memory == [modes |-> modes, presets |-> presets, rows |-> live \cup (RowEditors \ deployed)]

Lasts ==
    /\ \A f \in File : readable[f] => HoldsLasting(content[f])
    /\ up => HoldsLasting(Memory)

OnItsWay(r) ==
    /\ pc[r] = "write" => Carries(doc[r], r)
    /\ \A f \in Passed(r) : readable[f] => Carries(content[f], r)

Kept ==
    Undisturbed =>
        /\ Lasts
        /\ \A w \in Writers : pc[w] \in {"open", "write"} => HoldsLasting(doc[w])
        /\ \A r \in Requests : OnItsWay(r)
        /\ pc[Proxy] # "start" => readable["source"]

\* ... and the source file, which no redeploy writes, has all of the rows.
SourceKept ==
    Undisturbed =>
        /\ readable["source"] => acked.rows \subseteq content["source"].rows
        /\ \A w \in Writers : pc[w] \in {"open", "write"} /\ cur[w] = "source" =>
               acked.rows \subseteq doc[w].rows

\* ... and no redeploy replaces the active file, though opens and writes fail.
HoldsVersions(d) == d.modes >= acked.modes /\ d.presets >= acked.presets

OnItsWayToActive(r) ==
    /\ pc[r] \in {"open", "write"} /\ cur[r] = "active" => HoldsVersions(doc[r])
    /\ r \in Persisters /\ pc[r] = "write" /\ cur[r] = "active" => Carries(doc[r], r)
    /\ r \in Persisters /\ AtFiles(r) /\ "active" \in done[r] /\ readable["active"] =>
          Carries(content["active"], r)

ActiveKept ==
    ~overlapped /\ deploys = 0 =>
        /\ ActiveHoldsAcked
        /\ up => HoldsVersions(InMemory)
        /\ \A r \in Requests : OnItsWayToActive(r)

\* ... and the coordinator has not crashed: a file is torn or behind the memory
\* only as long as some writer has it still before it.
BehindModes(f) ==
    \E r \in Persisters : Kind[r] = "modes" /\ AtFiles(r) /\ f \notin Passed(r)

BehindPresets(f) ==
    \E r \in Persisters : Kind[r] = "preset" /\ InProgress(r) /\ f \notin Passed(r)

LockWaited == \E r \in Persisters : pc[r] = "lock"

FileInSync(f) ==
    /\ readable[f] \/ \E w \in Writers : pc[w] = "write" /\ cur[w] = f
    /\ content[f].modes = modes \/ BehindModes(f)
    /\ content[f].presets = presets \/ BehindPresets(f)

DocInSync(w) ==
    pc[w] = "write" \/ (pc[w] = "open" /\ w \notin Persisters) =>
        /\ doc[w].modes = modes
        /\ doc[w].presets = presets \/ LockWaited

InSync ==
    Undisturbed /\ crashes = 0 =>
        /\ \A f \in File : FileInSync(f)
        /\ \A w \in Writers : DocInSync(w)

\* A row editor adds its own row to the files, whether or not the live agent
\* has it already.  Of the rows, those of deployed agents are compared; the
\* source file is compared until a redeploy brings rows of its own.
Alike(rows, others) == rows \cap deployed = others \cap deployed

FollowsMemory(f) == f = "active" \/ deploys = 0

RowsIn(f) ==
    FollowsMemory(f) =>
        /\ (\A r \in RowEditors : ~InProgress(r)) => Alike(content[f].rows, live)
        /\ \A r \in RowEditors : InProgress(r) =>
               Alike(content[f].rows \cup {r}, live \cup {r})

RowsOf(r) ==
    pc[r] \in {"open", "write"} /\ FollowsMemory(cur[r]) =>
        Alike(doc[r].rows \cup ({r} \cap RowEditors), live \cup ({r} \cap RowEditors))

\* The proxy has replaced the active file of a coordinator it has yet to kill.
Replaced == ~up \/ pc[Proxy] = "read"

RowsInSync ==
    Undisturbed /\ crashes = 0 /\ ~Replaced =>
        (\A f \in File : RowsIn(f)) /\ (\A r \in Requests : RowsOf(r))

StoreInv ==
    /\ TypeOK /\ Stamped /\ Placed /\ ProxyPlaced /\ EditInMemory
    /\ Alone /\ Kept /\ SourceKept /\ ActiveKept /\ InSync /\ RowsInSync /\ OneCopyLeft

-----------------------------------------------------------------------------
(* Lemmas                                                                   *)

LEMMA Constants ==
    /\ Kind \in [Requests -> Kinds]
    /\ Proxy \notin Requests /\ Nobody \notin Requests
    /\ Persisters \subseteq Requests /\ RowEditors \subseteq Requests
    /\ Requests \subseteq Writers /\ Proxy \in Writers
    /\ MaxCrashes \in Nat /\ MaxIoErrors \in Nat /\ MaxDeploys \in Nat
    /\ File = {"active", "source"}
    /\ \A r \in Requests :
          /\ r \in Persisters <=> Kind[r] \in {"modes", "preset"}
          /\ r \in RowEditors <=> Kind[r] \in {"prompt", "tokens"}
BY ConfigStoreAssumption, WritersAssumption
DEF ConfigStoreAssumption, WritersAssumption, Persisters, RowEditors, Writers, File, Kinds

\* What a writer puts in a document, case by case.
LEMMA MergedIs ==
    ASSUME NEW w \in Writers
    PROVE  /\ w \in Persisters =>
                 Merged(w) = [doc[w] EXCEPT !.modes = modes, !.presets = presets]
           /\ w \in RowEditors =>
                 Merged(w) = [doc[w] EXCEPT !.agents = @ \cup {w}, !.rows = @ \cup {w}]
           /\ w = Proxy => Merged(w) = doc[w]
<1>1. CASE w \in Persisters
  <2>1. w \notin RowEditors /\ w # Proxy
    BY <1>1, Constants DEF RowEditors
  <2>2. QED
    BY <1>1, <2>1 DEF Merged
<1>2. CASE w \in RowEditors
  <2>1. w \notin Persisters /\ w # Proxy
    BY <1>2, Constants DEF RowEditors
  <2>2. QED
    BY <1>2, <2>1 DEF Merged
<1>3. CASE w = Proxy
  <2>1. w \notin Persisters /\ w \notin RowEditors
    BY <1>3, Constants
  <2>2. QED
    BY <1>3, <2>1 DEF Merged
<1>4. QED
  BY <1>1, <1>2, <1>3, Constants DEF Writers, RowEditors

\* A version that was given out stays one.
LEMMA StampGrows ==
    ASSUME stamp \in Nat, stamp' \in Nat, stamp' >= stamp
    PROVE  /\ 0 .. stamp \subseteq 0 .. stamp'
           /\ StampedDocs \subseteq StampedDocs' /\ StampedAcks \subseteq StampedAcks'
<1>1. 0 .. stamp \subseteq 0 .. stamp'
  OBVIOUS
<1>2. ASSUME NEW d \in StampedDocs PROVE d \in StampedDocs'
  BY <1>1 DEF StampedDocs
<1>3. ASSUME NEW d \in StampedAcks PROVE d \in StampedAcks'
  BY <1>1 DEF StampedAcks
<1>4. QED
  BY <1>1, <1>2, <1>3

LEMMA MergedStamped ==
    ASSUME TypeOK, Stamped, NEW w \in Writers
    PROVE  Merged(w) \in StampedDocs
<1>1. /\ doc[w] \in StampedDocs /\ modes \in 0 .. stamp /\ presets \in 0 .. stamp
      /\ stamp \in Nat
  BY DEF Stamped, TypeOK
<1>2. doc[w] \in Docs
  BY <1>1 DEF StampedDocs, Docs
<1>3. CASE w \in Persisters
  <2>1. Merged(w) = [doc[w] EXCEPT !.modes = modes, !.presets = presets]
    BY <1>2, <1>3, MergedIs
  <2>2. QED
    BY <1>1, <2>1 DEF StampedDocs
<1>4. CASE w \in RowEditors
  <2>1. Merged(w) = [doc[w] EXCEPT !.agents = @ \cup {w}, !.rows = @ \cup {w}]
    BY <1>2, <1>4, MergedIs
  <2>2. QED
    BY <1>1, <1>4, <2>1 DEF StampedDocs
<1>5. CASE w = Proxy
  BY <1>1, <1>2, <1>5, MergedIs
<1>6. QED
  BY <1>3, <1>4, <1>5, Constants DEF Writers, RowEditors

-----------------------------------------------------------------------------
(* Types and versions                                                       *)

LEMMA InitStore == Init => StoreInv
<1> SUFFICES ASSUME Init PROVE StoreInv
  OBVIOUS
<1> USE Constants DEF Init
<1>0. /\ EmptyDoc \in Docs /\ EmptyDoc \in StampedDocs
      /\ acked \in Acks /\ acked \in StampedAcks /\ leftOut = {}
  BY DEF EmptyDoc, Docs, StampedDocs, Acks, StampedAcks
<1>1. TypeOK
  <2>1. /\ up \in BOOLEAN /\ overlapped \in BOOLEAN
        /\ readable \in [File -> BOOLEAN]
    BY Zenon
  <2>2. QED
    BY <1>0, <2>1 DEF TypeOK
<1>2. Stamped /\ Placed /\ ProxyPlaced /\ EditInMemory
  BY <1>0 DEF Stamped, Placed, PlacedAt, ProxyPlaced, EditInMemory, EditHeld, AtFiles, InProgress, Nobody
<1>3. ~Clash /\ Alone
  BY DEF Alone, Clash, InProgress
<1>4. \A w \in Writers : pc[w] = "start" /\ Passed(w) = {}
  BY DEF Passed, AtFiles
<1>5. HoldsLasting(EmptyDoc) /\ HoldsLasting(Memory) /\ acked.rows = {}
  BY DEF HoldsLasting, Memory, EmptyDoc
<1>6. Kept /\ SourceKept
  BY <1>4, <1>5, Constants DEF Kept, SourceKept, Lasts, OnItsWay
<1>7. ActiveKept
  BY DEF ActiveKept, ActiveHoldsAcked, HoldsVersions, OnItsWayToActive, InMemory, EmptyDoc, AtFiles
<1>8. InSync /\ RowsInSync
  BY <1>4 DEF InSync, RowsInSync, FileInSync, DocInSync, RowsIn, RowsOf, Alike, EmptyDoc, InProgress
<1>9. OneCopyLeft
  BY DEF OneCopyLeft
<1>10. QED
  BY <1>1, <1>2, <1>3, <1>6, <1>7, <1>8, <1>9 DEF StoreInv

LEMMA TypeStep ==
    ASSUME TypeOK, Stamped, Placed, [Next]_vars
    PROVE  TypeOK' /\ Stamped'
<1> USE Constants DEF memory, files, work, history, bounds
<1>0. /\ overlapped' \in BOOLEAN
      /\ \A d \in StampedDocs : d \in Docs
      /\ \A d \in StampedAcks : d \in Acks
      /\ EmptyDoc \in StampedDocs
  <2>1. overlapped' \in BOOLEAN
    <3>1. CASE Next
      <4>1. (overlapped \/ Clash') \in BOOLEAN
        BY Zenon
      <4>2. QED
        BY <3>1, <4>1, Zenon DEF Next
    <3>2. CASE UNCHANGED vars
      BY <3>2 DEF vars, TypeOK
    <3>3. QED
      BY <3>1, <3>2
  <2>2. /\ \A d \in StampedDocs : d \in Docs
        /\ \A d \in StampedAcks : d \in Acks
        /\ EmptyDoc \in StampedDocs
    <3>1. stamp \in Nat
      BY DEF TypeOK
    <3>2. QED
      BY <3>1 DEF StampedDocs, Docs, StampedAcks, Acks, EmptyDoc
  <2>3. QED
    BY <2>1, <2>2
<1>1. ASSUME NEW r \in Requests, EditModes(r)
      PROVE  TypeOK' /\ Stamped'
  <2>0. stamp \in Nat /\ stamp' = stamp + 1
    BY <1>1 DEF EditModes, TypeOK
  <2>1. /\ 0 .. stamp \subseteq 0 .. stamp'
        /\ StampedDocs \subseteq StampedDocs' /\ StampedAcks \subseteq StampedAcks'
    BY <2>0, StampGrows
  <2>2. Stamped'
    BY <1>1, <2>1 DEF EditModes, Stamped
  <2>3. /\ modes' \in 0 .. stamp' /\ presets' \in 0 .. stamp' /\ stamp' \in Nat
        /\ mine' \in [Requests -> 0 .. stamp']
    <3>1. mine \in [Requests -> 0 .. stamp] /\ modes \in 0 .. stamp /\ presets \in 0 .. stamp
      BY DEF TypeOK
    <3>2. stamp' \in 0 .. stamp' /\ stamp' \in Nat
      BY <2>0
    <3>3. mine' = [mine EXCEPT ![r] = stamp']
      BY <1>1 DEF EditModes
    <3>4. mine' \in [Requests -> 0 .. stamp']
      BY <2>1, <3>1, <3>2, <3>3
    <3>5. modes' \in 0 .. stamp' /\ presets' \in 0 .. stamp'
      BY <1>1, <2>1, <3>1, <3>2 DEF EditModes
    <3>6. QED
      BY <3>2, <3>4, <3>5
  <2>4. modesLock' \in Persisters \cup {Nobody}
    BY <1>1 DEF EditModes, TypeOK
  <2>5. TypeOK'
    BY <1>0, <1>1, <2>3, <2>4 DEF EditModes, TypeOK
  <2>6. QED
    BY <2>2, <2>5
<1>2. ASSUME NEW r \in Requests, EditPreset(r)
      PROVE  TypeOK' /\ Stamped'
  <2>0. stamp \in Nat /\ stamp' = stamp + 1
    BY <1>2 DEF EditPreset, TypeOK
  <2>1. /\ 0 .. stamp \subseteq 0 .. stamp'
        /\ StampedDocs \subseteq StampedDocs' /\ StampedAcks \subseteq StampedAcks'
    BY <2>0, StampGrows
  <2>2. Stamped'
    BY <1>2, <2>1 DEF EditPreset, Stamped
  <2>3. /\ modes' \in 0 .. stamp' /\ presets' \in 0 .. stamp' /\ stamp' \in Nat
        /\ mine' \in [Requests -> 0 .. stamp']
    <3>1. mine \in [Requests -> 0 .. stamp] /\ modes \in 0 .. stamp /\ presets \in 0 .. stamp
      BY DEF TypeOK
    <3>2. stamp' \in 0 .. stamp' /\ stamp' \in Nat
      BY <2>0
    <3>3. mine' = [mine EXCEPT ![r] = stamp']
      BY <1>2 DEF EditPreset
    <3>4. mine' \in [Requests -> 0 .. stamp']
      BY <2>1, <3>1, <3>2, <3>3
    <3>5. modes' \in 0 .. stamp' /\ presets' \in 0 .. stamp'
      BY <1>2, <2>1, <3>1, <3>2 DEF EditPreset
    <3>6. QED
      BY <3>2, <3>4, <3>5
  <2>4. modesLock' \in Persisters \cup {Nobody}
    BY <1>2 DEF EditPreset, TypeOK
  <2>5. TypeOK'
    BY <1>0, <1>2, <2>3, <2>4 DEF EditPreset, TypeOK
  <2>6. QED
    BY <2>2, <2>5
<1>3. ASSUME NEW r \in Requests, LockModes(r)
      PROVE  TypeOK' /\ Stamped'
  BY <1>0, <1>3 DEF LockModes, TypeOK, Stamped, StampedDocs, StampedAcks, Placed, PlacedAt
<1> DEFINE Up(n, bound) == n \in 0 .. bound /\ n < bound => n + 1 \in 0 .. bound
<1>u. /\ \A n : Up(n, MaxCrashes) /\ Up(n, MaxIoErrors) /\ Up(n, MaxDeploys)
      /\ crashes \in 0 .. MaxCrashes /\ ioErrors \in 0 .. MaxIoErrors
      /\ deploys \in 0 .. MaxDeploys
  <2>1. /\ crashes \in 0 .. MaxCrashes /\ ioErrors \in 0 .. MaxIoErrors
        /\ deploys \in 0 .. MaxDeploys
    BY DEF TypeOK
  <2>2. QED
    BY <2>1
<1>4. ASSUME UNCHANGED <<stamp, mine, acked, modes, presets>>,
             modesLock' \in Persisters \cup {Nobody},
             live' \subseteq RowEditors, UNCHANGED deployed, leftOut' \subseteq RowEditors,
             pc' \in [Writers -> {"start", "lock", "read", "open", "write", "finish",
                                 "answered", "dead"}],
             cur' \in [Writers -> File], doc' \in [Writers -> StampedDocs],
             done' \in [Writers -> SUBSET File],
             reply' \in [Requests -> {"none", "persisted", "failed", "unknown agent"}],
             content' \in [File -> StampedDocs], readable' \in [File -> BOOLEAN],
             disturbed' \subseteq Writers, up' \in BOOLEAN,
             crashes' \in 0 .. MaxCrashes, ioErrors' \in 0 .. MaxIoErrors,
             deploys' \in 0 .. MaxDeploys
      PROVE  TypeOK' /\ Stamped'
  <2>1. Stamped'
    BY <1>4 DEF Stamped, StampedDocs, StampedAcks
  <2>2. doc' \in [Writers -> Docs] /\ content' \in [File -> Docs] /\ acked' \in Acks
    <3>1. \A d : d \in StampedDocs => d \in Docs
      BY <1>0
    <3>2. doc' \in [Writers -> Docs] /\ content' \in [File -> Docs]
      BY <1>4, <3>1
    <3>3. acked \in Acks /\ acked' = acked
      BY <1>4 DEF TypeOK
    <3>4. QED
      BY <3>2, <3>3
  <2>3. TypeOK'
    BY <1>0, <1>4, <2>2 DEF TypeOK
  <2>4. QED
    BY <2>1, <2>3
<1>5. ASSUME NEW w \in Writers, Advanced(w)
      PROVE  /\ cur' \in [Writers -> File]
             /\ pc' \in [Writers -> {"start", "lock", "read", "open", "write", "finish",
                                    "answered", "dead"}]
  BY <1>5 DEF Advanced, TypeOK
<1>6. ASSUME NEW r \in Requests, EditRow(r)
      PROVE  TypeOK' /\ Stamped'
  <2>1. live' \subseteq RowEditors
    <3>1. (live' = live \/ live' = live \cup {r}) /\ r \in RowEditors
      BY <1>6 DEF EditRow, EditedLive
    <3>2. live \subseteq RowEditors
      BY DEF TypeOK
    <3>3. QED
      BY <3>1, <3>2
  <2>2. /\ reply' \in [Requests -> {"none", "persisted", "failed", "unknown agent"}]
        /\ pc' \in [Writers -> {"start", "lock", "read", "open", "write", "finish",
                               "answered", "dead"}]
    <3>1. /\ pc' = [pc EXCEPT ![r] = "read"] \/ pc' = [pc EXCEPT ![r] = "answered"]
          /\ reply' = reply \/ reply' = [reply EXCEPT ![r] = "unknown agent"]
      BY <1>6 DEF EditRow
    <3>2. /\ reply \in [Requests -> {"none", "persisted", "failed", "unknown agent"}]
          /\ pc \in [Writers -> {"start", "lock", "read", "open", "write", "finish",
                                 "answered", "dead"}]
      BY DEF TypeOK
    <3>3. QED
      BY <3>1, <3>2
  <2>3. QED
    BY <1>4, <1>6, <2>1, <2>2 DEF EditRow, TypeOK, Stamped
<1>7. ASSUME NEW r \in Requests, ReadDoc(r)
      PROVE  TypeOK' /\ Stamped'
  <2>1. /\ doc' \in [Writers -> StampedDocs]
        /\ cur' \in [Writers -> File]
        /\ pc' \in [Writers -> {"start", "lock", "read", "open", "write", "finish",
                               "answered", "dead"}]
    <3>1. \/ UNCHANGED doc /\ Advanced(r)
          \/ /\ doc' = [doc EXCEPT ![r] = content[cur[r]]]
             /\ pc' = [pc EXCEPT ![r] = "open"]
             /\ UNCHANGED cur
      BY <1>7 DEF ReadDoc
    <3>2. cur[r] \in File /\ content[cur[r]] \in StampedDocs
      BY DEF TypeOK, Stamped
    <3>3. QED
      BY <1>5, <3>1, <3>2 DEF TypeOK, Stamped
  <2>2. QED
    BY <1>4, <1>7, <2>1 DEF ReadDoc, TypeOK, Stamped
<1>8. ASSUME NEW w \in Writers, Open(w)
      PROVE  TypeOK' /\ Stamped'
  <2>1. doc' \in [Writers -> StampedDocs]
    BY <1>8, MergedStamped DEF Open, Stamped
  <2>2. /\ readable' \in [File -> BOOLEAN]
        /\ disturbed' \subseteq Writers
        /\ pc' \in [Writers -> {"start", "lock", "read", "open", "write", "finish",
                               "answered", "dead"}]
    BY <1>8 DEF Open, OpenOn, TypeOK
  <2>3. QED
    BY <1>4, <1>8, <2>1, <2>2 DEF Open, TypeOK, Stamped
<1>9. ASSUME NEW w \in Writers, OpenFails(w)
      PROVE  TypeOK' /\ Stamped'
  <2>1. /\ cur' \in [Writers -> File]
        /\ pc' \in [Writers -> {"start", "lock", "read", "open", "write", "finish",
                               "answered", "dead"}]
    BY <1>5, <1>9 DEF OpenFails, TypeOK
  <2>2. QED
    <3>1. ioErrors' \in 0 .. MaxIoErrors
      BY <1>u, <1>9 DEF OpenFails
    <3>2. QED
      BY <1>4, <1>9, <2>1, <3>1 DEF OpenFails, TypeOK, Stamped
<1>10. ASSUME NEW w \in Writers, Write(w) \/ WriteFails(w)
       PROVE  TypeOK' /\ Stamped'
  <2>1. \E intact \in BOOLEAN : readable' = [readable EXCEPT ![cur[w]] = intact]
    <3>1. readable[cur[w]] \in BOOLEAN
      BY DEF TypeOK
    <3>2. QED
      BY <1>10, <3>1 DEF Write, WriteFails
  <2>2. readable' \in [File -> BOOLEAN]
    BY <2>1 DEF TypeOK
  <2>3. /\ done' \in [Writers -> SUBSET File]
        /\ disturbed' \subseteq Writers
        /\ content' \in [File -> StampedDocs]
        /\ doc' \in [Writers -> StampedDocs]
    <3>1. cur[w] \in File /\ doc[w] \in StampedDocs
      BY DEF TypeOK, Stamped
    <3>2. done' = [done EXCEPT ![w] = @ \cup {cur[w]}]
      BY <1>10 DEF Write, WriteFails
    <3>3. disturbed' \subseteq disturbed \cup Writers
      BY <1>10 DEF Write, WriteFails, OpenOn
    <3>4. /\ UNCHANGED content \/ content' = [content EXCEPT ![cur[w]] = doc[w]]
          /\ doc' = [doc EXCEPT ![w] = EmptyDoc]
      BY <1>10 DEF Write, WriteFails
    <3>5. QED
      BY <1>0, <3>1, <3>2, <3>3, <3>4 DEF TypeOK, Stamped
  <2>4. ioErrors' \in 0 .. MaxIoErrors
    <3>1. UNCHANGED ioErrors \/ (ioErrors < MaxIoErrors /\ ioErrors' = ioErrors + 1)
      BY <1>10 DEF Write, WriteFails
    <3>2. QED
      BY <1>u, <3>1
  <2>5. /\ UNCHANGED <<stamp, mine, acked, modes, presets, modesLock, live, deployed,
                       leftOut, reply, up, crashes, deploys>>
        /\ Advanced(w)
    BY <1>10 DEF Write, WriteFails
  <2>6. /\ modesLock \in Persisters \cup {Nobody}
        /\ live \subseteq RowEditors /\ leftOut \subseteq RowEditors
        /\ reply \in [Requests -> {"none", "persisted", "failed", "unknown agent"}]
        /\ up \in BOOLEAN /\ crashes \in 0 .. MaxCrashes /\ deploys \in 0 .. MaxDeploys
    BY DEF TypeOK
  <2>7. /\ cur' \in [Writers -> File]
        /\ pc' \in [Writers -> {"start", "lock", "read", "open", "write", "finish",
                               "answered", "dead"}]
    BY <1>5, <2>5
  <2>8. QED
    BY <1>4, <2>2, <2>3, <2>4, <2>5, <2>6, <2>7
<1>11. ASSUME NEW r \in Requests, Finish(r)
       PROVE  TypeOK' /\ Stamped'
  <2>1. acked' \in StampedAcks
    <3>1. acked \in StampedAcks /\ mine[r] \in 0 .. stamp
      BY DEF Stamped, TypeOK
    <3>2. CASE ~Persisted(r)
      BY <1>11, <3>1, <3>2 DEF Finish
    <3>3. CASE Persisted(r) /\ Kind[r] = "modes"
      <4>1. acked' = [acked EXCEPT !.modes = mine[r]]
        BY <1>11, <3>3 DEF Finish
      <4>2. QED
        BY <3>1, <4>1 DEF StampedAcks
    <3>4. CASE Persisted(r) /\ Kind[r] = "preset"
      <4>1. acked' = [acked EXCEPT !.presets = IF @ > mine[r] THEN @ ELSE mine[r]]
        BY <1>11, <3>4 DEF Finish
      <4>2. QED
        BY <3>1, <4>1 DEF StampedAcks
    <3>5. CASE Persisted(r) /\ r \in RowEditors
      <4>1. acked' = [acked EXCEPT !.rows = @ \cup {r}]
        BY <1>11, <3>5 DEF Finish
      <4>2. QED
        BY <3>1, <3>5, <4>1 DEF StampedAcks
    <3>6. QED
      BY <3>2, <3>3, <3>4, <3>5 DEF Kinds
  <2>2. Stamped'
    BY <1>11, <2>1 DEF Finish, Stamped, StampedDocs, StampedAcks
  <2>3. /\ live' \subseteq RowEditors
        /\ modesLock' \in Persisters \cup {Nobody}
    <3>1. live' = live \/ (live' = live \cup {r} /\ r \in RowEditors)
      BY <1>11 DEF Finish, EditedLive
    <3>2. QED
      BY <1>11, <3>1 DEF Finish, TypeOK
  <2>4. /\ reply' \in [Requests -> {"none", "persisted", "failed", "unknown agent"}]
        /\ pc' \in [Writers -> {"start", "lock", "read", "open", "write", "finish",
                               "answered", "dead"}]
    BY <1>11 DEF Finish, TypeOK
  <2>5. TypeOK'
    BY <1>0, <1>11, <2>1, <2>3, <2>4 DEF Finish, TypeOK
  <2>6. QED
    BY <2>2, <2>5
<1>12. CASE Crash \/ KillCoordinator
  <2>1. /\ up' \in BOOLEAN
        /\ modesLock' \in Persisters \cup {Nobody}
        /\ pc' \in [Writers -> {"start", "lock", "read", "open", "write", "finish",
                               "answered", "dead"}]
    <3>1. up' = FALSE /\ modesLock' = Nobody
      BY <1>12 DEF Crash, Die, KillCoordinator
    <3>2. CASE Crash
      BY <3>2 DEF Crash, Die, TypeOK
    <3>3. CASE KillCoordinator
      BY <3>3 DEF KillCoordinator, TypeOK
    <3>4. QED
      BY <1>12, <3>1, <3>2, <3>3
  <2>2. crashes' \in 0 .. MaxCrashes
    <3>1. UNCHANGED crashes \/ (crashes < MaxCrashes /\ crashes' = crashes + 1)
      BY <1>12 DEF Crash, KillCoordinator
    <3>2. QED
      BY <1>u, <3>1
  <2>3. UNCHANGED <<stamp, mine, acked, modes, presets, live, deployed, leftOut, cur,
                    doc, done, reply, content, readable, disturbed, ioErrors, deploys>>
    BY <1>12 DEF Crash, Die, KillCoordinator
  <2>4. /\ live \subseteq RowEditors /\ leftOut \subseteq RowEditors
        /\ cur \in [Writers -> File] /\ done \in [Writers -> SUBSET File]
        /\ reply \in [Requests -> {"none", "persisted", "failed", "unknown agent"}]
        /\ readable \in [File -> BOOLEAN] /\ disturbed \subseteq Writers
        /\ ioErrors \in 0 .. MaxIoErrors /\ deploys \in 0 .. MaxDeploys
    BY DEF TypeOK
  <2>5. doc \in [Writers -> StampedDocs] /\ content \in [File -> StampedDocs]
    BY DEF Stamped
  <2>6. QED
    BY <1>4, <2>1, <2>2, <2>3, <2>4, <2>5
<1>13. CASE Restart
  <2>1. content["active"] \in StampedDocs
    BY DEF Stamped
  <2>2. /\ modes' \in 0 .. stamp /\ presets' \in 0 .. stamp
        /\ live' \subseteq RowEditors /\ deployed' \subseteq RowEditors
    BY <1>13, <2>1 DEF Restart, StampedDocs
  <2>3. up' \in BOOLEAN
    BY <1>13 DEF Restart
  <2>4. TypeOK'
    BY <1>0, <1>13, <2>2, <2>3 DEF Restart, TypeOK
  <2>5. Stamped'
    BY <1>13 DEF Restart, Stamped, StampedDocs, StampedAcks
  <2>6. QED
    BY <2>4, <2>5
<1>14. CASE Deploy
  <2>1. /\ doc' \in [Writers -> StampedDocs]
        /\ cur' \in [Writers -> File]
        /\ pc' \in [Writers -> {"start", "lock", "read", "open", "write", "finish",
                               "answered", "dead"}]
        /\ leftOut' \subseteq RowEditors
    <3>1. PICK agents \in SUBSET RowEditors, rows \in SUBSET RowEditors :
             /\ doc' = [doc EXCEPT ![Proxy] = [content["source"] EXCEPT
                                              !.agents = agents, !.rows = rows]]
             /\ leftOut' = leftOut \cup (acked.rows \ rows)
      BY <1>14 DEF Deploy
    <3>2. content["source"] \in StampedDocs /\ acked.rows \subseteq RowEditors
      BY DEF Stamped, StampedAcks
    <3>3. [content["source"] EXCEPT !.agents = agents, !.rows = rows] \in StampedDocs
      BY <3>2 DEF StampedDocs
    <3>4. QED
      BY <1>14, <3>1, <3>2, <3>3 DEF Deploy, TypeOK, Stamped
  <2>2. deploys' \in 0 .. MaxDeploys
    <3>1. deploys < MaxDeploys /\ deploys' = deploys + 1
      BY <1>14 DEF Deploy
    <3>2. QED
      BY <1>u, <3>1
  <2>3. QED
    BY <1>4, <1>14, <2>1, <2>2 DEF Deploy, TypeOK, Stamped
<1>15. CASE Stopped \/ UNCHANGED vars
  BY <1>4, <1>15 DEF Stopped, vars, TypeOK, Stamped
<1>16. QED
  BY <1>1, <1>2, <1>3, <1>6, <1>7, <1>8, <1>9, <1>10, <1>11, <1>12, <1>13, <1>14, <1>15
  DEF Next, Step

-----------------------------------------------------------------------------
(* Where every writer is                                                    *)

LEMMA Elsewhere ==
    ASSUME NEW q \in Requests, PlacedAt(q),
           pc'[q] = pc[q], cur'[q] = cur[q], done'[q] = done[q],
           modesLock' = q <=> modesLock = q, InProgress(q) => up'
    PROVE  PlacedAt(q)'
BY DEF PlacedAt, AtFiles, Passed, InProgress

LEMMA AdvancedIs ==
    ASSUME TypeOK, NEW w \in Writers, Advanced(w)
    PROVE  /\ cur' = [cur EXCEPT ![w] = "source"]
           /\ \/ cur[w] = "active" /\ pc' = [pc EXCEPT ![w] = "read"]
              \/ cur[w] = "source" /\ pc' = [pc EXCEPT ![w] = "finish"]
BY Constants DEF Advanced, TypeOK

\* A step of w alone.
LEMMA PlaceOthers ==
    ASSUME TypeOK, Placed, NEW w \in Writers,
           \A q \in Writers \ {w} : /\ pc'[q] = pc[q] /\ cur'[q] = cur[q]
                                     /\ done'[q] = done[q],
           \A q \in Requests \ {w} : modesLock' = q <=> modesLock = q,
           UNCHANGED up,
           w \in Requests => PlacedAt(w)'
    PROVE  Placed'
<1>1. ASSUME NEW q \in Requests, q # w PROVE PlacedAt(q)'
  <2>1. q \in Writers /\ PlacedAt(q) /\ (InProgress(q) => up)
    BY Constants DEF Placed, PlacedAt
  <2>2. QED
    BY <1>1, <2>1, Elsewhere
<1>2. QED
  BY <1>1 DEF Placed

LEMMA PlaceStep ==
    ASSUME StoreInv, [Next]_vars
    PROVE  Placed' /\ ProxyPlaced'
<1> USE DEF memory, files, work, history, bounds
<1>0. TypeOK /\ Placed /\ ProxyPlaced /\ Proxy # Nobody /\ \A r \in Requests : PlacedAt(r)
  BY DEF StoreInv, Proxy, Nobody, Placed
<1>t. /\ pc \in [Writers -> {"start", "lock", "read", "open", "write", "finish",
                            "answered", "dead"}]
      /\ cur \in [Writers -> File] /\ done \in [Writers -> SUBSET File]
  BY <1>0 DEF TypeOK
<1>1. ASSUME NEW r \in Requests, EditModes(r)
      PROVE  Placed' /\ ProxyPlaced'
  <2>2. /\ \A q \in Writers \ {r} : pc'[q] = pc[q] /\ cur'[q] = cur[q] /\ done'[q] = done[q]
        /\ \A q \in Requests \ {r} : modesLock' = q <=> modesLock = q
        /\ UNCHANGED <<up, deploys>>
    BY <1>0, <1>t, <1>1, Constants DEF EditModes
  <2>3. PlacedAt(r)'
    BY <1>0, <1>t, <1>1, Constants DEF PlacedAt, AtFiles, Passed, InProgress, EditModes
  <2>4. Placed'
    BY <1>0, <2>2, <2>3, PlaceOthers, Constants
  <2>5. ProxyPlaced'
    BY <1>0, <1>t, <1>1, <2>2, Constants DEF ProxyPlaced, EditModes
  <2>6. QED
    BY <2>4, <2>5
<1>2. ASSUME NEW r \in Requests, EditPreset(r)
      PROVE  Placed' /\ ProxyPlaced'
  <2>2. /\ \A q \in Writers \ {r} : pc'[q] = pc[q] /\ cur'[q] = cur[q] /\ done'[q] = done[q]
        /\ \A q \in Requests \ {r} : modesLock' = q <=> modesLock = q
        /\ UNCHANGED <<up, deploys>>
    BY <1>0, <1>t, <1>2, Constants DEF EditPreset
  <2>3. PlacedAt(r)'
    BY <1>0, <1>t, <1>2, Constants DEF PlacedAt, AtFiles, Passed, InProgress, EditPreset
  <2>4. Placed'
    BY <1>0, <2>2, <2>3, PlaceOthers, Constants
  <2>5. ProxyPlaced'
    BY <1>0, <1>t, <1>2, <2>2, Constants DEF ProxyPlaced, EditPreset
  <2>6. QED
    BY <2>4, <2>5
<1>3. ASSUME NEW r \in Requests, LockModes(r)
      PROVE  Placed' /\ ProxyPlaced'
  <2>2. /\ \A q \in Writers \ {r} : pc'[q] = pc[q] /\ cur'[q] = cur[q] /\ done'[q] = done[q]
        /\ \A q \in Requests \ {r} : modesLock' = q <=> modesLock = q
        /\ UNCHANGED <<up, deploys>>
    BY <1>0, <1>t, <1>3, Constants DEF LockModes
  <2>3. PlacedAt(r)'
    BY <1>0, <1>t, <1>3, Constants DEF PlacedAt, AtFiles, Passed, InProgress, LockModes
  <2>4. Placed'
    BY <1>0, <2>2, <2>3, PlaceOthers, Constants
  <2>5. ProxyPlaced'
    BY <1>0, <1>t, <1>3, <2>2, Constants DEF ProxyPlaced, LockModes
  <2>6. QED
    BY <2>4, <2>5
<1>4. ASSUME NEW r \in Requests, EditRow(r)
      PROVE  Placed' /\ ProxyPlaced'
  <2>1. /\ pc[r] = "start" /\ up /\ r \in RowEditors
        /\ pc' = [pc EXCEPT ![r] = "read"] \/ pc' = [pc EXCEPT ![r] = "answered"]
        /\ UNCHANGED <<up, modesLock, cur, done, crashes, deploys>>
    BY <1>4 DEF EditRow
  <2>2. /\ \A q \in Writers \ {r} : pc'[q] = pc[q] /\ cur'[q] = cur[q] /\ done'[q] = done[q]
        /\ \A q \in Requests \ {r} : modesLock' = q <=> modesLock = q
        /\ UNCHANGED <<up, deploys>>
    BY <1>0, <1>t, <2>1, Constants
  <2>3. PlacedAt(r)'
    BY <1>0, <1>t, <2>1, Constants DEF PlacedAt, AtFiles, Passed, InProgress
  <2>4. Placed'
    BY <1>0, <2>2, <2>3, PlaceOthers, Constants
  <2>5. ProxyPlaced'
    BY <1>0, <1>t, <2>1, <2>2, Constants DEF ProxyPlaced
  <2>6. QED
    BY <2>4, <2>5
<1>5. ASSUME NEW r \in Requests, ReadDoc(r)
      PROVE  Placed' /\ ProxyPlaced'
  <2>1. /\ pc[r] = "read" /\ UNCHANGED <<up, modesLock, done, crashes, deploys>>
        /\ \/ pc' = [pc EXCEPT ![r] = "open"] /\ UNCHANGED cur
           \/ Advanced(r)
    BY <1>5 DEF ReadDoc
  <2>2. /\ \A q \in Writers \ {r} : pc'[q] = pc[q] /\ cur'[q] = cur[q] /\ done'[q] = done[q]
        /\ \A q \in Requests \ {r} : modesLock' = q <=> modesLock = q
        /\ UNCHANGED <<up, deploys>>
    BY <1>0, <1>t, <2>1, AdvancedIs, Constants
  <2>3. PlacedAt(r)'
    BY <1>0, <1>t, <2>1, AdvancedIs, Constants DEF PlacedAt, AtFiles, Passed, InProgress
  <2>4. Placed'
    BY <1>0, <2>2, <2>3, PlaceOthers, Constants
  <2>5. ProxyPlaced'
    BY <1>0, <1>t, <2>1, <2>2, AdvancedIs, Constants DEF ProxyPlaced
  <2>6. QED
    BY <2>4, <2>5
<1>6. ASSUME NEW r \in Requests, Finish(r)
      PROVE  Placed' /\ ProxyPlaced'
  <2>2. /\ \A q \in Writers \ {r} : pc'[q] = pc[q] /\ cur'[q] = cur[q] /\ done'[q] = done[q]
        /\ \A q \in Requests \ {r} : modesLock' = q <=> modesLock = q
        /\ UNCHANGED <<up, deploys>>
    BY <1>0, <1>t, <1>6, Constants DEF Finish
  <2>3. PlacedAt(r)'
    BY <1>0, <1>t, <1>6, Constants DEF PlacedAt, AtFiles, Passed, InProgress, Finish
  <2>4. Placed'
    BY <1>0, <2>2, <2>3, PlaceOthers, Constants
  <2>5. ProxyPlaced'
    BY <1>0, <1>t, <1>6, <2>2, Constants DEF ProxyPlaced, Finish
  <2>6. QED
    BY <2>4, <2>5
<1>7. ASSUME NEW w \in Writers, Open(w)
      PROVE  Placed' /\ ProxyPlaced'
  <2>2. /\ \A q \in Writers \ {w} : pc'[q] = pc[q] /\ cur'[q] = cur[q] /\ done'[q] = done[q]
        /\ \A q \in Requests \ {w} : modesLock' = q <=> modesLock = q
        /\ UNCHANGED <<up, deploys>>
    BY <1>0, <1>t, <1>7, Constants DEF Open
  <2>3. w \in Requests => PlacedAt(w)'
    BY <1>0, <1>t, <1>7, Constants DEF PlacedAt, AtFiles, Passed, InProgress, Open
  <2>4. Placed'
    BY <1>0, <2>2, <2>3, PlaceOthers, Constants
  <2>5. ProxyPlaced'
    BY <1>0, <1>t, <1>7, <2>2, Constants DEF ProxyPlaced, Open
  <2>6. QED
    BY <2>4, <2>5
<1>8. ASSUME NEW w \in Writers, OpenFails(w)
      PROVE  Placed' /\ ProxyPlaced'
  <2>1. /\ pc[w] = "open" /\ UNCHANGED <<up, modesLock, done, crashes, deploys>>
        /\ \/ w = Proxy /\ pc' = [pc EXCEPT ![w] = "start"] /\ UNCHANGED cur
           \/ w # Proxy /\ Advanced(w)
    BY <1>8 DEF OpenFails
  <2>2. /\ \A q \in Writers \ {w} : pc'[q] = pc[q] /\ cur'[q] = cur[q] /\ done'[q] = done[q]
        /\ \A q \in Requests \ {w} : modesLock' = q <=> modesLock = q
        /\ UNCHANGED <<up, deploys>>
    BY <1>0, <1>t, <2>1, AdvancedIs, Constants
  <2>3. w \in Requests => PlacedAt(w)'
    BY <1>0, <1>t, <2>1, AdvancedIs, Constants DEF PlacedAt, AtFiles, Passed, InProgress
  <2>4. Placed'
    BY <1>0, <2>2, <2>3, PlaceOthers, Constants
  <2>5. ProxyPlaced'
    BY <1>0, <1>t, <2>1, <2>2, AdvancedIs, Constants DEF ProxyPlaced
  <2>6. QED
    BY <2>4, <2>5
<1>9. ASSUME NEW w \in Writers, Write(w) \/ WriteFails(w)
      PROVE  Placed' /\ ProxyPlaced'
  <2>1. /\ pc[w] = "write" /\ UNCHANGED <<up, modesLock, crashes, deploys>>
        /\ done' = [done EXCEPT ![w] = @ \cup {cur[w]}]
        /\ Advanced(w)
    BY <1>9 DEF Write, WriteFails
  <2>2. /\ \A q \in Writers \ {w} : pc'[q] = pc[q] /\ cur'[q] = cur[q] /\ done'[q] = done[q]
        /\ \A q \in Requests \ {w} : modesLock' = q <=> modesLock = q
        /\ UNCHANGED <<up, deploys>>
    BY <1>0, <1>t, <2>1, AdvancedIs, Constants
  <2>3. w \in Requests => PlacedAt(w)'
    BY <1>0, <1>t, <2>1, AdvancedIs, Constants DEF PlacedAt, AtFiles, Passed, InProgress
  <2>4. Placed'
    BY <1>0, <2>2, <2>3, PlaceOthers, Constants
  <2>5. ProxyPlaced'
    BY <1>0, <1>t, <2>1, <2>2, AdvancedIs, Constants DEF ProxyPlaced
  <2>6. QED
    BY <2>4, <2>5
<1>10. CASE Crash \/ KillCoordinator
  <2>1. modesLock' = Nobody /\ UNCHANGED <<cur, done, deploys>>
    BY <1>10 DEF Crash, Die, KillCoordinator
  <2>2. ASSUME NEW q \in Requests
        PROVE  /\ pc'[q] = IF InProgress(q) THEN "dead" ELSE pc[q]
               /\ pc'[Proxy] \in {pc[Proxy], "start"}
    <3>1. q # Proxy /\ q \in Writers /\ Proxy \in Writers
      BY Constants
    <3>2. CASE Crash
      BY <3>1, <3>2 DEF Crash, Die
    <3>3. CASE KillCoordinator
      BY <3>1, <3>3 DEF KillCoordinator
    <3>4. QED
      BY <1>10, <3>2, <3>3
  <2>3. Placed'
    <3>1. ASSUME NEW q \in Requests PROVE PlacedAt(q)'
      BY <1>0, <2>1, <2>2, Constants DEF PlacedAt, InProgress, AtFiles, Passed
    <3>2. QED
      BY <3>1 DEF Placed
  <2>4. ProxyPlaced'
    <3>1. pc'[Proxy] \in {pc[Proxy], "start"}
      <4>1. CASE Crash
        BY <4>1, Constants DEF Crash, Die
      <4>2. CASE KillCoordinator
        BY <4>2, Constants DEF KillCoordinator
      <4>3. QED
        BY <1>10, <4>1, <4>2
    <3>2. crashes' # 0 \/ deploys' # 0
      <4>1. CASE Crash
        <5>1. crashes \in 0 .. MaxCrashes /\ crashes' = crashes + 1
          BY <1>0, <4>1 DEF Crash, TypeOK
        <5>2. QED
          BY <5>1
      <4>2. CASE KillCoordinator
        BY <1>0, <2>1, <4>2 DEF KillCoordinator, ProxyPlaced
      <4>3. QED
        BY <1>10, <4>1, <4>2
    <3>3. QED
      BY <1>0, <2>1, <3>1, <3>2 DEF ProxyPlaced
  <2>5. QED
    BY <2>3, <2>4
<1>11. CASE Restart \/ Stopped \/ UNCHANGED vars
  <2>1. UNCHANGED <<pc, cur, done, modesLock, crashes, deploys>> /\ (up => up')
    BY <1>11 DEF Restart, Stopped, vars
  <2>2. QED
    BY <1>0, <2>1 DEF Placed, PlacedAt, AtFiles, Passed, InProgress, ProxyPlaced
<1>12. CASE Deploy
  <2>1. /\ pc' = [pc EXCEPT ![Proxy] = "open"] /\ cur' = [cur EXCEPT ![Proxy] = "active"]
        /\ UNCHANGED <<up, modesLock, done>> /\ deploys' = deploys + 1
    BY <1>12 DEF Deploy
  <2>2. deploys' # 0
    <3>1. deploys \in 0 .. MaxDeploys
      BY <1>0 DEF TypeOK
    <3>2. QED
      BY <2>1, <3>1
  <2>3. \A q \in Writers \ {Proxy} : pc'[q] = pc[q] /\ cur'[q] = cur[q] /\ done'[q] = done[q]
    BY <1>t, <2>1
  <2>4. Placed'
    BY <1>0, <2>1, <2>3, PlaceOthers, Constants
  <2>5. ProxyPlaced'
    BY <1>t, <2>1, <2>2, Constants DEF ProxyPlaced
  <2>6. QED
    BY <2>4, <2>5
<1>13. QED
  BY <1>1, <1>2, <1>3, <1>4, <1>5, <1>6, <1>7, <1>8, <1>9, <1>10, <1>11, <1>12 DEF Next, Step

\* Only the three edits start a request.
LEMMA Starts ==
    ASSUME StoreInv, [Next]_vars, NEW q \in Requests, InProgress(q)', ~InProgress(q)
    PROVE  EditModes(q) \/ EditPreset(q) \/ EditRow(q)
<1> USE DEF memory, files, work, history, bounds
<1>0. TypeOK /\ q \in Writers /\ q # Proxy /\ Requests \subseteq Writers
  BY Constants DEF StoreInv
<1>t. pc \in [Writers -> {"start", "lock", "read", "open", "write", "finish",
                          "answered", "dead"}]
  BY <1>0 DEF TypeOK
<1>1. ASSUME NEW r \in Requests, EditModes(r) \/ EditPreset(r) \/ EditRow(r) PROVE q = r
  BY <1>0, <1>t, <1>1 DEF EditModes, EditPreset, EditRow, InProgress
<1>2. ASSUME NEW w \in Writers, Advanced(w), InProgress(w) PROVE FALSE
  BY <1>0, <1>t, <1>2 DEF Advanced, InProgress
<1>3. ASSUME NEW r \in Requests, LockModes(r) \/ ReadDoc(r) \/ Finish(r) PROVE FALSE
  BY <1>0, <1>t, <1>2, <1>3 DEF LockModes, ReadDoc, Finish, InProgress
<1>4. ASSUME NEW w \in Writers, Open(w) \/ OpenFails(w) \/ Write(w) \/ WriteFails(w)
      PROVE  FALSE
  <2>1. InProgress(w)
    BY <1>4 DEF Open, OpenFails, Write, WriteFails, InProgress
  <2>2. pc' = [pc EXCEPT ![w] = "write"] \/ pc' = [pc EXCEPT ![w] = "start"] \/ Advanced(w)
    BY <1>4 DEF Open, OpenFails, Write, WriteFails
  <2>3. QED
    BY <1>0, <1>t, <1>2, <2>1, <2>2 DEF InProgress
<1>5. CASE Crash \/ Restart \/ Deploy \/ KillCoordinator \/ Stopped \/ UNCHANGED vars
  BY <1>0, <1>t, <1>5
  DEF Crash, Die, Restart, Deploy, KillCoordinator, Stopped, vars, InProgress
<1>6. QED
  BY <1>1, <1>3, <1>4, <1>5 DEF Next, Step

-----------------------------------------------------------------------------
(* What is in the memory                                                    *)

LEMMA MemoryStep ==
    ASSUME StoreInv, [Next]_vars
    PROVE  EditInMemory'
<1> SUFFICES ASSUME NEW q \in Requests, InProgress(q)' PROVE EditHeld(q)'
  BY DEF EditInMemory, EditHeld
<1> USE DEF memory, files, work, history, bounds
<1>0. /\ TypeOK /\ EditHeld(q) /\ PlacedAt(q)
      /\ stamp \in Nat /\ modes \in 0 .. stamp /\ presets \in 0 .. stamp
      /\ mine \in [Requests -> 0 .. stamp]
  BY DEF StoreInv, TypeOK, EditInMemory, Placed
<1>n. stamp \in Int /\ modes \in Int /\ presets \in Int /\ mine[q] \in Int
      /\ modes <= stamp /\ presets <= stamp /\ mine[q] <= stamp
  <2>1. mine[q] \in 0 .. stamp
    BY <1>0
  <2>2. QED
    BY <1>0, <2>1
<1>1. CASE EditModes(q)
  BY <1>0, <1>n, <1>1 DEF EditModes, EditHeld
<1>2. CASE EditPreset(q)
  BY <1>0, <1>n, <1>2 DEF EditPreset, EditHeld
<1>3. CASE EditRow(q)
  <2>1. q \in RowEditors /\ readable["source"] /\ q \in content["source"].agents
    BY <1>0, <1>3, Constants DEF EditRow, InProgress, TypeOK
  <2>2. QED
    BY <1>0, <1>3, <2>1, Constants DEF EditRow, EditedLive, EditHeld
<1>4. CASE InProgress(q)
  <2>i. modes' \in Int /\ presets' \in Int
    <3>1. TypeOK'
      BY TypeStep DEF StoreInv
    <3>2. stamp' \in Nat /\ modes' \in 0 .. stamp' /\ presets' \in 0 .. stamp'
      BY <3>1 DEF TypeOK
    <3>3. QED
      BY <3>2
  <2>1. ASSUME modes' >= modes, presets' >= presets, live \subseteq live', UNCHANGED deployed,
               mine'[q] = mine[q]
        PROVE  EditHeld(q)'
    BY <1>0, <1>4, <1>n, <2>i, <2>1 DEF EditHeld
  <2>2. ASSUME NEW r \in Requests, r # q, EditModes(r) \/ EditPreset(r) PROVE EditHeld(q)'
    BY <1>0, <1>n, <2>1, <2>2 DEF EditModes, EditPreset
  <2>3. CASE Restart
    BY <1>0, <1>4, <2>3 DEF Restart, PlacedAt
  <2>4. ASSUME UNCHANGED <<modes, presets, deployed, mine>>, live \subseteq live' PROVE EditHeld(q)'
    BY <1>n, <2>1, <2>4
  <2>5. ASSUME NEW r \in Requests, EditRow(r) \/ LockModes(r) \/ ReadDoc(r) \/ Finish(r)
        PROVE  EditHeld(q)'
    <3>1. UNCHANGED <<modes, presets, deployed, mine>> /\ live \subseteq live'
      BY <2>5 DEF EditRow, EditedLive, LockModes, ReadDoc, Finish
    <3>2. QED
      BY <2>4, <3>1
  <2>6. ASSUME NEW w \in Writers, Open(w) \/ OpenFails(w) \/ Write(w) \/ WriteFails(w)
        PROVE  EditHeld(q)'
    BY <2>4, <2>6 DEF Open, OpenFails, Write, WriteFails
  <2>7. CASE Crash \/ Deploy \/ KillCoordinator \/ Stopped \/ UNCHANGED vars
    BY <2>4, <2>7 DEF Crash, Die, Deploy, KillCoordinator, Stopped, vars
  <2>8. QED
    BY <1>1, <1>2, <2>2, <2>3, <2>5, <2>6, <2>7 DEF Next, Step
<1>5. QED
  BY <1>1, <1>2, <1>3, <1>4, Starts

-----------------------------------------------------------------------------
(* One writer at a time                                                     *)

LEMMA StillAlone ==
    ASSUME StoreInv, [Next]_vars, ~overlapped'
    PROVE  ~overlapped /\ ~Clash /\ ~Clash' /\ disturbed = {}
<1>1. CASE Next
  BY <1>1 DEF Next, StoreInv, Alone
<1>2. CASE UNCHANGED vars
  BY <1>2 DEF vars, StoreInv, Alone, Clash, InProgress, work, memory, files, bounds
<1>3. QED
  BY <1>1, <1>2

LEMMA Sole ==
    ASSUME StoreInv, ~overlapped, NEW v \in Writers, NEW w \in Writers,
           AtFiles(v), AtFiles(w)
    PROVE  v = w
<1>1. InProgress(v) /\ InProgress(w)
  BY DEF AtFiles, InProgress
<1>2. CASE v \in Persisters /\ w \in Persisters
  BY <1>2, Constants DEF StoreInv, Placed, PlacedAt
<1>3. CASE ~({v, w} \subseteq Persisters)
  BY <1>1, <1>3 DEF StoreInv, Alone, Clash
<1>4. QED
  BY <1>2, <1>3

\* While a redeploy or a row edit is under way nobody else is at work.
LEMMA NobodyElse ==
    ASSUME StoreInv, ~overlapped, NEW v \in Writers, NEW w \in Writers,
           InProgress(v), InProgress(w), v \notin Persisters
    PROVE  v = w
BY DEF StoreInv, Alone, Clash

LEMMA AloneStep ==
    ASSUME StoreInv, [Next]_vars
    PROVE  Alone'
<1> SUFFICES ASSUME ~overlapped'
             PROVE  /\ disturbed' = {}
                    /\ \A w \in Writers : pc'[w] = "write" => ~readable'[cur'[w]]
  BY StillAlone DEF Alone
<1> USE DEF memory, files, work, history, bounds
<1>0. /\ TypeOK /\ ~overlapped /\ disturbed = {}
      /\ \A w \in Writers : pc[w] = "write" => ~readable[cur[w]]
      /\ Requests \subseteq Writers
  BY StillAlone, Constants DEF StoreInv, Alone
<1>t. /\ pc \in [Writers -> {"start", "lock", "read", "open", "write", "finish",
                            "answered", "dead"}]
      /\ cur \in [Writers -> File] /\ readable \in [File -> BOOLEAN]
  BY <1>0 DEF TypeOK
<1> DEFINE Goal == /\ disturbed' = {}
                   /\ \A w \in Writers : pc'[w] = "write" => ~readable'[cur'[w]]
<1>f. ASSUME UNCHANGED <<disturbed, readable>>,
             \A w \in Writers : pc'[w] = "write" => pc[w] = "write" /\ cur'[w] = cur[w]
      PROVE  Goal
  BY <1>0, <1>f
<1>1. ASSUME NEW w \in Writers, Open(w) PROVE Goal
  <2>1. \A v \in Writers : pc[v] # "write"
    BY <1>0, <1>1, Sole DEF AtFiles, Open
  <2>2. disturbed' = {}
    BY <1>0, <1>1, <2>1 DEF Open, OpenOn
  <2>3. \A v \in Writers : pc'[v] = "write" => v = w
    BY <1>t, <1>1, <2>1 DEF Open
  <2>4. cur'[w] = cur[w] /\ readable'[cur[w]] = FALSE
    BY <1>t, <1>1 DEF Open
  <2>5. QED
    BY <2>2, <2>3, <2>4
<1>2. ASSUME NEW w \in Writers, Write(w) \/ WriteFails(w) PROVE Goal
  <2>1. \A v \in Writers : pc[v] = "write" => v = w
    BY <1>0, <1>2, Sole DEF AtFiles, Write, WriteFails
  <2>2. disturbed' = {}
    BY <1>0, <1>2, <2>1 DEF Write, WriteFails, OpenOn
  <2>3. \A v \in Writers : pc'[v] # "write"
    BY <1>0, <1>t, <1>2, <2>1, AdvancedIs DEF Write, WriteFails
  <2>4. QED
    BY <2>2, <2>3
<1>3. ASSUME NEW w \in Writers, OpenFails(w) PROVE Goal
  <2>1. \A v \in Writers : pc'[v] = "write" => v # w
    BY <1>0, <1>t, <1>3, AdvancedIs DEF OpenFails
  <2>2. \A v \in Writers \ {w} : pc'[v] = pc[v] /\ cur'[v] = cur[v]
    BY <1>0, <1>t, <1>3, AdvancedIs DEF OpenFails
  <2>3. QED
    BY <1>f, <1>3, <2>1, <2>2 DEF OpenFails
<1>4. ASSUME NEW r \in Requests, ReadDoc(r) PROVE Goal
  <2>1. \A v \in Writers : pc'[v] = "write" => v # r
    BY <1>0, <1>t, <1>4, AdvancedIs DEF ReadDoc
  <2>2. \A v \in Writers \ {r} : pc'[v] = pc[v] /\ cur'[v] = cur[v]
    BY <1>0, <1>t, <1>4, AdvancedIs DEF ReadDoc
  <2>3. QED
    BY <1>f, <1>4, <2>1, <2>2 DEF ReadDoc
<1>5. ASSUME NEW r \in Requests,
             EditModes(r) \/ EditPreset(r) \/ EditRow(r) \/ LockModes(r) \/ Finish(r)
      PROVE  Goal
  <2>1. \A v \in Writers : pc'[v] = "write" => pc[v] = "write"
    BY <1>t, <1>5 DEF EditModes, EditPreset, EditRow, LockModes, Finish
  <2>2. UNCHANGED <<cur, disturbed, readable>>
    BY <1>5 DEF EditModes, EditPreset, EditRow, LockModes, Finish
  <2>3. QED
    BY <1>f, <2>1, <2>2
<1>6. CASE Crash \/ KillCoordinator \/ Restart \/ Deploy \/ Stopped \/ UNCHANGED vars
  <2>1. /\ \A v \in Writers : pc'[v] = "write" => pc[v] = "write"
        /\ UNCHANGED <<disturbed, readable>>
    BY <1>t, <1>6 DEF Crash, Die, KillCoordinator, Restart, Deploy, Stopped, vars
  <2>2. \A v \in Writers : pc'[v] = "write" => cur'[v] = cur[v]
    BY <1>t, <1>6 DEF Crash, Die, KillCoordinator, Restart, Deploy, Stopped, vars
  <2>3. QED
    BY <1>f, <2>1, <2>2
<1>7. QED
  BY <1>1, <1>2, <1>3, <1>4, <1>5, <1>6 DEF Next, Step

-----------------------------------------------------------------------------
(* What was acknowledged is kept                                            *)

\* The numbers and sets of a document, for the provers.
LEMMA DocIs ==
    ASSUME TypeOK, Stamped
    PROVE  /\ \A w \in Writers : doc[w] \in Docs
           /\ \A f \in File : content[f] \in Docs
           /\ acked \in Acks
           /\ stamp \in Nat /\ modes \in Nat /\ presets \in Nat
           /\ modes <= stamp /\ presets <= stamp
           /\ acked.modes \in Nat /\ acked.presets \in Nat
           /\ acked.modes <= stamp /\ acked.presets <= stamp
           /\ mine \in [Requests -> Nat]
<1>1. doc \in [Writers -> Docs] /\ content \in [File -> Docs] /\ acked \in Acks
  BY DEF TypeOK
<1>2. stamp \in Nat /\ modes \in 0 .. stamp /\ presets \in 0 .. stamp
  BY DEF TypeOK
<1>3. acked.modes \in 0 .. stamp /\ acked.presets \in 0 .. stamp
  BY DEF Stamped, StampedAcks
<1>4. mine \in [Requests -> 0 .. stamp]
  BY DEF TypeOK
<1>5. QED
  BY <1>1, <1>2, <1>3, <1>4

\* A row editor carries its row, whichever it edits.
LEMMA CarriesIs ==
    ASSUME NEW r \in Requests, NEW d
    PROVE  /\ Kind[r] = "modes" => (Carries(d, r) <=> d.modes >= mine[r])
           /\ Kind[r] = "preset" => (Carries(d, r) <=> d.presets >= mine[r])
           /\ r \in RowEditors => (Carries(d, r) <=> r \in d.rows)
<1>1. r \in RowEditors => Kind[r] # "modes" /\ Kind[r] # "preset"
  BY Constants
<1>2. Kind[r] = "modes" \/ Kind[r] = "preset" => r \notin RowEditors
  BY Constants
<1>3. QED
  BY <1>1, <1>2 DEF Carries

\* The document a writer puts together holds what was acknowledged and the
\* writer's own edit.
LEMMA MergedHolds ==
    ASSUME StoreInv, NEW w \in Writers, Undisturbed, pc[w] = "open"
    PROVE  HoldsLasting(Merged(w)) /\ (w \in Requests => Carries(Merged(w), w))
<1>0. /\ TypeOK /\ Stamped /\ HoldsLasting(doc[w])
      /\ w \in Requests => EditHeld(w) /\ InProgress(w) /\ up
      /\ up => HoldsLasting(Memory)
  BY Constants DEF StoreInv, Kept, Lasts, Placed, PlacedAt, EditInMemory, InProgress
<1>t. doc[w] \in Docs
  BY <1>0, DocIs
<1>1. CASE w \in Persisters
  <2>1. Merged(w) = [doc[w] EXCEPT !.modes = modes, !.presets = presets]
    BY <1>t, <1>1, MergedIs
  <2>2. w \in Requests /\ HoldsLasting(Memory) /\ Kind[w] \in {"modes", "preset"}
    BY <1>0, <1>1, Constants
  <2>3. HoldsLasting(Merged(w))
    BY <1>0, <1>t, <2>1, <2>2 DEF HoldsLasting, Memory, Docs
  <2>4. Carries(Merged(w), w)
    BY <1>0, <1>t, <2>1, <2>2, CarriesIs DEF EditHeld, Docs
  <2>5. QED
    BY <2>3, <2>4
<1>2. CASE w \in RowEditors
  <2>1. Merged(w) = [doc[w] EXCEPT !.agents = @ \cup {w}, !.rows = @ \cup {w}]
    BY <1>t, <1>2, MergedIs
  <2>2. w \in Requests
    BY <1>2, Constants
  <2>3. HoldsLasting(Merged(w))
    BY <1>0, <1>t, <2>1 DEF HoldsLasting, Docs
  <2>4. Carries(Merged(w), w)
    BY <1>t, <1>2, <2>1, <2>2, CarriesIs DEF Docs
  <2>5. QED
    BY <2>3, <2>4
<1>3. CASE w = Proxy
  BY <1>0, <1>t, <1>3, MergedIs, Constants
<1>4. QED
  BY <1>1, <1>2, <1>3, Constants DEF Writers, RowEditors

\* What an answer adds to acked was in every document that carries the edit.
LEMMA AnswerHolds ==
    ASSUME TypeOK, Stamped, NEW r \in Requests, Finish(r), NEW d,
           HoldsLasting(d), Carries(d, r)
    PROVE  HoldsLasting(d)'
<1>t. /\ acked \in [modes : Nat, presets : Nat, rows : SUBSET RowEditors]
      /\ mine[r] \in Nat /\ UNCHANGED leftOut
  BY DocIs DEF Acks, Finish
<1>1. CASE UNCHANGED acked
  BY <1>t, <1>1 DEF HoldsLasting
<1>2. CASE Kind[r] = "modes" /\ acked' = [acked EXCEPT !.modes = mine[r]]
  BY <1>t, <1>2, CarriesIs DEF HoldsLasting
<1>3. CASE /\ Kind[r] = "preset"
           /\ acked' = [acked EXCEPT !.presets = IF @ > mine[r] THEN @ ELSE mine[r]]
  BY <1>t, <1>3, CarriesIs DEF HoldsLasting
<1>4. CASE r \in RowEditors /\ acked' = [acked EXCEPT !.rows = @ \cup {r}]
  BY <1>t, <1>4, CarriesIs DEF HoldsLasting
<1>5. QED
  <2>1. \/ Kind[r] = "modes" /\ r \notin RowEditors
        \/ Kind[r] = "preset" /\ r \notin RowEditors
        \/ r \in RowEditors /\ Kind[r] \notin {"modes", "preset"}
    BY Constants DEF Kinds
  <2>2. QED
    BY <1>1, <1>2, <1>3, <1>4, <2>1 DEF Finish

\* Steps that leave the files and the acknowledgements alone.
LEMMA KeptQuietly ==
    ASSUME StoreInv, Undisturbed, UNCHANGED <<acked, leftOut, content, readable>>,
           up' => HoldsLasting(Memory)',
           \A w \in Writers : pc'[w] \in {"open", "write"} =>
               pc[w] \in {"open", "write"} /\ doc'[w] = doc[w],
           \A r \in Requests : pc'[r] = "write" => pc[r] = "write" /\ mine'[r] = mine[r],
           \A r \in Requests : Passed(r)' # {} =>
               Passed(r)' \subseteq Passed(r) /\ mine'[r] = mine[r],
           pc'[Proxy] # "start" => pc[Proxy] # "start"
    PROVE  Kept'
<1>0. /\ Lasts
      /\ pc[Proxy] # "start" => readable["source"]
      /\ \A w \in Writers : pc[w] \in {"open", "write"} => HoldsLasting(doc[w])
      /\ \A r \in Requests : OnItsWay(r)
  BY DEF StoreInv, Kept
<1>1. Lasts'
  <2>1. \A f \in File : readable[f] => HoldsLasting(content[f])
    BY <1>0 DEF Lasts
  <2>2. \A f \in File : readable'[f] => HoldsLasting(content[f])'
    BY <2>1 DEF HoldsLasting
  <2>3. QED
    BY <2>2 DEF Lasts, HoldsLasting
<1>2. \A w \in Writers : pc'[w] \in {"open", "write"} => HoldsLasting(doc[w])'
  BY <1>0 DEF HoldsLasting
<1>3. ASSUME NEW r \in Requests PROVE OnItsWay(r)'
  <2>1. mine'[r] = mine[r] => \A d : Carries(d, r)' <=> Carries(d, r)
    BY Zenon DEF Carries
  <2>2. pc'[r] = "write" => Carries(doc[r], r)'
    <3>1. HAVE pc'[r] = "write"
    <3>2. r \in Writers
      BY Constants
    <3>3. doc'[r] = doc[r] /\ Carries(doc[r], r)
      BY <1>0, <3>1, <3>2 DEF OnItsWay
    <3>4. QED
      BY <2>1, <3>1, <3>3
  <2>3. \A f \in Passed(r)' : readable'[f] => Carries(content[f], r)'
    <3>1. TAKE f \in Passed(r)'
    <3>2. f \in Passed(r) /\ mine'[r] = mine[r]
      BY <3>1
    <3>3. QED
      BY <1>0, <2>1, <3>2 DEF OnItsWay
  <2>4. QED
    BY <2>2, <2>3 DEF OnItsWay
<1>4. pc'[Proxy] # "start" => readable'["source"]
  BY <1>0
<1>5. QED
  BY <1>1, <1>2, <1>3, <1>4 DEF Kept

LEMMA KeptStep ==
    ASSUME StoreInv, [Next]_vars
    PROVE  Kept'
<1> SUFFICES ASSUME Undisturbed' PROVE Kept'
  BY DEF Kept
<1> USE DEF memory, files, work, history, bounds
<1>0. /\ TypeOK /\ Stamped /\ TypeOK' /\ Stamped'
      /\ ~overlapped /\ ioErrors' = 0
      /\ \A r \in Requests : PlacedAt(r)
      /\ Requests \subseteq Writers /\ Proxy \in Writers /\ Proxy \notin Requests
  BY StillAlone, TypeStep, Constants DEF StoreInv, Undisturbed, Placed
<1>t. /\ pc \in [Writers -> {"start", "lock", "read", "open", "write", "finish",
                            "answered", "dead"}]
      /\ cur \in [Writers -> File] /\ readable \in [File -> BOOLEAN]
      /\ DOMAIN doc = Writers /\ DOMAIN content = File /\ DOMAIN mine = Requests
  BY <1>0 DEF TypeOK
<1>i. ioErrors \in Nat
  <2>1. ioErrors \in 0 .. MaxIoErrors
    BY <1>0 DEF TypeOK
  <2>2. QED
    BY <2>1
<1>n. /\ stamp \in Nat /\ modes \in Nat /\ presets \in Nat
      /\ modes <= stamp /\ presets <= stamp
      /\ acked.modes \in Nat /\ acked.presets \in Nat
      /\ acked.modes <= stamp /\ acked.presets <= stamp
  BY <1>0, DocIs
<1>m. ~(\E w \in Writers : OpenFails(w) \/ WriteFails(w))
  BY <1>0, <1>i DEF OpenFails, WriteFails
<1>u. ioErrors = 0
  <2>1. CASE Next
    <3>1. UNCHANGED ioErrors
      BY <1>m, <2>1 DEF Next, Step, EditModes, EditPreset, LockModes, EditRow, ReadDoc, Finish,
         Open, Write, Crash, Die, Restart, Deploy, KillCoordinator, Stopped
    <3>2. QED
      BY <1>0, <3>1
  <2>2. QED
    BY <1>0, <2>1 DEF vars
<1>k. /\ Undisturbed
      /\ \A f \in File : readable[f] => HoldsLasting(content[f])
      /\ up => HoldsLasting(Memory)
      /\ \A w \in Writers : pc[w] \in {"open", "write"} => HoldsLasting(doc[w])
      /\ \A r \in Requests : OnItsWay(r)
      /\ pc[Proxy] # "start" => readable["source"]
  BY <1>0, <1>u DEF Undisturbed, StoreInv, Kept, Lasts
\* Requests that wait for the lock, or have no work left, have passed no file.
<1>w. ASSUME NEW q \in Requests, NEW w \in Writers, AtFiles(w), q # w
      PROVE  Passed(q) = {} /\ pc[q] # "write"
  BY <1>0, <1>w, Sole DEF AtFiles, Passed
<1>1. ASSUME NEW r \in Requests, EditModes(r) \/ EditPreset(r) \/ EditRow(r) \/ LockModes(r)
      PROVE  Kept'
  <2>1. /\ UNCHANGED <<acked, leftOut, content, readable, doc, cur>>
        /\ up
        /\ \E l \in {"read", "lock", "answered"} : pc' = [pc EXCEPT ![r] = l]
        /\ pc[r] \in {"start", "lock"}
    BY <1>0, <1>1 DEF EditModes, EditPreset, EditRow, LockModes, PlacedAt, InProgress
  <2>2. HoldsLasting(Memory)'
    <3>1. modes' \in {modes, stamp + 1} /\ presets' \in {presets, stamp + 1} /\ live \subseteq live'
      BY <1>1 DEF EditModes, EditPreset, EditRow, LockModes, EditedLive
    <3>2. UNCHANGED deployed
      BY <1>1 DEF EditModes, EditPreset, EditRow, LockModes
    <3>3. QED
      BY <1>k, <1>n, <2>1, <3>1, <3>2 DEF HoldsLasting, Memory
  <2>3. \A q \in Requests : q # r => mine'[q] = mine[q]
    BY <1>t, <1>1 DEF EditModes, EditPreset, EditRow, LockModes
  <2>4. \A w \in Writers : pc'[w] \in {"open", "write"} => w # r /\ pc[w] = pc'[w]
    BY <1>t, <2>1
  <2>5. Passed(r)' = {}
    BY <1>0, <1>t, <2>1 DEF PlacedAt, Passed, AtFiles
  <2>6. \A q \in Requests : q # r => Passed(q)' = Passed(q)
    BY <1>0, <1>t, <2>1 DEF Passed, AtFiles
  <2>7. pc'[Proxy] = pc[Proxy]
    BY <1>0, <1>t, <2>1
  <2>8. QED
    BY <1>0, <1>k, <2>1, <2>2, <2>3, <2>4, <2>5, <2>6, <2>7, KeptQuietly
<1>2. CASE Crash \/ KillCoordinator \/ Stopped \/ UNCHANGED vars
  <2>1. /\ UNCHANGED <<acked, leftOut, content, readable, doc, cur, mine>>
        /\ up' => up /\ UNCHANGED memory
    BY <1>2 DEF Crash, Die, KillCoordinator, Stopped, vars
  <2>2. \A w \in Writers : pc'[w] = pc[w] \/ pc'[w] \in {"dead", "start"}
    BY <1>t, <1>2 DEF Crash, Die, KillCoordinator, Stopped, vars
  <2>3. \A q \in Requests : Passed(q)' = Passed(q) \/ Passed(q)' = {}
    BY <1>0, <2>1, <2>2 DEF Passed, AtFiles
  <2>4. up' => HoldsLasting(Memory)'
    BY <1>k, <2>1 DEF HoldsLasting, Memory
  <2>5. pc'[Proxy] # "start" => pc[Proxy] # "start"
    BY <1>t, <1>0, <1>2 DEF Crash, Die, KillCoordinator, Stopped, vars
  <2>6. QED
    BY <1>0, <1>k, <2>1, <2>2, <2>3, <2>4, <2>5, KeptQuietly
<1>3. CASE Restart
  <2>1. UNCHANGED <<acked, leftOut, content, readable, doc, cur, mine, pc>>
    BY <1>3 DEF Restart
  <2>2. HoldsLasting(Memory)'
    BY <1>k, <1>3, Constants DEF Restart, HoldsLasting, Memory
  <2>3. \A q \in Requests : Passed(q)' = Passed(q)
    BY <2>1 DEF Passed, AtFiles
  <2>4. QED
    BY <1>k, <2>1, <2>2, <2>3, KeptQuietly
\* The others change a document, a file or the acknowledgements.
<1>4. ASSUME NEW r \in Requests, ReadDoc(r) PROVE Kept'
  <2>1. /\ UNCHANGED <<acked, leftOut, content, readable, memory, up, mine>>
        /\ AtFiles(r) /\ pc[r] = "read" /\ InProgress(r)
    BY <1>4 DEF ReadDoc, AtFiles, InProgress
  <2>2. Lasts'
    BY <1>k, <2>1 DEF Lasts, HoldsLasting, Memory
  <2>3. \A w \in Writers \ {r} : pc'[w] = pc[w] /\ cur'[w] = cur[w] /\ doc'[w] = doc[w]
    BY <1>0, <1>t, <1>4, AdvancedIs DEF ReadDoc
  <2>4. ASSUME NEW w \in Writers, pc'[w] \in {"open", "write"} PROVE HoldsLasting(doc[w])'
    <3>1. CASE w # r
      <4>1. HoldsLasting(doc[w])
        BY <1>k, <2>3, <2>4, <3>1
      <4>2. QED
        BY <2>1, <2>3, <3>1, <4>1 DEF HoldsLasting
    <3>2. CASE w = r
      <4>1. readable[cur[r]] /\ doc'[r] = content[cur[r]] /\ cur[r] \in File
        BY <1>0, <1>t, <1>4, <2>4, <3>2, AdvancedIs DEF ReadDoc
      <4>2. HoldsLasting(content[cur[r]])
        BY <1>k, <4>1
      <4>3. QED
        BY <2>1, <3>2, <4>1, <4>2 DEF HoldsLasting
    <3>3. QED
      BY <3>1, <3>2
  <2>5. ASSUME NEW q \in Requests PROVE OnItsWay(q)'
    <3>1. pc'[q] # "write"
      <4>1. CASE q = r
        BY <1>0, <1>t, <1>4, <4>1, AdvancedIs DEF ReadDoc
      <4>2. CASE q # r
        BY <1>0, <1>w, <2>1, <2>3, <4>2
      <4>3. QED
        BY <4>1, <4>2
    <3>2. ASSUME NEW f \in Passed(q)', readable'[f] PROVE Carries(content[f], q)'
      <4>1. q = r
        BY <1>0, <1>w, <2>1, <2>3, <3>2 DEF Passed, AtFiles
      <4>2. f \in Passed(r)
        <5>1. CASE readable[cur[r]]
          BY <1>0, <1>t, <1>4, <3>2, <4>1, <5>1 DEF ReadDoc, Passed, AtFiles
        <5>2. CASE ~readable[cur[r]] /\ cur[r] = "active"
          <6>1. Passed(r)' = {"active"}
            BY <1>0, <1>t, <1>4, <5>2, AdvancedIs DEF ReadDoc, Passed, AtFiles
          <6>2. QED
            BY <2>1, <3>2, <4>1, <5>2, <6>1
        <5>3. CASE ~readable[cur[r]] /\ cur[r] = "source"
          <6>1. Passed(r)' = File /\ Passed(r) = {"active"}
            BY <1>0, <1>t, <1>4, <5>3, AdvancedIs DEF ReadDoc, Passed, AtFiles
          <6>2. QED
            BY <2>1, <3>2, <4>1, <5>3, <6>1, Constants
        <5>4. QED
          BY <1>0, <1>t, <5>1, <5>2, <5>3, Constants
      <4>3. Carries(content[f], r)
        BY <1>k, <2>1, <3>2, <4>2 DEF OnItsWay
      <4>4. QED
        BY <2>1, <4>1, <4>3 DEF Carries
    <3>3. QED
      BY <3>1, <3>2 DEF OnItsWay
  <2>6. pc'[Proxy] # "start" => readable'["source"]
    BY <1>0, <1>k, <2>1, <2>3
  <2>7. QED
    BY <2>2, <2>4, <2>5, <2>6 DEF Kept
<1>5. ASSUME NEW w \in Writers, Open(w) PROVE Kept'
  <2>1. /\ UNCHANGED <<acked, leftOut, content, memory, up, mine, cur>>
        /\ AtFiles(w) /\ pc[w] = "open" /\ InProgress(w)
        /\ pc' = [pc EXCEPT ![w] = "write"]
        /\ doc' = [doc EXCEPT ![w] = Merged(w)]
        /\ readable' = [readable EXCEPT ![cur[w]] = FALSE]
    BY <1>5 DEF Open, AtFiles, InProgress
  <2>2. \A f \in File : readable'[f] => readable[f]
    BY <1>t, <2>1
  <2>3. Lasts'
    BY <1>k, <2>1, <2>2 DEF Lasts, HoldsLasting, Memory
  <2>4. ASSUME NEW v \in Writers, pc'[v] \in {"open", "write"} PROVE HoldsLasting(doc[v])'
    <3>1. HoldsLasting(doc'[v])
      BY <1>k, <1>t, <2>1, <2>4, MergedHolds
    <3>2. QED
      BY <2>1, <3>1 DEF HoldsLasting
  <2>5. ASSUME NEW q \in Requests PROVE OnItsWay(q)'
    <3>1. pc'[q] = "write" => Carries(doc[q], q)'
      <4>1. pc'[q] = "write" => q = w
        BY <1>0, <1>t, <1>w, <2>1
      <4>2. q = w => Carries(doc'[q], q)
        BY <1>0, <1>k, <1>t, <2>1, MergedHolds
      <4>3. QED
        BY <2>1, <4>1, <4>2 DEF Carries
    <3>2. ASSUME NEW f \in Passed(q)', readable'[f] PROVE Carries(content[f], q)'
      <4>1. Passed(q)' = Passed(q) /\ Passed(q) \subseteq File
        BY <1>0, <1>t, <2>1, Constants DEF Passed, AtFiles
      <4>2. Carries(content[f], q)
        BY <1>k, <2>2, <3>2, <4>1 DEF OnItsWay
      <4>3. QED
        BY <2>1, <4>2 DEF Carries
    <3>3. QED
      BY <3>1, <3>2 DEF OnItsWay
  <2>6. pc'[Proxy] # "start" => readable'["source"]
    <3>1. HAVE pc'[Proxy] # "start"
    <3>2. pc[Proxy] # "start" /\ InProgress(Proxy) /\ Proxy \notin Persisters
      BY <1>0, <1>t, <2>1, <3>1, Constants DEF StoreInv, ProxyPlaced, InProgress
    <3>3. w = Proxy /\ cur[w] = "active"
      BY <1>0, <2>1, <3>2, NobodyElse DEF StoreInv, ProxyPlaced
    <3>4. QED
      BY <1>k, <1>t, <2>1, <3>2, <3>3
  <2>7. QED
    BY <2>3, <2>4, <2>5, <2>6 DEF Kept
<1>6. ASSUME NEW w \in Writers, Write(w) PROVE Kept'
  <2>1. /\ UNCHANGED <<acked, leftOut, memory, up, mine>>
        /\ AtFiles(w) /\ pc[w] = "write" /\ InProgress(w) /\ Advanced(w)
        /\ content' = [content EXCEPT ![cur[w]] = doc[w]]
        /\ \E b \in BOOLEAN : readable' = [readable EXCEPT ![cur[w]] = b]
    BY <1>6 DEF Write, AtFiles, InProgress
  <2>2. \A f \in File : f # cur[w] => readable'[f] = readable[f] /\ content'[f] = content[f]
    BY <1>t, <2>1
  <2>3. content'[cur[w]] = doc[w] /\ cur[w] \in File
    BY <1>t, <2>1
  <2>4. Lasts'
    <3>1. \A f \in File : readable'[f] => HoldsLasting(content'[f])
      BY <1>k, <2>1, <2>2, <2>3
    <3>2. \A f \in File : readable'[f] => HoldsLasting(content[f])'
      BY <2>1, <3>1 DEF HoldsLasting
    <3>3. up' => HoldsLasting(Memory)'
      BY <1>k, <2>1 DEF HoldsLasting, Memory
    <3>4. QED
      BY <3>2, <3>3 DEF Lasts
  <2>5. \A v \in Writers : pc'[v] \notin {"open", "write"}
    <3>1. pc'[w] \in {"read", "finish"}
      BY <1>0, <1>t, <2>1, AdvancedIs
    <3>2. \A v \in Writers \ {w} : pc'[v] = pc[v] /\ ~AtFiles(v)
      BY <1>0, <1>t, <2>1, AdvancedIs, Sole
    <3>3. QED
      BY <3>1, <3>2 DEF AtFiles
  <2>6. ASSUME NEW q \in Requests PROVE OnItsWay(q)'
    <3>1. ASSUME NEW f \in Passed(q)', readable'[f] PROVE Carries(content[f], q)'
      <4>1. q = w
        BY <1>0, <1>t, <1>w, <2>1, <3>1, AdvancedIs DEF Passed, AtFiles
      <4>2. f = cur[w] \/ (f \in Passed(w) /\ f \in File)
        BY <1>0, <1>t, <2>1, <3>1, <4>1, AdvancedIs, Constants DEF Passed, AtFiles
      <4>3. Carries(content'[f], q)
        BY <1>k, <2>1, <2>2, <2>3, <3>1, <4>1, <4>2 DEF OnItsWay
      <4>4. QED
        BY <2>1, <4>3 DEF Carries
    <3>2. QED
      BY <1>0, <2>5, <3>1 DEF OnItsWay
  <2>7. pc'[Proxy] # "start" => readable'["source"]
    <3>1. HAVE pc'[Proxy] # "start"
    <3>2. pc[Proxy] # "start" /\ InProgress(Proxy) /\ Proxy \notin Persisters
      BY <1>0, <1>t, <2>1, <3>1, AdvancedIs, Constants DEF StoreInv, ProxyPlaced, InProgress
    <3>3. w = Proxy /\ cur[w] = "active"
      BY <1>0, <2>1, <3>2, NobodyElse DEF StoreInv, ProxyPlaced
    <3>4. QED
      BY <1>k, <2>2, <3>2, <3>3, Constants
  <2>8. QED
    BY <2>4, <2>5, <2>6, <2>7 DEF Kept
<1>7. ASSUME NEW r \in Requests, Finish(r) PROVE Kept'
  <2>1. /\ UNCHANGED <<content, readable, doc, modes, presets, deployed, leftOut, up, mine, cur>>
        /\ AtFiles(r) /\ pc[r] = "finish" /\ InProgress(r) /\ up
        /\ pc' = [pc EXCEPT ![r] = "answered"]
    BY <1>0, <1>7 DEF Finish, AtFiles, InProgress, PlacedAt
  <2>2. \A f \in File : readable[f] => Carries(content[f], r)
    BY <1>k, <2>1 DEF OnItsWay, Passed
  <2>3. Lasts'
    <3>1. \A f \in File : readable[f] => HoldsLasting(content[f])'
      <4>1. TAKE f \in File
      <4>2. HAVE readable[f]
      <4>3. HoldsLasting(content[f]) /\ Carries(content[f], r)
        BY <1>k, <2>2, <4>2
      <4>4. \A d : HoldsLasting(d) /\ Carries(d, r) => HoldsLasting(d)'
        BY <1>0, <1>7, AnswerHolds
      <4>5. content'[f] = content[f]
        BY <2>1
      <4>6. QED
        BY <4>3, <4>4, <4>5 DEF HoldsLasting
    <3>2. HoldsLasting(Memory)'
      <4>1. EditHeld(r) /\ HoldsLasting(Memory)
        BY <1>k, <2>1 DEF StoreInv, EditInMemory
      <4>2. DEFINE m == [modes |-> modes, presets |-> presets,
                         rows |-> live' \cup (RowEditors \ deployed)]
      <4>3. /\ live' = IF Kind[r] = "prompt" THEN EditedLive(r) ELSE live
            /\ r \in RowEditors => Kind[r] \in {"prompt", "tokens"}
        BY <1>7, Constants DEF Finish
      <4>4. live \subseteq live' /\ (r \in RowEditors => r \in m.rows)
        BY <2>1, <4>1, <4>3 DEF EditHeld, EditedLive
      <4>5. HoldsLasting(m)
        BY <2>1, <4>1, <4>4 DEF HoldsLasting, Memory
      <4>6. Carries(m, r)
        BY <2>1, <4>1, <4>4, CarriesIs, Constants DEF EditHeld, Kinds
      <4>7. ASSUME NEW d, HoldsLasting(d), Carries(d, r)
            PROVE  /\ d.modes >= acked'.modes /\ d.presets >= acked'.presets
                   /\ acked'.rows \ leftOut \subseteq d.rows
        <5>1. HoldsLasting(d)'
          BY <1>0, <1>7, <4>7, AnswerHolds
        <5>2. QED
          BY <2>1, <5>1 DEF HoldsLasting
      <4>8. /\ m.modes >= acked'.modes /\ m.presets >= acked'.presets
            /\ acked'.rows \ leftOut \subseteq m.rows
        BY <4>5, <4>6, <4>7
      <4>9. QED
        BY <2>1, <4>8 DEF HoldsLasting, Memory
    <3>3. QED
      BY <2>1, <3>1, <3>2 DEF Lasts
  <2>4. \A v \in Writers : pc'[v] \notin {"open", "write"}
    BY <1>0, <1>t, <2>1, Sole DEF AtFiles
  <2>5. ASSUME NEW q \in Requests PROVE OnItsWay(q)'
    <3>1. Passed(q)' = {}
      BY <1>0, <1>t, <1>w, <2>1 DEF Passed, AtFiles
    <3>2. QED
      BY <1>0, <2>4, <3>1 DEF OnItsWay
  <2>6. pc'[Proxy] # "start" => readable'["source"]
    BY <1>0, <1>k, <1>t, <2>1
  <2>7. QED
    BY <2>3, <2>4, <2>5, <2>6 DEF Kept
<1>8. CASE Deploy
  <2>1. /\ UNCHANGED <<acked, content, readable, memory, up, mine>>
        /\ readable["source"]
        /\ pc' = [pc EXCEPT ![Proxy] = "open"] /\ cur' = [cur EXCEPT ![Proxy] = "active"]
    BY <1>8 DEF Deploy
  <2>r. PICK agents \in SUBSET RowEditors, rows \in SUBSET RowEditors :
           /\ doc' = [doc EXCEPT ![Proxy] = [content["source"] EXCEPT
                                            !.agents = agents, !.rows = rows]]
           /\ leftOut' = leftOut \cup (acked.rows \ rows)
    BY <1>8 DEF Deploy
  <2>l. \A d : HoldsLasting(d) => HoldsLasting(d)'
    BY <2>1, <2>r DEF HoldsLasting
  <2>2. Lasts'
    <3>1. \A f \in File : readable'[f] => HoldsLasting(content[f])'
      BY <1>k, <2>1, <2>l DEF HoldsLasting
    <3>2. up' => HoldsLasting(Memory)'
      BY <1>k, <2>1, <2>r DEF HoldsLasting, Memory
    <3>3. QED
      BY <3>1, <3>2 DEF Lasts
  <2>3. ASSUME NEW v \in Writers, pc'[v] \in {"open", "write"} PROVE HoldsLasting(doc[v])'
    <3>1. CASE v = Proxy
      <4>1. /\ content["source"] \in Docs /\ HoldsLasting(content["source"])
            /\ doc'[v] = [content["source"] EXCEPT !.agents = agents, !.rows = rows]
        BY <1>0, <1>k, <1>t, <2>1, <2>r, <3>1, DocIs, Constants
      <4>2. QED
        BY <2>1, <2>r, <4>1 DEF HoldsLasting, Docs
    <3>2. CASE v # Proxy
      <4>1. doc'[v] = doc[v] /\ HoldsLasting(doc[v])
        BY <1>k, <1>t, <2>1, <2>r, <2>3, <3>2
      <4>2. QED
        BY <2>1, <2>r, <4>1 DEF HoldsLasting
    <3>3. QED
      BY <3>1, <3>2
  <2>4. ASSUME NEW q \in Requests PROVE OnItsWay(q)'
    <3>1. q \in Writers /\ q # Proxy
      BY <1>0
    <3>2. pc'[q] = pc[q] /\ cur'[q] = cur[q] /\ doc'[q] = doc[q]
      BY <1>t, <2>1, <2>r, <3>1
    <3>3. Passed(q)' = Passed(q) /\ OnItsWay(q)
      BY <1>k, <3>2 DEF Passed, AtFiles
    <3>4. QED
      BY <2>1, <3>2, <3>3 DEF OnItsWay, Carries
  <2>5. QED
    BY <2>1, <2>2, <2>3, <2>4 DEF Kept
<1>9. QED
  BY <1>1, <1>2, <1>3, <1>4, <1>5, <1>6, <1>7, <1>8, <1>m DEF Next, Step

-----------------------------------------------------------------------------
(* The source file has every row that was acknowledged                      *)

LEMMA SourceStep ==
    ASSUME StoreInv, [Next]_vars
    PROVE  SourceKept'
<1> SUFFICES ASSUME Undisturbed' PROVE SourceKept'
  BY DEF SourceKept
<1> USE DEF memory, files, work, history, bounds
<1>0. /\ TypeOK /\ Stamped /\ ~overlapped /\ Undisturbed
      /\ ~(\E w \in Writers : OpenFails(w) \/ WriteFails(w))
      /\ \A r \in Requests : PlacedAt(r) /\ OnItsWay(r)
      /\ Requests \subseteq Writers /\ Proxy \in Writers /\ Proxy \notin Requests
      /\ ProxyPlaced
  <2>1. TypeOK /\ Stamped /\ ~overlapped /\ ioErrors' = 0
    BY StillAlone DEF StoreInv, Undisturbed
  <2>2. ioErrors \in Nat
    <3>1. ioErrors \in 0 .. MaxIoErrors
      BY <2>1 DEF TypeOK
    <3>2. QED
      BY <3>1
  <2>3. ~(\E w \in Writers : OpenFails(w) \/ WriteFails(w))
    BY <2>1, <2>2 DEF OpenFails, WriteFails
  <2>4. ioErrors = 0
    <3>1. UNCHANGED ioErrors
      BY <2>3 DEF Next, Step, EditModes, EditPreset, LockModes, EditRow, ReadDoc, Finish,
         Open, Write, Crash, Die, Restart, Deploy, KillCoordinator, Stopped, vars
    <3>2. QED
      BY <2>1, <3>1
  <2>5. QED
    BY <2>1, <2>3, <2>4, Constants DEF StoreInv, Placed, Kept, Undisturbed
<1>t. /\ pc \in [Writers -> {"start", "lock", "read", "open", "write", "finish",
                            "answered", "dead"}]
      /\ cur \in [Writers -> File] /\ readable \in [File -> BOOLEAN]
      /\ DOMAIN doc = Writers /\ DOMAIN content = File
      /\ File = {"active", "source"}
  BY <1>0, Constants DEF TypeOK
<1> DEFINE AtSource(w) == pc[w] \in {"open", "write"} /\ cur[w] = "source"
<1>k. /\ readable["source"] => acked.rows \subseteq content["source"].rows
      /\ \A w \in Writers : AtSource(w) => acked.rows \subseteq doc[w].rows
  BY <1>0 DEF StoreInv, SourceKept
<1>g. ASSUME readable'["source"] => acked'.rows \subseteq content'["source"].rows,
             \A w \in Writers : AtSource(w)' => acked'.rows \subseteq doc'[w].rows
      PROVE  SourceKept'
  BY <1>g DEF SourceKept
<1>q. ASSUME UNCHANGED <<acked, content, readable>>,
             \A w \in Writers : AtSource(w)' => AtSource(w) /\ doc'[w] = doc[w]
      PROVE  SourceKept'
  BY <1>g, <1>k, <1>q
<1>w. ASSUME NEW v \in Writers, NEW w \in Writers, AtFiles(w), v # w
      PROVE  pc[v] \notin {"open", "write"}
  BY <1>0, <1>w, Sole DEF AtFiles
<1>1. ASSUME NEW r \in Requests, EditModes(r) \/ EditPreset(r) \/ EditRow(r) \/ LockModes(r)
      PROVE  SourceKept'
  <2>1. /\ UNCHANGED <<acked, content, readable, doc, cur>>
        /\ \E l \in {"read", "lock", "answered"} : pc' = [pc EXCEPT ![r] = l]
    BY <1>1 DEF EditModes, EditPreset, EditRow, LockModes
  <2>2. \A w \in Writers : AtSource(w)' => AtSource(w)
    BY <1>0, <1>t, <2>1
  <2>3. QED
    BY <1>q, <2>1, <2>2
<1>2. ASSUME NEW r \in Requests, ReadDoc(r) PROVE SourceKept'
  <2>1. UNCHANGED <<acked, content, readable>> /\ pc[r] = "read" /\ AtFiles(r) /\ r \in Writers
    BY <1>0, <1>2 DEF ReadDoc, AtFiles
  <2>2. ASSUME NEW v \in Writers, AtSource(v)' PROVE acked.rows \subseteq doc'[v].rows
    <3>1. v = r
      BY <1>0, <1>t, <1>w, <1>2, <2>1, <2>2, AdvancedIs DEF ReadDoc
    <3>2. readable[cur[r]]
      BY <1>0, <1>t, <1>2, <2>1, <2>2, <3>1, AdvancedIs DEF ReadDoc
    <3>3. doc'[r] = content[cur[r]] /\ cur[r] = "source"
      BY <1>t, <1>2, <2>1, <2>2, <3>1, <3>2 DEF ReadDoc
    <3>4. QED
      BY <1>k, <3>1, <3>2, <3>3
  <2>3. QED
    BY <1>g, <1>k, <2>1, <2>2
<1>3. ASSUME NEW w \in Writers, Open(w) PROVE SourceKept'
  <2>1. /\ UNCHANGED <<acked, content, cur>> /\ pc[w] = "open"
        /\ pc' = [pc EXCEPT ![w] = "write"]
        /\ doc' = [doc EXCEPT ![w] = Merged(w)]
        /\ readable' = [readable EXCEPT ![cur[w]] = FALSE]
    BY <1>3 DEF Open
  <2>2. doc[w].rows \subseteq Merged(w).rows
    <3>1. doc[w] \in Docs
      BY <1>0, DocIs
    <3>2. CASE w \in Persisters
      <4>1. Merged(w) = [doc[w] EXCEPT !.modes = modes, !.presets = presets]
        BY <3>2, MergedIs
      <4>2. QED
        BY <3>1, <4>1 DEF Docs
    <3>3. CASE w \in RowEditors
      <4>1. Merged(w) = [doc[w] EXCEPT !.agents = @ \cup {w}, !.rows = @ \cup {w}]
        BY <3>3, MergedIs
      <4>2. QED
        BY <3>1, <4>1 DEF Docs
    <3>4. CASE w = Proxy
      BY <3>4, MergedIs
    <3>5. QED
      BY <3>2, <3>3, <3>4 DEF Writers, RowEditors
  <2>3. ASSUME NEW v \in Writers, AtSource(v)' PROVE acked.rows \subseteq doc'[v].rows
    <3>1. CASE v = w
      BY <1>k, <1>t, <2>1, <2>2, <2>3, <3>1
    <3>2. CASE v # w
      BY <1>k, <1>t, <2>1, <2>3, <3>2
    <3>3. QED
      BY <3>1, <3>2
  <2>4. readable'["source"] => readable["source"]
    BY <1>t, <2>1
  <2>5. QED
    BY <1>g, <1>k, <2>1, <2>3, <2>4
<1>4. ASSUME NEW w \in Writers, Write(w) PROVE SourceKept'
  <2>1. /\ UNCHANGED acked /\ pc[w] = "write" /\ AtFiles(w) /\ Advanced(w)
        /\ content' = [content EXCEPT ![cur[w]] = doc[w]]
        /\ \E b \in BOOLEAN : readable' = [readable EXCEPT ![cur[w]] = b]
    BY <1>4 DEF Write, AtFiles
  <2>2. \A v \in Writers : pc'[v] \notin {"open", "write"}
    BY <1>0, <1>t, <1>w, <2>1, AdvancedIs
  <2>3. readable'["source"] => acked'.rows \subseteq content'["source"].rows
    <3>1. CASE cur[w] = "source"
      BY <1>k, <1>t, <2>1, <3>1
    <3>2. CASE cur[w] # "source"
      BY <1>k, <1>t, <2>1, <3>2
    <3>3. QED
      BY <3>1, <3>2
  <2>4. QED
    BY <1>g, <2>2, <2>3
<1>5. ASSUME NEW r \in Requests, Finish(r) PROVE SourceKept'
  <2>1. /\ UNCHANGED <<content, readable, doc, cur, mine>> /\ pc[r] = "finish" /\ AtFiles(r)
        /\ pc' = [pc EXCEPT ![r] = "answered"] /\ r \in Writers
    BY <1>0, <1>5 DEF Finish, AtFiles
  <2>2. acked'.rows = acked.rows \/ (r \in RowEditors /\ acked'.rows = acked.rows \cup {r})
    <3>1. acked \in [modes : Nat, presets : Nat, rows : SUBSET RowEditors]
      BY <1>0, DocIs DEF Acks
    <3>2. \/ acked' = acked
          \/ acked' = [acked EXCEPT !.modes = mine[r]]
          \/ acked' = [acked EXCEPT !.presets = IF @ > mine[r] THEN @ ELSE mine[r]]
          \/ r \in RowEditors /\ acked' = [acked EXCEPT !.rows = @ \cup {r}]
      <4>1. \/ Kind[r] = "modes" /\ r \notin RowEditors
            \/ Kind[r] = "preset" /\ r \notin RowEditors
            \/ r \in RowEditors /\ Kind[r] \notin {"modes", "preset"}
        BY Constants DEF Kinds
      <4>2. QED
        BY <1>5, <4>1 DEF Finish
    <3>3. QED
      BY <3>1, <3>2
  <2>3. \A v \in Writers : ~AtSource(v)'
    BY <1>t, <1>w, <2>1
  <2>4. readable["source"] /\ r \in RowEditors => r \in content["source"].rows
    <3>1. Passed(r) = File
      BY <2>1 DEF Passed
    <3>2. QED
      BY <1>0, <1>t, <3>1, CarriesIs DEF OnItsWay
  <2>5. QED
    BY <1>g, <1>k, <2>1, <2>2, <2>3, <2>4
<1>6. CASE Crash \/ KillCoordinator \/ Restart \/ Stopped \/ UNCHANGED vars
  <2>1. /\ UNCHANGED <<acked, content, readable, doc, cur>>
        /\ \A v \in Writers : pc'[v] \in {"open", "write"} => pc'[v] = pc[v]
    BY <1>t, <1>6 DEF Crash, Die, KillCoordinator, Restart, Stopped, vars
  <2>2. QED
    BY <1>q, <2>1
<1>7. CASE Deploy
  <2>1. /\ UNCHANGED <<acked, content, readable>>
        /\ pc' = [pc EXCEPT ![Proxy] = "open"] /\ cur' = [cur EXCEPT ![Proxy] = "active"]
        /\ \E d : doc' = [doc EXCEPT ![Proxy] = d]
    BY <1>7 DEF Deploy
  <2>2. QED
    BY <1>0, <1>q, <1>t, <2>1
<1>8. QED
  BY <1>0, <1>1, <1>2, <1>3, <1>4, <1>5, <1>6, <1>7 DEF Next, Step

-----------------------------------------------------------------------------
(* What was acknowledged is in the active file                              *)

LEMMA ActiveStep ==
    ASSUME StoreInv, [Next]_vars
    PROVE  ActiveKept'
<1> SUFFICES ASSUME ~overlapped', deploys' = 0 PROVE ActiveKept'
  BY DEF ActiveKept
<1> USE DEF memory, files, work, history, bounds
<1>0. /\ TypeOK /\ Stamped /\ ~overlapped
      /\ \A r \in Requests : PlacedAt(r) /\ EditHeld(r)
      /\ Requests \subseteq Writers /\ Proxy \in Writers /\ Proxy \notin Requests
  BY StillAlone, Constants DEF StoreInv, Placed, EditInMemory
<1>t. /\ pc \in [Writers -> {"start", "lock", "read", "open", "write", "finish",
                            "answered", "dead"}]
      /\ cur \in [Writers -> File] /\ readable \in [File -> BOOLEAN]
      /\ done \in [Writers -> SUBSET File]
      /\ DOMAIN doc = Writers /\ DOMAIN content = File /\ DOMAIN mine = Requests
      /\ File = {"active", "source"}
  BY <1>0, Constants DEF TypeOK
<1>n. /\ stamp \in Nat /\ modes \in Nat /\ presets \in Nat
      /\ modes <= stamp /\ presets <= stamp
      /\ acked.modes \in Nat /\ acked.presets \in Nat
      /\ acked.modes <= stamp /\ acked.presets <= stamp
  BY <1>0, DocIs
<1>d. ~Deploy
  <2>1. deploys \in Nat
    <3>1. deploys \in 0 .. MaxDeploys
      BY <1>0 DEF TypeOK
    <3>2. QED
      BY <3>1
  <2>2. Deploy => deploys' = deploys + 1
    BY DEF Deploy
  <2>3. QED
    BY <2>1, <2>2
<1>u. deploys = 0
  <2>1. CASE Next
    <3>1. UNCHANGED deploys
      BY <1>d, <2>1 DEF Next, Step, EditModes, EditPreset, LockModes, EditRow, ReadDoc, Finish,
         Open, OpenFails, Write, WriteFails, Crash, Die, Restart, KillCoordinator, Stopped
    <3>2. QED
      BY <3>1
  <2>2. QED
    BY <2>1 DEF vars
<1>k. /\ readable["active"] => HoldsVersions(content["active"])
      /\ up => HoldsVersions(InMemory)
      /\ \A r \in Requests : OnItsWayToActive(r)
      /\ pc[Proxy] = "start"
  BY <1>0, <1>u DEF StoreInv, ActiveKept, ActiveHoldsAcked, ProxyPlaced, HoldsVersions
<1>g. ASSUME readable'["active"] => HoldsVersions(content["active"])',
             up' => HoldsVersions(InMemory)',
             \A r \in Requests : OnItsWayToActive(r)'
      PROVE  ActiveKept'
  BY <1>g DEF ActiveKept, ActiveHoldsAcked, HoldsVersions
\* Requests that do not move, next to one that is at the files.
<1>o. ASSUME NEW q \in Requests, ~AtFiles(q), pc'[q] = pc[q] PROVE OnItsWayToActive(q)'
  BY <1>o DEF OnItsWayToActive, AtFiles
<1>f. ASSUME UNCHANGED acked
      PROVE  /\ \A d : HoldsVersions(d) <=> d.modes >= acked'.modes /\ d.presets >= acked'.presets
  BY <1>f DEF HoldsVersions
<1>w. ASSUME NEW q \in Requests, NEW w \in Writers, AtFiles(w), q # w
      PROVE  ~AtFiles(q)
  BY <1>0, <1>w, Sole
<1>1. ASSUME NEW r \in Requests, EditModes(r) \/ EditPreset(r) \/ EditRow(r) \/ LockModes(r)
      PROVE  ActiveKept'
  <2>1. /\ UNCHANGED <<acked, content, readable, doc, cur, done>>
        /\ up
        /\ \E l \in {"read", "lock", "answered"} : pc' = [pc EXCEPT ![r] = l]
        /\ pc[r] \in {"start", "lock"}
    BY <1>0, <1>1 DEF EditModes, EditPreset, EditRow, LockModes, PlacedAt, InProgress
  <2>2. HoldsVersions(InMemory)'
    <3>1. modes' \in {modes, stamp + 1} /\ presets' \in {presets, stamp + 1}
      BY <1>1 DEF EditModes, EditPreset, EditRow, LockModes
    <3>2. QED
      BY <1>k, <1>n, <2>1, <3>1 DEF HoldsVersions, InMemory
  <2>3. ASSUME NEW q \in Requests PROVE OnItsWayToActive(q)'
    <3>1. CASE q = r
      BY <1>0, <1>t, <2>1, <3>1 DEF OnItsWayToActive, PlacedAt, AtFiles
    <3>2. CASE q # r
      <4>1. mine'[q] = mine[q]
        BY <1>t, <1>1, <3>2 DEF EditModes, EditPreset, EditRow, LockModes
      <4>2. pc'[q] = pc[q] /\ OnItsWayToActive(q)
        BY <1>0, <1>k, <1>t, <2>1, <3>2
      <4>3. QED
        BY <2>1, <4>1, <4>2 DEF OnItsWayToActive, AtFiles, Carries, HoldsVersions
    <3>3. QED
      BY <3>1, <3>2
  <2>4. readable'["active"] => HoldsVersions(content["active"])'
    BY <1>k, <2>1 DEF HoldsVersions
  <2>5. QED
    BY <1>g, <2>2, <2>3, <2>4
<1>2. CASE Crash \/ KillCoordinator \/ Stopped \/ UNCHANGED vars \/ Restart
  <2>1. UNCHANGED <<acked, content, readable, doc, cur, mine, done>>
    BY <1>2 DEF Crash, Die, KillCoordinator, Stopped, vars, Restart
  <2>2. \A w \in Writers : pc'[w] = pc[w] \/ pc'[w] \in {"dead", "start"}
    BY <1>t, <1>2 DEF Crash, Die, KillCoordinator, Stopped, vars, Restart
  <2>3. up' => HoldsVersions(InMemory)'
    <3>1. CASE Restart
      BY <1>k, <3>1 DEF Restart, HoldsVersions, InMemory
    <3>2. CASE ~Restart
      <4>1. (up' => up) /\ UNCHANGED memory
        BY <1>2, <3>2 DEF Crash, Die, KillCoordinator, Stopped, vars
      <4>2. QED
        BY <1>k, <2>1, <4>1 DEF HoldsVersions, InMemory
    <3>3. QED
      BY <3>1, <3>2
  <2>4. ASSUME NEW q \in Requests PROVE OnItsWayToActive(q)'
    <3>1. OnItsWayToActive(q) /\ (pc'[q] = pc[q] \/ pc'[q] \in {"dead", "start"})
      BY <1>0, <1>k, <2>2
    <3>2. QED
      BY <2>1, <3>1 DEF OnItsWayToActive, AtFiles, Carries, HoldsVersions
  <2>5. readable'["active"] => HoldsVersions(content["active"])'
    BY <1>k, <2>1 DEF HoldsVersions
  <2>6. QED
    BY <1>g, <2>3, <2>4, <2>5
<1>3. ASSUME NEW r \in Requests, ReadDoc(r) PROVE ActiveKept'
  <2>1. /\ UNCHANGED <<acked, content, readable, memory, up, mine, done>>
        /\ AtFiles(r) /\ pc[r] = "read"
    BY <1>3 DEF ReadDoc, AtFiles
  <2>2. /\ readable'["active"] => HoldsVersions(content["active"])'
        /\ up' => HoldsVersions(InMemory)'
    BY <1>k, <2>1 DEF HoldsVersions, InMemory
  <2>3. ASSUME NEW q \in Requests PROVE OnItsWayToActive(q)'
    <3>1. CASE q # r
      BY <1>0, <1>o, <1>t, <1>w, <1>3, <2>1, <3>1, AdvancedIs DEF ReadDoc
    <3>2. CASE q = r /\ readable[cur[r]]
      <4>1. pc'[r] = "open" /\ doc'[r] = content[cur[r]] /\ cur'[r] = cur[r]
        BY <1>0, <1>t, <1>3, <3>2 DEF ReadDoc
      <4>2. OnItsWayToActive(r) /\ (cur[r] = "active" => HoldsVersions(content[cur[r]]))
        BY <1>k, <3>2
      <4>3. QED
        BY <2>1, <3>2, <4>1, <4>2 DEF OnItsWayToActive, HoldsVersions, AtFiles, Carries
    <3>3. CASE q = r /\ ~readable[cur[r]]
      <4>1. pc'[r] \in {"read", "finish"} /\ OnItsWayToActive(r)
        BY <1>0, <1>k, <1>t, <1>3, <3>3, AdvancedIs DEF ReadDoc
      <4>2. QED
        BY <2>1, <3>3, <4>1 DEF OnItsWayToActive, AtFiles, Carries
    <3>4. QED
      BY <3>1, <3>2, <3>3
  <2>4. QED
    BY <1>g, <2>2, <2>3
<1>4. ASSUME NEW w \in Writers, Open(w) PROVE ActiveKept'
  <2>1. /\ UNCHANGED <<acked, content, memory, up, mine, cur, done>>
        /\ AtFiles(w) /\ pc[w] = "open"
        /\ pc' = [pc EXCEPT ![w] = "write"]
        /\ doc' = [doc EXCEPT ![w] = Merged(w)]
        /\ readable' = [readable EXCEPT ![cur[w]] = FALSE]
    BY <1>4 DEF Open, AtFiles
  <2>2. w \in Requests /\ PlacedAt(w) /\ EditHeld(w) /\ InProgress(w) /\ up
    BY <1>0, <1>k, <2>1 DEF Writers, PlacedAt, InProgress
  <2>3. readable'["active"] => readable["active"]
    BY <1>t, <2>1
  <2>4. /\ readable'["active"] => HoldsVersions(content["active"])'
        /\ up' => HoldsVersions(InMemory)'
    BY <1>k, <2>1, <2>3 DEF HoldsVersions, InMemory
  <2>5. ASSUME cur[w] = "active"
        PROVE  HoldsVersions(Merged(w)) /\ (w \in Persisters => Carries(Merged(w), w))
    <3>1. HoldsVersions(doc[w]) /\ HoldsVersions(InMemory)
      BY <1>k, <2>1, <2>2, <2>5 DEF OnItsWayToActive
    <3>2. doc[w] \in Docs
      BY <1>0, <2>2, DocIs
    <3>3. CASE w \in Persisters
      <4>1. Merged(w) = [doc[w] EXCEPT !.modes = modes, !.presets = presets]
        BY <1>0, <3>2, <3>3, MergedIs
      <4>2. QED
        BY <2>2, <3>1, <3>2, <3>3, <4>1, CarriesIs, Constants
        DEF HoldsVersions, InMemory, EditHeld, Docs
    <3>4. CASE w \in RowEditors
      <4>1. /\ Merged(w) = [doc[w] EXCEPT !.agents = @ \cup {w}, !.rows = @ \cup {w}]
            /\ w \notin Persisters
        BY <1>0, <3>2, <3>4, MergedIs, Constants
      <4>2. QED
        BY <3>1, <3>2, <4>1 DEF HoldsVersions, Docs
    <3>5. QED
      BY <2>2, <3>3, <3>4 DEF RowEditors
  <2>6. ASSUME NEW q \in Requests PROVE OnItsWayToActive(q)'
    <3>1. CASE q # w
      BY <1>0, <1>o, <1>t, <1>w, <2>1, <3>1
    <3>2. CASE q = w
      <4>1. /\ cur[w] = "active" => HoldsVersions(doc'[w])
            /\ w \in Persisters /\ cur[w] = "active" => Carries(doc'[w], w)
        BY <1>0, <1>t, <2>1, <2>5
      <4>2. w \in Persisters /\ "active" \in done[w] /\ readable'["active"] =>
               Carries(content["active"], w)
        BY <1>k, <2>1, <2>2, <2>3 DEF OnItsWayToActive
      <4>3. QED
        BY <2>1, <3>2, <4>1, <4>2 DEF OnItsWayToActive, HoldsVersions, Carries
    <3>3. QED
      BY <3>1, <3>2
  <2>7. QED
    BY <1>g, <2>4, <2>6
<1>5. ASSUME NEW w \in Writers, OpenFails(w) PROVE ActiveKept'
  <2>1. /\ UNCHANGED <<acked, content, readable, memory, up, mine, done, doc>>
        /\ AtFiles(w) /\ pc[w] = "open"
    BY <1>5 DEF OpenFails, AtFiles
  <2>2. w # Proxy /\ Advanced(w)
    BY <1>k, <1>5, <2>1 DEF OpenFails
  <2>3. /\ readable'["active"] => HoldsVersions(content["active"])'
        /\ up' => HoldsVersions(InMemory)'
    BY <1>k, <2>1 DEF HoldsVersions, InMemory
  <2>4. ASSUME NEW q \in Requests PROVE OnItsWayToActive(q)'
    <3>1. CASE q # w
      BY <1>0, <1>o, <1>t, <1>w, <2>1, <2>2, <3>1, AdvancedIs
    <3>2. CASE q = w
      <4>1. pc'[w] \in {"read", "finish"} /\ OnItsWayToActive(w)
        BY <1>0, <1>k, <1>t, <2>2, <3>2, AdvancedIs
      <4>2. QED
        BY <2>1, <3>2, <4>1 DEF OnItsWayToActive, AtFiles, Carries
    <3>3. QED
      BY <3>1, <3>2
  <2>5. QED
    BY <1>g, <2>3, <2>4
<1>6. ASSUME NEW w \in Writers, Write(w) \/ WriteFails(w) PROVE ActiveKept'
  <2>1. /\ UNCHANGED <<acked, memory, up, mine>>
        /\ AtFiles(w) /\ pc[w] = "write" /\ Advanced(w)
        /\ done' = [done EXCEPT ![w] = @ \cup {cur[w]}]
    BY <1>6 DEF Write, WriteFails, AtFiles
  <2>2. w \in Requests /\ OnItsWayToActive(w) /\ ~readable[cur[w]]
    BY <1>0, <1>k, <2>1 DEF Writers, StoreInv, Alone
  <2>3. \/ ~readable'["active"]
        \/ cur[w] = "active" /\ content'["active"] = doc[w]
        \/ cur[w] # "active" /\ readable'["active"] = readable["active"]
                             /\ content'["active"] = content["active"]
    BY <1>t, <1>6, <2>2 DEF Write, WriteFails
  <2>4. readable'["active"] => HoldsVersions(content["active"])'
    BY <1>k, <2>1, <2>2, <2>3 DEF OnItsWayToActive, HoldsVersions
  <2>5. up' => HoldsVersions(InMemory)'
    BY <1>k, <2>1 DEF HoldsVersions, InMemory
  <2>6. ASSUME NEW q \in Requests PROVE OnItsWayToActive(q)'
    <3>1. CASE q # w
      BY <1>0, <1>o, <1>t, <1>w, <2>1, <3>1, AdvancedIs
    <3>2. CASE q = w
      <4>1. pc'[w] \in {"read", "finish"}
        BY <1>0, <1>t, <2>1, AdvancedIs
      <4>2. /\ w \in Persisters /\ "active" \in done'[w] /\ readable'["active"] =>
                 Carries(content'["active"], w)
        BY <1>0, <1>t, <2>1, <2>2, <2>3 DEF OnItsWayToActive
      <4>3. QED
        BY <2>1, <3>2, <4>1, <4>2 DEF OnItsWayToActive, Carries
    <3>3. QED
      BY <3>1, <3>2
  <2>7. QED
    BY <1>g, <2>4, <2>5, <2>6
<1>7. ASSUME NEW r \in Requests, Finish(r) PROVE ActiveKept'
  <2>1. /\ UNCHANGED <<content, readable, doc, modes, presets, up, mine, cur, done>>
        /\ AtFiles(r) /\ pc[r] = "finish" /\ InProgress(r)
        /\ pc' = [pc EXCEPT ![r] = "answered"]
    BY <1>7 DEF Finish, AtFiles, InProgress
  <2>2. EditHeld(r) /\ OnItsWayToActive(r) /\ mine[r] \in Nat
    BY <1>0, <1>k, DocIs
  <2>3. ASSUME NEW d, HoldsVersions(d),
               r \in Persisters /\ Persisted(r) => Carries(d, r)
        PROVE  d.modes >= acked'.modes /\ d.presets >= acked'.presets
    <3>1. acked \in [modes : Nat, presets : Nat, rows : SUBSET RowEditors]
      BY <1>0, DocIs DEF Acks
    <3>2. CASE UNCHANGED acked
      BY <2>3, <3>2 DEF HoldsVersions
    <3>3. CASE r \in RowEditors
      <4>1. Kind[r] # "modes" /\ Kind[r] # "preset"
        BY <3>3, Constants
      <4>2. UNCHANGED acked \/ acked' = [acked EXCEPT !.rows = @ \cup {r}]
        BY <1>7, <3>3, <4>1 DEF Finish
      <4>3. QED
        BY <2>3, <3>1, <4>2 DEF HoldsVersions
    <3>4. CASE Kind[r] = "modes" /\ Persisted(r)
      <4>1. r \in Persisters /\ r \notin RowEditors
        BY <3>4, Constants
      <4>2. acked' = [acked EXCEPT !.modes = mine[r]] /\ d.modes >= mine[r]
        BY <1>7, <2>3, <3>4, <4>1, CarriesIs DEF Finish
      <4>3. QED
        BY <2>3, <3>1, <4>2 DEF HoldsVersions
    <3>5. CASE Kind[r] = "preset" /\ Persisted(r)
      <4>1. r \in Persisters /\ r \notin RowEditors
        BY <3>5, Constants
      <4>2. /\ acked' = [acked EXCEPT !.presets = IF @ > mine[r] THEN @ ELSE mine[r]]
            /\ d.presets >= mine[r]
        BY <1>7, <2>3, <3>5, <4>1, CarriesIs DEF Finish
      <4>3. QED
        BY <2>2, <2>3, <3>1, <4>2 DEF HoldsVersions
    <3>6. QED
      BY <1>7, <3>2, <3>3, <3>4, <3>5, Constants DEF Finish, Kinds
  <2>4. readable'["active"] => HoldsVersions(content["active"])'
    <3>1. HAVE readable'["active"]
    <3>2. r \in Persisters /\ Persisted(r) => "active" \in done[r]
      BY Constants DEF Persisted
    <3>3. HoldsVersions(content["active"])
      BY <1>k, <2>1, <3>1
    <3>4. r \in Persisters /\ Persisted(r) => Carries(content["active"], r)
      BY <2>1, <2>2, <3>1, <3>2 DEF OnItsWayToActive
    <3>5. QED
      BY <2>1, <2>3, <3>3, <3>4 DEF HoldsVersions
  <2>5. up' => HoldsVersions(InMemory)'
    <3>1. HAVE up'
    <3>2. InMemory.modes = modes /\ InMemory.presets = presets
      BY DEF InMemory
    <3>3. r \in Persisters => Carries(InMemory, r)
      BY <2>1, <2>2, <3>2, CarriesIs, Constants DEF EditHeld
    <3>4. modes >= acked'.modes /\ presets >= acked'.presets
      BY <1>k, <2>1, <2>3, <3>1, <3>2, <3>3
    <3>5. QED
      BY <2>1, <3>4 DEF HoldsVersions, InMemory
  <2>6. ASSUME NEW q \in Requests PROVE OnItsWayToActive(q)'
    <3>1. CASE q # r
      BY <1>0, <1>o, <1>t, <1>w, <2>1, <3>1
    <3>2. CASE q = r
      BY <1>0, <1>t, <2>1, <3>2 DEF OnItsWayToActive, AtFiles
    <3>3. QED
      BY <3>1, <3>2
  <2>7. QED
    BY <1>g, <2>4, <2>5, <2>6
<1>8. QED
  BY <1>d, <1>1, <1>2, <1>3, <1>4, <1>5, <1>6, <1>7 DEF Next, Step

-----------------------------------------------------------------------------
(* Without a crash the files follow the memory                              *)

\* No step fails an open or a write and none crashes the coordinator.
LEMMA Smooth ==
    ASSUME StoreInv, [Next]_vars, Undisturbed', crashes' = 0
    PROVE  /\ Undisturbed /\ crashes = 0
           /\ ~(\E w \in Writers : OpenFails(w) \/ WriteFails(w)) /\ ~Crash
<1> USE DEF memory, files, work, history, bounds
<1>0. /\ TypeOK /\ ~overlapped /\ ioErrors' = 0
  BY StillAlone DEF StoreInv, Undisturbed
<1>1. ioErrors \in Nat /\ crashes \in Nat
  <2>1. ioErrors \in 0 .. MaxIoErrors /\ crashes \in 0 .. MaxCrashes
    BY <1>0 DEF TypeOK
  <2>2. QED
    BY <2>1
<1>2. ~(\E w \in Writers : OpenFails(w) \/ WriteFails(w)) /\ ~Crash
  BY <1>0, <1>1 DEF OpenFails, WriteFails, Crash
<1>3. CASE Next
  <2>1. UNCHANGED <<ioErrors, crashes>>
    BY <1>2, <1>3 DEF Next, Step, EditModes, EditPreset, LockModes, EditRow, ReadDoc, Finish,
       Open, Write, Restart, Deploy, KillCoordinator, Stopped
  <2>2. QED
    BY <1>0, <1>2, <2>1 DEF Undisturbed
<1>4. CASE UNCHANGED vars
  BY <1>0, <1>2, <1>4 DEF Undisturbed, vars
<1>5. QED
  BY <1>3, <1>4

\* Whoever is about to read a file finds it whole.
LEMMA ReadsWhole ==
    ASSUME StoreInv, Undisturbed, crashes = 0, NEW w \in Writers, AtFiles(w), pc[w] # "write",
           NEW f \in File
    PROVE  readable[f]
<1>1. ASSUME NEW v \in Writers, pc[v] = "write" PROVE FALSE
  <2>1. AtFiles(v)
    BY <1>1 DEF AtFiles
  <2>2. QED
    BY <1>1, <2>1, Sole DEF Undisturbed
<1>2. QED
  BY <1>1 DEF StoreInv, InSync, FileInSync

\* When no request is under way the files have the memory's versions.
LEMMA FilesAreMemory ==
    ASSUME StoreInv, Undisturbed, crashes = 0, \A r \in Requests : ~InProgress(r),
           NEW f \in File
    PROVE  content[f] \in Docs /\ content[f].modes = modes /\ content[f].presets = presets
<1>1. content[f] \in Docs
  BY DocIs DEF StoreInv
<1>2. ~BehindModes(f) /\ ~BehindPresets(f)
  BY Constants DEF BehindModes, BehindPresets, AtFiles, InProgress
<1>3. content[f].modes = modes /\ content[f].presets = presets
  BY <1>2 DEF StoreInv, InSync, FileInSync
<1>4. QED
  BY <1>1, <1>3

LEMMA SyncStep ==
    ASSUME StoreInv, [Next]_vars
    PROVE  InSync'
<1> SUFFICES ASSUME Undisturbed', crashes' = 0
             PROVE  (\A f \in File : FileInSync(f)') /\ (\A w \in Writers : DocInSync(w)')
  BY DEF InSync
<1> DEFINE Goal == (\A f \in File : FileInSync(f)') /\ (\A w \in Writers : DocInSync(w)')
<1> USE DEF memory, files, work, history, bounds
<1>0. /\ TypeOK /\ Stamped /\ ~overlapped /\ Undisturbed /\ crashes = 0 /\ ~Clash'
      /\ disturbed = {}
      /\ ~(\E w \in Writers : OpenFails(w) \/ WriteFails(w)) /\ ~Crash
      /\ \A r \in Requests : PlacedAt(r)
      /\ Requests \subseteq Writers /\ Proxy \in Writers /\ Proxy \notin Requests
      /\ Persisters \subseteq Requests
      /\ \A f \in File : FileInSync(f)
      /\ \A w \in Writers : DocInSync(w)
  BY Smooth, StillAlone, Constants DEF StoreInv, Placed, Undisturbed, InSync
<1>t. /\ pc \in [Writers -> {"start", "lock", "read", "open", "write", "finish",
                            "answered", "dead"}]
      /\ cur \in [Writers -> File] /\ readable \in [File -> BOOLEAN]
      /\ DOMAIN doc = Writers /\ DOMAIN content = File
      /\ File = {"active", "source"}
  BY <1>0, Constants DEF TypeOK
<1>w. ASSUME NEW q \in Writers, NEW w \in Writers, AtFiles(w), q # w
      PROVE  ~AtFiles(q)
  BY <1>0, <1>w, Sole
<1>1. ASSUME NEW r \in Requests, EditModes(r) PROVE Goal
  <2>1. /\ UNCHANGED <<content, readable, doc, cur, presets>>
        /\ pc[r] = "start" /\ modesLock = Nobody /\ Kind[r] = "modes" /\ r \in Persisters
        /\ pc' = [pc EXCEPT ![r] = "read"]
    BY <1>1, Constants DEF EditModes
  <2>2. \A v \in Writers : ~AtFiles(v)
    <3>1. ASSUME NEW v \in Writers, AtFiles(v) PROVE FALSE
      <4>1. v # r /\ InProgress(v)' /\ InProgress(r)'
        BY <1>0, <1>t, <2>1, <3>1 DEF AtFiles, InProgress
      <4>2. v \in Persisters
        BY <1>0, <4>1 DEF Clash
      <4>3. modesLock = v
        BY <1>0, <3>1, <4>2 DEF PlacedAt
      <4>4. QED
        BY <2>1, <4>2, <4>3, Constants
    <3>2. QED
      BY <3>1
  <2>3. AtFiles(r)' /\ Passed(r)' = {}
    BY <1>0, <1>t, <2>1 DEF PlacedAt, Passed, AtFiles
  <2>4. ASSUME NEW f \in File PROVE FileInSync(f)'
    <3>1. readable'[f]
      BY <1>0, <2>1, <2>2 DEF FileInSync, AtFiles
    <3>2. BehindModes(f)'
      BY <1>0, <2>1, <2>3 DEF BehindModes
    <3>3. BehindPresets(f) => BehindPresets(f)'
      BY <1>0, <1>t, <2>1 DEF BehindPresets, InProgress, Passed, AtFiles
    <3>4. QED
      BY <1>0, <2>1, <3>1, <3>2, <3>3 DEF FileInSync
  <2>5. ASSUME NEW v \in Writers PROVE DocInSync(v)'
    BY <1>t, <2>1, <2>2 DEF DocInSync, AtFiles
  <2>6. QED
    BY <2>4, <2>5
<1>2. ASSUME NEW r \in Requests, EditPreset(r) PROVE Goal
  <2>1. /\ UNCHANGED <<content, readable, doc, cur, modes>>
        /\ pc[r] = "start" /\ Kind[r] = "preset" /\ r \in Persisters
        /\ pc' = [pc EXCEPT ![r] = "lock"]
    BY <1>2, Constants DEF EditPreset
  <2>2. \A v \in Writers : v # r => pc'[v] = pc[v] /\ Passed(v)' = Passed(v)
    BY <1>t, <2>1 DEF Passed, AtFiles
  <2>3. pc'[r] = "lock" /\ Passed(r)' = {} /\ InProgress(r)'
    BY <1>0, <1>t, <2>1 DEF Passed, AtFiles, InProgress
  <2>4. ASSUME NEW f \in File PROVE FileInSync(f)'
    <3>1. readable'[f] \/ \E w \in Writers : pc'[w] = "write" /\ cur'[w] = f
      BY <1>0, <2>1, <2>2 DEF FileInSync
    <3>2. BehindModes(f) => BehindModes(f)'
      BY <1>0, <2>1, <2>2 DEF BehindModes, AtFiles
    <3>3. BehindPresets(f)'
      BY <2>1, <2>3 DEF BehindPresets
    <3>4. QED
      BY <1>0, <2>1, <3>1, <3>2, <3>3 DEF FileInSync
  <2>5. ASSUME NEW v \in Writers PROVE DocInSync(v)'
    BY <1>0, <2>1, <2>2, <2>3 DEF DocInSync, LockWaited
  <2>6. QED
    BY <2>4, <2>5
<1>3. ASSUME NEW r \in Requests, LockModes(r) PROVE Goal
  <2>1. /\ UNCHANGED <<content, readable, doc, cur, modes, presets>>
        /\ pc[r] = "lock" /\ modesLock = Nobody /\ Kind[r] = "preset" /\ r \in Persisters
        /\ pc' = [pc EXCEPT ![r] = "read"]
    BY <1>0, <1>3, Constants DEF LockModes, PlacedAt
  <2>2. \A v \in Writers : ~AtFiles(v)
    <3>1. ASSUME NEW v \in Writers, AtFiles(v) PROVE FALSE
      <4>1. v # r /\ InProgress(v)' /\ InProgress(r)'
        BY <1>0, <1>t, <2>1, <3>1 DEF AtFiles, InProgress
      <4>2. v \in Persisters
        BY <1>0, <4>1 DEF Clash
      <4>3. modesLock = v
        BY <1>0, <3>1, <4>2 DEF PlacedAt
      <4>4. QED
        BY <2>1, <4>2, <4>3, Constants
    <3>2. QED
      BY <3>1
  <2>3. InProgress(r)' /\ Passed(r)' = {}
    BY <1>0, <1>t, <2>1 DEF PlacedAt, Passed, AtFiles, InProgress
  <2>4. ASSUME NEW f \in File PROVE FileInSync(f)'
    <3>1. readable'[f]
      BY <1>0, <2>1, <2>2 DEF FileInSync, AtFiles
    <3>2. ~BehindModes(f)
      BY <1>0, <2>2 DEF BehindModes
    <3>3. BehindPresets(f)'
      BY <1>0, <2>1, <2>3 DEF BehindPresets
    <3>4. QED
      BY <1>0, <2>1, <3>1, <3>2, <3>3 DEF FileInSync
  <2>5. ASSUME NEW v \in Writers PROVE DocInSync(v)'
    BY <1>t, <2>1, <2>2 DEF DocInSync, AtFiles
  <2>6. QED
    BY <2>4, <2>5
<1>4. ASSUME NEW r \in Requests, EditRow(r) PROVE Goal
  <2>1. /\ UNCHANGED <<content, readable, doc, cur, modes, presets>>
        /\ pc[r] = "start" /\ r \notin Persisters
        /\ \E l \in {"read", "answered"} : pc' = [pc EXCEPT ![r] = l]
    BY <1>4 DEF EditRow, RowEditors
  <2>2. \A v \in Writers : v # r => pc'[v] = pc[v] /\ Passed(v)' = Passed(v)
    BY <1>t, <2>1 DEF Passed, AtFiles
  <2>3. pc'[r] \in {"read", "answered"}
    BY <1>0, <1>t, <2>1
  <2>4. ASSUME NEW f \in File PROVE FileInSync(f)'
    <3>1. readable'[f] \/ \E w \in Writers : pc'[w] = "write" /\ cur'[w] = f
      BY <1>0, <2>1, <2>2 DEF FileInSync
    <3>2. (BehindModes(f) => BehindModes(f)') /\ (BehindPresets(f) => BehindPresets(f)')
      BY <1>0, <2>1, <2>2 DEF BehindModes, BehindPresets, AtFiles, InProgress
    <3>3. QED
      BY <1>0, <2>1, <3>1, <3>2 DEF FileInSync
  <2>5. ASSUME NEW v \in Writers PROVE DocInSync(v)'
    <3>1. LockWaited => LockWaited'
      BY <1>0, <2>1, <2>2 DEF LockWaited
    <3>2. QED
      BY <1>0, <2>1, <2>2, <2>3, <3>1 DEF DocInSync
  <2>6. QED
    BY <2>4, <2>5
<1>5. ASSUME NEW r \in Requests, ReadDoc(r) PROVE Goal
  <2>1. AtFiles(r) /\ pc[r] = "read" /\ InProgress(r)
    BY <1>5 DEF ReadDoc, AtFiles, InProgress
  <2>2. /\ UNCHANGED <<content, readable, cur, modes, presets>>
        /\ doc' = [doc EXCEPT ![r] = content[cur[r]]]
        /\ pc' = [pc EXCEPT ![r] = "open"]
    <3>1. readable[cur[r]]
      BY <1>0, <1>t, <2>1, ReadsWhole
    <3>2. QED
      BY <1>5, <3>1 DEF ReadDoc
  <2>3. \A v \in Writers : v # r => pc'[v] = pc[v] /\ doc'[v] = doc[v]
    BY <1>t, <2>2
  <2>4. pc'[r] = "open" /\ doc'[r] = content[cur[r]]
    BY <1>0, <1>t, <2>2
  <2>5. \A v \in Writers : Passed(v)' = Passed(v) /\ (AtFiles(v)' <=> AtFiles(v))
    BY <2>1, <2>2, <2>3, <2>4 DEF Passed, AtFiles
  <2>6. ASSUME NEW f \in File PROVE FileInSync(f)'
    <3>1. readable'[f]
      BY <1>0, <2>1, <2>2, ReadsWhole
    <3>2. BehindModes(f) => BehindModes(f)'
      BY <1>0, <2>5 DEF BehindModes
    <3>3. \A v \in Writers : InProgress(v) => InProgress(v)'
      BY <2>3, <2>4 DEF InProgress
    <3>4. BehindPresets(f) => BehindPresets(f)'
      BY <1>0, <2>5, <3>3 DEF BehindPresets
    <3>5. QED
      BY <1>0, <2>2, <3>1, <3>2, <3>4 DEF FileInSync
  <2>7. ASSUME NEW v \in Writers PROVE DocInSync(v)'
    <3>1. CASE v # r
      <4>1. ~AtFiles(v)
        BY <1>0, <1>w, <2>1, <3>1
      <4>2. QED
        BY <2>3, <3>1, <4>1 DEF DocInSync, AtFiles
    <3>2. CASE v = r /\ r \notin Persisters
      <4>1. \A q \in Persisters : ~InProgress(q)
        BY <1>0, <2>1, <3>2, NobodyElse
      <4>2. ~BehindModes(cur[r]) /\ ~BehindPresets(cur[r])
        BY <4>1 DEF BehindModes, BehindPresets, AtFiles, InProgress
      <4>3. QED
        BY <1>0, <1>t, <2>2, <2>4, <3>2, <4>2 DEF DocInSync, FileInSync
    <3>3. CASE v = r /\ r \in Persisters
      BY <2>4, <3>3 DEF DocInSync
    <3>4. QED
      BY <3>1, <3>2, <3>3
  <2>8. QED
    BY <2>6, <2>7
<1>6. ASSUME NEW w \in Writers, Open(w) PROVE Goal
  <2>1. /\ UNCHANGED <<content, cur, modes, presets>>
        /\ AtFiles(w) /\ pc[w] = "open" /\ InProgress(w)
        /\ pc' = [pc EXCEPT ![w] = "write"]
        /\ doc' = [doc EXCEPT ![w] = Merged(w)]
        /\ readable' = [readable EXCEPT ![cur[w]] = FALSE]
    BY <1>6 DEF Open, AtFiles, InProgress
  <2>2. \A v \in Writers : v # w => pc'[v] = pc[v] /\ doc'[v] = doc[v]
    BY <1>t, <2>1
  <2>3. pc'[w] = "write" /\ doc'[w] = Merged(w)
    BY <1>t, <2>1
  <2>4. \A v \in Writers : Passed(v)' = Passed(v) /\ (AtFiles(v)' <=> AtFiles(v))
    BY <2>1, <2>2, <2>3 DEF Passed, AtFiles
  <2>5. ASSUME NEW f \in File PROVE FileInSync(f)'
    <3>1. readable'[f] \/ (pc'[w] = "write" /\ cur'[w] = f)
      <4>1. CASE f # cur[w]
        BY <1>0, <1>t, <2>1, <4>1, ReadsWhole
      <4>2. CASE f = cur[w]
        BY <2>1, <2>3, <4>2
      <4>3. QED
        BY <4>1, <4>2
    <3>2. BehindModes(f) => BehindModes(f)'
      BY <1>0, <2>4 DEF BehindModes
    <3>3. \A v \in Writers : InProgress(v) => InProgress(v)'
      BY <2>2, <2>3 DEF InProgress
    <3>4. BehindPresets(f) => BehindPresets(f)'
      BY <1>0, <2>4, <3>3 DEF BehindPresets
    <3>5. QED
      BY <1>0, <2>1, <3>1, <3>2, <3>4 DEF FileInSync
  <2>6. ASSUME NEW v \in Writers PROVE DocInSync(v)'
    <3>1. CASE v # w
      BY <1>w, <2>1, <2>2, <3>1 DEF DocInSync, AtFiles
    <3>2. CASE v = w
      <4>1. doc[w] \in Docs
        BY <1>0, DocIs
      <4>2. CASE w \in Persisters
        <5>1. Merged(w) = [doc[w] EXCEPT !.modes = modes, !.presets = presets]
          BY <4>1, <4>2, MergedIs
        <5>2. Merged(w).modes = modes /\ Merged(w).presets = presets
          BY <4>1, <5>1 DEF Docs
        <5>3. QED
          BY <2>1, <2>3, <3>2, <5>2 DEF DocInSync
      <4>3. CASE w \notin Persisters
        <5>1. Merged(w).modes = doc[w].modes /\ Merged(w).presets = doc[w].presets
          <6>1. CASE w = Proxy
            BY <4>1, <6>1, MergedIs
          <6>2. CASE w \in RowEditors
            <7>1. Merged(w) = [doc[w] EXCEPT !.agents = @ \cup {w}, !.rows = @ \cup {w}]
              BY <4>1, <6>2, MergedIs
            <7>2. QED
              BY <4>1, <7>1 DEF Docs
          <6>3. QED
            BY <4>3, <6>1, <6>2 DEF Writers, RowEditors
        <5>2. LockWaited => LockWaited'
          BY <1>0, <2>1, <2>2 DEF LockWaited
        <5>3. QED
          BY <1>0, <2>1, <2>3, <3>2, <4>3, <5>1, <5>2 DEF DocInSync
      <4>4. QED
        BY <4>2, <4>3
    <3>3. QED
      BY <3>1, <3>2
  <2>7. QED
    BY <2>5, <2>6
<1>7. ASSUME NEW w \in Writers, Write(w) PROVE Goal
  <2>1. /\ UNCHANGED <<modes, presets>>
        /\ AtFiles(w) /\ pc[w] = "write" /\ InProgress(w) /\ Advanced(w)
        /\ content' = [content EXCEPT ![cur[w]] = doc[w]]
        /\ readable' = [readable EXCEPT ![cur[w]] = TRUE]
    BY <1>0, <1>7 DEF Write, AtFiles, InProgress
  <2>2. \A f \in File : f # cur[w] => readable'[f] = readable[f] /\ content'[f] = content[f]
    BY <1>t, <2>1
  <2>3. content'[cur[w]] = doc[w] /\ readable'[cur[w]]
    BY <1>t, <2>1
  <2>4. \A v \in Writers : v # w => pc'[v] = pc[v] /\ cur'[v] = cur[v] /\ ~AtFiles(v)
    BY <1>0, <1>t, <1>w, <2>1, AdvancedIs
  <2>5. /\ pc'[w] \in {"read", "finish"} /\ AtFiles(w)' /\ InProgress(w)'
        /\ Passed(w)' = Passed(w) \cup {cur[w]}
    BY <1>0, <1>t, <2>1, AdvancedIs DEF AtFiles, InProgress, Passed
  <2>6. \A v \in Writers : v # w => Passed(v)' = Passed(v)
    BY <2>4 DEF Passed, AtFiles
  <2>7. ASSUME NEW f \in File, f # cur[w] PROVE FileInSync(f)'
    <3>1. readable[f]
      BY <1>0, <2>1, <2>4, <2>7 DEF FileInSync, AtFiles
    <3>2. BehindModes(f) => BehindModes(f)'
      <4>1. HAVE BehindModes(f)
      <4>2. PICK q \in Persisters : Kind[q] = "modes" /\ AtFiles(q) /\ f \notin Passed(q)
        BY <4>1 DEF BehindModes
      <4>3. q = w /\ f \notin Passed(w)'
        BY <1>0, <2>4, <2>5, <2>7, <4>2
      <4>4. QED
        BY <2>5, <4>2, <4>3 DEF BehindModes
    <3>3. BehindPresets(f) => BehindPresets(f)'
      <4>1. HAVE BehindPresets(f)
      <4>2. PICK q \in Persisters : Kind[q] = "preset" /\ InProgress(q) /\ f \notin Passed(q)
        BY <4>1 DEF BehindPresets
      <4>3. f \notin Passed(q)' /\ InProgress(q)'
        BY <1>0, <2>4, <2>5, <2>6, <2>7, <4>2 DEF InProgress
      <4>4. QED
        BY <4>2, <4>3 DEF BehindPresets
    <3>4. QED
      BY <1>0, <2>1, <2>2, <2>7, <3>1, <3>2, <3>3 DEF FileInSync
  <2>8. ASSUME NEW f \in File, f = cur[w] PROVE FileInSync(f)'
    <3>1. doc[w].modes = modes /\ (doc[w].presets = presets \/ LockWaited)
      BY <1>0, <2>1 DEF DocInSync
    <3>2. LockWaited => \A g \in File : BehindPresets(g)'
      <4>1. HAVE LockWaited
      <4>2. PICK q \in Persisters : pc[q] = "lock"
        BY <4>1 DEF LockWaited
      <4>3. q \in Writers /\ q # w /\ Kind[q] = "preset"
        BY <1>0, <2>1, <4>2 DEF PlacedAt
      <4>4. pc'[q] = "lock" /\ Passed(q)' = {} /\ InProgress(q)'
        BY <2>4, <4>2, <4>3 DEF Passed, AtFiles, InProgress
      <4>5. QED
        BY <4>3, <4>4 DEF BehindPresets
    <3>3. content'[f].modes = modes' /\ readable'[f]
      BY <2>1, <2>3, <2>8, <3>1
    <3>4. content'[f].presets = presets' \/ BehindPresets(f)'
      BY <2>1, <2>3, <2>8, <3>1, <3>2
    <3>5. QED
      BY <3>3, <3>4 DEF FileInSync
  <2>9. \A f \in File : FileInSync(f)'
    BY <2>7, <2>8
  <2>10. \A v \in Writers : DocInSync(v)'
    BY <2>4, <2>5 DEF DocInSync, AtFiles
  <2>11. QED
    BY <2>9, <2>10
<1>8. ASSUME NEW r \in Requests, Finish(r) PROVE Goal
  <2>1. /\ UNCHANGED <<content, readable, doc, modes, presets, cur>>
        /\ AtFiles(r) /\ pc[r] = "finish" /\ InProgress(r)
        /\ pc' = [pc EXCEPT ![r] = "answered"]
    BY <1>8 DEF Finish, AtFiles, InProgress
  <2>2. \A v \in Writers : v # r => pc'[v] = pc[v] /\ ~AtFiles(v) /\ Passed(v)' = Passed(v)
    <3>1. ASSUME NEW v \in Writers, v # r PROVE ~AtFiles(v)
      BY <1>0, <1>w, <2>1, <3>1
    <3>2. ASSUME NEW v \in Writers, v # r PROVE pc'[v] = pc[v] /\ cur'[v] = cur[v]
      BY <1>t, <2>1, <3>2
    <3>3. QED
      BY <3>1, <3>2 DEF Passed, AtFiles
  <2>3. pc'[r] = "answered" /\ Passed(r) = File
    BY <1>0, <1>t, <2>1 DEF Passed
  <2>4. ASSUME NEW f \in File PROVE FileInSync(f)'
    <3>1. readable'[f]
      BY <1>0, <2>1, ReadsWhole
    <3>2. ~BehindModes(f)
      BY <1>0, <2>2, <2>3, <2>4 DEF BehindModes
    <3>3. BehindPresets(f) => BehindPresets(f)'
      BY <1>0, <2>2, <2>3, <2>4 DEF BehindPresets, InProgress
    <3>4. QED
      BY <1>0, <2>1, <3>1, <3>2, <3>3 DEF FileInSync
  <2>5. ASSUME NEW v \in Writers PROVE DocInSync(v)'
    BY <2>2, <2>3 DEF DocInSync, AtFiles
  <2>6. QED
    BY <2>4, <2>5
<1>9. CASE Restart
  <2>1. \A r \in Requests : ~InProgress(r)
    BY <1>0, <1>9 DEF Restart, PlacedAt
  <2>2. content["active"].modes = modes /\ content["active"].presets = presets
    BY <1>0, <1>t, <2>1, FilesAreMemory
  <2>3. UNCHANGED <<content, readable, doc, cur, pc, modes, presets>>
    BY <1>9, <2>2 DEF Restart
  <2>4. QED
    BY <1>0, <2>3 DEF FileInSync, DocInSync, BehindModes, BehindPresets, LockWaited, Passed,
       AtFiles, InProgress
<1>10. CASE Deploy
  <2>1. /\ UNCHANGED <<content, readable, modes, presets>>
        /\ pc[Proxy] = "start"
        /\ pc' = [pc EXCEPT ![Proxy] = "open"] /\ cur' = [cur EXCEPT ![Proxy] = "active"]
    BY <1>10 DEF Deploy
  <2>r. PICK agents \in SUBSET RowEditors, rows \in SUBSET RowEditors :
           doc' = [doc EXCEPT ![Proxy] = [content["source"] EXCEPT
                                         !.agents = agents, !.rows = rows]]
    BY <1>10 DEF Deploy
  <2>2. \A v \in Writers : v # Proxy => pc'[v] = pc[v] /\ ~InProgress(v)
    BY <1>0, <1>t, <2>1 DEF Clash, InProgress
  <2>3. \A f \in File : /\ content[f] \in Docs
                         /\ content[f].modes = modes /\ content[f].presets = presets
    BY <1>0, <2>2, FilesAreMemory
  <2>4. /\ pc'[Proxy] = "open"
        /\ doc'[Proxy].modes = modes /\ doc'[Proxy].presets = presets
    <3>1. doc'[Proxy] = [content["source"] EXCEPT !.agents = agents, !.rows = rows]
      BY <1>0, <1>t, <2>r
    <3>2. QED
      BY <1>0, <1>t, <2>1, <2>3, <3>1 DEF Docs
  <2>5. ASSUME NEW f \in File PROVE FileInSync(f)'
    <3>1. readable[f]
      BY <1>0, <2>1, <2>2 DEF FileInSync, InProgress
    <3>2. QED
      BY <2>1, <2>3, <3>1 DEF FileInSync
  <2>6. ASSUME NEW v \in Writers PROVE DocInSync(v)'
    BY <2>1, <2>2, <2>4 DEF DocInSync, InProgress
  <2>7. QED
    BY <2>5, <2>6
<1>11. CASE KillCoordinator
  <2>1. UNCHANGED <<content, readable, modes, presets, doc, cur>> /\ pc[Proxy] = "read"
    BY <1>11 DEF KillCoordinator
  <2>2. Proxy \notin Persisters /\ AtFiles(Proxy) /\ InProgress(Proxy)
    BY <1>0, <2>1 DEF AtFiles, InProgress
  <2>3. \A v \in Writers : v # Proxy => ~InProgress(v)
    BY <1>0, <2>2, NobodyElse
  <2>4. \A v \in Writers : pc'[v] \notin {"open", "write"}
    BY <1>t, <1>11, <2>3 DEF KillCoordinator, InProgress
  <2>5. ASSUME NEW f \in File PROVE FileInSync(f)'
    <3>1. readable[f]
      BY <1>0, <2>1, <2>2, ReadsWhole
    <3>2. content[f].modes = modes /\ content[f].presets = presets
      BY <1>0, <2>3, FilesAreMemory
    <3>3. QED
      BY <2>1, <3>1, <3>2 DEF FileInSync
  <2>6. QED
    BY <2>4, <2>5 DEF DocInSync
<1>12. CASE Stopped \/ UNCHANGED vars
  <2>1. UNCHANGED <<content, readable, doc, cur, pc, modes, presets>>
    BY <1>12 DEF Stopped, vars
  <2>2. QED
    BY <1>0, <2>1 DEF FileInSync, DocInSync, BehindModes, BehindPresets, LockWaited, Passed,
       AtFiles, InProgress
<1>13. QED
  BY <1>0, <1>1, <1>2, <1>3, <1>4, <1>5, <1>6, <1>7, <1>8, <1>9, <1>10, <1>11, <1>12
  DEF Next, Step

-----------------------------------------------------------------------------
(* ... and so do their rows                                                 *)

\* A step that leaves the files, the live agents and the documents in hand as
\* they are.
LEMMA RowsQuietly ==
    ASSUME StoreInv, Undisturbed, crashes = 0, ~Replaced,
           UNCHANGED <<content, live, deployed>>, deploys' = 0 => deploys = 0,
           \A r \in RowEditors : InProgress(r)' <=> InProgress(r),
           \A r \in Requests : pc'[r] \in {"open", "write"} =>
               pc[r] \in {"open", "write"} /\ doc'[r] = doc[r] /\ cur'[r] = cur[r]
    PROVE  RowsInSync'
<1>1. (\A f \in File : RowsIn(f)) /\ (\A r \in Requests : RowsOf(r))
  BY DEF StoreInv, RowsInSync
<1>2. \A f \in File : RowsIn(f)'
  BY <1>1 DEF RowsIn, FollowsMemory, Alike
<1>3. \A r \in Requests : RowsOf(r)'
  BY <1>1 DEF RowsOf, FollowsMemory, Alike
<1>4. QED
  BY <1>2, <1>3 DEF RowsInSync

\* Without a crash it is a redeploy that ended the coordinator, so that only
\* the active file, which the restart loads, has to follow the memory.
LEMMA RowsRestart ==
    ASSUME StoreInv, Restart
    PROVE  RowsInSync'
<1> SUFFICES ASSUME crashes' = 0 PROVE RowsInSync'
  BY DEF RowsInSync
<1> USE DEF memory, files, work, history, bounds
<1>1. \A r \in Requests : ~InProgress(r)
  BY DEF Restart, StoreInv, Placed, PlacedAt
<1>2. /\ UNCHANGED <<pc, cur, doc, content, deploys>> /\ deploys # 0
      /\ live' = content["active"].rows
  BY DEF Restart, StoreInv, ProxyPlaced
<1>3. \A r \in Requests : ~InProgress(r)' /\ pc'[r] \notin {"open", "write"}
  BY <1>1, <1>2 DEF InProgress
<1>4. \A f \in File : RowsIn(f)'
  BY <1>2, <1>3, Constants DEF RowsIn, FollowsMemory, Alike
<1>5. \A r \in Requests : RowsOf(r)'
  BY <1>3 DEF RowsOf
<1>6. QED
  BY <1>4, <1>5 DEF RowsInSync

LEMMA RowsStep ==
    ASSUME StoreInv, [Next]_vars
    PROVE  RowsInSync'
<1> SUFFICES ASSUME Undisturbed', crashes' = 0, ~Replaced', ~Restart PROVE RowsInSync'
  BY RowsRestart DEF RowsInSync
<1> USE DEF memory, files, work, history, bounds
<1>0. /\ TypeOK /\ Stamped /\ ~overlapped /\ Undisturbed /\ crashes = 0 /\ ~Clash'
      /\ disturbed = {}
      /\ ~(\E w \in Writers : OpenFails(w) \/ WriteFails(w)) /\ ~Crash
      /\ \A r \in Requests : PlacedAt(r) /\ EditHeld(r) /\ OnItsWay(r)
      /\ Requests \subseteq Writers /\ Proxy \in Writers /\ Proxy \notin Requests
      /\ Persisters \subseteq Requests /\ RowEditors \subseteq Requests
      /\ \A r \in Requests : r \in Persisters <=> r \notin RowEditors
  BY Smooth, StillAlone, Constants DEF StoreInv, Placed, EditInMemory, Kept, Undisturbed,
     RowEditors
<1>t. /\ pc \in [Writers -> {"start", "lock", "read", "open", "write", "finish",
                            "answered", "dead"}]
      /\ cur \in [Writers -> File] /\ readable \in [File -> BOOLEAN]
      /\ DOMAIN doc = Writers /\ DOMAIN content = File
      /\ File = {"active", "source"} /\ deploys \in Nat
  <2>1. deploys \in Nat
    <3>1. deploys \in 0 .. MaxDeploys
      BY <1>0 DEF TypeOK
    <3>2. QED
      BY <3>1
  <2>2. QED
    BY <1>0, <2>1, Constants DEF TypeOK
<1>k. ~KillCoordinator
  BY DEF KillCoordinator, Replaced
<1>r. ~Replaced /\ UNCHANGED deployed /\ (deploys' = 0 => deploys = 0)
  <2>1. up /\ UNCHANGED deployed
    BY <1>0, <1>k DEF Replaced, Next, Step, EditModes, EditPreset, LockModes, EditRow, ReadDoc,
       Finish, Open, Write, Deploy, Stopped, vars
  <2>2. deploys' = deploys \/ deploys' = deploys + 1
    BY <1>0, <1>k DEF Next, Step, EditModes, EditPreset, LockModes, EditRow, ReadDoc,
       Finish, Open, Write, Deploy, Stopped, vars
  <2>3. ASSUME pc[Proxy] = "read" PROVE pc'[Proxy] = "read"
    <3>1. CASE \E r \in Requests : \/ EditModes(r) \/ EditPreset(r) \/ LockModes(r)
                                   \/ EditRow(r) \/ ReadDoc(r) \/ Finish(r)
      <4>1. PICK r \in Requests : \/ EditModes(r) \/ EditPreset(r) \/ LockModes(r)
                                  \/ EditRow(r) \/ ReadDoc(r) \/ Finish(r)
        BY <3>1
      <4>2. r # Proxy /\ \E l : pc' = [pc EXCEPT ![r] = l]
        BY <1>0, <4>1 DEF EditModes, EditPreset, LockModes, EditRow, ReadDoc, Finish, Advanced
      <4>3. QED
        BY <1>0, <1>t, <2>3, <4>2
    <3>2. CASE \E w \in Writers : Open(w) \/ Write(w)
      <4>1. PICK w \in Writers : Open(w) \/ Write(w)
        BY <3>2
      <4>2. w # Proxy /\ \E l : pc' = [pc EXCEPT ![w] = l]
        BY <2>3, <4>1 DEF Open, Write, Advanced
      <4>3. QED
        BY <1>0, <1>t, <2>3, <4>2
    <3>3. CASE Deploy \/ Stopped \/ UNCHANGED vars
      BY <2>3, <3>3 DEF Deploy, Stopped, vars
    <3>4. QED
      BY <1>0, <1>k, <3>1, <3>2, <3>3 DEF Next, Step
  <2>4. QED
    BY <1>t, <2>1, <2>2, <2>3 DEF Replaced
<1>i. (\A f \in File : RowsIn(f)) /\ (\A r \in Requests : RowsOf(r))
  BY <1>0, <1>r DEF StoreInv, RowsInSync
<1>w. ASSUME NEW q \in Writers, NEW v \in Writers, AtFiles(v), q # v
      PROVE  pc[q] \notin {"open", "write"}
  BY <1>0, <1>w, Sole DEF AtFiles
<1>1. ASSUME NEW r \in Requests, EditModes(r) \/ EditPreset(r) \/ LockModes(r)
      PROVE  RowsInSync'
  <2>1. /\ UNCHANGED <<content, live, doc, cur>> /\ r \notin RowEditors
        /\ \E l \in {"read", "lock"} : pc' = [pc EXCEPT ![r] = l]
    BY <1>0, <1>1, Constants DEF EditModes, EditPreset, LockModes, PlacedAt
  <2>2. \A q \in RowEditors : InProgress(q)' <=> InProgress(q)
    BY <1>0, <1>t, <2>1 DEF InProgress
  <2>3. \A v \in Requests : pc'[v] \in {"open", "write"} => pc[v] \in {"open", "write"}
    BY <1>0, <1>t, <2>1
  <2>4. QED
    BY <1>0, <1>r, <2>1, <2>2, <2>3, RowsQuietly
<1>2. ASSUME NEW r \in Requests, EditRow(r) PROVE RowsInSync'
  <2>1. /\ UNCHANGED <<content, doc, cur, deploys>>
        /\ pc[r] = "start" /\ r \in RowEditors /\ ~InProgress(r)
    BY <1>2 DEF EditRow, InProgress
  <2>2. CASE UNCHANGED live /\ pc' = [pc EXCEPT ![r] = "answered"]
    <3>1. \A q \in RowEditors : InProgress(q)' <=> InProgress(q)
      BY <1>0, <1>t, <2>1, <2>2 DEF InProgress
    <3>2. \A v \in Requests : pc'[v] \in {"open", "write"} => pc[v] \in {"open", "write"}
      BY <1>0, <1>t, <2>2
    <3>3. QED
      BY <1>0, <1>r, <2>1, <2>2, <3>1, <3>2, RowsQuietly
  <2>3. CASE live' \in {live, live \cup {r}} /\ pc' = [pc EXCEPT ![r] = "read"]
    <3>1. pc'[r] = "read" /\ InProgress(r)' /\ r \notin Persisters
      BY <1>0, <1>t, <2>1, <2>3 DEF InProgress
    <3>2. ASSUME NEW v \in Writers, v # r PROVE ~InProgress(v) /\ ~InProgress(v)'
      BY <1>0, <1>t, <2>3, <3>1, <3>2 DEF Clash, InProgress
    <3>3. \A q \in RowEditors : ~InProgress(q)
      BY <1>0, <2>1, <3>2
    <3>4. ASSUME NEW f \in File PROVE RowsIn(f)'
      <4>1. FollowsMemory(f)' => Alike(content[f].rows, live)
        BY <1>i, <2>1, <3>3 DEF RowsIn, FollowsMemory
      <4>2. FollowsMemory(f)' => Alike(content[f].rows \cup {r}, live \cup {r})'
        BY <1>r, <2>1, <2>3, <4>1 DEF Alike
      <4>3. \A q \in RowEditors : InProgress(q)' => q = r
        BY <1>0, <3>2
      <4>4. QED
        BY <2>1, <3>1, <4>2, <4>3 DEF RowsIn
    <3>5. ASSUME NEW v \in Writers PROVE pc'[v] \notin {"open", "write"}
      BY <3>1, <3>2 DEF InProgress
    <3>6. QED
      BY <1>0, <3>4, <3>5 DEF RowsInSync, RowsOf
  <2>4. QED
    BY <1>2, <2>2, <2>3 DEF EditRow, EditedLive
<1>3. ASSUME NEW r \in Requests, ReadDoc(r) PROVE RowsInSync'
  <2>1. /\ AtFiles(r) /\ pc[r] = "read" /\ InProgress(r)
        /\ UNCHANGED <<content, live, deploys>>
    BY <1>3 DEF ReadDoc, AtFiles, InProgress
  <2>2. readable[cur[r]]
    BY <1>0, <1>t, <2>1, ReadsWhole
  <2>3. /\ doc' = [doc EXCEPT ![r] = content[cur[r]]] /\ pc' = [pc EXCEPT ![r] = "open"]
        /\ UNCHANGED cur
    BY <1>3, <2>2 DEF ReadDoc
  <2>4. \A v \in Writers : v # r => pc'[v] = pc[v] /\ doc'[v] = doc[v]
    BY <1>t, <2>3
  <2>5. pc'[r] = "open" /\ doc'[r] = content[cur[r]] /\ cur[r] \in File
    BY <1>0, <1>t, <2>3
  <2>6. \A v \in Writers : InProgress(v)' <=> InProgress(v)
    BY <2>1, <2>4, <2>5 DEF InProgress
  <2>7. \A f \in File : RowsIn(f)'
    BY <1>0, <1>i, <1>r, <2>1, <2>6 DEF RowsIn, FollowsMemory, Alike
  <2>8. RowsOf(r)'
    <3> SUFFICES ASSUME FollowsMemory(cur[r]) PROVE RowsOf(r)'
      BY <2>1, <2>3 DEF RowsOf, FollowsMemory
    <3>1. CASE r \in RowEditors
      <4>1. Alike(content[cur[r]].rows \cup {r}, live \cup {r})
        BY <1>i, <2>1, <2>5, <3>1 DEF RowsIn
      <4>2. {r} \cap RowEditors = {r}
        BY <3>1
      <4>3. QED
        BY <1>r, <2>1, <2>5, <4>1, <4>2 DEF RowsOf, Alike
    <3>2. CASE r \notin RowEditors
      <4>1. \A q \in RowEditors : ~InProgress(q)
        <5>1. ASSUME NEW q \in RowEditors, InProgress(q) PROVE FALSE
          <6>1. q \in Writers /\ q \notin Persisters /\ q # r
            BY <1>0, <3>2
          <6>2. QED
            BY <1>0, <2>1, <5>1, <6>1, NobodyElse
        <5>2. QED
          BY <5>1
      <4>2. Alike(content[cur[r]].rows, live)
        BY <1>i, <2>5, <4>1 DEF RowsIn
      <4>3. {r} \cap RowEditors = {}
        BY <3>2
      <4>4. QED
        BY <1>r, <2>1, <2>5, <4>2, <4>3 DEF RowsOf, Alike
    <3>3. QED
      BY <3>1, <3>2
  <2>9. ASSUME NEW v \in Requests, v # r PROVE RowsOf(v)'
    BY <1>0, <1>i, <1>r, <2>1, <2>3, <2>4, <2>9 DEF RowsOf, FollowsMemory, Alike
  <2>10. QED
    BY <2>7, <2>8, <2>9 DEF RowsInSync
<1>4. ASSUME NEW w \in Writers, Open(w) PROVE RowsInSync'
  <2>1. /\ UNCHANGED <<content, live, cur, deploys>> /\ pc[w] = "open"
        /\ pc' = [pc EXCEPT ![w] = "write"] /\ doc' = [doc EXCEPT ![w] = Merged(w)]
    BY <1>4 DEF Open
  <2>2. \A v \in Writers : v # w => pc'[v] = pc[v] /\ doc'[v] = doc[v]
    BY <1>t, <2>1
  <2>3. pc'[w] = "write" /\ doc'[w] = Merged(w)
    BY <1>t, <2>1
  <2>4. \A v \in Writers : InProgress(v)' <=> InProgress(v)
    BY <2>1, <2>2, <2>3 DEF InProgress
  <2>5. \A f \in File : RowsIn(f)'
    BY <1>0, <1>i, <1>r, <2>1, <2>4 DEF RowsIn, FollowsMemory, Alike
  <2>6. w \in Requests =>
           Merged(w).rows \cup ({w} \cap RowEditors) = doc[w].rows \cup ({w} \cap RowEditors)
    <3>1. doc[w] \in Docs
      BY <1>0, DocIs
    <3>2. CASE w \in Persisters
      <4>1. Merged(w) = [doc[w] EXCEPT !.modes = modes, !.presets = presets]
        BY <3>1, <3>2, MergedIs
      <4>2. QED
        BY <3>1, <4>1 DEF Docs
    <3>3. CASE w \in RowEditors
      <4>1. Merged(w) = [doc[w] EXCEPT !.agents = @ \cup {w}, !.rows = @ \cup {w}]
        BY <3>1, <3>3, MergedIs
      <4>2. QED
        BY <3>1, <3>3, <4>1 DEF Docs
    <3>4. QED
      BY <1>0, <3>2, <3>3
  <2>7. w \in Requests => RowsOf(w)'
    BY <1>i, <1>r, <2>1, <2>3, <2>6 DEF RowsOf, FollowsMemory, Alike
  <2>8. ASSUME NEW v \in Requests, v # w PROVE RowsOf(v)'
    BY <1>0, <1>i, <1>r, <2>1, <2>2, <2>8 DEF RowsOf, FollowsMemory, Alike
  <2>9. QED
    BY <2>5, <2>7, <2>8 DEF RowsInSync
<1>5. ASSUME NEW w \in Writers, Write(w) PROVE RowsInSync'
  <2>1. /\ AtFiles(w) /\ pc[w] = "write" /\ InProgress(w) /\ Advanced(w)
        /\ UNCHANGED <<live, deploys>> /\ content' = [content EXCEPT ![cur[w]] = doc[w]]
    BY <1>5 DEF Write, AtFiles, InProgress
  <2>p. w # Proxy
    <3>1. ASSUME w = Proxy PROVE FALSE
      <4>1. cur[w] = "active"
        BY <2>1, <3>1 DEF StoreInv, ProxyPlaced
      <4>2. pc'[w] = "read"
        BY <1>0, <1>t, <2>1, <4>1, AdvancedIs
      <4>3. QED
        BY <3>1, <4>2 DEF Replaced
    <3>2. QED
      BY <3>1
  <2>2. \A v \in Writers : v # w => pc'[v] = pc[v] /\ pc'[v] \notin {"open", "write"}
    <3>1. ASSUME NEW v \in Writers, v # w PROVE pc'[v] = pc[v]
      BY <1>0, <1>t, <2>1, <3>1, AdvancedIs
    <3>2. ASSUME NEW v \in Writers, v # w PROVE pc[v] \notin {"open", "write"}
      BY <1>w, <2>1, <3>2
    <3>3. QED
      BY <3>1, <3>2
  <2>3. pc'[w] \in {"read", "finish"}
    BY <1>0, <1>t, <2>1, AdvancedIs
  <2>4. \A v \in Writers : InProgress(v)' <=> InProgress(v)
    BY <2>1, <2>2, <2>3 DEF InProgress
  <2>5. ASSUME NEW f \in File, f # cur[w] PROVE RowsIn(f)'
    <3>1. content'[f] = content[f]
      BY <1>t, <2>1, <2>5
    <3>2. QED
      BY <1>0, <1>i, <1>r, <2>1, <2>4, <3>1 DEF RowsIn, FollowsMemory, Alike
  <2>6. ASSUME NEW f \in File, f = cur[w] PROVE RowsIn(f)'
    <3> SUFFICES ASSUME FollowsMemory(f) PROVE RowsIn(f)'
      BY <2>1 DEF RowsIn, FollowsMemory
    <3>1. content'[f] = doc[w]
      BY <1>t, <2>1, <2>6
    <3>2. Alike(doc[w].rows \cup ({w} \cap RowEditors), live \cup ({w} \cap RowEditors))
      BY <1>i, <2>1, <2>p, <2>6 DEF RowsOf, Writers
    <3>3. ASSUME NEW q \in RowEditors, InProgress(q) PROVE q = w
      <4>1. q \in Writers /\ q \notin Persisters
        BY <1>0
      <4>2. QED
        BY <1>0, <2>1, <3>3, <4>1, NobodyElse
    <3>4. CASE w \in RowEditors
      <4>1. {w} \cap RowEditors = {w}
        BY <3>4
      <4>2. Alike(content[f].rows \cup {w}, live \cup {w})'
        BY <1>r, <2>1, <3>1, <3>2, <4>1 DEF Alike
      <4>3. InProgress(w)' /\ \A q \in RowEditors : InProgress(q)' => q = w
        BY <1>0, <2>1, <2>4, <3>3
      <4>4. QED
        BY <3>4, <4>2, <4>3 DEF RowsIn
    <3>5. CASE w \notin RowEditors
      <4>1. Alike(content[f].rows, live)'
        BY <1>r, <2>1, <3>1, <3>2, <3>5 DEF Alike
      <4>2. \A q \in RowEditors : ~InProgress(q)'
        BY <1>0, <2>4, <3>3, <3>5
      <4>3. QED
        BY <4>1, <4>2 DEF RowsIn
    <3>6. QED
      BY <3>4, <3>5
  <2>7. \A v \in Requests : RowsOf(v)'
    BY <1>0, <2>2, <2>3 DEF RowsOf
  <2>8. QED
    BY <2>5, <2>6, <2>7 DEF RowsInSync
<1>6. ASSUME NEW r \in Requests, Finish(r) PROVE RowsInSync'
  <2>1. /\ UNCHANGED <<content, doc, cur, deploys>> /\ pc' = [pc EXCEPT ![r] = "answered"]
        /\ AtFiles(r) /\ pc[r] = "finish" /\ InProgress(r)
        /\ live' = IF Kind[r] = "prompt" THEN EditedLive(r) ELSE live
    BY <1>6 DEF Finish, AtFiles, InProgress
  <2>2. \A v \in Writers : v # r => pc'[v] = pc[v]
    BY <1>t, <2>1
  <2>3. pc'[r] = "answered" /\ ~InProgress(r)'
    BY <1>0, <1>t, <2>1 DEF InProgress
  <2>4. CASE r \notin RowEditors
    <3>1. UNCHANGED live
      BY <1>0, <2>1, <2>4, Constants
    <3>2. \A q \in RowEditors : InProgress(q)' <=> InProgress(q)
      BY <1>0, <2>2, <2>4 DEF InProgress
    <3>3. \A v \in Requests : pc'[v] \in {"open", "write"} => pc[v] \in {"open", "write"}
      BY <1>0, <2>2, <2>3
    <3>4. QED
      BY <1>0, <1>r, <2>1, <3>1, <3>2, <3>3, RowsQuietly
  <2>5. CASE r \in RowEditors
    <3>1. ASSUME NEW v \in Writers PROVE ~InProgress(v)'
      <4>1. CASE v = r
        BY <2>3, <4>1
      <4>2. CASE v # r
        <5>1. ~InProgress(v)
          BY <1>0, <2>1, <2>5, <4>2, NobodyElse
        <5>2. QED
          BY <2>2, <4>2, <5>1 DEF InProgress
      <4>3. QED
        BY <4>1, <4>2
    <3>2. ASSUME NEW f \in File, FollowsMemory(f) PROVE Alike(content[f].rows, live)'
      <4>1. Alike(content[f].rows \cup {r}, live \cup {r})
        BY <1>i, <2>1, <2>5, <3>2 DEF RowsIn
      <4>2. readable[f]
        BY <1>0, <2>1, ReadsWhole
      <4>3. f \in Passed(r)
        BY <2>1 DEF Passed
      <4>4. Carries(content[f], r)
        BY <1>0, <4>2, <4>3 DEF OnItsWay
      <4>5. r \in content[f].rows
        BY <2>5, <4>4, CarriesIs
      <4>6. live' \cap deployed = (live \cup {r}) \cap deployed
        <5>1. Kind[r] \in {"prompt", "tokens"} /\ EditHeld(r)
          BY <1>0, <2>5, Constants
        <5>2. CASE Kind[r] = "prompt"
          BY <2>1, <5>2 DEF EditedLive
        <5>3. CASE Kind[r] = "tokens"
          BY <2>1, <5>1, <5>3 DEF EditHeld
        <5>4. QED
          BY <5>1, <5>2, <5>3
      <4>7. QED
        BY <1>r, <2>1, <4>1, <4>5, <4>6 DEF Alike
    <3>3. \A f \in File : RowsIn(f)'
      BY <1>0, <2>1, <3>1, <3>2 DEF RowsIn, FollowsMemory
    <3>4. \A v \in Requests : RowsOf(v)'
      BY <1>0, <3>1 DEF RowsOf, InProgress
    <3>5. QED
      BY <3>3, <3>4 DEF RowsInSync
  <2>6. QED
    BY <2>4, <2>5
<1>7. CASE Deploy
  <2>1. /\ UNCHANGED <<content, live>>
        /\ pc[Proxy] = "start" /\ pc' = [pc EXCEPT ![Proxy] = "open"]
        /\ cur' = [cur EXCEPT ![Proxy] = "active"]
    BY <1>7 DEF Deploy
  <2>2. \A v \in Writers : v # Proxy => pc'[v] = pc[v] /\ ~InProgress(v) /\ ~InProgress(v)'
    BY <1>0, <1>t, <2>1 DEF Clash, InProgress
  <2>3. \A r \in Requests : /\ InProgress(r)' <=> InProgress(r)
                            /\ pc'[r] \notin {"open", "write"}
    BY <1>0, <2>2 DEF InProgress
  <2>4. QED
    BY <1>0, <1>r, <2>1, <2>3, RowsQuietly
<1>8. CASE Stopped \/ UNCHANGED vars
  <2>1. UNCHANGED <<content, doc, cur, pc, live>>
    BY <1>8 DEF Stopped, vars
  <2>2. QED
    BY <1>0, <1>r, <2>1, RowsQuietly DEF InProgress
<1>9. QED
  BY <1>0, <1>k, <1>1, <1>2, <1>3, <1>4, <1>5, <1>6, <1>7, <1>8
  DEF Next, Step

-----------------------------------------------------------------------------
(* One copy is left after the first crash                                   *)

LEMMA OneCopyStep ==
    ASSUME StoreInv, [Next]_vars
    PROVE  OneCopyLeft'
<1> SUFFICES ASSUME Undisturbed', crashes' = 0 \/ (crashes' = 1 /\ ~up')
             PROVE  \E f \in File : readable'[f]
  BY DEF OneCopyLeft
<1> USE DEF memory, files, work, history, bounds
<1>0. /\ TypeOK /\ ~overlapped /\ ~Clash' /\ disturbed = {} /\ ioErrors' = 0
      /\ \A r \in Requests : PlacedAt(r)
      /\ Requests \subseteq Writers /\ Proxy \in Writers /\ Persisters \subseteq Requests
      /\ Writers = Requests \cup {Proxy}
  BY StillAlone, Constants DEF StoreInv, Placed, Undisturbed, Writers
<1>t. /\ readable \in [File -> BOOLEAN] /\ File = {"active", "source"}
      /\ cur \in [Writers -> File]
  BY <1>0, Constants DEF TypeOK
<1>1. CASE crashes' = 0
  <2>1. \A f \in File : FileInSync(f)'
    BY <1>1, SyncStep DEF InSync
  <2>2. Placed'
    BY PlaceStep
  <2>3. ASSUME NEW v \in Writers, NEW w \in Writers, pc'[v] = "write", pc'[w] = "write"
        PROVE  v = w
    <3>1. InProgress(v)' /\ InProgress(w)' /\ AtFiles(v)' /\ AtFiles(w)'
      BY <2>3 DEF InProgress, AtFiles
    <3>2. CASE v \in Persisters /\ w \in Persisters
      BY <1>0, <2>2, <3>1, <3>2 DEF Placed, PlacedAt
    <3>3. CASE ~({v, w} \subseteq Persisters)
      BY <1>0, <3>1, <3>3 DEF Clash
    <3>4. QED
      BY <3>2, <3>3
  <2>4. ASSUME ~readable'["active"], ~readable'["source"] PROVE FALSE
    <3>1. PICK v \in Writers : pc'[v] = "write" /\ cur'[v] = "active"
      BY <1>t, <2>1, <2>4 DEF FileInSync
    <3>2. PICK w \in Writers : pc'[w] = "write" /\ cur'[w] = "source"
      BY <1>t, <2>1, <2>4 DEF FileInSync
    <3>3. QED
      BY <2>3, <3>1, <3>2
  <2>5. QED
    BY <1>t, <2>4
<1>2. CASE crashes' = 1 /\ ~up'
  <2>1. ioErrors \in Nat /\ crashes \in Nat
    <3>1. ioErrors \in 0 .. MaxIoErrors /\ crashes \in 0 .. MaxCrashes
      BY <1>0 DEF TypeOK
    <3>2. QED
      BY <3>1
  <2>2. ~(\E w \in Writers : OpenFails(w) \/ WriteFails(w))
    BY <1>0, <2>1 DEF OpenFails, WriteFails
  <2>3. Undisturbed
    <3>1. ioErrors' = ioErrors
      BY <2>2 DEF Next, Step, EditModes, EditPreset, LockModes, EditRow, ReadDoc, Finish,
         Open, Write, Crash, Restart, Deploy, KillCoordinator, Stopped, vars
    <3>2. QED
      BY <1>0, <3>1 DEF Undisturbed
  <2>4. pc[Proxy] # "start" => readable["source"]
    BY <2>3 DEF StoreInv, Kept
  <2>5. CASE Crash
    <3>1. crashes = 0
      BY <1>2, <2>1, <2>5 DEF Crash
    <3>2. \E f \in File : readable[f]
      BY <2>3, <3>1 DEF StoreInv, OneCopyLeft
    <3>3. QED
      BY <2>5, <3>2 DEF Crash, Die
  <2>6. CASE KillCoordinator
    BY <1>t, <2>4, <2>6 DEF KillCoordinator
  <2>7. CASE ~Crash /\ ~KillCoordinator
    <3>1. UNCHANGED crashes /\ ~up
      <4>1. CASE Restart
        BY <1>2, <4>1 DEF Restart
      <4>2. CASE ~Restart
        <5>1. UNCHANGED <<up, crashes>>
          BY <2>2, <2>7, <4>2 DEF Next, Step, EditModes, EditPreset, LockModes, EditRow, ReadDoc,
             Finish, Open, Write, Deploy, Stopped, vars
        <5>2. QED
          BY <1>2, <5>1
      <4>3. QED
        BY <4>1, <4>2
    <3>2. \E f \in File : readable[f]
      BY <1>2, <2>3, <3>1 DEF StoreInv, OneCopyLeft
    <3>3. \A r \in Requests : ~InProgress(r)
      BY <1>0, <3>1 DEF PlacedAt
    <3>4. CASE Open(Proxy)
      <4>1. pc[Proxy] = "open" /\ cur[Proxy] = "active"
        BY <3>4 DEF Open, StoreInv, ProxyPlaced
      <4>2. readable' = [readable EXCEPT !["active"] = FALSE]
        BY <3>4, <4>1 DEF Open
      <4>3. QED
        BY <1>t, <2>4, <4>1, <4>2
    <3>5. CASE Write(Proxy)
      <4>1. readable' = [readable EXCEPT ![cur[Proxy]] = TRUE]
        BY <1>0, <3>5 DEF Write
      <4>2. cur[Proxy] \in File
        BY <1>0, <1>t
      <4>3. QED
        BY <1>t, <4>1, <4>2
    <3>6. ASSUME NEW w \in Writers, Open(w) \/ Write(w) PROVE w = Proxy
      BY <1>0, <3>3, <3>6 DEF Open, Write, InProgress
    <3>7. CASE ~(\E w \in Writers : Open(w) \/ Write(w))
      <4>1. UNCHANGED readable
        BY <2>2, <2>7, <3>7 DEF Next, Step, EditModes, EditPreset, LockModes, EditRow, ReadDoc,
           Finish, Restart, Deploy, Stopped, vars
      <4>2. QED
        BY <3>2, <4>1
    <3>8. QED
      BY <3>4, <3>5, <3>6, <3>7
  <2>8. QED
    BY <2>5, <2>6, <2>7
<1>3. QED
  BY <1>1, <1>2

-----------------------------------------------------------------------------
LEMMA NextStore ==
    ASSUME StoreInv, [Next]_vars
    PROVE  StoreInv'
BY TypeStep, PlaceStep, MemoryStep, AloneStep, KeptStep, SourceStep, ActiveStep, SyncStep,
   RowsStep, OneCopyStep DEF StoreInv

LEMMA StoreInvariant == Spec => []StoreInv
BY InitStore, NextStore, PTL DEF Spec

-----------------------------------------------------------------------------
(* Theorems                                                                 *)

\* Versions in memory are versions that were given out, only an edit of modes
\* or presets holds modes_config_mutex, and every document has the shape of a
\* config file, whatever crashes, fails or is redeployed.
THEOREM ConfigTypes == Spec => []TypeOK
<1>1. StoreInv => TypeOK
  BY DEF StoreInv
<1>2. QED
  BY <1>1, StoreInvariant, PTL

\* An edit that was answered "persisted" is in every file that parses and in the
\* memory, for any number of requests, crashes and redeploys, as long as row
\* edits and redeploys meet no other writer and opens and writes succeed.  The
\* exceptions are the row edits that the body of a redeploy lacked, which only
\* the source file keeps, and those of agents that were not deployed, which the
\* memory has no place for.
THEOREM AcknowledgedSurvives == Spec => []AckedSurvive
<1>1. ASSUME StoreInv, Undisturbed
      PROVE  /\ readable["source"] => HoldsAcked(content["source"], acked.rows)
             /\ readable["active"] => HoldsAcked(content["active"], acked.rows \ leftOut)
             /\ up => HoldsAcked(InMemory, (acked.rows \ leftOut) \cap deployed)
  <2>1. Lasts /\ (readable["source"] => acked.rows \subseteq content["source"].rows)
    BY <1>1 DEF StoreInv, Kept, SourceKept
  <2>2. /\ readable["source"] => HoldsAcked(content["source"], acked.rows)
        /\ readable["active"] => HoldsAcked(content["active"], acked.rows \ leftOut)
    BY <2>1, Constants DEF Lasts, HoldsLasting, HoldsAcked
  <2>3. up => HoldsAcked(InMemory, (acked.rows \ leftOut) \cap deployed)
    BY <2>1 DEF Lasts, HoldsLasting, HoldsAcked, InMemory, Memory
  <2>4. QED
    BY <2>2, <2>3
<1>2. StoreInv => AckedSurvive
  BY <1>1 DEF AckedSurvive
<1>3. QED
  BY <1>2, StoreInvariant, PTL

\* Until the first crash, and after it until the restart, one of the two files
\* parses, redeploys in between included.
THEOREM OneCopySurvives == Spec => []OneCopyLeft
<1>1. StoreInv => OneCopyLeft
  BY DEF StoreInv
<1>2. QED
  BY <1>1, StoreInvariant, PTL

\* When no request is in progress both files have the modes and presets of the
\* memory, however edits of them interleaved before; of the deployed agents the
\* active file has the memory's rows, and so has the source file until the first
\* redeploy, which brings rows of its own.
THEOREM IdleFilesInSync == Spec => []IdleInSync
<1>1. ASSUME StoreInv PROVE IdleInSync
  <2> SUFFICES ASSUME up, Quiet, Undisturbed, crashes = 0
               PROVE  /\ \A f \in File : /\ readable[f]
                                         /\ content[f].modes = modes
                                         /\ content[f].presets = presets
                      /\ Alike(content["active"].rows, live)
                      /\ deploys = 0 => Alike(content["source"].rows, live)
    BY DEF IdleInSync, Alike
  <2>1. \A r \in Requests : ~InProgress(r)
    BY Constants DEF Quiet
  <2>2. \A f \in File : content[f].modes = modes /\ content[f].presets = presets
    BY <1>1, <2>1, FilesAreMemory
  <2>3. \A f \in File : readable[f]
    BY <1>1 DEF StoreInv, InSync, FileInSync, Quiet, InProgress
  <2>4. \A f \in File : RowsIn(f)
    BY <1>1, Constants DEF StoreInv, RowsInSync, Replaced, Quiet, InProgress
  <2>5. Alike(content["active"].rows, live) /\ (deploys = 0 => Alike(content["source"].rows, live))
    BY <2>1, <2>4, Constants DEF RowsIn, FollowsMemory
  <2>6. QED
    BY <2>2, <2>3, <2>5
<1>2. QED
  BY <1>1, StoreInvariant, PTL

\* With opens and writes that fail at any point, an edit of modes or presets that
\* was answered "persisted" is in the active file whenever that parses and no
\* redeploy replaced it.
THEOREM ActiveFileHolds == Spec => []ActiveHoldsAcked
<1>1. ASSUME StoreInv PROVE ActiveHoldsAcked
  BY <1>1 DEF StoreInv, ActiveKept, ActiveHoldsAcked
<1>2. QED
  BY <1>1, StoreInvariant, PTL
=============================================================================
