---------------------------- MODULE ConfigStore ----------------------------
(***************************************************************************)
(* Where configuration edits live: the coordinator's memory, the active    *)
(* config file it was started with, and the source file that edits are     *)
(* mirrored to so that they survive a redeploy (swarm_config_store*.{h,cpp},*)
(* swarm_config_roster_io.h, coordinator_context.cpp, the PUT handlers and  *)
(* proxy_configure_*.cpp).                                                 *)
(*                                                                         *)
(* Edits of modes and presets persist the whole memory under               *)
(* modes_config_mutex.  Edits of an agent's row (prompt, description,       *)
(* tokens) read, modify and write the same two files under no lock, and a  *)
(* redeploy, which is another process, overwrites the active file.         *)
(*                                                                         *)
(* Contents are versions: one number per edit of modes or presets, the     *)
(* agents a document lists and the row edits it holds.  (A request that    *)
(* edits a row stands for the agent it edits too.)  A redeploy takes the   *)
(* agents and their rows from its request, and all else from the source    *)
(* file.  ofstream truncates when it opens, so between open and write a    *)
(* file does not parse.                                                    *)
(***************************************************************************)
EXTENDS Integers, FiniteSets

CONSTANTS
    Requests,      \* HTTP requests, each on a thread of its own
    Kind,          \* what each request edits
    MaxCrashes,    \* bound: crashes of the coordinator
    MaxIoErrors,   \* bound: opens and writes that fail
    MaxDeploys     \* bound: redeploys by the proxy

Kinds == {"modes", "preset", "prompt", "tokens"}
File == {"active", "source"}

ASSUME ConfigStoreAssumption ==
    /\ Kind \in [Requests -> Kinds]
    /\ MaxCrashes \in Nat /\ MaxIoErrors \in Nat /\ MaxDeploys \in Nat

Proxy == "proxy"
Nobody == "nobody"
Writers == Requests \cup {Proxy}
Persisters == {r \in Requests : Kind[r] \in {"modes", "preset"}}
RowEditors == Requests \ Persisters

ASSUME WritersAssumption == {Proxy, Nobody} \cap Requests = {}

VARIABLES
    up,            \* the coordinator runs
    modes,         \* version of modes_config in memory
    presets,       \* version of presets in memory
    live,          \* row edits applied to st.agents
    deployed,      \* agents that st.agents has
    modesLock,     \* holder of modes_config_mutex
    pc, cur, doc,  \* per writer: its step, the file it is at, the document it read
    done,          \* per writer: the files it believes it wrote
    mine,          \* per request: the version its edit got
    reply,         \* per request: the answer it got
    content, readable,  \* per file: the last document written, whether it parses
    disturbed,     \* writers whose file another one truncated or wrote meanwhile
    stamp,         \* number of versions given out
    acked,         \* history: what replies called persisted
    leftOut,       \* history: acknowledged row edits that a redeploy's request lacked
    overlapped,    \* history: two writers without a common lock were at work
    crashes, ioErrors, deploys

memory == <<modes, presets, live, deployed>>
files == <<content, readable, disturbed>>
work == <<pc, cur, doc, done>>
history == <<acked, leftOut>>
bounds == <<crashes, ioErrors, deploys>>
vars == <<up, memory, modesLock, work, mine, reply, files, stamp, history, overlapped, bounds>>

EmptyDoc == [modes |-> 0, presets |-> 0, agents |-> RowEditors, rows |-> {}]

Init ==
    /\ up = TRUE
    /\ modes = 0 /\ presets = 0 /\ live = {} /\ deployed = RowEditors
    /\ modesLock = Nobody
    /\ pc = [w \in Writers |-> "start"]
    /\ cur = [w \in Writers |-> "active"]
    /\ doc = [w \in Writers |-> EmptyDoc]
    /\ done = [w \in Writers |-> {}]
    /\ mine = [r \in Requests |-> 0]
    /\ reply = [r \in Requests |-> "none"]
    /\ content = [f \in File |-> EmptyDoc]
    /\ readable = [f \in File |-> TRUE]
    /\ disturbed = {}
    /\ stamp = 0
    /\ acked = [modes |-> 0, presets |-> 0, rows |-> {}] /\ leftOut = {}
    /\ overlapped = FALSE
    /\ crashes = 0 /\ ioErrors = 0 /\ deploys = 0

-----------------------------------------------------------------------------
InProgress(w) == pc[w] \notin {"start", "answered", "dead"}

\* Writers that have file f open.
OpenOn(f) == {w \in Writers : pc[w] = "write" /\ cur[w] = f}

\* Goes on to the second file, or to the answer.
Advanced(w) ==
    /\ pc' = [pc EXCEPT ![w] = IF cur[w] = "active" THEN "read" ELSE "finish"]
    /\ cur' = [cur EXCEPT ![w] = "source"]

-----------------------------------------------------------------------------
(* The requests' own part                                                   *)

\* Mutant: the edit takes a number that was not given out.
EditModesUnstamped(r) ==
    /\ up /\ pc[r] = "start" /\ Kind[r] = "modes"
    /\ modesLock = Nobody
    /\ modesLock' = r
    /\ modes' = modes + 1
    /\ mine' = [mine EXCEPT ![r] = modes']
    /\ pc' = [pc EXCEPT ![r] = "read"]
    /\ UNCHANGED <<up, presets, live, deployed, cur, doc, done, reply, files, stamp, history, bounds>>

\* PUT /api/modes/<mode>/agents and the merge of a preset's block: edit the
\* memory and persist under one hold of modes_config_mutex.
EditModes(r) ==
    /\ up /\ pc[r] = "start" /\ Kind[r] = "modes"
    /\ modesLock = Nobody
    /\ modesLock' = r
    /\ stamp' = stamp + 1
    /\ modes' = stamp'
    /\ mine' = [mine EXCEPT ![r] = stamp']
    /\ pc' = [pc EXCEPT ![r] = "read"]
    /\ UNCHANGED <<up, presets, live, deployed, cur, doc, done, reply, files, history, bounds>>

\* PUT and DELETE of a preset: edit under presets_mutex, released before
\* modes_config_mutex is taken to persist.
EditPreset(r) ==
    /\ up /\ pc[r] = "start" /\ Kind[r] = "preset"
    /\ stamp' = stamp + 1
    /\ presets' = stamp'
    /\ mine' = [mine EXCEPT ![r] = stamp']
    /\ pc' = [pc EXCEPT ![r] = "lock"]
    /\ UNCHANGED <<up, modes, live, deployed, modesLock, cur, doc, done, reply, files, history, bounds>>

LockModes(r) ==
    /\ pc[r] = "lock"
    /\ modesLock = Nobody
    /\ modesLock' = r
    /\ pc' = [pc EXCEPT ![r] = "read"]
    /\ UNCHANGED <<up, memory, cur, doc, done, mine, reply, files, stamp, history, bounds>>

\* The edit reaches the agent in memory, if the coordinator has that agent.
EditedLive(r) == IF r \in deployed THEN live \cup {r} ELSE live

\* A row edit first looks for the agent in the source file; one that does not
\* parse has no agents.  The token handler edits the live agent before it
\* persists, the prompt handler after.
EditRow(r) ==
    /\ up /\ pc[r] = "start" /\ r \in RowEditors
    /\ IF readable["source"] /\ r \in content["source"].agents
       THEN /\ pc' = [pc EXCEPT ![r] = "read"]
            /\ live' = IF Kind[r] = "tokens" THEN EditedLive(r) ELSE live
            /\ UNCHANGED reply
       ELSE /\ pc' = [pc EXCEPT ![r] = "answered"]
            /\ reply' = [reply EXCEPT ![r] = "unknown agent"]
            /\ UNCHANGED live
    /\ UNCHANGED <<up, modes, presets, deployed, modesLock, cur, doc, done, mine, files, stamp, history,
                   bounds>>

-----------------------------------------------------------------------------
(* Read, modify and write of one file                                       *)

ReadDoc(w) ==
    /\ pc[w] = "read"
    /\ IF readable[cur[w]]
       THEN /\ doc' = [doc EXCEPT ![w] = content[cur[w]]]
            /\ pc' = [pc EXCEPT ![w] = "open"]
            /\ UNCHANGED cur
       ELSE Advanced(w) /\ UNCHANGED doc
    /\ UNCHANGED <<up, memory, modesLock, done, mine, reply, files, stamp, history, bounds>>

\* Mutant: a persist writes only the modes and leaves the presets of the file.
MergedModesOnly(w) ==
    CASE w \in Persisters -> [doc[w] EXCEPT !.modes = modes]
      [] w \in RowEditors -> [doc[w] EXCEPT !.agents = @ \cup {w}, !.rows = @ \cup {w}]
      [] w = Proxy        -> doc[w]

\* What the writer puts in the document it read: all of modes and presets, its
\* own row, which is added when the document does not list the agent, or, for
\* the proxy, nothing.
Merged(w) ==
    CASE w \in Persisters -> [doc[w] EXCEPT !.modes = modes, !.presets = presets]
      [] w \in RowEditors -> [doc[w] EXCEPT !.agents = @ \cup {w}, !.rows = @ \cup {w}]
      [] w = Proxy        -> doc[w]

\* Mutant: opening the active file truncates the source file too.
OpenBoth(w) ==
    /\ pc[w] = "open"
    /\ doc' = [doc EXCEPT ![w] = Merged(w)]
    /\ readable' = [f \in File |-> FALSE]
    /\ disturbed' = (disturbed \ {w}) \cup OpenOn(cur[w])
    /\ pc' = [pc EXCEPT ![w] = "write"]
    /\ UNCHANGED <<up, memory, modesLock, cur, done, mine, reply, content, stamp, history, bounds>>

Open(w) ==
    /\ pc[w] = "open"
    /\ doc' = [doc EXCEPT ![w] = Merged(w)]
    /\ readable' = [readable EXCEPT ![cur[w]] = FALSE]
    /\ disturbed' = (disturbed \ {w}) \cup OpenOn(cur[w])
    /\ pc' = [pc EXCEPT ![w] = "write"]
    /\ UNCHANGED <<up, memory, modesLock, cur, done, mine, reply, content, stamp, history, bounds>>

OpenFails(w) ==
    /\ pc[w] = "open"
    /\ ioErrors < MaxIoErrors
    /\ ioErrors' = ioErrors + 1
    /\ IF w = Proxy THEN pc' = [pc EXCEPT ![w] = "start"] /\ UNCHANGED cur
                    ELSE Advanced(w)
    /\ UNCHANGED <<up, memory, modesLock, doc, done, mine, reply, files, stamp, history,
                   crashes, deploys>>

\* Each writer writes from offset 0 of its own descriptor.  When another one
\* truncated or wrote the file in between, the longer of the two documents
\* may stick out behind the shorter.
Write(w) ==
    /\ pc[w] = "write"
    /\ content' = [content EXCEPT ![cur[w]] = doc[w]]
    /\ \E intact \in {TRUE} \cup (IF w \in disturbed THEN {FALSE} ELSE {}) :
          readable' = [readable EXCEPT ![cur[w]] = intact]
    /\ disturbed' = (disturbed \cup OpenOn(cur[w])) \ {w}
    /\ done' = [done EXCEPT ![w] = @ \cup {cur[w]}]
    /\ Advanced(w)
    /\ doc' = [doc EXCEPT ![w] = EmptyDoc]
    /\ UNCHANGED <<up, memory, modesLock, mine, reply, stamp, history, bounds>>

\* The stream's state is not looked at: a write that fails counts as done.
WriteFails(w) ==
    /\ pc[w] = "write"
    /\ ioErrors < MaxIoErrors
    /\ ioErrors' = ioErrors + 1
    /\ done' = [done EXCEPT ![w] = @ \cup {cur[w]}]
    /\ disturbed' = disturbed \ {w}
    /\ \E intact \in {FALSE, readable[cur[w]]} :
          readable' = [readable EXCEPT ![cur[w]] = intact]
    /\ Advanced(w)
    /\ doc' = [doc EXCEPT ![w] = EmptyDoc]
    /\ UNCHANGED <<up, memory, modesLock, mine, reply, content, stamp, history,
                   crashes, deploys>>

-----------------------------------------------------------------------------
\* Mutant: an edit of modes or presets that reached only the source file counts.
PersistedIfAny(r) ==
    IF r \in Persisters \/ Kind[r] = "prompt" THEN done[r] # {} ELSE done[r] = File

\* The "persisted" flag of the three kinds of reply.
Persisted(r) ==
    CASE r \in Persisters     -> "active" \in done[r]
      [] Kind[r] = "prompt"   -> done[r] # {}
      [] Kind[r] = "tokens"   -> done[r] = File

Finish(r) ==
    /\ pc[r] = "finish"
    /\ modesLock' = IF modesLock = r THEN Nobody ELSE modesLock
    /\ live' = IF Kind[r] = "prompt" THEN EditedLive(r) ELSE live
    /\ reply' = [reply EXCEPT ![r] = IF Persisted(r) THEN "persisted" ELSE "failed"]
    /\ acked' = IF ~Persisted(r) THEN acked
                ELSE CASE Kind[r] = "modes"  -> [acked EXCEPT !.modes = mine[r]]
                       [] Kind[r] = "preset" -> [acked EXCEPT !.presets =
                                                        IF @ > mine[r] THEN @ ELSE mine[r]]
                       [] r \in RowEditors   -> [acked EXCEPT !.rows = @ \cup {r}]
    /\ pc' = [pc EXCEPT ![r] = "answered"]
    /\ UNCHANGED <<up, modes, presets, deployed, cur, doc, done, mine, files, stamp, leftOut, bounds>>

-----------------------------------------------------------------------------
(* Crash, restart and redeploy                                              *)

\* The process ends: files it had open stay truncated.
Die ==
    /\ up' = FALSE
    /\ modesLock' = Nobody
    /\ pc' = [w \in Writers |-> IF w # Proxy /\ InProgress(w) THEN "dead" ELSE pc[w]]
    /\ UNCHANGED <<memory, mine, reply, files, stamp, history>>

Crash ==
    /\ up /\ crashes < MaxCrashes
    /\ crashes' = crashes + 1
    /\ Die
    /\ UNCHANGED <<cur, doc, done, ioErrors, deploys>>

\* coordinator_load_config refuses a file that does not parse.
Restart ==
    /\ ~up /\ readable["active"]
    /\ pc[Proxy] = "start"
    /\ up' = TRUE
    /\ modes' = content["active"].modes
    /\ presets' = content["active"].presets
    /\ live' = content["active"].rows
    /\ deployed' = content["active"].agents
    /\ UNCHANGED <<modesLock, work, mine, reply, files, stamp, history, bounds>>

\* Mutant: the proxy does not carry the presets over.
DeployDropsPresets ==
    /\ pc[Proxy] = "start" /\ deploys < MaxDeploys
    /\ deploys' = deploys + 1
    /\ readable["source"]
    /\ \E agents \in SUBSET RowEditors : \E rows \in SUBSET agents :
          /\ doc' = [doc EXCEPT ![Proxy] = [content["source"] EXCEPT
                                            !.presets = 0, !.agents = agents, !.rows = rows]]
          /\ leftOut' = leftOut \cup (acked.rows \ rows)
    /\ cur' = [cur EXCEPT ![Proxy] = "active"]
    /\ pc' = [pc EXCEPT ![Proxy] = "open"]
    /\ UNCHANGED <<up, memory, modesLock, done, mine, reply, files, stamp, acked, crashes, ioErrors>>

\* POST /configure: the proxy parses the source file, or gives up, writes the
\* active file, and only then kills the old coordinator.  The agents and their
\* rows are those of the request, as old as the page that sent it; modes and
\* presets are the source file's.
Deploy ==
    /\ pc[Proxy] = "start" /\ deploys < MaxDeploys
    /\ deploys' = deploys + 1
    /\ readable["source"]
    /\ \E agents \in SUBSET RowEditors : \E rows \in SUBSET agents :
          /\ doc' = [doc EXCEPT ![Proxy] = [content["source"] EXCEPT
                                            !.agents = agents, !.rows = rows]]
          /\ leftOut' = leftOut \cup (acked.rows \ rows)
    /\ cur' = [cur EXCEPT ![Proxy] = "active"]
    /\ pc' = [pc EXCEPT ![Proxy] = "open"]
    /\ UNCHANGED <<up, memory, modesLock, done, mine, reply, files, stamp, acked, crashes, ioErrors>>

\* The proxy writes one file; where a request would go on to the next, it kills.
KillCoordinator ==
    /\ pc[Proxy] = "read"
    /\ up' = FALSE
    /\ modesLock' = Nobody
    /\ pc' = [w \in Writers |-> IF w = Proxy THEN "start"
                                ELSE IF InProgress(w) THEN "dead" ELSE pc[w]]
    /\ UNCHANGED <<memory, cur, doc, done, mine, reply, files, stamp, history, bounds>>

-----------------------------------------------------------------------------
Quiet == \A w \in Writers : ~InProgress(w)

\* Nothing is left to do, or no file is left to start from.
Stopped ==
    /\ Quiet
    /\ ~up \/ \A r \in Requests : pc[r] # "start"
    /\ UNCHANGED <<up, memory, modesLock, work, mine, reply, files, stamp, history, bounds>>

Step ==
    \/ \E r \in Requests : \/ EditModes(r) \/ EditPreset(r) \/ LockModes(r) \/ EditRow(r)
                           \/ ReadDoc(r) \/ Finish(r)
    \/ \E w \in Writers : Open(w) \/ OpenFails(w) \/ Write(w) \/ WriteFails(w)
    \/ Crash \/ Restart \/ Deploy \/ KillCoordinator
    \/ Stopped

\* Two writers at work, not both under modes_config_mutex.
Clash ==
    \E v, w \in Writers :
        v # w /\ InProgress(v) /\ InProgress(w) /\ ~({v, w} \subseteq Persisters)

Next == Step /\ overlapped' = (overlapped \/ Clash')

Spec == Init /\ [][Next]_vars

-----------------------------------------------------------------------------
Acks == [modes : Nat, presets : Nat, rows : SUBSET RowEditors]
Docs == [modes : Nat, presets : Nat, agents : SUBSET RowEditors, rows : SUBSET RowEditors]

TypeOK ==
    /\ up \in BOOLEAN /\ overlapped \in BOOLEAN
    /\ modes \in 0 .. stamp /\ presets \in 0 .. stamp /\ stamp \in Nat
    /\ live \subseteq RowEditors /\ deployed \subseteq RowEditors
    /\ modesLock \in Persisters \cup {Nobody}
    /\ pc \in [Writers -> {"start", "lock", "read", "open", "write", "finish",
                          "answered", "dead"}]
    /\ cur \in [Writers -> File] /\ doc \in [Writers -> Docs]
    /\ done \in [Writers -> SUBSET File]
    /\ mine \in [Requests -> 0 .. stamp]
    /\ reply \in [Requests -> {"none", "persisted", "failed", "unknown agent"}]
    /\ content \in [File -> Docs] /\ readable \in [File -> BOOLEAN]
    /\ disturbed \subseteq Writers
    /\ acked \in Acks /\ leftOut \subseteq RowEditors
    /\ crashes \in 0 .. MaxCrashes /\ ioErrors \in 0 .. MaxIoErrors
    /\ deploys \in 0 .. MaxDeploys

\* Document d holds the modes and presets that replies have called persisted,
\* and these rows.
HoldsAcked(d, rows) ==
    /\ d.modes >= acked.modes
    /\ d.presets >= acked.presets
    /\ rows \subseteq d.rows

InMemory == [modes |-> modes, presets |-> presets, agents |-> deployed, rows |-> live]

\* Row edits and redeploys met no other writer, and no open or write failed.
Undisturbed == ~overlapped /\ ioErrors = 0

\* As long as row edits and redeploys met no other writer, and without I/O
\* errors, a crash at any point, the restart and a redeploy bring back every
\* edit that was answered "persisted", whichever file they start from.  Only the
\* row edits that a redeploy's request lacked are gone from the active file
\* and from the memory, never from the source file; and the memory has none of
\* an agent that was not deployed.
AckedSurvive ==
    Undisturbed =>
        /\ readable["source"] => HoldsAcked(content["source"], acked.rows)
        /\ readable["active"] => HoldsAcked(content["active"], acked.rows \ leftOut)
        /\ up => HoldsAcked(InMemory, (acked.rows \ leftOut) \cap deployed)

\* The first crash leaves one of the two files whole, because the source file
\* is written after the active file is closed.  (A source file left torn is
\* never written again, so a second crash may take the active file too.)
OneCopyLeft ==
    (Undisturbed /\ (crashes = 0 \/ (crashes = 1 /\ ~up))) =>
        \E f \in File : readable[f]

\* When no request is in progress both files hold the modes and presets of the
\* memory, however the edits of presets (stored before the lock, read for each
\* file anew) and of modes interleaved.  Of the deployed agents the active file
\* has the memory's rows, and, until a redeploy brings rows of its own, so has
\* the source file.
IdleInSync ==
    (up /\ Quiet /\ Undisturbed /\ crashes = 0) =>
        /\ \A f \in File : /\ readable[f]
                           /\ content[f].modes = modes /\ content[f].presets = presets
        /\ content["active"].rows \cap deployed = live \cap deployed
        /\ deploys = 0 => content["source"].rows \cap deployed = live \cap deployed

\* When opens and writes fail, what was answered "persisted" is in the active
\* file as long as that parses and no redeploy replaced it.
ActiveHoldsAcked ==
    (~overlapped /\ deploys = 0 /\ readable["active"]) =>
        /\ content["active"].modes >= acked.modes
        /\ content["active"].presets >= acked.presets

\* CAPABILITIES.md, Persistence: a prompt edit is "immediate + durable".
PromptEditsKept ==
    Quiet => \A f \in File : readable[f] => acked.rows \subseteq content[f].rows
=============================================================================
