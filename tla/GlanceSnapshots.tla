-------------------------- MODULE GlanceSnapshots --------------------------
(***************************************************************************)
(* The glance and findings the proxy answers from their last computation   *)
(* (internal/proxy/glance_snapshot.go), and the findings acted on since,   *)
(* which are left out of it (internal/proxy/findings_api.go).              *)
(*                                                                         *)
(* A request takes the snapshot under one lock and leaves out the acted    *)
(* findings under another; the computation runs in the background.  A      *)
(* finding is a tip, answered in the coach's ledger, or a boundary to      *)
(* promote, answered in the config, which the daemon reads at its start.   *)
(***************************************************************************)
EXTENDS Naturals

CONSTANTS
  Tips, Promotes,  \* the findings' keys
  Clients,         \* requests that may be in flight at once
  GlanceFresh,     \* glanceFresh
  DiskMaxAge,      \* glanceDiskMaxAge
  GlanceSetups     \* [keys : the findings drawn, readers, actors : the requests in
                   \* flight at most, restarts, time : bounds on restarts and clock]

ASSUME GlanceAssumption ==
  /\ Tips \cap Promotes = {} /\ GlanceFresh \in Nat \ {0}
  /\ \A s \in GlanceSetups : s.keys \subseteq Tips \cup Promotes
                           /\ s.readers \subseteq Clients /\ s.actors \subseteq Clients

VARIABLES
  glanceSetup, \* which of GlanceSetups, chosen once
  view,      \* snapshots.v, at and ok, and was it loaded from the save?
  loaded,    \* snapshots.loaded
  computing, \* the computation under way, or NoRun
  acted,     \* Server.acted: per key when, or 0
  saved,     \* glance.json, or NoSave
  answered,  \* the tips answered in the ledger, the rules promoted in the config
  booted,    \* the rules promoted in the config this process read
  visit,     \* per client: its request, or NoVisit
  glanceNow, restarts,
  settled    \* history: the tips acted on since the start, by a request that
             \* overlapped no other

glanceVars == <<glanceSetup, view, loaded, computing, acted, saved, answered, booted, visit,
                glanceNow, restarts, settled>>
snapState  == <<view, loaded, computing, saved>>
worldState == <<glanceSetup, answered, booted, glanceNow, restarts>>

FindingKeys == Tips \cup Promotes

Zero    == 0   \* the zero time; the clock starts after it
NoRun   == [now |-> Zero, read |-> FALSE, shows |-> {}]
NoSave  == [at |-> Zero, key |-> {}, shows |-> {}]
NoView  == [ok |-> FALSE, at |-> Zero, shows |-> {}, fromSave |-> FALSE]
NoKey   == "none"
NoVisit == [at |-> "idle", now |-> Zero, key |-> NoKey, held |-> NoView,
            alone |-> FALSE, since |-> {}]

GlanceInit ==
  /\ glanceSetup \in GlanceSetups
  /\ view = NoView /\ loaded = FALSE /\ computing = NoRun
  /\ acted = [k \in FindingKeys |-> Zero]
  /\ saved = NoSave /\ answered = {} /\ booted = {}
  /\ visit = [c \in Clients |-> NoVisit]
  /\ glanceNow = 1 /\ restarts = 0 /\ settled = {}

To(c, place) == visit' = [visit EXCEPT ![c].at = place]

Leaves(c) == visit' = [visit EXCEPT ![c] = NoVisit]

-----------------------------------------------------------------------------
(***************************************************************************)
(* snapshots.get                                                           *)
(***************************************************************************)

\* load: the saved result, when it is recent and under this process's config.
Loaded(now) ==
  IF saved # NoSave /\ saved.key = booted /\ saved.at <= now /\ now - saved.at <= DiskMaxAge
  THEN [ok |-> TRUE, at |-> saved.at, shows |-> saved.shows, fromSave |-> TRUE]
  ELSE view

IsFresh(v, now) == v.ok /\ v.at # Zero /\ now < v.at + GlanceFresh

\* A request arrives, to read (NoKey) or to act on a finding; the handler
\* takes the time before it takes a lock.
Request(c, key) ==
  /\ visit[c] = NoVisit
  /\ \/ key = NoKey /\ c \in glanceSetup.readers
     \/ key \in glanceSetup.keys /\ c \in glanceSetup.actors
  /\ visit' =
       [d \in Clients |->
          IF d = c THEN [NoVisit EXCEPT !.at = "get", !.now = glanceNow, !.key = key,
                           !.alone = \A e \in Clients \ {c} : visit[e] = NoVisit,
                           !.since = settled]
          ELSE [visit[d] EXCEPT !.alone = FALSE]]
  /\ UNCHANGED <<snapState, acted, worldState, settled>>

\* Under c.mu: the snapshot when there is one, started anew when it is stale;
\* otherwise the request waits for the first.
Get(c) ==
  LET now == visit[c].now
      v   == IF view.ok \/ loaded THEN view ELSE Loaded(now)
  IN  /\ visit[c].at = "get"
      /\ view' = v
      /\ loaded' = (loaded \/ ~view.ok)
      /\ computing' = IF ~IsFresh(v, now) /\ computing = NoRun
                      THEN [NoRun EXCEPT !.now = now] ELSE computing
      /\ visit' = [visit EXCEPT ![c].at = IF v.ok THEN "filter" ELSE "waiting",
                                ![c].held = IF v.ok THEN v ELSE NoView]
      /\ UNCHANGED <<saved, acted, worldState, settled>>

\* The computation a request waited for has ended: its result, or its error.
Woken(c) ==
  /\ visit[c].at = "woken"
  /\ IF view.ok THEN visit' = [visit EXCEPT ![c].at = "filter", ![c].held = view]
     ELSE Leaves(c)
  /\ UNCHANGED <<snapState, acted, worldState, settled>>

\* The client of a waiting request goes away.
Disconnect(c) ==
  /\ visit[c].at \in {"waiting", "woken"}
  /\ Leaves(c)
  /\ UNCHANGED <<snapState, acted, worldState, settled>>

\* Who waits is woken: running is closed.
WakeAll ==
  visit' = [c \in Clients |-> IF visit[c].at = "waiting" THEN [visit[c] EXCEPT !.at = "woken"]
                              ELSE visit[c]]

-----------------------------------------------------------------------------
(***************************************************************************)
(* The computation of start, in the background.                            *)
(***************************************************************************)

\* computeView reads the ledger as it is, and the config as it was at the start.
Compute ==
  /\ computing # NoRun /\ ~computing.read
  /\ computing' = [computing EXCEPT !.read = TRUE,
                                    !.shows = glanceSetup.keys \ ((answered \cap Tips) \cup booted)]
  /\ UNCHANGED <<view, loaded, saved, acted, worldState, visit, settled>>

\* It fails, or runs out of glanceRefreshBudget: the last result stands.
ComputeFails ==
  /\ computing # NoRun /\ ~computing.read
  /\ computing' = NoRun
  /\ WakeAll
  /\ UNCHANGED <<view, loaded, saved, acted, worldState, settled>>

\* The result is saved, which may fail, and becomes the snapshot, dated when it
\* was asked for.
Land ==
  /\ computing.read
  /\ saved' \in {saved, [at |-> computing.now, key |-> booted, shows |-> computing.shows]}
  /\ view' = [ok |-> TRUE, at |-> computing.now, shows |-> computing.shows, fromSave |-> FALSE]
  /\ computing' = NoRun
  /\ WakeAll
  /\ UNCHANGED <<loaded, acted, worldState, settled>>

-----------------------------------------------------------------------------
(***************************************************************************)
(* The findings acted on.                                                  *)
(***************************************************************************)

\* Seeded fault: an action at the very time a computation was asked for is
\* taken to be part of it.
IsActedSince_OffByOne(k, at) == acted[k] # Zero /\ acted[k] > at

\* Was k acted on, not before at?
IsActedSince(k, at) == acted[k] # Zero /\ acted[k] >= at

\* withoutActed's result.
ShownTo(c) ==
  {k \in visit[c].held.shows : ~IsActedSince(k, visit[c].held.at)}

\* withoutActed, which also forgets the actions older than what it filters; an
\* action goes on with the findings it leaves.
WithoutActed(c) ==
  /\ visit[c].at = "filter"
  /\ acted' = [k \in FindingKeys |-> IF acted[k] < visit[c].held.at THEN Zero ELSE acted[k]]
  /\ IF visit[c].key = NoKey THEN Leaves(c)
     ELSE IF visit[c].key \in ShownTo(c) THEN To(c, "act")
     ELSE Leaves(c)  \* ErrStale
  /\ UNCHANGED <<snapState, worldState, settled>>

\* findings.Act: the tip is answered, or the rule promoted in the config file. A
\* finding from the save has lost its rule, so there is nothing to promote.
Act(c) ==
  LET k == visit[c].key
  IN  /\ visit[c].at = "act"
      /\ k \in Promotes => ~visit[c].held.fromSave
      /\ answered' = answered \cup {k}
      /\ To(c, "note")
      /\ UNCHANGED <<snapState, acted, glanceSetup, booted, glanceNow, restarts, settled>>

\* The write fails, or the rule is not known.
ActFails(c) ==
  /\ visit[c].at = "act"
  /\ Leaves(c)
  /\ UNCHANGED <<snapState, acted, worldState, settled>>

\* noteActed, with the time the request came: the finding is noted and the
\* snapshot made stale. The answer is the findings after it.
NoteActed(c) ==
  /\ visit[c].at = "note"
  /\ acted' = [acted EXCEPT ![visit[c].key] = visit[c].now]
  /\ view' = [view EXCEPT !.at = Zero]
  /\ settled' = IF visit[c].alone THEN settled \cup ({visit[c].key} \cap Tips) ELSE settled
  /\ visit' = [visit EXCEPT ![c].at = "get", ![c].key = NoKey, ![c].since = settled']
  /\ UNCHANGED <<loaded, computing, saved, worldState>>

-----------------------------------------------------------------------------

\* The daemon restarts: a config change, an upgrade, a crash.
GlanceRestart ==
  /\ restarts < glanceSetup.restarts
  /\ restarts' = restarts + 1
  /\ view' = NoView /\ loaded' = FALSE /\ computing' = NoRun
  /\ acted' = [k \in FindingKeys |-> Zero]
  /\ visit' = [c \in Clients |-> NoVisit]
  /\ booted' = answered \cap Promotes
  /\ settled' = {}
  /\ UNCHANGED <<glanceSetup, saved, answered, glanceNow>>

GlanceTick ==
  /\ glanceNow < glanceSetup.time
  /\ glanceNow' = glanceNow + 1
  /\ UNCHANGED <<glanceSetup, snapState, acted, answered, booted, visit, restarts, settled>>

GlanceNext ==
  \/ \E c \in Clients :
       \/ \E k \in FindingKeys \cup {NoKey} : Request(c, k)
       \/ Get(c) \/ Woken(c) \/ Disconnect(c) \/ WithoutActed(c)
       \/ Act(c) \/ ActFails(c) \/ NoteActed(c)
  \/ Compute \/ ComputeFails \/ Land \/ GlanceRestart \/ GlanceTick

GlanceSpec == GlanceInit /\ [][GlanceNext]_glanceVars

-----------------------------------------------------------------------------
(***************************************************************************)
(* Properties.                                                             *)
(***************************************************************************)

\* computeFindings: "A finding acted on since that computation is left out: the
\* next one no longer draws it." Whatever computation is under way or lands, a
\* request that overlaps no other is not shown a tip that such a request acted
\* on since the daemon started; and no request is ever shown a rule that was
\* promoted before the daemon started, though a result saved before the
\* promotion shows it.
ActedIsHidden ==
  \A c \in Clients : visit[c].at = "filter" =>
    /\ visit[c].alone => ShownTo(c) \cap visit[c].since = {}
    /\ ShownTo(c) \cap booted = {}
=============================================================================
