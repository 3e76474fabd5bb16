---------------------------- MODULE ArkanaEngine ----------------------------
(***************************************************************************)
(* Configuration loading of the MT5 expert advisor ARKANA_ENGINE.mq5       *)
(* (ReloadConfig, GenericControlState, WriteGenericAcknowledgement, OnInit *)
(* and OnTimer).  The advisor is single-threaded, so its own callbacks     *)
(* never interleave, but the service may replace a file between two reads  *)
(* of one reload: the manifest is read first, the control file later.      *)
(***************************************************************************)
EXTENDS GenericFiles

CONSTANTS
    OnTerminal,     \* requests for this terminal's account, server and symbol
    LegacyConfigs   \* contents of strategy.ini the terminal accepts

ASSUME OnTerminalAssumption == OnTerminal \subseteq Fingerprints
ASSUME LegacyAssumption == None \notin LegacyConfigs

VARIABLES
    strategyIni,     \* strategy.ini, the legacy configuration file
    running,         \* active_publication while has_generic_config, or None
    entriesBlocked,  \* generic_entries_blocked
    legacy,          \* `active` while has_config, or None
    reload,          \* "idle", "due" right after a start, or "control"
    candidate        \* the publication this reload validated, or None

memory == <<running, entriesBlocked, legacy, reload, candidate>>
engine == <<strategyIni, memory>>

\* ReadGenericPublication and ReadGenericConfig both succeed.
ValidManifest ==
    /\ manifest # None
    /\ manifest.fingerprint \in OnTerminal
    /\ ConfigOf[manifest.fingerprint] \in configs

\* GenericControlState = 1: the one control file names this publication.
ControlNames(publication) ==
    /\ control # None
    /\ control.publication_id = publication.publication_id
    /\ control.config = ConfigOf[publication.fingerprint]

\* GenericControlState(...) # 0.  A control file that cannot be opened or
\* read as a canonical control blocks entries; a missing one, or a valid one
\* naming any other publication, does not.
BlockedBy(publication) ==
    IF control = None THEN {FALSE} ELSE {ControlNames(publication), TRUE}

-----------------------------------------------------------------------------
\* First half of ReloadConfig.  An unreadable manifest is no manifest.
ReadManifest ==
    /\ reload \in {"idle", "due"}
    /\ reload' = "control"
    /\ candidate' \in {None} \cup (IF ValidManifest THEN {manifest} ELSE {})
    /\ UNCHANGED <<files, strategyIni, running, entriesBlocked, legacy>>

\* Slip: a publication that is already running is not acknowledged again.
ActivateOnce ==
    /\ reload = "control" /\ candidate # None
    /\ running' = candidate
    /\ legacy' = None
    /\ entriesBlocked' \in BlockedBy(candidate)
    /\ \/ candidate # running /\ acknowledgements' = acknowledgements \cup {candidate}
       \/ UNCHANGED acknowledgements
    /\ reload' = "idle"
    /\ candidate' = None
    /\ UNCHANGED <<manifest, configs, control, strategyIni>>

\* The candidate becomes the active publication.  The acknowledgement is
\* lost, silently, if its file cannot be opened.
Activate ==
    /\ reload = "control" /\ candidate # None
    /\ running' = candidate
    /\ legacy' = None
    /\ entriesBlocked' \in BlockedBy(candidate)
    /\ \/ acknowledgements' = acknowledgements \cup {candidate}
       \/ UNCHANGED acknowledgements
    /\ reload' = "idle"
    /\ candidate' = None
    /\ UNCHANGED <<manifest, configs, control, strategyIni>>

\* Slip: a rejected reload leaves everything as it was, the block included.
KeepCachedControl ==
    /\ reload = "control" /\ candidate = None /\ running # None
    /\ reload' = "idle"
    /\ UNCHANGED <<files, strategyIni, running, entriesBlocked, legacy, candidate>>

\* A rejected reload keeps the cached publication and re-reads its control.
KeepCached ==
    /\ reload = "control" /\ candidate = None /\ running # None
    /\ entriesBlocked' \in BlockedBy(running)
    /\ reload' = "idle"
    /\ UNCHANGED <<files, strategyIni, running, legacy, candidate>>

\* Without any generic configuration the legacy file is tried; if it is
\* rejected the cached legacy configuration, if any, stays.
LoadLegacy ==
    /\ reload = "control" /\ candidate = None /\ running = None
    /\ legacy' \in {legacy} \cup ({strategyIni} \ {None})
    /\ reload' = "idle"
    /\ UNCHANGED <<files, strategyIni, running, entriesBlocked, candidate>>

\* The terminal restarts: globals are reinitialized and OnInit reloads
\* before any tick is served.  GlobalVariables and files stay.
RestartTerminal ==
    /\ reload # "due"
    /\ running' = None
    /\ entriesBlocked' = FALSE
    /\ legacy' = None
    /\ candidate' = None
    /\ reload' = "due"
    /\ UNCHANGED <<files, strategyIni>>

EngineInit ==
    /\ strategyIni \in LegacyConfigs \cup {None}
    /\ running = None
    /\ entriesBlocked = FALSE
    /\ legacy = None
    /\ reload = "due"
    /\ candidate = None

Reload == ReadManifest \/ Activate \/ KeepCached \/ LoadLegacy

EngineNext == Reload \/ RestartTerminal

EngineTypeOK ==
    /\ strategyIni \in LegacyConfigs \cup {None}
    /\ running \in Manifests \cup {None}
    /\ entriesBlocked \in BOOLEAN
    /\ legacy \in LegacyConfigs \cup {None}
    /\ reload \in {"idle", "due", "control"}
    /\ candidate \in Manifests \cup {None}
=============================================================================
