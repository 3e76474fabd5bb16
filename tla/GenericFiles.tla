---------------------------- MODULE GenericFiles ----------------------------
(***************************************************************************)
(* The files under FILE_COMMON/ARKANA/generic through which the research   *)
(* service and the MT5 terminal talk.  Neither side ever calls the other:  *)
(* the service replaces the manifest and the control file, and the         *)
(* terminal appends acknowledgements.  A file is modelled by what a reader *)
(* that verifies its checksum gets from it, so a record stands for a       *)
(* complete, canonical file and None for a missing one.                    *)
(***************************************************************************)

CONSTANTS
    PublicationIds, \* uuid4 identities; their number bounds the attempts
    Fingerprints,   \* stable requests: a compilation and a target account
    Configs,        \* compiled configurations, named by their checksum
    ConfigOf,       \* the configuration a stable request publishes
    Reasons,        \* reason codes an entry block can carry
    None            \* no file, no record

ASSUME GenericFilesAssumption ==
    /\ ConfigOf \in [Fingerprints -> Configs]
    /\ None \notin PublicationIds \cup Fingerprints \cup Configs \cup Reasons

VARIABLES
    manifest,         \* publication.ini, the sole activation pointer
    configs,          \* the checksum-addressed config-<sha256>.ini on disk
    control,          \* control.ini, one slot for the whole terminal
    acknowledgements  \* rows of acknowledgement.csv, append-only

files == <<manifest, configs, control, acknowledgements>>

\* publication.ini binds an identity to one request; publication_checksum is
\* taken over both, so the record also stands for that checksum.
Manifests == [publication_id : PublicationIds, fingerprint : Fingerprints]

Controls == [publication_id : PublicationIds, config : Configs, reason : Reasons]

\* An acknowledgement row repeats every binding of the manifest it answers.
AckRows == Manifests

ASSUME NoFileAssumption == None \notin Manifests \cup Controls

FilesTypeOK ==
    /\ manifest \in Manifests \cup {None}
    /\ configs \subseteq Configs
    /\ control \in Controls \cup {None}
    /\ acknowledgements \subseteq AckRows

FilesInit ==
    /\ manifest = None
    /\ configs = {}
    /\ control = None
    /\ acknowledgements = {}
=============================================================================
