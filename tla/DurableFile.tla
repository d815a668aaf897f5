---------------------------- MODULE DurableFile ----------------------------
(***************************************************************************)
(* The state files of the web server, internal/web/server.go:              *)
(* writeFileAtomicWithBackup replaces a file by way of a temporary one and *)
(* keeps a copy of the old content, loadJobStateWithBackup and loadJobs    *)
(* read it when the server starts.  persistMu lets one save run at a time. *)
(*                                                                         *)
(* A content is the number of the save that wrote it.  The file system is  *)
(* external: a write reaches the cache, a sync the disk; a rename is       *)
(* atomic, and may be undone by a power failure until the directory is     *)
(* synced; the sync of a new file also keeps its name.                     *)
(*                                                                         *)
(* SF stands for state file, in names that other modules have too.         *)
(***************************************************************************)
EXTENDS Integers

CONSTANTS
    MaxSaves,        \* bound: saves begun
    MaxFaults        \* bound: failing calls, crashes and damage

ASSUME DurableFileAssumption == MaxSaves \in Nat /\ MaxFaults \in Nat

Absent == 0
TornFile == -1
Contents == {Absent, TornFile} \union 1..MaxSaves

VARIABLES
    main, bak, tmp,  \* the three files, as they are read
    dirty,           \* which of them are not synced
    undone,          \* what main may be again after a power failure
    step,            \* where the save is, "idle" if none runs
    server,          \* "up", "down", or "refused": it could not load
    saves,           \* saves begun
    copied,          \* this save has copied an intact file
    \* history
    may,             \* what the last successful save wrote, and those
                     \* interrupted since
    excused,         \* the file was damaged, or a directory sync failed
    faults,          \* since main and bak were last both good; 1 until then
    budget           \* faults there were

files == <<main, bak, tmp, dirty, undone>>
history == <<may, excused, faults, budget>>
SFvars == <<files, step, server, saves, copied, history>>

SFInit ==
    /\ main = Absent /\ bak = Absent /\ tmp = Absent /\ dirty = {} /\ undone = {}
    /\ step = "idle" /\ server = "up" /\ saves = 0 /\ copied = FALSE
    /\ may = {0} /\ excused = FALSE /\ faults = 1 /\ budget = 0

Fault == budget < MaxFaults /\ budget' = budget + 1 /\ faults' = faults + 1

NoFault == UNCHANGED <<excused, faults, budget>>

At(s) == server = "up" /\ step = s

-----------------------------------------------------------------------------
(* writeFileAtomicWithBackup                                               *)

Begin ==
    /\ At("idle") \/ At("recover")
    /\ saves < MaxSaves /\ saves' = saves + 1
    /\ step' = "write" /\ tmp' = TornFile /\ dirty' = dirty \union {"tmp"}
    /\ copied' = FALSE /\ may' = may \union {saves'}
    /\ UNCHANGED <<main, bak, undone, server>> /\ NoFault

Write ==
    /\ At("write") /\ step' = "sync" /\ tmp' = saves
    /\ UNCHANGED <<main, bak, dirty, undone, server, saves, copied, may>> /\ NoFault

\* Mutant: the temporary file is not synced.
SyncNothing ==
    /\ At("sync") /\ step' = "stat"
    /\ UNCHANGED <<files, server, saves, copied, may>> /\ NoFault

Sync ==
    /\ At("sync") /\ step' = "stat" /\ dirty' = dirty \ {"tmp"}
    /\ UNCHANGED <<main, bak, tmp, undone, server, saves, copied, may>> /\ NoFault

Stat ==
    /\ At("stat")
    /\ IF main = Absent THEN step' = "rename" /\ UNCHANGED <<bak, dirty>>
         ELSE step' = "copy" /\ bak' = TornFile /\ dirty' = dirty \union {"bak"}
    /\ UNCHANGED <<main, tmp, undone, server, saves, copied, may>> /\ NoFault

(* copyFile, whose errors are ignored.                                     *)
Copy ==
    /\ At("copy") /\ step' = "keep" /\ bak' = main
    /\ UNCHANGED <<main, tmp, dirty, undone, server, saves, copied, may>> /\ NoFault

Keep ==
    /\ At("keep") /\ step' = "rename" /\ dirty' = dirty \ {"bak"} /\ copied' = (main # TornFile)
    /\ UNCHANGED <<main, bak, tmp, undone, server, saves, may>> /\ NoFault

CopyFails ==
    /\ At("copy") \/ At("keep")
    /\ step' = "rename" /\ Fault
    /\ UNCHANGED <<files, server, saves, copied, may, excused>>

Rename ==
    /\ At("rename") /\ step' = "directory"
    /\ main' = tmp /\ tmp' = Absent /\ undone' = undone \union {main}
    /\ dirty' = {IF x = "tmp" THEN "main" ELSE x : x \in dirty \ {"main"}}
    /\ UNCHANGED <<bak, server, saves, copied, may>> /\ NoFault

(* Open, write, sync, close, stat and rename remove the temporary file     *)
(* when they fail.                                                         *)
SaveFails ==
    /\ server = "up" /\ step \in {"write", "sync", "stat", "rename"} /\ Fault
    /\ step' = "idle" /\ tmp' = Absent /\ dirty' = dirty \ {"tmp"}
    /\ may' = may \ {saves}
    /\ UNCHANGED <<main, bak, undone, server, saves, copied, excused>>

Succeeds ==
    /\ step' = "idle" /\ may' = {saves}
    /\ UNCHANGED <<main, bak, tmp, dirty, server, saves, copied>>

SyncDirectory ==
    /\ At("directory") /\ Succeeds /\ undone' = {}
    /\ faults' = IF copied THEN 0 ELSE faults
    /\ excused' = FALSE /\ UNCHANGED budget

(* An error of the last sync is ignored.                                   *)
SyncDirectoryFails ==
    At("directory") /\ Succeeds /\ Fault /\ excused' = TRUE /\ UNCHANGED undone

-----------------------------------------------------------------------------
(* loadJobs                                                                *)

Fails == -2

\* Mutant: the backup is not consulted, as in loadWatchers.
LoadOfOne(m, b) == IF m = TornFile THEN Fails ELSE m

(* readJobState of the file, if it cannot be parsed of its backup; without *)
(* a file there is no state, whatever the backup holds.                    *)
LoadOf(m, b) ==
    IF m # TornFile THEN m ELSE IF b \notin {Absent, TornFile} THEN b ELSE Fails

(* What has been read is saved again at once, with the jobs that were      *)
(* running closed.                                                         *)
Load ==
    /\ server = "down"
    /\ LET content == LoadOf(main, bak)
       IN  /\ server' = IF content = Fails THEN "refused" ELSE "up"
           /\ step' = IF content > 0 THEN "recover" ELSE "idle"
    /\ UNCHANGED <<files, saves, copied, may>> /\ NoFault

-----------------------------------------------------------------------------
(* The surroundings                                                        *)

Kept(name, content) == IF name \in dirty /\ content # Absent THEN TornFile ELSE content

AfterPower == undone \union {Kept("main", main)}    \* what main may be then

Down == server' = "down" /\ step' = "idle" /\ UNCHANGED <<saves, copied, may, excused>>

Exit == At("idle") /\ Down /\ UNCHANGED <<files, faults, budget>>

ServerCrash == server = "up" /\ step # "idle" /\ Down /\ Fault /\ UNCHANGED files

(* What is not synced is lost or half there.                               *)
PowerFails ==
    /\ server = "up" /\ Down /\ Fault
    /\ main' \in AfterPower /\ bak' = Kept("bak", bak) /\ tmp' = Kept("tmp", tmp)
    /\ undone' = {} /\ dirty' = {}

(* Something else writes into the file.                                    *)
Damage ==
    /\ main > 0 /\ step = "idle" /\ main' = TornFile /\ Fault /\ excused' = TRUE
    /\ UNCHANGED <<bak, tmp, dirty, undone, step, server, saves, copied, may>>

Save == Begin \/ Write \/ Sync \/ Stat \/ Copy \/ Keep \/ Rename \/ SyncDirectory
SaveErrs == CopyFails \/ SaveFails \/ SyncDirectoryFails
Surroundings == Exit \/ ServerCrash \/ PowerFails \/ Damage

SFNext == Save \/ SaveErrs \/ Load \/ Surroundings

SFSpec == SFInit /\ [][SFNext]_SFvars

-----------------------------------------------------------------------------
(* Properties                                                              *)

(* The type of the state.                                                  *)
SFTypeOK ==
    /\ main \in Contents /\ bak \in Contents /\ tmp \in Contents
    /\ dirty \subseteq {"main", "bak", "tmp"} /\ undone \subseteq Contents
    /\ step \in {"idle", "write", "sync", "stat", "copy", "keep", "rename", "directory", "recover"}
    /\ server \in {"up", "down", "refused"} /\ saves \in 0..MaxSaves
    /\ may \subseteq 0..MaxSaves

(* A crash or a power failure at any moment leaves what the last           *)
(* successful save wrote or what the interrupted one was writing; never    *)
(* part of it, never something older, and never nothing.                   *)
OldOrNew ==
    ~excused => \A m \in {main} \union AfterPower, b \in {bak, TornFile} : LoadOf(m, b) \in may

(* One fault, be it damage to the file, a copy that failed or a crash      *)
(* while saving, costs the server its history only if it has had another   *)
(* since file and backup were last both good.                              *)
OneFaultTolerated == server = "refused" => faults >= 2
=============================================================================
