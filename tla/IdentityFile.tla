---------------------------- MODULE IdentityFile ----------------------------
(***************************************************************************)
(* The identity file (identity_file.c) as evergram_bot_create uses it      *)
(* (bot.c 641-669): loaded, or generated and saved.  The process may be    *)
(* killed between any two calls of the system, and calls may fail.  Data   *)
(* that a killed process has written stays written: the power is not cut.  *)
(*                                                                         *)
(* An identity is a number; the file holds one in today's form, one in the *)
(* older form without the keys that are derived from the seed, a damaged   *)
(* record, or it is absent.                                                *)
(***************************************************************************)
EXTENDS Naturals

CONSTANTS
    MaxIdentities,  \* bound: identities generated
    MaxMishaps      \* bound: kills and failed calls

ASSUME IdentityFileAssumption == MaxIdentities \in Nat \ {0} /\ MaxMishaps \in Nat

VARIABLES
    path, temporary,  \* the contents of the two files
    doing,            \* where the process is
    identity,         \* evergram_bot_t.wallet and .device, 0 for none
    generated,        \* identities generated so far
    mishaps,
    misread, unsaved  \* history: a load or a save failed in this process

identityVars == <<path, temporary, doing, identity, generated, mishaps, misread, unsaved>>

Identities == 1 .. MaxIdentities
Absent   == [form |-> "absent"]
Damaged  == [form |-> "damaged"]
Record(form, id) == [form |-> form, id |-> id]
Holds(content) == content \notin {Absent, Damaged}

Contents == {Absent, Damaged} \cup {Record(f, id) : f \in {"full", "older"}, id \in Identities}

IdentityTypeOK ==
    /\ path \in Contents /\ temporary \in Contents
    /\ doing \in {"nothing", "load", "open", "write", "rename", "unlink", "running"}
    /\ identity \in 0 .. MaxIdentities /\ generated \in 0 .. MaxIdentities
    /\ mishaps \in 0 .. MaxMishaps /\ misread \in BOOLEAN /\ unsaved \in BOOLEAN

IdentityInit ==
    /\ path \in {Absent, Damaged, Record("full", 1), Record("older", 1)}
    /\ temporary \in {Absent, Damaged}
    /\ doing = "nothing" /\ identity = 0
    /\ generated = IF Holds(path) THEN 1 ELSE 0
    /\ mishaps = MaxMishaps /\ misread = FALSE /\ unsaved = FALSE

Mishap == mishaps > 0 /\ mishaps' = mishaps - 1

Starts ==
    /\ doing = "nothing"
    /\ doing' = "load" /\ misread' = FALSE /\ unsaved' = FALSE
    /\ UNCHANGED <<path, temporary, identity, generated, mishaps>>

(* The process ends, or is killed: what it has on disk stays.              *)
Killed ==
    /\ doing # "nothing" /\ Mishap
    /\ doing' = "nothing" /\ identity' = 0
    /\ UNCHANGED <<path, temporary, generated, misread, unsaved>>

(* Definitions named Bug... are the definition below them with a plausible *)
(* mistake: they show that some property notices.                          *)

(* evergram_identity_load: the file can be read, and has the fields that   *)
(* cannot be derived.                                                      *)
BugUsableNeedsAllKeys(content) == content.form = "full"
Usable(content) == Holds(content)

Load ==
    /\ doing = "load" /\ Usable(path)
    /\ identity' = path.id /\ doing' = "running"
    /\ UNCHANGED <<path, temporary, generated, mishaps, misread, unsaved>>

(* bot_load_identity when that failed, for whatever reason: evergram_      *)
(* wallet_generate, evergram_device_generate.                              *)
Generate ==
    /\ doing = "load" /\ generated < MaxIdentities
    /\ \/ ~Usable(path) /\ UNCHANGED <<mishaps, misread>>
       \/ Mishap /\ misread' = TRUE
    /\ generated' = generated + 1 /\ identity' = generated' /\ doing' = "open"
    /\ UNCHANGED <<path, temporary, unsaved>>

(* evergram_identity_save: open with O_TRUNC, fdopen.                      *)
OpenTemporary ==
    /\ doing = "open"
    /\ \/ temporary' = Damaged /\ doing' = "write" /\ UNCHANGED <<mishaps, unsaved>>
       \/ Mishap /\ doing' = "running" /\ unsaved' = TRUE /\ temporary' \in {temporary, Absent}
    /\ UNCHANGED <<path, identity, generated, misread>>

BugWriteTemporaryUnchecked ==
    /\ doing = "write"
    /\ \/ temporary' = Record("full", identity) /\ doing' = "rename" /\ UNCHANGED <<mishaps, unsaved>>
       \/ Mishap /\ doing' = "rename" /\ UNCHANGED <<temporary, unsaved>>
    /\ UNCHANGED <<path, identity, generated, misread>>

(* fprintf, fflush, fclose.                                                *)
WriteTemporary ==
    /\ doing = "write"
    /\ \/ temporary' = Record("full", identity) /\ doing' = "rename" /\ UNCHANGED <<mishaps, unsaved>>
       \/ Mishap /\ doing' = "unlink" /\ unsaved' = TRUE /\ UNCHANGED temporary
    /\ UNCHANGED <<path, identity, generated, misread>>

RenameTemporary ==
    /\ doing = "rename"
    /\ \/ path' = temporary /\ temporary' = Absent /\ doing' = "running"
          /\ UNCHANGED <<mishaps, unsaved>>
       \/ Mishap /\ doing' = "unlink" /\ unsaved' = TRUE /\ UNCHANGED <<path, temporary>>
    /\ UNCHANGED <<identity, generated, misread>>

UnlinkTemporary ==
    /\ doing = "unlink"
    /\ temporary' = Absent /\ doing' = "running"
    /\ UNCHANGED <<path, identity, generated, mishaps, misread, unsaved>>

IdentityNext ==
    \/ Starts \/ Killed
    \/ Load \/ Generate
    \/ OpenTemporary \/ WriteTemporary \/ RenameTemporary \/ UnlinkTemporary

IdentitySpec == IdentityInit /\ [][IdentityNext]_identityVars

-----------------------------------------------------------------------------
(* evergram.h 601, "replacing it atomically": wherever the process is      *)
(* killed and whatever fails, the file is what it was or a whole record of *)
(* the running identity; and a wallet on disk makes way for another one    *)
(* only when reading it failed.                                            *)
ReplacedWhole ==
    [][path' # path => path' = Record("full", identity) /\ (Holds(path) => misread)]_path

(* A bot that runs is the one it will be after its next start, unless its  *)
(* identity could not be saved.                                            *)
RunsAsSaved ==
    doing = "running" => unsaved \/ (Holds(path) /\ path.id = identity)
=============================================================================
