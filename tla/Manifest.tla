-------------------------------- MODULE Manifest --------------------------------
(***************************************************************************)
(* packaging/manifest.go: Seal and VerifyAny on one artifact directory,    *)
(* reading and writing it file by file while the pipeline around them      *)
(* builds into it, ships it and is interrupted.                            *)
(*                                                                         *)
(* External: the file system and the pipeline.  A manifest stands for its  *)
(* bytes, a content for a length and a SHA-256; the provenance metadata is *)
(* the identity of the seal.  Left out: directories, empty or not, which   *)
(* no manifest mentions.                                                   *)
(***************************************************************************)
EXTENDS Integers, FiniteSets, FiniteSetsExt

CONSTANTS
    Paths,        \* payload files, in lexical order
    Mangled,      \* those whose names are not UTF-8
    Contents,
    Sealers, Verifiers,
    Keys,
    KeyOf,        \* KeyOf[s]: the private key of a sealer
    Trusted,      \* the public keys given to VerifyAny
    MaxWrites,    \* bound of the model: what the pipeline changes
    MaxFaults     \* bound of the model: calls cut short

Absent == "absent"
Link == "symlink"
None == "none"

ArtifactAssumption ==
    /\ Paths \subseteq Nat \ {0} /\ Mangled \subseteq Paths
    /\ {Absent, Link} \cap Contents = {}
    /\ KeyOf \in [Sealers -> Keys] /\ Trusted \subseteq Keys
    /\ None \notin Sealers
    /\ MaxWrites \in Nat /\ MaxFaults \in Nat

VARIABLES
    dir,          \* the payload: path -> content, Absent or Link
    mf,           \* manifest.json
    sig,          \* manifest.ed25519
    seal,         \* each Seal
    ver,          \* each VerifyAny
    signed,       \* history: every manifest that was signed
    sealed,       \* history: whose undisturbed Seal the directory still holds
    writes, faults

artifact == <<dir, mf, sig>>
vars == <<artifact, seal, ver, signed, sealed, writes, faults>>

(* A mangled name is U+FFFD in the JSON, one and the same for all: 0.      *)
File == [path : Paths \cup {0}, content : Contents]

(* What one of the two sealed files contains.  A signature is of the       *)
(* manifest with the same sealer and files, by that sealer's key.          *)
Bytes == [what : {"absent", "empty", "torn", "manifest", "signature"},
          by : Sealers \cup {None}, files : SUBSET File]

No(what) == [what |-> what, by |-> None, files |-> {}]
Sign(m) == [m EXCEPT !.what = "signature"]

(* steady: nobody else has changed the directory since it began.           *)
Sealing == [pc : {"idle", "hash", "open", "write", "open sig", "write sig", "done", "failed"},
            rest : SUBSET Paths, files : SUBSET File, steady : BOOLEAN]

(* due: it began on an undisturbed seal of a trusted key.                  *)
Verifying == [pc : {"idle", "signature", "list", "hash", "accepted", "refused", "failed"},
              rest : SUBSET Paths, mf : Bytes, files : SUBSET File,
              due : BOOLEAN, steady : BOOLEAN]

Init ==
    /\ dir \in [Paths -> Contents \cup {Absent}]
    /\ mf = No("absent") /\ sig = No("absent")
    /\ seal = [s \in Sealers |-> [pc |-> "idle", rest |-> {}, files |-> {}, steady |-> TRUE]]
    /\ ver = [v \in Verifiers |-> [pc |-> "idle", rest |-> {}, mf |-> No("absent"),
                                   files |-> {}, due |-> FALSE, steady |-> TRUE]]
    /\ signed = {} /\ sealed = None
    /\ writes = 0 /\ faults = 0

Fault == faults < MaxFaults /\ faults' = faults + 1
Listed == {p \in Paths : dir[p] # Absent}

(* A Seal whose own write changes nothing for itself, but for the others.  *)
Others(s, state) ==
    [t \in Sealers |-> IF t = s THEN state ELSE [seal[t] EXCEPT !.steady = FALSE]]
Unsteady == [v \in Verifiers |-> [ver[v] EXCEPT !.steady = FALSE]]

(* collectFiles comes to a file: one that vanished since the directory was *)
(* listed, or a symlink, is an error.                                      *)
Collected(files, p) == files \cup {[path |-> p, content |-> dir[p]]}
Regular(p) == dir[p] \in Contents
-------------------------------------------------------------------------------
SealList(s) ==
    /\ seal[s].pc = "idle"
    /\ seal' = [seal EXCEPT ![s] = [pc |-> "hash", rest |-> Listed, files |-> {}, steady |-> TRUE]]
    /\ UNCHANGED <<artifact, ver, signed, sealed, writes, faults>>

SealHash(s) ==
    LET p == Min(seal[s].rest) IN
    /\ seal[s].pc = "hash" /\ seal[s].rest # {}
    /\ seal' = IF Regular(p)
               THEN [seal EXCEPT ![s].rest = @ \ {p}, ![s].files = Collected(@, p)]
               ELSE [seal EXCEPT ![s].pc = "failed"]
    /\ UNCHANGED <<artifact, ver, signed, sealed, writes, faults>>

(* json.Marshal.                                                           *)
Encode(files) == {[f EXCEPT !.path = IF @ \in Mangled THEN 0 ELSE @] : f \in files}
ManifestOf(s) == [what |-> "manifest", by |-> s, files |-> Encode(seal[s].files)]

(* Seeded fault: the file is opened without O_TRUNC.                       *)
Opened_Kept(old) == IF old = No("absent") THEN No("empty") ELSE old

Opened(old) == No("empty")

(* Written over what somebody else has put there since, the new bytes may  *)
(* leave a tail of the old, or go to a file that is no longer there.       *)
Written(old, new) == IF old \in {No("empty"), new} THEN {new} ELSE {old, new, No("torn")}

SealOpen(s) ==
    /\ seal[s].pc = "hash" /\ seal[s].rest = {}
    /\ mf' = Opened(mf)
    /\ seal' = Others(s, [seal[s] EXCEPT !.pc = "write"])
    /\ ver' = Unsteady
    /\ signed' = signed \cup {ManifestOf(s)}
    /\ sealed' = None
    /\ UNCHANGED <<dir, sig, writes, faults>>

SealWrite(s) ==
    /\ seal[s].pc = "write"
    /\ mf' \in Written(mf, ManifestOf(s))
    /\ seal' = Others(s, [seal[s] EXCEPT !.pc = "open sig"])
    /\ ver' = Unsteady
    /\ sealed' = None
    /\ UNCHANGED <<dir, sig, signed, writes, faults>>

SealOpenSignature(s) ==
    /\ seal[s].pc = "open sig"
    /\ sig' = Opened(sig)
    /\ seal' = Others(s, [seal[s] EXCEPT !.pc = "write sig"])
    /\ ver' = Unsteady
    /\ sealed' = None
    /\ UNCHANGED <<dir, mf, signed, writes, faults>>

SealWriteSignature(s) ==
    /\ seal[s].pc = "write sig"
    /\ sig' \in Written(sig, Sign(ManifestOf(s)))
    /\ seal' = Others(s, [seal[s] EXCEPT !.pc = "done"])
    /\ ver' = Unsteady
    /\ sealed' = IF seal[s].steady THEN s ELSE None
    /\ UNCHANGED <<dir, mf, signed, writes, faults>>
-------------------------------------------------------------------------------
(* The manifest is read once: the same bytes are authenticated and decoded. *)
VerifyRead(v) ==
    /\ ver[v].pc = "idle"
    /\ ver' = [ver EXCEPT ![v] =
          [pc |-> IF mf = No("absent") THEN "refused" ELSE "signature", rest |-> {},
           files |-> {}, mf |-> mf, steady |-> TRUE,
           due |-> sealed # None /\ KeyOf[sealed] \in Trusted]]
    /\ UNCHANGED <<artifact, seal, signed, sealed, writes, faults>>

(* Seeded fault: the signature of any key will do.                         *)
Authenticated_AnyKey(v) == ver[v].mf.what = "manifest" /\ sig = Sign(ver[v].mf)

Authenticated(v) ==
    /\ ver[v].mf.what = "manifest"
    /\ sig = Sign(ver[v].mf)
    /\ KeyOf[sig.by] \in Trusted

VerifySignature(v) ==
    /\ ver[v].pc = "signature"
    /\ ver' = [ver EXCEPT ![v].pc = IF Authenticated(v) THEN "list" ELSE "refused"]
    /\ UNCHANGED <<artifact, seal, signed, sealed, writes, faults>>

VerifyList(v) ==
    /\ ver[v].pc = "list"
    /\ ver' = [ver EXCEPT ![v].pc = "hash", ![v].rest = Listed]
    /\ UNCHANGED <<artifact, seal, signed, sealed, writes, faults>>

VerifyHash(v) ==
    LET p == Min(ver[v].rest) IN
    /\ ver[v].pc = "hash" /\ ver[v].rest # {}
    /\ ver' = IF Regular(p)
              THEN [ver EXCEPT ![v].rest = @ \ {p}, ![v].files = Collected(@, p)]
              ELSE [ver EXCEPT ![v].pc = "refused"]
    /\ UNCHANGED <<artifact, seal, signed, sealed, writes, faults>>

(* Seeded fault: only what the manifest lists is looked at.                *)
EqualFiles_Subset(v) == ver[v].mf.files \subseteq ver[v].files

EqualFiles(v) == ver[v].mf.files = ver[v].files

VerifyCompare(v) ==
    /\ ver[v].pc = "hash" /\ ver[v].rest = {}
    /\ ver' = [ver EXCEPT ![v].pc = IF EqualFiles(v) THEN "accepted" ELSE "refused"]
    /\ UNCHANGED <<artifact, seal, signed, sealed, writes, faults>>
-------------------------------------------------------------------------------
(* A context that ends, an I/O error, a kill: what was written stays.      *)
SealFails(s) ==
    /\ seal[s].pc \notin {"idle", "done", "failed"}
    /\ Fault
    /\ seal' = [seal EXCEPT ![s].pc = "failed"]
    /\ UNCHANGED <<artifact, ver, signed, sealed, writes>>

VerifyFails(v) ==
    /\ ver[v].pc \notin {"idle", "accepted", "refused", "failed"}
    /\ Fault
    /\ ver' = [ver EXCEPT ![v].pc = "failed"]
    /\ UNCHANGED <<artifact, seal, signed, sealed, writes>>

(* The pipeline changes a file of the payload, ...                         *)
Disturb ==
    /\ writes < MaxWrites /\ writes' = writes + 1
    /\ seal' = [s \in Sealers |-> [seal[s] EXCEPT !.steady = FALSE]]
    /\ ver' = Unsteady
    /\ sealed' = None
    /\ UNCHANGED <<signed, faults>>

Build ==
    /\ \E p \in Paths, c \in Contents \cup {Absent, Link} :
          dir[p] # c /\ dir' = [dir EXCEPT ![p] = c]
    /\ Disturb
    /\ UNCHANGED <<mf, sig>>

(* ... or ships the two sealed files, of which one may stay behind or be   *)
(* that of another seal.                                                   *)
Transport ==
    /\ mf' \in signed \cup {No("absent"), mf}
    /\ sig' \in {Sign(m) : m \in signed} \cup {No("absent"), sig}
    /\ <<mf', sig'>> # <<mf, sig>>
    /\ Disturb
    /\ UNCHANGED dir

Seal(s) ==
    \/ SealList(s) \/ SealHash(s) \/ SealOpen(s) \/ SealWrite(s) \/ SealOpenSignature(s)
    \/ SealWriteSignature(s) \/ SealFails(s)

VerifyAny(v) ==
    \/ VerifyRead(v) \/ VerifySignature(v) \/ VerifyList(v) \/ VerifyHash(v)
    \/ VerifyCompare(v) \/ VerifyFails(v)

Next ==
    \/ \E s \in Sealers : Seal(s)
    \/ \E v \in Verifiers : VerifyAny(v)
    \/ Build \/ Transport

Spec == Init /\ [][Next]_vars
-------------------------------------------------------------------------------
TypeOK ==
    /\ dir \in [Paths -> Contents \cup {Absent, Link}]
    /\ mf \in Bytes /\ sig \in Bytes
    /\ seal \in [Sealers -> Sealing]
    /\ ver \in [Verifiers -> Verifying]
    /\ signed \in SUBSET Bytes
    /\ sealed \in Sealers \cup {None}
    /\ writes \in Nat /\ faults \in Nat

(* What was sealed undisturbed, and not touched since, is never refused:   *)
(* not for what an earlier seal, cut short anywhere, has left behind, nor  *)
(* for which of the trusted keys signed it (Seal, VerifyAny).  Names that  *)
(* are not UTF-8 are the exception: the JSON cannot hold them.             *)
SealThenVerify ==
    \A v \in Verifiers :
        ver[v].due /\ ver[v].steady /\ ver[v].pc = "refused" => Listed \cap Mangled # {}
===============================================================================
