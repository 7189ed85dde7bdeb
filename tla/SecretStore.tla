---------------------------- MODULE SecretStore -----------------------------
(***************************************************************************)
(* The master key and the encrypted secrets (crypto/master_key.rs,         *)
(* adapters/secrets/encrypted.rs, init_secrets of main.rs).  The key is a  *)
(* file written in place at the first start; the secrets are rows of a     *)
(* database of their own, each sealed under the key of the process that    *)
(* wrote it.  Both outlive the process; the rows are synced to the disk    *)
(* when they are committed, the key file when the system gets to it.       *)
(***************************************************************************)
EXTENDS Nothing

CONSTANTS
    Keys,         \* what the random number generator can give; never the same twice
    SecretNames,  \* (project, name) of a secret
    Values

\* A key file whose length is not KEY_LEN.
Damaged == "damaged"

\* A blob: what encrypt makes of a value.
Sealed == [key : Keys, plain : Values]

ASSUME SecretAssumption ==
    None \notin Keys \cup Values \cup {Damaged} \cup Sealed /\ Damaged \notin Keys

VARIABLES
    keyFile,  \* master.key: None, Damaged or a key
    cipher,   \* the key of the running process, or None
    secrets,  \* secrets[n]: the blob in secrets.db, or None
    synced,   \* what keyFile says is on the disk, not only in memory
    \* history
    drawn,    \* keys generated so far
    lostKeys, \* keys that were in the file and that a power cut has taken
    lastSet   \* lastSet[n]: the value of the last successful set not followed by a delete, or None

secretVars == <<keyFile, cipher, secrets, synced, drawn, lostKeys, lastSet>>

----------------------------------------------------------------------------
(* AES-256-GCM: a blob opens with the key it was sealed with; with any     *)
(* other the tag does not match and decrypt answers an error.              *)

encrypt(k, v) == [key |-> k, plain |-> v]

DecryptionFailed == "decryption failed"

decrypt(k, blob) == IF blob.key = k THEN blob.plain ELSE DecryptionFailed

get(n) == IF secrets[n] = None THEN None ELSE decrypt(cipher, secrets[n])

SecretTypeOK ==
    /\ keyFile \in Keys \cup {None, Damaged}
    /\ cipher  \in Keys \cup {None}
    /\ secrets \in [SecretNames -> Sealed \cup {None}]
    /\ synced  \in BOOLEAN
    /\ drawn   \subseteq Keys /\ lostKeys \subseteq Keys
    /\ lastSet \in [SecretNames -> Values \cup {None}]

SecretInit ==
    /\ keyFile = None /\ cipher = None /\ synced = TRUE
    /\ drawn = {} /\ lostKeys = {}
    /\ secrets = [n \in SecretNames |-> None]
    /\ lastSet = [n \in SecretNames |-> None]

----------------------------------------------------------------------------
(* init_secrets *)

\* Slip: the start does not look whether there is a key.
AlwaysAbsent == TRUE

\* key_path.exists() is false
KeyAbsent == keyFile = None

\* Slip: the key is written back on every start.
RewriteKey ==
    /\ keyFile \in Keys
    /\ \/ cipher' = keyFile /\ UNCHANGED keyFile
       \/ keyFile' = Damaged /\ UNCHANGED cipher
    /\ synced' = FALSE
    /\ UNCHANGED <<secrets, drawn, lostKeys, lastSet>>

\* load_key
LoadKey ==
    /\ ~KeyAbsent /\ keyFile \in Keys
    /\ cipher' = keyFile
    /\ UNCHANGED <<keyFile, secrets, synced, drawn, lostKeys, lastSet>>

\* generate_key: fs::write syncs nothing.
GenerateKey ==
    /\ KeyAbsent
    /\ \E k \in Keys \ drawn : drawn' = drawn \cup {k} /\ keyFile' = k /\ cipher' = k
    /\ synced' = FALSE
    /\ UNCHANGED <<secrets, lostKeys, lastSet>>

\* generate_key does not come to its end and the start is given up: nothing was
\* written, the file was cut short, or only its permissions could not be set.
GenerateKeyFails ==
    /\ KeyAbsent
    /\ \E k \in Keys \ drawn : drawn' = drawn \cup {k} /\ keyFile' \in {keyFile, Damaged, k}
    /\ synced' = (keyFile' = None)
    /\ UNCHANGED <<cipher, secrets, lostKeys, lastSet>>

\* load_key refuses a file of the wrong length.
RefuseKey ==
    /\ ~KeyAbsent /\ keyFile = Damaged
    /\ UNCHANGED secretVars

\* The system writes the file back to the disk.
KeySynced ==
    /\ ~synced
    /\ synced' = TRUE
    /\ UNCHANGED <<keyFile, cipher, secrets, drawn, lostKeys, lastSet>>

----------------------------------------------------------------------------
(* The calls of a running store.  A failed statement changes nothing.      *)

set(n, v) ==
    /\ cipher # None
    /\ secrets' = [secrets EXCEPT ![n] = encrypt(cipher, v)]
    /\ lastSet' = [lastSet EXCEPT ![n] = v]
    /\ UNCHANGED <<keyFile, cipher, synced, drawn, lostKeys>>

delete(n) ==
    /\ cipher # None
    /\ secrets' = [secrets EXCEPT ![n] = None]
    /\ lastSet' = [lastSet EXCEPT ![n] = None]
    /\ UNCHANGED <<keyFile, cipher, synced, drawn, lostKeys>>

\* The process ends; the system keeps what was written.
SecretCrash ==
    /\ cipher' = None
    /\ UNCHANGED <<keyFile, secrets, synced, drawn, lostKeys, lastSet>>

\* The machine loses its power: a file that was not synced may be missing or short
\* afterwards; the committed rows are there.
SecretPowerCut ==
    /\ cipher'   = None
    /\ keyFile'  \in IF synced THEN {keyFile} ELSE {None, Damaged, keyFile}
    /\ synced'   = TRUE
    /\ lostKeys' = lostKeys \cup ((Keys \cap {keyFile}) \ {keyFile'})
    /\ UNCHANGED <<secrets, drawn, lastSet>>

----------------------------------------------------------------------------
(* Properties *)

\* The key this blob was sealed with is gone from the disk.
KeyLost(n) == secrets[n] # None /\ secrets[n].key \in lostKeys

\* A running store gives back every secret as it was last set, by this process or
\* by any before it, unless a power cut took the key of that secret.
SecretsReadable == cipher # None => \A n \in SecretNames : get(n) = lastSet[n] \/ KeyLost(n)

\* A damaged key file, which every later start refuses, guards no secret that could be
\* had otherwise: it comes from a first start, or a power cut has taken its key already.
\* Deleting it loses nothing more.
DamagedKeyGuardsNothing ==
    keyFile = Damaged => \A n \in SecretNames : secrets[n] = None \/ KeyLost(n)

=============================================================================
