----------------------------- MODULE SettingsStore -----------------------------
(***************************************************************************)
(* The API key of config/store.py and config/secrets.py: the token in      *)
(* settings.json, and the passphrase and the cipher the program keeps in   *)
(* memory.  The endpoints that write the key run on the event loop; unlock *)
(* runs in a thread, because deriving a key from a passphrase is slow, and *)
(* anything may run between the token it reads and the fields it sets.     *)
(* A token is told by what opens it: a passphrase, this computer, or       *)
(* another one the folder was copied from.                                 *)
(***************************************************************************)

CONSTANTS
  Passphrases,  \* what the teacher may type
  NoPassphrase

ASSUME SettingsAssumption ==
  /\ NoPassphrase \notin Passphrases
  /\ {"absent", "computer", "elsewhere"} \cap (Passphrases \cup {NoPassphrase}) = {}

VARIABLES
  token,       \* api_key in settings.json
  passphrase,  \* _passphrase
  cipher,      \* secrets
  unlocking,   \* the passphrase a thread has tried and not set yet
  unsaved,     \* history: a key could not be protected or written
  overtaken    \* history: the key changed while a thread was unlocking it

settingsVars == <<token, passphrase, cipher, unlocking, unsaved, overtaken>>

SettingsType ==
  /\ token \in {"absent", "computer", "elsewhere"} \cup Passphrases
  /\ passphrase \in Passphrases \cup {NoPassphrase}
  /\ cipher \in {"computer"} \cup Passphrases
  /\ unlocking \in Passphrases \cup {NoPassphrase}
  /\ unsaved \in BOOLEAN
  /\ overtaken \in BOOLEAN

SettingsInit ==
  /\ token \in {"absent", "computer", "elsewhere"} \cup Passphrases
  /\ passphrase = NoPassphrase
  /\ cipher = "computer"
  /\ unlocking = NoPassphrase
  /\ unsaved = FALSE /\ overtaken = FALSE

RequiresPassphrase == token \in Passphrases
Unlocked == RequiresPassphrase => passphrase # NoPassphrase

\* get_api_key, and unprotect behind it: a token that does not open is logged
\* and reported as no key.
KeyRead ==
  IF token = "absent" THEN "none"
  ELSE IF RequiresPassphrase /\ passphrase = NoPassphrase THEN "asks"
  ELSE IF token = cipher THEN "key" ELSE "unreadable"

\* create_secret_store: a passphrase always wins.
CipherFor(p) == IF p = NoPassphrase THEN "computer" ELSE p

-----------------------------------------------------------------------------
\* set_api_key, with a passphrase or without: the fields change first, and
\* protect or the file may fail after them.
SetKey(p) ==
  /\ IF p # NoPassphrase
       THEN passphrase' = p /\ cipher' = CipherFor(p)
       ELSE /\ UNCHANGED passphrase
            /\ cipher' = IF passphrase = NoPassphrase THEN CipherFor(p) ELSE cipher
  /\ \/ token' = cipher' /\ UNCHANGED unsaved
     \/ unsaved' = TRUE /\ UNCHANGED token
  /\ overtaken' = (overtaken \/ unlocking # NoPassphrase)
  /\ UNCHANGED unlocking

\* clear_api_key and lock
ClearKey ==
  /\ token # "absent"
  /\ token' = "absent"
  /\ passphrase' = NoPassphrase
  /\ cipher' = "computer"
  /\ overtaken' = (overtaken \/ unlocking # NoPassphrase)
  /\ UNCHANGED <<unlocking, unsaved>>

\* Fault: unlock does not try the passphrase on the token.
UnlockAnyway(p) ==
  /\ unlocking = NoPassphrase
  /\ unlocking' = p
  /\ UNCHANGED <<token, passphrase, cipher, unsaved, overtaken>>

\* unlock reads the token and tries the passphrase; with no key stored there is
\* nothing to try.  A passphrase that does not open it changes nothing.
UnlockTries(p) ==
  /\ unlocking = NoPassphrase
  /\ token \in {"absent", p}
  /\ unlocking' = p
  /\ UNCHANGED <<token, passphrase, cipher, unsaved, overtaken>>

UnlockSets ==
  /\ unlocking # NoPassphrase
  /\ passphrase' = unlocking
  /\ cipher' = CipherFor(unlocking)
  /\ unlocking' = NoPassphrase
  /\ UNCHANGED <<token, unsaved, overtaken>>

\* The file is replaced, never half written, so a restart finds it whole.
SettingsRestart ==
  /\ passphrase' = NoPassphrase
  /\ cipher' = "computer"
  /\ unlocking' = NoPassphrase
  /\ unsaved' = FALSE /\ overtaken' = FALSE
  /\ UNCHANGED token

SettingsRequests ==
  \/ \E p \in Passphrases \cup {NoPassphrase} : SetKey(p)
  \/ ClearKey
  \/ \E p \in Passphrases : UnlockTries(p)
  \/ UnlockSets

-----------------------------------------------------------------------------
(* Properties *)

\* A key saved on this computer that the settings say is unlocked can be read:
\* no sequence of saving, clearing, unlocking and restarting leaves the program
\* with a cipher that does not open the key on disk.  The exceptions are a save
\* that failed after it changed the fields (store.py:117-129) and an unlock
\* overtaken by a save (store.py:71-72), which is retried by nobody: the
\* program then behaves as if there were no key.
UnlockedKeyIsRead ==
  Unlocked /\ ~unsaved /\ ~overtaken => KeyRead # "unreadable" \/ token = "elsewhere"
==============================================================================
