------------------------------- MODULE KeyStore -------------------------------
(***************************************************************************)
(* LocalFileKms: the key encryption keys (KEKs) of one process, and the    *)
(* file that outlives it. Version vN of the code is the number N; rotation *)
(* names the next version after the number of keys it has, so that the     *)
(* versions in memory are 1..Len(keks). A key is a number too: randomBytes *)
(* never gives the same key twice. No use case rotates keys; the module    *)
(* says what the class promises to whoever does.                           *)
(***************************************************************************)
EXTENDS Integers, Sequences

CONSTANT MaxKeys  \* bound on the keys ever generated

ASSUME KeysAssumption == MaxKeys \in Nat

VARIABLES
  running,         \* is there a process?
  keks,            \* its keksByVersion
  currentVersion,  \* its currentVersion
  file,            \* the key store file
  generated,       \* history: the number of keys generated so far
  unsaved,         \* history: did this process's latest persist() throw?
  lost             \* history: has a key been given up that nothing can restore?

keyVars == <<running, keks, currentVersion, file, generated, unsaved, lost>>

Undefined == 0

NoFile == [content |-> "none", currentVersion |-> Undefined, keks |-> <<>>]
Damaged == [content |-> "damaged", currentVersion |-> Undefined, keks |-> <<>>]

KeyStoreInit ==
  /\ running = FALSE /\ keks = <<>> /\ currentVersion = Undefined
  /\ file = NoFile
  /\ generated = 0
  /\ unsaved = FALSE /\ lost = FALSE

\* What persist() writes. JSON.stringify() leaves out what is undefined.
Written(version, keys) == [content |-> "json", currentVersion |-> version, keks |-> keys]

\* persist() throws: before the file is opened, or after it was truncated. A
\* process that dies in the middle of the write is this and then Crash.
WriteFails == unsaved' = TRUE /\ file' \in {file, Damaged}

NewKey == generated + 1

\* What loadOrCreateKeyStore() accepts of a file that exists.
Loadable ==
  /\ file.content = "json"
  /\ file.currentVersion # Undefined
  /\ file.keks # <<>>

\* The first start. The constructor assigns currentVersion only after the file
\* has been written: what is written has none. When persist() throws, so does
\* the constructor, and the process does not come up.
CreateKeyStore ==
  /\ ~running /\ file.content = "none" /\ generated < MaxKeys
  /\ generated' = NewKey
  /\ \/ /\ file' = Written(Undefined, <<NewKey>>)
        /\ running' = TRUE /\ keks' = <<NewKey>> /\ currentVersion' = 1
     \/ /\ file' \in {file, Damaged}
        /\ UNCHANGED <<running, keks, currentVersion>>
  /\ UNCHANGED <<unsaved, lost>>

\* Variant: the file is taken for complete when it has keys.
LoadKeyStoreUnchecked ==
  /\ ~running /\ file.content = "json" /\ file.keks # <<>>
  /\ running' = TRUE
  /\ keks' = file.keks /\ currentVersion' = file.currentVersion
  /\ UNCHANGED <<file, generated, unsaved, lost>>

\* A later start. With a file that is not Loadable the constructor throws.
LoadKeyStore ==
  /\ ~running /\ Loadable
  /\ running' = TRUE
  /\ keks' = file.keks /\ currentVersion' = file.currentVersion
  /\ UNCHANGED <<file, generated, unsaved, lost>>

\* Variant: rotateKek() persists before the new key is in the map.
RotateKekPersistingFirst ==
  /\ running /\ generated < MaxKeys
  /\ generated' = NewKey
  /\ keks' = Append(keks, NewKey) /\ currentVersion' = Len(keks) + 1
  /\ file' = Written(currentVersion, keks) /\ unsaved' = FALSE
  /\ UNCHANGED <<running, lost>>

\* rotateKek(): the new key is current in memory, whether or not it is saved.
RotateKek ==
  /\ running /\ generated < MaxKeys
  /\ generated' = NewKey
  /\ keks' = Append(keks, NewKey) /\ currentVersion' = Len(keks) + 1
  /\ \/ file' = Written(currentVersion', keks') /\ unsaved' = FALSE
     \/ WriteFails
  /\ UNCHANGED <<running, lost>>

\* The process ends, with what it had in memory.
ProcessEnds ==
  /\ running
  /\ running' = FALSE /\ keks' = <<>> /\ currentVersion' = Undefined
  /\ unsaved' = FALSE
  /\ lost' = (lost \/ unsaved)
  /\ UNCHANGED <<file, generated>>

\* The operator does what the error texts of the constructor advise.
DeleteKeyStore ==
  /\ ~running /\ file.content # "none" /\ ~Loadable
  /\ file' = NoFile
  /\ lost' = TRUE
  /\ UNCHANGED <<running, keks, currentVersion, generated, unsaved>>

-----------------------------------------------------------------------------

\* What an encrypted DEK depends on: the version that is stored with it, by which
\* unwrapDek() finds a key, and the key that it was wrapped with.
Envelopes == [version : Nat, key : Nat]

WrapDek == [version |-> currentVersion, key |-> keks[currentVersion]]

\* Does unwrapDek() succeed with these keys? It throws when there is no key of
\* the version, and when the key is another one (GCM authentication).
OpensWith(keys, envelope) ==
  /\ envelope.version \in 1..Len(keys)
  /\ keys[envelope.version] = envelope.key

=============================================================================
