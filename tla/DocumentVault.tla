---------------------------- MODULE DocumentVault ----------------------------
(***************************************************************************)
(* DocumentStorageService over its four collaborators: the encryption      *)
(* service with the keys of KeyStore, the object store, the document rows  *)
(* and the audit trail, whose payloads are encrypted with the same keys.   *)
(* Rows and events are in the database. The object store that kyc.module   *)
(* wires in is a map in memory. An action is a call's step to its next     *)
(* await; recordEvent(), whose own awaits AuditChain has, is one step.     *)
(***************************************************************************)
EXTENDS KeyStore

CONSTANTS
  Documents,  \* bound on the documents ever uploaded: their ids
  Calls,      \* service calls in flight at a time
  None        \* no document, no row

Rows == [isActive : BOOLEAN, envelope : Envelopes]

ASSUME VaultAssumption == None \notin Documents /\ None \notin Rows

VARIABLES
  objects,   \* the ids of the documents whose ciphertext is stored
  rows,      \* documents: a row per document, or None
  trail,     \* audit_events: what they record, and their envelopes
  call,      \* per call: the operation, the await it is at, its locals
  forgotten  \* history: the rows that were there when a process ended

vaultVars == <<keyVars, objects, rows, trail, call, forgotten>>

EventTypes == {"DocumentUploaded", "DocumentDecrypted", "DocumentMetadataViewed",
               "DocumentDeactivated"}

NoEnvelope == [version |-> 0, key |-> 0]

Idle == [records |-> "nothing", at |-> "idle", document |-> None, envelope |-> NoEnvelope]

VaultInit ==
  /\ KeyStoreInit
  /\ objects = {} /\ rows = [d \in Documents |-> None] /\ trail = {}
  /\ call = [c \in Calls |-> Idle]
  /\ forgotten = {}

\* encryptDocument(): the ciphertext carries what is needed to open it.
EncryptDocument == WrapDek

\* decryptDocument()
Opens(envelope) == OpensWith(keks, envelope)

Begin(c, eventType, at, d, envelope) ==
  /\ running /\ call[c] = Idle
  /\ call' = [call EXCEPT ![c] =
       [records |-> eventType, at |-> at, document |-> d, envelope |-> envelope]]
  /\ UNCHANGED <<keyVars, objects, rows, trail, forgotten>>

At(c, place) == call[c].at = place
GoesOn(c, place) == call' = [call EXCEPT ![c].at = place]

\* uploadDocument() up to putObject(). The id is fresh: randomUUID().
StartUpload(c, d) ==
  /\ rows[d] = None /\ d \notin objects
  /\ \A b \in Calls : call[b].document # d
  /\ Begin(c, "DocumentUploaded", "putObject", d, EncryptDocument)

\* getDocument(): an inactive document is denied.
StartRead(c, d) ==
  /\ rows[d] # None /\ rows[d].isActive
  /\ Begin(c, "DocumentDecrypted", "getObject", d, rows[d].envelope)

\* getDocumentMetadata(): an inactive document is shown.
StartMetadata(c, d) ==
  /\ rows[d] # None
  /\ Begin(c, "DocumentMetadataViewed", "recordEvent", d, NoEnvelope)

\* Variant: the entity is deactivated and never saved.
StartDeactivateUnsaved(c, d) ==
  /\ rows[d] # None
  /\ Begin(c, "DocumentDeactivated", "recordEvent", d, rows[d].envelope)

\* deactivateDocument() up to save().
StartDeactivate(c, d) ==
  /\ rows[d] # None
  /\ Begin(c, "DocumentDeactivated", "save", d, rows[d].envelope)

\* Variant: putObject() is not awaited, and may fail unnoticed.
PutObjectUnawaited(c) ==
  /\ At(c, "putObject")
  /\ objects' \in {objects, objects \cup {call[c].document}}
  /\ GoesOn(c, "save")
  /\ UNCHANGED <<keyVars, rows, trail, forgotten>>

PutObject(c) ==
  /\ At(c, "putObject")
  /\ objects' = objects \cup {call[c].document}
  /\ GoesOn(c, "save")
  /\ UNCHANGED <<keyVars, rows, trail, forgotten>>

\* save(): an upload creates the row, a deactivation updates isActive only.
SaveDocument(c) ==
  LET d == call[c].document IN
  /\ At(c, "save")
  /\ \/ /\ rows[d] = None
        /\ rows' = [rows EXCEPT ![d] = [isActive |-> TRUE, envelope |-> call[c].envelope]]
     \/ /\ rows[d] # None
        /\ rows' = [rows EXCEPT ![d].isActive = FALSE]
  /\ GoesOn(c, "recordEvent")
  /\ UNCHANGED <<keyVars, objects, trail, forgotten>>

GetObject(c) ==
  /\ At(c, "getObject") /\ call[c].document \in objects
  /\ GoesOn(c, "decryptDocument")
  /\ UNCHANGED <<keyVars, objects, rows, trail, forgotten>>

DecryptDocument(c) ==
  /\ At(c, "decryptDocument") /\ Opens(call[c].envelope)
  /\ GoesOn(c, "recordEvent")
  /\ UNCHANGED <<keyVars, objects, rows, trail, forgotten>>

\* recordEvent(), with which every operation ends.
RecordEvent(c) ==
  /\ At(c, "recordEvent")
  /\ trail' = trail \cup {[eventType |-> call[c].records, document |-> call[c].document,
                           envelope |-> EncryptDocument]}
  /\ call' = [call EXCEPT ![c] = Idle]
  /\ UNCHANGED <<keyVars, objects, rows, forgotten>>

\* Whatever is awaited rejects, an object or a key is missing, Document.create()
\* refuses an empty file: the operation throws and undoes nothing.
CallFails(c) ==
  /\ call[c] # Idle
  /\ call' = [call EXCEPT ![c] = Idle]
  /\ UNCHANGED <<keyVars, objects, rows, trail, forgotten>>

\* The process ends: the map of the object store goes with it, the rows stay.
Crash ==
  /\ ProcessEnds
  /\ call' = [c \in Calls |-> Idle]
  /\ objects' = {}
  /\ forgotten' = {d \in Documents : rows[d] # None}
  /\ UNCHANGED <<rows, trail>>

KeySteps ==
  /\ CreateKeyStore \/ LoadKeyStore \/ RotateKek \/ DeleteKeyStore
  /\ UNCHANGED <<objects, rows, trail, call, forgotten>>

VaultNext ==
  \/ \E c \in Calls :
       \/ \E d \in Documents :
            StartUpload(c, d) \/ StartRead(c, d) \/ StartMetadata(c, d) \/ StartDeactivate(c, d)
       \/ PutObject(c) \/ SaveDocument(c) \/ GetObject(c) \/ DecryptDocument(c)
       \/ RecordEvent(c) \/ CallFails(c)
  \/ KeySteps
  \/ Crash

VaultSpec == VaultInit /\ [][VaultNext]_vaultVars

-----------------------------------------------------------------------------
(***************************************************************************)
(* Properties                                                              *)
(***************************************************************************)

\* Types; a process that runs has a current key, whichever file it started from.
VaultTypeOK ==
  /\ running \in BOOLEAN /\ unsaved \in BOOLEAN /\ lost \in BOOLEAN
  /\ generated \in Nat
  /\ keks \in Seq(Nat)
  /\ file \in [content : {"none", "damaged", "json"}, currentVersion : Nat, keks : Seq(Nat)]
  /\ currentVersion \in Nat
  /\ running => currentVersion \in 1..Len(keks)
  /\ objects \subseteq Documents /\ forgotten \subseteq Documents
  /\ rows \in [Documents -> Rows \cup {None}]
  /\ trail \subseteq [eventType : EventTypes, document : Documents, envelope : Envelopes]
  /\ call \in [Calls -> [records : EventTypes \cup {"nothing"},
                         at : {"idle", "putObject", "save", "getObject", "decryptDocument",
                               "recordEvent"},
                         document : Documents \cup {None}, envelope : Envelopes]]

\* While a process runs, every document and every audit event in the database
\* can be decrypted, across rotations, failing writes of the key file that a
\* later one makes good, and restarts: unless a process ended with a key that
\* it could not save, or the key file was deleted.
EnvelopesOpen ==
  running /\ ~lost =>
    /\ \A d \in Documents : rows[d] # None => Opens(rows[d].envelope)
    /\ \A e \in trail : Opens(e.envelope)

\* However uploads interleave and wherever they fail, a row that this process
\* saved has its object: the object is stored before the row. (The objects of
\* earlier processes are gone, their rows are not.)
RowHasObject ==
  \A d \in Documents : rows[d] # None => d \in objects \cup forgotten

\* The trail says nothing that did not happen: an event is about a document that
\* has a row, and a document whose deactivation is recorded is inactive.
TrailIsTruthful ==
  \A e \in trail :
    /\ rows[e.document] # None
    /\ e.eventType = "DocumentDeactivated" => ~rows[e.document].isActive

\* A file that persist() wrote to the end is not, in the words of the error
\* text, `malformed or from an incompatible version'.
WrittenFileLoads == file.content = "json" => Loadable

=============================================================================
