------------------------------ MODULE MediaObjects ------------------------------
(***************************************************************************)
(* One media object of a WhatsApp message: its registration, the upload of *)
(* its bytes and the links that show it (app/services/media.py,            *)
(* app/api/media.py).                                                      *)
(*                                                                         *)
(* An upload holds the row while it waits for the virus scanner and for    *)
(* the object storage; what it rejects or quarantines it marks and then    *)
(* rolls back with the error, so that the row stays as it was.             *)
(***************************************************************************)
CONSTANTS
    Contents,    \* bytes the operator may upload for the message
    Infected,    \* those of them a scanner finds a virus in
    Invalid,     \* those too large or of a type that cannot be validated
    Scanner,     \* whether a scanner is configured (media_antivirus_backend)
    FailClosed,  \* media_antivirus_fail_closed
    Uploads,     \* uploads that can be in flight together
    Idle

ASSUME ContentsAreSorted == Infected \subseteq Contents /\ Invalid \subseteq Contents
ASSUME ScannerIsBoolean == Scanner \in BOOLEAN /\ FailClosed \in BOOLEAN
ASSUME IdleIsNoContent == Idle \notin Contents

VARIABLES
    object,  \* the row of media_objects: status and the content of storage_key
    stored,  \* contents in the object storage
    upload,  \* the transactions that hold the row
    grant,   \* an access grant of the owner
    shown    \* history: contents a grant or a signed URL has led to

objectVars == <<object, stored, upload, grant, shown>>

ObjectStatus == {"none", "pending", "ready"}

UploadStep == [content : Contents, at : {"locked", "scanned", "stored"}]

ObjectInit ==
    /\ object = [status |-> "none", content |-> Idle]
    /\ stored = {}
    /\ upload = [u \in Uploads |-> Idle]
    /\ grant = "none"
    /\ shown = {}

-----------------------------------------------------------------------------
(* Mistakes the properties are tested against.                             *)

AdmitsUnscanned(verdict) == verdict # "infected"

-----------------------------------------------------------------------------

\* The row lock of an upload; an insert that refers to the row waits for it too.
RowUnlocked == \A u \in Uploads : upload[u] = Idle

\* register_inbound_media; the operator may report a message again.
Register ==
    /\ RowUnlocked
    /\ object' = [object EXCEPT !.status = IF @ = "none" THEN "pending" ELSE @]
    /\ UNCHANGED <<stored, upload, grant, shown>>

\* inbound_bytes as far as the lock.
UploadLocks(u, c) ==
    /\ object.status # "none" /\ RowUnlocked
    /\ upload' = [upload EXCEPT ![u] = [content |-> c, at |-> "locked"]]
    /\ UNCHANGED <<object, stored, grant, shown>>

At(u, step) == upload[u] # Idle /\ upload[u].at = step

\* sniff_mime and the limits of size.
Validated(c) == c \notin Invalid

\* _scan_bytes: what the scanner may say of a content.
Verdicts(c) ==
    IF Scanner THEN {"unavailable", IF c \in Infected THEN "infected" ELSE "clean"}
    ELSE {"clean"}

Admitted(verdict) == verdict = "clean" \/ (verdict = "unavailable" /\ ~FailClosed)

UploadScanned(u) ==
    /\ At(u, "locked")
    /\ Validated(upload[u].content)
    /\ \E verdict \in Verdicts(upload[u].content) : Admitted(verdict)
    /\ upload' = [upload EXCEPT ![u].at = "scanned"]
    /\ UNCHANGED <<object, stored, grant, shown>>

\* _store_object, outside the transaction.
UploadStores(u) ==
    /\ At(u, "scanned")
    /\ stored' = stored \cup {upload[u].content}
    /\ upload' = [upload EXCEPT ![u].at = "stored"]
    /\ UNCHANGED <<object, grant, shown>>

\* The update of store_media_bytes and the commit.
UploadCommits(u) ==
    /\ At(u, "stored")
    /\ object' = [status |-> "ready", content |-> upload[u].content]
    /\ upload' = [upload EXCEPT ![u] = Idle]
    /\ UNCHANGED <<stored, grant, shown>>

\* A rejection, a quarantine, a failure of the storage or a crash: the
\* transaction is rolled back, a content in the storage stays.
UploadFails(u) ==
    /\ upload[u] # Idle
    /\ upload' = [upload EXCEPT ![u] = Idle]
    /\ UNCHANGED <<object, stored, grant, shown>>

\* create_access_grant, asked for by the owner through grant_media.
GrantAccess ==
    /\ object.status = "ready" /\ RowUnlocked
    /\ grant' = "open"
    /\ UNCHANGED <<object, stored, upload, shown>>

GrantExpires ==
    /\ grant = "open"
    /\ grant' = "expired"
    /\ UNCHANGED <<object, stored, upload, shown>>

\* authorize_grant.
Authorised == grant = "open" /\ object.status = "ready"

\* media_content: the file, or a signed URL of the storage.
Serve ==
    /\ Authorised
    /\ shown' = shown \cup {object.content}
    /\ UNCHANGED <<object, stored, upload, grant>>

ObjectNext ==
    \/ Register
    \/ \E u \in Uploads :
        \/ \E c \in Contents : UploadLocks(u, c)
        \/ UploadScanned(u) \/ UploadStores(u) \/ UploadCommits(u) \/ UploadFails(u)
    \/ GrantAccess \/ GrantExpires \/ Serve

-----------------------------------------------------------------------------

ObjectTypeOK ==
    /\ object \in [status : ObjectStatus, content : Contents \cup {Idle}]
    /\ stored \in SUBSET Contents
    /\ upload \in [Uploads -> UploadStep \cup {Idle}]
    /\ grant \in {"none", "open", "expired"}
    /\ shown \in SUBSET Contents

\* README_V23.md:14 and media_antivirus_fail_closed: whatever is uploaded, again
\* and concurrently, a link or the analysis only ever leads to a content that is
\* in the storage and was validated, and never to an infected one while a scanner
\* is configured and fails closed (store_media_bytes, media_content,
\* _media_signed_url).
OnlyValidIsShown ==
    /\ shown \subseteq stored \ Invalid
    /\ Scanner /\ FailClosed => shown \cap Infected = {}
=============================================================================
