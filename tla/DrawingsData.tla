----------------------------- MODULE DrawingsData -----------------------------
(***************************************************************************)
(* The values service-drawings handles and the pure functions it applies   *)
(* to them: the uploaded file and its read position, SHA-256 digests, the  *)
(* recorded filename, the S3 object with its user metadata, and the HTTP   *)
(* answers (app/core/drawings.py, app/core/validation.py, app/main.py).    *)
(*                                                                         *)
(* A definition whose name starts with Bad is a wrong variant of the       *)
(* definition that follows it. No specification uses it; it is there to    *)
(* show which property a bug at that place breaks (PROJECT.json, mutants). *)
(***************************************************************************)
EXTENDS Integers, FiniteSets

CONSTANTS
    Drawing,    \* drawing ids (UUIDs); a drawing's S3 key is drawings/<id>.kmz
    Admin,      \* admin ids (UUIDs)
    Content,    \* the contents a client may send
    Zip,        \* those that start with the ZIP magic bytes
    Name,       \* usable client filenames
    None,       \* an absent value
    Garbled     \* a recorded timestamp that fromisoformat() rejects

-------------------------------------------------------------------------------
(* The spooled upload. Only three read positions matter: the start, just   *)
(* after the four magic bytes, and the end.                                *)

Start == 0
AfterMagic == 1
Eof == 2

Position == {Start, AfterMagic, Eof}
File == [content : Content, pos : Position]

\* The bytes of a content from a position to the end.
Bytes == [content : Content, from : Position]

\* A hexadecimal SHA-256 digest: what it was computed over and its letter case.
Digest == [of : Bytes, case : {"lower", "upper"}]

Lower(sha256) == [sha256 EXCEPT !.case = "lower"]

Whole(content) == [content |-> content, from |-> Start]

Received(content) == [content |-> content, pos |-> Start]

Rest(file) == [content |-> file.content, from |-> file.pos]

\* await file.seek(0)
Rewind(file) == [file EXCEPT !.pos = Start]

\* read(4), seek(0), then the comparison with the magic bytes.
ValidateKmz(file) ==
    [ok   |-> file.pos = Start /\ file.content \in Zip,
     file |-> Rewind([file EXCEPT !.pos = AfterMagic])]

BadValidateDigest(file, sha256) ==
    [ok   |-> Lower(sha256) = [of |-> Rest(file), case |-> "lower"],
     file |-> [file EXCEPT !.pos = Eof]]

\* hashlib.file_digest() reads to the end, tell() gives the size, seek(0);
\* the computed digest is lowercase and the client's is lowered.
ValidateDigest(file, sha256) ==
    [ok   |-> Lower(sha256) = [of |-> Rest(file), case |-> "lower"],
     file |-> Rewind([file EXCEPT !.pos = Eof])]

-------------------------------------------------------------------------------
(* The recorded filename. It is stored percent-encoded, and a client name  *)
(* that is absent or only path syntax (None) is replaced by "<id>.kmz",    *)
(* which the id itself stands for.                                         *)

ShownName == Name \cup Drawing
StoredName == [quoted : ShownName]

EncodeFilename(name, d) == [quoted |-> IF name = None THEN d ELSE name]

DecodeFilename(value) == IF value = None THEN None ELSE value.quoted

\* The name get_drawing() puts into the Content-Disposition header.
DownloadName(value, d) ==
    IF DecodeFilename(value) = None THEN d ELSE DecodeFilename(value)

-------------------------------------------------------------------------------
(* The S3 object: the body and the five entries of the user metadata, each *)
(* of which an object the service did not write itself may lack.           *)

\* Timestamps count from the moment the model starts; earlier ones are <= 0.
Stamp == Int \cup {None, Garbled}

Object == [body     : Bytes,
           sha256   : Digest \cup {None},
           admin    : Admin \cup {None},
           name     : StoredName \cup {None},
           created  : Stamp,
           modified : Stamp]

\* head_drawing() treats an object with no user metadata at all as an error.
NoMetadata(o) ==
    /\ o.sha256 = None
    /\ o.admin = None
    /\ o.name = None
    /\ o.created = None
    /\ o.modified = None

BadAuthorized(o, a) == TRUE

\* _authorize(): a missing admin-id reads as "", which no UUID equals.
Authorized(o, a) == o.admin = a

BadSameContent(o, sha256) == o.sha256 # None

SameContent(o, sha256) ==
    /\ o.sha256 # None
    /\ Lower(o.sha256) = Lower(sha256)

Parsable(stamp) == stamp \in Int

-------------------------------------------------------------------------------
(* The client's upload form, and what one request carries.                 *)

Upload == [content : Content, sha256 : Digest, name : Name \cup {None}]

Operation == {"create", "get", "metadata", "check", "update", "delete"}

\* The operations that require the Swissgeo-Admin-Id header.
Guarded == {"check", "update", "delete"}

Input == [op      : Operation,
          drawing : Drawing \cup {None},
          admin   : Admin \cup {None},
          upload  : Upload \cup {None}]

-------------------------------------------------------------------------------
(* Answers. kind tells a success, an error with the {"detail"} body of the *)
(* exception handlers of main.py, the plain-text 500 of an exception that  *)
(* no handler is registered for, and a response cut off after its status.  *)

Report == [name     : ShownName \cup {None},
           body     : Bytes \cup {None},
           created  : Stamp,
           modified : Stamp]

Answer == [status : {200, 201, 204, 400, 401, 403, 404, 500},
           kind   : {"ok", "detail", "plain", "aborted"},
           report : Report \cup {None}]

Ok(status, report) == [status |-> status, kind |-> "ok", report |-> report]
Detail(status) == [status |-> status, kind |-> "detail", report |-> None]

InvalidKMZ == Detail(400)
DigestMismatch == Detail(400)
MissingCredentials == Detail(401)
AdminIdMismatch == Detail(403)
DrawingNotFound == Detail(404)
StorageFailed == Detail(500)
Unhandled == [status |-> 500, kind |-> "plain", report |-> None]
Aborted == [status |-> 200, kind |-> "aborted", report |-> None]

\* What update_drawing() and create_drawing() check before anything is
\* written: the refusal, if there is one, and the file as it is left.
Validate(upload) ==
    LET kmz    == ValidateKmz(Received(upload.content))
        digest == ValidateDigest(kmz.file, upload.sha256)
    IN  [refusal |-> IF ~kmz.ok THEN InvalidKMZ
                     ELSE IF ~digest.ok THEN DigestMismatch ELSE None,
         file    |-> digest.file]

\* The object upload_drawing() sends: the file from its read position on,
\* with the metadata of create_drawing() and update_drawing().
NewObject(upload, file, d, a, created, now) ==
    [body     |-> Rest(file),
     sha256   |-> Lower(upload.sha256),
     admin    |-> a,
     name     |-> EncodeFilename(upload.name, d),
     created  |-> created,
     modified |-> now]

BadUpdatedObject(upload, file, d, a, o, now) ==
    NewObject(upload, file, d, a, now, now)

BadSwappedObject(upload, file, d, a, o, now) ==
    [NewObject(upload, file, d, a, now, now) EXCEPT !.modified = o.created]

\* What update_drawing() sends when it has read o: the creation time is o's.
UpdatedObject(upload, file, d, a, o, now) ==
    NewObject(upload, file, d, a, o.created, now)

\* _build_update_response(): both timestamps are parsed, outside any try.
UpdateResponse(o) ==
    IF Parsable(o.created) /\ Parsable(o.modified)
    THEN Ok(200, [name |-> None, body |-> None,
                  created |-> o.created, modified |-> o.modified])
    ELSE Unhandled

BadMetadataResponse(o) ==
    IF Parsable(o.created) /\ Parsable(o.modified)
    THEN Ok(200, [name |-> DecodeFilename(o.name), body |-> None,
                  created |-> o.modified, modified |-> o.created])
    ELSE StorageFailed

\* get_drawing_metadata(): unusable timestamps are raised as S3Error.
MetadataResponse(o) ==
    IF Parsable(o.created) /\ Parsable(o.modified)
    THEN Ok(200, [name |-> DecodeFilename(o.name), body |-> None,
                  created |-> o.created, modified |-> o.modified])
    ELSE StorageFailed

\* Sentinels are told apart from every value they stand in for.
ASSUME DataAssumption ==
    /\ Zip \subseteq Content
    /\ Name \cap Drawing = {}
    /\ None # Garbled
    /\ None \notin Drawing \cup Admin \cup Name
    /\ None \notin Int /\ Garbled \notin Int
    /\ None \notin Object /\ None \notin Digest /\ None \notin StoredName
    /\ None \notin Upload /\ None \notin Input
    /\ None \notin Report /\ None \notin Answer
===============================================================================
