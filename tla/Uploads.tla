----------------------------------- MODULE Uploads ---------------------------------
(* storage/upload.rs: the fields of one multipart request, read one after the other,   *)
(* judged by what their bytes are and written under a name of the server's own. A file *)
(* is the signatures that its bytes carry, its size, and for an SVG what is in it; a   *)
(* name is the extension at its end.                                                   *)
EXTENDS Integers, FiniteSetsExt, SequencesExt

CONSTANTS MaxFields,  \* bound: fields of a request
          MaxFiles,   \* UploadConfig.max_files
          MaxSize     \* UploadConfig.max_file_size

UploadAssumption == MaxFields \in Nat /\ MaxFiles \in Nat /\ MaxSize \in Nat \ {0}

VARIABLES allowed,  \* AllowedMimes
          request,  \* the fields that were not read yet
          upload,   \* where the handler is
          disk      \* name -> the field written under it, whole or in part

uploads == <<allowed, request, upload, disk>>

-----------------------------------------------------------------------------------
(* AllowedMimes. A signature is bytes at an offset. *)

Entry(mime, extensions, magic) == [mime |-> mime, extensions |-> extensions, magic |-> magic]
Signature(offset, bytes) == <<offset, bytes>>

Images == <<Entry("image/jpeg", <<"jpg", "jpeg">>, {Signature(0, "FFD8FF")}),
            Entry("image/webp", <<"webp">>, {Signature(0, "RIFF"), Signature(8, "WEBP")})>>
ImagesWithSvg == Append(Images, Entry("image/svg+xml", <<"svg">>, {}))
Documents == <<Entry("application/pdf", <<"pdf">>, {Signature(0, "%PDF")}),
               Entry("text/plain", <<"txt">>, {})>>
AllMedia == Images \o <<Entry("video/mp4", <<"mp4">>, {Signature(4, "ftyp")}),
                        Entry("audio/mpeg", <<"mp3">>, {Signature(0, "FFFB"), Signature(0, "ID3")})>>

Entries == {allowed[i] : i \in DOMAIN allowed}

find_entry(mime) == {e \in Entries : e.mime = mime}

(* The first entry all of whose signatures the file carries. *)
Detected_Any(file) ==
    LET hits == {i \in DOMAIN allowed : allowed[i].magic \intersect file.signatures # {}}
    IN  IF hits = {} THEN "none" ELSE allowed[Min(hits)].mime

Detected(file) ==
    LET hits == {i \in DOMAIN allowed : allowed[i].magic # {} /\ allowed[i].magic \subseteq file.signatures}
    IN  IF hits = {} THEN "none" ELSE allowed[Min(hits)].mime

(* What validate_svg_content finds once references are decoded and blanks are dropped. *)
SafeSvg(file) == file.holds \intersect {"element", "handler", "scheme", "entity", "not utf8"} = {}

(* The type that is believed: what was detected, or what was claimed where nothing can *)
(* be detected.                                                                        *)
Believed(file, claimed) ==
    CASE Detected(file) # "none" -> Detected(file)
      [] Detected(file) = "none" /\ \E e \in find_entry(claimed) : e.magic = {} -> claimed
      [] OTHER -> "refused"

(* The client's extension if it is one of the type's, else the type's first. *)
Extension(mime, extension) ==
    LET entry == CHOOSE e \in find_entry(mime) : TRUE
    IN  IF extension \in ToSet(entry.extensions) THEN extension ELSE entry.extensions[1]

-----------------------------------------------------------------------------------
(* The files a client may send: every combination of signatures at offsets that do not *)
(* overlap with other bytes, however it is named and declared.                         *)

File(signatures, size, holds) == [signatures |-> signatures, size |-> size, holds |-> holds]

Files == {File({Signature(0, first)}, 1, {}) : first \in {"FFD8FF", "%PDF", "FFFB", "ID3", "RIFF"}}
           \union {File({Signature(0, "RIFF"), Signature(8, "WEBP")}, 1, {}),
                   File({Signature(0, "RIFF"), Signature(4, "ftyp"), Signature(8, "WEBP")}, 1, {}),
                   File({Signature(4, "ftyp")}, MaxSize + 1, {}), File({}, 0, {}),
                   File({}, 1, {}), File({}, 1, {"element"}), File({}, 1, {"handler"})}

Declared == {"image/jpeg", "image/svg+xml", "text/plain", "application/octet-stream"}

Field(file, claimed, extension) == [file |-> file, claimed |-> claimed, extension |-> extension]

Name(i, extension) == <<i, extension>>   \* a UUID of its own for each file

Reading == [at |-> "reading", files |-> <<>>, tries |-> 0]

Init == /\ allowed \in {Images, ImagesWithSvg, Documents, AllMedia}
        /\ request = 0 /\ upload = Reading /\ disk = [n \in {} |-> 0]

Refuse == upload' = [upload EXCEPT !.at = "refused"] /\ UNCHANGED <<allowed, disk>>

(* next_field and everything up to the write. The files written before stay.           *)
NextField(field) ==
    /\ upload.at = "reading" /\ request < MaxFields
    /\ request' = request + 1
    /\ LET mime == Believed(field.file, field.claimed) IN
       IF \/ Len(upload.files) >= MaxFiles
          \/ field.file.size > MaxSize \/ field.file.size = 0
          \/ mime = "refused"
          \/ mime = "image/svg+xml" /\ ~SafeSvg(field.file)
       THEN Refuse
       ELSE /\ upload' = [at |-> "writing", files |-> upload.files, tries |-> upload.tries + 1,
                          field |-> field, mime |-> mime,
                          name |-> Name(upload.tries + 1, Extension(mime, field.extension))]
            /\ UNCHANGED <<allowed, disk>>

(* The connection breaks or a boundary is missing. *)
BadField == /\ upload.at = "reading" /\ request < MaxFields /\ Refuse /\ UNCHANGED request

CreateDirFails == upload.at = "writing" /\ Refuse /\ UNCHANGED request

(* tokio::fs::write creates the file, then fills it: it may stop between the two.      *)
CreateFile == /\ upload.at = "writing" /\ upload.name \notin DOMAIN disk
              /\ disk' = [n \in DOMAIN disk \union {upload.name} |->
                              IF n = upload.name THEN [field |-> upload.field, whole |-> FALSE]
                              ELSE disk[n]]
              /\ UNCHANGED <<allowed, request, upload>>

WriteFails == upload.at = "writing" /\ upload.name \in DOMAIN disk /\ Refuse /\ UNCHANGED request

Listed_First == Append(upload.files, [name |-> Name(1, upload.name[2]), mime |-> upload.mime,
                                      size |-> upload.field.file.size])
Listed == Append(upload.files, [name |-> upload.name, mime |-> upload.mime,
                                size |-> upload.field.file.size])

Write == /\ upload.at = "writing" /\ upload.name \in DOMAIN disk
         /\ disk' = [disk EXCEPT ![upload.name].whole = TRUE]
         /\ upload' = [at |-> "reading", files |-> Listed, tries |-> upload.tries]
         /\ UNCHANGED <<allowed, request>>

EndOfRequest == /\ upload.at = "reading"
                /\ upload' = [upload EXCEPT !.at = "answered"]
                /\ UNCHANGED <<allowed, request, disk>>

Next == \/ \E file \in Files, claimed \in Declared, extension \in {"jpg", "exe", "svg"} :
               NextField(Field(file, claimed, extension))
        \/ BadField \/ CreateDirFails \/ CreateFile \/ WriteFails \/ Write \/ EndOfRequest

Spec == Init /\ [][Next]_uploads

-----------------------------------------------------------------------------------
(* Properties. *)

TypeOK == /\ upload.at \in {"reading", "writing", "refused", "answered"}
          /\ request \in 0 .. MaxFields /\ Len(upload.files) <= MaxFiles

(* A file that the handler stored is what its name and its type say, whatever the      *)
(* client declared: it carries every signature of the type, and its extension is the   *)
(* type's. What cannot be told from the bytes was declared by the client and allowed.  *)
StoredIsWhatItIsCalled ==
    \A i \in DOMAIN upload.files :
        LET stored == upload.files[i]
            field == disk[stored.name].field
        IN  /\ \E e \in find_entry(stored.mime) :
                   /\ e.magic \subseteq field.file.signatures
                   /\ stored.name[2] \in ToSet(e.extensions)
                   /\ e.magic = {} => field.claimed = e.mime
            /\ stored.mime = "image/svg+xml" => SafeSvg(field.file)
            /\ stored.size = field.file.size /\ field.file.size \in 1 .. MaxSize

(* An answer lists every file that the request left on the disk, once and whole; a     *)
(* refused request leaves at most one file that is not whole and names none.           *)
AnswerIsTheDisk ==
    LET listed == {upload.files[i].name : i \in DOMAIN upload.files} IN
    /\ Cardinality(listed) = Len(upload.files)
    /\ \A name \in listed : name \in DOMAIN disk /\ disk[name].whole
    /\ upload.at \in {"reading", "answered"} => DOMAIN disk = listed
    /\ Cardinality(DOMAIN disk \ listed) <= 1
==================================================================================
