------------------------------ MODULE Uploads -------------------------------
(***************************************************************************)
(* The upload of a document: its text is extracted, the original and the   *)
(* text are put into the bucket, and the text is cut into chunks, embedded *)
(* and indexed.  Three best-effort steps, each of which may fail with or   *)
(* without effect, all of them on the event loop of the task.              *)
(*                                                                         *)
(* A text is the sequence of its paragraphs, of which the lengths matter.  *)
(* The bucket and the collection are external and shared: the provisioner  *)
(* may seed the collection anew at any time.                               *)
(***************************************************************************)
EXTENDS Login, SequencesExt

CONSTANTS
    Texts,          \* documents, as the lengths of their paragraphs
    ChunkMax,       \* max_chars of _chunk_text
    Separator,      \* the length of what joins two paragraphs
    MaxUploads      \* bound: uploads

ASSUME UploadsAssumption ==
    Texts \subseteq Seq(Nat) /\ ChunkMax \in Nat /\ Separator \in Nat /\ MaxUploads \in Nat

Uploaded == 1..MaxUploads
NoUpload == 0

VARIABLES
    loop,       \* per task, the upload that holds the event loop
    uploads,    \* per upload: its task, its text, where its handler is, and
                \* whether it has a text_key
    bucket,     \* the uploads whose extracted text is in the bucket
    mapping,    \* the index of the collection: none; mapped, as the
                \* provisioner creates it; dynamic, as writing to none does
    index,      \* per upload, its chunks in it
    told,       \* per upload, the answer: textKey and indexed
    outdated,   \* history: uploads whose text has expired
    wiped       \* history: uploads whose chunks went with a dropped index

storage    == <<bucket, mapping, index, outdated, wiped>>
uploadVars == <<loop, uploads, told, storage>>

NotYet == [at |-> "none"]
NoAnswer == [status |-> 0]

UploadInit ==
    /\ loop = [t \in Tasks |-> NoUpload]
    /\ uploads = [u \in Uploaded |-> NotYet]
    /\ bucket = {} /\ mapping = "mapped" /\ index = [u \in Uploaded |-> {}]
    /\ told = [u \in Uploaded |-> NoAnswer]
    /\ outdated = {} /\ wiped = {}

-----------------------------------------------------------------------------
(***************************************************************************)
(* _chunk_text: chunks of whole paragraphs, each chunk a sequence of       *)
(* positions of paragraphs.                                                *)
(***************************************************************************)

Length(text, chunk) ==
    LET upTo[n \in 0..Len(chunk)] ==
            IF n = 0 THEN -Separator ELSE upTo[n - 1] + Separator + text[chunk[n]]
    IN  upTo[Len(chunk)]

(* Mutant: the separator is not counted. *)
FitsTight(text, chunk, p) == Length(text, chunk) + text[p] <= ChunkMax

Fits(text, chunk, p) == Length(text, chunk) + text[p] + Separator <= ChunkMax

(* The paragraph p is added to the last chunk, or begins one. *)
Added(text, chunks, p) ==
    IF chunks # <<>> /\ Fits(text, Last(chunks), p)
    THEN [chunks EXCEPT ![Len(chunks)] = Append(@, p)]
    ELSE Append(chunks, <<p>>)

Chunks(text) ==
    LET first[n \in 0..Len(text)] ==
            IF n = 0 THEN <<>> ELSE Added(text, first[n - 1], n)
    IN  first[Len(text)]

-----------------------------------------------------------------------------
(***************************************************************************)
(* The handler.  Up to the extraction of the text it awaits; from there to *)
(* its answer it holds the event loop.                                     *)
(***************************************************************************)

Free(t) == loop[t] = NoUpload

SendUpload(u, t, text, session) ==
    /\ uploads[u].at = "none" /\ \A v \in Uploaded : v < u => uploads[v].at # "none"
    /\ uploads' = [uploads EXCEPT ![u] = [at |-> "sent", task |-> t, text |-> text,
                                          session |-> session, key |-> FALSE]]
    /\ UNCHANGED <<loop, told, storage>>

Goes(u, where) == uploads' = [uploads EXCEPT ![u].at = where] /\ UNCHANGED <<loop, told>>

Replies(u, answer) ==
    /\ uploads' = [uploads EXCEPT ![u].at = "answered"]
    /\ told' = [told EXCEPT ![u] = answer]
    /\ loop' = [t \in Tasks |-> IF loop[t] = u THEN NoUpload ELSE loop[t]]

Refuses(u, status) == Replies(u, [status |-> status]) /\ UNCHANGED storage

(* No session, or one that does not verify; no file, or one of another type,*)
(* unreadable, without a text, or too large (which is 413).                 *)
Upload(u) ==
    /\ uploads[u].at = "sent" /\ Free(uploads[u].task)
    /\ \/ Refuses(u, 401)
       \/ uploads[u].session /\ Refuses(u, 400)
       \/ /\ uploads[u].session /\ uploads[u].text # <<>>
          /\ loop' = [loop EXCEPT ![uploads[u].task] = u]
          /\ uploads' = [uploads EXCEPT ![u].at = "original"]
          /\ UNCHANGED <<told, storage>>

StoreInS3(u) ==             \* nobody reads the original, or its key
    /\ uploads[u].at = "original" /\ Goes(u, "text") /\ UNCHANGED storage

StoreTextInS3(u) ==
    /\ uploads[u].at = "text"
    /\ \E key \in BOOLEAN :
        /\ bucket' \in IF key THEN {bucket \cup {u}} ELSE {bucket, bucket \cup {u}}
        /\ uploads' = [uploads EXCEPT ![u].at = "embed", ![u].key = key]
    /\ UNCHANGED <<loop, told, mapping, index, outdated, wiped>>

Done(u, indexed) ==
    Replies(u, [status |-> 200, textKey |-> uploads[u].key, indexed |-> indexed])

EmbedChunks(u) ==           \* all of them, before any is sent
    /\ uploads[u].at = "embed"
    /\ Goes(u, "bulk") \/ Done(u, FALSE)
    /\ UNCHANGED storage

(* The bulk request may index some of the chunks, or all, and raise. *)
IndexInOpenSearch(u) ==
    /\ uploads[u].at = "bulk"
    /\ LET all == ToSet(Chunks(uploads[u].text)) IN
       \E some \in SUBSET all :
        /\ mapping' \in IF mapping = "none" /\ some # {} THEN {"dynamic"}
                       ELSE {mapping}
        /\ index' = [index EXCEPT ![u] = some]
        /\ \/ some = all /\ Done(u, TRUE)
           \/ Done(u, FALSE)
    /\ UNCHANGED <<bucket, outdated, wiped>>

Ingest(u) ==
    \/ Upload(u) \/ StoreInS3(u) \/ StoreTextInS3(u) \/ EmbedChunks(u)
    \/ IndexInOpenSearch(u)

-----------------------------------------------------------------------------
(***************************************************************************)
(* Around it                                                               *)
(***************************************************************************)

(* The lifecycle rule of the bucket, days later. *)
Expire(u) ==
    /\ u \in bucket /\ uploads[u].at \in {"answered", "lost"}
    /\ bucket' = bucket \ {u} /\ outdated' = outdated \cup {u}
    /\ UNCHANGED <<loop, uploads, told, mapping, index, wiped>>

DropIndex ==               \* the provisioner, seeding anew
    /\ mapping' = "none"
    /\ index' = [u \in Uploaded |-> {}]
    /\ wiped' = wiped \cup {u \in Uploaded : index[u] # {}}
    /\ UNCHANGED <<loop, uploads, told, bucket, outdated>>

CreateIndex ==
    /\ mapping = "none" /\ mapping' = "mapped"
    /\ UNCHANGED <<loop, uploads, told, bucket, index, outdated, wiped>>

(* A task ends in the middle of its uploads. *)
LoseUploads(t) ==
    /\ uploads' = [u \in Uploaded |->
                     IF uploads[u].at \notin {"none", "answered", "lost"}
                        /\ uploads[u].task = t
                     THEN [uploads[u] EXCEPT !.at = "lost"] ELSE uploads[u]]
    /\ loop' = [loop EXCEPT ![t] = NoUpload]
    /\ UNCHANGED <<told, storage>>

-----------------------------------------------------------------------------
(* The answer to an upload is true on every task, after restarts and        *)
(* seedings: a textKey is that of a text that can be fetched until it       *)
(* expires; indexed means that, as long as the collection has the index it  *)
(* was told of, with its mapping, the agent can find each paragraph in      *)
(* exactly one chunk, and no chunk of several is over the limit.            *)
FindsAll(text, chunks) ==
    /\ \A p \in DOMAIN text : Cardinality({c \in chunks : p \in Range(c)}) = 1
    /\ \A c \in chunks : Len(c) > 1 => Length(text, c) <= ChunkMax

AnswerIsTrue ==
    \A u \in Uploaded :
        told[u].status = 200 =>
            /\ told[u].textKey => u \in bucket \cup outdated
            /\ told[u].indexed /\ u \notin wiped /\ mapping = "mapped" =>
                  FindsAll(uploads[u].text, index[u])
=============================================================================
