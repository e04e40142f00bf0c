---------------------------- MODULE FileTransfer ----------------------------
(***************************************************************************)
(* Files of the card, through the web server: upload, download, delete,    *)
(* rename, create.  The page (www/app.js) sends one request at a time; the *)
(* one httpd task carries it to the main board call by call (host_comm.c), *)
(* and between two calls other tasks use the same link: one may reset the  *)
(* board's session (reconnect_to_host), the panel may list the directory.  *)
(*                                                                         *)
(* A file is a sequence of tagged numbers.  The body of an upload is the   *)
(* multipart header in three pieces (the fileSize field, the file name,    *)
(* the blank line), the file, and the closing boundary.  The body arrives  *)
(* in pieces of any size.  The board is external: it keeps one session,    *)
(* opens the file at START and answers FINISH with the hash of what it     *)
(* stored, which stands here for the content itself.                       *)
(***************************************************************************)
EXTENDS Naturals, Sequences, FiniteSets

CONSTANTS Names,       \* names of files
          Sizes,       \* sizes of the files the page sends
          OldSize,     \* size of the file that is on the card at first
          ChunkSize,   \* PANEL_FILE_CHUNK_SIZE
          Word,        \* the counters of bytes are unsigned, modulo Word
          MaxRequests, \* bound: requests of the page
          MaxMishaps   \* bound: kinds of mishaps in a run

ASSUME SizesAssumption == Word \in Nat /\ Sizes \cup {OldSize} \subseteq 0..(Word - 1)
ASSUME ChunkAssumption == ChunkSize \in Nat /\ ChunkSize > 3
ASSUME NamesAssumption == Names # {}
ASSUME BoundsAssumption == MaxRequests \in Nat /\ MaxMishaps \in Nat

VARIABLES
  request,  \* what the page asked last
  page,     \* what the page made of the answer; "waiting" before it
  copy,     \* what the page has of a download
  body,     \* what httpd has not read of the request's body
  pc,       \* where the handler is
  first,    \* the piece of the body the header is parsed in
  size,     \* actual_file_size, or the file_size of a download
  moved,    \* bytes_received, or bytes_sent
  index,    \* chunk_index
  answer,   \* the board's answer to the last call
  board,    \* the card, and the session the board has open
  listed,   \* the names in the panel's cached listing
  loaded,   \* disc_list_loaded
  listing,  \* refresh_directory_list: whether it runs, what it has yet to ask for
  requests, \* requests so far, for the bound
  mishaps,  \* history: what went wrong that is no fault of the panel's
  overtook  \* history: the request's invalidation came while the panel listed

cache   == <<listed, loaded, listing, overtook>>
counts  == <<size, moved, index>>
vars    == <<request, page, copy, body, pc, first, counts, answer, board,
             cache, requests, mishaps>>

File(tag, n) == [i \in 1..n |-> <<tag, i>>]
Header       == File("header", 3)
Body(n)      == Header \o File("data", n) \o File("boundary", 1)

NoRequest == [kind |-> "none", name |-> CHOOSE n \in Names : TRUE, to |-> CHOOSE n \in Names : TRUE,
              size |-> 0, checked |-> FALSE]
NoAnswer  == [ret |-> FALSE, ok |-> FALSE, data |-> <<>>]
NoListing == [busy |-> FALSE, left |-> {}]
Closed    == [mode |-> "none", name |-> NoRequest.name]

Init ==
  /\ request = NoRequest /\ page = "idle" /\ copy = <<>> /\ body = <<>>
  /\ pc = "idle" /\ first = <<>> /\ size = 0 /\ moved = 0 /\ index = 0
  /\ answer = NoAnswer
  /\ board = [card |-> [n \in {NoRequest.name} |-> File("old", OldSize)], session |-> Closed]
  /\ listed = {NoRequest.name} /\ loaded = TRUE /\ listing = NoListing /\ overtook = FALSE
  /\ requests = 0 /\ mishaps = {}

(***************************************************************************)
(* The board: what each command makes of it, and what it answers.          *)
(***************************************************************************)
Least(a, b) == IF a < b THEN a ELSE b
Stored(b, name, content) ==
  [b EXCEPT !.card = [n \in DOMAIN b.card \cup {name} |->
                        IF n = name THEN content ELSE b.card[n]]]
Without(b, name) == [b EXCEPT !.card = [n \in DOMAIN b.card \ {name} |-> b.card[n]]]
Said(b, ok, data) == [board |-> b, answer |-> [ret |-> TRUE, ok |-> ok, data |-> data]]
Denied(b) == [board |-> b, answer |-> NoAnswer]
Open(b, mode) == b.session.mode = mode /\ b.session.name \in DOMAIN b.card
Content(b) == b.card[b.session.name]

StartUpload(b) ==
  Said([Stored(b, request.to, <<>>) EXCEPT !.session = [mode |-> "write", name |-> request.to]],
       TRUE, <<>>)

WriteChunk(b, data) ==
  IF Open(b, "write") THEN Said(Stored(b, b.session.name, Content(b) \o data), TRUE, <<>>)
                      ELSE Denied(b)

FinishUpload(b) ==
  IF Open(b, "write") THEN Said([b EXCEPT !.session = Closed], TRUE, Content(b))
                      ELSE Said(b, FALSE, <<>>)

StartDownload(b) ==
  IF request.name \in DOMAIN b.card
  THEN Said([b EXCEPT !.session = [mode |-> "read", name |-> request.name]],
            TRUE, b.card[request.name])
  ELSE Said(b, FALSE, <<>>)

ReadChunk(b, i) ==
  IF Open(b, "read")
  THEN Said(b, TRUE, SubSeq(Content(b), i * ChunkSize + 1,
                            Least((i + 1) * ChunkSize, Len(Content(b)))))
  ELSE Denied(b)

PathOp(b) ==
  LET there == request.name \in DOMAIN b.card
      taken == request.to \in DOMAIN b.card
  IN  CASE request.kind = "delete" /\ there -> Said(Without(b, request.name), TRUE, <<>>)
        [] request.kind = "rename" /\ there /\ ~taken ->
             Said(Without(Stored(b, request.to, b.card[request.name]), request.name), TRUE, <<>>)
        [] request.kind = "create" /\ ~there -> Said(Stored(b, request.name, <<>>), TRUE, <<>>)
        [] OTHER -> Said(b, FALSE, <<>>)

Mishap(kind) ==
  /\ Cardinality(mishaps \cup {kind}) <= MaxMishaps
  /\ mishaps' = mishaps \cup {kind}

(* What the board makes of a command.                                      *)
Runs(b, command, arg) ==
  CASE command = "start_upload"   -> StartUpload(b)
    [] command = "write_chunk"    -> WriteChunk(b, arg)
    [] command = "finish_upload"  -> FinishUpload(b)
    [] command = "start_download" -> StartDownload(b)
    [] command = "read_chunk"     -> ReadChunk(b, arg)
    [] command = "path"           -> PathOp(b)

(* One call of host_comm.c: the command is run and answered; or refused by *)
(* the board; or not run, or run without an answer, and the call fails; or *)
(* sent again by the I2C driver after an acknowledgement was lost, and run *)
(* twice.                                                                  *)
Call(command, arg) ==
  LET once  == Runs(board, command, arg)
      twice == Runs(once.board, command, arg)
  IN
  \/ board' = once.board /\ answer' = once.answer /\ UNCHANGED mishaps
  \/ board' = twice.board /\ answer' = twice.answer /\ Mishap("resent")
  \/ board' = board /\ answer' = [NoAnswer EXCEPT !.ret = TRUE] /\ Mishap("refused")
  \/ board' = board /\ answer' = NoAnswer /\ Mishap("lost")
  \/ board' = once.board /\ answer' = NoAnswer /\ Mishap("late")

At(l)   == pc = l
Goes(l) == pc' = l
Quiet   == UNCHANGED <<request, requests>>

(***************************************************************************)
(* httpd_req_recv: any piece of what was sent; nothing at the end of the   *)
(* body or after the page has gone.                                        *)
(***************************************************************************)
Gone == page = "gone"
NothingComes == Gone \/ body = <<>>
Receives(n) == n \in 1..Len(body) /\ ~Gone /\ body' = SubSeq(body, n + 1, Len(body))

(***************************************************************************)
(* The page.  checked: uploadFile, which compares hashes; not checked:     *)
(* saveConfig and the upload of the main board's firmware, which do not.   *)
(***************************************************************************)
Asks(kind, name, to, n, checked, at) ==
  /\ At("idle") /\ page # "waiting" /\ requests < MaxRequests
  /\ request' = [kind |-> kind, name |-> name, to |-> to, size |-> n, checked |-> checked]
  /\ requests' = requests + 1 /\ page' = "waiting" /\ copy' = <<>>
  /\ body' = IF kind = "upload" THEN Body(n) ELSE <<>>
  /\ size' = 0 /\ moved' = 0 /\ index' = 0 /\ first' = <<>> /\ answer' = NoAnswer
  /\ Goes(at)
  /\ UNCHANGED <<board, cache, mishaps>>

AsksUpload == \E name \in Names, n \in Sizes, checked \in BOOLEAN :
  Asks("upload", name, name, n, checked, "parse")
AsksDownload == \E name \in Names : Asks("download", name, name, 0, FALSE, "open")
AsksPathOp == \E kind \in {"delete", "rename", "create"}, name, to \in Names :
  /\ (kind = "rename") = (name # to)
  /\ Asks(kind, name, to, 0, FALSE, "path")

Leaves ==
  /\ page = "waiting" /\ Mishap("gone") /\ page' = "gone"
  /\ UNCHANGED <<request, copy, body, pc, first, counts, answer, board, cache, requests>>

(* What the page makes of an answer.  Bytes nobody read when the handler   *)
(* fails make httpd drop the socket, and the answer is never seen.         *)
Sees(verdict) == page' = IF Gone THEN "gone" ELSE verdict
Failing == Sees(IF body = <<>> THEN "failed" ELSE "network_error")

(***************************************************************************)
(* handle_file_upload                                                      *)
(***************************************************************************)
(* upload_error: the rest of the body is read before the answer.           *)
UploadError == Goes("drain") /\ UNCHANGED <<request, requests, page, copy, first, counts, cache>>

Drains_Forever ==
  /\ At("drain") /\ ~Gone
  /\ \/ \E n \in 1..Len(body) : Receives(n)
     \/ body = <<>> /\ UNCHANGED body
  /\ UNCHANGED <<page, pc, copy, first, counts, answer, board, cache, mishaps>> /\ Quiet
Drains ==
  /\ At("drain")
  /\ \/ /\ \E n \in 1..Len(body) : Receives(n)
        /\ UNCHANGED <<page, pc>>
     \/ NothingComes /\ Failing /\ Goes("idle") /\ UNCHANGED body
  /\ UNCHANGED <<copy, first, counts, answer, board, cache, mishaps>> /\ Quiet

NoUpload ==
  /\ At("parse")
  /\ \/ NothingComes /\ UNCHANGED mishaps
     \/ Mishap("memory")
  /\ UploadError /\ UNCHANGED <<body, answer, board>>

(* parse_upload_multipart_header: both fields must be in the first piece.  *)
(* One that is cut inside the file name is searched beyond its end, in     *)
(* whatever the allocated buffer held: no name is found, or another one.   *)
ParsesHeader ==
  /\ At("parse")
  /\ \E n \in 1..ChunkSize :
       /\ Receives(n)
       /\ first' = SubSeq(body, 1, n)
       /\ \/ n >= 2 /\ Goes("start") /\ size' = request.size /\ UNCHANGED request
          \/ n < 2 /\ Goes("drain") /\ UNCHANGED <<size, request>>
          \/ /\ n < 2 /\ Goes("start") /\ size' = request.size
             /\ \E name \in Names : request' = [request EXCEPT !.to = name]
  /\ UNCHANGED <<page, copy, moved, index, answer, board, cache, requests, mishaps>>

(* host_comm_start_file_upload and host_comm_write_file_chunk have no code *)
(* of the board's to look at: it worked or it did not.                     *)
Works == answer'.ret /\ answer'.ok
Went(l) == Works /\ Goes(l) /\ UNCHANGED <<page, copy, first, size, index, cache>> /\ Quiet
UploadFails == ~Works /\ UploadError

StartsUpload ==
  /\ At("start") /\ Call("start_upload", <<>>)
  /\ \/ Went("first") /\ UNCHANGED moved
     \/ UploadFails
  /\ UNCHANGED body

FirstData_Uncapped == SubSeq(first, 4, Len(first))
FirstData == SubSeq(first, 4, Least(Len(first), 3 + size))

(* The bytes after the blank line, if it is in the first piece and         *)
(* something follows it.  A chunk without a byte is an invalid argument.   *)
NoFirstChunk_Empty ==
  /\ At("first")
  /\ \/ Len(first) < 3 /\ Goes("more") /\ UNCHANGED <<request, requests, page, copy, first, counts, cache>>
     \/ Len(first) >= 3 /\ FirstData = <<>> /\ UploadError
  /\ UNCHANGED <<body, answer, board, mishaps>>
NoFirstChunk ==
  /\ At("first")
  /\ \/ Len(first) <= 3 /\ Goes("more") /\ UNCHANGED <<request, requests, page, copy, first, counts, cache>>
     \/ Len(first) > 3 /\ FirstData = <<>> /\ UploadError
  /\ UNCHANGED <<body, answer, board, mishaps>>

WritesFirstChunk ==
  /\ At("first") /\ FirstData # <<>>
  /\ Call("write_chunk", FirstData)
  /\ \/ Went("more") /\ moved' = Len(FirstData)
     \/ UploadFails
  /\ UNCHANGED body

Remaining == (size + Word - moved) % Word

(* One turn of the loop: a piece of the body, written as it came.          *)
WritesChunk ==
  /\ At("more") /\ Remaining > 0
  /\ \E n \in 1..Least(Remaining, ChunkSize) :
       /\ Receives(n)
       /\ Call("write_chunk", SubSeq(body, 1, n))
       /\ \/ Went("more") /\ moved' = (moved + n) % Word
          \/ UploadFails

ChunkMissing ==
  /\ At("more") /\ Remaining > 0 /\ NothingComes
  /\ UploadError /\ UNCHANGED <<body, answer, board, mishaps>>

FinishesUpload ==
  /\ At("more") /\ Remaining = 0 /\ Call("finish_upload", <<>>)
  /\ Goes("invalidate") /\ UNCHANGED <<body, page, copy, first, counts, cache>> /\ Quiet

(* interface_invalidate_disc_list, whatever came of the call before it.    *)
Forgets(valid) ==
  /\ At("invalidate") /\ loaded' = valid /\ overtook' = listing.busy /\ Goes("reply")
  /\ UNCHANGED <<page, copy, body, first, counts, answer, board, listed, listing, mishaps>> /\ Quiet

Invalidates_OnSuccess == Forgets(loaded /\ ~answer.ret)
Invalidates == Forgets(FALSE)

Compares_Unchecked == IF request.checked THEN "verified" ELSE "saved"
Compares ==
  CASE ~request.checked -> "saved"
    [] request.checked /\ answer.data = File("data", request.size) -> "verified"
    [] OTHER -> "corrupt"

RepliesUpload ==
  /\ At("reply") /\ request.kind = "upload"
  /\ \/ answer.ret /\ answer.ok /\ Sees(Compares) /\ Goes("idle") /\ body' = <<>>
     \/ answer.ret /\ ~answer.ok /\ Failing /\ Goes("idle") /\ body' = <<>>
     \/ ~answer.ret /\ Goes("drain") /\ UNCHANGED <<page, body>>
  /\ UNCHANGED <<copy, first, counts, answer, board, cache, mishaps>> /\ Quiet

(***************************************************************************)
(* api_delete_handler, api_rename_handler, api_create_path_op              *)
(***************************************************************************)
RunsPathOp ==
  /\ At("path") /\ Call("path", <<>>) /\ Goes("invalidate")
  /\ UNCHANGED <<page, copy, body, first, counts, cache>> /\ Quiet

RepliesPathOp ==
  /\ At("reply") /\ request.kind # "upload" /\ Goes("idle")
  /\ Sees(IF answer.ret /\ answer.ok THEN "done" ELSE "failed")
  /\ UNCHANGED <<copy, body, first, counts, answer, board, cache, mishaps>> /\ Quiet

(***************************************************************************)
(* api_download_handler                                                    *)
(***************************************************************************)
StartsDownload ==
  /\ At("open") /\ Call("start_download", <<>>)
  /\ \/ Works /\ Goes("read") /\ size' = Len(answer'.data) /\ UNCHANGED page
     \/ ~Works /\ Goes("idle") /\ Sees("failed") /\ UNCHANGED size
  /\ UNCHANGED <<copy, body, first, moved, index, cache>> /\ Quiet

NoDownload ==
  /\ At("read") /\ index = 0 /\ Mishap("memory") /\ Sees("failed") /\ Goes("idle")
  /\ UNCHANGED <<copy, body, first, counts, answer, board, cache>> /\ Quiet

(* A failed call ends the handler without the empty chunk that tells the   *)
(* page the answer is complete; so does a chunk that cannot be sent.       *)
BreaksOff_Quietly == Goes("end") /\ UNCHANGED <<page, copy, moved, index>>
BreaksOff == Sees("network_error") /\ Goes("idle") /\ UNCHANGED <<copy, moved, index>>

Sends(data) ==
  /\ copy' = copy \o data /\ moved' = moved + Len(data) /\ index' = index + 1
  /\ UNCHANGED <<page, pc>>

ReadsChunk ==
  /\ At("read") /\ moved < size /\ Call("read_chunk", index)
  /\ LET data == answer'.data IN
       \/ ~Works /\ BreaksOff
       \/ Works /\ data = <<>> /\ Goes("end") /\ UNCHANGED <<page, copy, moved, index>>
       \/ Works /\ data # <<>> /\ Gone /\ BreaksOff
       \/ Works /\ data # <<>> /\ ~Gone /\ Sends(data)
  /\ UNCHANGED <<body, first, size, cache>> /\ Quiet

EndsDownload ==
  /\ At("end") \/ (At("read") /\ moved >= size)
  /\ Sees("complete") /\ Goes("idle")
  /\ UNCHANGED <<copy, body, first, counts, answer, board, cache, mishaps>> /\ Quiet

(***************************************************************************)
(* Other tasks: reconnect_to_host forgets the list and resets the board;   *)
(* refresh_directory_list fills the list again, call by call, and declares *)
(* it valid at its end, or gives up when the number of entries cannot be   *)
(* read.  (An entry that cannot be read is a row that says so: DirBrowser.)*)
(***************************************************************************)
Elsewhere ==
  UNCHANGED <<request, page, copy, body, pc, first, counts, answer, overtook, requests>>

Reconnects ==
  /\ board.session # Closed /\ Mishap("reset")
  /\ board' = [board EXCEPT !.session = Closed] /\ loaded' = FALSE
  /\ listing' \in {listing, NoListing}
  /\ Elsewhere /\ UNCHANGED listed

PanelLists ==
  /\ ~loaded /\ ~listing.busy
  /\ listed' = {} /\ listing' = [busy |-> TRUE, left |-> Names]
  /\ Elsewhere /\ UNCHANGED <<board, loaded, mishaps>>

PanelAsks ==
  /\ \E n \in listing.left :
       /\ listed' = listed \cup ({n} \cap DOMAIN board.card)
       /\ listing' = [listing EXCEPT !.left = @ \ {n}]
  /\ Elsewhere /\ UNCHANGED <<board, loaded, mishaps>>

PanelEnds ==
  /\ listing.busy /\ listing' = NoListing
  /\ \/ listing.left = {} /\ loaded' = TRUE
     \/ listing.left = Names /\ UNCHANGED loaded
  /\ Elsewhere /\ UNCHANGED <<board, listed, mishaps>>

Uploads == \/ NoUpload \/ ParsesHeader \/ StartsUpload \/ NoFirstChunk \/ WritesFirstChunk
           \/ WritesChunk \/ ChunkMissing \/ FinishesUpload \/ RepliesUpload \/ Drains
Downloads == StartsDownload \/ NoDownload \/ ReadsChunk \/ EndsDownload
Httpd == Uploads \/ Downloads \/ RunsPathOp \/ Invalidates \/ RepliesPathOp

Next == \/ AsksUpload \/ AsksDownload \/ AsksPathOp \/ Leaves
        \/ Httpd \/ Reconnects \/ PanelLists \/ PanelAsks \/ PanelEnds

Spec == Init /\ [][Next]_vars
(* httpd goes on with its request: a call ends (its poll loop gives up),   *)
(* and the body comes or the page is gone.                                 *)
FairSpec == Spec /\ WF_vars(Httpd)

-----------------------------------------------------------------------------
AFile(f) == Len(f) < 2 * Word /\ \A i \in 1..Len(f) : f[i][1] \in {"header", "data", "boundary", "old"}

(* Types.  No more bytes are counted as moved than the file has: remaining *)
(* is unsigned, and would have the loop wait for some four billion more.   *)
TypeOK ==
  /\ request.kind \in {"none", "upload", "download", "delete", "rename", "create"}
  /\ page \in {"idle", "waiting", "gone", "verified", "corrupt", "saved", "done",
               "complete", "failed", "network_error"}
  /\ pc \in {"idle", "parse", "start", "first", "more", "drain", "invalidate", "reply",
             "path", "open", "read", "end"}
  /\ AFile(copy) /\ AFile(body) /\ AFile(first) /\ AFile(answer.data)
  /\ moved <= size /\ size < Word /\ index <= requests * Word
  /\ DOMAIN board.card \subseteq Names /\ \A n \in DOMAIN board.card : AFile(board.card[n])
  /\ board.session.mode \in {"none", "read", "write"} /\ board.session.name \in Names
  /\ listed \subseteq Names /\ loaded \in BOOLEAN /\ overtook \in BOOLEAN
  /\ listing.busy \in BOOLEAN /\ listing.left \subseteq Names /\ requests \in 0..MaxRequests
  /\ mishaps \subseteq {"resent", "refused", "lost", "late", "gone", "memory", "reset"}

Holds(name, content) == name \in DOMAIN board.card /\ board.card[name] = content
Sent == File("data", request.size)

(* When uploadFile says "File uploaded and verified" (app.js:1210), the    *)
(* card holds the file that was sent: whatever was split, sent again, lost *)
(* or reset on the way, and whatever an earlier upload left open.  Unless  *)
(* a first piece cut inside the file name has made it another one          *)
(* (web_server.cpp:2087): an empty file is then verified under that name.  *)
VerifiedIsStored ==
  page = "verified" /\ request.to = request.name => Holds(request.name, Sent)

(* A download that ends as complete (web_server.cpp:2842) has every byte   *)
(* of the file: a session that was reset, a chunk asked for twice or a     *)
(* lost answer must not leave a hole, a repetition or a short file.        *)
DownloadIsWhole == page = "complete" => Holds(request.name, copy)

(* Once a request is over that changed the card, or may have changed it    *)
(* although the call failed, a valid cached listing shows what became of   *)
(* its files (interface_invalidate_disc_list, main.c:160), at whatever     *)
(* point of the request the panel began to list.  Left out are an upload   *)
(* broken off before FINISH, as nothing invalidates there, and a request   *)
(* whose invalidation came while the panel was listing: main.c:1872 undoes *)
(* that one, as in DirBrowser.                                             *)
ChangesAreListed ==
  /\ At("idle") /\ loaded /\ ~overtook
  /\ \/ page \in {"verified", "corrupt", "saved"}
     \/ request.kind \in {"delete", "rename", "create"}
  => \A n \in {request.name, request.to} : n \in listed <=> n \in DOMAIN board.card

(* An upload of a file with at least one byte is refused only if a mishap  *)
(* happened or its first piece ended before the file name did, which the   *)
(* handler does not wait for (web_server.cpp:2097-2103).  Wherever else    *)
(* the network cut the body, the handler finds its way through the header, *)
(* the caps and the count of what remains, and the board is never asked    *)
(* for what it must refuse.                                                *)
RefusedForAReason ==
  /\ request.kind = "upload" /\ request.size > 0 /\ page \in {"failed", "network_error"}
  /\ Len(first) # 1
  => mishaps # {}

(* Every request is served to its end: the loops over the body, over the   *)
(* chunks and over what is drained (web_server.cpp:2121) all stop.         *)
RequestEnds == ~At("idle") ~> At("idle")

(* What app.js:1415 says of the main board's firmware ("Firmware uploaded  *)
(* successfully"), and app.js:1336 of the configuration: with no mishap,   *)
(* and the file name whole in the first piece, the card then holds the     *)
(* file that was sent.                                                     *)
SavedIsStored ==
  page = "saved" /\ mishaps = {} /\ Len(first) >= 2 => Holds(request.name, Sent)
=============================================================================
