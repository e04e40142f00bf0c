------------------------- MODULE FileTransfer_proofs -------------------------
(***************************************************************************)
(* Proofs about FileTransfer, for any names, sizes, chunk size and number  *)
(* of requests and mishaps: what the page calls verified is on the card, a *)
(* changed card is listed again, a complete download is whole, an upload   *)
(* that nothing disturbs is not refused; and, where files fit the counters *)
(* twice, the types.                                                       *)
(***************************************************************************)
EXTENDS FileTransfer, SequenceTheorems, TLAPS

(* Which steps of httpd serve which kind of request.                       *)
PathKinds == {"delete", "rename", "create"}
KindFits ==
  /\ pc \in {"parse", "start", "first", "more", "drain"} => request.kind = "upload"
  /\ pc \in {"open", "read", "end"} => request.kind = "download"
  /\ pc = "path" => request.kind \in PathKinds

Requests == [kind : {"none", "upload", "download"} \cup PathKinds, name : Names, to : Names,
             size : Nat, checked : BOOLEAN]
Bytes == {"header", "data", "boundary", "old"} \X Nat
Files == Seq(Bytes)

IsBoard(b) ==
  /\ b = [card |-> b.card, session |-> b.session]
  /\ b.card = [n \in DOMAIN b.card |-> b.card[n]]
  /\ \A n \in DOMAIN b.card : b.card[n] \in Files
  /\ b.session = [mode |-> b.session.mode, name |-> b.session.name]

(* While an upload writes, a session open for writing is its own, whatever *)
(* an earlier upload left open; and an answer to FINISH tells what the     *)
(* card holds under the name the handler has found.                        *)
OwnSession ==
  pc \in {"first", "more"} /\ board.session.mode = "write" => board.session.name = request.to
ToldIsStored ==
  pc \in {"invalidate", "reply"} /\ request.kind = "upload" /\ answer.ret /\ answer.ok
    => Holds(request.to, answer.data)
VerifiedWaits == page = "verified" => pc = "idle" /\ Holds(request.to, Sent)

Inv ==
  /\ KindFits /\ IsBoard(board) /\ body \in Files /\ first \in Files
  /\ request \in Requests /\ (request.kind = "upload" => size \in Nat)
  /\ pc = "parse" => first = <<>>
  /\ listing \in [busy : BOOLEAN, left : SUBSET Names] /\ overtook \in BOOLEAN
  /\ OwnSession /\ ToldIsStored /\ VerifiedWaits

-----------------------------------------------------------------------------
(* What the board's commands do to its session and its card.               *)
LEMMA FileIsFile ==
  ASSUME NEW tag \in {"header", "data", "boundary", "old"}, NEW n \in Nat
  PROVE  File(tag, n) \in Files
  BY DEF File, Files, Bytes

LEMMA BodyIsFile ==
  ASSUME NEW n \in Nat
  PROVE  Body(n) \in Files
<1>1. File("header", 3) \in Files /\ File("data", n) \in Files /\ File("boundary", 1) \in Files
  BY FileIsFile
<1>. QED  BY <1>1, ConcatProperties DEF Body, Header, Files

LEMMA PieceIsFile ==
  ASSUME NEW f \in Files, NEW i \in Nat \ {0}, NEW j \in Int, j <= Len(f)
  PROVE  SubSeq(f, i, j) \in Files
<1>1. \A k \in i .. j : f[k] \in Bytes
  BY DEF Files
<1>. QED  BY <1>1, SubSeqProperties DEF Files

LEMMA ReceivedIsFile ==
  ASSUME body \in Files, NEW n, Receives(n)
  PROVE  n \in Nat \ {0} /\ n <= Len(body) /\ SubSeq(body, 1, n) \in Files /\ body' \in Files
<1>1. n \in 1 .. Len(body) /\ body' = SubSeq(body, n + 1, Len(body))
  BY DEF Receives
<1>2. Len(body) \in Nat
  BY DEF Files
<1>3. n \in Nat \ {0} /\ n + 1 \in Nat \ {0} /\ n <= Len(body)
  BY <1>1, <1>2
<1>. QED  BY <1>1, <1>2, <1>3, PieceIsFile

LEMMA StoredBoard ==
  ASSUME NEW b, IsBoard(b), NEW name, NEW content \in Files
  PROVE  /\ IsBoard(Stored(b, name, content))
         /\ Stored(b, name, content).session = b.session
         /\ DOMAIN Stored(b, name, content).card = DOMAIN b.card \cup {name}
         /\ Stored(b, name, content).card[name] = content
  BY DEF IsBoard, Stored

LEMMA WithoutBoard ==
  ASSUME NEW b, IsBoard(b), NEW name
  PROVE  IsBoard(Without(b, name)) /\ Without(b, name).session = b.session
  BY DEF IsBoard, Without

LEMMA StartUploadBoard ==
  ASSUME NEW b, IsBoard(b)
  PROVE  /\ IsBoard(StartUpload(b).board)
         /\ StartUpload(b).board.session.name = request.to
<1>. DEFINE s == Stored(b, request.to, <<>>)
<1>1. IsBoard(s)
  BY StoredBoard, EmptySeq DEF Files
<1>2. StartUpload(b).board = [s EXCEPT !.session = [mode |-> "write", name |-> request.to]]
  BY DEF StartUpload, Said
<1>. HIDE DEF s
<1>. QED  BY <1>1, <1>2 DEF IsBoard

LEMMA WriteChunkBoard ==
  ASSUME NEW b, IsBoard(b), NEW data \in Files
  PROVE  /\ IsBoard(WriteChunk(b, data).board)
         /\ WriteChunk(b, data).board.session = b.session
<1>1. CASE Open(b, "write")
  <2>1. WriteChunk(b, data).board = Stored(b, b.session.name, Content(b) \o data)
    BY <1>1 DEF WriteChunk, Said
  <2>2. Content(b) \o data \in Files
    BY <1>1, ConcatProperties DEF Open, Content, IsBoard, Files
  <2>. QED  BY <2>1, <2>2, StoredBoard
<1>2. CASE ~Open(b, "write")
  BY <1>2 DEF WriteChunk, Denied
<1>. QED  BY <1>1, <1>2

LEMMA FinishUploadBoard ==
  ASSUME NEW b, IsBoard(b)
  PROVE  /\ IsBoard(FinishUpload(b).board)
         /\ FinishUpload(b).board.card = b.card
         /\ ~Open(FinishUpload(b).board, "write")
         /\ FinishUpload(b).answer.ok <=> Open(b, "write")
         /\ Open(b, "write") => FinishUpload(b).answer.data = b.card[b.session.name]
<1>1. CASE Open(b, "write")
  BY <1>1 DEF FinishUpload, Said, Closed, IsBoard, Open, Content
<1>2. CASE ~Open(b, "write")
  BY <1>2 DEF FinishUpload, Said, Closed, IsBoard, Open
<1>. QED  BY <1>1, <1>2

LEMMA StartDownloadBoard ==
  ASSUME NEW b, IsBoard(b)
  PROVE  IsBoard(StartDownload(b).board)
  BY DEF StartDownload, Said, IsBoard

LEMMA ReadChunkBoard ==
  ASSUME NEW b, NEW i
  PROVE  ReadChunk(b, i).board = b
  BY DEF ReadChunk, Said, Denied

LEMMA PathOpBoard ==
  ASSUME NEW b, IsBoard(b)
  PROVE  IsBoard(PathOp(b).board)
<1>1. \/ PathOp(b).board \in {b, Without(b, request.name), Stored(b, request.name, <<>>)}
      \/ /\ request.name \in DOMAIN b.card
         /\ PathOp(b).board =
              Without(Stored(b, request.to, b.card[request.name]), request.name)
  BY DEF PathOp, Said
<1>2. IsBoard(Without(b, request.name))
  BY WithoutBoard
<1>3. IsBoard(Stored(b, request.name, <<>>))
  BY StoredBoard, EmptySeq DEF Files
<1>4. ASSUME request.name \in DOMAIN b.card
      PROVE  IsBoard(Without(Stored(b, request.to, b.card[request.name]), request.name))
  <2>1. b.card[request.name] \in Files
    BY <1>4 DEF IsBoard
  <2>. QED  BY <2>1, StoredBoard, WithoutBoard
<1>. QED  BY <1>1, <1>2, <1>3, <1>4

(* Any command leaves a board a board, run once, twice or not at all.      *)
Commands == {"start_upload", "write_chunk", "finish_upload", "start_download",
             "read_chunk", "path"}
LEMMA RunsBoard ==
  ASSUME NEW b, IsBoard(b), NEW command \in Commands, NEW arg,
         command = "write_chunk" => arg \in Files
  PROVE  IsBoard(Runs(b, command, arg).board)
<1>1. CASE command = "start_upload"
  BY <1>1, StartUploadBoard DEF Runs
<1>2. CASE command = "write_chunk"
  BY <1>2, WriteChunkBoard DEF Runs
<1>3. CASE command = "finish_upload"
  BY <1>3, FinishUploadBoard DEF Runs
<1>4. CASE command = "start_download"
  BY <1>4, StartDownloadBoard DEF Runs
<1>5. CASE command = "read_chunk"
  BY <1>5, ReadChunkBoard DEF Runs
<1>6. CASE command = "path"
  BY <1>6, PathOpBoard DEF Runs
<1>. QED  BY <1>1, <1>2, <1>3, <1>4, <1>5, <1>6 DEF Commands

(* A call that worked was run once or twice, and answers for its last run. *)
LEMMA CallOutcomes ==
  ASSUME NEW command, NEW arg, Call(command, arg)
  PROVE  LET once  == Runs(board, command, arg)
             twice == Runs(once.board, command, arg)
         IN  \/ board' = once.board /\ answer' = once.answer
             \/ board' = twice.board /\ answer' = twice.answer
             \/ board' \in {board, once.board} /\ ~(answer'.ret /\ answer'.ok)
<1>. DEFINE once  == Runs(board, command, arg)
            twice == Runs(once.board, command, arg)
<1>1. \/ board' = once.board /\ answer' = once.answer
      \/ board' = twice.board /\ answer' = twice.answer
      \/ board' = board /\ answer' = [NoAnswer EXCEPT !.ret = TRUE]
      \/ board' = board /\ answer' = NoAnswer
      \/ board' = once.board /\ answer' = NoAnswer
  BY DEF Call
<1>2. ~NoAnswer.ret /\ ~[NoAnswer EXCEPT !.ret = TRUE].ok
  BY DEF NoAnswer
<1>. HIDE DEF once, twice
<1>3. \/ board' = once.board /\ answer' = once.answer
      \/ board' = twice.board /\ answer' = twice.answer
      \/ board' \in {board, once.board} /\ ~(answer'.ret /\ answer'.ok)
  BY <1>1, <1>2
<1>. QED  BY <1>3 DEF once, twice

LEMMA CallBoard ==
  ASSUME IsBoard(board), NEW command \in Commands, NEW arg, Call(command, arg),
         command = "write_chunk" => arg \in Files
  PROVE  IsBoard(board')
<1>1. IsBoard(Runs(board, command, arg).board)
  BY RunsBoard
<1>2. IsBoard(Runs(Runs(board, command, arg).board, command, arg).board)
  BY <1>1, RunsBoard
<1>. QED  BY <1>1, <1>2, CallOutcomes

(* A START that worked opened the session for its own file.                *)
LEMMA CallStart ==
  ASSUME IsBoard(board), NEW arg, Call("start_upload", arg), Works
  PROVE  board'.session.name = request.to
<1>. DEFINE once  == StartUpload(board)
            twice == StartUpload(once.board)
<1>1. \A b : Runs(b, "start_upload", arg) = StartUpload(b)
  BY DEF Runs
<1>2. IsBoard(once.board) /\ once.board.session.name = request.to
  BY StartUploadBoard
<1>3. twice.board.session.name = request.to
  BY <1>2, StartUploadBoard
<1>4. Runs(board, "start_upload", arg) = once /\ Runs(once.board, "start_upload", arg) = twice
  BY <1>1
<1>. HIDE DEF once, twice
<1>5. board' = once.board \/ board' = twice.board
  BY <1>4, CallOutcomes DEF Works
<1>. QED  BY <1>2, <1>3, <1>5

LEMMA CallWrite ==
  ASSUME IsBoard(board), NEW data \in Files, Call("write_chunk", data)
  PROVE  board'.session = board.session
<1>. DEFINE once  == WriteChunk(board, data)
            twice == WriteChunk(once.board, data)
<1>1. \A b : Runs(b, "write_chunk", data) = WriteChunk(b, data)
  BY DEF Runs
<1>2. IsBoard(once.board) /\ once.board.session = board.session
  BY WriteChunkBoard
<1>3. twice.board.session = board.session
  BY <1>2, WriteChunkBoard
<1>4. board' \in {board, once.board, twice.board}
  BY <1>1, CallOutcomes
<1>. HIDE DEF once, twice
<1>. QED  BY <1>2, <1>3, <1>4

(* A FINISH that worked was run exactly once, on the session that was open *)
(* for writing, and tells what that session's file holds.                  *)
LEMMA CallFinish ==
  ASSUME IsBoard(board), NEW arg, Call("finish_upload", arg), answer'.ret, answer'.ok
  PROVE  /\ board.session.mode = "write"
         /\ board.session.name \in DOMAIN board.card
         /\ board'.card = board.card
         /\ answer'.data = board.card[board.session.name]
<1>. DEFINE once  == FinishUpload(board)
            twice == FinishUpload(once.board)
<1>1. \A b : Runs(b, "finish_upload", arg) = FinishUpload(b)
  BY DEF Runs
<1>2. /\ IsBoard(once.board) /\ once.board.card = board.card
      /\ once.answer.ok <=> Open(board, "write")
      /\ Open(board, "write") => once.answer.data = board.card[board.session.name]
      /\ ~Open(once.board, "write")
  BY FinishUploadBoard
<1>3. ~twice.answer.ok
  BY <1>2, FinishUploadBoard
<1>4. Runs(board, "finish_upload", arg) = once /\ Runs(once.board, "finish_upload", arg) = twice
  BY <1>1
<1>. HIDE DEF once, twice
<1>5. \/ board' = once.board /\ answer' = once.answer
      \/ board' = twice.board /\ answer' = twice.answer
  BY <1>4, CallOutcomes
<1>6. board' = once.board /\ answer' = once.answer
  BY <1>3, <1>5
<1>. QED  BY <1>2, <1>6 DEF Open

-----------------------------------------------------------------------------
LEMMA InvInit == Init => Inv
<1>. SUFFICES ASSUME Init PROVE Inv
  OBVIOUS
<1>1. IsBoard(board) /\ body \in Files /\ first \in Files
  <2>1. File("old", OldSize) \in Files
    BY SizesAssumption, FileIsFile
  <2>. QED  BY <2>1, EmptySeq DEF Init, IsBoard, Closed, Files
<1>2. KindFits /\ OwnSession /\ ToldIsStored /\ VerifiedWaits
  BY DEF Init, KindFits, OwnSession, ToldIsStored, VerifiedWaits
<1>4. request \in Requests /\ request.kind # "upload"
  BY NamesAssumption DEF Init, NoRequest, Requests
<1>5. /\ pc = "parse" => first = <<>>
      /\ listing \in [busy : BOOLEAN, left : SUBSET Names] /\ overtook \in BOOLEAN
  BY DEF Init, NoListing
<1>. QED  BY <1>1, <1>2, <1>4, <1>5 DEF Inv

LEMMA InvStep == Inv /\ [Next]_vars => Inv'
<1>. SUFFICES ASSUME Inv, [Next]_vars PROVE Inv'
  OBVIOUS
<1>. USE DEF Inv, KindFits, OwnSession, ToldIsStored, VerifiedWaits, PathKinds, Holds, Sent, At, Goes, Quiet, cache, counts
<1>1. ASSUME NEW kind \in {"upload", "download"} \cup PathKinds, NEW name \in Names, NEW to \in Names,
             NEW n, NEW checked \in BOOLEAN, NEW at \in {"parse", "open", "path"},
             Asks(kind, name, to, n, checked, at), n \in Sizes \cup {0},
             kind = "upload" <=> at = "parse", kind = "download" <=> at = "open"
      PROVE  Inv'
  <2>1. n \in Nat
    BY <1>1, SizesAssumption
  <2>2. body' \in Files /\ first' \in Files
    BY <1>1, <2>1, BodyIsFile, EmptySeq DEF Asks, Files
  <2>3. request' \in Requests
    BY <1>1, <2>1 DEF Asks, Requests
  <2>. QED  BY <1>1, <2>1, <2>2, <2>3 DEF Asks
<1>2. CASE AsksUpload
  BY <1>1, <1>2 DEF AsksUpload
<1>3. CASE AsksDownload
  BY <1>1, <1>3 DEF AsksDownload
<1>4. CASE AsksPathOp
  BY <1>1, <1>4 DEF AsksPathOp
<1>5. CASE Leaves
  BY <1>5 DEF Leaves
<1>6. CASE NoUpload
  BY <1>6 DEF NoUpload, UploadError
<1>7. CASE ParsesHeader
  <2>1. body' \in Files /\ first' \in Files
    BY <1>7, ReceivedIsFile DEF ParsesHeader
  <2>2. /\ request' \in Requests /\ request'.kind = request.kind
        /\ request.kind = "upload" => request'.size \in Nat
    BY <1>7 DEF ParsesHeader, Requests
  <2>3. size' \in {size, request.size} /\ pc' \in {"start", "drain"} /\ request.size \in Nat
    BY <1>7 DEF ParsesHeader, Requests
  <2>. QED  BY <1>7, <2>1, <2>2, <2>3 DEF ParsesHeader
<1>8. CASE StartsUpload
  <2>1. IsBoard(board')
    BY <1>8, CallBoard DEF StartsUpload, Commands
  <2>2. Works => board'.session.name = request.to
    BY <1>8, CallStart DEF StartsUpload
  <2>. QED  BY <1>8, <2>1, <2>2 DEF StartsUpload, Went, UploadFails, UploadError
<1>9. CASE NoFirstChunk
  BY <1>9 DEF NoFirstChunk, UploadError
<1>10. CASE WritesFirstChunk
  <2>0. FirstData \in Files
    <3>0. pc = "first"
      BY <1>10 DEF WritesFirstChunk
    <3>1. Len(first) \in Nat /\ size \in Nat
      BY <3>0 DEF Files
    <3>2. Least(Len(first), 3 + size) \in Nat /\ Least(Len(first), 3 + size) <= Len(first)
      BY <3>1 DEF Least
    <3>. QED  BY <3>2, PieceIsFile DEF FirstData
  <2>1. IsBoard(board') /\ board'.session = board.session
    BY <1>10, <2>0, CallBoard, CallWrite DEF WritesFirstChunk, Commands
  <2>. QED  BY <1>10, <2>1 DEF WritesFirstChunk, Went, UploadFails, UploadError
<1>11. CASE WritesChunk
  <2>. PICK n \in 1 .. Least(Remaining, ChunkSize) :
         /\ Receives(n) /\ Call("write_chunk", SubSeq(body, 1, n))
         /\ Went("more") \/ UploadFails
    BY <1>11 DEF WritesChunk
  <2>1. SubSeq(body, 1, n) \in Files /\ body' \in Files
    BY ReceivedIsFile
  <2>2. IsBoard(board') /\ board'.session = board.session
    BY <2>1, CallBoard, CallWrite DEF Commands
  <2>. QED  BY <1>11, <2>1, <2>2 DEF WritesChunk, Went, UploadFails, UploadError
<1>12. CASE ChunkMissing
  BY <1>12 DEF ChunkMissing, UploadError
<1>13. CASE FinishesUpload
  <2>1. IsBoard(board')
    BY <1>13, CallBoard DEF FinishesUpload, Commands
  <2>2. answer'.ret /\ answer'.ok =>
          /\ board.session.mode = "write" /\ board.session.name \in DOMAIN board.card
          /\ board'.card = board.card /\ answer'.data = board.card[board.session.name]
    BY <1>13, CallFinish DEF FinishesUpload
  <2>. QED  BY <1>13, <2>1, <2>2 DEF FinishesUpload
<1>14. CASE RepliesUpload
  BY <1>14, EmptySeq DEF RepliesUpload, Sees, Failing, Compares, Files
<1>15. CASE Drains
  <2>1. body' \in Files
    BY <1>15, ReceivedIsFile DEF Drains
  <2>. QED  BY <1>15, <2>1 DEF Drains, Sees, Failing
<1>16. CASE StartsDownload
  <2>1. IsBoard(board')
    BY <1>16, CallBoard DEF StartsDownload, Commands
  <2>. QED  BY <1>16, <2>1 DEF StartsDownload, Sees
<1>17. CASE NoDownload
  BY <1>17 DEF NoDownload, Sees
<1>18. CASE ReadsChunk
  <2>1. IsBoard(board')
    BY <1>18, CallBoard DEF ReadsChunk, Commands
  <2>. QED  BY <1>18, <2>1 DEF ReadsChunk, BreaksOff, Sends, Sees
<1>19. CASE EndsDownload
  BY <1>19 DEF EndsDownload, Sees
<1>20. CASE RunsPathOp
  <2>1. IsBoard(board')
    BY <1>20, CallBoard DEF RunsPathOp, Commands
  <2>. QED  BY <1>20, <2>1 DEF RunsPathOp
<1>21. CASE Invalidates
  BY <1>21 DEF Invalidates, Forgets
<1>22. CASE RepliesPathOp
  BY <1>22 DEF RepliesPathOp, Sees
<1>23. CASE Reconnects
  <2>1. IsBoard(board') /\ board'.card = board.card /\ board'.session.mode # "write"
    BY <1>23 DEF Reconnects, IsBoard, Closed
  <2>2. listing' \in [busy : BOOLEAN, left : SUBSET Names]
    <3>1. NoListing \in [busy : BOOLEAN, left : SUBSET Names]
      BY DEF NoListing
    <3>2. listing' \in {listing, NoListing}
      BY <1>23 DEF Reconnects
    <3>. QED  BY <3>1, <3>2
  <2>3. UNCHANGED <<request, page, copy, body, pc, first, counts, answer, overtook>>
    BY <1>23 DEF Reconnects, Elsewhere
  <2>. QED  BY <2>1, <2>2, <2>3
<1>24. CASE PanelLists \/ PanelAsks \/ PanelEnds
  <2>1. listing' \in [busy : BOOLEAN, left : SUBSET Names]
    <3>1. CASE PanelLists
      BY <3>1 DEF PanelLists
    <3>2. CASE PanelAsks
      <4>1. PICK n \in listing.left : listing' = [listing EXCEPT !.left = @ \ {n}]
        BY <3>2 DEF PanelAsks
      <4>. QED  BY <4>1
    <3>3. CASE PanelEnds
      BY <3>3 DEF PanelEnds, NoListing
    <3>. QED  BY <1>24, <3>1, <3>2, <3>3
  <2>2. UNCHANGED <<request, page, copy, body, pc, first, counts, answer, overtook, board>>
    BY <1>24 DEF PanelLists, PanelAsks, PanelEnds, Elsewhere
  <2>. QED  BY <2>1, <2>2
<1>25. CASE UNCHANGED vars
  BY <1>25 DEF vars
<1>. QED
  BY <1>2, <1>3, <1>4, <1>5, <1>6, <1>7, <1>8, <1>9, <1>10, <1>11, <1>12, <1>13, <1>14,
     <1>15, <1>16, <1>17, <1>18, <1>19, <1>20, <1>21, <1>22, <1>23, <1>24, <1>25
     DEF Next, Httpd, Uploads, Downloads

LEMMA InvAlways == Spec => []Inv
<1>. QED  BY InvInit, InvStep, PTL DEF Spec

(* "File uploaded and verified": whatever was split, lost, sent twice or   *)
(* reset on the way, the card holds the file under the name the page asked *)
(* for.  The hash FINISH answers is of the file this request opened: the   *)
(* only session open for writing then is its own (OwnSession).             *)
THEOREM VerifiedMeansStored == Spec => []VerifiedIsStored
<1>1. Inv => VerifiedIsStored
  BY DEF Inv, VerifiedWaits, VerifiedIsStored
<1>. QED  BY <1>1, InvAlways, PTL

-----------------------------------------------------------------------------
(* The listing.  From an invalidation that came while the panel did not    *)
(* list, and until the next request: what the panel has asked for since is *)
(* what the card has, since nobody changes it then.                        *)
Settled ==
  /\ ~overtook
  /\ \/ pc = "reply"
     \/ pc = "idle" /\ (page \in {"verified", "corrupt", "saved"} \/ request.kind \in PathKinds)
Lists ==
  /\ listing.busy => ~loaded
  /\ Settled => \A n \in {request.name, request.to} :
       /\ listing.busy => (n \in listed <=> n \in DOMAIN board.card /\ n \notin listing.left)
       /\ loaded => (n \in listed <=> n \in DOMAIN board.card)

LEMMA ListsStep == Inv /\ Lists /\ [Next]_vars => Lists'
<1>. SUFFICES ASSUME Inv, Lists, [Next]_vars PROVE Lists'
  OBVIOUS
<1>. USE DEF Lists, Settled, Inv, KindFits, PathKinds, At, Goes, Quiet, cache, counts
<1>1. ASSUME NEW kind, NEW name, NEW to, NEW n, NEW checked,
             NEW at \in {"parse", "open", "path"}, Asks(kind, name, to, n, checked, at)
      PROVE  Lists'
  BY <1>1 DEF Asks
<1>2. CASE AsksUpload \/ AsksDownload \/ AsksPathOp
  BY <1>1, <1>2 DEF AsksUpload, AsksDownload, AsksPathOp
<1>3. CASE Leaves \/ NoUpload \/ ChunkMissing \/ NoFirstChunk
  BY <1>3 DEF Leaves, NoUpload, ChunkMissing, NoFirstChunk, UploadError
<1>4. CASE ParsesHeader
  BY <1>4 DEF ParsesHeader
<1>5. CASE StartsUpload \/ WritesFirstChunk \/ WritesChunk
  BY <1>5 DEF StartsUpload, WritesFirstChunk, WritesChunk, Went, UploadFails, UploadError
<1>6. CASE FinishesUpload \/ RunsPathOp
  BY <1>6 DEF FinishesUpload, RunsPathOp
<1>7. CASE RepliesUpload \/ RepliesPathOp
  BY <1>7 DEF RepliesUpload, RepliesPathOp
<1>8. CASE Drains
  BY <1>8 DEF Drains, Sees, Failing
<1>9. CASE StartsDownload \/ NoDownload \/ ReadsChunk \/ EndsDownload
  BY <1>9 DEF StartsDownload, NoDownload, ReadsChunk, EndsDownload, BreaksOff, Sends, Sees
<1>10. CASE Invalidates
  BY <1>10 DEF Invalidates, Forgets
<1>11. CASE Reconnects
  <2>1. board'.card = board.card
    BY <1>11 DEF Reconnects, IsBoard
  <2>. QED  BY <1>11, <2>1 DEF Reconnects, Elsewhere, NoListing
<1>12. CASE PanelLists
  <2>1. request.name \in Names /\ request.to \in Names
    BY DEF Requests
  <2>. QED  BY <1>12, <2>1 DEF PanelLists, Elsewhere
<1>13. CASE PanelAsks
  BY <1>13 DEF PanelAsks, Elsewhere
<1>14. CASE PanelEnds
  BY <1>14 DEF PanelEnds, Elsewhere, NoListing
<1>15. CASE UNCHANGED vars
  BY <1>15 DEF vars
<1>. QED
  BY <1>2, <1>3, <1>4, <1>5, <1>6, <1>7, <1>8, <1>9, <1>10, <1>11, <1>12, <1>13, <1>14, <1>15
     DEF Next, Httpd, Uploads, Downloads

(* interface_invalidate_disc_list falls between the call that changed the  *)
(* card and the answer: a listing that is valid after the answer was       *)
(* begun after the change, name by name, or was under way when the         *)
(* invalidation came, the one case that the property leaves out.           *)
THEOREM ChangesListed == Spec => []ChangesAreListed
<1>1. Init => Lists
  BY NamesAssumption DEF Init, Lists, Settled, NoRequest, NoListing, PathKinds
<1>2. Inv /\ Lists => ChangesAreListed
  BY DEF Lists, Settled, ChangesAreListed, At, PathKinds
<1>. QED  BY <1>1, <1>2, InvAlways, ListsStep, PTL DEF Spec

-----------------------------------------------------------------------------
(* A download.  What the page has is the file's beginning, as far as the   *)
(* chunks asked for go, on a card nobody else writes; a session reset in   *)
(* between reads nothing.                                                  *)
Wanted == board.card[request.name]
Reading ==
  /\ request.name \in DOMAIN board.card
  /\ board.session.mode = "read" => board.session.name = request.name
  /\ index \in Nat
  /\ size = Len(Wanted)
  /\ moved = Least(index * ChunkSize, Len(Wanted))
  /\ copy = SubSeq(Wanted, 1, moved)
Loading ==
  /\ pc = "open" => copy = <<>> /\ moved = 0 /\ index = 0
  /\ pc = "read" => Reading
  /\ pc = "end" => Holds(request.name, copy)
  /\ page = "complete" => pc = "idle" /\ Holds(request.name, copy)

(* The next chunk: empty at the end of the file only, and otherwise what   *)
(* follows what is there.                                                  *)
LEMMA NextChunk ==
  ASSUME NEW f \in Files, NEW i \in Nat
  PROVE  LET k == Least(i * ChunkSize, Len(f))
             m == Least((i + 1) * ChunkSize, Len(f))
             data == SubSeq(f, i * ChunkSize + 1, m)
         IN  /\ data = <<>> => k = Len(f)
             /\ data # <<>> => k + Len(data) = m /\ SubSeq(f, 1, k) \o data = SubSeq(f, 1, m)
<1>. DEFINE n == i * ChunkSize
            k == Least(n, Len(f))
            m == Least(n + ChunkSize, Len(f))
            data == SubSeq(f, n + 1, m)
<1>1. n \in Nat /\ (i + 1) * ChunkSize = n + ChunkSize /\ Len(f) \in Nat
  BY ChunkAssumption DEF Files
<1>. HIDE DEF n
<1>2. CASE n < Len(f)
  <2>1. k = n /\ m \in n + 1 .. Len(f)
    BY <1>1, <1>2, ChunkAssumption DEF Least
  <2>. HIDE DEF m, k
  <2>2. \A j \in n + 1 .. m : f[j] \in Bytes
    BY <1>1, <2>1 DEF Files
  <2>3. Len(data) = m - n
    BY <1>1, <2>1, <2>2, SubSeqProperties
  <2>4. SubSeq(f, 1, n) \o data = SubSeq(f, 1, m)
    BY <1>1, <1>2, <2>1, ConcatAdjacentSubSeq DEF Files
  <2>5. data # <<>>
    BY <1>1, <2>1, <2>3
  <2>6. k + Len(data) = m
    BY <1>1, <2>1, <2>3
  <2>. HIDE DEF data
  <2>7. /\ data = <<>> => k = Len(f)
        /\ data # <<>> => k + Len(data) = m /\ SubSeq(f, 1, k) \o data = SubSeq(f, 1, m)
    BY <2>1, <2>4, <2>5, <2>6
  <2>. QED  BY <1>1, <2>7 DEF n, m, k, data
<1>3. CASE ~(n < Len(f))
  <2>1. k = Len(f) /\ m < n + 1 /\ m \in Int
    BY <1>1, <1>3, ChunkAssumption DEF Least
  <2>2. data = <<>>
    BY <1>1, <2>1, SubSeqEmpty
  <2>. HIDE DEF data, k, m
  <2>3. /\ data = <<>> => k = Len(f)
        /\ data # <<>> => k + Len(data) = m /\ SubSeq(f, 1, k) \o data = SubSeq(f, 1, m)
    BY <2>1, <2>2
  <2>. QED  BY <1>1, <2>3 DEF n, m, k, data
<1>. QED  BY <1>2, <1>3

LEMMA StartDownloadAnswer ==
  ASSUME NEW b, IsBoard(b)
  PROVE  /\ StartDownload(b).board.card = b.card
         /\ StartDownload(b).answer.ok =>
              /\ request.name \in DOMAIN b.card
              /\ StartDownload(b).board.session.name = request.name
              /\ StartDownload(b).answer.data = b.card[request.name]
  BY DEF StartDownload, Said, IsBoard

LEMMA CallStartDownload ==
  ASSUME IsBoard(board), NEW arg, Call("start_download", arg)
  PROVE  /\ board'.card = board.card
         /\ Works => /\ request.name \in DOMAIN board.card
                     /\ board'.session.name = request.name
                     /\ answer'.data = board.card[request.name]
<1>. DEFINE once  == StartDownload(board)
            twice == StartDownload(once.board)
<1>1. \A b : Runs(b, "start_download", arg) = StartDownload(b)
  BY DEF Runs
<1>2. IsBoard(once.board) /\ once.board.card = board.card /\ twice.board.card = board.card
  BY StartDownloadBoard, StartDownloadAnswer
<1>3. once.answer.ok =>
        /\ request.name \in DOMAIN board.card
        /\ once.board.session.name = request.name
        /\ once.answer.data = board.card[request.name]
  BY StartDownloadAnswer
<1>4. twice.answer.ok =>
        /\ twice.board.session.name = request.name
        /\ request.name \in DOMAIN once.board.card
        /\ twice.answer.data = once.board.card[request.name]
  BY <1>2, StartDownloadAnswer
<1>5. Runs(board, "start_download", arg) = once /\ Runs(once.board, "start_download", arg) = twice
  BY <1>1
<1>. HIDE DEF once, twice
<1>6. \/ board' = once.board /\ answer' = once.answer
      \/ board' = twice.board /\ answer' = twice.answer
      \/ board' \in {board, once.board} /\ ~Works
  BY <1>5, CallOutcomes DEF Works
<1>. QED  BY <1>2, <1>3, <1>4, <1>6 DEF Works

LEMMA CallRead ==
  ASSUME NEW i, Call("read_chunk", i)
  PROVE  /\ board' = board
         /\ Works => /\ Open(board, "read")
                     /\ answer'.data = SubSeq(Content(board), i * ChunkSize + 1,
                                              Least((i + 1) * ChunkSize, Len(Content(board))))
<1>. DEFINE once == ReadChunk(board, i)
<1>1. Runs(board, "read_chunk", i) = once /\ once.board = board
  BY ReadChunkBoard DEF Runs
<1>2. Open(board, "read") =>
        once.answer.data = SubSeq(Content(board), i * ChunkSize + 1,
                                  Least((i + 1) * ChunkSize, Len(Content(board))))
  BY DEF ReadChunk, Said
<1>3. ~Open(board, "read") => ~once.answer.ret
  BY DEF ReadChunk, Denied, NoAnswer
<1>. HIDE DEF once
<1>4. board' = board /\ (answer' = once.answer \/ ~Works)
  BY <1>1, CallOutcomes DEF Works
<1>. QED  BY <1>2, <1>3, <1>4 DEF Works

LEMMA LoadingStep == Inv /\ Loading /\ [Next]_vars => Loading'
<1>. SUFFICES ASSUME Inv, Loading, [Next]_vars PROVE Loading'
  OBVIOUS
<1>0. IsBoard(board)
  BY DEF Inv
<1>. USE DEF Loading, Reading, Wanted, Holds, At, Goes, Quiet, cache, counts
<1>1. CASE AsksUpload \/ AsksDownload \/ AsksPathOp
  BY <1>1 DEF AsksUpload, AsksDownload, AsksPathOp, Asks
<1>2. CASE Leaves
  BY <1>2 DEF Leaves
<1>3. CASE NoUpload \/ ParsesHeader \/ NoFirstChunk \/ ChunkMissing
  BY <1>3 DEF NoUpload, ParsesHeader, NoFirstChunk, ChunkMissing, UploadError
<1>4. CASE StartsUpload \/ WritesFirstChunk \/ WritesChunk
  BY <1>4 DEF StartsUpload, WritesFirstChunk, WritesChunk, Went, UploadFails, UploadError
<1>5. CASE FinishesUpload \/ RunsPathOp \/ Invalidates
  BY <1>5 DEF FinishesUpload, RunsPathOp, Invalidates, Forgets
<1>6. CASE RepliesUpload \/ Drains \/ RepliesPathOp
  BY <1>6 DEF RepliesUpload, Drains, RepliesPathOp, Sees, Failing, Compares
<1>7. CASE StartsDownload
  <2>1. /\ board'.card = board.card
        /\ Works => /\ request.name \in DOMAIN board.card
                    /\ board'.session.name = request.name
                    /\ answer'.data = board.card[request.name]
    BY <1>0, <1>7, CallStartDownload DEF StartsDownload
  <2>2. CASE Works
    <3>1. Wanted \in Files /\ Len(Wanted) \in Nat
      BY <1>0, <2>1, <2>2 DEF IsBoard, Files
    <3>2. 0 * ChunkSize = 0 /\ Least(0 * ChunkSize, Len(Wanted)) = 0
      BY <3>1, ChunkAssumption DEF Least
    <3>3. SubSeq(Wanted, 1, 0) = <<>>
      BY SubSeqEmpty
    <3>4. copy = <<>> /\ moved = 0 /\ index = 0 /\ UNCHANGED <<request, copy, moved, index>>
      BY <1>7 DEF StartsDownload
    <3>5. pc' = "read" /\ size' = Len(Wanted) /\ Wanted' = Wanted /\ page' = page /\ page # "complete"
      BY <1>7, <2>1, <2>2 DEF StartsDownload
    <3>6. Reading'
      BY <2>1, <2>2, <3>1, <3>2, <3>3, <3>4, <3>5
    <3>. QED  BY <3>5, <3>6
  <2>3. CASE ~Works
    BY <1>7, <2>1, <2>3 DEF StartsDownload, Sees
  <2>. QED  BY <2>2, <2>3
<1>8. CASE NoDownload
  BY <1>8 DEF NoDownload, Sees
<1>9. CASE ReadsChunk
  <2>1. Reading /\ pc = "read" /\ moved < size
    BY <1>9 DEF ReadsChunk
  <2>2. Wanted \in Files /\ Len(Wanted) \in Nat
    BY <1>0, <2>1 DEF IsBoard, Files
  <2>. DEFINE m == Least((index + 1) * ChunkSize, Len(Wanted))
              data == SubSeq(Wanted, index * ChunkSize + 1, m)
  <2>3. /\ board' = board
        /\ Works => answer'.data = data
    <3>1. /\ board' = board
          /\ Works => /\ Open(board, "read")
                      /\ answer'.data = SubSeq(Content(board), index * ChunkSize + 1,
                                 Least((index + 1) * ChunkSize, Len(Content(board))))
      BY <1>9, CallRead DEF ReadsChunk
    <3>2. Open(board, "read") => Content(board) = Wanted
      BY <2>1 DEF Open, Content
    <3>. QED  BY <3>1, <3>2
  <2>4. /\ data = <<>> => moved = Len(Wanted)
        /\ data # <<>> => /\ moved + Len(data) = m
                          /\ SubSeq(Wanted, 1, moved) \o data = SubSeq(Wanted, 1, m)
    BY <2>1, <2>2, NextChunk
  <2>5. Wanted' = Wanted /\ request' = request /\ size' = size /\ page # "complete"
    BY <1>9, <2>1, <2>3 DEF ReadsChunk
  <2>6. CASE BreaksOff
    BY <2>5, <2>6 DEF BreaksOff, Sees
  <2>7. CASE Works /\ data = <<>> /\ Goes("end") /\ UNCHANGED <<page, copy, moved, index>>
    <3>1. copy = Wanted
      BY <2>1, <2>2, <2>4, <2>7, SubSeqFull DEF Files
    <3>. QED  BY <2>1, <2>3, <2>5, <2>7, <3>1
  <2>8. CASE Works /\ data # <<>> /\ Sends(data)
    <3>1. moved' = m /\ copy' = SubSeq(Wanted, 1, m) /\ index' = index + 1
          /\ UNCHANGED <<page, pc>>
      BY <2>1, <2>4, <2>8 DEF Sends
    <3>. HIDE DEF data
    <3>2. index' \in Nat /\ moved' = Least(index' * ChunkSize, Len(Wanted))
      BY <2>1, <3>1
    <3>. QED  BY <2>1, <2>3, <2>5, <3>1, <3>2
  <2>. HIDE DEF data
  <2>9. \/ BreaksOff
        \/ Works /\ data = <<>> /\ Goes("end") /\ UNCHANGED <<page, copy, moved, index>>
        \/ Works /\ data # <<>> /\ Sends(data)
    BY <1>9, <2>3 DEF ReadsChunk
  <2>. QED  BY <2>6, <2>7, <2>8, <2>9
<1>10. CASE EndsDownload
  <2>1. CASE pc = "end"
    BY <1>10, <2>1 DEF EndsDownload, Sees
  <2>2. CASE pc = "read"
    <3>1. Reading /\ moved >= size
      BY <1>10, <2>2 DEF EndsDownload
    <3>2. Wanted \in Files /\ Len(Wanted) \in Nat
      BY <1>0, <3>1 DEF IsBoard, Files
    <3>3. index * ChunkSize \in Nat
      BY <3>1, ChunkAssumption
    <3>4. moved = Len(Wanted)
      BY <3>1, <3>2, <3>3 DEF Least
    <3>5. copy = Wanted
      BY <3>1, <3>2, <3>4, SubSeqFull DEF Files
    <3>. QED  BY <1>10, <2>2, <3>1, <3>5 DEF EndsDownload, Sees
  <2>. QED  BY <1>10, <2>1, <2>2 DEF EndsDownload
<1>11. CASE Reconnects
  <2>1. board'.card = board.card /\ board'.session.mode # "read"
    BY <1>0, <1>11 DEF Reconnects, IsBoard, Closed, Elsewhere
  <2>. QED  BY <1>11, <2>1 DEF Reconnects, Elsewhere
<1>12. CASE PanelLists \/ PanelAsks \/ PanelEnds
  BY <1>12 DEF PanelLists, PanelAsks, PanelEnds, Elsewhere
<1>13. CASE UNCHANGED vars
  BY <1>13 DEF vars
<1>. QED
  BY <1>1, <1>2, <1>3, <1>4, <1>5, <1>6, <1>7, <1>8, <1>9, <1>10, <1>11, <1>12, <1>13
     DEF Next, Httpd, Uploads, Downloads

(* A download that the page sees end is the whole file: no session reset,  *)
(* refused, lost or repeated call leaves a hole in it or ends it early     *)
(* (api_download_handler).                                                 *)
THEOREM CompleteIsWhole == Spec => []DownloadIsWhole
<1>1. Init => Loading
  BY DEF Init, Loading
<1>2. Loading => DownloadIsWhole
  BY DEF Loading, DownloadIsWhole
<1>. QED  BY <1>1, <1>2, InvAlways, LoadingStep, PTL DEF Spec

-----------------------------------------------------------------------------
(* An upload that nothing disturbs is not refused.  What is still to be    *)
(* read of the body is never less than what the loop waits for, and the    *)
(* board's session stays open for it until FINISH.                         *)
Smooth ==
  /\ page \notin {"failed", "network_error", "gone"} /\ pc # "drain"
  /\ request.size < Word
  /\ pc = "parse" => Len(body) = request.size + 4 /\ moved = 0
  /\ pc \in {"start", "first"} =>
       /\ size = request.size /\ moved = 0 /\ Len(first) >= 2
       /\ Len(first) + Len(body) = size + 4
  /\ pc \in {"first", "more"} => Open(board, "write")
  /\ pc = "more" =>
       size = request.size /\ moved \in Nat /\ moved <= size /\ Len(body) >= size - moved
  /\ pc \in {"invalidate", "reply"} => answer.ret /\ answer.ok
Undisturbed ==
  mishaps = {} /\ request.kind = "upload" /\ request.size > 0 /\ Len(first) # 1
Reason == Undisturbed => Smooth

LEMMA MishapsGrow == [Next]_vars => mishaps \subseteq mishaps'
<1>. SUFFICES ASSUME [Next]_vars PROVE mishaps \subseteq mishaps'
  OBVIOUS
<1>1. ASSUME NEW command, NEW arg, Call(command, arg) PROVE mishaps \subseteq mishaps'
  BY <1>1 DEF Call, Mishap
<1>2. CASE AsksUpload \/ AsksDownload \/ AsksPathOp \/ Leaves \/ Reconnects \/ PanelLists
           \/ PanelAsks \/ PanelEnds \/ UNCHANGED vars
  BY <1>2 DEF AsksUpload, AsksDownload, AsksPathOp, Asks, Leaves, Mishap, Reconnects, PanelLists,
              PanelAsks, PanelEnds, vars
<1>3. CASE StartsUpload \/ WritesFirstChunk \/ WritesChunk \/ FinishesUpload
  BY <1>1, <1>3 DEF StartsUpload, WritesFirstChunk, WritesChunk, FinishesUpload
<1>4. CASE StartsDownload \/ ReadsChunk \/ RunsPathOp
  BY <1>1, <1>4 DEF StartsDownload, ReadsChunk, RunsPathOp
<1>5. CASE NoUpload \/ ParsesHeader \/ NoFirstChunk \/ ChunkMissing \/ RepliesUpload \/ Drains
  BY <1>5 DEF NoUpload, Mishap, ParsesHeader, NoFirstChunk, ChunkMissing, RepliesUpload, Drains
<1>6. CASE NoDownload \/ EndsDownload \/ Invalidates \/ RepliesPathOp
  BY <1>6 DEF NoDownload, Mishap, EndsDownload, Invalidates, Forgets, RepliesPathOp
<1>. QED  BY <1>2, <1>3, <1>4, <1>5, <1>6 DEF Next, Httpd, Uploads, Downloads

(* A call nothing happens to is run once.                                  *)
LEMMA CallOnce ==
  ASSUME NEW command, NEW arg, Call(command, arg), mishaps' = {}
  PROVE  /\ board' = Runs(board, command, arg).board
         /\ answer' = Runs(board, command, arg).answer
  BY DEF Call, Mishap

LEMMA BytesLeft ==
  ASSUME NEW s \in Nat, NEW m \in Nat, m <= s, s < Word
  PROVE  (s + Word - m) % Word = s - m
<1>1. s + Word - m = (s - m) + Word /\ s - m \in 0 .. Word - 1
  BY SizesAssumption
<1>2. ASSUME NEW x \in 0 .. Word - 1 PROVE (x + Word) % Word = x
  BY <1>2, SizesAssumption
<1>. QED  BY <1>1, <1>2

LEMMA BytesMoved ==
  ASSUME NEW m \in 0 .. Word - 1
  PROVE  m % Word = m
  BY SizesAssumption

(* Where the header ends in the first piece, and what of the file follows. *)
LEMMA FirstPiece ==
  ASSUME first \in Files, size \in Nat, size > 0
  PROVE  /\ Len(first) > 3 <=> FirstData # <<>>
         /\ Len(first) > 3 => Len(FirstData) = Least(Len(first), 3 + size) - 3
<1>. DEFINE m == Least(Len(first), 3 + size)
<1>1. Len(first) \in Nat /\ m \in Nat /\ m <= Len(first)
  BY DEF Files, Least
<1>2. CASE Len(first) > 3
  <2>1. m >= 4
    BY <1>1, <1>2 DEF Least
  <2>2. \A k \in 4 .. m : first[k] \in Bytes
    BY <1>1 DEF Files
  <2>. HIDE DEF m
  <2>3. Len(SubSeq(first, 4, m)) = m - 3
    BY <1>1, <2>1, <2>2, SubSeqProperties
  <2>4. SubSeq(first, 4, m) # <<>>
    BY <1>1, <2>1, <2>3
  <2>. QED  BY <1>2, <2>3, <2>4 DEF FirstData, m
<1>3. CASE ~(Len(first) > 3)
  <2>1. m \in Int /\ m < 4
    BY <1>1, <1>3
  <2>. HIDE DEF m
  <2>2. SubSeq(first, 4, m) = <<>>
    BY <2>1, SubSeqEmpty
  <2>. QED  BY <1>3, <2>2 DEF FirstData, m
<1>. QED  BY <1>2, <1>3

LEMMA ReceivedLengths ==
  ASSUME body \in Files, NEW n, Receives(n)
  PROVE  /\ n \in Nat /\ n >= 1 /\ n <= Len(body)
         /\ Len(SubSeq(body, 1, n)) = n /\ Len(body') = Len(body) - n
<1>1. n \in 1 .. Len(body) /\ body' = SubSeq(body, n + 1, Len(body)) /\ Len(body) \in Nat
  BY DEF Receives, Files
<1>2. \A k \in 1 .. Len(body) : body[k] \in Bytes
  BY DEF Files
<1>3. Len(SubSeq(body, 1, n)) = n
  BY <1>1, <1>2, SubSeqProperties
<1>4. Len(SubSeq(body, n + 1, Len(body))) = Len(body) - n
  <2>1. CASE n < Len(body)
    <3>1. n + 1 \in Nat /\ n + 1 <= Len(body) /\ n + 1 >= 1
      BY <1>1, <2>1
    <3>. QED  BY <1>1, <1>2, <3>1, SubSeqProperties
  <2>2. CASE n = Len(body)
    <3>1. SubSeq(body, n + 1, Len(body)) = <<>>
      BY <1>1, <2>2, SubSeqEmpty
    <3>. QED  BY <1>1, <2>2, <3>1
  <2>. QED  BY <1>1, <2>1, <2>2
<1>. QED  BY <1>1, <1>3, <1>4

LEMMA BodyLength ==
  ASSUME NEW n \in Nat
  PROVE  Len(Body(n)) = n + 4
<1>1. /\ File("header", 3) \in Files /\ Len(File("header", 3)) = 3
      /\ File("data", n) \in Files /\ Len(File("data", n)) = n
      /\ File("boundary", 1) \in Files /\ Len(File("boundary", 1)) = 1
  <2>1. \A tag : \A k \in Nat : Len(File(tag, k)) = k
    BY DEF File
  <2>. QED  BY <2>1, FileIsFile
<1>2. ASSUME NEW f \in Files, NEW g \in Files
      PROVE  f \o g \in Files /\ Len(f \o g) = Len(f) + Len(g)
  BY <1>2, ConcatProperties DEF Files
<1>3. PICK h, d, e \in Files : /\ Len(h) = 3 /\ Len(d) = n /\ Len(e) = 1
                               /\ Body(n) = (h \o d) \o e
  BY <1>1 DEF Body, Header
<1>4. h \o d \in Files /\ Len(h \o d) = 3 + n
  BY <1>2, <1>3
<1>5. Len((h \o d) \o e) = Len(h \o d) + 1
  BY <1>2, <1>3, <1>4
<1>. QED  BY <1>3, <1>4, <1>5

(* With its session open, the board writes every chunk and finishes.       *)
LEMMA OpenServes ==
  ASSUME NEW b, IsBoard(b), Open(b, "write"), NEW data \in Files
  PROVE  /\ Open(WriteChunk(b, data).board, "write")
         /\ WriteChunk(b, data).answer.ret /\ WriteChunk(b, data).answer.ok
         /\ FinishUpload(b).answer.ret /\ FinishUpload(b).answer.ok
<1>1. Content(b) \o data \in Files
  BY ConcatProperties DEF Open, Content, IsBoard, Files
<1>. DEFINE s == Stored(b, b.session.name, Content(b) \o data)
<1>2. s.session = b.session /\ b.session.name \in DOMAIN s.card
  BY <1>1, StoredBoard
<1>3. WriteChunk(b, data).board = s
  BY DEF WriteChunk, Said
<1>. HIDE DEF s
<1>4. Open(WriteChunk(b, data).board, "write")
  BY <1>2, <1>3 DEF Open
<1>5. WriteChunk(b, data).answer.ret /\ WriteChunk(b, data).answer.ok
  BY DEF WriteChunk, Said
<1>6. FinishUpload(b).answer.ret /\ FinishUpload(b).answer.ok
  BY DEF FinishUpload, Said
<1>. QED  BY <1>4, <1>5, <1>6

LEMMA StartOpens ==
  ASSUME NEW b, IsBoard(b)
  PROVE  /\ Open(StartUpload(b).board, "write")
         /\ StartUpload(b).answer.ret /\ StartUpload(b).answer.ok
<1>. DEFINE s == Stored(b, request.to, <<>>)
<1>1. IsBoard(s) /\ DOMAIN s.card = DOMAIN b.card \cup {request.to}
  BY StoredBoard, EmptySeq DEF Files
<1>2. StartUpload(b).board = [s EXCEPT !.session = [mode |-> "write", name |-> request.to]]
  BY DEF StartUpload, Said
<1>. HIDE DEF s
<1>3. Open(StartUpload(b).board, "write")
  BY <1>1, <1>2 DEF IsBoard, Open
<1>. QED  BY <1>3 DEF StartUpload, Said

LEMMA SmoothAsks ==
  ASSUME Inv, AsksUpload \/ AsksDownload \/ AsksPathOp, Undisturbed'
  PROVE  Smooth'
<1>1. PICK name \in Names, n \in Sizes, checked \in BOOLEAN :
        Asks("upload", name, name, n, checked, "parse")
  BY DEF AsksUpload, AsksDownload, AsksPathOp, Asks, Undisturbed
<1>2. n \in Nat /\ n < Word
  BY SizesAssumption
<1>3. Len(Body(n)) = n + 4
  BY <1>2, BodyLength
<1>. QED  BY <1>1, <1>2, <1>3 DEF Asks, Goes, Smooth

(* The steps that call the board.                                          *)
LEMMA SmoothCalls ==
  ASSUME Inv, Smooth, Undisturbed, mishaps' = {}, UNCHANGED request,
         StartsUpload \/ WritesFirstChunk \/ WritesChunk \/ FinishesUpload
  PROVE  Smooth'
<1>. USE DEF At, Goes, Quiet
<1>0. /\ IsBoard(board) /\ body \in Files /\ first \in Files
      /\ request.size \in Nat /\ size \in Nat /\ request.size > 0
  BY DEF Inv, Undisturbed, Requests
<1>1. CASE StartsUpload
  <2>1. Call("start_upload", <<>>) /\ pc = "start"
    BY <1>1 DEF StartsUpload
  <2>2. board' = StartUpload(board).board /\ answer' = StartUpload(board).answer
    BY <2>1, CallOnce DEF Runs
  <2>3. Works /\ Open(board', "write")
    BY <1>0, <2>2, StartOpens DEF Works
  <2>4. Went("first") /\ UNCHANGED <<moved, body>>
    BY <1>1, <2>3 DEF StartsUpload, UploadFails
  <2>. QED  BY <2>1, <2>3, <2>4 DEF Smooth, Went
<1>2. CASE WritesFirstChunk
  <2>1. Call("write_chunk", FirstData) /\ pc = "first" /\ FirstData # <<>>
    BY <1>2 DEF WritesFirstChunk
  <2>2. /\ size = request.size /\ Len(first) + Len(body) = size + 4 /\ Open(board, "write")
    BY <2>1 DEF Smooth
  <2>3. Len(first) \in Nat /\ Len(body) \in Nat
    BY <1>0 DEF Files
  <2>4. Len(first) > 3 /\ Len(FirstData) = Least(Len(first), 3 + size) - 3
    BY <1>0, <2>1, <2>2, FirstPiece
  <2>5. FirstData \in Files
    <3>1. Least(Len(first), 3 + size) \in Nat /\ Least(Len(first), 3 + size) <= Len(first)
      BY <1>0, <2>3 DEF Least
    <3>. QED  BY <1>0, <3>1, PieceIsFile DEF FirstData
  <2>6. board' = WriteChunk(board, FirstData).board /\ answer' = WriteChunk(board, FirstData).answer
    BY <2>1, CallOnce DEF Runs
  <2>7. Works /\ Open(board', "write")
    BY <1>0, <2>2, <2>5, <2>6, OpenServes DEF Works
  <2>8. Went("more") /\ moved' = Len(FirstData) /\ UNCHANGED body
    BY <1>2, <2>7 DEF WritesFirstChunk, UploadFails
  <2>9. moved' \in Nat /\ moved' <= size /\ Len(body) >= size - moved'
    BY <1>0, <2>2, <2>3, <2>4, <2>8 DEF Least
  <2>. QED  BY <2>2, <2>7, <2>8, <2>9 DEF Smooth, Went
<1>3. CASE WritesChunk
  <2>1. pc = "more" /\ Remaining > 0
    BY <1>3 DEF WritesChunk
  <2>2. /\ size = request.size /\ moved \in Nat /\ moved <= size /\ size < Word
        /\ Len(body) >= size - moved /\ Open(board, "write")
    BY <2>1 DEF Smooth
  <2>3. Remaining = size - moved
    BY <1>0, <2>2, BytesLeft DEF Remaining
  <2>4. PICK n \in 1 .. Least(Remaining, ChunkSize) :
          /\ Receives(n)
          /\ Call("write_chunk", SubSeq(body, 1, n))
          /\ \/ Went("more") /\ moved' = (moved + n) % Word
             \/ UploadFails
    BY <1>3 DEF WritesChunk
  <2>5. SubSeq(body, 1, n) \in Files
    BY <1>0, <2>4, ReceivedIsFile
  <2>6. /\ board' = WriteChunk(board, SubSeq(body, 1, n)).board
        /\ answer' = WriteChunk(board, SubSeq(body, 1, n)).answer
    BY <2>4, CallOnce DEF Runs
  <2>7. Works /\ Open(board', "write")
    BY <1>0, <2>2, <2>5, <2>6, OpenServes DEF Works
  <2>8. Went("more") /\ moved' = (moved + n) % Word
    BY <2>4, <2>7 DEF UploadFails
  <2>9. n \in Nat /\ n <= size - moved
    BY <1>0, <2>2, <2>3, ChunkAssumption DEF Least
  <2>10. moved' = moved + n
    <3>1. moved + n \in 0 .. Word - 1
      BY <1>0, <2>2, <2>9, SizesAssumption
    <3>. QED  BY <2>8, <3>1, BytesMoved
  <2>11. Len(body') = Len(body) - n /\ Len(body) \in Nat
    <3>1. Len(body') = Len(body) - n
      BY <1>0, <2>4, ReceivedLengths
    <3>. QED  BY <1>0, <3>1 DEF Files
  <2>12. moved' \in Nat /\ moved' <= size /\ Len(body') >= size - moved'
    BY <1>0, <2>2, <2>9, <2>10, <2>11
  <2>. QED  BY <2>2, <2>7, <2>8, <2>12 DEF Smooth, Went
<1>4. CASE FinishesUpload
  <2>1. Call("finish_upload", <<>>) /\ pc = "more" /\ pc' = "invalidate" /\ page' = page
    BY <1>4 DEF FinishesUpload
  <2>2. board' = FinishUpload(board).board /\ answer' = FinishUpload(board).answer
    BY <2>1, CallOnce DEF Runs
  <2>3. answer'.ret /\ answer'.ok
    <3>1. Open(board, "write") /\ <<>> \in Files
      BY <2>1, EmptySeq DEF Smooth, Files
    <3>. QED  BY <1>0, <2>2, <3>1, OpenServes
  <2>. QED  BY <2>1, <2>3 DEF Smooth
<1>. QED  BY <1>1, <1>2, <1>3, <1>4

(* The steps that do not.                                                  *)
LEMMA SmoothRest ==
  ASSUME Inv, Smooth, Undisturbed, mishaps' = {}, UNCHANGED request,
         \/ NoUpload \/ NoFirstChunk \/ ChunkMissing
         \/ Invalidates \/ RepliesUpload \/ Drains
  PROVE  Smooth'
<1>. USE DEF At, Goes, Quiet
<1>0. /\ body \in Files /\ first \in Files
      /\ request.size \in Nat /\ size \in Nat /\ request.size > 0
  BY DEF Inv, Undisturbed, Requests
<1>1. Len(body) \in Nat /\ Len(first) \in Nat
  BY <1>0 DEF Files
<1>2. NothingComes => Len(body) = 0
  <2>1. page # "gone"
    BY DEF Smooth
  <2>2. body = <<>> => Len(body) = 0
    OBVIOUS
  <2>. QED  BY <2>1, <2>2 DEF NothingComes, Gone
<1>3. CASE NoUpload
  <2>1. pc = "parse" /\ NothingComes
    BY <1>3 DEF NoUpload, Mishap
  <2>2. Len(body) = request.size + 4
    BY <2>1 DEF Smooth
  <2>. QED  BY <1>0, <1>2, <2>1, <2>2
<1>5. CASE NoFirstChunk
  <2>1. /\ pc = "first" /\ size = request.size /\ moved = 0
        /\ Len(first) + Len(body) = size + 4 /\ Open(board, "write")
    BY <1>5 DEF NoFirstChunk, Smooth
  <2>2. ~(Len(first) > 3 /\ FirstData = <<>>)
    BY <1>0, <2>1, FirstPiece
  <2>3. Len(first) <= 3 /\ pc' = "more" /\ UNCHANGED <<page, counts, body, board, answer>>
    BY <1>5, <2>2 DEF NoFirstChunk
  <2>4. moved \in Nat /\ moved <= size /\ Len(body) >= size - moved
    BY <1>0, <1>1, <2>1, <2>3
  <2>. QED  BY <2>1, <2>3, <2>4 DEF Smooth, Open, counts
<1>6. CASE ChunkMissing
  <2>1. pc = "more" /\ Remaining > 0 /\ NothingComes
    BY <1>6 DEF ChunkMissing
  <2>2. /\ size = request.size /\ moved \in Nat /\ moved <= size /\ size < Word
        /\ Len(body) >= size - moved
    BY <2>1 DEF Smooth
  <2>3. Remaining = size - moved
    BY <1>0, <2>2, BytesLeft DEF Remaining
  <2>. QED  BY <1>0, <1>2, <2>1, <2>2, <2>3
<1>7. CASE Invalidates
  BY <1>7 DEF Invalidates, Forgets, Smooth
<1>8. CASE RepliesUpload
  <2>1. pc = "reply" /\ answer.ret /\ answer.ok
    BY <1>8 DEF RepliesUpload, Smooth
  <2>2. Sees(Compares) /\ pc' = "idle"
    BY <1>8, <2>1 DEF RepliesUpload
  <2>3. page' \in {"verified", "saved", "corrupt"}
    BY <2>2 DEF Sees, Gone, Compares, Smooth
  <2>. QED  BY <2>2, <2>3 DEF Smooth
<1>9. CASE Drains
  BY <1>9 DEF Drains, Smooth
<1>. QED  BY <1>3, <1>5, <1>6, <1>7, <1>8, <1>9

(* The first piece holds the file name; what it leaves is to come.         *)
LEMMA SmoothParses ==
  ASSUME Inv, Smooth, Undisturbed, Undisturbed', ParsesHeader
  PROVE  Smooth'
<1>. USE DEF At, Goes, Quiet
<1>0. body \in Files /\ request.size \in Nat
  BY DEF Inv, Requests
<1>1. PICK n \in 1 .. ChunkSize :
        /\ Receives(n) /\ first' = SubSeq(body, 1, n)
        /\ n >= 2 => pc' = "start" /\ size' = request.size /\ request' = request
  BY DEF ParsesHeader
<1>2. Len(first') = n /\ Len(body') = Len(body) - n /\ n \in Nat
  BY <1>0, <1>1, ReceivedLengths
<1>3. n >= 2 /\ n \in Nat
  BY <1>1, <1>2, ChunkAssumption DEF Undisturbed
<1>4. pc = "parse" /\ page' = page /\ moved' = 0
  BY DEF ParsesHeader, Smooth
<1>5. Len(body) = request.size + 4 /\ Len(body) \in Nat
  BY <1>0, <1>4 DEF Smooth, Files
<1>6. Len(first') + Len(body') = size' + 4
  BY <1>0, <1>1, <1>2, <1>3, <1>5
<1>. QED  BY <1>1, <1>2, <1>3, <1>4, <1>6 DEF Smooth

LEMMA ReasonStep == Inv /\ Reason /\ [Next]_vars => Reason'
<1>. SUFFICES ASSUME Inv, Reason, [Next]_vars, Undisturbed' PROVE Smooth'
  BY DEF Reason
<1>. USE DEF At, Goes, Quiet
<1>1. mishaps = {} /\ mishaps' = {}
  BY MishapsGrow DEF Undisturbed
<1>2. CASE AsksUpload \/ AsksDownload \/ AsksPathOp
  BY <1>2, SmoothAsks
<1>3. CASE ~(AsksUpload \/ AsksDownload \/ AsksPathOp)
  <2>1. request'.kind = request.kind /\ request'.size = request.size
        /\ (ParsesHeader \/ UNCHANGED <<request, first>>)
    <3>1. CASE ParsesHeader
      BY <3>1 DEF ParsesHeader, Inv, Requests
    <3>2. CASE ~ParsesHeader
      BY <1>3, <3>2 DEF Next, Httpd, Uploads, Downloads, Leaves, Reconnects, PanelLists, PanelAsks,
         PanelEnds, Elsewhere, StartsUpload, WritesFirstChunk, WritesChunk, FinishesUpload,
         StartsDownload, ReadsChunk, RunsPathOp, NoUpload, NoFirstChunk, ChunkMissing,
         RepliesUpload, Drains, NoDownload, EndsDownload, Invalidates, Forgets, RepliesPathOp,
         Went, UploadFails, UploadError, vars, counts
    <3>. QED  BY <3>1, <3>2
  <2>2. Undisturbed /\ Smooth
    <3>1. Len(first) # 1
      <4>1. CASE ParsesHeader
        BY <4>1 DEF ParsesHeader, Inv
      <4>. QED  BY <2>1, <4>1 DEF Undisturbed
    <3>. QED  BY <1>1, <2>1, <3>1 DEF Undisturbed, Reason
  <2>3. CASE StartsUpload \/ WritesFirstChunk \/ WritesChunk \/ FinishesUpload
    <3>1. ~ParsesHeader \/ request' = request
      BY <2>3 DEF StartsUpload, WritesFirstChunk, WritesChunk, FinishesUpload, Went, UploadFails,
                  UploadError
    <3>. QED  BY <1>1, <2>1, <2>2, <2>3, <3>1, SmoothCalls
  <2>4. CASE \/ NoUpload \/ NoFirstChunk \/ ChunkMissing
             \/ Invalidates \/ RepliesUpload \/ Drains
    <3>1. ~ParsesHeader \/ request' = request
      BY <2>4 DEF NoUpload, NoFirstChunk, ChunkMissing, Invalidates, Forgets, RepliesUpload, Drains,
                  UploadError
    <3>. QED  BY <1>1, <2>1, <2>2, <2>4, <3>1, SmoothRest
  <2>8. CASE ParsesHeader
    BY <2>2, <2>8, SmoothParses
  <2>5. CASE Downloads \/ RunsPathOp \/ RepliesPathOp
    <3>1. pc \in {"open", "read", "end", "path"} \/ request.kind # "upload"
      BY <2>5 DEF Downloads, StartsDownload, NoDownload, ReadsChunk, EndsDownload, RunsPathOp,
                  RepliesPathOp
    <3>. QED  BY <2>2, <3>1 DEF Undisturbed, Inv, KindFits, PathKinds
  <2>6. CASE Leaves \/ Reconnects
    BY <1>1, <2>6 DEF Leaves, Reconnects, Mishap
  <2>7. CASE PanelLists \/ PanelAsks \/ PanelEnds \/ UNCHANGED vars
    <3>1. UNCHANGED <<page, pc, body, size, moved, first, board, answer, request>>
      BY <2>7 DEF PanelLists, PanelAsks, PanelEnds, Elsewhere, vars, counts
    <3>. QED  BY <2>2, <3>1 DEF Smooth, Open
  <2>. QED  BY <1>3, <2>3, <2>4, <2>5, <2>6, <2>7, <2>8 DEF Next, Httpd, Uploads
<1>. QED  BY <1>2, <1>3

(* handle_file_upload refuses no upload of a file with a byte in it unless *)
(* a mishap happened or the first piece ended before the file name:        *)
(* wherever else the network cuts the body, for every size its counters    *)
(* can hold and every chunk size that holds the header.                    *)
THEOREM RefusesForAReason == Spec => []RefusedForAReason
<1>1. Init => Reason
  BY DEF Init, Reason, Undisturbed, NoRequest
<1>2. Reason => RefusedForAReason
  BY DEF Reason, Undisturbed, Smooth, RefusedForAReason
<1>. QED  BY <1>1, <1>2, InvAlways, ReasonStep, PTL DEF Spec

-----------------------------------------------------------------------------
(* The types.  The counters are of 32 bits, and a chunk that the I2C       *)
(* driver sends again is stored twice: no file of the page is longer than  *)
(* half of what a counter holds, or the panel could not tell its size when *)
(* it is downloaded.                                                       *)
Roomy == Word > 3 /\ \A n \in Sizes : 2 * n < Word

Pages == {"idle", "waiting", "gone", "verified", "corrupt", "saved", "done",
          "complete", "failed", "network_error"}
Places == {"idle", "parse", "start", "first", "more", "drain", "invalidate", "reply",
           "path", "open", "read", "end"}
Mishaps == {"resent", "refused", "lost", "late", "gone", "memory", "reset"}
Control ==
  /\ page \in Pages /\ pc \in Places /\ loaded \in BOOLEAN /\ mishaps \subseteq Mishaps
  /\ request.kind \in {"none", "upload", "download"} \cup PathKinds

BoardFits(b) ==
  /\ IsBoard(b) /\ DOMAIN b.card \subseteq Names
  /\ \A n \in DOMAIN b.card : Len(b.card[n]) < Word
  /\ b.session.mode \in {"none", "read", "write"} /\ b.session.name \in Names

Asked ==
  /\ request.name \in Names /\ request.to \in Names /\ listed \subseteq Names
  /\ request.size \in Nat /\ 2 * request.size < Word
  /\ requests \in 0 .. MaxRequests /\ (requests = 0 => index = 0 /\ pc = "idle")

Counters ==
  /\ size \in Nat /\ moved \in Nat /\ index \in Nat
  /\ moved <= size /\ size < Word /\ index <= moved
  /\ pc \in {"start", "first", "more"} => size = request.size
  /\ pc \in {"parse", "start", "first", "open"} => moved = 0

(* What an upload has stored so far: no chunk more than twice.             *)
Storing == pc \in {"first", "more"} /\ Open(board, "write") => Len(Content(board)) <= 2 * moved

Pieces ==
  /\ copy \in Files /\ Len(copy) <= moved
  /\ answer.data \in Files /\ Len(answer.data) < Word
  /\ Len(body) < 2 * Word /\ Len(first) < 2 * Word

Fits == Control /\ BoardFits(board) /\ Asked /\ Counters /\ Storing /\ Pieces

LEMMA ControlStep == Inv /\ Control /\ [Next]_vars => Control'
<1>. SUFFICES ASSUME Inv, Control, [Next]_vars PROVE Control'
  OBVIOUS
<1>. USE DEF Control, At, Goes, Quiet, cache, counts
<1>1. ASSUME NEW kind \in {"upload", "download"} \cup PathKinds, NEW name, NEW to, NEW n,
             NEW checked, NEW at \in {"parse", "open", "path"},
             Asks(kind, name, to, n, checked, at)
      PROVE  Control'
  <2>1. request'.kind = kind
    BY <1>1 DEF Asks
  <2>2. page' = "waiting" /\ pc' = at /\ UNCHANGED <<loaded, mishaps>>
    BY <1>1 DEF Asks
  <2>. QED  BY <2>1, <2>2 DEF Pages, Places
<1>11. CASE AsksUpload
  BY <1>1, <1>11 DEF AsksUpload
<1>12. CASE AsksDownload
  BY <1>1, <1>12 DEF AsksDownload
<1>13. CASE AsksPathOp
  <2>1. PICK kind \in PathKinds, name \in Names, to \in Names : Asks(kind, name, to, 0, FALSE, "path")
    BY <1>13 DEF AsksPathOp, PathKinds
  <2>. QED  BY <1>1, <2>1
<1>2. CASE Leaves \/ Reconnects \/ PanelLists \/ PanelAsks \/ PanelEnds \/ UNCHANGED vars
  <2>1. UNCHANGED <<request, pc>>
    BY <1>2 DEF Leaves, Reconnects, PanelLists, PanelAsks, PanelEnds, Elsewhere, vars
  <2>2. page' \in Pages /\ loaded' \in BOOLEAN
    BY <1>2 DEF Leaves, Reconnects, PanelLists, PanelAsks, PanelEnds, Elsewhere, vars, Pages
  <2>3. mishaps' \subseteq Mishaps
    BY <1>2 DEF Leaves, Reconnects, PanelLists, PanelAsks, PanelEnds, Elsewhere, vars, Mishap, Mishaps
  <2>. QED  BY <2>1, <2>2, <2>3
<1>3. CASE Httpd
  <2>1. request'.kind = request.kind /\ loaded' \in BOOLEAN
    <3>1. CASE ParsesHeader
      <4>1. request \in Requests
        BY DEF Inv
      <4>2. request' = request \/ \E name \in Names : request' = [request EXCEPT !.to = name]
        BY <3>1 DEF ParsesHeader
      <4>3. request'.kind = request.kind
        BY <4>1, <4>2 DEF Requests
      <4>. QED  BY <3>1, <4>3 DEF ParsesHeader, Control
    <3>2. CASE ~ParsesHeader
      <4>1. UNCHANGED request
        BY <1>3, <3>2 DEF Httpd, Uploads, Downloads, NoUpload, StartsUpload, NoFirstChunk,
           WritesFirstChunk, WritesChunk, ChunkMissing, FinishesUpload, RepliesUpload, Drains,
           StartsDownload, NoDownload, ReadsChunk, EndsDownload, RunsPathOp, Invalidates, Forgets,
           RepliesPathOp, Went, UploadFails, UploadError
      <4>2. loaded' \in BOOLEAN
        BY <1>3, <3>2 DEF Httpd, Uploads, Downloads, NoUpload, StartsUpload, NoFirstChunk,
           WritesFirstChunk, WritesChunk, ChunkMissing, FinishesUpload, RepliesUpload, Drains,
           StartsDownload, NoDownload, ReadsChunk, EndsDownload, RunsPathOp, Invalidates, Forgets,
           RepliesPathOp, Went, UploadFails, UploadError
      <4>. QED  BY <4>1, <4>2
    <3>. QED  BY <3>1, <3>2
  <2>2. pc' \in Places
    <3>1. CASE Uploads
      BY <3>1 DEF Uploads, NoUpload, ParsesHeader, StartsUpload, NoFirstChunk,
         WritesFirstChunk, WritesChunk, ChunkMissing, FinishesUpload, RepliesUpload, Drains,
         Went, UploadFails, UploadError, Places
    <3>2. CASE ~Uploads
      BY <1>3, <3>2 DEF Httpd, Downloads, StartsDownload, NoDownload, ReadsChunk, EndsDownload,
         RunsPathOp, Invalidates, Forgets, RepliesPathOp, BreaksOff, Sends, Places
    <3>. QED  BY <3>1, <3>2
  <2>3. page' \in Pages
    <3>1. ASSUME NEW verdict \in Pages, Sees(verdict) PROVE page' \in Pages
      BY <3>1 DEF Sees, Pages
    <3>2. CASE NoUpload \/ ParsesHeader \/ StartsUpload \/ NoFirstChunk \/ WritesFirstChunk
               \/ WritesChunk \/ ChunkMissing \/ FinishesUpload \/ RunsPathOp \/ Invalidates
      BY <3>2 DEF NoUpload, ParsesHeader, StartsUpload, NoFirstChunk, WritesFirstChunk, WritesChunk,
         ChunkMissing, FinishesUpload, RunsPathOp, Invalidates, Forgets, Went, UploadFails, UploadError
    <3>3. Failing => page' \in Pages
      BY <3>1 DEF Failing, Pages
    <3>4. Compares \in Pages
      BY DEF Compares, Pages
    <3>5. CASE RepliesUpload \/ Drains
      BY <3>1, <3>3, <3>4, <3>5 DEF RepliesUpload, Drains
    <3>6. CASE RepliesPathOp
      BY <3>1, <3>6 DEF RepliesPathOp, Pages
    <3>7. CASE Downloads
      BY <3>1, <3>7 DEF Downloads, StartsDownload, NoDownload, ReadsChunk, EndsDownload, BreaksOff,
         Sends, Pages
    <3>. QED  BY <1>3, <3>2, <3>5, <3>6, <3>7 DEF Httpd, Uploads
  <2>4. mishaps' \subseteq Mishaps
    <3>1. ASSUME NEW command, NEW arg, Call(command, arg) PROVE mishaps' \subseteq Mishaps
      BY <3>1 DEF Call, Mishap, Mishaps
    <3>2. CASE StartsUpload \/ WritesFirstChunk \/ WritesChunk \/ FinishesUpload
      BY <3>1, <3>2 DEF StartsUpload, WritesFirstChunk, WritesChunk, FinishesUpload
    <3>3. CASE StartsDownload \/ ReadsChunk \/ RunsPathOp
      BY <3>1, <3>3 DEF StartsDownload, ReadsChunk, RunsPathOp
    <3>4. CASE \/ NoUpload \/ ParsesHeader \/ NoFirstChunk \/ ChunkMissing \/ RepliesUpload \/ Drains
               \/ NoDownload \/ EndsDownload \/ Invalidates \/ RepliesPathOp
      BY <3>4 DEF NoUpload, Mishap, ParsesHeader, NoFirstChunk, ChunkMissing, RepliesUpload, Drains,
         NoDownload, EndsDownload, Invalidates, Forgets, RepliesPathOp, Mishaps
    <3>. QED  BY <1>3, <3>2, <3>3, <3>4 DEF Httpd, Uploads, Downloads
  <2>. QED  BY <2>1, <2>2, <2>3, <2>4
<1>. QED  BY <1>11, <1>12, <1>13, <1>2, <1>3 DEF Next

(* What a call answers is what its last run answered, or nothing.          *)
LEMMA CallAnswers ==
  ASSUME NEW command, NEW arg, Call(command, arg)
  PROVE  LET once  == Runs(board, command, arg)
             twice == Runs(once.board, command, arg)
         IN  /\ board' \in {board, once.board, twice.board}
             /\ answer'.data \in {once.answer.data, twice.answer.data, <<>>}
<1>. DEFINE once  == Runs(board, command, arg)
            twice == Runs(once.board, command, arg)
<1>1. \/ board' = once.board /\ answer' = once.answer
      \/ board' = twice.board /\ answer' = twice.answer
      \/ board' = board /\ answer' = [NoAnswer EXCEPT !.ret = TRUE]
      \/ board' = board /\ answer' = NoAnswer
      \/ board' = once.board /\ answer' = NoAnswer
  BY DEF Call
<1>2. NoAnswer.data = <<>> /\ [NoAnswer EXCEPT !.ret = TRUE].data = <<>>
  BY DEF NoAnswer
<1>. HIDE DEF once, twice
<1>3. /\ board' \in {board, once.board, twice.board}
      /\ answer'.data \in {once.answer.data, twice.answer.data, <<>>}
  BY <1>1, <1>2
<1>. QED  BY <1>3 DEF once, twice

Short(f) == f \in Files /\ Len(f) < Word

LEMMA EmptyIsShort == Short(<<>>)
  BY SizesAssumption, EmptySeq DEF Short, Files

LEMMA StoredFits ==
  ASSUME NEW b, BoardFits(b), NEW name \in Names, NEW content, Short(content)
  PROVE  BoardFits(Stored(b, name, content))
<1>. DEFINE s == Stored(b, name, content)
<1>1. IsBoard(s) /\ s.session = b.session /\ DOMAIN s.card = DOMAIN b.card \cup {name}
  BY StoredBoard DEF BoardFits, Short
<1>2. \A n \in DOMAIN s.card : s.card[n] = IF n = name THEN content ELSE b.card[n]
  BY DEF BoardFits, IsBoard, Stored
<1>3. \A n \in DOMAIN s.card : Len(s.card[n]) < Word
  BY <1>1, <1>2 DEF BoardFits, Short
<1>. HIDE DEF s
<1>4. BoardFits(s)
  BY <1>1, <1>3 DEF BoardFits
<1>. QED  BY <1>4 DEF s

LEMMA WithoutFits ==
  ASSUME NEW b, BoardFits(b), NEW name
  PROVE  BoardFits(Without(b, name))
<1>. DEFINE s == Without(b, name)
<1>1. IsBoard(s) /\ s.session = b.session
  BY WithoutBoard DEF BoardFits
<1>2. DOMAIN s.card \subseteq DOMAIN b.card /\ \A n \in DOMAIN s.card : s.card[n] = b.card[n]
  BY DEF BoardFits, IsBoard, Without
<1>. HIDE DEF s
<1>3. BoardFits(s)
  BY <1>1, <1>2 DEF BoardFits
<1>. QED  BY <1>3 DEF s

LEMMA SessionFits ==
  ASSUME NEW b, BoardFits(b), NEW mode \in {"none", "read", "write"}, NEW name \in Names
  PROVE  BoardFits([b EXCEPT !.session = [mode |-> mode, name |-> name]])
  BY DEF BoardFits, IsBoard

LEMMA ClosedFits ==
  ASSUME NEW b, BoardFits(b)
  PROVE  BoardFits([b EXCEPT !.session = Closed])
<1>1. NoRequest.name \in Names
  BY NamesAssumption DEF NoRequest
<1>. QED  BY <1>1, SessionFits DEF Closed

LEMMA LengthIs == \A f \in Files : Len(f) \in Nat
  BY DEF Files

LEMMA DeniedIs ==
  ASSUME NEW b
  PROVE  Denied(b).board = b /\ Denied(b).answer.data = <<>>
  BY DEF Denied, NoAnswer

LEMMA OpenIsShort ==
  ASSUME NEW b, BoardFits(b), NEW mode, Open(b, mode)
  PROVE  Short(Content(b)) /\ Len(Content(b)) \in Nat /\ b.session.name \in Names
<1>1. b.session.name \in DOMAIN b.card /\ Content(b) = b.card[b.session.name]
  BY DEF Open, Content
<1>2. Content(b) \in Files /\ Len(Content(b)) < Word /\ b.session.name \in Names
  BY <1>1 DEF BoardFits, IsBoard
<1>. QED  BY <1>2, LengthIs DEF Short

(* Every command but a write leaves the files it does not empty as long as *)
(* they were, and answers with a file of the card or a part of it.         *)
LEMMA CommandFits ==
  ASSUME NEW b, BoardFits(b), request.name \in Names, request.to \in Names,
         NEW command \in Commands \ {"write_chunk"}, NEW arg,
         command = "read_chunk" => arg \in Nat
  PROVE  /\ BoardFits(Runs(b, command, arg).board)
         /\ Short(Runs(b, command, arg).answer.data)
<1>0. \A n \in DOMAIN b.card : Short(b.card[n])
  BY DEF BoardFits, IsBoard, Short
<1>1. CASE command = "start_upload"
  <2>. DEFINE s == Stored(b, request.to, <<>>)
  <2>1. BoardFits(s)
    BY StoredFits, EmptyIsShort
  <2>. HIDE DEF s
  <2>. DEFINE o == [s EXCEPT !.session = [mode |-> "write", name |-> request.to]]
  <2>2. BoardFits(o)
    BY <2>1, SessionFits
  <2>3. StartUpload(b) = Said(o, TRUE, <<>>)
    BY DEF StartUpload, s
  <2>. HIDE DEF o
  <2>4. Runs(b, command, arg) = Said(o, TRUE, <<>>)
    BY <1>1, <2>3 DEF Runs
  <2>5. Said(o, TRUE, <<>>).board = o /\ Said(o, TRUE, <<>>).answer.data = <<>>
    BY DEF Said
  <2>. QED  BY <2>2, <2>4, <2>5, EmptyIsShort
<1>2. CASE command = "finish_upload"
  <2>1. Runs(b, command, arg) = FinishUpload(b)
    BY <1>2 DEF Runs
  <2>2. CASE Open(b, "write")
    <3>. DEFINE o == [b EXCEPT !.session = Closed]
    <3>1. FinishUpload(b) = Said(o, TRUE, Content(b))
      BY <2>2 DEF FinishUpload
    <3>2. Short(Content(b)) /\ BoardFits(o)
      BY <2>2, OpenIsShort, ClosedFits
    <3>. HIDE DEF o
    <3>3. Said(o, TRUE, Content(b)).board = o /\ Said(o, TRUE, Content(b)).answer.data = Content(b)
      BY DEF Said
    <3>. QED  BY <2>1, <3>1, <3>2, <3>3
  <2>3. CASE ~Open(b, "write")
    <3>1. FinishUpload(b) = Said(b, FALSE, <<>>)
      BY <2>3 DEF FinishUpload
    <3>2. Said(b, FALSE, <<>>).board = b /\ Said(b, FALSE, <<>>).answer.data = <<>>
      BY DEF Said
    <3>. QED  BY <2>1, <3>1, <3>2, EmptyIsShort
  <2>. QED  BY <2>2, <2>3
<1>3. CASE command = "start_download"
  <2>1. Runs(b, command, arg) = StartDownload(b)
    BY <1>3 DEF Runs
  <2>2. CASE request.name \in DOMAIN b.card
    <3>. DEFINE o == [b EXCEPT !.session = [mode |-> "read", name |-> request.name]]
    <3>1. StartDownload(b) = Said(o, TRUE, b.card[request.name])
      BY <2>2 DEF StartDownload
    <3>2. BoardFits(o) /\ Short(b.card[request.name])
      BY <1>0, <2>2, SessionFits
    <3>. HIDE DEF o
    <3>3. /\ Said(o, TRUE, b.card[request.name]).board = o
          /\ Said(o, TRUE, b.card[request.name]).answer.data = b.card[request.name]
      BY DEF Said
    <3>. QED  BY <2>1, <3>1, <3>2, <3>3
  <2>3. CASE request.name \notin DOMAIN b.card
    <3>1. StartDownload(b) = Said(b, FALSE, <<>>)
      BY <2>3 DEF StartDownload
    <3>2. Said(b, FALSE, <<>>).board = b /\ Said(b, FALSE, <<>>).answer.data = <<>>
      BY DEF Said
    <3>. QED  BY <2>1, <3>1, <3>2, EmptyIsShort
  <2>. QED  BY <2>2, <2>3
<1>4. CASE command = "read_chunk"
  <2>1. Runs(b, command, arg) = ReadChunk(b, arg)
    BY <1>4 DEF Runs
  <2>2. CASE Open(b, "read")
    <3>. DEFINE f == Content(b)
                i == arg * ChunkSize
                m == Least((arg + 1) * ChunkSize, Len(f))
    <3>1. ReadChunk(b, arg) = Said(b, TRUE, SubSeq(f, i + 1, m))
      BY <2>2 DEF ReadChunk
    <3>0. m = Least((arg + 1) * ChunkSize, Len(f))
      OBVIOUS
    <3>2. f \in Files /\ Len(f) \in Nat /\ Len(f) < Word
      BY <2>2, OpenIsShort DEF Short
    <3>3. i \in Nat /\ (arg + 1) * ChunkSize \in Nat
      BY <1>4, ChunkAssumption
    <3>. HIDE DEF f, i, m
    <3>. DEFINE d == SubSeq(f, i + 1, m)
    <3>8. Said(b, TRUE, d).board = b /\ Said(b, TRUE, d).answer.data = d
      BY DEF Said
    <3>4. m \in Nat /\ m <= Len(f)
      BY <3>0, <3>2, <3>3 DEF Least
    <3>5. CASE i + 1 <= m
      <4>1. \A k \in i + 1 .. m : f[k] \in Bytes
        BY <3>2, <3>3, <3>4 DEF Files
      <4>2. Len(SubSeq(f, i + 1, m)) = m - i
        BY <3>3, <3>4, <3>5, <4>1, SubSeqProperties
      <4>3. SubSeq(f, i + 1, m) \in Files
        BY <3>2, <3>3, <3>4, PieceIsFile
      <4>4. Short(SubSeq(f, i + 1, m))
        <5>1. m - i < Word
          BY <3>2, <3>3, <3>4, SizesAssumption
        <5>. QED  BY <4>2, <4>3, <5>1 DEF Short
      <4>. QED  BY <2>1, <3>1, <3>8, <4>4
    <3>6. CASE m < i + 1
      <4>1. SubSeq(f, i + 1, m) = <<>>
        BY <3>3, <3>4, <3>6, SubSeqEmpty
      <4>. QED  BY <2>1, <3>1, <3>8, <4>1, EmptyIsShort
    <3>. QED  BY <3>3, <3>4, <3>5, <3>6
  <2>3. CASE ~Open(b, "read")
    <3>1. ReadChunk(b, arg) = Denied(b)
      BY <2>3 DEF ReadChunk
    <3>. QED  BY <2>1, <3>1, DeniedIs, EmptyIsShort
  <2>. QED  BY <2>2, <2>3
<1>5. CASE command = "path"
  <2>1. \/ PathOp(b).board \in {b, Without(b, request.name), Stored(b, request.name, <<>>)}
        \/ /\ request.name \in DOMAIN b.card
           /\ PathOp(b).board =
                Without(Stored(b, request.to, b.card[request.name]), request.name)
    BY DEF PathOp, Said
  <2>2. BoardFits(Without(b, request.name)) /\ BoardFits(Stored(b, request.name, <<>>))
    BY WithoutFits, StoredFits, EmptyIsShort
  <2>3. ASSUME request.name \in DOMAIN b.card
        PROVE  BoardFits(Without(Stored(b, request.to, b.card[request.name]), request.name))
    <3>1. BoardFits(Stored(b, request.to, b.card[request.name]))
      BY <1>0, <2>3, StoredFits
    <3>. QED  BY <3>1, WithoutFits
  <2>4. PathOp(b).answer.data = <<>>
    BY DEF PathOp, Said
  <2>5. Runs(b, command, arg) = PathOp(b)
    BY <1>5 DEF Runs
  <2>. QED  BY <2>1, <2>2, <2>3, <2>4, <2>5, EmptyIsShort
<1>. QED  BY <1>1, <1>2, <1>3, <1>4, <1>5 DEF Commands

LEMMA CallFits ==
  ASSUME BoardFits(board), request.name \in Names, request.to \in Names,
         NEW command \in Commands \ {"write_chunk"}, NEW arg,
         command = "read_chunk" => arg \in Nat, Call(command, arg)
  PROVE  BoardFits(board') /\ Short(answer'.data)
<1>. DEFINE once  == Runs(board, command, arg)
            twice == Runs(once.board, command, arg)
<1>1. BoardFits(once.board) /\ Short(once.answer.data)
  BY CommandFits
<1>2. BoardFits(twice.board) /\ Short(twice.answer.data)
  BY <1>1, CommandFits
<1>3. /\ board' \in {board, once.board, twice.board}
      /\ answer'.data \in {once.answer.data, twice.answer.data, <<>>}
  BY CallAnswers
<1>. HIDE DEF once, twice
<1>. QED  BY <1>1, <1>2, <1>3, EmptyIsShort

(* A chunk makes the file of the session longer by its length.             *)
LEMMA WriteFits ==
  ASSUME NEW b, BoardFits(b), NEW data \in Files,
         Open(b, "write") => Len(Content(b)) + Len(data) < Word
  PROVE  LET next == WriteChunk(b, data)
         IN  /\ BoardFits(next.board) /\ next.board.session = b.session /\ next.answer.data = <<>>
             /\ Open(next.board, "write") =>
                  Open(b, "write") /\ Len(Content(next.board)) = Len(Content(b)) + Len(data)
<1>. DEFINE next == WriteChunk(b, data)
<1>1. CASE Open(b, "write")
  <2>. DEFINE f == Content(b) \o data
              s == Stored(b, b.session.name, f)
  <2>1. f \in Files /\ Len(f) = Len(Content(b)) + Len(data)
    <3>1. Content(b) \in Files
      BY <1>1, OpenIsShort DEF Short
    <3>. QED  BY <3>1, ConcatProperties DEF Files
  <2>2. Short(f) /\ b.session.name \in Names
    BY <1>1, <2>1, OpenIsShort DEF Short
  <2>. HIDE DEF f
  <2>3. BoardFits(s) /\ s.session = b.session /\ s.card[b.session.name] = f
    BY <2>2, StoredFits, StoredBoard DEF Short, BoardFits
  <2>4. next = Said(s, TRUE, <<>>)
    BY <1>1 DEF WriteChunk, f
  <2>. HIDE DEF next, s
  <2>5. next.board = s /\ next.answer.data = <<>>
    BY <2>4 DEF Said
  <2>6. Content(s) = f
    BY <2>3 DEF Content
  <2>7. /\ BoardFits(next.board) /\ next.board.session = b.session /\ next.answer.data = <<>>
        /\ Open(next.board, "write") =>
             Open(b, "write") /\ Len(Content(next.board)) = Len(Content(b)) + Len(data)
    BY <1>1, <2>1, <2>3, <2>5, <2>6
  <2>. QED  BY <2>7 DEF next
<1>2. CASE ~Open(b, "write")
  <2>1. WriteChunk(b, data) = Denied(b)
    BY <1>2 DEF WriteChunk
  <2>. QED  BY <1>2, <2>1, DeniedIs
<1>. QED  BY <1>1, <1>2

LEMMA CallWriteFits ==
  ASSUME BoardFits(board), NEW data \in Files, Call("write_chunk", data),
         Open(board, "write") => Len(Content(board)) + 2 * Len(data) < Word
  PROVE  /\ BoardFits(board') /\ board'.session = board.session /\ answer'.data = <<>>
         /\ Open(board', "write") =>
              Open(board, "write") /\ Len(Content(board')) <= Len(Content(board)) + 2 * Len(data)
<1>. DEFINE once  == WriteChunk(board, data)
            twice == WriteChunk(once.board, data)
<1>0. Len(data) \in Nat /\ (Open(board, "write") => Len(Content(board)) \in Nat)
  BY LengthIs, OpenIsShort
<1>1. /\ BoardFits(once.board) /\ once.board.session = board.session /\ once.answer.data = <<>>
      /\ Open(once.board, "write") =>
           Open(board, "write") /\ Len(Content(once.board)) = Len(Content(board)) + Len(data)
  <2>1. Open(board, "write") => Len(Content(board)) + Len(data) < Word
    BY <1>0, SizesAssumption
  <2>. QED  BY <2>1, WriteFits
<1>2. /\ BoardFits(twice.board) /\ twice.board.session = once.board.session
      /\ twice.answer.data = <<>>
      /\ Open(twice.board, "write") =>
           /\ Open(once.board, "write")
           /\ Len(Content(twice.board)) = Len(Content(once.board)) + Len(data)
  <2>1. Open(once.board, "write") => Len(Content(once.board)) + Len(data) < Word
    BY <1>0, <1>1, SizesAssumption
  <2>. QED  BY <1>1, <2>1, WriteFits
<1>3. Runs(board, "write_chunk", data) = once /\ Runs(once.board, "write_chunk", data) = twice
  BY DEF Runs
<1>4. board' \in {board, once.board, twice.board}
      /\ answer'.data \in {once.answer.data, twice.answer.data, <<>>}
  BY <1>3, CallAnswers
<1>. HIDE DEF once, twice
<1>5. CASE board' = board
  BY <1>0, <1>1, <1>2, <1>4, <1>5
<1>6. CASE board' = once.board
  BY <1>0, <1>1, <1>2, <1>4, <1>6
<1>7. CASE board' = twice.board
  BY <1>0, <1>1, <1>2, <1>4, <1>7
<1>. QED  BY <1>4, <1>5, <1>6, <1>7

Rest == BoardFits(board) /\ Asked /\ Counters /\ Storing /\ Pieces

LEMMA FitsInit == Roomy /\ Init => Fits
<1>. SUFFICES ASSUME Roomy, Init PROVE Fits
  OBVIOUS
<1>0. NoRequest.name \in Names /\ NoRequest.to \in Names /\ NoRequest.size = 0
      /\ NoRequest.kind = "none"
  BY NamesAssumption DEF NoRequest
<1>1. Control
  BY <1>0 DEF Init, Control, Pages, Places
<1>2. BoardFits(board)
  <2>1. File("old", OldSize) \in Files /\ Len(File("old", OldSize)) < Word
    BY SizesAssumption, FileIsFile DEF File
  <2>2. IsBoard(board)
    BY InvInit DEF Inv
  <2>. QED  BY <1>0, <2>1, <2>2 DEF Init, BoardFits, Closed
<1>3. Asked /\ Counters /\ Storing
  BY <1>0, SizesAssumption, BoundsAssumption DEF Init, Roomy, Asked, Counters, Storing
<1>4. Pieces
  BY EmptyIsShort, SizesAssumption DEF Init, Pieces, NoAnswer, Short
<1>. QED  BY <1>1, <1>2, <1>3, <1>4 DEF Fits

LEMMA AsksFit ==
  ASSUME Roomy, Rest, NEW kind, NEW name \in Names, NEW to \in Names, NEW n \in Sizes \cup {0},
         NEW checked, NEW at \in {"parse", "open", "path"}, Asks(kind, name, to, n, checked, at)
  PROVE  Rest'
<1>1. n \in Nat /\ n < Word /\ 2 * n < Word
  BY SizesAssumption DEF Roomy
<1>2. /\ request'.name = name /\ request'.to = to /\ request'.size = n
      /\ requests < MaxRequests /\ requests' = requests + 1 /\ pc' = at
      /\ copy' = <<>> /\ size' = 0 /\ moved' = 0 /\ index' = 0 /\ first' = <<>>
      /\ answer' = NoAnswer /\ body' \in {Body(n), <<>>} /\ UNCHANGED <<board, listed>>
  BY DEF Asks, Goes, cache
<1>3. Asked'
  BY <1>1, <1>2, BoundsAssumption DEF Rest, Asked
<1>4. Counters' /\ Storing'
  BY <1>2, SizesAssumption, <1>1 DEF Counters, Storing
<1>5. Len(body') < 2 * Word
  <2>1. Len(Body(n)) = n + 4 /\ Len(<<>>) = 0
    BY <1>1, BodyLength
  <2>2. n + 4 < 2 * Word /\ 0 < 2 * Word
    BY <1>1, SizesAssumption DEF Roomy
  <2>. QED  BY <1>2, <2>1, <2>2
<1>6. answer'.data = <<>>
  BY <1>2 DEF NoAnswer
<1>7. Pieces'
  <2>1. <<>> \in Files /\ Len(<<>>) = 0 /\ 0 < Word /\ 0 < 2 * Word
    BY EmptyIsShort, SizesAssumption DEF Short, Roomy
  <2>. QED  BY <1>2, <1>5, <1>6, <2>1 DEF Pieces
<1>. QED  BY <1>2, <1>3, <1>4, <1>7 DEF Rest

(* Steps without a call: the handler goes on, or the page or the panel     *)
(* does something.                                                         *)
LEMMA QuietFit ==
  ASSUME Rest, UNCHANGED <<request, requests, copy, first, size, moved, index, answer, board>>,
         listed' \subseteq Names, Len(body') < 2 * Word,
         \/ pc' = pc
         \/ pc # "idle" /\ pc' \notin {"parse", "start", "first", "more", "open"}
         \/ pc = "first" /\ pc' = "more"
  PROVE  Rest'
<1>1. Asked'
  BY DEF Rest, Asked
<1>2. Counters'
  BY DEF Rest, Counters
<1>3. Storing'
  BY DEF Rest, Storing
<1>4. Pieces'
  BY DEF Rest, Pieces
<1>5. BoardFits(board')
  BY DEF Rest
<1>. QED  BY <1>1, <1>2, <1>3, <1>4, <1>5 DEF Rest

(* A call that is answered with a file of the card and changes no counter. *)
LEMMA AnsweredFit ==
  ASSUME Rest, pc # "idle", BoardFits(board'), Short(answer'.data),
         UNCHANGED <<request, requests, copy, first, size, moved, index, body, listed>>,
         pc' \notin {"parse", "start", "first", "more", "open"}
  PROVE  Rest'
<1>1. Asked'
  BY DEF Rest, Asked
<1>2. Counters'
  BY DEF Rest, Counters
<1>3. Storing'
  BY DEF Storing
<1>4. Pieces'
  BY DEF Rest, Pieces, Short
<1>. QED  BY <1>1, <1>2, <1>3, <1>4 DEF Rest

LEMMA StartEmpties ==
  ASSUME NEW b, IsBoard(b)
  PROVE  Content(StartUpload(b).board) = <<>>
<1>. DEFINE s == Stored(b, request.to, <<>>)
            o == [s EXCEPT !.session = [mode |-> "write", name |-> request.to]]
<1>1. IsBoard(s) /\ s.card[request.to] = <<>>
  BY StoredBoard, EmptyIsShort DEF Short
<1>2. StartUpload(b).board = o
  BY DEF StartUpload, Said
<1>. HIDE DEF s
<1>3. o.card = s.card /\ o.session.name = request.to
  BY <1>1 DEF IsBoard
<1>. HIDE DEF o
<1>. QED  BY <1>1, <1>2, <1>3 DEF Content

LEMMA StartsUploadFits ==
  ASSUME Rest, StartsUpload
  PROVE  Rest'
<1>1. BoardFits(board') /\ Short(answer'.data)
  BY CallFits DEF StartsUpload, Rest, Asked, Commands
<1>2. CASE UploadFails
  BY <1>1, <1>2, AnsweredFit DEF StartsUpload, UploadFails, UploadError, At, Goes, counts, cache
<1>3. CASE Went("first") /\ UNCHANGED moved
  <2>1. UNCHANGED <<request, requests, copy, first, size, moved, index, body, listed>>
        /\ pc = "start" /\ pc' = "first"
    BY <1>3 DEF StartsUpload, Went, Goes, Quiet, At, cache
  <2>2. Content(board') = <<>>
    <3>. DEFINE once  == StartUpload(board)
                twice == StartUpload(once.board)
    <3>1. \A b : Runs(b, "start_upload", <<>>) = StartUpload(b)
      BY DEF Runs
    <3>2. IsBoard(board) /\ IsBoard(once.board)
      BY StartUploadBoard DEF Rest, BoardFits
    <3>3. Content(once.board) = <<>> /\ Content(twice.board) = <<>>
      BY <3>2, StartEmpties
    <3>4. Runs(board, "start_upload", <<>>) = once /\ Runs(once.board, "start_upload", <<>>) = twice
      BY <3>1
    <3>5. Call("start_upload", <<>>) /\ Works
      BY <1>3 DEF StartsUpload, Went
    <3>. HIDE DEF once, twice
    <3>6. board' = once.board \/ board' = twice.board
      BY <3>4, <3>5, CallOutcomes DEF Works
    <3>. QED  BY <3>3, <3>6
  <2>3. Asked' /\ Counters'
    BY <2>1 DEF Rest, Asked, Counters
  <2>4. Storing'
    BY <2>1, <2>2 DEF Rest, Storing, Counters
  <2>5. Pieces'
    BY <1>1, <2>1 DEF Rest, Pieces, Short
  <2>. QED  BY <1>1, <2>3, <2>4, <2>5 DEF Rest
<1>. QED  BY <1>2, <1>3 DEF StartsUpload

(* A chunk of n bytes is written: at first, or in the loop.                *)
LEMMA WritesFit ==
  ASSUME Roomy, Rest, NEW data \in Files, Call("write_chunk", data),
         pc \in {"first", "more"}, moved + Len(data) <= size, Len(body') < 2 * Word,
         \/ UploadFails
         \/ Went("more") /\ moved' = moved + Len(data)
  PROVE  Rest'
<1>0. /\ Len(data) \in Nat /\ moved \in Nat /\ size \in Nat /\ index \in Nat /\ index <= moved
      /\ size = request.size /\ 2 * size < Word /\ Word \in Nat
  BY LengthIs, SizesAssumption DEF Rest, Counters, Asked
<1>1. Open(board, "write") =>
        /\ Len(Content(board)) \in Nat /\ Len(Content(board)) <= 2 * moved
        /\ Len(Content(board)) + 2 * Len(data) < Word
  <2>1. Open(board, "write") => Len(Content(board)) \in Nat /\ Len(Content(board)) <= 2 * moved
    BY OpenIsShort DEF Rest, Storing
  <2>. QED  BY <1>0, <2>1
<1>2. /\ BoardFits(board') /\ answer'.data = <<>>
      /\ Open(board', "write") =>
           Open(board, "write") /\ Len(Content(board')) <= Len(Content(board)) + 2 * Len(data)
  BY <1>1, CallWriteFits DEF Rest
<1>3. UNCHANGED <<request, requests, copy, first, size, index, listed>>
  BY DEF UploadFails, UploadError, Went, Quiet, counts, cache
<1>4. Asked'
  BY <1>3 DEF Rest, Asked
<1>5. CASE UploadFails
  <2>1. moved' = moved /\ pc' = "drain"
    BY <1>5 DEF UploadFails, UploadError, counts, Goes
  <2>2. Counters' /\ Storing'
    BY <1>3, <2>1 DEF Rest, Counters, Storing
  <2>3. Pieces'
    BY <1>2, <1>3, <2>1, EmptyIsShort DEF Rest, Pieces, Short
  <2>. QED  BY <1>2, <1>4, <2>2, <2>3 DEF Rest
<1>6. CASE Went("more") /\ moved' = moved + Len(data)
  <2>1. moved' = moved + Len(data) /\ pc' = "more"
    BY <1>6 DEF Went, Goes
  <2>2. Counters'
    BY <1>0, <1>3, <2>1 DEF Rest, Counters
  <2>3. Storing'
    <3>1. Open(board', "write") => Len(Content(board')) \in Nat
      BY <1>2, OpenIsShort
    <3>2. Open(board', "write") => Len(Content(board')) <= 2 * moved'
      BY <1>0, <1>1, <1>2, <2>1, <3>1
    <3>. QED  BY <3>2 DEF Storing
  <2>4. Pieces'
    <3>1. copy' \in Files /\ Len(copy') <= moved'
      <4>1. Len(copy) \in Nat /\ Len(copy) <= moved
        BY LengthIs DEF Rest, Pieces
      <4>. QED  BY <1>0, <1>3, <2>1, <4>1 DEF Rest, Pieces
    <3>. QED  BY <1>2, <1>3, <3>1, EmptyIsShort DEF Rest, Pieces, Short
  <2>. QED  BY <1>2, <1>4, <2>2, <2>3, <2>4 DEF Rest
<1>. QED  BY <1>5, <1>6

LEMMA WritesFirstFits ==
  ASSUME Roomy, Inv, Rest, WritesFirstChunk
  PROVE  Rest'
<1>1. /\ pc = "first" /\ FirstData # <<>> /\ Call("write_chunk", FirstData) /\ body' = body
      /\ UploadFails \/ (Went("more") /\ moved' = Len(FirstData))
  BY DEF WritesFirstChunk, At
<1>2. /\ first \in Files /\ Len(first) \in Nat /\ size \in Nat /\ moved = 0
      /\ Len(body) < 2 * Word
  BY <1>1, LengthIs DEF Inv, Rest, Counters, Pieces
<1>3. FirstData \in Files
  <2>1. Least(Len(first), 3 + size) \in Nat /\ Least(Len(first), 3 + size) <= Len(first)
    BY <1>2 DEF Least
  <2>. QED  BY <1>2, <2>1, PieceIsFile DEF FirstData
<1>4. Len(FirstData) \in Nat /\ Len(FirstData) <= size
  <2>1. CASE size = 0
    <3>1. Least(Len(first), 3 + size) \in Int /\ Least(Len(first), 3 + size) < 4
      BY <1>2, <2>1 DEF Least
    <3>2. FirstData = <<>>
      BY <3>1, SubSeqEmpty DEF FirstData
    <3>. QED  BY <1>1, <3>2
  <2>2. CASE size > 0
    <3>1. Len(first) > 3 /\ Len(FirstData) = Least(Len(first), 3 + size) - 3
      BY <1>1, <1>2, <2>2, FirstPiece
    <3>. QED  BY <1>2, <3>1 DEF Least
  <2>. QED  BY <1>2, <2>1, <2>2
<1>5. moved + Len(FirstData) <= size /\ moved + Len(FirstData) = Len(FirstData)
  BY <1>2, <1>4
<1>. QED  BY <1>1, <1>2, <1>3, <1>5, WritesFit

LEMMA WritesChunkFits ==
  ASSUME Roomy, Inv, Rest, WritesChunk
  PROVE  Rest'
<1>. PICK n \in 1 .. Least(Remaining, ChunkSize) :
       /\ Receives(n) /\ Call("write_chunk", SubSeq(body, 1, n))
       /\ UploadFails \/ (Went("more") /\ moved' = (moved + n) % Word)
  BY DEF WritesChunk
<1>1. /\ pc = "more" /\ size \in Nat /\ moved \in Nat /\ moved <= size /\ size < Word
      /\ Len(body) < 2 * Word /\ body \in Files
  BY DEF WritesChunk, At, Inv, Rest, Counters, Pieces
<1>2. /\ n \in Nat /\ n >= 1 /\ n <= Len(body)
      /\ Len(SubSeq(body, 1, n)) = n /\ Len(body') = Len(body) - n
  BY <1>1, ReceivedLengths
<1>3. SubSeq(body, 1, n) \in Files
  BY <1>1, ReceivedIsFile
<1>4. moved + n <= size
  <2>1. Remaining = size - moved
    BY <1>1, BytesLeft DEF Remaining
  <2>2. n <= Remaining
    BY <1>1, <2>1, ChunkAssumption DEF Least
  <2>. QED  BY <1>1, <1>2, <2>1, <2>2
<1>5. (moved + n) % Word = moved + n
  BY SMTT(20), <1>1, <1>2, <1>4, BytesMoved, SizesAssumption
<1>6. Len(body') < 2 * Word
  BY <1>1, <1>2, LengthIs, SizesAssumption
<1>. DEFINE data == SubSeq(body, 1, n)
<1>7. data \in Files /\ Len(data) = n /\ Call("write_chunk", data)
  BY <1>2, <1>3
<1>. HIDE DEF data
<1>. QED  BY <1>1, <1>4, <1>5, <1>6, <1>7, WritesFit

LEMMA StartsDownloadFits ==
  ASSUME Rest, Loading, StartsDownload
  PROVE  Rest'
<1>1. BoardFits(board') /\ Short(answer'.data)
  BY CallFits DEF StartsDownload, Rest, Asked, Commands
<1>2. /\ UNCHANGED <<request, requests, copy, first, moved, index, body, listed>> /\ pc = "open"
      /\ \/ pc' = "idle" /\ size' = size
         \/ pc' = "read" /\ size' = Len(answer'.data)
  BY DEF StartsDownload, At, Goes, Quiet, cache
<1>3. CASE pc' = "idle" /\ size' = size
  BY <1>1, <1>2, <1>3, AnsweredFit
<1>4. CASE pc' = "read" /\ size' = Len(answer'.data)
  <2>1. size' \in Nat /\ size' < Word
    BY <1>1, <1>4, LengthIs DEF Short
  <2>2. moved = 0 /\ index = 0
    BY <1>2 DEF Loading
  <2>3. Asked' /\ Counters' /\ Storing'
    BY <1>2, <1>4, <2>1, <2>2 DEF Rest, Asked, Counters, Storing
  <2>4. Pieces'
    BY <1>1, <1>2 DEF Rest, Pieces, Short
  <2>. QED  BY <1>1, <2>3, <2>4 DEF Rest
<1>. QED  BY <1>2, <1>3, <1>4

LEMMA ReadsChunkFits ==
  ASSUME Inv, Rest, Loading, Loading', ReadsChunk
  PROVE  Rest'
<1>0. /\ pc = "read" /\ Reading /\ index \in Nat /\ Call("read_chunk", index)
      /\ UNCHANGED <<request, requests, body, first, size, listed>>
  BY DEF ReadsChunk, At, Loading, Reading, Quiet, cache
<1>1. BoardFits(board') /\ Short(answer'.data) /\ board' = board
  BY <1>0, CallFits, CallRead DEF Rest, Asked, Commands
<1>2. \/ UNCHANGED <<copy, moved, index>> /\ pc' \in {"idle", "end"}
      \/ /\ answer'.data # <<>> /\ Sends(answer'.data)
  BY DEF ReadsChunk, BreaksOff, Goes
<1>3. CASE UNCHANGED <<copy, moved, index>> /\ pc' \in {"idle", "end"}
  BY <1>0, <1>1, <1>3, AnsweredFit
<1>4. CASE answer'.data # <<>> /\ Sends(answer'.data)
  <2>. DEFINE data == answer'.data
  <2>1. /\ copy' = copy \o data /\ moved' = moved + Len(data) /\ index' = index + 1
        /\ pc' = "read"
    BY <1>0, <1>4 DEF Sends
  <2>2. data \in Files /\ Len(data) \in Nat /\ Len(data) >= 1
    BY <1>1, <1>4, LengthIs DEF Short, Files
  <2>3. moved' <= size'
    <3>1. moved' = Least(index' * ChunkSize, Len(Wanted)') /\ size' = Len(Wanted)'
      BY <2>1 DEF Loading, Reading
    <3>2. index' * ChunkSize \in Nat /\ size' \in Nat
      BY <1>0, <2>1, ChunkAssumption DEF Rest, Counters
    <3>. QED  BY <3>1, <3>2 DEF Least
  <2>4. Asked'
    BY <1>0, <2>1 DEF Rest, Asked
  <2>5. Counters'
    BY <1>0, <2>1, <2>2, <2>3 DEF Rest, Counters
  <2>6. copy' \in Files /\ Len(copy') <= moved'
    <3>1. copy \in Files /\ Len(copy) \in Nat /\ Len(copy) <= moved /\ moved \in Nat
      BY LengthIs DEF Rest, Pieces, Counters
    <3>2. copy \o data \in Files /\ Len(copy \o data) = Len(copy) + Len(data)
      BY <2>2, <3>1, ConcatProperties DEF Files
    <3>. QED  BY <2>1, <2>2, <3>1, <3>2
  <2>7. Pieces'
    BY <1>0, <1>1, <2>6 DEF Rest, Pieces, Short
  <2>8. Storing'
    BY <2>1 DEF Storing
  <2>. QED  BY <1>1, <2>4, <2>5, <2>7, <2>8 DEF Rest
<1>. QED  BY <1>2, <1>3, <1>4

LEMMA RestStep == Roomy /\ Inv /\ Rest /\ Loading /\ Loading' /\ [Next]_vars => Rest'
<1>. SUFFICES ASSUME Roomy, Inv, Rest, Loading, Loading', [Next]_vars PROVE Rest'
  OBVIOUS
<1>0. body \in Files /\ Len(body) \in Nat /\ Len(body) < 2 * Word /\ listed \subseteq Names
      /\ 0 < 2 * Word /\ DOMAIN board.card \subseteq Names
  <2>1. body \in Files
    BY DEF Inv
  <2>2. Len(body) \in Nat
    BY <2>1, LengthIs
  <2>3. Len(body) < 2 * Word
    BY DEF Rest, Pieces
  <2>4. listed \subseteq Names /\ DOMAIN board.card \subseteq Names
    BY DEF Rest, Asked, BoardFits
  <2>5. 0 < 2 * Word
    BY SizesAssumption DEF Roomy
  <2>. QED  BY <2>1, <2>2, <2>3, <2>4, <2>5
<1>1. ASSUME NEW n, Receives(n) PROVE Len(body') < 2 * Word
  <2>1. n \in Nat /\ Len(body') = Len(body) - n
    BY <1>0, <1>1, ReceivedLengths
  <2>. QED  BY <1>0, <2>1, SizesAssumption
<1>2. CASE AsksUpload
  BY <1>2, AsksFit DEF AsksUpload
<1>3. CASE AsksDownload
  BY <1>3, AsksFit DEF AsksDownload
<1>4. CASE AsksPathOp
  BY <1>4, AsksFit DEF AsksPathOp
<1>5. CASE Leaves \/ PanelLists \/ PanelAsks \/ PanelEnds \/ UNCHANGED vars
  <2>1. UNCHANGED <<request, requests, copy, first, size, moved, index, answer, board, pc, body>>
    BY <1>5 DEF Leaves, PanelLists, PanelAsks, PanelEnds, Elsewhere, vars, counts
  <2>2. listed' \subseteq Names
    BY <1>0, <1>5 DEF Leaves, PanelLists, PanelAsks, PanelEnds, vars, cache
  <2>. QED  BY <1>0, <2>1, <2>2, QuietFit
<1>6. CASE NoUpload \/ NoFirstChunk \/ ChunkMissing \/ Invalidates
  <2>1. UNCHANGED <<request, requests, copy, first, size, moved, index, answer, board, listed, body>>
    BY <1>6 DEF NoUpload, NoFirstChunk, ChunkMissing, Invalidates, Forgets, UploadError, Quiet, counts, cache
  <2>2. \/ pc # "idle" /\ pc' \in {"drain", "reply"}
        \/ pc = "first" /\ pc' = "more"
    BY <1>6 DEF NoUpload, NoFirstChunk, ChunkMissing, Invalidates, Forgets, UploadError, At, Goes
  <2>. QED  BY <1>0, <2>1, <2>2, QuietFit
<1>7. CASE RepliesUpload \/ RepliesPathOp \/ NoDownload \/ EndsDownload
  <2>1. UNCHANGED <<request, requests, copy, first, size, moved, index, answer, board, listed>>
        /\ body' \in {body, <<>>}
    BY <1>7 DEF RepliesUpload, RepliesPathOp, NoDownload, EndsDownload, Quiet, counts, cache
  <2>2. pc # "idle" /\ pc' \in {"idle", "drain"}
    BY <1>7 DEF RepliesUpload, RepliesPathOp, NoDownload, EndsDownload, At, Goes
  <2>3. Len(body') < 2 * Word
    BY <1>0, <2>1
  <2>. QED  BY <1>0, <2>1, <2>2, <2>3, QuietFit
<1>8. CASE Drains
  <2>1. UNCHANGED <<request, requests, copy, first, size, moved, index, answer, board, listed>>
    BY <1>8 DEF Drains, Quiet, counts, cache
  <2>2. pc = "drain" /\ pc' \in {"drain", "idle"} /\ ((\E n : Receives(n)) \/ body' = body)
    BY <1>8 DEF Drains, At, Goes
  <2>3. Len(body') < 2 * Word
    BY <1>0, <1>1, <2>2
  <2>. QED  BY <1>0, <2>1, <2>2, <2>3, QuietFit
<1>9. CASE ParsesHeader
  <2>. PICK n \in 1 .. ChunkSize : /\ Receives(n) /\ first' = SubSeq(body, 1, n)
                                   /\ \/ pc' = "drain" /\ size' = size
                                      \/ pc' = "start" /\ size' = request.size
    BY <1>9 DEF ParsesHeader, Goes
  <2>1. UNCHANGED <<requests, copy, moved, index, answer, board, listed>> /\ pc = "parse"
    BY <1>9 DEF ParsesHeader, cache, At
  <2>7. request'.size = request.size /\ request'.name = request.name /\ request'.to \in Names
    BY <1>9 DEF ParsesHeader, Inv, Requests
  <2>2. Len(first') < 2 * Word /\ Len(body') < 2 * Word
    BY <1>0, <1>1, ReceivedLengths, SizesAssumption
  <2>3. Asked' /\ BoardFits(board')
    BY <2>1, <2>7 DEF Rest, Asked
  <2>4. moved = 0 /\ request.size \in Nat /\ request.size < Word
    BY <2>1, SizesAssumption DEF Rest, Counters, Asked
  <2>5. Counters' /\ Storing'
    BY <2>1, <2>4, <2>7 DEF Rest, Counters, Storing
  <2>6. Pieces'
    BY <2>1, <2>2 DEF Rest, Pieces
  <2>. QED  BY <2>3, <2>5, <2>6 DEF Rest
<1>10. CASE StartsUpload \/ WritesFirstChunk \/ WritesChunk
  BY <1>10, StartsUploadFits, WritesFirstFits, WritesChunkFits
<1>11. CASE FinishesUpload \/ RunsPathOp
  <2>1. BoardFits(board') /\ Short(answer'.data)
    BY <1>11, CallFits DEF FinishesUpload, RunsPathOp, Rest, Asked, Commands
  <2>2. /\ UNCHANGED <<request, requests, copy, first, size, moved, index, body, listed>>
        /\ pc # "idle" /\ pc' = "invalidate"
    BY <1>11 DEF FinishesUpload, RunsPathOp, At, Goes, Quiet, counts, cache
  <2>. QED  BY <2>1, <2>2, AnsweredFit
<1>12. CASE StartsDownload \/ ReadsChunk
  BY <1>12, StartsDownloadFits, ReadsChunkFits
<1>13. CASE Reconnects
  <2>1. UNCHANGED <<request, requests, copy, first, size, moved, index, answer, pc, body, listed>>
        /\ board' = [board EXCEPT !.session = Closed]
    BY <1>13 DEF Reconnects, Elsewhere, counts
  <2>2. BoardFits(board') /\ ~Open(board', "write")
    <3>1. BoardFits(board')
      BY <2>1, ClosedFits DEF Rest
    <3>2. board'.session = Closed
      BY <2>1 DEF Rest, BoardFits, IsBoard
    <3>. QED  BY <3>1, <3>2 DEF Open, Closed
  <2>3. Asked' /\ Counters' /\ Pieces' /\ Storing'
    BY <2>1, <2>2 DEF Rest, Asked, Counters, Pieces, Storing
  <2>. QED  BY <2>2, <2>3 DEF Rest
<1>. QED
  BY <1>2, <1>3, <1>4, <1>5, <1>6, <1>7, <1>8, <1>9, <1>10, <1>11, <1>12, <1>13
     DEF Next, Httpd, Uploads, Downloads

(* handle_file_upload and api_download_handler: the counts of bytes never  *)
(* pass the size of the file, however the body is cut and whatever is lost *)
(* or repeated, so that the unsigned "remaining" never wraps around; and   *)
(* the other variables keep their types.  If files fit their counters.     *)
THEOREM TransfersTyped == Roomy => (Spec => []TypeOK)
<1>. SUFFICES ASSUME Roomy PROVE Spec => []TypeOK
  OBVIOUS
<1>1. Init => Control /\ Rest /\ Loading
  <2>1. Init => Fits
    BY FitsInit
  <2>2. Fits => Control /\ Rest
    BY DEF Fits, Rest
  <2>3. Init => Loading
    BY DEF Init, Loading
  <2>. QED  BY <2>1, <2>2, <2>3
<1>2. Inv /\ Control /\ Rest /\ Loading /\ [Next]_vars => Control' /\ Rest' /\ Loading'
  BY ControlStep, RestStep, LoadingStep
<1>3. Control /\ Rest /\ Inv => TypeOK
  <2>. SUFFICES ASSUME Control, Rest, Inv PROVE TypeOK
    OBVIOUS
  <2>1. ASSUME NEW f \in Files, Len(f) < 2 * Word PROVE AFile(f)
    BY <2>1 DEF AFile, Files, Bytes
  <2>2. ASSUME NEW f \in Files, Len(f) < Word PROVE AFile(f)
    BY <2>1, <2>2, LengthIs, SizesAssumption
  <2>3. AFile(copy)
    <3>1. Len(copy) \in Nat /\ Len(copy) < Word /\ copy \in Files
      BY LengthIs, SizesAssumption DEF Rest, Pieces, Counters
    <3>. QED  BY <2>2, <3>1
  <2>4. AFile(body) /\ AFile(first) /\ AFile(answer.data)
    BY <2>1, <2>2 DEF Rest, Pieces, Inv
  <2>5. \A n \in DOMAIN board.card : AFile(board.card[n])
    BY <2>2 DEF Rest, BoardFits, IsBoard
  <2>6. index <= requests * Word
    <3>1. index \in Nat /\ index < Word /\ requests \in Nat /\ (requests = 0 => index = 0) /\ Word \in Nat
      BY SizesAssumption, BoundsAssumption DEF Rest, Counters, Asked
    <3>2. CASE requests = 0
      BY <3>1, <3>2
    <3>3. CASE requests >= 1
      <4>1. requests * Word = (requests - 1) * Word + Word /\ (requests - 1) * Word \in Nat
        BY <3>1, <3>3
      <4>. QED  BY <3>1, <4>1
    <3>. QED  BY <3>1, <3>2, <3>3
  <2>7. requests \in 0 .. MaxRequests /\ listed \subseteq Names /\ moved <= size /\ size < Word
        /\ DOMAIN board.card \subseteq Names
        /\ board.session.mode \in {"none", "read", "write"} /\ board.session.name \in Names
    BY DEF Rest, Asked, Counters, BoardFits
  <2>8. /\ request.kind \in {"none", "upload", "download", "delete", "rename", "create"}
        /\ page \in {"idle", "waiting", "gone", "verified", "corrupt", "saved", "done",
                     "complete", "failed", "network_error"}
        /\ pc \in {"idle", "parse", "start", "first", "more", "drain", "invalidate", "reply",
                   "path", "open", "read", "end"}
        /\ mishaps \subseteq {"resent", "refused", "lost", "late", "gone", "memory", "reset"}
        /\ loaded \in BOOLEAN /\ overtook \in BOOLEAN
        /\ listing.busy \in BOOLEAN /\ listing.left \subseteq Names
    BY DEF Control, Pages, Places, Mishaps, PathKinds, Inv
  <2>. QED  BY <2>3, <2>4, <2>5, <2>6, <2>7, <2>8 DEF TypeOK
<1>. QED  BY <1>1, <1>2, <1>3, InvAlways, PTL DEF Spec
=============================================================================
