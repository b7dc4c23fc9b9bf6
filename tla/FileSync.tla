------------------------------ MODULE FileSync ------------------------------
(***************************************************************************)
(* The file-sync commands push, pull, list and stat on a stream of their   *)
(* own: the _filesync methods and push, pull, list, stat of AdbDevice      *)
(* (adb_device.py), _FileSyncTransactionInfo and get_files_to_push         *)
(* (hidden_helpers.py).                                                    *)
(*                                                                         *)
(* Requests are gathered in a send buffer that is flushed as one WRTE;     *)
(* answers are parsed out of a receive buffer filled by WRTEs that end     *)
(* anywhere.  Sizes are counted in words of four bytes: a request header   *)
(* is 2 words, an answer header as many as the struct format of the        *)
(* command has.  The stream is reliable and ordered (module AdbStreams).   *)
(***************************************************************************)
EXTENDS Naturals, Sequences, SequencesExt

CONSTANTS
  Commands,      \* the commands to run, among push, pull, list and stat
  maxdata,       \* _maxdata: words in an ADB packet
  MAX_CHUNK,     \* constants.MAX_CHUNK_SIZE
  MAX_PUSH,      \* constants.MAX_PUSH_DATA
  PathLen,       \* words in the path sent with a request
  Sizes,         \* sizes of the files, or of the directory listings
  MaxFiles,      \* bound: files in a directory that is pushed
  MaxEntry,      \* bound: words of a file in a frame of an answer
  DevMayFail     \* the device may fail a command

ASSUME FileSyncAssumption ==
  /\ Commands \subseteq {"push", "pull", "list", "stat"}
  /\ maxdata \in Nat /\ MAX_CHUNK \in Nat \ {0} /\ MAX_PUSH \in Nat
  /\ PathLen \in Nat /\ Sizes \subseteq Nat
  /\ maxdata >= 4               \* room for a chunk of half a packet and its header
  /\ PathLen + 2 <= maxdata
  /\ MaxFiles \in Nat /\ MaxEntry \in Nat \ {0}
  /\ DevMayFail \in BOOLEAN

VARIABLES
  command,       \* what is being done
  left,          \* files yet to be pushed
  local_path_is_dir,
  file,          \* the words to transfer
  pc,            \* the client's step
  todo,          \* request frames not yet in the send buffer
  send_buffer,   \* send_buffer[:send_idx]
  recv_buffer,   \* recv_buffer
  header,        \* the header of the frame being read
  got,           \* what the client has received of the file
  outcome,       \* how the command ended
  to_dev,        \* packets to the device
  to_host,       \* packets to the client
  dev            \* the device: unparsed words, file words, answer, credit, state,
                 \* and the words of the file in the answer so far

client == <<command, left, local_path_is_dir, file, pc, todo, send_buffer, recv_buffer, header, got, outcome>>
vars == <<client, to_dev, to_host, dev>>

-----------------------------------------------------------------------------
(* Words and frames.                                                       *)

Ids == {"SEND", "DATA", "DONE", "RECV", "LIST", "STAT", "DENT", "OKAY", "FAIL"}

(* A word starts a header and tells the frame's id, or ends one and tells  *)
(* the data size, or is in between, or belongs to the data.                *)
Word == [id : Ids \cup {"pad", "data"}, size : Nat]

DataWord(i) == [id |-> "data", size |-> i]

(* A frame with a header of h words; size is that of the data, except in   *)
(* the DONE of a push, where it is the modification time.                  *)
Frame(id, h, data) ==
  << [id |-> id, size |-> 0] >>
  \o [i \in 1 .. h - 1 |-> [id |-> "pad", size |-> IF i = h - 1 THEN Len(data) ELSE 0]]
  \o data

RequestHeader == 2

(* recv_message_size, by the struct format of the command.                 *)
AnswerHeader == CASE command \in {"push", "pull"} -> 2
                  [] command = "stat" -> 4
                  [] command = "list" -> 5

Path == [i \in 1 .. PathLen |-> DataWord(0)]

Words(n) == [i \in 1 .. n |-> DataWord(i)]

Least(a, b) == IF a <= b THEN a ELSE b

(* A whole packet per chunk.                                               *)
WholePacketChunks == Least(MAX_CHUNK, maxdata)

max_chunk_size ==
  LET m == Least(MAX_CHUNK, maxdata \div 2) IN IF m = 0 THEN MAX_PUSH ELSE m

(* stream.read(max_chunk_size) until it returns nothing.                   *)
ChunksOf(f) ==
  LET c == max_chunk_size
  IN  [i \in 1 .. (Len(f) + c - 1) \div c |->
         SubSeq(f, (i - 1) * c + 1, Least(i * c, Len(f)))]

(* The requests of a command, in order.                                    *)
Requests(cmd, f) ==
  LET chunks == ChunksOf(f)
  IN  CASE cmd = "push" ->
             << Frame("SEND", RequestHeader, Path) >>
             \o [i \in DOMAIN chunks |-> Frame("DATA", RequestHeader, chunks[i])]
             \o << Frame("DONE", RequestHeader, <<>>) >>
        [] cmd = "pull" -> << Frame("RECV", RequestHeader, Path) >>
        [] cmd = "list" -> << Frame("LIST", RequestHeader, Path) >>
        [] cmd = "stat" -> << Frame("STAT", RequestHeader, Path) >>

Packet == [cmd : {"OKAY", "WRTE", "CLSE"}, data : Seq(Word)]

Msg(cmd, data) == [cmd |-> cmd, data |-> data]

DevReady == [st |-> "wait", in |-> <<>>, file |-> <<>>, out |-> <<>>, ready |-> TRUE,
             at |-> 0]

(* Exceptions of the host's files, and of another stream's command.        *)
OtherErrors == {"FileNotFoundError", "UnsupportedOperation", "AdbConnectionError"}

Outcomes == {"none", "ok", "PushFailedError", "AdbCommandFailureException",
             "InvalidResponseError", "AdbTimeoutError"} \cup OtherErrors

TypeOK ==
  /\ command \in Commands
  /\ left \in 0 .. MaxFiles /\ local_path_is_dir \in BOOLEAN
  /\ file \in Seq(Word) /\ todo \in Seq(Seq(Word))
  /\ pc \in {"mkdir", "open", "stat", "add", "flushed", "await", "awaitlast", "read", "header", "data", "clse",
             "closing", "end"}
  /\ send_buffer \in Seq(Word) /\ Len(send_buffer) <= maxdata
  /\ recv_buffer \in Seq(Word)
  /\ header \in [id : Ids \cup {"pad", "data"}, size : Nat] /\ got \in Seq(Word)
  /\ outcome \in Outcomes
  /\ to_dev \in Seq(Packet) /\ to_host \in Seq(Packet)
  /\ dev \in [st : {"wait", "push", "answer", "failed", "done", "closed"}, in : Seq(Word),
              file : Seq(Word), out : Seq(Word), ready : BOOLEAN, at : Nat]

(* A pull with a progress_callback asks for the size first.                *)
FirstSteps(cmd) == CASE cmd = "push" -> {"mkdir", "open"}
                     [] cmd = "pull" -> {"stat", "add"}
                     [] OTHER        -> {"add"}

(* The file of a pull or a listing is the device's; its stream is open.    *)
Init ==
  /\ command \in Commands
  /\ pc \in FirstSteps(command)
  /\ local_path_is_dir = (pc = "mkdir")
  /\ left \in IF local_path_is_dir THEN 0 .. MaxFiles ELSE {0}
  /\ \E n \in IF command = "push" THEN {0} ELSE Sizes : file = Words(n)
  /\ todo = Requests(command, file)
  /\ send_buffer = <<>> /\ recv_buffer = <<>>
  /\ header = [id |-> "pad", size |-> 0]
  /\ got = <<>>
  /\ outcome = "none"
  /\ to_dev = <<>> /\ to_host = <<>>
  /\ dev = DevReady

-----------------------------------------------------------------------------
(* The files of a push, and the callbacks.                                 *)

Fails(error, next) ==
  /\ outcome' = error /\ pc' = next
  /\ UNCHANGED <<command, left, local_path_is_dir, file, todo, send_buffer, recv_buffer, header,
                 got, to_dev, to_host, dev>>

(* The shell command that makes the directory (module AdbStreams).  There  *)
(* may be no file in it.                                                   *)
Mkdir ==
  /\ pc = "mkdir"
  /\ \/ Fails("AdbConnectionError", "end")
     \/ left = 0 /\ Fails("ok", "end")
     \/ /\ left > 0 /\ left' = left - 1
        /\ pc' = "open"
        /\ UNCHANGED <<command, local_path_is_dir, file, todo, send_buffer, recv_buffer, header,
                       got, outcome, to_dev, to_host, dev>>

(* A file is opened, then a stream.  os.listdir gives names without the    *)
(* directory: open finds what the working directory has by that name.      *)
OpenFile ==
  /\ pc = "open"
  /\ \/ Fails("FileNotFoundError", "end")
     \/ /\ \E n \in Sizes : file' = Words(n)
        /\ todo' = Requests(command, file')
        /\ pc' = "add" /\ outcome' = "none"
        /\ send_buffer' = <<>> /\ recv_buffer' = <<>>
        /\ to_dev' = <<>> /\ to_host' = <<>> /\ dev' = DevReady
        /\ UNCHANGED <<command, left, local_path_is_dir, header, got>>

(* _push with a progress_callback, after SEND: a BytesIO has no fileno.    *)
FileSize ==
  /\ command = "push" /\ ~local_path_is_dir
  /\ pc = "add" /\ send_buffer = Requests(command, file)[1]
  /\ Fails("UnsupportedOperation", "end")

(* _pull with a progress_callback: stat, on another stream.                *)
StatBefore ==
  /\ pc = "stat"
  /\ Fails("none", "add") \/ Fails("AdbConnectionError", "clse")

-----------------------------------------------------------------------------
(* The client's requests.                                                  *)

request == <<command, left, local_path_is_dir, file>>

(* can_add_to_send_buffer, for a frame: the length it adds is reckoned     *)
(* with the header of an answer.                                           *)
can_add_to_send_buffer(f) ==
  Len(send_buffer) + AnswerHeader + (Len(f) - RequestHeader) < maxdata

(* The end of _filesync_send.                                              *)
AddFrame ==
  /\ send_buffer' = send_buffer \o Head(todo)
  /\ todo' = Tail(todo)
  /\ pc' = "add"
  /\ UNCHANGED <<request, recv_buffer, header, got, outcome, to_dev, to_host, dev>>

(* The sending half of _filesync_flush.                                    *)
Flush(next) ==
  /\ to_dev' = Append(to_dev, Msg("WRTE", send_buffer))
  /\ pc' = next
  /\ UNCHANGED <<request, todo, send_buffer, recv_buffer, header, got, outcome, to_host, dev>>

AlwaysAdd == pc = "add" /\ todo # <<>> /\ AddFrame

(* _filesync_send: a frame that does not fit is added after a flush.       *)
FilesyncSend ==
  /\ pc = "add" /\ todo # <<>>
  /\ IF can_add_to_send_buffer(Head(todo)) THEN AddFrame ELSE Flush("await")

AddAfterFlush == pc = "flushed" /\ AddFrame

(* The rest of _filesync_flush: the OKAY arrives, send_idx is reset.       *)
Flushed(buffer) ==
  /\ pc \in {"await", "awaitlast"}
  /\ to_host # <<>> /\ Head(to_host).cmd = "OKAY"
  /\ to_host' = Tail(to_host)
  /\ send_buffer' = buffer
  /\ pc' = IF pc = "await" THEN "flushed" ELSE "header"
  /\ UNCHANGED <<request, todo, recv_buffer, header, got, outcome, to_dev, dev>>

FlushKeepsBuffer == Flushed(send_buffer)

FlushDone == Flushed(<<>>)

-----------------------------------------------------------------------------
(* The client's answers.                                                   *)

(* _filesync_read begins with what is left in the send buffer.             *)
BeginRead ==
  /\ pc = "add" /\ todo = <<>>
  /\ pc' = "read"
  /\ UNCHANGED <<request, todo, send_buffer, recv_buffer, header, got, outcome,
                 to_dev, to_host, dev>>

FilesyncRead ==
  /\ pc = "read"
  /\ \/ send_buffer # <<>> /\ Flush("awaitlast")
     \/ /\ send_buffer = <<>>
        /\ pc' = "header"
        /\ UNCHANGED <<request, todo, send_buffer, recv_buffer, header, got, outcome,
                       to_dev, to_host, dev>>

(* The words _filesync_read_buffered waits for.                            *)
Needed == IF pc = "header" THEN AnswerHeader
          ELSE IF header.id = "STAT" THEN 0 ELSE header.size

(* One turn of its loop: a WRTE is acknowledged and buffered.              *)
FillBuffer ==
  /\ pc \in {"header", "data"} /\ Len(recv_buffer) < Needed
  /\ to_host # <<>> /\ Head(to_host).cmd = "WRTE"
  /\ recv_buffer' = recv_buffer \o Head(to_host).data
  /\ to_host' = Tail(to_host)
  /\ to_dev' = Append(to_dev, Msg("OKAY", <<>>))
  /\ UNCHANGED <<request, pc, todo, send_buffer, header, got, outcome, dev>>

(* What it leaves in the buffer.                                           *)
NothingLeft == <<>>

Remaining == SubSeq(recv_buffer, Needed + 1, Len(recv_buffer))

ReadHeader ==
  /\ pc = "header" /\ Len(recv_buffer) >= Needed
  /\ header' = [id |-> recv_buffer[1].id, size |-> recv_buffer[AnswerHeader].size]
  /\ recv_buffer' = Remaining
  /\ pc' = "data"
  /\ UNCHANGED <<request, todo, send_buffer, got, outcome, to_dev, to_host, dev>>

(* expected_ids, with finish_ids.                                          *)
Finish == CASE command = "push" -> {"OKAY"}
            [] command = "stat" -> {"STAT"}
            [] OTHER            -> {"DONE"}
Goes == CASE command = "pull" -> {"DATA"}
          [] command = "list" -> {"DENT"}
          [] OTHER            -> {}

Error(id) == CASE id = "FAIL" /\ command = "push" -> "PushFailedError"
               [] id = "FAIL" /\ command # "push" -> "AdbCommandFailureException"
               [] OTHER                           -> "InvalidResponseError"

(* What a command does with a frame: keep the data and read on, or end.    *)
(* Only pull closes its stream when it fails.                              *)
Handle(id, data, closed) ==
  \/ /\ id \in Goes
     /\ got' = got \o data
     /\ pc' = "read"
     /\ UNCHANGED outcome
  \/ /\ id \in Finish
     /\ outcome' = "ok"
     /\ pc' = "clse"
     /\ UNCHANGED got
  \/ /\ id \notin Goes \cup Finish
     /\ outcome' = Error(id)
     /\ pc' = IF command \in closed THEN "clse" ELSE "end"
     /\ UNCHANGED got

NeverCloses(id, data) == Handle(id, data, {})

HandleFrame(id, data) == Handle(id, data, {"pull"})

ReadData ==
  /\ pc = "data" /\ Len(recv_buffer) >= Needed
  /\ HandleFrame(header.id, SubSeq(recv_buffer, 1, Needed))
  /\ recv_buffer' = Remaining
  /\ UNCHANGED <<request, todo, send_buffer, header, to_dev, to_host, dev>>

(* _clse: send a CLSE and wait for one.  A push goes on to the next file.  *)
SendClse ==
  /\ pc = "clse"
  /\ to_dev' = Append(to_dev, Msg("CLSE", <<>>))
  /\ pc' = "closing"
  /\ UNCHANGED <<request, todo, send_buffer, recv_buffer, header, got, outcome, to_host, dev>>

ReadClse ==
  /\ pc = "closing"
  /\ to_host # <<>> /\ Head(to_host).cmd = "CLSE"
  /\ to_host' = Tail(to_host)
  /\ IF left > 0 THEN left' = left - 1 /\ pc' = "open"
                 ELSE left' = left /\ pc' = "end"
  /\ UNCHANGED <<command, local_path_is_dir, file, todo, send_buffer, recv_buffer, header, got,
                 outcome, to_dev, dev>>

(* _AdbIOManager.read drops a packet of the stream that its caller does    *)
(* not expect, and sends no OKAY for it.                                   *)
Expected == CASE pc \in {"await", "awaitlast"} -> {"OKAY"}
              [] pc \in {"header", "data"}     -> {"WRTE"}
              [] pc = "closing"                -> {"CLSE"}

Waiting == \/ pc \in {"await", "awaitlast", "closing"}
           \/ pc \in {"header", "data"} /\ Len(recv_buffer) < Needed

DropPacket ==
  /\ Waiting
  /\ to_host # <<>> /\ Head(to_host).cmd \notin Expected
  /\ to_host' = Tail(to_host)
  /\ UNCHANGED <<client, to_dev, dev>>

-----------------------------------------------------------------------------
(* The device (adbd and its sync service), as far as the client's code and *)
(* tests show it.                                                          *)

DevPacket(m) ==
  CASE m.cmd = "WRTE" -> /\ dev' = [dev EXCEPT !.in = @ \o m.data]
                         /\ to_host' = Append(to_host, Msg("OKAY", <<>>))
    [] m.cmd = "OKAY" -> dev' = [dev EXCEPT !.ready = TRUE] /\ UNCHANGED to_host
    [] m.cmd = "CLSE" -> /\ dev' = [dev EXCEPT !.st = "closed"]
                         /\ to_host' = Append(to_host, Msg("CLSE", <<>>))

DevReceive ==
  /\ to_dev # <<>>
  /\ to_dev' = Tail(to_dev)
  /\ DevPacket(Head(to_dev))
  /\ UNCHANGED client

(* A whole request has arrived; the size of a DONE is a time.              *)
RequestSize == IF dev.in[1].id = "DONE" THEN RequestHeader
               ELSE RequestHeader + dev.in[2].size

HasRequest == Len(dev.in) >= RequestHeader /\ Len(dev.in) >= RequestSize

(* A failure has the header of a pull, whatever the command, and a reason  *)
(* whose words are no small numbers.                                       *)
Failures == {Frame("FAIL", 2, [i \in 1 .. n |-> DataWord(9 * maxdata)]) : n \in {1, 4}}

DevAnswers(st, answer) == dev' = [dev EXCEPT !.st = st, !.in = <<>>, !.out = answer]

DevFails ==
  DevMayFail /\ \E f \in Failures : dev' = [dev EXCEPT !.st = "failed", !.in = <<>>, !.out = f]

DevRequest(id, data, rest) ==
  \/ id = "SEND" /\ dev' = [dev EXCEPT !.st = "push", !.in = rest]
  \/ id = "DATA" /\ dev' = [dev EXCEPT !.file = @ \o data, !.in = rest]
  \/ id = "DONE" /\ dev' = [dev EXCEPT !.st = "done", !.in = rest,
                                        !.out = Frame("OKAY", 2, <<>>)]
  \/ id \in {"RECV", "LIST"} /\ (DevAnswers("answer", <<>>) \/ DevFails)
  \/ id = "STAT" /\ (DevAnswers("done", Frame("STAT", 4, <<>>)) \/ DevFails)

(* A failed push swallows what still arrives.                              *)
DevParse ==
  /\ HasRequest /\ dev.st \in {"wait", "push", "failed"}
  /\ LET n == RequestSize
         rest == SubSeq(dev.in, n + 1, Len(dev.in))
     IN  IF dev.st = "failed" THEN dev' = [dev EXCEPT !.in = rest]
         ELSE DevRequest(dev.in[1].id, SubSeq(dev.in, RequestHeader + 1, n), rest)
  /\ UNCHANGED <<client, to_dev, to_host>>

(* The file, or the listing, in frames of any size.                        *)
DevEntry ==
  \E k \in 1 .. MaxEntry :
    /\ dev.at + k <= Len(file)
    /\ \E id \in Goes :
         dev' = [dev EXCEPT
           !.out = @ \o Frame(id, AnswerHeader, SubSeq(file, dev.at + 1, dev.at + k)),
           !.at = @ + k]

DevAnswer ==
  /\ dev.st = "answer"
  /\ \/ DevEntry
     \/ /\ dev.at = Len(file)
        /\ dev' = [dev EXCEPT !.st = "done",
                              !.out = @ \o Frame("DONE", AnswerHeader, <<>>)]
  /\ UNCHANGED <<client, to_dev, to_host>>

(* The service cannot write the file, or read on, and says so at once.     *)
DevFail ==
  /\ DevMayFail /\ dev.st \in {"push", "answer"}
  /\ \E f \in Failures : dev' = [dev EXCEPT !.st = "failed", !.out = @ \o f]
  /\ UNCHANGED <<client, to_dev, to_host>>

(* A WRTE takes any part of the answer, and the next one waits for OKAY.   *)
DevSend ==
  /\ dev.st # "closed" /\ dev.ready
  /\ \E k \in 1 .. Least(Len(dev.out), maxdata) :
       /\ to_host' = Append(to_host, Msg("WRTE", SubSeq(dev.out, 1, k)))
       /\ dev' = [dev EXCEPT !.out = SubSeq(@, k + 1, Len(@)), !.ready = FALSE]
  /\ UNCHANGED <<client, to_dev>>

Device == DevReceive \/ DevParse \/ DevAnswer \/ DevSend

-----------------------------------------------------------------------------
(* The system.                                                             *)

(* Nothing can arrive any more: the wait of read ends in an exception.     *)
Timeout ==
  /\ Waiting
  /\ to_host = <<>> /\ to_dev = <<>>
  /\ ~(dev.ready /\ dev.out # <<>>) /\ ~HasRequest /\ dev.st # "answer"
  /\ outcome' = "AdbTimeoutError"
  /\ pc' = IF command = "pull" /\ pc # "closing" THEN "clse" ELSE "end"
  /\ UNCHANGED <<request, todo, send_buffer, recv_buffer, header, got, to_dev, to_host, dev>>

Client ==
  \/ Mkdir \/ OpenFile \/ FileSize \/ StatBefore
  \/ FilesyncSend \/ AddAfterFlush \/ FlushDone \/ BeginRead \/ FilesyncRead
  \/ FillBuffer \/ ReadHeader \/ ReadData \/ SendClse \/ ReadClse \/ DropPacket \/ Timeout

Ended == pc = "end" /\ UNCHANGED vars

Next == Client \/ Device \/ DevFail \/ Ended

Spec == Init /\ [][Next]_vars

FairSpec == Spec /\ WF_vars(Client) /\ WF_vars(Device)

-----------------------------------------------------------------------------
(* Properties.                                                             *)

(* No WRTE is larger than the packet size agreed with the device, although *)
(* a frame that follows a flush is added without another check and writing *)
(* past the end of send_buffer would make it longer.                       *)
WithinMaxdata ==
  \A i \in DOMAIN to_dev : Len(to_dev[i].data) <= maxdata

(* What one end has of the file is always a prefix of it, and a command    *)
(* that returns has transferred all of it: chunking, gathering frames in   *)
(* the send buffer and splitting answers at any word keep every byte in    *)
(* its place.                                                              *)
TransferIntact ==
  LET copy == IF command = "push" THEN dev.file ELSE got
  IN  /\ TypeOK
      /\ IsPrefix(copy, file)
      /\ outcome = "ok" /\ command # "stat" => copy = file

(* A command returns unless the device fails it, a file of the host cannot *)
(* be read or the mkdir or stat before it raises: nobody waits for a       *)
(* packet the other has no reason to send.                                 *)
CommandReturns ==
  <>(pc = "end" /\ outcome = "ok")
    \/ <>(dev.st = "failed") \/ <>(outcome \in OtherErrors)

(* A failure of the device always ends the command, a pull with the        *)
(* exception that names it and with the stream closed at the device.  A    *)
(* list or a stat waits for a longer header than a failure has, until it   *)
(* times out (adb_device.py:1410), and never takes it for an answer.       *)
FailureEnds ==
  /\ dev.st = "failed" ~> pc = "end" /\ outcome # "ok"
  /\ command = "pull" /\ dev.st = "failed"
       ~> outcome = "AdbCommandFailureException" /\ dev.st = "closed"
=============================================================================
